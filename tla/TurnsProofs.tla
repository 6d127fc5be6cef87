----------------------------- MODULE TurnsProofs ----------------------------
(***************************************************************************)
(* A turn keeps its promises on every surface, whatever a provider says    *)
(* and for every value of the bounds.  The inductive invariant (TurnInv)   *)
(* says of a turn that goes on that what a surface has open belongs to an  *)
(* item that is (Shows and Together), with the invariants of the surfaces  *)
(* and of the translator, and of a turn that is over how each surface      *)
(* ended.                                                                  *)
(***************************************************************************)
EXTENDS TurnTellingProofs

-----------------------------------------------------------------------------
(* GeminiTurn, as GeminiContents extends it.                               *)

CacheEntry == [id : Nat, signature : Nat]
GeminiT ==
  [started : BOOLEAN, next_index : Nat, open : OpenItem, unclaimed : Nat, seen_calls : SUBSET Nat,
   finish_reason : Reasons, finished : BOOLEAN, refused : BOOLEAN, cache : Seq(CacheEntry),
   out : Seq(TurnEvent)]
GeminiTyped(t) == t \in GeminiT /\ Len(t.cache) <= Capacity
GeminiInv(t) ==
  GeminiTyped(t) /\ ~t.finished /\ ~t.refused /\ Telling(t.out, t.open, t.next_index)
GeminiDone(t) == GeminiTyped(t) /\ t.finished /\ ~t.refused /\ \E type : Finished(t.out, type)
GeminiRefused(t) == GeminiTyped(t) /\ t.refused

\* The cache of signatures forgets the least recently used.
LEMMA KeepingIs ==
  ASSUME NEW cache \in Seq(CacheEntry), NEW id, NEW u, u = Gemini!Keeping(cache, id)
  PROVE  u \in Seq(CacheEntry) /\ Len(u) <= Len(cache)
<1> DEFINE I == {i \in 1..Len(cache) : cache[i].id = id}
<1>1. CASE I = {}
  <2>1. u = cache
    BY <1>1 DEF Gemini!Keeping, Gemini!RemoveFirstMatch
  <2> QED BY <2>1
<1>2. CASE I # {}
  <2>1. I \subseteq Nat
    OBVIOUS
  <2>2. PICK x \in I : \A y \in I : x <= y
    BY <1>2, <2>1, LeastOf
  <2>3. PICK i : i = Gemini!Min(I)
    OBVIOUS
  <2>4. i \in I
    BY <2>2, <2>3 DEF Gemini!Min
  <2>5. u = Gemini!RemoveAt(cache, i)
    BY <1>2, <2>3 DEF Gemini!Keeping, Gemini!RemoveFirstMatch, Gemini!SelectInSeq
  <2>6. i \in Int /\ 1 <= i /\ i <= Len(cache) /\ Len(cache) \in Nat
    BY <2>4
  <2>7. PICK a, b : a = SubSeq(cache, 1, i - 1) /\ b = SubSeq(cache, i + 1, Len(cache))
    OBVIOUS
  <2>8. a \in Seq(CacheEntry) /\ Len(a) = i - 1
    BY <2>6, <2>7, SubSeqProperties
  <2>9. b \in Seq(CacheEntry) /\ Len(b) = Len(cache) - i
    BY <2>6, <2>7, SubSeqProperties
  <2>10. u = a \o b
    BY <2>5, <2>7 DEF Gemini!RemoveAt
  <2>11. u \in Seq(CacheEntry) /\ Len(u) = Len(a) + Len(b)
    BY <2>8, <2>9, <2>10, ConcatProperties
  <2> QED BY <2>6, <2>8, <2>9, <2>11
<1> QED BY <1>1, <1>2

\* It never holds more than Capacity.
LEMMA RememberIs ==
  ASSUME NEW cache \in Seq(CacheEntry), Len(cache) <= Capacity, NEW id \in Nat,
         NEW signature \in Nat, NEW u, u = Gemini!Remember(cache, id, signature)
  PROVE  u \in Seq(CacheEntry) /\ Len(u) <= Capacity
<1>1. PICK kept : kept = Gemini!Keeping(cache, id)
  OBVIOUS
<1>2. PICK entry \in CacheEntry : entry = [id |-> id, signature |-> signature]
  BY DEF CacheEntry
<1>3. kept \in Seq(CacheEntry) /\ Len(kept) <= Len(cache) /\ Len(cache) \in Nat /\ Len(kept) \in Nat
  BY <1>1, KeepingIs
<1>4. PICK more : more = Append(kept, entry)
  OBVIOUS
<1>5. more \in Seq(CacheEntry) /\ Len(more) = Len(kept) + 1
  BY <1>3, <1>4
<1>6. u = IF Len(more) > Capacity THEN Tail(more) ELSE more
  BY <1>1, <1>2, <1>4 DEF Gemini!Remember
<1>7. Capacity \in Nat
  BY BoundsAssumption
<1>8. Tail(more) \in Seq(CacheEntry) /\ Len(Tail(more)) = Len(more) - 1
  BY <1>3, <1>5
<1> QED BY <1>3, <1>5, <1>6, <1>7, <1>8

LEMMA GeminiEvents ==
  /\ Gemini!Created = Created /\ Gemini!Nothing \in OpenItem /\ Gemini!Nothing.kind = "none"
  /\ \A type : Gemini!Event(type) = Event(type)
  /\ \A i, kind, id : Gemini!AddedEvent(i, kind, id) = AddedEvent(i, kind, id)
  /\ \A type, i, data : Gemini!DeltaEvent(type, i, data) = DeltaEvent(type, i, data)
  /\ \A i, kind, id, data, signature :
       Gemini!DoneEvent(i, kind, id, data, signature) = DoneEvent(i, kind, id, data, signature)
  /\ \A i, id, data : Gemini!CallEvents(i, id, data) = CallTelling(i, id, data)
<1>1. \A type : Gemini!Event(type) = Event(type)
  BY DEF Gemini!Event, Event
<1>2. Gemini!Created = Created
  BY <1>1 DEF Gemini!Created, Created
<1>3. Gemini!Nothing \in OpenItem /\ Gemini!Nothing.kind = "none"
  BY DEF Gemini!Nothing, OpenItem, Pieced
<1>4. \A i, kind, id : Gemini!AddedEvent(i, kind, id) = AddedEvent(i, kind, id)
  BY <1>1, Zenon DEF Gemini!AddedEvent, AddedEvent
<1>5. \A type, i, data : Gemini!DeltaEvent(type, i, data) = DeltaEvent(type, i, data)
  BY <1>1, Zenon DEF Gemini!DeltaEvent, DeltaEvent
<1>6. \A i, kind, id, data, signature :
        Gemini!DoneEvent(i, kind, id, data, signature) = DoneEvent(i, kind, id, data, signature)
  BY Zenon DEF Gemini!DoneEvent, DoneEvent
<1>7. \A i, id, data : Gemini!CallEvents(i, id, data) = CallTelling(i, id, data)
  BY <1>4, <1>5, <1>6, Zenon DEF Gemini!CallEvents, CallTelling
<1> QED BY <1>1, <1>2, <1>3, <1>4, <1>5, <1>6, <1>7

\* A turn that has told more, with whatever else it remembers.
LEMMA GeminiTold ==
  ASSUME NEW t, GeminiInv(t), NEW u, GeminiTyped(u), u.finished = t.finished,
         u.refused = t.refused, Telling(u.out, u.open, u.next_index)
  PROVE  GeminiInv(u)
BY DEF GeminiInv

LEMMA GeminiStartKeeps ==
  ASSUME NEW t, GeminiInv(t), NEW u, u = Gemini!Start(t)
  PROVE  GeminiInv(u)
<1>1. CASE t.started
  BY <1>1 DEF Gemini!Start
<1>2. CASE ~t.started
  <2> DEFINE more == t.out \o <<Created>>
  <2>0. t \in GeminiT /\ Len(t.cache) <= Capacity /\ Telling(t.out, t.open, t.next_index)
    BY DEF GeminiInv, GeminiTyped
  <2>1. u = [t EXCEPT !.started = TRUE, !.out = more]
    BY <1>2, <2>0, GeminiEvents DEF Gemini!Start, Gemini!Emit, GeminiT
  <2>2. Telling(more, t.open, t.next_index)
    BY <2>0, TellSign
  <2> HIDE DEF more
  <2>3. more \in Seq(TurnEvent)
    BY <2>2 DEF Telling, Retelling
  <2>4. /\ u \in GeminiT /\ u.cache = t.cache /\ u.out = more /\ u.open = t.open
        /\ u.next_index = t.next_index /\ u.finished = t.finished /\ u.refused = t.refused
    BY <2>0, <2>1, <2>3 DEF GeminiT
  <2> QED BY <2>0, <2>2, <2>4, GeminiTold DEF GeminiTyped
<1> QED BY <1>1, <1>2

LEMMA GeminiOpenKeeps ==
  ASSUME NEW t, GeminiInv(t), t.open.kind = "none", NEW kind \in {"message", "reasoning"},
         NEW u, u = Gemini!Open(t, kind)
  PROVE  GeminiInv(u) /\ u.open.kind = kind
<1> DEFINE n == t.next_index
           e == AddedEvent(n, kind, 0)
           next == [kind |-> kind, index |-> n, text |-> <<>>]
           more == t.out \o <<e>>
<1>1. t \in GeminiT /\ Len(t.cache) <= Capacity /\ n \in Nat /\ Telling(t.out, t.open, n)
  BY DEF GeminiInv, GeminiTyped, GeminiT
<1>2. u = [t EXCEPT !.open = next, !.next_index = n + 1, !.out = more]
  BY <1>1, GeminiEvents DEF Gemini!Open, Gemini!Emit, GeminiT
<1>3. Telling(more, next, n + 1)
  BY <1>1, TellNew
<1>4. next.kind = kind
  OBVIOUS
<1> HIDE DEF e, next, more
<1>5. more \in Seq(TurnEvent) /\ next \in OpenItem
  BY <1>3 DEF Telling, Retelling
<1>6. PICK count \in Nat : count = n + 1
  BY <1>1
<1>7. u = [t EXCEPT !.open = next, !.next_index = count, !.out = more]
  BY <1>2, <1>6
<1>8. /\ u \in GeminiT /\ u.open = next /\ u.out = more /\ u.next_index = count
      /\ u.cache = t.cache /\ u.finished = t.finished /\ u.refused = t.refused
  BY <1>1, <1>5, <1>7 DEF GeminiT
<1> QED BY <1>1, <1>3, <1>4, <1>6, <1>8, GeminiTold DEF GeminiTyped

\* Text or a thought.
LEMMA GeminiSpeakKeeps ==
  ASSUME NEW t, GeminiInv(t), NEW data \in Pieced, NEW type,
         \/ type = "text_delta" /\ t.open.kind = "message"
         \/ type = "thought_delta" /\ t.open.kind = "reasoning",
         NEW u, u = Gemini!Speak(t, type, data)
  PROVE  GeminiInv(u) /\ u.open.kind = t.open.kind
<1> DEFINE e == DeltaEvent(type, t.open.index, data)
           text == t.open.text \o data
           next == [t.open EXCEPT !.text = text]
           more == t.out \o <<e>>
<1>1. /\ t \in GeminiT /\ Len(t.cache) <= Capacity /\ t.open \in OpenItem /\ t.open.text \in Pieced
      /\ Telling(t.out, t.open, t.next_index)
  BY DEF GeminiInv, GeminiTyped, GeminiT, OpenItem
<1>2. u = [t EXCEPT !.open.text = text, !.out = more]
  BY <1>1, GeminiEvents DEF Gemini!Speak, Gemini!Emit, GeminiT
<1>3. u = [t EXCEPT !.open = next, !.out = more]
  BY <1>1, <1>2 DEF GeminiT
<1>4. text \in Pieced
  BY <1>1, PiecedIs
<1> HIDE DEF text
<1>5. next \in OpenItem /\ next.kind = t.open.kind /\ next.index = t.open.index
  BY <1>1, <1>4 DEF OpenItem
<1> HIDE DEF next
<1>6. Telling(more, next, t.next_index)
  BY <1>1, <1>5, TellDelta
<1> HIDE DEF more
<1>7. more \in Seq(TurnEvent)
  BY <1>6 DEF Telling, Retelling
<1>8. /\ u \in GeminiT /\ u.open = next /\ u.out = more /\ u.next_index = t.next_index
      /\ u.cache = t.cache /\ u.finished = t.finished /\ u.refused = t.refused
  BY <1>1, <1>3, <1>5, <1>7 DEF GeminiT
<1> QED BY <1>1, <1>5, <1>6, <1>8, GeminiTold DEF GeminiTyped

\* The open thought is closed, with its signature if it has one.
LEMMA GeminiCloseReasoning ==
  ASSUME NEW t, GeminiInv(t), t.open.kind = "reasoning", NEW signature \in Nat,
         NEW u, u = Gemini!CloseReasoning(t, signature)
  PROVE  GeminiInv(u) /\ u.open.kind = "none"
<1>1. /\ t \in GeminiT /\ Len(t.cache) <= Capacity /\ t.open \in OpenItem /\ t.open.text \in Pieced
      /\ Telling(t.out, t.open, t.next_index) /\ t.unclaimed \in Nat
  BY DEF GeminiInv, GeminiTyped, GeminiT, OpenItem
<1>2. PICK nothing \in OpenItem : nothing = Gemini!Nothing /\ nothing.kind = "none"
  BY GeminiEvents
<1>3. PICK unclaimed \in Nat :
        unclaimed = IF t.open.text = <<>> /\ signature # 0 THEN signature ELSE t.unclaimed
  BY <1>1
<1> DEFINE done == DoneEvent(t.open.index, t.open.kind, 0, t.open.text, signature)
           more == t.out \o <<done>>
<1>4. Telling(more, nothing, t.next_index)
  BY <1>1, <1>2, TellDone
<1>5. u = [t EXCEPT !.open = nothing, !.unclaimed = unclaimed, !.out = more]
  BY <1>1, <1>2, <1>3, GeminiEvents DEF Gemini!CloseReasoning, Gemini!Emit, GeminiT
<1> HIDE DEF more
<1>6. more \in Seq(TurnEvent)
  BY <1>4 DEF Telling, Retelling
<1>7. /\ u \in GeminiT /\ u.open = nothing /\ u.out = more /\ u.next_index = t.next_index
      /\ u.cache = t.cache /\ u.finished = t.finished /\ u.refused = t.refused
  BY <1>1, <1>5, <1>6 DEF GeminiT
<1> QED BY <1>1, <1>2, <1>4, <1>7, GeminiTold DEF GeminiTyped

LEMMA TellMessage ==
  ASSUME NEW out, NEW open, NEW n, Telling(out, open, n), open.kind = "message",
         NEW next \in OpenItem, next.kind = "none",
         NEW text, text = DeltaEvent("text_done", open.index, open.text),
         NEW done, done = DoneEvent(open.index, open.kind, 0, open.text, 0)
  PROVE  Telling(out \o <<text, done>>, next, n)
<1>1. /\ out \in Seq(TurnEvent) /\ open \in OpenItem /\ open.text \in Pieced /\ open.index \in Nat
      /\ 0 \in Nat
  BY DEF Telling, Retelling, OpenItem
<1>2. Telling(out \o <<text>>, open, n)
  BY <1>1, TellTextDone
<1>3. Telling((out \o <<text>>) \o <<done>>, next, n)
  BY <1>1, <1>2, TellDone
<1>4. text \in TurnEvent /\ done \in TurnEvent
  <2>1. "text_done" \in EventTypes /\ open.kind \in Kinds
    BY DEF EventTypes, Kinds
  <2> QED BY <1>1, <2>1, DeltaIs, DoneIs
<1>5. out \o <<text, done>> = (out \o <<text>>) \o <<done>>
  BY <1>1, <1>4, Concat2
<1> QED BY <1>3, <1>5

LEMMA GeminiCloseMessage ==
  ASSUME NEW t, GeminiInv(t), t.open.kind = "message", NEW u, u = Gemini!CloseMessage(t)
  PROVE  GeminiInv(u) /\ u.open.kind = "none"
<1>1. /\ t \in GeminiT /\ Len(t.cache) <= Capacity /\ t.open \in OpenItem /\ t.open.text \in Pieced
      /\ t.open.index \in Nat /\ Telling(t.out, t.open, t.next_index) /\ t.out \in Seq(TurnEvent)
      /\ 0 \in Nat
  BY DEF GeminiInv, GeminiTyped, GeminiT, OpenItem
<1>2. PICK nothing \in OpenItem : nothing = Gemini!Nothing /\ nothing.kind = "none"
  BY GeminiEvents
<1>3. PICK text, done : /\ text = DeltaEvent("text_done", t.open.index, t.open.text)
                        /\ done = DoneEvent(t.open.index, t.open.kind, 0, t.open.text, 0)
  OBVIOUS
<1>4. PICK more : more = t.out \o <<text, done>>
  OBVIOUS
<1>5. u = [t EXCEPT !.open = nothing, !.out = more]
  BY <1>1, <1>2, <1>3, <1>4, GeminiEvents DEF Gemini!CloseMessage, Gemini!Emit, GeminiT
<1>8. Telling(more, nothing, t.next_index)
  BY <1>1, <1>2, <1>3, <1>4, TellMessage
<1>9. more \in Seq(TurnEvent)
  BY <1>8 DEF Telling, Retelling
<1>10. /\ u \in GeminiT /\ u.open = nothing /\ u.out = more /\ u.next_index = t.next_index
       /\ u.cache = t.cache /\ u.finished = t.finished /\ u.refused = t.refused
  BY <1>1, <1>5, <1>9 DEF GeminiT
<1> QED BY <1>1, <1>2, <1>8, <1>10, GeminiTold DEF GeminiTyped

\* Whatever is open is closed.
LEMMA GeminiCloseKeeps ==
  ASSUME NEW t, GeminiInv(t), NEW u, u = Gemini!Close(t)
  PROVE  GeminiInv(u) /\ u.open.kind = "none"
<1>1. t.open.kind \in {"none", "message", "reasoning"}
  BY DEF GeminiInv, GeminiTyped, GeminiT, OpenItem
<1>2. CASE t.open.kind = "message"
  BY <1>2, GeminiCloseMessage DEF Gemini!Close
<1>3. CASE t.open.kind = "reasoning"
  <2>1. 0 \in Nat
    OBVIOUS
  <2> QED BY <1>3, <2>1, GeminiCloseReasoning DEF Gemini!Close
<1>4. CASE t.open.kind = "none"
  BY <1>4 DEF Gemini!Close
<1> QED BY <1>1, <1>2, <1>3, <1>4

LEMMA GeminiOpenAsKeeps ==
  ASSUME NEW t, GeminiInv(t), NEW kind \in {"message", "reasoning"}, NEW u, u = Gemini!OpenAs(t, kind)
  PROVE  GeminiInv(u) /\ u.open.kind = kind
<1>1. CASE t.open.kind = kind
  BY <1>1 DEF Gemini!OpenAs
<1>2. CASE t.open.kind # kind
  <2>1. PICK closed : closed = Gemini!Close(t)
    OBVIOUS
  <2>2. GeminiInv(closed) /\ closed.open.kind = "none"
    BY <2>1, GeminiCloseKeeps
  <2>3. u = Gemini!Open(closed, kind)
    BY <1>2, <2>1 DEF Gemini!OpenAs
  <2> QED BY <2>2, <2>3, GeminiOpenKeeps
<1> QED BY <1>1, <1>2

\* Only what the translator remembers of signatures has changed.
LEMMA GeminiClaims ==
  ASSUME NEW t, GeminiInv(t), NEW unclaimed \in Nat, NEW u, u = [t EXCEPT !.unclaimed = unclaimed]
  PROVE  GeminiInv(u) /\ u.open = t.open
<1>1. t \in GeminiT /\ Len(t.cache) <= Capacity /\ Telling(t.out, t.open, t.next_index)
  BY DEF GeminiInv, GeminiTyped
<1>2. /\ u \in GeminiT /\ u.open = t.open /\ u.out = t.out /\ u.next_index = t.next_index
      /\ u.cache = t.cache /\ u.finished = t.finished /\ u.refused = t.refused
  BY <1>1 DEF GeminiT
<1> QED BY <1>1, <1>2, GeminiTold DEF GeminiTyped

LEMMA TellSignature ==
  ASSUME NEW out, NEW open, NEW n, Telling(out, open, n), open.kind = "none", NEW signature \in Nat,
         NEW added, added = AddedEvent(n, "reasoning", 0),
         NEW done, done = DoneEvent(n, "reasoning", 0, <<>>, signature)
  PROVE  Telling(out \o <<added, done>>, open, n + 1)
<1>1. PICK next : next = [kind |-> "reasoning", index |-> n, text |-> <<>>]
  OBVIOUS
<1>2. "reasoning" \in {"message", "reasoning"} /\ <<>> \in Pieced /\ open \in OpenItem
  BY DEF Telling, Pieced
<1>3. Telling(out \o <<added>>, next, n + 1)
  BY <1>1, <1>2, TellNew
<1>4. next.index = n /\ next.kind = "reasoning" /\ next.kind # "none"
  BY <1>1
<1>5. Telling((out \o <<added>>) \o <<done>>, open, n + 1)
  BY <1>2, <1>3, <1>4, TellDone
<1>6. out \in Seq(TurnEvent) /\ n \in Nat /\ 0 \in Nat
  BY DEF Telling, Retelling
<1>7. added \in TurnEvent /\ done \in TurnEvent
  <2>1. "reasoning" \in Kinds
    BY DEF Kinds
  <2> QED BY <1>2, <1>6, <2>1, AddedIs, DoneIs
<1>8. out \o <<added, done>> = (out \o <<added>>) \o <<done>>
  BY <1>6, <1>7, Concat2
<1> QED BY <1>5, <1>8

\* A signature is told as a thought's of its own.
LEMMA GeminiSignatureKeeps ==
  ASSUME NEW t, GeminiInv(t), t.open.kind = "none", NEW signature \in Nat,
         NEW u, u = Gemini!SignatureItem(t, signature)
  PROVE  GeminiInv(u) /\ u.open.kind = "none"
<1> DEFINE n == t.next_index
<1>1. t \in GeminiT /\ Len(t.cache) <= Capacity /\ n \in Nat /\ Telling(t.out, t.open, n)
  BY DEF GeminiInv, GeminiTyped, GeminiT
<1>2. PICK added, done : /\ added = AddedEvent(n, "reasoning", 0)
                         /\ done = DoneEvent(n, "reasoning", 0, <<>>, signature)
  OBVIOUS
<1>3. PICK more : more = t.out \o <<added, done>>
  OBVIOUS
<1>4. PICK count \in Nat : count = n + 1
  BY <1>1
<1>5. Telling(more, t.open, count)
  BY <1>1, <1>2, <1>3, <1>4, TellSignature
<1>6. u = [t EXCEPT !.next_index = count, !.unclaimed = signature, !.out = more]
  BY <1>1, <1>2, <1>3, <1>4, GeminiEvents DEF Gemini!SignatureItem, Gemini!Emit, GeminiT
<1>7. more \in Seq(TurnEvent)
  BY <1>5 DEF Telling, Retelling
<1>8. /\ u \in GeminiT /\ u.open = t.open /\ u.out = more /\ u.next_index = count
      /\ u.cache = t.cache /\ u.finished = t.finished /\ u.refused = t.refused
  BY <1>1, <1>6, <1>7 DEF GeminiT
<1> QED BY <1>1, <1>5, <1>8, GeminiTold DEF GeminiTyped

PartHeard(part) ==
  /\ part.kind \in {"call", "thought", "text"} /\ part.id \in Nat /\ part.data \in Pieced
  /\ part.signature \in Nat

GeminiGoes(u) == GeminiInv(u) \/ GeminiRefused(u)

LEMMA GeminiRefuses ==
  ASSUME NEW t, GeminiInv(t), NEW u, u = [t EXCEPT !.refused = TRUE]
  PROVE  GeminiRefused(u)
<1>1. t \in GeminiT /\ Len(t.cache) <= Capacity
  BY DEF GeminiInv, GeminiTyped
<1> QED BY <1>1 DEF GeminiRefused, GeminiTyped, GeminiT

\* A call, or a refusal of it.
LEMMA GeminiCallKeeps ==
  ASSUME NEW t, GeminiInv(t), t.open.kind = "none", NEW part, PartHeard(part),
         NEW u, u = Gemini!FunctionCall(t, part)
  PROVE  GeminiGoes(u)
<1>1. CASE part.id = 0 \/ part.id \in t.seen_calls
  <2>1. u = [t EXCEPT !.refused = TRUE]
    BY <1>1 DEF Gemini!FunctionCall
  <2> QED BY <2>1, GeminiRefuses DEF GeminiGoes
<1>2. CASE ~(part.id = 0 \/ part.id \in t.seen_calls)
  <2> DEFINE n == t.next_index
             more == t.out \o CallTelling(n, part.id, part.data)
  <2>1. /\ t \in GeminiT /\ t.cache \in Seq(CacheEntry) /\ Len(t.cache) <= Capacity
        /\ n \in Nat /\ Telling(t.out, t.open, n) /\ t.unclaimed \in Nat /\ part.id \in Nat
        /\ part.data \in Pieced /\ t.seen_calls \in SUBSET Nat
    BY DEF GeminiInv, GeminiTyped, GeminiT, PartHeard
  <2>2. PICK remembered : remembered = Gemini!Remember(t.cache, part.id, t.unclaimed)
    OBVIOUS
  <2>3. remembered \in Seq(CacheEntry) /\ Len(remembered) <= Capacity
    BY <2>1, <2>2, RememberIs
  <2>4. PICK cache \in Seq(CacheEntry) : /\ Len(cache) <= Capacity
                                         /\ cache = IF t.unclaimed = 0 THEN t.cache ELSE remembered
    BY <2>1, <2>3
  <2>5. PICK seen \in SUBSET Nat : seen = t.seen_calls \union {part.id}
    BY <2>1
  <2>6. PICK count \in Nat : count = n + 1
    BY <2>1
  <2>7. u = [t EXCEPT !.cache = cache, !.seen_calls = seen, !.unclaimed = 0, !.next_index = count,
                      !.out = more]
    BY <1>2, <2>1, <2>2, <2>4, <2>5, <2>6, GeminiEvents
    DEF Gemini!FunctionCall, Gemini!Emit, GeminiT
  <2>8. Telling(more, t.open, count)
    BY <2>1, <2>6, TellCalled
  <2> HIDE DEF more
  <2>9. more \in Seq(TurnEvent)
    BY <2>8 DEF Telling, Retelling
  <2>10. /\ u \in GeminiT /\ u.open = t.open /\ u.out = more /\ u.next_index = count
         /\ u.cache = cache /\ u.finished = t.finished /\ u.refused = t.refused
    <3>a. PICK x : x = [t EXCEPT !.cache = cache, !.seen_calls = seen, !.unclaimed = 0]
      OBVIOUS
    <3>b. x \in GeminiT
      BY <2>1, <3>a DEF GeminiT
    <3>c. u = [x EXCEPT !.next_index = count, !.out = more]
      BY <2>1, <2>7, <3>a DEF GeminiT
    <3>1. u \in GeminiT
      BY <2>9, <3>b, <3>c DEF GeminiT
    <3>2. /\ u.open = t.open /\ u.out = more /\ u.next_index = count
          /\ u.cache = cache /\ u.finished = t.finished /\ u.refused = t.refused
      BY <2>1, <2>7 DEF GeminiT
    <3> QED BY <3>1, <3>2
  <2>11. GeminiInv(u)
    BY <2>4, <2>8, <2>10, GeminiTold DEF GeminiTyped
  <2> QED BY <2>11 DEF GeminiGoes
<1> QED BY <1>1, <1>2

LEMMA GeminiThoughtKeeps ==
  ASSUME NEW t, GeminiInv(t), NEW part, PartHeard(part), NEW u, u = Gemini!ThoughtPart(t, part)
  PROVE  GeminiInv(u)
<1>1. PICK opened : opened = Gemini!OpenAs(t, "reasoning")
  OBVIOUS
<1>2. GeminiInv(opened) /\ opened.open.kind = "reasoning"
  BY <1>1, GeminiOpenAsKeeps
<1>3. part.data \in Pieced /\ part.signature \in Nat
  BY DEF PartHeard
<1>4. PICK uttered : uttered = IF part.data = <<>> THEN opened
                               ELSE Gemini!Speak(opened, "thought_delta", part.data)
  OBVIOUS
<1>5. GeminiInv(uttered) /\ uttered.open.kind = "reasoning"
  BY <1>2, <1>3, <1>4, GeminiSpeakKeeps
<1>6. \/ u = t
      \/ u = uttered
      \/ u = Gemini!CloseReasoning(uttered, part.signature)
  BY <1>1, <1>4 DEF Gemini!ThoughtPart
<1> QED BY <1>3, <1>5, <1>6, GeminiCloseReasoning

LEMMA GeminiTextKeeps ==
  ASSUME NEW t, GeminiInv(t), NEW part, PartHeard(part), NEW u, u = Gemini!TextPart(t, part)
  PROVE  GeminiInv(u)
<1>1. part.data \in Pieced /\ part.signature \in Nat
  BY DEF PartHeard
<1>2. PICK closed : closed = Gemini!Close(t)
  OBVIOUS
<1>3. PICK signed : signed = IF part.signature = 0 THEN t
                               ELSE Gemini!SignatureItem(closed, part.signature)
  OBVIOUS
<1>4. GeminiInv(signed)
  <2>1. GeminiInv(closed) /\ closed.open.kind = "none"
    BY <1>2, GeminiCloseKeeps
  <2> QED BY <1>1, <1>3, <2>1, GeminiSignatureKeeps
<1>5. PICK opened : opened = Gemini!OpenAs(signed, "message")
  OBVIOUS
<1>6. GeminiInv(opened) /\ opened.open.kind = "message"
  BY <1>4, <1>5, GeminiOpenAsKeeps
<1>7. PICK claimed : claimed = [opened EXCEPT !.unclaimed = 0]
  OBVIOUS
<1>8. GeminiInv(claimed) /\ claimed.open.kind = "message"
  <2>1. GeminiInv(claimed) /\ claimed.open = opened.open
    BY <1>6, <1>7, GeminiClaims
  <2> QED BY <1>6, <2>1
<1>9. u = signed \/ u = Gemini!Speak(claimed, "text_delta", part.data)
  BY <1>2, <1>3, <1>5, <1>7 DEF Gemini!TextPart
<1> QED BY <1>1, <1>4, <1>8, <1>9, GeminiSpeakKeeps

\* Any part.
LEMMA GeminiPartKeeps ==
  ASSUME NEW t, GeminiGoes(t), NEW part, PartHeard(part), NEW u, u = Gemini!Part(t, part)
  PROVE  GeminiGoes(u)
<1>1. CASE t.refused
  BY <1>1 DEF Gemini!Part
<1>2. CASE ~t.refused
  <2>0. GeminiInv(t) /\ part.signature \in Nat /\ part.kind \in {"call", "thought", "text"}
    BY <1>2 DEF GeminiGoes, GeminiRefused, PartHeard
  <2>1. CASE part.kind = "call"
    <3>1. PICK closed : closed = Gemini!Close(t)
      OBVIOUS
    <3>2. PICK signed : signed = Gemini!Signed(closed, part.signature)
      OBVIOUS
    <3>3. GeminiInv(closed) /\ closed.open.kind = "none"
      BY <2>0, <3>1, GeminiCloseKeeps
    <3>4. GeminiInv(signed) /\ signed.open.kind = "none"
      BY <2>0, <3>2, <3>3, GeminiSignatureKeeps DEF Gemini!Signed
    <3>5. u = Gemini!FunctionCall(signed, part)
      BY <1>2, <2>1, <3>1, <3>2 DEF Gemini!Part
    <3> QED BY <3>4, <3>5, GeminiCallKeeps
  <2>2. CASE part.kind = "thought"
    <3>1. u = Gemini!ThoughtPart(t, part)
      BY <1>2, <2>2 DEF Gemini!Part
    <3> QED BY <2>0, <3>1, GeminiThoughtKeeps DEF GeminiGoes
  <2>3. CASE part.kind = "text"
    <3>1. u = Gemini!TextPart(t, part)
      BY <1>2, <2>3 DEF Gemini!Part
    <3> QED BY <2>0, <3>1, GeminiTextKeeps DEF GeminiGoes
  <2> QED BY <2>0, <2>1, <2>2, <2>3
<1> QED BY <1>1, <1>2

PartFold == INSTANCE FoldFacts WITH Op <- Gemini!Part

\* A part that Antigravity sent.
PartSaid ==
  [kind : {"call", "thought", "text"}, id : Nat, data : Pieced, signature : Nat]

\* The parts of an event.
LEMMA GeminiPartsKeep ==
  ASSUME NEW t, GeminiInv(t), NEW parts \in Seq(PartSaid), NEW u,
         u = Gemini!FoldLeft(Gemini!Part, t, parts)
  PROVE  GeminiGoes(u)
<1> DEFINE Q == {x \in GeminiT : GeminiGoes(x)}
<1>1. t \in Q
  BY DEF GeminiGoes, GeminiInv, GeminiTyped
<1>2. ASSUME NEW x \in Q, NEW part \in PartSaid PROVE Gemini!Part(x, part) \in Q
  <2>1. PICK y : y = Gemini!Part(x, part)
    OBVIOUS
  <2>2. PartHeard(part)
    BY DEF PartHeard, PartSaid
  <2>3. GeminiGoes(y)
    BY <2>1, <2>2, GeminiPartKeeps
  <2>4. y \in GeminiT
    BY <2>3 DEF GeminiGoes, GeminiInv, GeminiRefused, GeminiTyped
  <2> QED BY <2>1, <2>3, <2>4
<1> HIDE DEF Q
<1>3. u = PartFold!Folded(t, parts)
  BY Zenon DEF Gemini!FoldLeft, PartFold!Folded, Gemini!MapThenFoldSet, PartFold!MapThenFoldSet,
     Gemini!Max, PartFold!Greatest
<1>4. PartFold!Folded(t, parts) \in Q
  BY <1>1, <1>2, PartFold!FoldedKeeps
<1> QED BY <1>3, <1>4 DEF Q

\* The reason of a finish.
LEMMA GeminiReasons ==
  ASSUME NEW t, GeminiInv(t), NEW reason \in Reasons, NEW u, u = [t EXCEPT !.finish_reason = reason]
  PROVE  GeminiInv(u)
<1>1. t \in GeminiT /\ Len(t.cache) <= Capacity /\ Telling(t.out, t.open, t.next_index)
  BY DEF GeminiInv, GeminiTyped
<1>2. /\ u \in GeminiT /\ u.open = t.open /\ u.out = t.out /\ u.next_index = t.next_index
      /\ u.cache = t.cache /\ u.finished = t.finished /\ u.refused = t.refused
  BY <1>1 DEF GeminiT
<1> QED BY <1>1, <1>2, GeminiTold DEF GeminiTyped

LEMMA GeminiTerminates ==
  ASSUME NEW t, GeminiInv(t), NEW u, u = Gemini!Terminate(t)
  PROVE  GeminiDone(u)
<1>1. PICK closed : closed = Gemini!Close(t)
  OBVIOUS
<1>2. GeminiInv(closed)
  BY <1>1, GeminiCloseKeeps
<1>3. PICK type \in Terminal : type = CASE t.finish_reason = "STOP" -> "completed"
                                        [] t.finish_reason = "MAX_TOKENS" -> "incomplete"
                                        [] OTHER -> "failed"
  BY DEF Terminal
<1> DEFINE e == Event(type)
           more == Append(closed.out, e)
<1>4. e \in TurnEvent /\ e.type = type
  <2>1. type \in EventTypes
    BY DEF EventTypes, Finals
  <2> QED BY <2>1, EventIs
<1>5. /\ closed \in GeminiT /\ closed.out \in Seq(TurnEvent) /\ Len(closed.cache) <= Capacity
      /\ ~closed.refused /\ Telling(closed.out, closed.open, closed.next_index)
  BY <1>2 DEF GeminiInv, GeminiTyped, GeminiT
<1>6. u = [closed EXCEPT !.finished = TRUE, !.out = more]
  <2>1. u = Gemini!Emit([closed EXCEPT !.finished = TRUE], <<Gemini!Event(type)>>)
    BY <1>1, <1>3 DEF Gemini!Terminate
  <2>2. Append(closed.out, e) = closed.out \o <<e>>
    BY <1>4, <1>5, AppendIsConcat
  <2> QED BY <1>5, <2>1, <2>2, GeminiEvents DEF Gemini!Emit, GeminiT
<1> HIDE DEF e
<1>7. Finished(more, type) /\ more \in Seq(TurnEvent)
  BY <1>4, <1>5 DEF Telling, Finished
<1> HIDE DEF more
<1>8. /\ u \in GeminiT /\ u.finished /\ u.refused = closed.refused /\ u.out = more
      /\ u.cache = closed.cache
  BY <1>5, <1>6, <1>7 DEF GeminiT
<1> QED BY <1>5, <1>7, <1>8 DEF GeminiDone, GeminiTyped

GeminiTaken(u) == GeminiGoes(u) \/ GeminiDone(u)

\* An event of Antigravity's.
LEMMA GeminiAccepts ==
  ASSUME NEW t, GeminiInv(t), NEW event, event.reason \in Reasons, event.parts \in Seq(PartSaid),
         NEW u, u = Gemini!Accept(t, event)
  PROVE  GeminiTaken(u)
<1>1. PICK begun : begun = Gemini!Start(t)
  OBVIOUS
<1>2. PICK told : told = Gemini!FoldLeft(Gemini!Part, begun, event.parts)
  OBVIOUS
<1>3. PICK reason : reason = IF event.reason = "none" THEN told.finish_reason ELSE event.reason
  OBVIOUS
<1>4. PICK heard : heard = [told EXCEPT !.finish_reason = reason]
  OBVIOUS
<1>5. PICK erring : erring = [begun EXCEPT !.finish_reason = "ERROR"]
  OBVIOUS
<1>6. GeminiInv(begun) /\ GeminiGoes(told)
  BY <1>1, <1>2, GeminiStartKeeps, GeminiPartsKeep
<1>7. GeminiInv(erring)
  <2>1. "ERROR" \in Reasons
    BY DEF Reasons
  <2> QED BY <1>5, <1>6, <2>1, GeminiReasons
<1>8. ~told.refused => GeminiInv(heard)
  <2> SUFFICES ASSUME ~told.refused PROVE GeminiInv(heard)
    OBVIOUS
  <2>1. GeminiInv(told)
    BY <1>6 DEF GeminiGoes, GeminiRefused
  <2>2. reason \in Reasons
    BY <1>3, <2>1 DEF GeminiInv, GeminiTyped, GeminiT
  <2> QED BY <1>4, <2>1, <2>2, GeminiReasons
<1>9. \/ u = Gemini!Terminate(erring)
      \/ u = told
      \/ ~told.refused /\ u = Gemini!Terminate(heard)
      \/ ~told.refused /\ u = heard
  <2>1. ~t.finished
    BY DEF GeminiInv
  <2> QED BY <1>1, <1>2, <1>3, <1>4, <1>5, <2>1 DEF Gemini!Accept
<1> QED BY <1>6, <1>7, <1>8, <1>9, GeminiTerminates DEF GeminiTaken, GeminiGoes

\* The stream ends.
LEMMA GeminiEnds ==
  ASSUME NEW t, GeminiInv(t), NEW u, u = Gemini!EndOfStream(t)
  PROVE  GeminiTaken(u)
<1>1. PICK begun : begun = Gemini!Start(t)
  OBVIOUS
<1>2. GeminiInv(begun)
  BY <1>1, GeminiStartKeeps
<1>3. u = [t EXCEPT !.refused = TRUE] \/ u = Gemini!Terminate(begun)
  BY <1>1 DEF Gemini!EndOfStream, GeminiInv
<1> QED BY <1>2, <1>3, GeminiRefuses, GeminiTerminates DEF GeminiTaken, GeminiGoes

-----------------------------------------------------------------------------
(* CodeAssistAnswer.                                                       *)

AgyPart == [kind : {"text", "thought", "call"}, id : Nat, data : Pieced]
AgyChunk == [part : AgyPart, finish : {"none", "MAX_TOKENS", "STOP"}]
AgyT == [finished : BOOLEAN, failed : BOOLEAN, out : Seq(AgyChunk)]

LEMMA AgyPartIs ==
  ASSUME NEW kind \in {"text", "thought", "call"}, NEW id \in Nat, NEW data \in Pieced
  PROVE  Agy!Part(kind, id, data) \in AgyPart
BY DEF Agy!Part, AgyPart

LEMMA AgyChunkKeeps ==
  ASSUME NEW a \in AgyT, NEW part \in AgyPart, NEW finish \in {"none", "MAX_TOKENS", "STOP"},
         NEW u, u = Agy!Chunk(a, part, finish)
  PROVE  u \in AgyT /\ u.finished = a.finished
<1>1. PICK chunk \in AgyChunk : chunk = [part |-> part, finish |-> finish]
  BY DEF AgyChunk
<1>a. a.out \in Seq(AgyChunk)
  BY DEF AgyT
<1>2. PICK more \in Seq(AgyChunk) : more = Append(a.out, chunk)
  <2>1. chunk \in AgyChunk
    BY <1>1
  <2>2. Append(a.out, chunk) \in Seq(AgyChunk)
    BY <1>a, <2>1, AppendProperties
  <2> QED BY <2>2
<1>3. u = [a EXCEPT !.out = more]
  BY <1>1, <1>2 DEF Agy!Chunk, AgyT
<1> QED BY <1>3 DEF AgyT

LEMMA AgyFinishes ==
  ASSUME NEW a \in AgyT, NEW reason \in {"MAX_TOKENS", "STOP"}, NEW u, u = Agy!Finish(a, reason)
  PROVE  u \in AgyT /\ u.finished
<1>a. <<>> \in Pieced /\ 0 \in Nat
  BY DEF Pieced
<1>1. PICK part \in AgyPart : part = Agy!Part("text", 0, <<>>)
  BY <1>a, AgyPartIs
<1>2. PICK x : x = Agy!Chunk(a, part, reason)
  OBVIOUS
<1>3. x \in AgyT
  BY <1>2, AgyChunkKeeps
<1>4. u = [x EXCEPT !.finished = TRUE]
  BY <1>1, <1>2 DEF Agy!Finish
<1> QED BY <1>3, <1>4 DEF AgyT

\* Every event, as agy hears it.
LEMMA AgyHears ==
  ASSUME NEW a \in AgyT, ~a.finished, NEW e \in TurnEvent, NEW u, u = Agy!Hear(a, e)
  PROVE  u \in AgyT /\ (u.finished <=> e.type \in Finals)
<1>1. /\ e.type \in EventTypes /\ e.data \in Pieced /\ e.id \in Nat /\ 0 \in Nat
      /\ Agy!Refusals = Refusals
  BY DEF TurnEvent, Agy!Refusals, Refusals
<1>2. Agy!Parsed(e.data) \in Pieced
  <2>1. Agy!EmptyObject \in Pieced
    <3>1. "{}" \in {"x", "[", "]", "{}"}
      OBVIOUS
    <3>2. <<"{}">> \in Seq({"x", "[", "]", "{}"})
      BY <3>1
    <3> QED BY <3>2, Zenon DEF Agy!EmptyObject, Pieced
  <2> QED BY <1>1, <2>1 DEF Agy!Parsed
<1>t. ASSUME NEW part \in AgyPart, u = a \/ u = Agy!Chunk(a, part, "none")
      PROVE  u \in AgyT /\ ~u.finished
  BY <1>t, AgyChunkKeeps
<1>3. CASE e.type = "text_delta"
  <2>1. e.type \notin Finals
    BY <1>3 DEF Finals, Terminal, Refusals
  <2>2. PICK part \in AgyPart : part = Agy!Part("text", 0, e.data)
    BY <1>1, AgyPartIs
  <2>3. u = a \/ u = Agy!Chunk(a, part, "none")
    BY <1>1, <2>2, <1>3 DEF Agy!Hear, Refusals
  <2> QED BY <1>t, <2>1, <2>3
<1>4. CASE e.type = "thought_delta"
  <2>1. e.type \notin Finals
    BY <1>4 DEF Finals, Terminal, Refusals
  <2>2. PICK part \in AgyPart : part = Agy!Part("thought", 0, e.data)
    BY <1>1, AgyPartIs
  <2>3. u = a \/ u = Agy!Chunk(a, part, "none")
    BY <1>1, <2>2, <1>4 DEF Agy!Hear, Refusals
  <2> QED BY <1>t, <2>1, <2>3
<1>5. CASE e.type = "item_done"
  <2>1. e.type \notin Finals
    BY <1>5 DEF Finals, Terminal, Refusals
  <2>2. PICK part \in AgyPart : part = Agy!Part("call", e.id, Agy!Parsed(e.data))
    BY <1>1, <1>2, AgyPartIs
  <2>3. u = a \/ u = Agy!Chunk(a, part, "none")
    BY <1>1, <2>2, <1>5 DEF Agy!Hear, Refusals
  <2> QED BY <1>t, <2>1, <2>3
<1>6. CASE e.type \in {"completed", "incomplete", "closed"}
  <2>1. e.type \in Finals
    BY <1>6 DEF Finals, Terminal
  <2>2. u = Agy!Finish(a, "MAX_TOKENS") \/ u = Agy!Finish(a, "STOP")
    BY <1>1, <1>6 DEF Agy!Hear, Refusals
  <2> QED BY <2>1, <2>2, AgyFinishes
<1>7. CASE e.type \in Refusals
  <2>1. e.type \in Finals
    BY <1>7 DEF Finals
  <2>2. u = [a EXCEPT !.finished = TRUE, !.failed = TRUE]
    BY <1>1, <1>7 DEF Agy!Hear, Refusals
  <2> QED BY <2>1, <2>2 DEF AgyT
<1>8. CASE e.type \notin {"text_delta", "thought_delta", "item_done"} \union Finals
  <2>1. u = a
    BY <1>1, <1>8 DEF Agy!Hear, Finals, Terminal
  <2> QED BY <1>8, <2>1
<1> QED BY <1>3, <1>4, <1>5, <1>6, <1>7, <1>8 DEF Finals, Terminal, Refusals

AgyFold == INSTANCE FoldFacts WITH Op <- Agy!Hear

LEMMA AgyFolds ==
  \A m, e : FoldLeft(Agy!Hear, m, <<e>>) = Agy!Hear(m, e)
BY AgyFold!FoldedOne DEF FoldLeft, AgyFold!Folded, MapThenFoldSet, AgyFold!MapThenFoldSet,
   Max, AgyFold!Greatest

LEMMA ChatOne ==
  \A m, e : FoldLeft(Chat!Hear, m, <<e>>) = Chat!Hear(m, e)
BY ChatFolds

-----------------------------------------------------------------------------
(* The turn.                                                               *)

\* chatgpt.com's items that it has begun and not done.
OpenItems == {<<i, item[i].kind>> : i \in {j \in Items : item[j].phase = "open"}}

\* The surfaces have heard all there is to tell.
Hears(open, n) ==
  /\ open \in OpenItem /\ n \in Nat /\ (open.kind # "none" => open.index < n)
  /\ Together(messages, chat, relay, OpenOf(open), n)

CodexLive ==
  /\ MessagesInv(messages) /\ ~messages.finished /\ Shows(messages, OpenItems)
  /\ ChatInv(chat) /\ agy \in AgyT /\ ~agy.finished
GeminiLive ==
  /\ GeminiTyped(source) /\ ~source.finished /\ ~source.refused /\ source.out = <<>>
  /\ Hears(source.open, source.next_index)
ApiLive ==
  /\ source \in ApiT /\ source.wire = wire /\ ~source.finished /\ ~source.refused
  /\ source.out = <<>> /\ IsFiniteSet(DOMAIN source.calls)
  /\ Hears(source.open, source.next_index)

TurnGoing ==
  /\ wire = "codex" => CodexLive
  /\ wire = "gemini" => GeminiLive
  /\ wire \in ApiWires => ApiLive
TurnOver ==
  /\ MessagesInv(messages) /\ messages.finished
  /\ Last(messages.out).type = "error" <=> ended = "failed"
  /\ ChatEnded(chat)
  /\ wire = "codex" => agy.finished
  /\ wire # "codex" => RelayEnded(relay, ended = "failed")

TypedTurn ==
  /\ wire \in Wires /\ ended \in Ends /\ item \in [Items -> Item] /\ spoken \in Seq(Items)
  /\ said \in Seq(PartSaid) /\ Len(said) <= IF wire = "gemini" THEN MaxParts ELSE MaxSaid
  /\ wire = "gemini" => Len(source.cache) <= Capacity
  /\ \A i \in Items : item[i].phase = "new" => item[i].kind = "message"

TurnInv ==
  /\ TypedTurn
  /\ ended = "no" => TurnGoing
  /\ ended # "no" => TurnOver

\* The invariant gives the types.
LEMMA TurnTypes ==
  ASSUME TurnInv
  PROVE  TypeOK
<1>1. /\ wire \in Wires /\ ended \in Ends /\ item \in [Items -> Item] /\ spoken \in Seq(Items)
      /\ Len(said) <= IF wire = "gemini" THEN MaxParts ELSE MaxSaid
      /\ wire = "gemini" => Len(source.cache) <= Capacity
  BY DEF TurnInv, TypedTurn
<1>2. wire \in {"codex", "gemini"} \union ApiWires
  BY <1>1, WiresAssumption DEF ApiWires
<1>3. CASE ended = "no"
  <2>1. TurnGoing
    BY <1>3 DEF TurnInv
  <2>2. /\ ~messages.finished /\ ~chat.ended
        /\ wire = "codex" => ~agy.finished
        /\ wire # "codex" => relay.open
    <3>1. CASE wire = "codex"
      BY <2>1, <3>1 DEF TurnGoing, CodexLive, ChatInv, ChatOpen
    <3>2. CASE wire # "codex"
      <4>1. \E open, n : Hears(open, n)
        BY <1>2, <2>1, <3>2 DEF TurnGoing, GeminiLive, ApiLive
      <4> QED BY <3>2, <4>1 DEF Hears, Together, RelayInv, ChatInv, ChatOpen
    <3> QED BY <3>1, <3>2
  <2> QED BY <1>1, <1>3, <2>2 DEF TypeOK
<1>4. CASE ended # "no"
  <2>1. TurnOver
    BY <1>4 DEF TurnInv
  <2>2. /\ messages.finished /\ chat.ended
        /\ wire = "codex" => agy.finished
        /\ wire # "codex" => ~relay.open
    BY <2>1 DEF TurnOver, ChatEnded, RelayEnded
  <2> QED BY <1>1, <1>4, <2>2 DEF TypeOK
<1> QED BY <1>3, <1>4

\* And what every surface promises of its stream.
LEMMA TurnFormed ==
  ASSUME TurnInv
  PROVE  WellFormed
<1>1. wire \in {"codex", "gemini"} \union ApiWires
  BY WiresAssumption DEF ApiWires, TurnInv, TypedTurn
<1>2. CASE ended = "no"
  <2>1. TurnGoing
    BY <1>2 DEF TurnInv
  <2>2. MessagesInv(messages) /\ ChatInv(chat)
    <3>1. CASE wire = "codex"
      BY <2>1, <3>1 DEF TurnGoing, CodexLive
    <3>2. CASE wire # "codex"
      <4>1. \E open, n : Hears(open, n)
        BY <1>1, <2>1, <3>2 DEF TurnGoing, GeminiLive, ApiLive
      <4> QED BY <4>1 DEF Hears, Together
    <3> QED BY <3>1, <3>2
  <2>3. ASSUME wire # "codex" PROVE Relay!WellFormedRelay(relay.out) /\ ~Erring(relay.out)
    <3>1. \E open, n : Hears(open, n)
      BY <1>1, <2>1, <2>3 DEF TurnGoing, GeminiLive, ApiLive
    <3> QED BY <3>1 DEF Hears, Together, RelayInv, RelayOut
  <2>4. Messages!WellFormedFrames(messages.out) /\ Chat!WellFormedChunks(chat.out)
    BY <2>2 DEF MessagesInv, FramesInv, ChatInv, ChatOpen, ChunksInv
  <2> QED BY <1>2, <2>3, <2>4 DEF WellFormed, Erring
<1>3. CASE ended # "no"
  <2>1. /\ MessagesInv(messages) /\ messages.finished /\ ChatEnded(chat)
        /\ Last(messages.out).type = "error" <=> ended = "failed"
        /\ wire # "codex" => RelayEnded(relay, ended = "failed")
    BY <1>3 DEF TurnInv, TurnOver
  <2>2. Messages!WellFormedFrames(messages.out) /\ Messages!EndedFrames(messages.out)
    <3>1. /\ FramesInv(messages.out, messages.blocks, messages.next_index)
          /\ DOMAIN messages.blocks = {} /\ EndsTurn(Last(messages.out))
      BY <2>1 DEF MessagesInv
    <3>2. \A k \in Starts(messages.out) :
            \E j \in k + 1..Len(messages.out) : Is(messages.out[j], "stop", messages.out[k].index)
      BY <3>1 DEF FramesInv
    <3>3. Messages!Last(messages.out) = Last(messages.out)
      BY DEF Messages!Last, Last
    <3> QED BY <3>1, <3>2, <3>3 DEF FramesInv, Messages!EndedFrames, Starts, Is, EndsTurn
  <2>3. Chat!WellFormedChunks(chat.out) /\ chat.out # <<>> /\ Last(chat.out).type = "done"
    BY <2>1 DEF ChatEnded
  <2>4. wire # "codex" => /\ Relay!WellFormedRelay(relay.out)
                          /\ ended = "failed" <=> Erring(relay.out)
    BY <2>1 DEF RelayEnded
  <2> QED BY <1>3, <2>1, <2>2, <2>3, <2>4 DEF WellFormed, Erring
<1> QED BY <1>2, <1>3

-----------------------------------------------------------------------------
(* The surfaces after a step.                                              *)

LEMMA HearsTelling ==
  ASSUME NEW open, NEW n, Hears(open, n)
  PROVE  Telling(<<>>, open, n)
BY RetellNothing DEF Hears, Telling

\* The surfaces heard what was told.
LEMMA TurnGoesOn ==
  ASSUME wire # "codex", NEW more, Hear(more), NEW open, NEW n, Telling(more, open, n)
  PROVE  Hears(open, n)'
<1>1. messages' = MessagesAt(more) /\ chat' = ChatAt(more) /\ relay' = RelayAt(more)
  BY DEF Hear, MessagesAt, ChatAt, RelayAt
<1>2. /\ open \in OpenItem /\ n \in Nat /\ (open.kind # "none" => open.index < n)
      /\ Together(MessagesAt(more), ChatAt(more), RelayAt(more), OpenOf(open), n)
  BY DEF Telling, Retelling
<1> QED BY <1>1, <1>2 DEF Hears

\* They heard how the turn ended.
LEMMA TurnEnds ==
  ASSUME wire # "codex", wire' = wire, NEW more, Hear(more), NEW how, Retells(more, how = "failed"),
         ended' = how
  PROVE  TurnOver'
<1>1. messages' = MessagesAt(more) /\ chat' = ChatAt(more) /\ relay' = RelayAt(more)
  BY DEF Hear, MessagesAt, ChatAt, RelayAt
<1>2. Over(messages', chat', relay', ended' = "failed")
  BY <1>1 DEF Retells
<1> QED BY <1>2 DEF TurnOver, Over

LEMMA FinishedTold ==
  ASSUME NEW out, NEW type, Finished(out, type), NEW more, more = out \o <<Closed>>
  PROVE  type \in Terminal /\ Last(out).type = type /\ Retells(more, type = "failed")
<1>1. PICK before, o, n, e : /\ e \in TurnEvent /\ Retelling(before, o, n) /\ e.type = type
                             /\ type \in Terminal /\ out = Append(before, e)
  BY DEF Finished
<1>2. before \in Seq(TurnEvent) /\ out \in Seq(TurnEvent)
  BY <1>1 DEF Retelling
<1>3. more = Append(Append(before, e), Closed)
  BY <1>1, <1>2
<1>4. Retells(more, e.type = "failed")
  BY <1>1, <1>3, RetellEnd
<1>5. Last(out) = e
  <2>1. Len(out) = Len(before) + 1 /\ out[Len(before) + 1] = e
    BY <1>1, <1>2
  <2> QED BY <2>1 DEF Last
<1> QED BY <1>1, <1>4, <1>5

LEMMA BrokenTold ==
  ASSUME NEW out, NEW o, NEW n, Retelling(out, o, n), NEW more, more = out \o <<Event("broken")>>
  PROVE  Retells(more, TRUE)
<1>1. out \in Seq(TurnEvent)
  BY DEF Retelling
<1>2. more = Append(out, Event("broken"))
  BY <1>1
<1> QED BY <1>2, RetellBroken

-----------------------------------------------------------------------------
(* What has been said.                                                     *)

Saids(more) ==
  /\ more \in Seq(PartSaid)
  /\ said' = said \o more
  /\ Len(said) + Len(more) <= IF wire = "gemini" THEN MaxParts ELSE MaxSaid

LEMMA TypedStep ==
  ASSUME TypedTurn, wire' = wire, UNCHANGED <<item, spoken>>, ended' \in Ends,
         NEW more, Saids(more), wire = "gemini" => Len(source'.cache) <= Capacity
  PROVE  TypedTurn'
<1>1. said' \in Seq(PartSaid) /\ Len(said') = Len(said) + Len(more)
  BY ConcatProperties DEF Saids, TypedTurn
<1> QED BY <1>1 DEF Saids, TypedTurn

LEMMA NothingSaid ==
  ASSUME TypedTurn, said' = said
  PROVE  Saids(<<>>)
BY DEF TypedTurn, Saids

\* A step of a turn that is retold: how it leaves the turn.
LEMMA ApiStep ==
  ASSUME TurnInv, wire \in ApiWires, wire' = wire, NEW s, s.wire = wire, NEW t, ApiTaken(t, s),
         NEW how, Retold(t, Api!Told(t), how),
         t.finished => how = Ending(t), NEW more, Saids(more)
  PROVE  TurnInv'
<1>1. PICK told : told = Api!Told(t)
  OBVIOUS
<1>2. Hear(told) /\ source' = [t EXCEPT !.out = <<>>] /\ UNCHANGED <<item, spoken>>
  BY <1>1 DEF Retold
<1>3. wire \notin {"codex", "gemini"}
  BY DEF ApiWires
<1>4. t \in ApiT
  BY DEF ApiTaken, ApiGoes, ApiInv, ApiDone, ApiRefused
<1>5. Api!Closed = Closed /\ Api!Broken = Event("broken")
  BY ApiEvents DEF Api!Closed, Closed, Api!Broken
<1>6. ASSUME ended' \in Ends PROVE TypedTurn'
  BY <1>2, <1>3, <1>6, TypedStep DEF TurnInv
<1>7. CASE ApiGoes(t, s)
  <2>1. /\ ~t.finished /\ ~t.refused /\ IsFiniteSet(DOMAIN t.calls) /\ t.wire = wire
        /\ Telling(t.out, t.open, t.next_index)
    BY <1>7 DEF ApiGoes, ApiInv
  <2>2. told = t.out /\ ended' = "no"
    BY <1>1, <2>1 DEF Api!Told, Retold
  <2>3. Hears(t.open, t.next_index)'
    BY <1>2, <1>3, <2>1, <2>2, TurnGoesOn
  <2>4. /\ source' \in ApiT /\ source'.open = t.open /\ source'.next_index = t.next_index
        /\ source'.out = <<>> /\ source'.calls = t.calls /\ source'.wire = t.wire
        /\ source'.finished = t.finished /\ source'.refused = t.refused
    <3>1. <<>> \in Seq(TurnEvent)
      OBVIOUS
    <3> QED BY <1>2, <1>4, <3>1 DEF ApiT
  <2>5. ApiLive'
    BY <2>1, <2>3, <2>4 DEF ApiLive
  <2>6. "no" \in Ends
    BY DEF Ends
  <2> QED BY <1>3, <1>6, <2>2, <2>5, <2>6 DEF TurnInv, TurnGoing
<1>8. ASSUME NEW end \in {"completed", "incomplete", "failed"}, ended' = end,
             Retells(told, end = "failed")
      PROVE  TurnInv'
  <2>1. TurnOver'
    BY <1>2, <1>3, <1>8, TurnEnds
  <2>2. ended' \in Ends /\ ended' # "no"
    BY <1>8 DEF Ends
  <2> QED BY <1>6, <2>1, <2>2 DEF TurnInv
<1>9. CASE ApiDone(t)
  <2>1. PICK type : Finished(t.out, type) /\ t.finished /\ ~t.refused
    BY <1>9 DEF ApiDone
  <2>2. told = t.out \o <<Closed>> /\ ended' = Last(t.out).type
    BY <1>1, <1>5, <2>1 DEF Api!Told, Retold, Ending
  <2>3. type \in Terminal /\ ended' = type /\ Retells(told, type = "failed")
    BY <2>1, <2>2, FinishedTold
  <2> QED BY <1>8, <2>3 DEF Terminal
<1>10. CASE ApiRefused(t)
  <2>1. PICK o, n : Retelling(t.out, o, n) /\ t.refused
    BY <1>10 DEF ApiRefused
  <2>2. told = t.out \o <<Event("broken")>> /\ ended' = "failed"
    BY <1>1, <1>5, <2>1 DEF Api!Told, Retold
  <2>3. Retells(told, TRUE)
    BY <2>1, <2>2, BrokenTold
  <2>4. Retells(told, "failed" = "failed")
    BY <2>3
  <2> QED BY <1>8, <2>2, <2>4
<1> QED BY <1>7, <1>9, <1>10 DEF ApiTaken

LEMMA PiecesAre ==
  /\ <<>> \in Pieced /\ <<"x">> \in Pieced /\ <<"[">> \in Pieced /\ <<"]">> \in Pieced
<1>1. "x" \in {"x", "[", "]", "{}"} /\ "[" \in {"x", "[", "]", "{}"} /\ "]" \in {"x", "[", "]", "{}"}
  OBVIOUS
<1>2. /\ <<>> \in Seq({"x", "[", "]", "{}"})
      /\ <<"x">> \in Seq({"x", "[", "]", "{}"})
      /\ <<"[">> \in Seq({"x", "[", "]", "{}"})
      /\ <<"]">> \in Seq({"x", "[", "]", "{}"})
  BY <1>1
<1> QED BY <1>2, Zenon DEF Pieced

LEMMA SayingIs ==
  ASSUME NEW kind \in {"call", "thought", "text"}, NEW id \in Nat, NEW data \in Pieced,
         NEW signature \in Nat
  PROVE  Saying(kind, id, data, signature) \in PartSaid
BY DEF Saying, PartSaid

\* The calls that were said.
LEMMA IdsAre ==
  ASSUME NEW parts \in Seq(PartSaid)
  PROVE  /\ IdsOf(parts) \subseteq Nat /\ IsFiniteSet(IdsOf(parts))
         /\ Cardinality(IdsOf(parts)) \in Nat
<1> DEFINE K == {j \in 1..Len(parts) : parts[j].kind = "call"}
           f == [k \in K |-> parts[k].id]
<1>1. K \subseteq 1..Len(parts) /\ Len(parts) \in Nat
  OBVIOUS
<1>2. IsFiniteSet(K)
  <2>1. IsFiniteSet(1..Len(parts))
    BY <1>1, FS_Interval
  <2> QED BY <1>1, <2>1, FS_Subset
<1>3. \A k \in K : parts[k].id \in Nat
  <2>1. ASSUME NEW k \in 1..Len(parts) PROVE parts[k].id \in Nat
    <3>1. parts[k] \in PartSaid
      OBVIOUS
    <3> QED BY <3>1 DEF PartSaid
  <2> QED BY <2>1
<1>4. f \in Surjection(K, IdsOf(parts))
  <2>1. IdsOf(parts) = {parts[k].id : k \in K}
    BY DEF IdsOf
  <2> HIDE DEF K
  <2>2. f \in [K -> IdsOf(parts)] /\ \A x \in IdsOf(parts) : \E k \in K : f[k] = x
    BY <2>1
  <2> QED BY <2>2 DEF Surjection
<1>5. IsFiniteSet(IdsOf(parts))
  BY <1>2, <1>4, FS_Surjection
<1>6. IdsOf(parts) \subseteq Nat
  BY <1>3 DEF IdsOf
<1> QED BY <1>5, <1>6, FS_CardinalityType

LEMMA SaidCallsAre ==
  ASSUME TypedTurn
  PROVE  SaidCalls \subseteq Nat /\ IsFiniteSet(SaidCalls) /\ Cardinality(SaidCalls) \in Nat
BY IdsAre DEF TypedTurn, SaidCalls

GatherFold == INSTANCE FoldFacts WITH Op <- Gather

\* And their arguments so far.
LEMMA ArgumentsAre ==
  ASSUME TypedTurn, NEW id
  PROVE  ArgumentsOf(id) \in Pieced
<1>1. PICK s \in Seq(PartSaid) : s = said
  BY DEF TypedTurn
<1>2. <<>> \in CallMap
  <2>1. DOMAIN <<>> = {} /\ <<>> = [i \in DOMAIN <<>> |-> <<>>[i]]
    OBVIOUS
  <2> QED BY <2>1, CallMapIs
<1>3. ASSUME NEW b \in CallMap, NEW p \in PartSaid PROVE Gather(b, p) \in CallMap
  <2>1. p.id \in Nat /\ p.data \in Pieced
    BY DEF PartSaid
  <2>2. PICK before \in Pieced : before = IF p.id \in DOMAIN b THEN b[p.id] ELSE <<>>
    BY CallMapIs, PiecedIs, PiecesAre
  <2>3. PICK data \in Pieced : data = before \o p.data
    BY <2>1, <2>2, PiecedIs
  <2>4. Api!Put(b, p.id, data) \in CallMap
    BY <2>1, <2>3, CallPutIs
  <2>5. Put(b, p.id, data) = Api!Put(b, p.id, data)
    BY DEF Put, Api!Put
  <2>6. Gather(b, p) = b \/ Gather(b, p) = Put(b, p.id, data)
    BY <2>2, <2>3 DEF Gather
  <2> QED BY <2>4, <2>5, <2>6
<1>4. FoldLeft(Gather, <<>>, s) = GatherFold!Folded(<<>>, s)
  BY Zenon DEF FoldLeft, GatherFold!Folded, MapThenFoldSet, GatherFold!MapThenFoldSet,
     Max, GatherFold!Greatest
<1>5. GatherFold!Folded(<<>>, s) \in CallMap
  BY <1>2, <1>3, GatherFold!FoldedKeeps
<1>6. SaidArguments \in CallMap
  BY <1>1, <1>4, <1>5 DEF SaidArguments
<1> QED BY <1>6, CallMapIs, PiecesAre DEF ArgumentsOf

LEMMA OneSaid ==
  ASSUME TypedTurn, wire # "gemini", CanSay, NEW p \in PartSaid, said' = said \o <<p>>
  PROVE  Saids(<<p>>)
<1>1. <<p>> \in Seq(PartSaid) /\ Len(<<p>>) = 1 /\ Len(said) \in Nat /\ MaxSaid \in Nat
  BY BoundsAssumption DEF TypedTurn
<1> QED BY <1>1 DEF Saids, CanSay

LEMMA ApiQuiet ==
  ASSUME TurnInv, wire \in ApiWires, ended = "no", NEW q, q = Api!Quiet(source)
  PROVE  /\ ApiInv(q) /\ q.wire = wire /\ source.calls \in CallMap
<1>1. ApiLive
  BY DEF TurnInv, TurnGoing
<1>2. q = source
  BY <1>1 DEF Api!Quiet, ApiLive, ApiT
<1>3. Telling(<<>>, source.open, source.next_index)
  BY <1>1, HearsTelling DEF ApiLive
<1> QED BY <1>1, <1>2, <1>3 DEF ApiInv, ApiLive, ApiT

LEMMA ProviderStep ==
  ASSUME TurnInv, wire \in ApiWires, ended = "no", wire' = wire, NEW e, ApiHeard(wire, e),
         NEW more, Saids(more), ProviderTells(e, more)
  PROVE  TurnInv'
<1>1. PICK q : q = Api!Quiet(source)
  OBVIOUS
<1>2. ApiInv(q) /\ q.wire = wire
  BY <1>1, ApiQuiet
<1>3. PICK t : t = Api!Accept(q, e)
  OBVIOUS
<1>4. ApiTaken(t, q)
  BY <1>2, <1>3, ApiAccepts
<1>5. t = Api!Reads(source, e)
  BY <1>1, <1>3 DEF Api!Reads
<1>6. PICK how : how = Ending(t)
  OBVIOUS
<1>7. Retold(t, Api!Told(t), how)
  BY <1>5, <1>6 DEF ProviderTells
<1> QED BY <1>2, <1>4, <1>6, <1>7, ApiStep

LEMMA ApiEventIs ==
  ASSUME NEW type, NEW i, NEW data, NEW e, e = ApiEvent(type, i, data)
  PROVE  e.type = type /\ e.index = i /\ e.data = data
BY DEF ApiEvent

\* What the provider says, and what does not enter what was said.
LEMMA ProviderSaid ==
  ASSUME TurnInv, wire \in ApiWires, Goes(wire), CanSay, NEW type, NEW i \in Nat, NEW data \in Pieced,
         NEW kind \in {"call", "thought", "text"}, NEW id \in Nat, NEW words \in Pieced,
         NEW e, e = ApiEvent(type, i, data),
         \/ type \in {"text", "thought"}
         \/ wire \in {"chat", "messages"} /\ type = "arguments"
         \/ wire = "messages" /\ type = "open"
         \/ wire = "responses" /\ type = "call",
         ProviderTells(e, <<Saying(kind, id, words, 0)>>)
  PROVE  TurnInv'
<1>1. ended = "no" /\ wire' = wire /\ TypedTurn /\ wire # "gemini"
  BY DEF Goes, TurnInv, ApiWires
<1>2. ApiHeard(wire, e)
  BY ApiEventIs DEF ApiHeard
<1>3. PICK p \in PartSaid : p = Saying(kind, id, words, 0)
  BY SayingIs
<1>4. ProviderTells(e, <<p>>)
  BY <1>3
<1>5. Saids(<<p>>)
  BY <1>1, <1>4, OneSaid DEF ProviderTells
<1> QED BY <1>1, <1>2, <1>4, <1>5, ProviderStep

LEMMA ProviderUnsaid ==
  ASSUME TurnInv, wire \in ApiWires, Goes(wire), NEW e, ApiHeard(wire, e), ProviderTells(e, <<>>)
  PROVE  TurnInv'
<1>1. ended = "no" /\ wire' = wire /\ TypedTurn
  BY DEF Goes, TurnInv
<1>2. said \in Seq(PartSaid)
  BY <1>1 DEF TypedTurn
<1>3. said' = said \o <<>>
  BY DEF ProviderTells
<1>4. said' = said
  BY <1>2, <1>3
<1>5. Saids(<<>>)
  BY <1>1, <1>4, NothingSaid
<1> QED BY <1>1, <1>5, ProviderStep

-----------------------------------------------------------------------------
(* Every step of a turn that a provider's own stream is.                   *)

ApiNext ==
  \/ ProviderBegins \/ ProviderSpeaks \/ ChatCalls \/ BlockOpens \/ BlockGrows \/ BlockShuts
  \/ CallTold \/ ProviderEnds \/ ProviderReason \/ ProviderStops \/ ProviderFails
  \/ ProviderHangsUp

LEMMA SpeaksKeeps ==
  ASSUME TurnInv, ProviderSpeaks
  PROVE  TurnInv'
<1>1. wire \in ApiWires /\ Goes(wire) /\ CanSay
  BY DEF ProviderSpeaks, ApiWires
<1>2. PICK kind \in {"text", "thought"}, data \in {<<>>, <<"x">>} :
        ProviderTells(ApiEvent(kind, 0, data), <<Saying(kind, 0, data, 0)>>)
  BY DEF ProviderSpeaks
<1>3. data \in Pieced /\ kind \in {"call", "thought", "text"} /\ 0 \in Nat
  BY PiecesAre
<1> QED BY <1>1, <1>2, <1>3, ProviderSaid

LEMMA ChatCallsKeeps ==
  ASSUME TurnInv, ChatCalls
  PROVE  TurnInv'
<1>1. wire = "chat" /\ wire \in ApiWires /\ Goes(wire) /\ CanSay /\ TypedTurn
  BY DEF ChatCalls, ApiWires, Goes, TurnInv
<1>2. PICK i \in Unfinished \union {Cardinality(SaidCalls)}, piece \in {<<>>, <<"[">>, <<"]">>} :
        ProviderTells(ApiEvent("arguments", i, piece), <<Saying("call", i, piece, 0)>>)
  BY DEF ChatCalls
<1>3. i \in Nat /\ piece \in Pieced
  BY <1>1, SaidCallsAre, PiecesAre DEF Unfinished
<1> QED BY <1>1, <1>2, <1>3, ProviderSaid

LEMMA BlockOpensKeeps ==
  ASSUME TurnInv, BlockOpens
  PROVE  TurnInv'
<1>1. wire = "messages" /\ wire \in ApiWires /\ Goes(wire) /\ CanSay /\ TypedTurn
  BY DEF BlockOpens, ApiWires, Goes, TurnInv
<1>2. PICK i : i = Cardinality(SaidCalls)
  OBVIOUS
<1>3. PICK whole \in {<<>>, <<"]">>} :
        ProviderTells(ApiEvent("open", i, whole), <<Saying("call", i, whole, 0)>>)
  BY <1>2 DEF BlockOpens
<1>4. i \in Nat /\ whole \in Pieced
  BY <1>1, <1>2, SaidCallsAre, PiecesAre
<1> QED BY <1>1, <1>3, <1>4, ProviderSaid

LEMMA BlockGrowsKeeps ==
  ASSUME TurnInv, BlockGrows
  PROVE  TurnInv'
<1>1. wire = "messages" /\ wire \in ApiWires /\ Goes(wire) /\ CanSay /\ TypedTurn /\ ended = "no"
  BY DEF BlockGrows, ApiWires, Goes, TurnInv
<1>2. PICK i \in DOMAIN source.calls, piece \in {<<"[">>, <<"]">>} :
        ProviderTells(ApiEvent("arguments", i, piece), <<Saying("call", i, piece, 0)>>)
  BY DEF BlockGrows
<1>3. i \in Nat /\ piece \in Pieced
  BY <1>1, ApiQuiet, CallMapIs, PiecesAre
<1> QED BY <1>1, <1>2, <1>3, ProviderSaid

LEMMA CallToldKeeps ==
  ASSUME TurnInv, CallTold
  PROVE  TurnInv'
<1>1. wire = "responses" /\ wire \in ApiWires /\ Goes(wire) /\ TypedTurn
  BY DEF CallTold, ApiWires, Goes, TurnInv
<1>2. CASE \E i \in SaidCalls : ProviderTells(ApiEvent("call", i, ArgumentsOf(i)), <<>>)
  <2>1. PICK i \in SaidCalls : ProviderTells(ApiEvent("call", i, ArgumentsOf(i)), <<>>)
    BY <1>2
  <2>2. PICK data \in Pieced : data = ArgumentsOf(i)
    BY <1>1, ArgumentsAre
  <2>3. PICK e : e = ApiEvent("call", i, data)
    OBVIOUS
  <2>4. i \in Nat
    BY <1>1, SaidCallsAre
  <2>5. ApiHeard(wire, e)
    BY <1>1, <2>3, <2>4, ApiEventIs DEF ApiHeard
  <2> QED BY <1>1, <2>1, <2>2, <2>3, <2>5, ProviderUnsaid
<1>3. CASE /\ CanSay
           /\ \E data \in {<<>>, <<"]">>} :
                LET i == Cardinality(SaidCalls)
                IN ProviderTells(ApiEvent("call", i, data), <<Saying("call", i, data, 0)>>)
  <2>1. PICK i : i = Cardinality(SaidCalls)
    OBVIOUS
  <2>2. PICK data \in {<<>>, <<"]">>} :
          ProviderTells(ApiEvent("call", i, data), <<Saying("call", i, data, 0)>>)
    BY <1>3, <2>1
  <2>3. i \in Nat /\ data \in Pieced
    BY <1>1, <2>1, SaidCallsAre, PiecesAre
  <2> QED BY <1>1, <1>3, <2>2, <2>3, ProviderSaid
<1> QED BY <1>2, <1>3 DEF CallTold

LEMMA EndsKeep ==
  ASSUME TurnInv, ProviderEnds
  PROVE  TurnInv'
<1>1. wire = "responses" /\ wire \in ApiWires /\ Goes(wire) /\ TypedTurn /\ ended = "no" /\ wire' = wire
      /\ wire # "gemini"
  BY DEF ProviderEnds, ApiWires, Goes, TurnInv
<1>2. PICK n \in Nat : n = Cardinality(SaidCalls)
  BY <1>1, SaidCallsAre
<1>3. PICK repeated : repeated = [k \in 1..n |-> [index |-> k - 1, data |-> ArgumentsOf(k - 1)]]
  OBVIOUS
<1>4. PICK new : new = [index |-> Len(repeated), data |-> <<"]">>]
  OBVIOUS
<1>5. PICK type \in Terminal :
        \/ ProviderTells(ApiEvent(type, 0, repeated), <<>>)
        \/ /\ CanSay
           /\ ProviderTells(ApiEvent(type, 0, Append(repeated, new)),
                            <<Saying("call", new.index, new.data, 0)>>)
  BY <1>2, <1>3, <1>4 DEF ProviderEnds
<1>6. repeated \in Seq(ItemEvent)
  <2>1. ASSUME NEW k \in 1..n
        PROVE  [index |-> k - 1, data |-> ArgumentsOf(k - 1)] \in ItemEvent
    <3>1. k - 1 \in Nat /\ ArgumentsOf(k - 1) \in Pieced
      BY <1>1, ArgumentsAre
    <3> QED BY <3>1 DEF ItemEvent
  <2> QED BY <1>3, <2>1
<1>7. new \in ItemEvent /\ new.index \in Nat /\ new.data \in Pieced
  <2>1. Len(repeated) \in Nat /\ <<"]">> \in Pieced
    BY <1>6, PiecesAre
  <2> QED BY <1>4, <2>1 DEF ItemEvent
<1>8. \A data \in Seq(ItemEvent) : ApiHeard(wire, ApiEvent(type, 0, data))
  BY <1>1, ApiEventIs DEF ApiHeard
<1>9. CASE ProviderTells(ApiEvent(type, 0, repeated), <<>>)
  BY <1>1, <1>6, <1>8, <1>9, ProviderUnsaid
<1>10. CASE /\ CanSay
            /\ ProviderTells(ApiEvent(type, 0, Append(repeated, new)),
                             <<Saying("call", new.index, new.data, 0)>>)
  <2>1. PICK more \in Seq(ItemEvent) : more = Append(repeated, new)
    <3>1. new \in ItemEvent
      BY <1>7
    <3>2. Append(repeated, new) \in Seq(ItemEvent)
      BY <1>6, <3>1, AppendProperties
    <3> QED BY <3>2
  <2>2. "call" \in {"call", "thought", "text"} /\ 0 \in Nat
    OBVIOUS
  <2>3. PICK p \in PartSaid : p = Saying("call", new.index, new.data, 0)
    BY <1>7, <2>2, SayingIs
  <2>4. PICK e : e = ApiEvent(type, 0, more)
    OBVIOUS
  <2>5. ProviderTells(e, <<p>>) /\ CanSay
    BY <1>10, <2>1, <2>3, <2>4
  <2>6. Saids(<<p>>)
    BY <1>1, <2>5, OneSaid DEF ProviderTells
  <2>7. ApiHeard(wire, e)
    BY <1>8, <2>4
  <2> QED BY <1>1, <2>5, <2>6, <2>7, ProviderStep
<1> QED BY <1>5, <1>9, <1>10

\* Events that only begin or end something, and the end of the body.
LEMMA UnsaidKeeps ==
  ASSUME TurnInv, \/ ProviderBegins \/ BlockShuts \/ ProviderReason \/ ProviderStops
  PROVE  TurnInv'
<1>1. wire \in ApiWires /\ Goes(wire) /\ ended = "no"
  BY DEF ProviderBegins, BlockShuts, ProviderReason, ProviderStops, ApiWires, Goes
<1>2. \E e : ApiHeard(wire, e) /\ ProviderTells(e, <<>>)
  <2>1. CASE ProviderBegins
    <3>1. /\ wire \in {"messages", "responses"} /\ 0 \in Nat
          /\ ProviderTells(ApiEvent("begin", 0, <<>>), <<>>)
      BY <2>1 DEF ProviderBegins
    <3>2. ApiHeard(wire, ApiEvent("begin", 0, <<>>))
      BY <3>1, ApiEventIs DEF ApiHeard
    <3> QED BY <3>1, <3>2
  <2>2. CASE BlockShuts
    <3>1. PICK i \in DOMAIN source.calls : ProviderTells(ApiEvent("shut", i, <<>>), <<>>)
      BY <2>2 DEF BlockShuts
    <3>2. i \in Nat /\ wire = "messages"
      BY <1>1, <2>2, ApiQuiet, CallMapIs DEF BlockShuts, Goes
    <3>3. ApiHeard(wire, ApiEvent("shut", i, <<>>))
      BY <3>2, ApiEventIs DEF ApiHeard
    <3> QED BY <3>1, <3>3
  <2>3. CASE ProviderReason
    <3>1. PICK reason \in {"stop", "length", "max_tokens", "content_filter", "refusal"} :
            ProviderTells(ApiEvent("reason", 0, reason), <<>>)
      BY <2>3 DEF ProviderReason
    <3>2. wire \in {"chat", "messages"} /\ reason \in ApiReasons /\ 0 \in Nat
      BY <2>3 DEF ProviderReason, ApiReasons
    <3>3. ApiHeard(wire, ApiEvent("reason", 0, reason))
      BY <3>2, ApiEventIs DEF ApiHeard
    <3> QED BY <3>1, <3>3
  <2>4. CASE ProviderStops
    <3>1. /\ wire = "messages" /\ 0 \in Nat
          /\ ProviderTells(ApiEvent("stop", 0, <<>>), <<>>)
      BY <2>4 DEF ProviderStops, Goes
    <3>2. ApiHeard(wire, ApiEvent("stop", 0, <<>>))
      BY <3>1, ApiEventIs DEF ApiHeard
    <3> QED BY <3>1, <3>2
  <2> QED BY <2>1, <2>2, <2>3, <2>4
<1> QED BY <1>1, <1>2, ProviderUnsaid

LEMMA LastKeeps ==
  ASSUME TurnInv, \/ ProviderFails \/ ProviderHangsUp
  PROVE  TurnInv'
<1>1. wire \in ApiWires /\ Goes(wire) /\ ended = "no" /\ wire' = wire /\ TypedTurn
  BY DEF ProviderFails, ProviderHangsUp, ApiWires, Goes, TurnInv
<1>2. PICK q : q = Api!Quiet(source)
  OBVIOUS
<1>3. ApiInv(q) /\ q.wire = wire
  BY <1>1, <1>2, ApiQuiet
<1>4. said' = said => Saids(<<>>)
  BY <1>1, NothingSaid
<1>5. CASE ProviderTells(ApiEvent("error", 0, <<>>), <<>>)
  <2>1. 0 \in Nat
    OBVIOUS
  <2>2. ApiHeard(wire, ApiEvent("error", 0, <<>>))
    BY <2>1, ApiEventIs DEF ApiHeard
  <2> QED BY <1>1, <1>5, <2>2, ProviderUnsaid
<1>6. ASSUME NEW t, ApiTaken(t, q), NEW how, Retold(t, Api!Told(t), how),
             t.finished => how = Ending(t), said' = said
      PROVE  TurnInv'
  BY <1>1, <1>3, <1>4, <1>6, ApiStep
<1>7. CASE LET t == Api!Breaks(source) IN Retold(t, Api!Told(t), "failed") /\ UNCHANGED said
  <2>1. PICK t : t = Api!Breaks(source)
    OBVIOUS
  <2>2. t = [q EXCEPT !.refused = TRUE]
    BY <1>2, <2>1 DEF Api!Breaks
  <2>3. ApiRefused(t)
    BY <1>3, <2>2, ApiRefuses
  <2>4. ~t.finished /\ ApiTaken(t, q)
    BY <2>3 DEF ApiTaken, ApiRefused
  <2>5. PICK how : how = "failed"
    OBVIOUS
  <2>6. Retold(t, Api!Told(t), how) /\ said' = said
    BY <1>7, <2>1, <2>5
  <2> QED BY <1>6, <2>4, <2>6
<1>8. CASE ProviderHangsUp
  <2>1. PICK t : t = Api!Ends(source)
    OBVIOUS
  <2>2. t = Api!EndOf(q)
    BY <1>2, <2>1 DEF Api!Ends
  <2>3. ApiTaken(t, q)
    BY <1>3, <2>2, ApiEnds
  <2>4. PICK how : how = Ending(t)
    OBVIOUS
  <2>5. Retold(t, Api!Told(t), how) /\ said' = said
    BY <1>8, <2>1, <2>4 DEF ProviderHangsUp
  <2> QED BY <1>6, <2>3, <2>4, <2>5
<1> QED BY <1>5, <1>7, <1>8 DEF ProviderFails

\* A provider's own stream keeps the invariant.
LEMMA ApiKeeps ==
  ASSUME TurnInv, ApiNext
  PROVE  TurnInv'
BY SpeaksKeeps, ChatCallsKeeps, BlockOpensKeeps, BlockGrowsKeeps, CallToldKeeps, EndsKeep,
   UnsaidKeeps, LastKeeps DEF ApiNext

-----------------------------------------------------------------------------
(* Every step of a turn of Antigravity's.                                  *)

\* How a step of the translator leaves the turn.
LEMMA GeminiStep ==
  ASSUME TurnInv, wire = "gemini", ended = "no", wire' = wire, NEW t, GeminiTaken(t),
         NEW how, Retold(t, Gemini!Told(t), how),
         t.finished => how = Ending(t), NEW more, Saids(more)
  PROVE  TurnInv'
<1>1. PICK told : told = Gemini!Told(t)
  OBVIOUS
<1>2. Hear(told) /\ source' = [t EXCEPT !.out = <<>>] /\ UNCHANGED <<item, spoken>>
  BY <1>1 DEF Retold
<1>3. wire # "codex" /\ wire \notin ApiWires
  BY DEF ApiWires
<1>4. t \in GeminiT /\ Len(t.cache) <= Capacity
  BY DEF GeminiTaken, GeminiGoes, GeminiInv, GeminiDone, GeminiRefused, GeminiTyped
<1>5. Gemini!Closed = Closed /\ Gemini!Broken = Event("broken")
  BY GeminiEvents DEF Gemini!Closed, Closed, Gemini!Broken
<1>6. /\ source' \in GeminiT /\ source'.open = t.open /\ source'.next_index = t.next_index
      /\ source'.out = <<>> /\ source'.cache = t.cache
      /\ source'.finished = t.finished /\ source'.refused = t.refused
  <2>1. <<>> \in Seq(TurnEvent)
    OBVIOUS
  <2> QED BY <1>2, <1>4, <2>1 DEF GeminiT
<1>7. ASSUME ended' \in Ends PROVE TypedTurn'
  BY <1>2, <1>4, <1>6, <1>7, TypedStep DEF TurnInv
<1>8. CASE GeminiInv(t)
  <2>1. ~t.finished /\ ~t.refused /\ Telling(t.out, t.open, t.next_index)
    BY <1>8 DEF GeminiInv
  <2>2. told = t.out /\ ended' = "no"
    BY <1>1, <2>1 DEF Gemini!Told, Retold
  <2>3. Hears(t.open, t.next_index)'
    BY <1>2, <1>3, <2>1, <2>2, TurnGoesOn
  <2>4. GeminiLive'
    BY <1>4, <1>6, <2>1, <2>3 DEF GeminiLive, GeminiTyped
  <2>5. "no" \in Ends
    BY DEF Ends
  <2> QED BY <1>3, <1>7, <2>2, <2>4, <2>5 DEF TurnInv, TurnGoing
<1>9. ASSUME NEW end \in {"completed", "incomplete", "failed"}, ended' = end,
             Retells(told, end = "failed")
      PROVE  TurnInv'
  <2>1. TurnOver'
    BY <1>2, <1>3, <1>9, TurnEnds
  <2>2. ended' \in Ends /\ ended' # "no"
    BY <1>9 DEF Ends
  <2> QED BY <1>7, <2>1, <2>2 DEF TurnInv
<1>10. CASE GeminiDone(t)
  <2>1. PICK type : Finished(t.out, type) /\ t.finished /\ ~t.refused
    BY <1>10 DEF GeminiDone
  <2>2. told = t.out \o <<Closed>> /\ ended' = Last(t.out).type
    BY <1>1, <1>5, <2>1 DEF Gemini!Told, Retold, Ending
  <2>3. type \in Terminal /\ ended' = type /\ Retells(told, type = "failed")
    BY <2>1, <2>2, FinishedTold
  <2> QED BY <1>9, <2>3 DEF Terminal
<1>11. CASE GeminiRefused(t)
  <2>1. told = <<Event("broken")>> /\ ended' = "failed"
    BY <1>1, <1>5, <1>11 DEF Gemini!Told, Retold, GeminiRefused
  <2>2. PICK open, n : Hears(open, n)
    BY DEF TurnInv, TurnGoing, GeminiLive
  <2>3. Retelling(<<>>, OpenOf(open), n)
    BY <2>2, HearsTelling DEF Telling
  <2>4. told = <<>> \o <<Event("broken")>>
    BY <2>1, ConcatOne
  <2>5. Retells(told, TRUE)
    BY <2>3, <2>4, BrokenTold
  <2>6. Retells(told, "failed" = "failed")
    BY <2>5
  <2> QED BY <1>9, <2>1, <2>6
<1> QED BY <1>8, <1>10, <1>11 DEF GeminiTaken, GeminiGoes

LEMMA GeminiQuiet ==
  ASSUME TurnInv, wire = "gemini", ended = "no", NEW q, q = Gemini!Quiet(source)
  PROVE  GeminiInv(q) /\ q = source
<1>1. GeminiLive
  BY DEF TurnInv, TurnGoing
<1>2. q = source
  BY <1>1 DEF Gemini!Quiet, GeminiLive, GeminiTyped, GeminiT
<1>3. Telling(<<>>, source.open, source.next_index)
  BY <1>1, HearsTelling DEF GeminiLive
<1> QED BY <1>1, <1>2, <1>3 DEF GeminiInv, GeminiLive

LEMMA SaidSet ==
  ASSUME NEW kinds, kinds \subseteq {"call", "thought", "text"}, NEW ids, ids \subseteq Nat,
         NEW data, data \subseteq Pieced, NEW signatures, signatures \subseteq Nat
  PROVE  [kind : kinds, id : ids, data : data, signature : signatures] \subseteq PartSaid
BY DEF PartSaid

LEMMA PartsAtAre ==
  ASSUME NEW n \in Nat, NEW earlier, earlier \subseteq Nat
  PROVE  PartsAt(n, earlier) \subseteq PartSaid
<1>1. /\ {"text", "thought"} \subseteq {"call", "thought", "text"}
      /\ {"call"} \subseteq {"call", "thought", "text"}
      /\ {0} \subseteq Nat /\ {0, n} \subseteq Nat /\ {0, n} \union earlier \subseteq Nat
  OBVIOUS
<1>2. {<<>>, <<"x">>} \subseteq Pieced /\ {<<"]">>} \subseteq Pieced
  BY PiecesAre
<1>3. [kind : {"text", "thought"}, id : {0}, data : {<<>>, <<"x">>}, signature : {0, n}]
        \subseteq PartSaid
  BY <1>1, <1>2, SaidSet
<1>4. [kind : {"call"}, id : {0, n} \union earlier, data : {<<"]">>}, signature : {0, n}]
        \subseteq PartSaid
  BY <1>1, <1>2, SaidSet, ZenonT(40)
<1> QED BY <1>3, <1>4, Zenon DEF PartsAt

LEMMA UpToTwoAre ==
  ASSUME NEW n \in Nat, NEW earlier, earlier \subseteq Nat, NEW parts \in UpToTwo(n, earlier)
  PROVE  parts \in Seq(PartSaid)
<1>1. PartsAt(n, earlier) \subseteq PartSaid
  BY PartsAtAre
<1>2. CASE parts = <<>>
  BY <1>2
<1>3. CASE \E p \in PartsAt(n, earlier) : parts = <<p>>
  BY <1>1, <1>3
<1>4. CASE \E p \in PartsAt(n, earlier) :
             \E q \in PartsAt(n + 1, earlier \union IdsOf(<<p>>)) : parts = <<p, q>>
  <2>0. PICK p \in PartsAt(n, earlier) :
          \E q \in PartsAt(n + 1, earlier \union IdsOf(<<p>>)) : parts = <<p, q>>
    BY <1>4
  <2>1. PICK q \in PartsAt(n + 1, earlier \union IdsOf(<<p>>)) : parts = <<p, q>>
    BY <2>0
  <2>2. p \in PartSaid
    BY <1>1
  <2>3. <<p>> \in Seq(PartSaid)
    BY <2>2
  <2>4. IdsOf(<<p>>) \subseteq Nat
    BY <2>3, IdsAre
  <2>a. PICK ids : ids = IdsOf(<<p>>)
    OBVIOUS
  <2>b. ids \subseteq Nat
    BY <2>4, <2>a
  <2>5. PICK more : more = earlier \union ids
    OBVIOUS
  <2>6. more \subseteq Nat /\ n + 1 \in Nat
    BY <2>b, <2>5
  <2>7. q \in PartSaid
    BY <2>1, <2>a, <2>5, <2>6, PartsAtAre
  <2>8. <<p, q>> \in Seq(PartSaid)
    BY <2>2, <2>7
  <2> QED BY <2>1, <2>8
<1>5. \/ parts = <<>>
      \/ \E p \in PartsAt(n, earlier) : parts = <<p>>
      \/ \E p \in PartsAt(n, earlier) :
           \E q \in PartsAt(n + 1, earlier \union IdsOf(<<p>>)) : parts = <<p, q>>
  BY Zenon DEF UpToTwo
<1> QED BY <1>2, <1>3, <1>4, <1>5

GeminiNext == AgySays \/ AgyEnds \/ AgyBreaks

\* A turn of Antigravity's keeps the invariant.
LEMMA GeminiKeeps ==
  ASSUME TurnInv, GeminiNext
  PROVE  TurnInv'
<1>1. wire = "gemini" /\ ended = "no" /\ wire' = wire /\ TypedTurn
  BY DEF GeminiNext, AgySays, AgyEnds, AgyBreaks, Goes, TurnInv
<1>2. PICK q : q = Gemini!Quiet(source)
  OBVIOUS
<1>3. GeminiInv(q) /\ q = source
  BY <1>1, <1>2, GeminiQuiet
<1>4. CASE AgySays
  <2>1. PICK reason \in Reasons, usage \in BOOLEAN,
             parts \in UpToTwo(Len(said) + 1, IdsOf(said)) :
          /\ Len(said) + Len(parts) <= MaxParts
          /\ said' = said \o parts
          /\ LET t == Gemini!Reads(source, [parts |-> parts, reason |-> reason, usage |-> usage])
             IN Retold(t, Gemini!Told(t), Ending(t))
    BY <1>4 DEF AgySays
  <2>2. said \in Seq(PartSaid) /\ Len(said) + 1 \in Nat /\ IdsOf(said) \subseteq Nat
    BY <1>1, IdsAre DEF TypedTurn
  <2>3. parts \in Seq(PartSaid)
    BY <2>2, UpToTwoAre
  <2>4. PICK event : event = [parts |-> parts, reason |-> reason, usage |-> usage]
    OBVIOUS
  <2>5. event.reason \in Reasons /\ event.parts \in Seq(PartSaid)
    BY <2>3, <2>4
  <2>6. PICK t : t = Gemini!Accept(q, event)
    OBVIOUS
  <2>7. GeminiTaken(t)
    BY <1>3, <2>5, <2>6, GeminiAccepts
  <2>8. PICK how : how = Ending(t)
    OBVIOUS
  <2>9. Retold(t, Gemini!Told(t), how)
    BY <1>2, <2>1, <2>4, <2>6, <2>8 DEF Gemini!Reads
  <2>10. Saids(parts)
    BY <1>1, <2>1, <2>3 DEF Saids
  <2> QED BY <1>1, <2>7, <2>8, <2>9, <2>10, GeminiStep
<1>5. CASE AgyEnds
  <2>1. PICK t : t = Gemini!EndOfStream(q)
    OBVIOUS
  <2>2. GeminiTaken(t)
    BY <1>3, <2>1, GeminiEnds
  <2>3. PICK how : how = Ending(t)
    OBVIOUS
  <2>4. Retold(t, Gemini!Told(t), how) /\ said' = said
    BY <1>2, <1>5, <2>1, <2>3 DEF AgyEnds, Gemini!Ends
  <2>5. Saids(<<>>)
    BY <1>1, <2>4, NothingSaid
  <2> QED BY <1>1, <2>2, <2>3, <2>4, <2>5, GeminiStep
<1>6. CASE AgyBreaks
  <2>1. PICK t : t = [q EXCEPT !.refused = TRUE]
    OBVIOUS
  <2>2. GeminiRefused(t) /\ t.refused /\ t.finished = q.finished
    <3>1. GeminiRefused(t)
      BY <1>3, <2>1, GeminiRefuses
    <3>2. q \in GeminiT
      BY <1>3 DEF GeminiInv, GeminiTyped
    <3> QED BY <2>1, <3>1, <3>2 DEF GeminiT, GeminiRefused
  <2>3. GeminiTaken(t) /\ ~t.finished
    BY <1>3, <2>2 DEF GeminiTaken, GeminiGoes, GeminiInv
  <2>4. PICK how : how = "failed"
    OBVIOUS
  <2>5. Gemini!Told(t) = <<Gemini!Broken>>
    BY <2>2 DEF Gemini!Told
  <2>6. Retold(t, Gemini!Told(t), how) /\ said' = said
    BY <1>3, <1>6, <2>1, <2>4, <2>5 DEF AgyBreaks
  <2>7. Saids(<<>>)
    BY <1>1, <2>6, NothingSaid
  <2> QED BY <1>1, <2>3, <2>6, <2>7, GeminiStep
<1> QED BY <1>4, <1>5, <1>6 DEF GeminiNext

-----------------------------------------------------------------------------
(* Every step of a turn of chatgpt.com's.                                  *)

\* An item's text and arguments are of bounded length.
LEMMA PiecesIn ==
  \A p : p \in Pieces <=> p \in Seq({"x", "[", "]"}) /\ Len(p) <= MaxPieces
<1>1. MaxPieces \in Nat
  BY BoundsAssumption
<1>2. ASSUME NEW p \in Pieces PROVE p \in Seq({"x", "[", "]"}) /\ Len(p) <= MaxPieces
  <2>1. PICK n \in 0..MaxPieces : p \in [1..n -> {"x", "[", "]"}]
    BY DEF Pieces
  <2>2. n \in Nat /\ n <= MaxPieces
    BY <1>1, <2>1
  <2>3. p \in Seq({"x", "[", "]"})
    BY <2>1, <2>2
  <2>4. Len(p) = n
    BY <2>1, <2>2, <2>3
  <2> QED BY <2>2, <2>3, <2>4
<1>3. ASSUME NEW p \in Seq({"x", "[", "]"}), Len(p) <= MaxPieces PROVE p \in Pieces
  <2>1. PICK n : n = Len(p)
    OBVIOUS
  <2>2. n \in 0..MaxPieces /\ p \in [1..n -> {"x", "[", "]"}]
    BY <1>1, <1>3, <2>1
  <2> QED BY <2>2 DEF Pieces
<1> QED BY <1>2, <1>3

LEMMA PiecesHeard ==
  ASSUME NEW p \in Pieces
  PROVE  p \in Pieced
<1>1. p \in Seq({"x", "[", "]"})
  BY PiecesIn
<1>2. {"x", "[", "]"} \subseteq {"x", "[", "]", "{}"}
  OBVIOUS
<1>3. p \in Seq({"x", "[", "]", "{}"})
  BY <1>1, <1>2, SeqMonotonic, Zenon
<1> QED BY <1>3, Zenon DEF Pieced

LEMMA PiecesMore ==
  ASSUME NEW p \in Pieces, Len(p) < MaxPieces, NEW x \in {"x", "[", "]"}, NEW q, q = Append(p, x)
  PROVE  q \in Pieces
<1>1. p \in Seq({"x", "[", "]"}) /\ MaxPieces \in Nat
  BY PiecesIn, BoundsAssumption
<1>2. q \in Seq({"x", "[", "]"}) /\ Len(q) = Len(p) + 1
  BY <1>1
<1>3. Len(q) <= MaxPieces
  BY <1>1, <1>2
<1> QED BY <1>2, <1>3, PiecesIn, Zenon

LEMMA PiecesFew ==
  <<>> \in Pieces /\ <<"x">> \in Pieces /\ CallPieces \subseteq Pieces
<1>1. MaxPieces \in Nat /\ MaxPieces >= 2
  BY BoundsAssumption
<1>2. "x" \in {"x", "[", "]"} /\ "[" \in {"x", "[", "]"} /\ "]" \in {"x", "[", "]"}
  OBVIOUS
<1>3. /\ <<>> \in Seq({"x", "[", "]"}) /\ Len(<<>>) = 0
      /\ <<"x">> \in Seq({"x", "[", "]"}) /\ Len(<<"x">>) = 1
      /\ <<"]">> \in Seq({"x", "[", "]"}) /\ Len(<<"]">>) = 1
      /\ <<"[", "]">> \in Seq({"x", "[", "]"}) /\ Len(<<"[", "]">>) = 2
  BY <1>2
<1>4. ASSUME NEW s \in Seq({"x", "[", "]"}), NEW n \in {0, 1, 2}, Len(s) = n PROVE s \in Pieces
  <2>1. n <= MaxPieces
    BY <1>1
  <2>2. Len(s) <= MaxPieces
    BY <1>4, <2>1
  <2> QED BY <2>2, PiecesIn, Zenon
<1>5. <<>> \in Pieces /\ <<"x">> \in Pieces /\ <<"]">> \in Pieces /\ <<"[", "]">> \in Pieces
  BY <1>3, <1>4, Zenon
<1> QED BY <1>5, Zenon DEF CallPieces

LEMMA ItemSet ==
  ASSUME item \in [Items -> Item], NEW i \in Items, NEW it \in Item, item' = [item EXCEPT ![i] = it]
  PROVE  /\ item' \in [Items -> Item] /\ item'[i] = it
         /\ \A j \in Items : j # i => item'[j] = item[j]
OBVIOUS

LEMMA OpenIs ==
  ASSUME NEW i \in Items, item[i].phase = "open"
  PROVE  /\ <<i, item[i].kind>> \in OpenItems
         /\ \A p \in OpenItems : p[1] = i => p[2] = item[i].kind
BY DEF OpenItems

LEMMA NewIs ==
  ASSUME NEW i \in Items, item[i].phase = "new"
  PROVE  \A p \in OpenItems : p[1] # i
BY DEF OpenItems

LEMMA OpenSame ==
  ASSUME NEW i \in Items, item[i].phase = "open", item'[i].phase = "open",
         item'[i].kind = item[i].kind, \A j \in Items : j # i => item'[j] = item[j]
  PROVE  OpenItems' = OpenItems
BY DEF OpenItems

LEMMA OpenMore ==
  ASSUME NEW i \in Items, item'[i].phase = "open",
         item[i].phase = "new" \/ (item[i].phase = "open" /\ item'[i].kind = item[i].kind),
         \A j \in Items : j # i => item'[j] = item[j]
  PROVE  OpenItems' = OpenItems \union {<<i, item'[i].kind>>}
BY DEF OpenItems

LEMMA OpenLess ==
  ASSUME NEW i \in Items, item'[i].phase = "done",
         \A j \in Items : j # i => item'[j] = item[j]
  PROVE  OpenItems' = {p \in OpenItems : p[1] # i}
BY DEF OpenItems

LEMMA CodexTyped ==
  ASSUME TypedTurn, wire = "codex", wire' = wire, said' = said, ended' \in Ends,
         item' \in [Items -> Item], spoken' \in Seq(Items),
         \A i \in Items : item'[i].phase = "new" => item'[i].kind = "message"
  PROVE  TypedTurn'
BY DEF TypedTurn

\* The surfaces hear an event that is legal for the items that are open.
LEMMA CodexHears ==
  ASSUME TurnInv, Codex, NEW e \in TurnEvent, Hear(<<e>>), Legal(OpenItems, e)
  PROVE  /\ IF e.type \in Finals
              THEN MessagesEnded(messages', e) /\ ChatEnded(chat')
              ELSE /\ MessagesInv(messages') /\ ~messages'.finished
                   /\ Shows(messages', After(OpenItems, e)) /\ ChatInv(chat')
         /\ agy' \in AgyT /\ (agy'.finished <=> e.type \in Finals)
<1>1. CodexLive /\ wire = "codex"
  BY DEF TurnInv, TurnGoing, Codex, Goes
<1>2. /\ messages' = Messages!Hear(messages, e) /\ chat' = Chat!Hear(chat, e)
      /\ agy' = Agy!Hear(agy, e)
  BY <1>1, MessagesFolds, ChatOne, AgyFolds DEF Hear
<1>3. e.type = "closed" => e = Closed
  BY DEF Legal
<1>4. IF e.type \in Finals THEN MessagesEnded(messages', e)
        ELSE /\ MessagesInv(messages') /\ ~messages'.finished
             /\ Shows(messages', After(OpenItems, e))
  BY <1>1, <1>2, MessagesHear DEF CodexLive
<1>5. IF e.type \in Finals THEN ChatEnded(chat') ELSE ChatInv(chat')
  BY <1>1, <1>2, <1>3, ChatHear DEF CodexLive
<1>6. agy' \in AgyT /\ (agy'.finished <=> e.type \in Finals)
  BY <1>1, <1>2, AgyHears DEF CodexLive
<1> QED BY <1>4, <1>5, <1>6

\* An event that does not end the turn.
LEMMA CodexGoesOn ==
  ASSUME TurnInv, NEW e \in TurnEvent, Tells(e), Legal(OpenItems, e), e.type \notin Finals,
         item' \in [Items -> Item], spoken' \in Seq(Items),
         \A i \in Items : item'[i].phase = "new" => item'[i].kind = "message",
         OpenItems' = After(OpenItems, e)
  PROVE  TurnInv'
<1>1. /\ wire = "codex" /\ wire' = "codex" /\ ended = "no" /\ ended' = "no" /\ said' = said
      /\ Codex /\ Hear(<<e>>)
  BY DEF Tells, Codex, Goes
<1>2. CodexLive'
  BY <1>1, CodexHears DEF CodexLive
<1>3. TypedTurn'
  <2>1. "no" \in Ends
    BY DEF Ends
  <2> QED BY <1>1, <2>1, CodexTyped DEF TurnInv
<1>4. "codex" # "gemini" /\ "codex" \notin ApiWires
  BY DEF ApiWires
<1> QED BY <1>1, <1>2, <1>3, <1>4 DEF TurnInv, TurnGoing

\* An event that does.
LEMMA CodexEnds ==
  ASSUME TurnInv, NEW e \in TurnEvent, NEW how \in Ends \ {"no"}, EndsIn(<<e>>, how),
         e.type = "closed" => e = Closed,
         e.type \in Finals, e.type \in Refusals <=> how = "failed"
  PROVE  TurnInv'
<1>1. /\ wire = "codex" /\ wire' = "codex" /\ ended' = how /\ said' = said
      /\ item' = item /\ spoken' = spoken /\ Codex /\ Hear(<<e>>)
  BY DEF EndsIn, Codex, Goes
<1>2. Legal(OpenItems, e)
  BY DEF Legal, Finals, Terminal, Refusals
<1>3. TurnOver'
  <2>1. MessagesEnded(messages', e) /\ ChatEnded(chat') /\ agy'.finished
    BY <1>1, <1>2, CodexHears
  <2> QED BY <1>1, <2>1 DEF TurnOver, MessagesEnded
<1>4. TypedTurn'
  <2>1. TypedTurn
    BY DEF TurnInv
  <2>2. /\ item' \in [Items -> Item] /\ spoken' \in Seq(Items)
        /\ \A i \in Items : item'[i].phase = "new" => item'[i].kind = "message"
    BY <1>1, <2>1 DEF TypedTurn
  <2> QED BY <1>1, <2>1, <2>2, CodexTyped
<1> QED BY <1>1, <1>3, <1>4 DEF TurnInv

LEMMA CodexOpen ==
  ASSUME TurnInv, Codex
  PROVE  TypedTurn /\ \A i \in Items : i \in Nat /\ item[i] \in Item
BY ItemsAssumption DEF TurnInv, TypedTurn

LEMMA AlivesKeeps ==
  ASSUME TurnInv, Alives
  PROVE  TurnInv'
<1>1. PICK type \in {"created", "alive"} : Tells(Event(type)) /\ UNCHANGED <<item, spoken>>
  BY DEF Alives, Created, Alive
<1>2. PICK e : e = Event(type)
  OBVIOUS
<1>3. type \in EventTypes
  BY DEF EventTypes
<1>4. e \in TurnEvent /\ e.type = type
  BY <1>2, <1>3, EventIs
<1>5. Legal(OpenItems, e) /\ e.type \notin Finals /\ After(OpenItems, e) = OpenItems
  BY <1>4 DEF Legal, Finals, Terminal, Refusals, After
<1>6. TypedTurn /\ Tells(e) /\ item' = item /\ spoken' = spoken
  BY <1>1, <1>2 DEF TurnInv
<1>7. OpenItems' = OpenItems
  BY <1>6 DEF OpenItems
<1> QED BY <1>4, <1>5, <1>6, <1>7, CodexGoesOn DEF TypedTurn

LEMMA AddedKeeps ==
  ASSUME TurnInv, NEW i \in Items, Added(i)
  PROVE  TurnInv'
<1>1. PICK kind \in Kinds, call \in CallPieces :
        /\ item' = [item EXCEPT ![i].kind = kind, ![i].phase = "open", ![i].arguments = call]
        /\ spoken' = IF Visible(kind) THEN Append(spoken, i) ELSE spoken
        /\ Tells(AddedEvent(i, kind, i))
  BY DEF Added
<1>2. TypedTurn /\ i \in Nat /\ item[i] \in Item /\ item[i].phase = "new"
  BY <1>1, CodexOpen DEF Added, Begins, Tells
<1>3. PICK it : it = [item[i] EXCEPT !.kind = kind, !.phase = "open", !.arguments = call]
  OBVIOUS
<1>4. it \in Item /\ it.phase = "open" /\ it.kind = kind
  <2>1. call \in Pieces
    BY <1>1, PiecesFew
  <2> QED BY <1>1, <1>2, <1>3, <2>1 DEF Item
<1>5. item' = [item EXCEPT ![i] = it]
  BY <1>1, <1>2, <1>3 DEF TypedTurn
<1>6. /\ item' \in [Items -> Item] /\ item'[i] = it
      /\ \A j \in Items : j # i => item'[j] = item[j]
  BY <1>2, <1>4, <1>5, ItemSet DEF TypedTurn
<1>7. PICK e : e = AddedEvent(i, kind, i)
  OBVIOUS
<1>8. e \in TurnEvent /\ e.type = "item_added" /\ e.index = i /\ e.kind = kind
  BY <1>1, <1>2, <1>7, AddedIs
<1>9. Legal(OpenItems, e) /\ e.type \notin Finals
  BY <1>1, <1>2, <1>8, NewIs DEF Legal, Finals, Terminal, Refusals
<1>10. OpenItems' = After(OpenItems, e)
  BY <1>2, <1>4, <1>6, <1>8, OpenMore DEF After
<1>11. spoken' \in Seq(Items)
  BY <1>1, <1>2 DEF TypedTurn
<1>12. \A j \in Items : item'[j].phase = "new" => item'[j].kind = "message"
  BY <1>2, <1>4, <1>6 DEF TypedTurn
<1>13. Tells(e)
  BY <1>1, <1>7
<1> QED BY <1>6, <1>8, <1>9, <1>10, <1>11, <1>12, <1>13, CodexGoesOn

\* An event that adds to an item that is open or, if it is text, begins it.
LEMMA DeltaGoesOn ==
  ASSUME TurnInv, NEW i \in Items, NEW type \in EventTypes, NEW data \in Pieced,
         Tells(DeltaEvent(type, i, data)), NEW it \in Item, item' = [item EXCEPT ![i] = it],
         it.phase = "open", it.kind = item[i].kind, spoken' \in Seq(Items),
         \/ type = "text_delta" /\ item[i].kind = "message" /\ item[i].phase \in {"new", "open"}
         \/ type = "thought_delta" /\ item[i].kind = "reasoning" /\ item[i].phase = "open"
         \/ /\ type \in {"text_done", "arguments_delta", "arguments_done"}
            /\ item[i].phase = "open"
  PROVE  TurnInv'
<1>1. TypedTurn /\ i \in Nat /\ item[i] \in Item
  BY CodexOpen DEF Tells
<1>2. /\ item' \in [Items -> Item] /\ item'[i] = it
      /\ \A j \in Items : j # i => item'[j] = item[j]
  BY <1>1, ItemSet DEF TypedTurn
<1>3. PICK e : e = DeltaEvent(type, i, data)
  OBVIOUS
<1>4. e \in TurnEvent /\ e.type = type /\ e.index = i
  BY <1>1, <1>3, DeltaIs
<1>5. e.type \notin Finals
  BY <1>4 DEF Finals, Terminal, Refusals
<1>6. ASSUME type = "text_delta" PROVE Legal(OpenItems, e) /\ OpenItems' = After(OpenItems, e)
  <2>1. \A p \in OpenItems : p[1] = i => p[2] = "message"
    BY <1>6, NewIs, OpenIs
  <2>2. Legal(OpenItems, e)
    BY <1>4, <1>6, <2>1 DEF Legal
  <2>3. OpenItems' = OpenItems \union {<<i, item'[i].kind>>}
    BY <1>2, <1>6, OpenMore
  <2>4. OpenItems' = After(OpenItems, e)
    BY <1>2, <1>4, <1>6, <2>3 DEF After
  <2> QED BY <2>2, <2>4
<1>7. ASSUME type # "text_delta" PROVE Legal(OpenItems, e) /\ OpenItems' = After(OpenItems, e)
  <2>1. OpenItems' = OpenItems
    BY <1>2, <1>7, OpenSame
  <2>2. After(OpenItems, e) = OpenItems
    BY <1>4, <1>7 DEF After
  <2>3. /\ <<i, item[i].kind>> \in OpenItems
        /\ \A p \in OpenItems : p[1] = i => p[2] = item[i].kind
    BY <1>7, OpenIs
  <2>4. Legal(OpenItems, e)
    BY <1>4, <1>5, <1>7, <2>3 DEF Legal, Finals
  <2> QED BY <2>1, <2>2, <2>4
<1>8. Legal(OpenItems, e) /\ OpenItems' = After(OpenItems, e)
  BY <1>6, <1>7
<1>9. \A j \in Items : item'[j].phase = "new" => item'[j].kind = "message"
  BY <1>1, <1>2 DEF TypedTurn
<1>10. Tells(e)
  BY <1>3
<1> QED BY <1>2, <1>4, <1>5, <1>8, <1>9, <1>10, CodexGoesOn

LEMMA TextKeeps ==
  ASSUME TurnInv, NEW i \in Items, Text(i)
  PROVE  TurnInv'
<1>1. /\ Begins(i) \/ IsOpen(i, "message")
      /\ item' = [item EXCEPT ![i].phase = "open", ![i].sent = Append(@, "x")]
      /\ spoken' = IF item[i].phase = "new" THEN Append(spoken, i) ELSE spoken
      /\ Len(item[i].sent) < MaxPieces
      /\ Tells(DeltaEvent("text_delta", i, <<"x">>))
  BY DEF Text, Says
<1>2. TypedTurn /\ item[i] \in Item
  BY <1>1, CodexOpen DEF Tells
<1>3. item[i].kind = "message" /\ item[i].phase \in {"new", "open"}
  BY <1>1, <1>2 DEF Begins, IsOpen, TypedTurn
<1>4. PICK sent \in Pieces : sent = Append(item[i].sent, "x")
  <2>1. item[i].sent \in Pieces /\ "x" \in {"x", "[", "]"}
    BY <1>2 DEF Item
  <2> QED BY <1>1, <2>1, PiecesMore
<1>5. PICK it : it = [item[i] EXCEPT !.phase = "open", !.sent = sent]
  OBVIOUS
<1>6. it \in Item /\ it.phase = "open" /\ it.kind = item[i].kind
  BY <1>2, <1>4, <1>5 DEF Item
<1>7. item' = [item EXCEPT ![i] = it]
  BY <1>1, <1>2, <1>4, <1>5 DEF TypedTurn
<1>8. spoken' \in Seq(Items)
  BY <1>1, <1>2 DEF TypedTurn
<1>9. "text_delta" \in EventTypes /\ <<"x">> \in Pieced
  BY PiecesAre DEF EventTypes
<1> QED BY <1>1, <1>3, <1>6, <1>7, <1>8, <1>9, DeltaGoesOn

LEMMA ThoughtKeeps ==
  ASSUME TurnInv, NEW i \in Items, Thought(i)
  PROVE  TurnInv'
<1>1. /\ IsOpen(i, "reasoning") /\ Len(item[i].sent) < MaxPieces
      /\ item' = [item EXCEPT ![i].phase = "open", ![i].sent = Append(@, "x")]
      /\ spoken' = spoken
      /\ Tells(DeltaEvent("thought_delta", i, <<"x">>))
  BY DEF Thought, Says
<1>2. TypedTurn /\ item[i] \in Item
  BY <1>1, CodexOpen DEF Tells
<1>4. PICK sent \in Pieces : sent = Append(item[i].sent, "x")
  <2>1. item[i].sent \in Pieces /\ "x" \in {"x", "[", "]"}
    BY <1>2 DEF Item
  <2> QED BY <1>1, <2>1, PiecesMore
<1>5. PICK it : it = [item[i] EXCEPT !.phase = "open", !.sent = sent]
  OBVIOUS
<1>6. it \in Item /\ it.phase = "open" /\ it.kind = item[i].kind
  BY <1>2, <1>4, <1>5 DEF Item
<1>7. item' = [item EXCEPT ![i] = it]
  BY <1>1, <1>2, <1>4, <1>5 DEF TypedTurn
<1>8. spoken' \in Seq(Items)
  BY <1>1, <1>2 DEF TypedTurn
<1>9. "thought_delta" \in EventTypes /\ <<"x">> \in Pieced
  BY PiecesAre DEF EventTypes
<1> QED BY <1>1, <1>6, <1>7, <1>8, <1>9, DeltaGoesOn DEF IsOpen

LEMMA TextDoneKeeps ==
  ASSUME TurnInv, NEW i \in Items, TextDone(i)
  PROVE  TurnInv'
<1>1. /\ IsOpen(i, "message") /\ spoken' = spoken
      /\ \/ item' = item
         \/ item' = [item EXCEPT ![i].sent = <<"x">>, ![i].once = TRUE]
      /\ Tells(DeltaEvent("text_done", i, item'[i].sent))
  BY DEF TextDone
<1>2. TypedTurn /\ item[i] \in Item
  BY <1>1, CodexOpen DEF Tells
<1>3. PICK it \in {item[i], [item[i] EXCEPT !.sent = <<"x">>, !.once = TRUE]} :
        item' = [item EXCEPT ![i] = it]
  BY <1>1, <1>2 DEF TypedTurn
<1>4. it \in Item /\ it.phase = item[i].phase /\ it.kind = item[i].kind
  BY <1>2, <1>3, PiecesFew DEF Item
<1>5. PICK data : data = item'[i].sent
  OBVIOUS
<1>6. data \in Pieced
  <2>1. item'[i] = it
    BY <1>2, <1>3, <1>4, ItemSet DEF TypedTurn
  <2>2. data \in Pieces
    BY <1>4, <1>5, <2>1 DEF Item
  <2> QED BY <2>2, PiecesHeard
<1>7. "text_done" \in EventTypes /\ spoken' \in Seq(Items)
  BY <1>1, <1>2 DEF EventTypes, TypedTurn
<1>8. Tells(DeltaEvent("text_done", i, data)) /\ item[i].phase = "open"
  BY <1>1, <1>5 DEF IsOpen
<1> QED BY <1>3, <1>4, <1>6, <1>7, <1>8, DeltaGoesOn

LEMMA ArgumentsKeeps ==
  ASSUME TurnInv, NEW i \in Items, Arguments(i)
  PROVE  TurnInv'
<1>1. PICK n : n = Len(item[i].sent) + 1
  OBVIOUS
<1>2. /\ IsOpen(i, "function_call") /\ n <= Len(item[i].arguments) /\ spoken' = spoken
      /\ item' = [item EXCEPT ![i].phase = "open", ![i].sent = Append(@, item[i].arguments[n])]
      /\ Tells(DeltaEvent("arguments_delta", i, <<item[i].arguments[n]>>))
  BY <1>1 DEF Arguments, Says
<1>3. TypedTurn /\ item[i] \in Item
  BY <1>2, CodexOpen DEF Tells
<1>4. /\ item[i].sent \in Seq({"x", "[", "]"}) /\ item[i].arguments \in Seq({"x", "[", "]"})
      /\ Len(item[i].arguments) <= MaxPieces /\ item[i].sent \in Pieces
  <2>1. item[i].sent \in Pieces /\ item[i].arguments \in Pieces
    BY <1>3 DEF Item
  <2> QED BY <2>1, PiecesIn
<1>5. PICK x \in {"x", "[", "]"} : x = item[i].arguments[n]
  <2>1. n \in 1..Len(item[i].arguments)
    BY <1>1, <1>2, <1>4
  <2> QED BY <1>4, <2>1, ElementOfSeq
<1>6. PICK sent \in Pieces : sent = Append(item[i].sent, x)
  <2>1. Len(item[i].sent) < MaxPieces
    BY <1>1, <1>2, <1>4, BoundsAssumption
  <2> QED BY <1>4, <1>5, <2>1, PiecesMore
<1>7. PICK it : it = [item[i] EXCEPT !.phase = "open", !.sent = sent]
  OBVIOUS
<1>8. it \in Item /\ it.phase = "open" /\ it.kind = item[i].kind
  BY <1>3, <1>6, <1>7 DEF Item
<1>9. item' = [item EXCEPT ![i] = it]
  BY <1>2, <1>3, <1>5, <1>6, <1>7 DEF TypedTurn
<1>10. spoken' \in Seq(Items) /\ "arguments_delta" \in EventTypes
  BY <1>2, <1>3 DEF TypedTurn, EventTypes
<1>11. PICK data : data = <<x>>
  OBVIOUS
<1>12. data \in Pieced /\ Tells(DeltaEvent("arguments_delta", i, data))
  BY <1>2, <1>5, <1>11, PiecesAre
<1> QED BY <1>2, <1>8, <1>9, <1>10, <1>12, DeltaGoesOn DEF IsOpen

LEMMA ArgumentsDoneKeeps ==
  ASSUME TurnInv, NEW i \in Items, ArgumentsDone(i)
  PROVE  TurnInv'
<1>1. /\ IsOpen(i, "function_call") /\ spoken' = spoken
      /\ Tells(DeltaEvent("arguments_done", i, item[i].arguments))
      /\ item' = [item EXCEPT ![i].sent = item[i].arguments]
  BY DEF ArgumentsDone
<1>2. TypedTurn /\ item[i] \in Item
  BY <1>1, CodexOpen DEF Tells
<1>3. PICK data \in Pieces : data = item[i].arguments
  BY <1>2 DEF Item
<1>4. PICK it : it = [item[i] EXCEPT !.sent = data]
  OBVIOUS
<1>5. it \in Item /\ it.phase = item[i].phase /\ it.kind = item[i].kind
  BY <1>2, <1>3, <1>4 DEF Item
<1>6. item' = [item EXCEPT ![i] = it]
  BY <1>1, <1>2, <1>3, <1>4 DEF TypedTurn
<1>7. spoken' \in Seq(Items) /\ "arguments_done" \in EventTypes
  BY <1>1, <1>2 DEF TypedTurn, EventTypes
<1>8. data \in Pieced /\ Tells(DeltaEvent("arguments_done", i, data))
  BY <1>1, <1>3, PiecesHeard
<1> QED BY <1>1, <1>5, <1>6, <1>7, <1>8, DeltaGoesOn DEF IsOpen

LEMMA DoneKeeps ==
  ASSUME TurnInv, NEW i \in Items, Done(i)
  PROVE  TurnInv'
<1>1. PICK repeated \in BOOLEAN :
        /\ item[i].phase = "open" /\ spoken' = spoken
        /\ item' = [item EXCEPT ![i].phase = "done", ![i].repeated = repeated]
        /\ LET whole == IF item[i].kind = "function_call" THEN item[i].arguments
                                                          ELSE item[i].sent
           IN Tells(DoneEvent(i, item[i].kind, i, IF repeated THEN whole ELSE <<>>, 0))
  BY DEF Done
<1>2. TypedTurn /\ item[i] \in Item /\ i \in Nat
  BY <1>1, CodexOpen DEF Tells
<1>3. PICK data : data = IF repeated THEN IF item[i].kind = "function_call" THEN item[i].arguments
                                                                           ELSE item[i].sent
                                     ELSE <<>>
  OBVIOUS
<1>4. data \in Pieced /\ item[i].kind \in Kinds
  <2>1. item[i].arguments \in Pieces /\ item[i].sent \in Pieces /\ item[i].kind \in Kinds
    BY <1>2 DEF Item
  <2>2. data \in Pieces
    BY <1>3, <2>1, PiecesFew
  <2> QED BY <2>1, <2>2, PiecesHeard
<1>5. PICK e : e = DoneEvent(i, item[i].kind, i, data, 0)
  OBVIOUS
<1>6. e \in TurnEvent /\ e.type = "item_done" /\ e.index = i
  BY <1>2, <1>4, <1>5, DoneIs
<1>7. Tells(e)
  BY <1>1, <1>3, <1>5
<1>8. PICK it : it = [item[i] EXCEPT !.phase = "done", !.repeated = repeated]
  OBVIOUS
<1>9. it \in Item /\ it.phase = "done"
  BY <1>1, <1>2, <1>8 DEF Item
<1>10. item' = [item EXCEPT ![i] = it]
  BY <1>1, <1>2, <1>8 DEF TypedTurn
<1>11. /\ item' \in [Items -> Item] /\ item'[i] = it
       /\ \A j \in Items : j # i => item'[j] = item[j]
  BY <1>2, <1>9, <1>10, ItemSet DEF TypedTurn
<1>12. Legal(OpenItems, e) /\ e.type \notin Finals
  BY <1>1, <1>6, OpenIs DEF Legal, Finals, Terminal, Refusals
<1>13. OpenItems' = After(OpenItems, e)
  BY <1>6, <1>9, <1>11, OpenLess DEF After
<1>14. /\ spoken' \in Seq(Items)
       /\ \A j \in Items : item'[j].phase = "new" => item'[j].kind = "message"
  BY <1>1, <1>2, <1>9, <1>11 DEF TypedTurn
<1> QED BY <1>6, <1>7, <1>11, <1>12, <1>13, <1>14, CodexGoesOn

LEMMA OverKeeps ==
  ASSUME TurnInv, Completed \/ Incomplete \/ Failed \/ Cut
  PROVE  TurnInv'
<1>1. PICK type \in {"completed", "incomplete"} \union Refusals \union {"closed"},
           how \in Ends \ {"no"} :
        /\ EndsIn(<<Event(type)>>, how)
        /\ type \in Refusals <=> how = "failed"
  <2>1. CASE Completed
    BY <2>1 DEF Completed, Ends, Refusals
  <2>2. CASE Incomplete
    BY <2>2 DEF Incomplete, Ends, Refusals
  <2>3. CASE Failed
    BY <2>3 DEF Failed, Ends
  <2>4. CASE Cut
    BY <2>4 DEF Cut, Closed, Ends, Refusals
  <2> QED BY <2>1, <2>2, <2>3, <2>4
<1>2. PICK e : e = Event(type)
  OBVIOUS
<1>3. type \in EventTypes /\ type \in Finals
  BY <1>1 DEF EventTypes, Finals, Terminal
<1>4. e \in TurnEvent /\ e.type = type
  BY <1>2, <1>3, EventIs
<1>5. e.type = "closed" => e = Closed
  BY <1>2, <1>4 DEF Closed
<1> QED BY <1>1, <1>2, <1>3, <1>4, <1>5, CodexEnds

CodexNext ==
  \/ Alives \/ Completed \/ Incomplete \/ Failed \/ Cut
  \/ \E i \in Items :
       \/ Added(i) \/ Text(i) \/ TextDone(i) \/ Thought(i)
       \/ Arguments(i) \/ ArgumentsDone(i) \/ Done(i)

\* A turn of chatgpt.com's keeps the invariant.
LEMMA CodexKeeps ==
  ASSUME TurnInv, CodexNext
  PROVE  TurnInv'
BY AlivesKeeps, AddedKeeps, TextKeeps, ThoughtKeeps, TextDoneKeeps, ArgumentsKeeps,
   ArgumentsDoneKeeps, DoneKeeps, OverKeeps DEF CodexNext

-----------------------------------------------------------------------------
(* The turn before anything is said.                                       *)

LEMMA MessagesBegins ==
  ASSUME NEW thinking \in BOOLEAN, NEW m, m = Messages!New(thinking)
  PROVE  MessagesInv(m) /\ ~m.finished /\ m.next_index = 0 /\ DOMAIN m.blocks = {}
<1>1. /\ m.out = <<>> /\ m.blocks = <<>> /\ m.next_index = 0 /\ ~m.started /\ ~m.finished
  BY DEF Messages!New
<1>2. DOMAIN m.blocks = {} /\ IsFiniteSet({}) /\ Cardinality({}) = 0
  BY <1>1, FS_EmptySet
<1>3. m \in MTurn
  <2>1. m.blocks \in BlockMap
    <3>1. m.blocks \in [{} -> Block]
      BY <1>1
    <3> QED BY <3>1 DEF BlockMap
  <2>2. <<>> \in Seq(Frame)
    OBVIOUS
  <2> QED BY <2>1, <2>2 DEF Messages!New, MTurn
<1>4. Starts(m.out) = {} /\ Len(m.out) = 0
  BY <1>1 DEF Starts
<1>5. Messages!WellFormedFrames(m.out)
  BY <1>1 DEF Messages!WellFormedFrames, Messages!Frames
<1>6. FramesInv(m.out, m.blocks, m.next_index)
  BY <1>1, <1>2, <1>4, <1>5 DEF FramesInv
<1> QED BY <1>1, <1>2, <1>3, <1>4, <1>6 DEF MessagesInv, Endless

LEMMA ChatBegins ==
  ChatInv(Chat!New)
<1>1. PICK c : c = Chat!New
  OBVIOUS
<1>2. /\ c.out = <<>> /\ c.calls = <<>> /\ c.text = <<>> /\ ~c.role_sent /\ ~c.ended
      /\ ~c.completed /\ ~c.refused
  BY <1>1 DEF Chat!New
<1>3. c \in ChatT
  <2>1. <<>> \in Seq(ChatCall) /\ <<>> \in Seq(ChatChunk) /\ <<>> \in Pieced
    BY DEF Pieced
  <2> QED BY <1>1, <2>1 DEF Chat!New, ChatT
<1>4. Opened(<<>>) = {} /\ Cardinality({}) = 0 /\ Len(<<>>) = 0
  BY FS_EmptySet DEF Opened
<1>5. Chat!WellFormedChunks(<<>>)
  BY DEF Chat!WellFormedChunks
<1>6. ChunksInv(<<>>, 0)
  BY <1>4, <1>5 DEF ChunksInv, Unended
<1> QED BY <1>1, <1>2, <1>3, <1>4, <1>6 DEF ChatInv, ChatOpen

LEMMA RelayBegins ==
  RelayInv(Relay!New, {}, 0)
<1>1. PICK r : r = Relay!New
  OBVIOUS
<1>2. r.out = <<>> /\ r.sequence = 0 /\ r.open /\ Len(<<>>) = 0
  BY <1>1 DEF Relay!New
<1>3. r \in RelayT
  <2>1. <<>> \in Seq(RelayFrame) /\ <<>> \in Seq(TurnEvent)
    OBVIOUS
  <2> QED BY <1>1, <2>1 DEF Relay!New, RelayT
<1>4. Relay!WellFormedRelay(<<>>)
  BY DEF Relay!WellFormedRelay
<1>5. RelayOut(<<>>, {}, 0)
  BY <1>4 DEF RelayOut, Untold, Erring
<1> QED BY <1>1, <1>2, <1>3, <1>5 DEF RelayInv

LEMMA AgyBegins ==
  Agy!New \in AgyT /\ ~Agy!New.finished
BY DEF Agy!New, AgyT

LEMMA SurfacesBegin ==
  ASSUME Init
  PROVE  /\ MessagesInv(messages) /\ ~messages.finished /\ DOMAIN messages.blocks = {}
         /\ Together(messages, chat, relay, {}, 0)
         /\ ChatInv(chat) /\ agy \in AgyT /\ ~agy.finished
<1>1. PICK thinking \in BOOLEAN : messages = Messages!New(thinking)
  BY DEF Init
<1>2. chat = Chat!New /\ relay = Relay!New /\ agy = Agy!New
  BY DEF Init
<1>3. /\ MessagesInv(messages) /\ ~messages.finished /\ DOMAIN messages.blocks = {}
      /\ messages.next_index = 0
  BY <1>1, MessagesBegins
<1>4. ChatInv(chat) /\ RelayInv(relay, {}, 0) /\ agy \in AgyT /\ ~agy.finished
  BY <1>2, ChatBegins, RelayBegins, AgyBegins
<1> QED BY <1>3, <1>4 DEF Together, Shows

LEMMA OpensNothing ==
  ASSUME Init
  PROVE  Hears([kind |-> "none", index |-> 0, text |-> <<>>], 0)
<1>1. PICK open : open = [kind |-> "none", index |-> 0, text |-> <<>>]
  OBVIOUS
<1>2. open \in OpenItem /\ open.kind = "none"
  BY <1>1, PiecesAre DEF OpenItem
<1>3. OpenOf(open) = {}
  BY <1>2 DEF OpenOf
<1> QED BY <1>1, <1>2, <1>3, SurfacesBegin DEF Hears

LEMMA TypedBegins ==
  ASSUME Init
  PROVE  TypedTurn /\ OpenItems = {}
<1>1. PICK it : it = [kind |-> "message", phase |-> "new", sent |-> <<>>,
                      arguments |-> <<>>, once |-> FALSE, repeated |-> FALSE]
  OBVIOUS
<1>2. it \in Item /\ it.phase = "new" /\ it.kind = "message"
  BY <1>1, PiecesFew DEF Item, Kinds
<1>3. item = [i \in Items |-> it]
  BY <1>1 DEF Init
<1>4. OpenItems = {}
  BY <1>2, <1>3 DEF OpenItems
<1>5. wire \in Wires /\ ended \in Ends /\ spoken \in Seq(Items) /\ said = <<>>
  BY DEF Init, Ends
<1>6. said \in Seq(PartSaid) /\ Len(said) <= IF wire = "gemini" THEN MaxParts ELSE MaxSaid
  BY <1>5, BoundsAssumption
<1>7. wire = "gemini" => Len(source.cache) <= Capacity
  BY BoundsAssumption DEF Init, Gemini!New
<1> QED BY <1>2, <1>3, <1>4, <1>5, <1>6, <1>7 DEF TypedTurn

\* A turn begins with nothing told.
LEMMA TurnBegins ==
  ASSUME Init
  PROVE  TurnInv
<1>1. TypedTurn /\ OpenItems = {} /\ ended = "no"
  BY TypedBegins DEF Init
<1>2. wire = "codex" => CodexLive
  BY <1>1, SurfacesBegin DEF CodexLive, Shows
<1>3. ASSUME wire = "gemini" PROVE GeminiLive
  <2>1. source = Gemini!New
    BY <1>3 DEF Init
  <2>2. PICK open : open = [kind |-> "none", index |-> 0, text |-> <<>>]
    OBVIOUS
  <2>3. Hears(open, 0)
    BY <2>2, OpensNothing
  <2>4. open \in OpenItem
    BY <2>3 DEF Hears
  <2>5. /\ source.open = open /\ source.next_index = 0 /\ source.cache = <<>> /\ source.out = <<>>
        /\ ~source.finished /\ ~source.refused
    BY <2>1, <2>2 DEF Gemini!New, Gemini!Nothing
  <2>6. source \in GeminiT
    <3>1. <<>> \in Seq(CacheEntry) /\ <<>> \in Seq(TurnEvent) /\ "none" \in Reasons
      BY DEF Reasons
    <3> QED BY <2>1, <2>4, <2>5, <3>1 DEF GeminiT, Gemini!New
  <2> QED BY <2>3, <2>5, <2>6, BoundsAssumption DEF GeminiLive, GeminiTyped
<1>4. ASSUME wire \in ApiWires PROVE ApiLive
  <2>1. source = Api!New(wire)
    BY <1>4 DEF Init, ApiWires
  <2>2. PICK open : open = [kind |-> "none", index |-> 0, text |-> <<>>]
    OBVIOUS
  <2>3. Hears(open, 0)
    BY <2>2, OpensNothing
  <2>4. open \in OpenItem
    BY <2>3 DEF Hears
  <2>5. /\ source.open = open /\ source.next_index = 0 /\ source.calls = <<>> /\ source.out = <<>>
        /\ ~source.finished /\ ~source.refused /\ source.wire = wire
    BY <2>1, <2>2 DEF Api!New, Api!Nothing
  <2>6. source.calls \in CallMap /\ IsFiniteSet(DOMAIN source.calls)
    <3>1. source.calls \in [{} -> Pieced] /\ DOMAIN source.calls = {}
      BY <2>5
    <3> QED BY <3>1, FS_EmptySet DEF CallMap
  <2>7. source \in ApiT
    <3>1. <<>> \in Seq(TurnEvent) /\ "none" \in ApiReasons
      BY DEF ApiReasons
    <3> QED BY <1>4, <2>1, <2>4, <2>5, <2>6, <3>1 DEF ApiT, Api!New
  <2> QED BY <2>3, <2>5, <2>6, <2>7 DEF ApiLive
<1> QED BY <1>1, <1>2, <1>3, <1>4 DEF TurnInv, TurnGoing

\* Every step keeps the invariant.
LEMMA TurnKeeps ==
  ASSUME TurnInv, [Next]_vars
  PROVE  TurnInv'
<1>1. CASE UNCHANGED vars
  BY <1>1 DEF vars, surfaces, TurnInv, TypedTurn, TurnGoing, TurnOver, CodexLive, GeminiLive, ApiLive,
     Hears, OpenItems
<1>2. CASE Next
  <2>1. CodexNext \/ GeminiNext \/ ApiNext
    BY <1>2, Zenon DEF Next, CodexNext, GeminiNext, ApiNext
  <2> QED BY <2>1, CodexKeeps, GeminiKeeps, ApiKeeps
<1> QED BY <1>1, <1>2

\* The inductive invariant holds of every turn: while it goes on, what a
\* surface has open belongs to an item that is open (the blocks of
\* messages.rs, the calls of chat.rs, Emitter and GeminiTurn), and once it is
\* over every surface has ended as it did.
THEOREM TurnInvariant == Spec => []TurnInv
BY TurnBegins, TurnKeeps, PTL DEF Spec

\* A turn is over on every surface exactly when it is over, however it ends;
\* the cache of signatures and what is said stay in their bounds (finish and
\* fail of messages.rs, close and fail of chat.rs, SequencedRelay,
\* SignatureCache).
THEOREM TurnsTypeOK == Spec => []TypeOK
BY TurnInvariant, TurnTypes, PTL

\* Whatever the provider interleaves, repeats, leaves out or breaks off, each
\* surface's stream is its protocol's: what is added to was announced once and
\* in order, what was opened is closed, and there is one end with nothing
\* after it (close_blocks, finish and fail of messages.rs, push, close and fail
\* of chat.rs, SequencedRelay).
THEOREM TurnsWellFormed == Spec => []WellFormed
BY TurnInvariant, TurnFormed, PTL
=============================================================================
