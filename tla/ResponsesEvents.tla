--------------------------- MODULE ResponsesEvents ---------------------------
(***************************************************************************)
(* The Responses events the bridge's surfaces read (UpstreamEvent in       *)
(* src/src/bridge/upstream.rs), whichever provider the turn came from.     *)
(*                                                                         *)
(* Text and JSON are sequences of pieces.  A tool call's arguments are in  *)
(* pieces "[" and "]" and parse when they end in their only "]"; "{}" is   *)
(* the empty object.  A signature is a number, 0 for none.  The item an    *)
(* event is about is told by its output index, a call also by its id.  The *)
(* kind is the item's; of `completed` it is the response's status, where   *)
(* that says something else than the event does.                           *)
(***************************************************************************)
EXTENDS Naturals, FiniteSets, SequencesExt

Event(type) ==
  [type |-> type, index |-> 0, kind |-> "none", id |-> 0, data |-> <<>>, signature |-> 0]

\* response.created and in_progress; a rate limit that is not reached.
Created == Event("created")
Alive == Event("alive")

AddedEvent(i, kind, id) == [Event("item_added") EXCEPT !.index = i, !.kind = kind, !.id = id]
DeltaEvent(type, i, data) == [Event(type) EXCEPT !.index = i, !.data = data]
DoneEvent(i, kind, id, data, signature) ==
  [type |-> "item_done", index |-> i, kind |-> kind, id |-> id, data |-> data,
   signature |-> signature]

\* The upstream says how the turn ended; or it breaks, or just stops.
Terminal == {"completed", "incomplete", "failed"}
Refusals == {"failed", "error", "quota", "broken"}
Closed == Event("closed")

EmptyObject == <<"{}">>
Whole(raw) ==
  raw = EmptyObject \/ (Len(raw) > 0 /\ \A k \in 1..Len(raw) : raw[k] = "]" <=> k = Len(raw))
\* A broken string becomes an empty object.
Parsed(raw) == IF Whole(raw) THEN raw ELSE EmptyObject

\* What the bridge keeps by its index: a map with an entry set, and its keys
\* in their order.
Put(map, i, entry) == [j \in DOMAIN map \union {i} |-> IF j = i THEN entry ELSE map[j]]
InOrder(S) ==
  CHOOSE s \in [1..Cardinality(S) -> S] : \A j, k \in 1..Cardinality(S) : j < k => s[j] < s[k]
=============================================================================
