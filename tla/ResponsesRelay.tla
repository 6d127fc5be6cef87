--------------------------- MODULE ResponsesRelay ---------------------------
(***************************************************************************)
(* The /v1/responses surface over a translated turn: SequencedRelay and    *)
(* the folds in src/src/bridge/responses.rs.  (A turn of chatgpt.com's own *)
(* is relayed byte by byte and only folded here.)                          *)
(***************************************************************************)
EXTENDS ResponsesEvents

\* The frames the relay has queued, and what a fold of the turn has so far.
New == [sequence |-> 0, open |-> TRUE, out |-> <<>>, output |-> <<>>, completed |-> "no"]

Push(r, e) ==
  [r EXCEPT !.sequence = @ + 1, !.out = Append(@, [sequence |-> r.sequence, event |-> e])]

\* A failed turn is told as an error first, which is what some clients read.
Relay(r, e) ==
  IF ~r.open THEN r ELSE
  CASE e = Closed -> [r EXCEPT !.open = FALSE]
    [] e.type = "broken" -> [Push(r, Event("error")) EXCEPT !.open = FALSE]
    [] e.type = "failed" -> Push(Push(r, Event("error")), e)
    [] OTHER -> Push(r, e)

\* collect_frame: the items as they are done, until the turn says it ended.
Fold(r, e) ==
  CASE e.type = "item_done" /\ r.completed = "no" -> [r EXCEPT !.output = Append(@, e)]
    [] e.type \in Terminal /\ r.completed = "no" -> [r EXCEPT !.completed = e.type]
    [] OTHER -> r

Hear(r, e) == Relay(Fold(r, e), e)

\* input_item: the output items as the next request's input items.
Replayed(output) ==
  [n \in 1..Len(output) |->
     [kind |-> output[n].kind, id |-> output[n].id, data |-> output[n].data,
      signature |-> output[n].signature]]

Said(out, type) == SelectSeq(out, LAMBDA f : f.event.type = type)

\* Frames are counted from 0, every item is announced before it is done, and
\* a failure is told as an error in front of anything that ends the stream.
WellFormedRelay(out) ==
  \A k \in 1..Len(out) :
    /\ out[k].sequence = k - 1
    /\ out[k].event.type = "item_done" =>
         1 = Cardinality({j \in 1..k - 1 : /\ out[j].event.type = "item_added"
                                           /\ out[j].event.index = out[k].event.index})
    /\ out[k].event.type = "failed" => k > 1 /\ out[k - 1].event.type = "error"
    /\ out[k].event.type \in Terminal => k = Len(out)
=============================================================================
