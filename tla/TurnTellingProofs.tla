-------------------------- MODULE TurnTellingProofs -------------------------
(***************************************************************************)
(* What a turn's events do to the surfaces that hear them, and how ApiTurn *)
(* tells a provider's own stream as such events, for any number of items,  *)
(* deltas, calls and pings.  Each surface has an invariant of its own      *)
(* (MessagesInv, ChatInv, RelayInv) which every event that is legal where  *)
(* it comes keeps, and which ends in what the surface promises of a whole  *)
(* stream.  A translator keeps Telling: the surfaces have heard all that   *)
(* it told, and its open item is theirs.                                   *)
(***************************************************************************)
EXTENDS Turns, FiniteSetTheorems, SequenceTheorems, WellFoundedInduction, TLAPS

-----------------------------------------------------------------------------
(* Sequences of frames.                                                    *)

BlockKinds == {"text", "tool_use", "thinking"}
BlockDeltas == {"text", "thinking", "input_json", "signature"}
Pieced == Seq({"x", "[", "]", "{}"})
Frame ==
  [type : {"message_start", "ping", "message_stop", "error"}]
  \union [type : {"message_delta"}, stop_reason : {"max_tokens", "tool_use", "end_turn"}]
  \union [type : {"start"}, index : Nat, kind : BlockKinds, id : Nat]
  \union [type : {"delta"}, index : Nat, kind : BlockDeltas, data : Pieced \union Nat]
  \union [type : {"stop"}, index : Nat]
Block == [kind : BlockKinds, index : Nat, arguments : Pieced, emitted : BOOLEAN]

Starts(out) == {k \in 1..Len(out) : out[k].type = "start"}
Is(f, type, n) == f.type = type /\ f.index = n
EndsTurn(f) == f.type \in {"message_stop", "error"}
Endless(out) == \A k \in 1..Len(out) : ~EndsTurn(out[k])

\* A block that is open has been started, as what it is, and not stopped.
Live(out, b) ==
  /\ \A k \in 1..Len(out) : ~Is(out[k], "stop", b.index)
  /\ \E k \in 1..Len(out) : Is(out[k], "start", b.index) /\ out[k].kind = b.kind

FramesInv(out, blocks, n) ==
  /\ Messages!WellFormedFrames(out)
  /\ n = Cardinality(Starts(out))
  /\ \A k \in Starts(out) :
       /\ out[k].index < n
       /\ \/ \E i \in DOMAIN blocks : blocks[i].index = out[k].index
          \/ \E j \in k + 1..Len(out) : Is(out[j], "stop", out[k].index)
  /\ \A i \in DOMAIN blocks : Live(out, blocks[i])
  /\ \A i, j \in DOMAIN blocks : blocks[i].index = blocks[j].index => i = j

\* A frame that may come next.
Follows(out, f) ==
  /\ f.type = "message_start" <=> out = <<>>
  /\ f.type = "start" => f.index = Cardinality(Starts(out))
  /\ f.type \in {"delta", "stop"} =>
       /\ \A k \in 1..Len(out) : ~Is(out[k], "stop", f.index)
       /\ \E k \in 1..Len(out) :
            /\ Is(out[k], "start", f.index)
            /\ f.type = "delta" => f.kind \in Messages!DeltaKinds(out[k].kind)

\* The instances have a Cardinality of their own, by the same definition.
LEMMA MessagesCardinality ==
  ASSUME NEW S
  PROVE  Messages!Cardinality(S) = Cardinality(S)
BY Zenon DEF Cardinality, Messages!Cardinality

LEMMA AppendIs ==
  ASSUME NEW S, NEW out \in Seq(S), NEW f
  PROVE  /\ Len(out) \in Nat /\ Len(Append(out, f)) = Len(out) + 1
         /\ \A k \in 1..Len(out) : Append(out, f)[k] = out[k]
         /\ Append(out, f)[Len(out) + 1] = f
         /\ \A k \in 1..(Len(out) + 1) : k \in 1..Len(out) \/ k = Len(out) + 1
OBVIOUS

\* Starts, one frame later.
LEMMA StartsAppend ==
  ASSUME NEW out \in Seq(Frame), NEW f
  PROVE  /\ IsFiniteSet(Starts(out)) /\ Cardinality(Starts(out)) \in Nat
         /\ Starts(Append(out, f)) = IF f.type = "start" THEN Starts(out) \union {Len(out) + 1}
                                                         ELSE Starts(out)
         /\ Cardinality(Starts(Append(out, f))) =
              IF f.type = "start" THEN Cardinality(Starts(out)) + 1 ELSE Cardinality(Starts(out))
<1>1. Starts(out) \subseteq 1..Len(out) /\ Len(out) \in Nat /\ Len(out) + 1 \notin Starts(out)
  BY DEF Starts
<1>2. IsFiniteSet(Starts(out)) /\ Cardinality(Starts(out)) \in Nat
  <2>1. IsFiniteSet(1..Len(out))
    BY <1>1, FS_Interval
  <2> QED BY <1>1, <2>1, FS_Subset, FS_CardinalityType
<1>3. Starts(Append(out, f)) = IF f.type = "start" THEN Starts(out) \union {Len(out) + 1}
                                                   ELSE Starts(out)
  BY AppendIs DEF Starts
<1> QED BY <1>1, <1>2, <1>3, FS_AddElement

\* A stream stays well formed with a frame that may come next.
LEMMA WellFormedAppend ==
  ASSUME NEW out \in Seq(Frame), NEW f \in Frame,
         Messages!WellFormedFrames(out), Endless(out), Follows(out, f)
  PROVE  Messages!WellFormedFrames(Append(out, f))
<1> DEFINE more == Append(out, f)
<1>1. /\ Len(out) \in Nat /\ Len(more) = Len(out) + 1
      /\ \A k \in 1..Len(out) : more[k] = out[k]
      /\ more[Len(out) + 1] = f
  BY AppendIs
<1>e. out = <<>> <=> Len(out) = 0
  OBVIOUS
<1> SUFFICES ASSUME NEW k \in 1..Len(more)
             PROVE  /\ more[k].type = "message_start" <=> k = 1
                    /\ more[k].type \in {"message_stop", "error"} => k = Len(more)
                    /\ more[k].type = "start" =>
                         more[k].index = Cardinality({j \in 1..k - 1 : more[j].type = "start"})
                    /\ more[k].type \in {"delta", "stop"} =>
                         /\ Messages!Before(more, k, "stop") = {}
                         /\ \E j \in Messages!Before(more, k, "start") :
                              more[k].type = "delta" =>
                                more[k].kind \in Messages!DeltaKinds(more[j].kind)
  BY MessagesCardinality DEF Messages!WellFormedFrames
<1> HIDE DEF more
<1>2. CASE k \in 1..Len(out)
  <2>1. \A j \in 1..k - 1 : more[j] = out[j]
    BY <1>1, <1>2
  <2>2. more[k] = out[k] /\ ~EndsTurn(out[k])
    BY <1>1, <1>2 DEF Endless
  <2>3. {j \in 1..k - 1 : more[j].type = "start"} = {j \in 1..k - 1 : out[j].type = "start"}
    BY <2>1
  <2>4. /\ Messages!Before(more, k, "stop") = Messages!Before(out, k, "stop")
        /\ Messages!Before(more, k, "start") = Messages!Before(out, k, "start")
        /\ Messages!Before(more, k, "start") \subseteq 1..k - 1
    BY <2>1, <2>2 DEF Messages!Before
  <2>5. /\ out[k].type = "message_start" <=> k = 1
        /\ out[k].type = "start" =>
             out[k].index = Cardinality({j \in 1..k - 1 : out[j].type = "start"})
        /\ out[k].type \in {"delta", "stop"} =>
             /\ Messages!Before(out, k, "stop") = {}
             /\ \E j \in Messages!Before(out, k, "start") :
                  out[k].type = "delta" => out[k].kind \in Messages!DeltaKinds(out[j].kind)
    BY <1>2, MessagesCardinality DEF Messages!WellFormedFrames
  <2>6. more[k].type \notin {"message_stop", "error"}
    BY <2>2 DEF EndsTurn
  <2>7. more[k].type \in {"delta", "stop"} =>
          \E j \in Messages!Before(more, k, "start") :
             more[k].type = "delta" => more[k].kind \in Messages!DeltaKinds(more[j].kind)
    BY <2>1, <2>2, <2>4, <2>5
  <2> QED BY <2>2, <2>3, <2>4, <2>5, <2>6, <2>7
<1>3. CASE k = Len(out) + 1
  <2>1. more[k] = f /\ k - 1 = Len(out) /\ \A j \in 1..k - 1 : more[j] = out[j]
    BY <1>1, <1>3
  <2>2. f.type = "message_start" <=> k = 1
    BY <1>1, <1>3, <1>e DEF Follows
  <2>3. {j \in 1..k - 1 : more[j].type = "start"} = Starts(out)
    BY <2>1 DEF Starts
  <2>4. f.type \in {"delta", "stop"} => Messages!Before(more, k, "stop") = {}
    BY <2>1 DEF Messages!Before, Follows, Is
  <2>5. f.type \in {"delta", "stop"} =>
          \E j \in Messages!Before(more, k, "start") :
             f.type = "delta" => f.kind \in Messages!DeltaKinds(more[j].kind)
    BY <2>1 DEF Messages!Before, Follows, Is
  <2> QED BY <1>1, <1>3, <2>1, <2>2, <2>3, <2>4, <2>5 DEF Follows
<1> QED BY <1>1, <1>2, <1>3

\* Neither blocks nor their count change by a frame that starts and stops none.
LEMMA FramesOther ==
  ASSUME NEW out \in Seq(Frame), NEW blocks, NEW n, NEW f \in Frame,
         FramesInv(out, blocks, n), Endless(out), Follows(out, f),
         f.type \notin {"start", "stop"}
  PROVE  FramesInv(Append(out, f), blocks, n)
<1> DEFINE more == Append(out, f)
<1>1. /\ Len(out) \in Nat /\ Len(more) = Len(out) + 1
      /\ \A k \in 1..Len(out) : more[k] = out[k]
      /\ more[Len(out) + 1] = f
      /\ \A k \in 1..Len(more) : k \in 1..Len(out) \/ k = Len(out) + 1
  BY AppendIs
<1>2. Messages!WellFormedFrames(more)
  BY WellFormedAppend DEF FramesInv
<1>3. Starts(more) = Starts(out) /\ Cardinality(Starts(more)) = Cardinality(Starts(out))
  BY StartsAppend
<1>4. \A k \in Starts(out) : k \in 1..Len(out)
  BY DEF Starts
<1> HIDE DEF more
<1>5. ASSUME NEW k \in Starts(more)
      PROVE  /\ more[k].index < n
             /\ \/ \E i \in DOMAIN blocks : blocks[i].index = more[k].index
                \/ \E j \in k + 1..Len(more) : Is(more[j], "stop", more[k].index)
  <2>1. k \in Starts(out) /\ k \in 1..Len(out) /\ more[k] = out[k]
    BY <1>1, <1>3, <1>4, <1>5
  <2>2. /\ out[k].index < n
        /\ \/ \E i \in DOMAIN blocks : blocks[i].index = out[k].index
           \/ \E j \in k + 1..Len(out) : Is(out[j], "stop", out[k].index)
    BY <2>1 DEF FramesInv
  <2>3. \A j \in k + 1..Len(out) : j \in k + 1..Len(more) /\ more[j] = out[j]
    BY <1>1, <2>1
  <2> QED BY <2>1, <2>2, <2>3
<1>6. ASSUME NEW i \in DOMAIN blocks PROVE Live(more, blocks[i])
  <2>1. Live(out, blocks[i])
    BY DEF FramesInv
  <2>2. \A k \in 1..Len(more) : ~Is(more[k], "stop", blocks[i].index)
    BY <1>1, <2>1 DEF Live, Is
  <2>3. PICK k \in 1..Len(out) : Is(out[k], "start", blocks[i].index) /\ out[k].kind = blocks[i].kind
    BY <2>1 DEF Live
  <2>4. k \in 1..Len(more) /\ more[k] = out[k]
    BY <1>1
  <2> QED BY <2>2, <2>3, <2>4 DEF Live
<1>7. FramesInv(more, blocks, n)
  BY <1>2, <1>3, <1>5, <1>6 DEF FramesInv
<1> QED BY <1>7 DEF more

\* A block more, under the next index.
LEMMA FramesStart ==
  ASSUME NEW out \in Seq(Frame), NEW blocks, NEW n, NEW i, NEW block, NEW f \in Frame,
         FramesInv(out, blocks, n), Endless(out), out # <<>>,
         i \notin DOMAIN blocks, block.index = n, Is(f, "start", n), f.kind = block.kind
  PROVE  FramesInv(Append(out, f), Messages!Put(blocks, i, block), n + 1)
<1> DEFINE more == Append(out, f)
           known == Messages!Put(blocks, i, block)
<1>1. /\ Len(out) \in Nat /\ Len(more) = Len(out) + 1
      /\ \A k \in 1..Len(out) : more[k] = out[k]
      /\ more[Len(out) + 1] = f
      /\ \A k \in 1..Len(more) : k \in 1..Len(out) \/ k = Len(out) + 1
  BY AppendIs
<1>2. Follows(out, f)
  BY DEF FramesInv, Follows, Is
<1>3. Messages!WellFormedFrames(more)
  BY <1>2, WellFormedAppend DEF FramesInv
<1>4. /\ n \in Nat /\ Starts(more) = Starts(out) \union {Len(out) + 1}
      /\ Cardinality(Starts(more)) = n + 1
  BY StartsAppend DEF FramesInv, Is
<1>5. \A k \in Starts(out) : k \in 1..Len(out) /\ out[k].type = "start"
  BY DEF Starts
<1>6. /\ DOMAIN known = DOMAIN blocks \union {i} /\ known[i] = block
      /\ \A j \in DOMAIN blocks : known[j] = blocks[j]
  BY DEF Messages!Put
\* What is stopped was started, and what was started has a lower index.
<1>7. \A k \in 1..Len(out) : out[k].type = "stop" => out[k].index # n
  <2> SUFFICES ASSUME NEW k \in 1..Len(out), out[k].type = "stop" PROVE out[k].index # n
    OBVIOUS
  <2>1. Messages!Before(out, k, "start") # {}
    BY DEF FramesInv, Messages!WellFormedFrames
  <2>2. PICK j \in 1..k - 1 : out[j].type = "start" /\ out[j].index = out[k].index
    BY <2>1 DEF Messages!Before
  <2>3. j \in Starts(out)
    BY <1>1, <2>2 DEF Starts
  <2>4. out[j].index < n
    BY <2>3 DEF FramesInv
  <2> QED BY <1>4, <2>2, <2>4
<1>8. \A j \in DOMAIN blocks : blocks[j].index # n
  <2> SUFFICES ASSUME NEW j \in DOMAIN blocks PROVE blocks[j].index # n
    OBVIOUS
  <2>1. PICK k \in 1..Len(out) : Is(out[k], "start", blocks[j].index)
    BY DEF FramesInv, Live
  <2>2. k \in Starts(out)
    BY <2>1 DEF Starts, Is
  <2>3. out[k].index < n
    BY <2>2 DEF FramesInv
  <2> QED BY <1>4, <2>1, <2>3 DEF Is
<1> HIDE DEF more, known
<1>9. ASSUME NEW k \in Starts(more)
      PROVE  /\ more[k].index < n + 1
             /\ \/ \E j \in DOMAIN known : known[j].index = more[k].index
                \/ \E j \in k + 1..Len(more) : Is(more[j], "stop", more[k].index)
  <2>1. CASE k \in Starts(out)
    <3>1. k \in 1..Len(out) /\ more[k] = out[k] /\ out[k].index \in Nat
      <4>1. k \in 1..Len(out) /\ out[k] \in Frame /\ out[k].type = "start"
        BY <1>5, <2>1
      <4> QED BY <1>1, <4>1 DEF Frame
    <3>2. /\ out[k].index < n
          /\ \/ \E j \in DOMAIN blocks : blocks[j].index = out[k].index
             \/ \E j \in k + 1..Len(out) : Is(out[j], "stop", out[k].index)
      BY <2>1 DEF FramesInv
    <3>3. \A j \in k + 1..Len(out) : j \in k + 1..Len(more) /\ more[j] = out[j]
      BY <1>1, <3>1
    <3>4. out[k].index < n + 1
      BY <1>4, <3>1, <3>2
    <3> QED BY <1>6, <3>1, <3>2, <3>3, <3>4
  <2>2. CASE k = Len(out) + 1
    <3>1. more[k].index = n /\ n < n + 1 /\ known[i].index = n /\ i \in DOMAIN known
      BY <1>1, <1>4, <1>6, <2>2 DEF Is
    <3> QED BY <3>1
  <2> QED BY <1>4, <2>1, <2>2
<1>10. ASSUME NEW j \in DOMAIN known PROVE Live(more, known[j])
  <2>1. CASE j = i
    <3>1. \A k \in 1..Len(more) : ~Is(more[k], "stop", n)
      BY <1>1, <1>7 DEF Is
    <3>2. Len(out) + 1 \in 1..Len(more)
      BY <1>1
    <3> QED BY <1>1, <1>6, <2>1, <3>1, <3>2 DEF Live, Is
  <2>2. CASE j \in DOMAIN blocks
    <3>1. Live(out, blocks[j]) /\ known[j] = blocks[j]
      BY <1>6, <2>2 DEF FramesInv
    <3>2. \A k \in 1..Len(more) : ~Is(more[k], "stop", blocks[j].index)
      BY <1>1, <3>1 DEF Live, Is
    <3>3. PICK k \in 1..Len(out) : Is(out[k], "start", blocks[j].index) /\ out[k].kind = blocks[j].kind
      BY <3>1 DEF Live
    <3>4. k \in 1..Len(more) /\ more[k] = out[k]
      BY <1>1
    <3> QED BY <3>1, <3>2, <3>3, <3>4 DEF Live
  <2> QED BY <1>6, <2>1, <2>2
<1>11. \A j, k \in DOMAIN known : known[j].index = known[k].index => j = k
  <2>1. \A j, k \in DOMAIN blocks : blocks[j].index = blocks[k].index => j = k
    BY DEF FramesInv
  <2> QED BY <1>6, <1>8, <2>1
<1>12. FramesInv(more, known, n + 1)
  BY <1>3, <1>4, <1>9, <1>10, <1>11 DEF FramesInv
<1> QED BY <1>12 DEF more, known

\* A block less.
LEMMA FramesStop ==
  ASSUME NEW out \in Seq(Frame), NEW blocks, NEW n, NEW i \in DOMAIN blocks, NEW f \in Frame,
         FramesInv(out, blocks, n), Endless(out), out # <<>>,
         Is(f, "stop", blocks[i].index)
  PROVE  FramesInv(Append(out, f), [j \in DOMAIN blocks \ {i} |-> blocks[j]], n)
<1> DEFINE more == Append(out, f)
           left == [j \in DOMAIN blocks \ {i} |-> blocks[j]]
<1>1. /\ Len(out) \in Nat /\ Len(more) = Len(out) + 1
      /\ \A k \in 1..Len(out) : more[k] = out[k]
      /\ more[Len(out) + 1] = f
      /\ \A k \in 1..Len(more) : k \in 1..Len(out) \/ k = Len(out) + 1
  BY AppendIs
<1>2. Follows(out, f)
  <2>1. Live(out, blocks[i])
    BY DEF FramesInv
  <2> QED BY <2>1 DEF Follows, Is, Live
<1>3. Messages!WellFormedFrames(more)
  BY <1>2, WellFormedAppend DEF FramesInv
<1>4. Starts(more) = Starts(out) /\ Cardinality(Starts(more)) = n
  BY StartsAppend DEF FramesInv, Is
<1>5. \A k \in Starts(out) : k \in 1..Len(out)
  BY DEF Starts
<1>6. DOMAIN left = DOMAIN blocks \ {i} /\ \A j \in DOMAIN left : left[j] = blocks[j]
  OBVIOUS
<1> HIDE DEF more, left
<1>7. ASSUME NEW k \in Starts(more)
      PROVE  /\ more[k].index < n
             /\ \/ \E j \in DOMAIN left : left[j].index = more[k].index
                \/ \E j \in k + 1..Len(more) : Is(more[j], "stop", more[k].index)
  <2>1. k \in Starts(out) /\ k \in 1..Len(out) /\ more[k] = out[k]
    BY <1>1, <1>4, <1>5, <1>7
  <2>2. /\ out[k].index < n
        /\ \/ \E j \in DOMAIN blocks : blocks[j].index = out[k].index
           \/ \E j \in k + 1..Len(out) : Is(out[j], "stop", out[k].index)
    BY <2>1 DEF FramesInv
  <2>3. CASE blocks[i].index = out[k].index
    <3>1. Len(out) + 1 \in k + 1..Len(more)
      BY <1>1, <2>1
    <3> QED BY <1>1, <2>1, <2>2, <2>3, <3>1
  <2>4. CASE \E j \in DOMAIN blocks : j # i /\ blocks[j].index = out[k].index
    BY <1>6, <2>1, <2>2, <2>4
  <2>5. CASE \E j \in k + 1..Len(out) : Is(out[j], "stop", out[k].index)
    <3>1. \A j \in k + 1..Len(out) : j \in k + 1..Len(more) /\ more[j] = out[j]
      BY <1>1, <2>1
    <3> QED BY <2>1, <2>2, <2>5, <3>1
  <2> QED BY <2>2, <2>3, <2>4, <2>5
<1>8. ASSUME NEW j \in DOMAIN left PROVE Live(more, left[j])
  <2>1. j \in DOMAIN blocks /\ j # i /\ left[j] = blocks[j]
    BY <1>6
  <2>2. Live(out, blocks[j]) /\ blocks[j].index # blocks[i].index
    BY <2>1 DEF FramesInv
  <2>3. \A k \in 1..Len(more) : ~Is(more[k], "stop", blocks[j].index)
    BY <1>1, <2>2 DEF Live, Is
  <2>4. PICK k \in 1..Len(out) : Is(out[k], "start", blocks[j].index) /\ out[k].kind = blocks[j].kind
    BY <2>2 DEF Live
  <2>5. k \in 1..Len(more) /\ more[k] = out[k]
    BY <1>1
  <2> QED BY <2>1, <2>3, <2>4, <2>5 DEF Live
<1>9. \A j, k \in DOMAIN left : left[j].index = left[k].index => j = k
  <2>1. \A j, k \in DOMAIN blocks : blocks[j].index = blocks[k].index => j = k
    BY DEF FramesInv
  <2> QED BY <1>6, <2>1
<1>10. FramesInv(more, left, n)
  BY <1>3, <1>4, <1>7, <1>8, <1>9 DEF FramesInv
<1> QED BY <1>10 DEF more, left

MessagesFold == INSTANCE FoldFacts WITH Op <- Messages!Hear

\* A set of indices has a least one.
LEMMA LeastOf ==
  ASSUME NEW T, T \subseteq Nat, T # {}
  PROVE  \E x \in T : \A y \in T : x <= y
<1> DEFINE R == {pair \in Nat \X Nat : pair[1] < pair[2]}
<1>1. IsWellFoundedOn(R, Nat)
  BY NatLessThanWellFounded, SMT DEF OpToRel
<1> HIDE DEF R
<1>2. PICK x \in T : \A y \in T : ~(<<y, x>> \in R)
  <2>1. \E x \in T : \A y \in T : ~(<<y, x>> \in R)
    BY <1>1, WFMin, Zenon
  <2> QED BY <2>1
<1>3. \A y \in T : ~(y < x)
  BY <1>2 DEF R
<1> QED BY <1>3

Rising(s, n) == \A j, k \in 1..n : j < k => s[j] < s[k]

\* A finite set of numbers has its elements in order.
LEMMA InOrderExists ==
  ASSUME NEW S, S \subseteq Nat, IsFiniteSet(S)
  PROVE  \E s \in [1..Cardinality(S) -> S] : Rising(s, Cardinality(S))
<1> DEFINE Orders(T, n) == \E s \in [1..n -> T] : Rising(s, n)
           N == {n \in Nat : \A T \in SUBSET Nat : IsFiniteSet(T) /\ Cardinality(T) = n => Orders(T, n)}
<1>1. 0 \in N
  <2>1. ASSUME NEW T \in SUBSET Nat PROVE Orders(T, 0)
    <3>1. 1..0 = {}
      OBVIOUS
    <3>2. [k \in 1..0 |-> 0] \in [1..0 -> T] /\ Rising([k \in 1..0 |-> 0], 0)
      BY <3>1 DEF Rising
    <3> QED BY <3>2
  <2> QED BY <2>1
<1>2. ASSUME NEW n \in Nat, n \in N PROVE n + 1 \in N
  <2>1. ASSUME NEW T \in SUBSET Nat, IsFiniteSet(T), Cardinality(T) = n + 1
        PROVE  Orders(T, n + 1)
    <3>1. T # {}
      BY <2>1, FS_EmptySet
    <3>2. PICK x \in T : \A y \in T : x <= y
      BY <3>1, LeastOf
    <3>3. IsFiniteSet(T \ {x}) /\ Cardinality(T \ {x}) = n /\ T \ {x} \in SUBSET Nat
      <4>1. /\ IsFiniteSet(T \ {x})
            /\ Cardinality(T \ {x}) = (n + 1) - 1
        BY <2>1, FS_RemoveElement
      <4> QED BY <2>1, <4>1
    <3>4. PICK s \in [1..n -> T \ {x}] : Rising(s, n)
      BY <1>2, <3>3
    <3> DEFINE u == [k \in 1..(n + 1) |-> IF k = 1 THEN x ELSE s[k - 1]]
    <3>5. \A k \in 1..(n + 1) : k # 1 => k - 1 \in 1..n
      OBVIOUS
    <3>6. u \in [1..(n + 1) -> T]
      BY <3>5
    <3>7. ASSUME NEW j \in 1..(n + 1), NEW k \in 1..(n + 1), j < k PROVE u[j] < u[k]
      <4>1. k # 1 /\ k - 1 \in 1..n /\ u[k] = s[k - 1]
        BY <3>5, <3>7
      <4>2. s[k - 1] \in T \ {x}
        BY <4>1
      <4>3. CASE j = 1
        <5>1. u[j] = x /\ x <= s[k - 1] /\ x # s[k - 1] /\ x \in Nat /\ s[k - 1] \in Nat
          BY <3>2, <4>2, <4>3
        <5> QED BY <4>1, <5>1
      <4>4. CASE j # 1
        <5>1. j - 1 \in 1..n /\ j - 1 < k - 1 /\ u[j] = s[j - 1]
          BY <3>5, <3>7, <4>4
        <5> QED BY <3>4, <4>1, <5>1 DEF Rising
      <4> QED BY <4>3, <4>4
    <3> HIDE DEF u
    <3> QED BY <3>6, <3>7 DEF Rising
  <2> HIDE DEF Orders
  <2> QED BY <2>1
<1>3. Nat \subseteq N
  <2> HIDE DEF N
  <2> QED BY <1>1, <1>2, MessagesFold!NatSetInduction
<1>4. Cardinality(S) \in Nat
  BY FS_CardinalityType
<1> QED BY <1>3, <1>4

\* What InOrder chooses has every member once, from the least.
LEMMA InOrderIs ==
  ASSUME NEW S, S \subseteq Nat, IsFiniteSet(S), NEW n, n = Cardinality(S)
  PROVE  /\ n \in Nat /\ InOrder(S) \in [1..n -> S] /\ InOrder(S) \in Seq(S)
         /\ Len(InOrder(S)) = n
         /\ \A j, k \in 1..n : InOrder(S)[j] = InOrder(S)[k] => j = k
         /\ \A x \in S : \E k \in 1..n : InOrder(S)[k] = x
<1> DEFINE s == InOrder(S)
<1>1. n \in Nat
  BY FS_CardinalityType
<1>2. s \in [1..n -> S] /\ Rising(s, n)
  BY InOrderExists, Zenon DEF InOrder, Rising
<1> HIDE DEF s
<1>3. s \in Seq(S) /\ Len(s) = n
  BY <1>1, <1>2
<1>4. ASSUME NEW j \in 1..n, NEW k \in 1..n, s[j] = s[k] PROVE j = k
  <2>1. s[j] \in Nat /\ s[k] \in Nat /\ ~(s[j] < s[k]) /\ ~(s[k] < s[j])
    <3>1. s[j] \in S /\ s[k] \in S
      BY <1>2
    <3>2. s[j] \in Nat /\ s[k] \in Nat
      BY <3>1
    <3> QED BY <1>4, <3>2
  <2>2. ~(j < k) /\ ~(k < j)
    BY <1>2, <2>1 DEF Rising
  <2> QED BY <1>1, <2>2
<1>5. \A x \in S : \E k \in 1..n : s[k] = x
  <2> DEFINE T == {s[k] : k \in 1..n}
  <2>1. IsFiniteSet(1..n) /\ Cardinality(1..n) = n
    BY <1>1, FS_Interval
  <2>2. s \in Injection(1..n, T) /\ s \in Surjection(1..n, T)
    <3>1. s \in [1..n -> T] /\ IsInjective(s)
      BY <1>2, <1>4 DEF IsInjective
    <3> QED BY <3>1 DEF Injection, Surjection
  <2>3. Cardinality(T) = n /\ IsFiniteSet(T)
    <3>1. s \in Bijection(1..n, T)
      BY <2>2 DEF Bijection
    <3>2. ExistsBijection(1..n, T)
      BY <3>1 DEF ExistsBijection
    <3> QED BY <2>1, <3>2, FS_Bijection
  <2>4. T \subseteq S
    BY <1>2
  <2>5. T = S
    BY <2>3, <2>4, FS_Subset
  <2> QED BY <2>5
<1> QED BY <1>1, <1>2, <1>3, <1>4, <1>5 DEF s

LEMMA MessagesInOrder ==
  ASSUME NEW S
  PROVE  Messages!InOrder(S) = InOrder(S)
<1>1. Messages!Cardinality(S) = Cardinality(S)
  BY MessagesCardinality
<1> QED BY <1>1, Zenon DEF InOrder, Messages!InOrder

\* A sequence behind another.
LEMMA ConcatIs ==
  ASSUME NEW S, NEW T, NEW s \in Seq(S), NEW u \in Seq(T)
  PROVE  /\ Len(s) \in Nat /\ Len(u) \in Nat /\ Len(s \o u) = Len(s) + Len(u)
         /\ \A k \in 1..Len(s) : (s \o u)[k] = s[k]
         /\ \A k \in 1..Len(u) : (s \o u)[Len(s) + k] = u[k]
OBVIOUS

LEMMA Splits ==
  ASSUME NEW n \in Nat, NEW p \in Nat, NEW k \in 1..(n + p)
  PROVE  k \in 1..n \/ \E q \in 1..p : k = n + q
<1>1. CASE k <= n
  BY <1>1
<1>2. CASE ~(k <= n)
  <2>1. k - n \in 1..p /\ k = n + (k - n)
    BY <1>2
  <2> QED BY <2>1
<1> QED BY <1>1, <1>2

\* One stop for every open block, in whatever order.
StopsAll(stops, blocks, order, p) ==
  /\ stops \in Seq(Frame) /\ Len(stops) = p
  /\ \A k \in 1..p : Is(stops[k], "stop", order[k])
  /\ \A j, k \in 1..p : order[j] = order[k] => j = k
  /\ \A k \in 1..p : \E i \in DOMAIN blocks : blocks[i].index = order[k]
  /\ \A i \in DOMAIN blocks : \E k \in 1..p : blocks[i].index = order[k]

\* Blocks that are stopped are open no more, and nothing else is.
LEMMA FramesClose ==
  ASSUME NEW out \in Seq(Frame), NEW blocks, NEW n, NEW p \in Nat, NEW order, NEW stops,
         FramesInv(out, blocks, n), Endless(out), StopsAll(stops, blocks, order, p),
         NEW none, DOMAIN none = {}
  PROVE  /\ out \o stops \in Seq(Frame)
         /\ FramesInv(out \o stops, none, n) /\ Endless(out \o stops)
         /\ out = <<>> => out \o stops = <<>>
<1> DEFINE more == out \o stops
           L == Len(out)
<1>1. ASSUME NEW k \in 1..p
      PROVE  /\ stops[k] \in Frame /\ Is(stops[k], "stop", order[k])
             /\ stops[k].type = "stop" /\ stops[k].index = order[k]
  BY DEF StopsAll, Is
<1>2. stops \in Seq(Frame) /\ Len(stops) = p /\ p \in Nat
  BY DEF StopsAll
<1>a. \A k \in 1..p : \E i \in DOMAIN blocks : blocks[i].index = order[k]
  BY DEF StopsAll
<1>b. \A i \in DOMAIN blocks : \E k \in 1..p : blocks[i].index = order[k]
  BY DEF StopsAll
<1>c. \A j, k \in 1..p : order[j] = order[k] => j = k
  BY DEF StopsAll
<1>3. /\ L \in Nat /\ Len(more) = L + p
      /\ \A k \in 1..L : more[k] = out[k]
      /\ \A k \in 1..p : more[L + k] = stops[k]
  <2>1. /\ Len(out) \in Nat /\ Len(out \o stops) = Len(out) + Len(stops)
        /\ \A k \in 1..Len(out) : (out \o stops)[k] = out[k]
        /\ \A k \in 1..Len(stops) : (out \o stops)[Len(out) + k] = stops[k]
    BY <1>2
  <2> QED BY <1>2, <2>1, Zenon
<1>4. more \in Seq(Frame)
  BY <1>2, ConcatProperties
<1>6. p # 0 => L # 0
  <2> SUFFICES ASSUME p # 0 PROVE L # 0
    OBVIOUS
  <2>1. 1 \in 1..p
    OBVIOUS
  <2>2. PICK i \in DOMAIN blocks : blocks[i].index = order[1]
    BY <1>a, <2>1
  <2>3. Live(out, blocks[i])
    BY DEF FramesInv
  <2> QED BY <1>3, <2>3 DEF Live
<1>7. out = <<>> => more = <<>>
  <2> SUFFICES ASSUME out = <<>> PROVE more = <<>>
    OBVIOUS
  <2>1. L = 0
    OBVIOUS
  <2>2. p = 0
    BY <1>6, <2>1
  <2>3. Len(more) = 0
    BY <1>3, <2>1, <2>2
  <2> HIDE DEF more
  <2> QED BY <1>4, <2>3
<1>8. \A k \in Starts(out) : k \in 1..L
  BY DEF Starts
<1> HIDE DEF more, L
<1>5. ASSUME NEW k \in 1..Len(more)
      PROVE  \/ k \in 1..L /\ more[k] = out[k]
             \/ \E q \in 1..p : /\ k = L + q /\ k \notin 1..L
                               /\ more[k].type = "stop" /\ more[k].index = order[q]
  <2>1. k \in 1..(L + p)
    BY <1>3
  <2>2. k \in 1..L \/ \E q \in 1..p : k = L + q
    BY <1>3, <2>1, Splits
  <2>3. ASSUME NEW q \in 1..p, k = L + q
        PROVE  more[k].type = "stop" /\ more[k].index = order[q] /\ k \notin 1..L
    <3>1. more[k] = stops[q]
      BY <1>3, <2>3
    <3>2. k \notin 1..L
      BY <1>3, <2>3
    <3> QED BY <1>1, <3>1, <3>2
  <2> QED BY <1>3, <2>2, <2>3
<1>9. Starts(more) = Starts(out)
  <2>1. \A k \in 1..Len(more) : more[k].type = "start" => k \in 1..L /\ more[k] = out[k]
    BY <1>5
  <2>2. \A k \in 1..L : k \in 1..Len(more) /\ more[k] = out[k]
    BY <1>3
  <2> QED BY <2>1, <2>2 DEF Starts, L
<1>10. Endless(more)
  <2>1. \A k \in 1..Len(out) : ~EndsTurn(out[k])
    BY DEF Endless
  <2>2. \A k \in 1..Len(more) : ~EndsTurn(more[k])
    BY <1>5, <2>1 DEF EndsTurn, L
  <2> QED BY <2>2 DEF Endless
<1>11. Messages!WellFormedFrames(more)
  <2> SUFFICES ASSUME NEW k \in 1..Len(more)
               PROVE  /\ more[k].type = "message_start" <=> k = 1
                      /\ more[k].type \in {"message_stop", "error"} => k = Len(more)
                      /\ more[k].type = "start" =>
                           more[k].index = Cardinality({j \in 1..k - 1 : more[j].type = "start"})
                      /\ more[k].type \in {"delta", "stop"} =>
                           /\ Messages!Before(more, k, "stop") = {}
                           /\ \E j \in Messages!Before(more, k, "start") :
                                more[k].type = "delta" =>
                                  more[k].kind \in Messages!DeltaKinds(more[j].kind)
    BY MessagesCardinality DEF Messages!WellFormedFrames
  <2>1. CASE k \in 1..L
    <3>1. \A j \in 1..k - 1 : more[j] = out[j]
      <4>1. \A j \in 1..k - 1 : j \in 1..L
        BY <1>3, <2>1
      <4> QED BY <1>3, <4>1
    <3>2. more[k] = out[k] /\ ~EndsTurn(more[k])
      BY <1>3, <1>10, <2>1 DEF Endless
    <3>3. {j \in 1..k - 1 : more[j].type = "start"} = {j \in 1..k - 1 : out[j].type = "start"}
      BY <3>1
    <3>4. /\ Messages!Before(more, k, "stop") = Messages!Before(out, k, "stop")
          /\ Messages!Before(more, k, "start") = Messages!Before(out, k, "start")
          /\ Messages!Before(more, k, "start") \subseteq 1..k - 1
      BY <3>1, <3>2 DEF Messages!Before
    <3>5. /\ out[k].type = "message_start" <=> k = 1
          /\ out[k].type = "start" =>
               out[k].index = Cardinality({j \in 1..k - 1 : out[j].type = "start"})
          /\ out[k].type \in {"delta", "stop"} =>
               /\ Messages!Before(out, k, "stop") = {}
               /\ \E j \in Messages!Before(out, k, "start") :
                    out[k].type = "delta" => out[k].kind \in Messages!DeltaKinds(out[j].kind)
      BY <2>1, MessagesCardinality DEF FramesInv, Messages!WellFormedFrames, L
    <3>6. more[k].type \in {"delta", "stop"} =>
            \E j \in Messages!Before(more, k, "start") :
               more[k].type = "delta" => more[k].kind \in Messages!DeltaKinds(more[j].kind)
      BY <3>1, <3>2, <3>4, <3>5
    <3> QED BY <3>2, <3>3, <3>4, <3>5, <3>6 DEF EndsTurn
  <2>2. ASSUME NEW q \in 1..p, k = L + q
        PROVE  /\ more[k].type = "stop" /\ k # 1
               /\ Messages!Before(more, k, "stop") = {}
               /\ \E j \in Messages!Before(more, k, "start") : TRUE
    <3>1. more[k] = stops[q] /\ more[k].type = "stop" /\ more[k].index = order[q]
      BY <1>1, <1>3, <2>2
    <3>2. PICK i \in DOMAIN blocks : blocks[i].index = order[q]
      BY <1>a
    <3>3. Live(out, blocks[i])
      BY DEF FramesInv
    <3>4. p # 0 /\ k # 1
      BY <1>3, <1>6, <2>2
    <3>5. ASSUME NEW j \in 1..k - 1, more[j].type = "stop", more[j].index = order[q] PROVE FALSE
      <4>1. CASE j \in 1..L
        BY <1>3, <3>2, <3>3, <3>5, <4>1 DEF Live, Is, L
      <4>2. ASSUME NEW r \in 1..p, j = L + r PROVE FALSE
        <5>1. more[j] = stops[r]
          BY <1>3, <4>2
        <5>2. more[j].index = order[r]
          BY <1>1, <5>1
        <5>3. r # q
          BY <1>3, <2>2, <3>5, <4>2
        <5> QED BY <1>c, <3>5, <5>2, <5>3
      <4>3. j \in 1..Len(more)
        BY <1>3
      <4> QED BY <1>5, <4>1, <4>2, <4>3
    <3>6. PICK j \in 1..L : Is(out[j], "start", order[q])
      BY <3>2, <3>3 DEF Live, L
    <3>7. j \in 1..k - 1 /\ more[j] = out[j]
      BY <1>3, <2>2
    <3>8. Messages!Before(more, k, "stop") = {}
      <4>1. \A h \in 1..k - 1 : ~(more[h].type = "stop" /\ more[h].index = more[k].index)
        BY <3>1, <3>5
      <4> QED BY <4>1 DEF Messages!Before
    <3>9. j \in Messages!Before(more, k, "start")
      BY <3>1, <3>6, <3>7 DEF Messages!Before, Is
    <3> QED BY <3>1, <3>4, <3>8, <3>9
  <2>3. CASE \E q \in 1..p : k = L + q
    BY <2>2, <2>3
  <2> QED BY <1>5, <2>1, <2>3
<1>12. ASSUME NEW k \in Starts(more)
       PROVE  /\ more[k].index < n
              /\ \E j \in k + 1..Len(more) : Is(more[j], "stop", more[k].index)
  <2>1. k \in Starts(out) /\ k \in 1..L /\ more[k] = out[k]
    BY <1>3, <1>8, <1>9
  <2>2. /\ out[k].index < n
        /\ \/ \E i \in DOMAIN blocks : blocks[i].index = out[k].index
           \/ \E j \in k + 1..L : Is(out[j], "stop", out[k].index)
    BY <2>1 DEF FramesInv, L
  <2>3. CASE \E i \in DOMAIN blocks : blocks[i].index = out[k].index
    <3>1. PICK q \in 1..p : out[k].index = order[q]
      BY <1>b, <2>3
    <3>2. L + q \in k + 1..Len(more) /\ more[L + q] = stops[q]
      BY <1>3, <2>1
    <3> QED BY <1>1, <2>1, <2>2, <3>1, <3>2
  <2>4. CASE \E j \in k + 1..L : Is(out[j], "stop", out[k].index)
    <3>1. \A j \in k + 1..L : j \in k + 1..Len(more) /\ more[j] = out[j]
      BY <1>3, <2>1
    <3> QED BY <2>1, <2>2, <2>4, <3>1
  <2> QED BY <2>2, <2>3, <2>4
<1>13. FramesInv(more, none, n)
  <2>1. n = Cardinality(Starts(more))
    BY <1>9 DEF FramesInv
  <2> QED BY <1>11, <1>12, <2>1 DEF FramesInv
<1> QED BY <1>4, <1>7, <1>10, <1>13 DEF more

-----------------------------------------------------------------------------
(* MessagesTurn: what an event leaves.                                     *)

BlockMap == UNION {[D -> Block] : D \in SUBSET Nat}
MTurn ==
  [started : BOOLEAN, finished : BOOLEAN, next_index : Nat, blocks : BlockMap,
   saw_tool_use : BOOLEAN, thinking : BOOLEAN, out : Seq(Frame)]

MessagesInv(m) ==
  /\ m \in MTurn /\ IsFiniteSet(DOMAIN m.blocks)
  /\ FramesInv(m.out, m.blocks, m.next_index)
  /\ m.started <=> m.out # <<>>
  /\ IF m.finished
       THEN /\ DOMAIN m.blocks = {} /\ m.out # <<>>
            /\ EndsTurn(Last(m.out))
       ELSE Endless(m.out)

LEMMA BlockMapIs ==
  ASSUME NEW b
  PROVE  b \in BlockMap <=> /\ b = [i \in DOMAIN b |-> b[i]] /\ DOMAIN b \subseteq Nat
                            /\ \A i \in DOMAIN b : b[i] \in Block
<1>1. ASSUME b \in BlockMap
      PROVE  /\ b = [i \in DOMAIN b |-> b[i]] /\ DOMAIN b \subseteq Nat
             /\ \A i \in DOMAIN b : b[i] \in Block
  <2>1. PICK D \in SUBSET Nat : b \in [D -> Block]
    BY <1>1 DEF BlockMap
  <2> QED BY <2>1
<1>2. ASSUME b = [i \in DOMAIN b |-> b[i]], DOMAIN b \subseteq Nat,
             \A i \in DOMAIN b : b[i] \in Block
      PROVE  b \in BlockMap
  <2>1. b \in [DOMAIN b -> Block]
    BY <1>2
  <2> QED BY <1>2, <2>1 DEF BlockMap
<1> QED BY <1>1, <1>2

\* A map with an entry set.
LEMMA PutIs ==
  ASSUME NEW b \in BlockMap, NEW i \in Nat, NEW x \in Block
  PROVE  /\ Messages!Put(b, i, x) \in BlockMap
         /\ DOMAIN Messages!Put(b, i, x) = DOMAIN b \union {i}
         /\ Messages!Put(b, i, x)[i] = x
         /\ \A j \in DOMAIN b : j # i => Messages!Put(b, i, x)[j] = b[j]
<1> DEFINE u == Messages!Put(b, i, x)
<1>1. u = [j \in DOMAIN b \union {i} |-> IF j = i THEN x ELSE b[j]]
  BY DEF Messages!Put
<1>2. DOMAIN b \subseteq Nat /\ \A j \in DOMAIN b : b[j] \in Block
  BY BlockMapIs
<1>3. DOMAIN u = DOMAIN b \union {i} /\ u[i] = x /\ \A j \in DOMAIN b : j # i => u[j] = b[j]
  BY <1>1
<1>4. u = [j \in DOMAIN u |-> u[j]] /\ DOMAIN u \subseteq Nat /\ \A j \in DOMAIN u : u[j] \in Block
  BY <1>1, <1>2
<1> HIDE DEF u
<1>5. u \in BlockMap
  BY <1>4, BlockMapIs
<1> QED BY <1>3, <1>5 DEF u

\* A frame that is told changes nothing else.
LEMMA EmitIs ==
  ASSUME NEW m \in MTurn, NEW fs \in Seq(Frame)
  PROVE  /\ Messages!Emit(m, fs) \in MTurn
         /\ Messages!Emit(m, fs).out = m.out \o fs
         /\ Messages!Emit(m, fs).started = m.started /\ Messages!Emit(m, fs).finished = m.finished
         /\ Messages!Emit(m, fs).next_index = m.next_index
         /\ Messages!Emit(m, fs).blocks = m.blocks
<1>1. m.out \o fs \in Seq(Frame)
  BY ConcatProperties DEF MTurn
<1> QED BY <1>1 DEF MTurn, Messages!Emit

LEMMA OneMore ==
  ASSUME NEW S, NEW s \in Seq(S), NEW f
  PROVE  s \o <<f>> = Append(s, f)
OBVIOUS

\* One frame more, of a block or of none.
LEMMA EmitOther ==
  ASSUME NEW m, MessagesInv(m), ~m.finished, NEW f \in Frame, Follows(m.out, f),
         f.type \notin {"start", "stop", "message_start"}, ~EndsTurn(f)
  PROVE  /\ MessagesInv(Messages!Emit(m, <<f>>)) /\ ~Messages!Emit(m, <<f>>).finished
         /\ Messages!Emit(m, <<f>>).blocks = m.blocks
<1> DEFINE u == Messages!Emit(m, <<f>>)
<1>1. m \in MTurn /\ m.out \in Seq(Frame) /\ <<f>> \in Seq(Frame)
  BY DEF MessagesInv, MTurn
<1>2. /\ u \in MTurn /\ u.out = Append(m.out, f) /\ u.started = m.started
      /\ u.finished = m.finished /\ u.next_index = m.next_index /\ u.blocks = m.blocks
  <2>1. m.out \o <<f>> = Append(m.out, f)
    BY <1>1, OneMore
  <2> HIDE DEF u
  <2>2. /\ u \in MTurn /\ u.out = m.out \o <<f>> /\ u.started = m.started
        /\ u.finished = m.finished /\ u.next_index = m.next_index /\ u.blocks = m.blocks
    BY <1>1, EmitIs DEF u
  <2> QED BY <2>1, <2>2
<1>3. FramesInv(u.out, u.blocks, u.next_index)
  <2>1. FramesInv(m.out, m.blocks, m.next_index) /\ Endless(m.out)
    BY DEF MessagesInv
  <2>2. FramesInv(Append(m.out, f), m.blocks, m.next_index)
    BY <1>1, <2>1, FramesOther
  <2> QED BY <1>2, <2>2
<1>4. Endless(u.out)
  BY <1>1, <1>2, AppendIs, SMTT(30) DEF Endless, MessagesInv
<1>5. u.out # <<>> /\ m.out # <<>>
  BY <1>1, <1>2 DEF Follows
<1> HIDE DEF u
<1>6. MessagesInv(u)
  BY <1>2, <1>3, <1>4, <1>5 DEF MessagesInv
<1> QED BY <1>2, <1>6 DEF u

\* message_start comes before the first of anything.
LEMMA StartKeeps ==
  ASSUME NEW m, MessagesInv(m), ~m.finished
  PROVE  /\ MessagesInv(Messages!Start(m)) /\ ~Messages!Start(m).finished
         /\ Messages!Start(m).out # <<>> /\ Messages!Start(m).started
         /\ Messages!Start(m).blocks = m.blocks /\ Messages!Start(m).next_index = m.next_index
<1> DEFINE f == [type |-> "message_start"]
           x == [m EXCEPT !.started = TRUE]
           u == Messages!Start(m)
<1>0. m.started \in BOOLEAN
  BY DEF MessagesInv, MTurn
<1>1. CASE m.started
  BY <1>1 DEF MessagesInv, Messages!Start
<1>2. CASE ~m.started
  <2>1. f \in Frame /\ f.type = "message_start" /\ <<f>> \in Seq(Frame)
    BY DEF Frame
  <2>2. m \in MTurn /\ m.out = <<>> /\ FramesInv(m.out, m.blocks, m.next_index) /\ Endless(m.out)
    BY <1>2 DEF MessagesInv
  <2>3. /\ x \in MTurn /\ x.out = m.out /\ x.started /\ x.finished = m.finished
        /\ x.next_index = m.next_index /\ x.blocks = m.blocks
    BY <2>2 DEF MTurn
  <2>4. u = Messages!Emit(x, <<f>>)
    BY <1>2 DEF Messages!Start
  <2> HIDE DEF x, u, f
  <2>5. m.out \in Seq(Frame)
    BY <2>2 DEF MTurn
  <2>6. /\ u \in MTurn /\ u.out = Append(m.out, f) /\ u.started
        /\ u.finished = m.finished /\ u.next_index = m.next_index /\ u.blocks = m.blocks
    <3>1. m.out \o <<f>> = Append(m.out, f)
      BY <2>5, OneMore
    <3>2. /\ u \in MTurn /\ u.out = x.out \o <<f>> /\ u.started = x.started
          /\ u.finished = x.finished /\ u.next_index = x.next_index /\ u.blocks = x.blocks
      BY <2>1, <2>3, <2>4, EmitIs
    <3> QED BY <2>3, <3>1, <3>2
  <2>7. Follows(m.out, f)
    BY <2>1, <2>2 DEF Follows
  <2>8. FramesInv(u.out, u.blocks, u.next_index)
    <3>1. FramesInv(Append(m.out, f), m.blocks, m.next_index)
      BY <2>1, <2>2, <2>5, <2>7, FramesOther
    <3> QED BY <2>6, <3>1
  <2>9. Endless(u.out)
    BY <2>1, <2>2, <2>5, <2>6, AppendIs DEF Endless, EndsTurn
  <2>10. u.out # <<>>
    BY <2>5, <2>6
  <2>11. MessagesInv(u)
    BY <2>6, <2>8, <2>9, <2>10 DEF MessagesInv
  <2> QED BY <2>6, <2>10, <2>11 DEF u
<1> QED BY <1>0, <1>1, <1>2

LEMMA StartIs ==
  ASSUME NEW m \in MTurn
  PROVE  /\ Messages!Start(m) \in MTurn /\ Messages!Start(m).started
         /\ Messages!Start(m).out =
              IF m.started THEN m.out ELSE Append(m.out, [type |-> "message_start"])
         /\ Messages!Start(m).finished = m.finished
         /\ Messages!Start(m).next_index = m.next_index
         /\ Messages!Start(m).blocks = m.blocks
<1> DEFINE f == [type |-> "message_start"]
           x == [m EXCEPT !.started = TRUE]
           u == Messages!Start(m)
<1>1. CASE m.started
  BY <1>1 DEF Messages!Start
<1>2. CASE ~m.started
  <2>1. f \in Frame /\ <<f>> \in Seq(Frame) /\ m.out \in Seq(Frame)
    BY DEF Frame, MTurn
  <2>2. /\ x \in MTurn /\ x.out = m.out /\ x.started /\ x.finished = m.finished
        /\ x.next_index = m.next_index /\ x.blocks = m.blocks
    BY DEF MTurn
  <2>3. u = Messages!Emit(x, <<f>>)
    BY <1>2 DEF Messages!Start
  <2>4. m.out \o <<f>> = Append(m.out, f)
    BY <2>1, OneMore
  <2> HIDE DEF x, u, f
  <2>5. /\ u \in MTurn /\ u.out = x.out \o <<f>> /\ u.started = x.started
        /\ u.finished = x.finished /\ u.next_index = x.next_index /\ u.blocks = x.blocks
    BY <2>1, <2>2, <2>3, EmitIs
  <2>6. /\ u \in MTurn /\ u.out = Append(m.out, f) /\ u.started
        /\ u.finished = m.finished /\ u.next_index = m.next_index /\ u.blocks = m.blocks
    BY <2>2, <2>4, <2>5
  <2> QED BY <1>2, <2>6 DEF u, f
<1>3. m.started \in BOOLEAN
  BY DEF MTurn
<1> QED BY <1>1, <1>2, <1>3

\* A ping changes nothing.
LEMMA PingKeeps ==
  ASSUME NEW m, MessagesInv(m), ~m.finished
  PROVE  /\ MessagesInv(Messages!Ping(m)) /\ ~Messages!Ping(m).finished
         /\ Messages!Ping(m).blocks = m.blocks
<1> DEFINE f == [type |-> "ping"]
           x == Messages!Start(m)
<1>1. f \in Frame /\ f.type = "ping"
  BY DEF Frame
<1>2. MessagesInv(x) /\ ~x.finished /\ x.out # <<>> /\ x.blocks = m.blocks
  BY StartKeeps
<1>3. Messages!Ping(m) = Messages!Emit(x, <<f>>)
  BY DEF Messages!Ping
<1> HIDE DEF f, x
<1>4. Follows(x.out, f) /\ ~EndsTurn(f)
  BY <1>1, <1>2 DEF Follows, EndsTurn
<1> QED BY <1>1, <1>2, <1>3, <1>4, EmitOther

NewBlock(m, kind) == [kind |-> kind, index |-> m.next_index, arguments |-> <<>>, emitted |-> FALSE]

\* A new block has the next index.
LEMMA OpenKeeps ==
  ASSUME NEW m, MessagesInv(m), ~m.finished, NEW i \in Nat, i \notin DOMAIN m.blocks,
         NEW kind \in BlockKinds, NEW id \in Nat, NEW u, u = Messages!OpenBlock(m, i, kind, id)
  PROVE  /\ MessagesInv(u) /\ ~u.finished
         /\ DOMAIN u.blocks = DOMAIN m.blocks \union {i} /\ u.blocks[i].kind = kind
         /\ \A j \in DOMAIN m.blocks : u.blocks[j] = m.blocks[j]
<1>0. PICK block : block = NewBlock(m, kind)
  OBVIOUS
<1> DEFINE map == Messages!Put(m.blocks, i, block)
           y == [m EXCEPT !.next_index = @ + 1, !.blocks = map]
           f == [type |-> "start", index |-> block.index, kind |-> kind, id |-> id]
           x == Messages!Start(m)
           z == Messages!Start(y)
<1>1. m \in MTurn /\ m.next_index \in Nat /\ m.blocks \in BlockMap /\ m.out \in Seq(Frame)
      /\ m.started \in BOOLEAN
  BY DEF MessagesInv, MTurn
<1>2. block \in Block /\ block.index = m.next_index /\ block.kind = kind
  BY <1>0, <1>1 DEF NewBlock, Block, Pieced
<1>3. /\ map \in BlockMap /\ DOMAIN map = DOMAIN m.blocks \union {i} /\ map[i] = block
      /\ \A j \in DOMAIN m.blocks : map[j] = m.blocks[j]
  <2>1. /\ map \in BlockMap /\ DOMAIN map = DOMAIN m.blocks \union {i} /\ map[i] = block
        /\ \A j \in DOMAIN m.blocks : j # i => map[j] = m.blocks[j]
    <3>1. m.blocks \in BlockMap /\ i \in Nat /\ block \in Block
      BY <1>1, <1>2
    <3>2. map \in BlockMap
      BY <3>1, PutIs
    <3>3. DOMAIN map = DOMAIN m.blocks \union {i}
      BY <3>1 DEF Messages!Put
    <3>4. map[i] = block
      BY <3>1, PutIs, ZenonT(30)
    <3>5. \A j \in DOMAIN m.blocks : j # i => map[j] = m.blocks[j]
      BY <3>1, PutIs, ZenonT(30)
    <3> HIDE DEF map
    <3> QED BY <3>2, <3>3, <3>4, <3>5
  <2> QED BY <2>1
<1>4. f \in Frame /\ Is(f, "start", m.next_index) /\ f.kind = block.kind /\ f.type = "start"
      /\ <<f>> \in Seq(Frame)
  BY <1>1, <1>2 DEF Frame, Is
<1>5. u = Messages!Emit(z, <<f>>)
  BY <1>0 DEF Messages!OpenBlock, NewBlock
<1> HIDE DEF map
<1>6. /\ y \in MTurn /\ y.out = m.out /\ y.started = m.started /\ y.finished = m.finished
      /\ y.next_index = m.next_index + 1 /\ y.blocks = map
  <2>1. m.next_index + 1 \in Nat
    BY <1>1
  <2>2. y = [m EXCEPT !.next_index = m.next_index + 1, !.blocks = map]
    OBVIOUS
  <2> HIDE DEF y
  <2> QED BY <1>1, <1>3, <2>1, <2>2 DEF MTurn
<1>7. MessagesInv(x) /\ ~x.finished /\ x.out # <<>> /\ x.started
      /\ x.blocks = m.blocks /\ x.next_index = m.next_index
  BY StartKeeps
<1> HIDE DEF f, y
<1>8. /\ z \in MTurn /\ z.started /\ z.out = x.out /\ z.finished = m.finished
      /\ z.next_index = m.next_index + 1 /\ z.blocks = map
  BY <1>1, <1>6, StartIs
<1> HIDE DEF x, z
<1>9. x.out \in Seq(Frame) /\ Endless(x.out) /\ FramesInv(x.out, m.blocks, m.next_index)
  BY <1>7 DEF MessagesInv, MTurn
<1>10. /\ u \in MTurn /\ u.out = Append(x.out, f) /\ u.started = z.started
       /\ u.finished = m.finished /\ u.next_index = m.next_index + 1 /\ u.blocks = map
  <2>1. x.out \o <<f>> = Append(x.out, f)
    BY <1>9, OneMore
  <2>2. /\ u \in MTurn /\ u.out = z.out \o <<f>> /\ u.started = z.started
        /\ u.finished = z.finished /\ u.next_index = z.next_index /\ u.blocks = z.blocks
    <3>1. z \in MTurn /\ <<f>> \in Seq(Frame)
      BY <1>4, <1>8
    <3> DEFINE v == Messages!Emit(z, <<f>>)
    <3>2. /\ v \in MTurn /\ v.out = z.out \o <<f>> /\ v.started = z.started
          /\ v.finished = z.finished /\ v.next_index = z.next_index /\ v.blocks = z.blocks
      BY <3>1, EmitIs
    <3> QED BY <1>5, <3>2
  <2> QED BY <1>8, <2>1, <2>2
<1>11. FramesInv(u.out, u.blocks, u.next_index)
  <2>1. FramesInv(Append(x.out, f), map, m.next_index + 1)
    BY <1>2, <1>4, <1>7, <1>9, FramesStart DEF map
  <2> QED BY <1>10, <2>1
<1>12. Endless(u.out)
  BY <1>4, <1>9, <1>10, AppendIs DEF Endless, EndsTurn
<1>13. IsFiniteSet(DOMAIN u.blocks)
  BY <1>3, <1>10, FS_AddElement DEF MessagesInv
<1>14. u.out # <<>> /\ u.started
  BY <1>8, <1>9, <1>10
<1>15. MessagesInv(u)
  BY <1>10, <1>11, <1>12, <1>13, <1>14 DEF MessagesInv
<1> QED BY <1>2, <1>3, <1>10, <1>15

\* A delta goes to a block that is open and of its kind.
LEMMA DeltaKeeps ==
  ASSUME NEW m, MessagesInv(m), ~m.finished, NEW i \in DOMAIN m.blocks, NEW kind \in BlockDeltas,
         kind \in Messages!DeltaKinds(m.blocks[i].kind), NEW data \in Pieced \union Nat,
         NEW u, u = Messages!Delta(m, i, kind, data)
  PROVE  MessagesInv(u) /\ ~u.finished /\ u.blocks = m.blocks
<1> DEFINE f == [type |-> "delta", index |-> m.blocks[i].index, kind |-> kind, data |-> data]
<1>1. m.blocks[i].index \in Nat
  <2>1. m.blocks[i] \in Block
    BY BlockMapIs DEF MessagesInv, MTurn
  <2> QED BY <2>1 DEF Block
<1>2. f \in Frame /\ f.type = "delta" /\ f.index = m.blocks[i].index /\ f.kind = kind
  BY <1>1 DEF Frame
<1>3. u = Messages!Emit(m, <<f>>)
  BY DEF Messages!Delta
<1>4. Live(m.out, m.blocks[i])
  BY DEF MessagesInv, FramesInv
<1> HIDE DEF f
<1>5. m.out # <<>>
  <2>1. PICK k \in 1..Len(m.out) : TRUE
    BY <1>4 DEF Live
  <2> QED BY <2>1
<1>6. Follows(m.out, f) /\ ~EndsTurn(f)
  BY <1>2, <1>4, <1>5 DEF Follows, Live, Is, EndsTurn
<1> QED BY <1>2, <1>3, <1>6, EmitOther

\* What a block holds beside its kind and index is nobody's concern.
LEMMA SameBlocks ==
  ASSUME NEW m, MessagesInv(m), ~m.finished, NEW u \in MTurn,
         u.out = m.out, u.started = m.started, u.finished = m.finished,
         u.next_index = m.next_index, DOMAIN u.blocks = DOMAIN m.blocks,
         \A i \in DOMAIN m.blocks : /\ u.blocks[i].kind = m.blocks[i].kind
                                    /\ u.blocks[i].index = m.blocks[i].index
  PROVE  MessagesInv(u)
<1>1. FramesInv(u.out, u.blocks, u.next_index)
  <2>1. FramesInv(m.out, m.blocks, m.next_index)
    BY DEF MessagesInv
  <2>2. \A i \in DOMAIN u.blocks : Live(m.out, u.blocks[i])
    <3>1. \A i \in DOMAIN m.blocks : Live(m.out, m.blocks[i])
      BY <2>1 DEF FramesInv
    <3> QED BY <3>1 DEF Live
  <2>3. \A i, j \in DOMAIN u.blocks : u.blocks[i].index = u.blocks[j].index => i = j
    BY <2>1 DEF FramesInv
  <2>4. \A k \in Starts(m.out) :
          /\ m.out[k].index < m.next_index
          /\ \/ \E i \in DOMAIN u.blocks : u.blocks[i].index = m.out[k].index
             \/ \E j \in k + 1..Len(m.out) : Is(m.out[j], "stop", m.out[k].index)
    BY <2>1 DEF FramesInv
  <2>5. Messages!WellFormedFrames(m.out) /\ m.next_index = Cardinality(Starts(m.out))
    BY <2>1 DEF FramesInv
  <2> QED BY <2>2, <2>3, <2>4, <2>5 DEF FramesInv
<1> QED BY <1>1 DEF MessagesInv

LEMMA BlockIs ==
  ASSUME NEW m, MessagesInv(m), NEW i \in DOMAIN m.blocks
  PROVE  /\ m.blocks[i] \in Block /\ m.blocks[i].kind \in BlockKinds
         /\ m.blocks[i].index \in Nat /\ m.blocks[i].arguments \in Pieced /\ i \in Nat
<1>1. m.blocks[i] \in Block /\ i \in Nat
  BY BlockMapIs DEF MessagesInv, MTurn
<1> QED BY <1>1 DEF Block

\* A call's block with other arguments is the same block to a client.
LEMMA ArgumentsKeep ==
  ASSUME NEW m, MessagesInv(m), ~m.finished, NEW i \in DOMAIN m.blocks, NEW b \in Block,
         b.kind = m.blocks[i].kind, b.index = m.blocks[i].index,
         NEW u, u = [m EXCEPT !.blocks[i] = b]
  PROVE  /\ MessagesInv(u) /\ ~u.finished /\ DOMAIN u.blocks = DOMAIN m.blocks
         /\ \A j \in DOMAIN m.blocks : u.blocks[j].kind = m.blocks[j].kind
<1> DEFINE map == [m.blocks EXCEPT ![i] = b]
<1>1. m \in MTurn /\ m.blocks \in BlockMap
  BY DEF MessagesInv, MTurn
<1>2. /\ map = [j \in DOMAIN map |-> map[j]] /\ DOMAIN map = DOMAIN m.blocks
      /\ map[i] = b /\ \A j \in DOMAIN m.blocks : j # i => map[j] = m.blocks[j]
  OBVIOUS
<1>3. map \in BlockMap
  <2>1. DOMAIN m.blocks \subseteq Nat /\ \A j \in DOMAIN m.blocks : m.blocks[j] \in Block
    BY <1>1, BlockMapIs
  <2>2. DOMAIN map \subseteq Nat /\ \A j \in DOMAIN map : map[j] \in Block
    BY <1>2, <2>1
  <2> HIDE DEF map
  <2> QED BY <1>2, <2>2, BlockMapIs
<1> HIDE DEF map
<1>4. u = [m EXCEPT !.blocks = map]
  BY DEF map
<1>5. /\ u \in MTurn /\ u.out = m.out /\ u.started = m.started /\ u.finished = m.finished
      /\ u.next_index = m.next_index /\ u.blocks = map
  BY <1>1, <1>3, <1>4 DEF MTurn
<1>6. \A j \in DOMAIN m.blocks : map[j].kind = m.blocks[j].kind /\ map[j].index = m.blocks[j].index
  BY <1>2
<1>7. MessagesInv(u)
  <2>1. /\ DOMAIN u.blocks = DOMAIN m.blocks
        /\ \A j \in DOMAIN m.blocks : /\ u.blocks[j].kind = m.blocks[j].kind
                                      /\ u.blocks[j].index = m.blocks[j].index
    BY <1>2, <1>5, <1>6
  <2>2. /\ u \in MTurn /\ u.out = m.out /\ u.started = m.started
        /\ u.finished = m.finished /\ u.next_index = m.next_index
    BY <1>5
  <2> QED BY <2>1, <2>2, SameBlocks
<1> QED BY <1>2, <1>5, <1>6, <1>7

\* A call's arguments go to its block.
LEMMA ToolDeltaKeeps ==
  ASSUME NEW m, MessagesInv(m), ~m.finished, NEW i, NEW data \in Pieced,
         NEW u, u = Messages!ToolDelta(m, i, data)
  PROVE  /\ MessagesInv(u) /\ ~u.finished /\ DOMAIN u.blocks = DOMAIN m.blocks
         /\ \A j \in DOMAIN m.blocks : u.blocks[j].kind = m.blocks[j].kind
<1>1. CASE ~Messages!Has(m, i, "tool_use")
  BY <1>1 DEF Messages!ToolDelta
<1>2. CASE Messages!Has(m, i, "tool_use")
  <2>1. i \in DOMAIN m.blocks /\ m.blocks[i].kind = "tool_use"
    BY <1>2 DEF Messages!Has
  <2>2. m.blocks[i] \in Block /\ m.blocks[i].arguments \in Pieced
    BY <2>1, BlockIs
  <2> DEFINE b == [m.blocks[i] EXCEPT !.arguments = @ \o data, !.emitted = TRUE]
             x == [m EXCEPT !.blocks[i] = b]
  <2>3. b \in Block /\ b.kind = "tool_use" /\ b.index = m.blocks[i].index
    <3>1. m.blocks[i].arguments \o data \in Pieced
      BY <2>2, ConcatProperties DEF Pieced
    <3> QED BY <2>1, <2>2, <3>1 DEF Block
  <2>4. m \in MTurn
    BY DEF MessagesInv
  <2>5. [m EXCEPT !.blocks[i].arguments = @ \o data, !.blocks[i].emitted = TRUE] = x
    BY <2>1, <2>4 DEF MTurn
  <2>6. u = Messages!Delta(x, i, "input_json", data)
    BY <1>2, <2>5 DEF Messages!ToolDelta
  <2> HIDE DEF b
  <2>7. /\ MessagesInv(x) /\ ~x.finished /\ DOMAIN x.blocks = DOMAIN m.blocks
        /\ \A j \in DOMAIN m.blocks : x.blocks[j].kind = m.blocks[j].kind
    BY <2>1, <2>3, ArgumentsKeep
  <2> HIDE DEF x
  <2>8. "input_json" \in Messages!DeltaKinds(x.blocks[i].kind)
    BY <2>1, <2>7 DEF Messages!DeltaKinds
  <2>9. MessagesInv(u) /\ ~u.finished /\ u.blocks = x.blocks
    <3>1. i \in DOMAIN x.blocks /\ data \in Pieced \union Nat /\ "input_json" \in BlockDeltas
      BY <2>1, <2>7 DEF BlockDeltas
    <3> QED BY <2>6, <2>7, <2>8, <3>1, DeltaKeeps
  <2> QED BY <2>7, <2>9
<1> QED BY <1>1, <1>2

LEMMA ToolArgumentsKeep ==
  ASSUME NEW m, MessagesInv(m), ~m.finished, NEW i, NEW complete \in Pieced,
         NEW u, u = Messages!ToolArguments(m, i, complete)
  PROVE  /\ MessagesInv(u) /\ ~u.finished /\ DOMAIN u.blocks = DOMAIN m.blocks
         /\ \A j \in DOMAIN m.blocks : u.blocks[j].kind = m.blocks[j].kind
<1>1. CASE ~(Messages!Has(m, i, "tool_use") /\ m.blocks[i].arguments = <<>>)
  BY <1>1 DEF Messages!ToolArguments
<1>2. CASE Messages!Has(m, i, "tool_use") /\ m.blocks[i].arguments = <<>>
  <2>1. i \in DOMAIN m.blocks /\ m.blocks[i].kind = "tool_use"
    BY <1>2 DEF Messages!Has
  <2>2. m.blocks[i] \in Block
    BY <2>1, BlockIs
  <2> DEFINE b == [m.blocks[i] EXCEPT !.arguments = complete]
  <2>3. b \in Block /\ b.kind = m.blocks[i].kind /\ b.index = m.blocks[i].index
    BY <2>1, <2>2 DEF Block
  <2>4. u = [m EXCEPT !.blocks[i] = b]
    BY <1>2 DEF Messages!ToolArguments
  <2> HIDE DEF b
  <2> QED BY <2>1, <2>3, <2>4, ArgumentsKeep
<1> QED BY <1>1, <1>2

\* One block less.
Drops(u, m, i) ==
  /\ DOMAIN u.blocks = DOMAIN m.blocks \ {i}
  /\ \A j \in DOMAIN u.blocks : u.blocks[j].kind = m.blocks[j].kind

\* A finished item stops its block.
LEMMA ItemDoneKeeps ==
  ASSUME NEW m, MessagesInv(m), ~m.finished, NEW i, NEW arguments \in Pieced,
         NEW signature \in Nat, NEW u, u = Messages!ItemDone(m, i, arguments, signature)
  PROVE  MessagesInv(u) /\ ~u.finished /\ Drops(u, m, i)
<1>1. CASE i \notin DOMAIN m.blocks
  BY <1>1 DEF Messages!ItemDone, Drops
<1>2. CASE i \in DOMAIN m.blocks
  <2>0. PICK b : b = m.blocks[i]
    OBVIOUS
  <2>1. b \in Block /\ b.kind \in BlockKinds /\ b.index \in Nat /\ b.arguments \in Pieced
    BY <1>2, <2>0, BlockIs, ZenonT(30)
  <2> DEFINE input == IF arguments # <<>> THEN arguments ELSE b.arguments
             told == CASE b.kind = "tool_use" /\ ~b.emitted /\ input # <<>> ->
                            Messages!Delta(m, i, "input_json", input)
                       [] b.kind = "thinking" /\ signature # 0 ->
                            Messages!Delta(m, i, "signature", signature)
                       [] OTHER -> m
             left == [j \in DOMAIN told.blocks \ {i} |-> told.blocks[j]]
             f == Messages!Stop(b.index)
             y == [told EXCEPT !.blocks = left]
  <2>2. u = Messages!Emit(y, <<f>>)
    BY <1>2, <2>0 DEF Messages!ItemDone, Messages!Without
  <2>3. input \in Pieced
    BY <2>1
  <2>4. MessagesInv(told) /\ ~told.finished /\ told.blocks = m.blocks
    <3> HIDE DEF input
    <3>1. CASE b.kind = "tool_use" /\ ~b.emitted /\ input # <<>>
      <4>1. "input_json" \in Messages!DeltaKinds(m.blocks[i].kind)
        BY <2>0, <3>1 DEF Messages!DeltaKinds
      <4>2. told = Messages!Delta(m, i, "input_json", input)
        BY <3>1
      <4> HIDE DEF told
      <4>3. input \in Pieced \union Nat /\ "input_json" \in BlockDeltas
        BY <2>3 DEF BlockDeltas
      <4> QED BY <1>2, <4>1, <4>2, <4>3, DeltaKeeps
    <3>2. CASE b.kind = "thinking" /\ signature # 0
      <4>1. "signature" \in Messages!DeltaKinds(m.blocks[i].kind)
        BY <2>0, <3>2 DEF Messages!DeltaKinds
      <4>2. told = Messages!Delta(m, i, "signature", signature)
        BY <3>2
      <4> HIDE DEF told
      <4>3. signature \in Pieced \union Nat /\ "signature" \in BlockDeltas
        BY DEF BlockDeltas
      <4> QED BY <1>2, <4>1, <4>2, <4>3, DeltaKeeps
    <3>3. CASE ~(b.kind = "tool_use" /\ ~b.emitted /\ input # <<>>) /\ ~(b.kind = "thinking" /\ signature # 0)
      BY <3>3
    <3> QED BY <3>1, <3>2, <3>3
  <2> HIDE DEF told
  <2>5. f \in Frame /\ f.type = "stop" /\ Is(f, "stop", told.blocks[i].index) /\ <<f>> \in Seq(Frame)
    BY <2>0, <2>1, <2>4 DEF Messages!Stop, Frame, Is
  <2>6. DOMAIN left = DOMAIN m.blocks \ {i} /\ \A j \in DOMAIN left : left[j] = m.blocks[j]
    BY <2>4
  <2>7. told \in MTurn /\ told.blocks \in BlockMap /\ told.out \in Seq(Frame)
    BY <2>4 DEF MessagesInv, MTurn
  <2>8. left \in BlockMap
    <3>1. left = [j \in DOMAIN left |-> left[j]]
      OBVIOUS
    <3>2. DOMAIN told.blocks \subseteq Nat /\ \A j \in DOMAIN told.blocks : told.blocks[j] \in Block
      BY <2>7, BlockMapIs
    <3>3. DOMAIN left \subseteq Nat /\ \A j \in DOMAIN left : left[j] \in Block
      BY <3>2
    <3> HIDE DEF left
    <3> QED BY <3>1, <3>3, BlockMapIs
  <2> HIDE DEF left, f
  <2>9. /\ y \in MTurn /\ y.out = told.out /\ y.started = told.started
        /\ y.finished = told.finished /\ y.next_index = told.next_index /\ y.blocks = left
    BY <2>7, <2>8 DEF MTurn
  <2> HIDE DEF y
  <2>10. /\ u \in MTurn /\ u.out = Append(told.out, f) /\ u.started = told.started
         /\ u.finished = told.finished /\ u.next_index = told.next_index /\ u.blocks = left
    <3> DEFINE v == Messages!Emit(y, <<f>>)
    <3>1. /\ v \in MTurn /\ v.out = y.out \o <<f>> /\ v.started = y.started
          /\ v.finished = y.finished /\ v.next_index = y.next_index /\ v.blocks = y.blocks
      BY <2>5, <2>9, EmitIs
    <3>2. told.out \o <<f>> = Append(told.out, f)
      BY <2>7, OneMore
    <3> QED BY <2>2, <2>9, <3>1, <3>2
  <2>11. FramesInv(told.out, told.blocks, told.next_index) /\ Endless(told.out)
    BY <2>4 DEF MessagesInv
  <2>12. told.out # <<>>
    <3>1. Live(told.out, told.blocks[i])
      BY <1>2, <2>4, <2>11 DEF FramesInv
    <3>2. PICK k \in 1..Len(told.out) : TRUE
      BY <3>1 DEF Live
    <3> QED BY <3>2
  <2>13. FramesInv(Append(told.out, f), left, told.next_index)
    BY <1>2, <2>4, <2>5, <2>7, <2>11, <2>12, FramesStop DEF left
  <2>14. Endless(u.out)
    BY <2>5, <2>7, <2>10, <2>11, AppendIs DEF Endless, EndsTurn
  <2>15. IsFiniteSet(DOMAIN u.blocks)
    <3>1. IsFiniteSet(DOMAIN m.blocks)
      BY DEF MessagesInv
    <3>2. DOMAIN u.blocks = DOMAIN m.blocks \ {i}
      BY <2>6, <2>10
    <3>3. IsFiniteSet(DOMAIN m.blocks \ {i})
      BY <3>1, FS_RemoveElement
    <3> QED BY <3>2, <3>3
  <2>16. u.out # <<>> /\ u.started
    <3>1. told.started <=> told.out # <<>>
      BY <2>4 DEF MessagesInv
    <3> QED BY <2>7, <2>10, <2>12, <3>1
  <2>17. MessagesInv(u)
    BY <2>4, <2>10, <2>13, <2>14, <2>15, <2>16 DEF MessagesInv
  <2> QED BY <2>4, <2>6, <2>10, <2>17 DEF Drops
<1> QED BY <1>1, <1>2

\* What is still open when a turn ends is stopped.
LEMMA CloseBlocksKeeps ==
  ASSUME NEW m, MessagesInv(m), ~m.finished, NEW u, u = Messages!CloseBlocks(m)
  PROVE  MessagesInv(u) /\ ~u.finished /\ DOMAIN u.blocks = {}
<1> DEFINE S == Messages!OpenIndices(m)
           p == Cardinality(S)
           order == InOrder(S)
           stops == [k \in 1..p |-> Messages!Stop(order[k])]
           y == [m EXCEPT !.blocks = <<>>]
<1>1. m \in MTurn /\ m.out \in Seq(Frame) /\ IsFiniteSet(DOMAIN m.blocks)
  BY DEF MessagesInv, MTurn
<1>2. S = {m.blocks[i].index : i \in DOMAIN m.blocks}
  BY DEF Messages!OpenIndices
<1>3. S \subseteq Nat
  BY <1>2, BlockIs
<1>4. IsFiniteSet(S)
  <2> DEFINE g == [i \in DOMAIN m.blocks |-> m.blocks[i].index]
  <2>1. g \in Surjection(DOMAIN m.blocks, S)
    BY <1>2 DEF Surjection
  <2> HIDE DEF S, g
  <2> QED BY <1>1, <2>1, FS_Surjection
<1> HIDE DEF S
<1>5. /\ p \in Nat /\ order \in [1..p -> S] /\ Len(order) = p
      /\ \A j, k \in 1..p : order[j] = order[k] => j = k
      /\ \A x \in S : \E k \in 1..p : order[k] = x
  BY <1>3, <1>4, InOrderIs
<1>6. u = Messages!Emit(y, stops)
  <2>1. Messages!InOrder(S) = order
    BY MessagesInOrder
  <2> HIDE DEF order
  <2> QED BY <1>5, <2>1 DEF Messages!CloseBlocks, S
<1> HIDE DEF p, order, stops
<1>7. /\ order \in [1..p -> Nat]
      /\ \A k \in 1..p : \E i \in DOMAIN m.blocks : m.blocks[i].index = order[k]
      /\ \A i \in DOMAIN m.blocks : \E k \in 1..p : m.blocks[i].index = order[k]
  <2>1. order \in [1..p -> Nat]
    BY <1>3, <1>5
  <2>2. \A k \in 1..p : order[k] \in S
    BY <1>5
  <2>3. \A i \in DOMAIN m.blocks : m.blocks[i].index \in S
    BY <1>2
  <2>4. \A k \in 1..p : \E i \in DOMAIN m.blocks : m.blocks[i].index = order[k]
    BY <1>2, <2>2
  <2>5. \A i \in DOMAIN m.blocks : \E k \in 1..p : m.blocks[i].index = order[k]
    BY <1>5, <2>3
  <2> QED BY <2>1, <2>4, <2>5
<1>8. FramesInv(m.out, m.blocks, m.next_index) /\ Endless(m.out)
  BY DEF MessagesInv
<1>9. DOMAIN <<>> = {}
  OBVIOUS
<1>11. stops \in Seq(Frame) /\ Len(stops) = p
  <2>1. \A k \in 1..p : Messages!Stop(order[k]) \in Frame
    BY <1>7 DEF Messages!Stop, Frame
  <2> QED BY <1>5, <2>1 DEF stops
<1>10. /\ m.out \o stops \in Seq(Frame)
       /\ FramesInv(m.out \o stops, <<>>, m.next_index) /\ Endless(m.out \o stops)
       /\ m.out = <<>> => m.out \o stops = <<>>
  <2>1. PICK none : none = <<>> /\ DOMAIN none = {}
    BY <1>9
  <2>2. \A k \in 1..p : Is(stops[k], "stop", order[k])
    BY <1>7 DEF stops, Messages!Stop, Is
  <2>3. p \in Nat /\ \A j, k \in 1..p : order[j] = order[k] => j = k
    BY <1>5
  <2>5. StopsAll(stops, m.blocks, order, p)
    BY <1>7, <1>11, <2>2, <2>3 DEF StopsAll
  <2>4. /\ m.out \o stops \in Seq(Frame)
        /\ FramesInv(m.out \o stops, none, m.next_index) /\ Endless(m.out \o stops)
        /\ m.out = <<>> => m.out \o stops = <<>>
    BY <1>1, <1>8, <2>1, <2>3, <2>5, FramesClose
  <2> QED BY <2>1, <2>4
<1>12. /\ y \in MTurn /\ y.out = m.out /\ y.started = m.started /\ y.finished = m.finished
       /\ y.next_index = m.next_index /\ y.blocks = <<>>
  <2>1. <<>> \in BlockMap
    <3>1. <<>> \in [{} -> Block]
      OBVIOUS
    <3> QED BY <3>1 DEF BlockMap
  <2> QED BY <1>1, <2>1 DEF MTurn
<1> HIDE DEF y
<1>13. /\ u \in MTurn /\ u.out = m.out \o stops /\ u.started = m.started
       /\ u.finished = m.finished /\ u.next_index = m.next_index /\ u.blocks = <<>>
  <2> DEFINE v == Messages!Emit(y, stops)
  <2>1. /\ v \in MTurn /\ v.out = y.out \o stops /\ v.started = y.started
        /\ v.finished = y.finished /\ v.next_index = y.next_index /\ v.blocks = y.blocks
    BY <1>11, <1>12, EmitIs
  <2> QED BY <1>6, <1>12, <2>1
<1>14. u.started <=> u.out # <<>>
  <2>1. m.started <=> m.out # <<>>
    BY DEF MessagesInv
  <2>2. m.out # <<>> => m.out \o stops # <<>>
    <3>3. m.out \in Seq(Frame) /\ stops \in Seq(Frame)
      BY <1>1, <1>11
    <3>4. Len(m.out \o stops) = Len(m.out) + Len(stops)
      BY <3>3, ConcatProperties, Zenon
    <3>1. Len(m.out \o stops) = Len(m.out) + Len(stops) /\ Len(m.out) \in Nat /\ Len(stops) \in Nat
      BY <3>3, <3>4, LenProperties, Zenon
    <3>2. m.out # <<>> => Len(m.out) # 0
      BY <1>1
    <3> QED BY <3>1, <3>2
  <2> QED BY <1>10, <1>13, <2>1, <2>2
<1>15. IsFiniteSet(DOMAIN u.blocks)
  BY <1>9, <1>13, FS_EmptySet
<1>16. MessagesInv(u)
  BY <1>10, <1>13, <1>14, <1>15 DEF MessagesInv
<1> QED BY <1>9, <1>13, <1>16

\* The frames that end a turn, once every block is closed and it has begun.
LEMMA EndsKeeps ==
  ASSUME NEW m, MessagesInv(m), ~m.finished, m.out # <<>>, DOMAIN m.blocks = {},
         NEW f \in Frame, EndsTurn(f), NEW fs,
         fs = <<f>> \/ \E g \in Frame : g.type = "message_delta" /\ fs = <<g, f>>,
         NEW u, u = Messages!Emit([m EXCEPT !.finished = TRUE], fs)
  PROVE  MessagesInv(u) /\ u.finished /\ DOMAIN u.blocks = {} /\ Last(u.out) = f
<1> DEFINE y == [m EXCEPT !.finished = TRUE]
<1>1. m \in MTurn /\ m.out \in Seq(Frame) /\ m.started
  BY DEF MessagesInv, MTurn
<1>2. /\ y \in MTurn /\ y.out = m.out /\ y.started = m.started /\ y.finished
      /\ y.next_index = m.next_index /\ y.blocks = m.blocks
  BY <1>1 DEF MTurn
<1>4. FramesInv(m.out, m.blocks, m.next_index) /\ Endless(m.out)
  BY DEF MessagesInv
<1>3. PICK mid \in Seq(Frame) :
        /\ FramesInv(mid, m.blocks, m.next_index) /\ Endless(mid) /\ mid # <<>>
        /\ m.out \o fs = Append(mid, f) /\ fs \in Seq(Frame)
  <2>1. CASE fs = <<f>>
    <3>1. m.out \o fs = Append(m.out, f) /\ fs \in Seq(Frame)
      BY <1>1, <2>1
    <3> QED BY <1>1, <1>4, <3>1
  <2>2. ASSUME NEW g \in Frame, g.type = "message_delta", fs = <<g, f>>
        PROVE  LET mid == Append(m.out, g)
               IN  /\ mid \in Seq(Frame) /\ FramesInv(mid, m.blocks, m.next_index)
                   /\ Endless(mid) /\ mid # <<>>
                   /\ m.out \o fs = Append(mid, f) /\ fs \in Seq(Frame)
    <3>1. m.out \o <<g, f>> = Append(Append(m.out, g), f) /\ <<g, f>> \in Seq(Frame)
      BY <1>1
    <3>2. Follows(m.out, g)
      BY <2>2 DEF Follows
    <3>3. FramesInv(Append(m.out, g), m.blocks, m.next_index)
      BY <1>1, <1>4, <2>2, <3>2, FramesOther
    <3>4. Endless(Append(m.out, g))
      BY <1>1, <1>4, <2>2, AppendIs DEF Endless, EndsTurn
    <3>5. Append(m.out, g) \in Seq(Frame) /\ Append(m.out, g) # <<>>
      BY <1>1
    <3> QED BY <2>2, <3>1, <3>3, <3>4, <3>5
  <2> QED BY <2>1, <2>2
<1> HIDE DEF y
<1>6. Follows(mid, f) /\ f.type \notin {"start", "stop"}
  BY <1>3 DEF Follows, EndsTurn
<1>7. FramesInv(Append(mid, f), m.blocks, m.next_index)
  BY <1>3, <1>6, FramesOther
<1>8. Append(mid, f) # <<>> /\ Last(Append(mid, f)) = f
  BY <1>3 DEF Last
<1>9. /\ u \in MTurn /\ u.out = Append(mid, f) /\ u.started /\ u.finished
      /\ u.next_index = m.next_index /\ u.blocks = m.blocks
  <2>1. u = Messages!Emit(y, fs)
    BY DEF y
  <2> DEFINE v == Messages!Emit(y, fs)
  <2>2. /\ v \in MTurn /\ v.out = y.out \o fs /\ v.started = y.started
        /\ v.finished = y.finished /\ v.next_index = y.next_index /\ v.blocks = y.blocks
    BY <1>2, <1>3, EmitIs
  <2> QED BY <1>1, <1>2, <1>3, <2>1, <2>2
<1>10. IsFiniteSet(DOMAIN u.blocks)
  BY <1>9, FS_EmptySet
<1>11. MessagesInv(u)
  BY <1>7, <1>8, <1>9, <1>10 DEF MessagesInv
<1> QED BY <1>8, <1>9, <1>11

\* The end of a turn that ended well.
LEMMA FinishKeeps ==
  ASSUME NEW m, MessagesInv(m), ~m.finished, NEW incomplete \in BOOLEAN,
         NEW u, u = Messages!Finish(m, incomplete)
  PROVE  MessagesInv(u) /\ u.finished /\ DOMAIN u.blocks = {} /\ Last(u.out).type = "message_stop"
<1> DEFINE reason == CASE incomplete -> "max_tokens"
                       [] ~incomplete /\ m.saw_tool_use -> "tool_use"
                       [] OTHER -> "end_turn"
           closed == Messages!Start(Messages!CloseBlocks(m))
           g == [type |-> "message_delta", stop_reason |-> reason]
           f == [type |-> "message_stop"]
<1>1. u = Messages!Emit([closed EXCEPT !.finished = TRUE], <<g, f>>)
  BY DEF Messages!Finish
<1>2. /\ MessagesInv(closed) /\ ~closed.finished /\ closed.out # <<>> /\ DOMAIN closed.blocks = {}
  BY CloseBlocksKeeps, StartKeeps
<1>3. g \in Frame /\ g.type = "message_delta" /\ f \in Frame /\ f.type = "message_stop" /\ EndsTurn(f)
  BY DEF Frame, EndsTurn
<1> HIDE DEF closed, g, f
<1>6. MessagesInv(u) /\ u.finished /\ DOMAIN u.blocks = {} /\ Last(u.out) = f
  BY <1>1, <1>2, <1>3, EndsKeeps
<1> QED BY <1>3, <1>6

\* The end of a turn that failed.
LEMMA FailKeeps ==
  ASSUME NEW m, MessagesInv(m), ~m.finished, NEW u, u = Messages!Fail(m)
  PROVE  MessagesInv(u) /\ u.finished /\ DOMAIN u.blocks = {} /\ Last(u.out).type = "error"
<1> DEFINE closed == Messages!Start(Messages!CloseBlocks(m))
           f == [type |-> "error"]
<1>1. u = Messages!Emit([closed EXCEPT !.finished = TRUE], <<f>>)
  BY DEF Messages!Fail
<1>2. /\ MessagesInv(closed) /\ ~closed.finished /\ closed.out # <<>> /\ DOMAIN closed.blocks = {}
  BY CloseBlocksKeeps, StartKeeps
<1>3. f \in Frame /\ f.type = "error" /\ EndsTurn(f)
  BY DEF Frame, EndsTurn
<1> HIDE DEF closed, f
<1>6. MessagesInv(u) /\ u.finished /\ DOMAIN u.blocks = {} /\ Last(u.out) = f
  BY <1>1, <1>2, <1>3, EndsKeeps
<1> QED BY <1>3, <1>6

-----------------------------------------------------------------------------
(* Responses events, against the items that are open: pairs <<index,       *)
(* kind>>.                                                                 *)

Finals == Terminal \union Refusals \union {"closed"}
EventTypes ==
  {"created", "alive", "item_added", "text_delta", "text_done", "thought_delta",
   "arguments_delta", "arguments_done", "item_done"} \union Finals
TurnEvent ==
  [type : EventTypes, index : Nat, kind : Kinds \union {"none"}, id : Nat, data : Pieced,
   signature : Nat]

\* An item is announced once, and is text or thought before it has any.
Legal(o, e) ==
  /\ e.type = "item_added" => e.kind \in Kinds /\ \A p \in o : p[1] # e.index
  /\ e.type = "text_delta" => \A p \in o : p[1] = e.index => p[2] = "message"
  /\ e.type = "thought_delta" => /\ \E p \in o : p[1] = e.index
                                 /\ \A p \in o : p[1] = e.index => p[2] = "reasoning"
  /\ e.type = "item_done" => \E p \in o : p[1] = e.index
  /\ e.type = "closed" => e = Closed
After(o, e) ==
  CASE e.type = "item_added" -> o \union {<<e.index, e.kind>>}
    [] e.type = "text_delta" -> o \union {<<e.index, "message">>}
    [] e.type = "item_done" -> {p \in o : p[1] # e.index}
    [] OTHER -> o

AsBlock(kind) ==
  CASE kind = "message" -> "text" [] kind = "function_call" -> "tool_use" [] OTHER -> "thinking"

\* The blocks that are open are of items that are.
Shows(m, o) == \A i \in DOMAIN m.blocks : \E p \in o : p[1] = i /\ m.blocks[i].kind = AsBlock(p[2])

\* An item that is announced has a block of its kind.
LEMMA ItemAddedKeeps ==
  ASSUME NEW m, MessagesInv(m), ~m.finished, NEW o, Shows(m, o), NEW i \in Nat,
         \A p \in o : p[1] # i, NEW kind \in Kinds, NEW id \in Nat,
         NEW u, u = Messages!ItemAdded(m, i, kind, id)
  PROVE  MessagesInv(u) /\ ~u.finished /\ Shows(u, o \union {<<i, kind>>})
<1>1. i \notin DOMAIN m.blocks
  BY DEF Shows
<1> DEFINE p == <<i, kind>>
<1>0. p[1] = i /\ p[2] = kind
  OBVIOUS
<1>2. CASE kind = "reasoning"
  <2>1. u = m
    BY <1>2 DEF Messages!ItemAdded
  <2> QED BY <2>1 DEF Shows
<1>3. ASSUME NEW x, MessagesInv(x), ~x.finished, x.blocks = m.blocks, NEW as \in BlockKinds,
             as = AsBlock(kind), u = Messages!OpenBlock(x, i, as, IF kind = "message" THEN 0 ELSE id)
      PROVE  MessagesInv(u) /\ ~u.finished /\ Shows(u, o \union {p})
  <2>0. PICK told \in Nat : told = IF kind = "message" THEN 0 ELSE id
    OBVIOUS
  <2> HIDE DEF p
  <2>1. /\ MessagesInv(u) /\ ~u.finished
        /\ DOMAIN u.blocks = DOMAIN x.blocks \union {i} /\ u.blocks[i].kind = as
        /\ \A j \in DOMAIN x.blocks : u.blocks[j] = x.blocks[j]
    BY <1>1, <1>3, <2>0, OpenKeeps
  <2>2. Shows(u, o \union {p})
    BY <1>0, <1>3, <2>1 DEF Shows
  <2> QED BY <2>1, <2>2
<1>4. CASE kind = "message"
  <2>1. u = Messages!OpenBlock(m, i, "text", 0)
    BY <1>4 DEF Messages!ItemAdded
  <2>2. "text" \in BlockKinds /\ "text" = AsBlock(kind)
    BY <1>4 DEF BlockKinds, AsBlock
  <2> QED BY <1>3, <1>4, <2>1, <2>2
<1>5. CASE kind = "function_call"
  <2> DEFINE x == [m EXCEPT !.saw_tool_use = TRUE]
  <2>1. u = Messages!OpenBlock(x, i, "tool_use", id)
    BY <1>5 DEF Messages!ItemAdded
  <2>2. "tool_use" \in BlockKinds /\ "tool_use" = AsBlock(kind)
    BY <1>5 DEF BlockKinds, AsBlock
  <2>3. m \in MTurn
    BY DEF MessagesInv
  <2>4. /\ x \in MTurn /\ x.out = m.out /\ x.started = m.started /\ x.finished = m.finished
        /\ x.next_index = m.next_index /\ x.blocks = m.blocks
    BY <2>3 DEF MTurn
  <2> HIDE DEF x
  <2>5. MessagesInv(x)
    BY <2>4, SameBlocks
  <2> QED BY <1>3, <1>5, <2>1, <2>2, <2>4, <2>5
<1> QED BY <1>2, <1>4, <1>5 DEF Kinds

\* Text, or a thought that is shown, opens its block if it must.
LEMMA SpokenKeeps ==
  ASSUME NEW m, MessagesInv(m), ~m.finished, NEW o, Shows(m, o), NEW i \in Nat,
         NEW kind \in {"text", "thinking"}, NEW item_kind \in Kinds, kind = AsBlock(item_kind),
         i \in DOMAIN m.blocks => m.blocks[i].kind = kind, NEW data \in Pieced, NEW u,
         u = Messages!Delta(IF i \in DOMAIN m.blocks THEN m ELSE Messages!OpenBlock(m, i, kind, 0),
                            i, kind, data)
  PROVE  MessagesInv(u) /\ ~u.finished /\ Shows(u, o \union {<<i, item_kind>>})
<1> DEFINE p == <<i, item_kind>>
           x == IF i \in DOMAIN m.blocks THEN m ELSE Messages!OpenBlock(m, i, kind, 0)
<1>0. p[1] = i /\ p[2] = item_kind
  OBVIOUS
<1>00. kind \in BlockKinds /\ kind \in BlockDeltas /\ 0 \in Nat
  BY DEF BlockKinds, BlockDeltas
<1>1. /\ MessagesInv(x) /\ ~x.finished /\ i \in DOMAIN x.blocks /\ x.blocks[i].kind = kind
      /\ Shows(x, o \union {p})
  <2>1. CASE i \in DOMAIN m.blocks
    BY <2>1 DEF Shows
  <2>2. CASE i \notin DOMAIN m.blocks
    <3>1. x = Messages!OpenBlock(m, i, kind, 0)
      BY <2>2
    <3> HIDE DEF x, p
    <3>2. /\ MessagesInv(x) /\ ~x.finished
          /\ DOMAIN x.blocks = DOMAIN m.blocks \union {i} /\ x.blocks[i].kind = kind
          /\ \A j \in DOMAIN m.blocks : x.blocks[j] = m.blocks[j]
      BY <1>00, <2>2, <3>1, OpenKeeps
    <3>3. Shows(x, o \union {p})
      BY <1>0, <2>2, <3>2 DEF Shows
    <3> QED BY <3>2, <3>3
  <2> QED BY <2>1, <2>2
<1>2. u = Messages!Delta(x, i, kind, data)
  OBVIOUS
<1> HIDE DEF x, p
<1>3. kind \in Messages!DeltaKinds(x.blocks[i].kind)
  BY <1>1 DEF Messages!DeltaKinds
<1>4. MessagesInv(u) /\ ~u.finished /\ u.blocks = x.blocks
  <2>1. data \in Pieced \union Nat
    OBVIOUS
  <2> QED BY <1>00, <1>1, <1>2, <1>3, <2>1, DeltaKeeps
<1> QED BY <1>1, <1>4 DEF p, Shows

\* What the Messages surface makes of an event that is none too many.
MessagesEnded(m, e) ==
  /\ MessagesInv(m) /\ m.finished
  /\ Last(m.out).type = "error" <=> e.type \in Refusals

\* Messages: every event that is legal where it comes.
LEMMA MessagesHear ==
  ASSUME NEW m, MessagesInv(m), ~m.finished, NEW o, Shows(m, o), NEW e \in TurnEvent, Legal(o, e),
         NEW u, u = Messages!Hear(m, e)
  PROVE  IF e.type \in Finals THEN MessagesEnded(u, e)
                              ELSE MessagesInv(u) /\ ~u.finished /\ Shows(u, After(o, e))
<1>1. /\ e.type \in EventTypes /\ e.index \in Nat /\ e.kind \in Kinds \union {"none"}
      /\ e.id \in Nat /\ e.data \in Pieced /\ e.signature \in Nat
  BY DEF TurnEvent
<1>2. CASE e.type \in {"created", "alive"}
  <2>1. u = Messages!Ping(m)
    BY <1>2 DEF Messages!Hear, Messages!Refusals
  <2>2. MessagesInv(u) /\ ~u.finished /\ u.blocks = m.blocks
    BY <2>1, PingKeeps
  <2>3. After(o, e) = o /\ e.type \notin Finals
    BY <1>2 DEF After, Finals, Terminal, Refusals
  <2> QED BY <2>2, <2>3 DEF Shows
<1>3. CASE e.type = "item_added"
  <2>1. u = Messages!ItemAdded(m, e.index, e.kind, e.id)
    BY <1>3 DEF Messages!Hear, Messages!Refusals
  <2>2. After(o, e) = o \union {<<e.index, e.kind>>} /\ e.type \notin Finals
    BY <1>3 DEF After, Finals, Terminal, Refusals
  <2>3. e.kind \in Kinds /\ \A p \in o : p[1] # e.index
    BY <1>3 DEF Legal
  <2>4. /\ e.index \in Nat /\ e.kind \in Kinds /\ e.id \in Nat
        /\ \A p \in o : p[1] # e.index
    BY <1>1, <2>3
  <2>5. MessagesInv(u) /\ ~u.finished /\ Shows(u, o \union {<<e.index, e.kind>>})
    BY <2>1, <2>4, ItemAddedKeeps, Zenon
  <2> QED BY <2>2, <2>5
<1>4. CASE e.type = "text_delta"
  <2>1. After(o, e) = o \union {<<e.index, "message">>} /\ e.type \notin Finals
    BY <1>4 DEF After, Finals, Terminal, Refusals
  <2>2. e.index \in DOMAIN m.blocks => m.blocks[e.index].kind = "text"
    BY <1>4 DEF Shows, Legal, AsBlock
  <2>3. CASE e.data = <<>>
    <3>1. u = m
      BY <1>4, <2>3 DEF Messages!Hear, Messages!Refusals
    <3> QED BY <2>1, <3>1 DEF Shows
  <2>4. CASE e.data # <<>>
    <3>1. u = Messages!TextDelta(m, e.index, e.data)
      BY <1>4, <2>4 DEF Messages!Hear, Messages!Refusals
    <3>2. "message" \in Kinds /\ "text" = AsBlock("message")
      BY DEF Kinds, AsBlock
    <3>3. u = Messages!Delta(IF e.index \in DOMAIN m.blocks THEN m
                               ELSE Messages!OpenBlock(m, e.index, "text", 0),
                             e.index, "text", e.data)
      BY <3>1 DEF Messages!TextDelta
    <3>4. "text" \in {"text", "thinking"}
      OBVIOUS
    <3>5. MessagesInv(u) /\ ~u.finished /\ Shows(u, o \union {<<e.index, "message">>})
      BY <1>1, <2>2, <3>2, <3>3, <3>4, SpokenKeeps, Zenon
    <3> QED BY <2>1, <3>5
  <2> QED BY <2>3, <2>4
<1>5. CASE e.type = "thought_delta"
  <2>1. After(o, e) = o /\ e.type \notin Finals
    BY <1>5 DEF After, Finals, Terminal, Refusals
  <2>3. CASE ~(e.data # <<>> /\ m.thinking
               /\ (e.index \in DOMAIN m.blocks => Messages!Has(m, e.index, "thinking")))
    <3>1. u = m
      BY <1>5, <2>3 DEF Messages!Hear, Messages!Refusals, Messages!ThinkingDelta
    <3> QED BY <2>1, <3>1 DEF Shows
  <2>4. CASE /\ e.data # <<>> /\ m.thinking
             /\ (e.index \in DOMAIN m.blocks => Messages!Has(m, e.index, "thinking"))
    <3>1. u = Messages!ThinkingDelta(m, e.index, e.data)
      BY <1>5, <2>4 DEF Messages!Hear, Messages!Refusals
    <3>2. "reasoning" \in Kinds /\ "thinking" = AsBlock("reasoning")
      BY DEF Kinds, AsBlock
    <3>3. e.index \in DOMAIN m.blocks => m.blocks[e.index].kind = "thinking"
      BY <2>4 DEF Messages!Has
    <3>4. MessagesInv(u) /\ ~u.finished /\ Shows(u, o \union {<<e.index, "reasoning">>})
      BY <1>1, <2>4, <3>1, <3>2, <3>3, SpokenKeeps DEF Messages!ThinkingDelta
    <3>5. PICK p \in o : p[1] = e.index /\ p[2] = "reasoning"
      BY <1>5 DEF Legal
    <3>6. Shows(u, o)
      BY <3>4, <3>5 DEF Shows
    <3> QED BY <2>1, <3>4, <3>6
  <2> QED BY <2>3, <2>4
<1>6. CASE e.type \in {"arguments_delta", "arguments_done"}
  <2>1. After(o, e) = o /\ e.type \notin Finals
    BY <1>6 DEF After, Finals, Terminal, Refusals
  <2>2. \/ u = m
        \/ u = Messages!ToolDelta(m, e.index, e.data)
        \/ u = Messages!ToolArguments(m, e.index, e.data)
    BY <1>6 DEF Messages!Hear, Messages!Refusals
  <2>3. /\ MessagesInv(u) /\ ~u.finished /\ DOMAIN u.blocks = DOMAIN m.blocks
        /\ \A j \in DOMAIN m.blocks : u.blocks[j].kind = m.blocks[j].kind
    BY <1>1, <2>2, ToolDeltaKeeps, ToolArgumentsKeep
  <2> QED BY <2>1, <2>3 DEF Shows
<1>7. CASE e.type = "item_done"
  <2>1. After(o, e) = {p \in o : p[1] # e.index} /\ e.type \notin Finals
    BY <1>7 DEF After, Finals, Terminal, Refusals
  <2>2. PICK arguments \in Pieced : u = Messages!ItemDone(m, e.index, arguments, e.signature)
    <3>1. u = Messages!ItemDone(m, e.index, IF e.kind = "function_call" THEN e.data ELSE <<>>,
                                e.signature)
      BY <1>7 DEF Messages!Hear, Messages!Refusals
    <3>3. <<>> \in Pieced
      BY DEF Pieced
    <3>2. (IF e.kind = "function_call" THEN e.data ELSE <<>>) \in Pieced
      BY <1>1, <3>3
    <3> QED BY <3>1, <3>2
  <2>3. MessagesInv(u) /\ ~u.finished /\ Drops(u, m, e.index)
    BY <1>1, <2>2, ItemDoneKeeps
  <2> QED BY <2>1, <2>3 DEF Shows, Drops
<1>8. CASE e.type = "text_done"
  <2>1. u = m /\ After(o, e) = o /\ e.type \notin Finals
    BY <1>8 DEF Messages!Hear, Messages!Refusals, After, Finals, Terminal, Refusals
  <2> QED BY <2>1
<1>9. CASE e.type \in {"completed", "incomplete", "closed"}
  <2>1. e.type \in Finals /\ e.type \notin Refusals
    BY <1>9 DEF Finals, Terminal, Refusals
  <2>2. PICK incomplete \in BOOLEAN : u = Messages!Finish(m, incomplete)
    BY <1>9 DEF Messages!Hear, Messages!Refusals
  <2>3. MessagesInv(u) /\ u.finished /\ Last(u.out).type = "message_stop"
    BY <2>2, FinishKeeps
  <2> QED BY <2>1, <2>3 DEF MessagesEnded
<1>10. CASE e.type \in Refusals
  <2>1. e.type \in Finals
    BY <1>10 DEF Finals
  <2>2. u = Messages!Fail(m)
    BY <1>10 DEF Messages!Hear, Messages!Refusals, Refusals
  <2>3. MessagesInv(u) /\ u.finished /\ Last(u.out).type = "error"
    BY <2>2, FailKeeps
  <2> QED BY <1>10, <2>1, <2>3 DEF MessagesEnded
<1>11. \/ e.type \in {"created", "alive"} \/ e.type = "item_added" \/ e.type = "text_delta"
       \/ e.type = "thought_delta" \/ e.type \in {"arguments_delta", "arguments_done"}
       \/ e.type = "item_done" \/ e.type = "text_done"
       \/ e.type \in {"completed", "incomplete", "closed"} \/ e.type \in Refusals
  BY <1>1 DEF EventTypes, Finals, Terminal, Refusals
<1> QED BY <1>2, <1>3, <1>4, <1>5, <1>6, <1>7, <1>8, <1>9, <1>10, <1>11, Zenon

\* A turn that is over hears no more.
LEMMA MessagesDeaf ==
  ASSUME NEW m, m.finished, NEW e
  PROVE  Messages!Hear(m, e) = m
BY DEF Messages!Hear, Messages!Refusals

-----------------------------------------------------------------------------
(* ChatCompletion.                                                         *)

ChatCall == [item : Nat, id : Nat, arguments : Pieced]
ChatChunk ==
  [type : {"role", "content", "call", "finish", "error", "done"}, index : Nat, opens : BOOLEAN,
   id : Nat, data : Pieced \union {"stop", "length", "tool_calls"}]
ChatT ==
  [text : Pieced, saw_text_delta : BOOLEAN, calls : Seq(ChatCall), finish_reason : {"stop", "length"},
   completed : BOOLEAN, refused : BOOLEAN, role_sent : BOOLEAN, ended : BOOLEAN,
   out : Seq(ChatChunk)]

Opened(out) == {k \in 1..Len(out) : out[k].opens}
Unended(out) == \A k \in 1..Len(out) : out[k].type \notin {"done", "finish", "error"}

\* The chunks of a turn that is not over, with n calls opened.
ChunksInv(out, n) ==
  /\ out \in Seq(ChatChunk) /\ Chat!WellFormedChunks(out) /\ Unended(out)
  /\ n = Cardinality(Opened(out))
  /\ out # <<>> => out[1].type = "role"

ChatOpen(c) ==
  /\ c \in ChatT /\ ~c.ended
  /\ ChunksInv(c.out, Len(c.calls))
  /\ c.role_sent <=> c.out # <<>>
  /\ c.text # <<>> \/ c.calls # <<>> => c.role_sent
ChatInv(c) == ChatOpen(c) /\ ~c.completed /\ ~c.refused
ChatEnded(c) ==
  /\ c \in ChatT /\ c.ended
  /\ Chat!WellFormedChunks(c.out) /\ c.out # <<>> /\ Last(c.out).type = "done"

LEMMA ChatCardinality ==
  ASSUME NEW S
  PROVE  Chat!Cardinality(S) = Cardinality(S)
BY Zenon DEF Cardinality, Chat!Cardinality

LEMMA OpenedAppend ==
  ASSUME NEW out \in Seq(ChatChunk), NEW f
  PROVE  /\ Cardinality(Opened(out)) \in Nat
         /\ Cardinality(Opened(Append(out, f))) =
              IF f.opens THEN Cardinality(Opened(out)) + 1 ELSE Cardinality(Opened(out))
<1>1. Opened(out) \subseteq 1..Len(out) /\ Len(out) \in Nat /\ Len(out) + 1 \notin Opened(out)
  BY DEF Opened
<1>2. IsFiniteSet(Opened(out)) /\ Cardinality(Opened(out)) \in Nat
  <2>1. IsFiniteSet(1..Len(out))
    BY <1>1, FS_Interval
  <2> QED BY <1>1, <2>1, FS_Subset, FS_CardinalityType
<1>3. Opened(Append(out, f)) = IF f.opens THEN Opened(out) \union {Len(out) + 1} ELSE Opened(out)
  BY AppendIs DEF Opened
<1> QED BY <1>1, <1>2, <1>3, FS_AddElement

\* A chunk that may come next.
MayFollow(out, f) ==
  /\ f.type = "role" => out = <<>>
  /\ f.type \in {"content", "call", "finish"} => out # <<>> /\ out[1].type = "role"
  /\ f.type = "done" <=> out # <<>> /\ out[Len(out)].type \in {"finish", "error"}
  /\ f.type = "call" => IF f.opens THEN f.index = Cardinality(Opened(out))
                                   ELSE f.index < Cardinality(Opened(out))

\* A stream of chunks stays well formed with a chunk that may come next.
LEMMA ChunksAppend ==
  ASSUME NEW out \in Seq(ChatChunk), NEW f \in ChatChunk, Chat!WellFormedChunks(out),
         \A k \in 1..Len(out) : out[k].type # "done", MayFollow(out, f)
  PROVE  Chat!WellFormedChunks(Append(out, f))
<1> DEFINE more == Append(out, f)
<1>1. /\ Len(out) \in Nat /\ Len(more) = Len(out) + 1
      /\ \A k \in 1..Len(out) : more[k] = out[k]
      /\ more[Len(out) + 1] = f
      /\ \A k \in 1..(Len(out) + 1) : k \in 1..Len(out) \/ k = Len(out) + 1
  BY AppendIs
<1>2. out = <<>> <=> Len(out) = 0
  OBVIOUS
<1> HIDE DEF more
<1> SUFFICES ASSUME NEW k \in 1..Len(more)
             PROVE  /\ more[k].type = "role" => k = 1
                    /\ more[k].type \in {"content", "call", "finish"} => more[1].type = "role"
                    /\ more[k].type = "done" <=> k > 1 /\ more[k - 1].type \in {"finish", "error"}
                    /\ more[k].type = "done" => k = Len(more)
                    /\ more[k].type = "call" =>
                         IF more[k].opens
                           THEN more[k].index = Cardinality({j \in 1..k - 1 : more[j].opens})
                           ELSE more[k].index < Cardinality({j \in 1..k - 1 : more[j].opens})
  BY ChatCardinality DEF Chat!WellFormedChunks, more
<1>3. CASE k \in 1..Len(out)
  <2>1. \A j \in 1..k - 1 : more[j] = out[j]
    BY <1>1, <1>3
  <2>2. more[k] = out[k] /\ more[1] = out[1] /\ (k > 1 => more[k - 1] = out[k - 1])
    BY <1>1, <1>3
  <2>3. {j \in 1..k - 1 : more[j].opens} = {j \in 1..k - 1 : out[j].opens}
    BY <2>1
  <2>4. /\ out[k].type = "role" => k = 1
        /\ out[k].type \in {"content", "call", "finish"} => out[1].type = "role"
        /\ out[k].type = "done" <=> k > 1 /\ out[k - 1].type \in {"finish", "error"}
        /\ out[k].type = "call" =>
             IF out[k].opens THEN out[k].index = Cardinality({j \in 1..k - 1 : out[j].opens})
                             ELSE out[k].index < Cardinality({j \in 1..k - 1 : out[j].opens})
    BY <1>3, ChatCardinality DEF Chat!WellFormedChunks
  <2> QED BY <1>3, <2>2, <2>3, <2>4
<1>4. CASE k = Len(out) + 1
  <2>1. more[k] = f /\ k - 1 = Len(out)
    BY <1>1, <1>4
  <2>2. {j \in 1..k - 1 : more[j].opens} = Opened(out)
    BY <1>1, <2>1 DEF Opened
  <2>3. out # <<>> => more[1] = out[1] /\ more[k - 1] = out[Len(out)] /\ k > 1
    BY <1>1, <1>2, <2>1
  <2>4. out = <<>> => k = 1
    BY <1>2, <1>4
  <2>5. f.type \in {"role", "content", "call", "finish", "error", "done"}
    BY DEF ChatChunk
  <2>6. out = <<>> \/ out # <<>>
    OBVIOUS
  <2>7. more[k].type = "role" => k = 1
    BY <2>1, <2>4 DEF MayFollow
  <2>8. more[k].type \in {"content", "call", "finish"} => more[1].type = "role"
    BY <2>1, <2>3 DEF MayFollow
  <2>9. more[k].type = "done" <=> k > 1 /\ more[k - 1].type \in {"finish", "error"}
    BY <2>1, <2>3, <2>4 DEF MayFollow
  <2>10. more[k].type = "done" => k = Len(more)
    BY <1>1, <1>4
  <2>11. more[k].type = "call" =>
           IF more[k].opens THEN more[k].index = Cardinality({j \in 1..k - 1 : more[j].opens})
                            ELSE more[k].index < Cardinality({j \in 1..k - 1 : more[j].opens})
    BY <2>1, <2>2 DEF MayFollow
  <2> QED BY <2>7, <2>8, <2>9, <2>10, <2>11
<1> QED BY <1>1, <1>3, <1>4

LEMMA ChunkIs ==
  ASSUME NEW type \in {"role", "content", "call", "finish", "error", "done"}
  PROVE  /\ Chat!Chunk(type) \in ChatChunk /\ Chat!Chunk(type).type = type
         /\ ~Chat!Chunk(type).opens
BY DEF Chat!Chunk, ChatChunk, Pieced

\* The chunks of text and of calls.
Fitting(f, n) ==
  /\ f \in ChatChunk /\ f.type \in {"content", "call"}
  /\ IF f.opens THEN f.type = "call" /\ f.index = n ELSE f.type = "call" => f.index < n

\* What is sent once the role has been.
LEMMA ChunksPush ==
  ASSUME NEW out, NEW n, ChunksInv(out, n), NEW f, Fitting(f, n),
         NEW more, more = out \o (IF out # <<>> THEN <<>> ELSE <<Chat!Chunk("role")>>) \o <<f>>,
         NEW count, count = IF f.opens THEN n + 1 ELSE n
  PROVE  ChunksInv(more, count)
<1>0. out \in Seq(ChatChunk) /\ f \in ChatChunk
  BY DEF ChunksInv, Fitting
<1>1. PICK mid : /\ mid \in Seq(ChatChunk) /\ ChunksInv(mid, n) /\ more = Append(mid, f)
  <2>1. CASE out # <<>>
    <3>1. more = Append(out, f)
      BY <1>0, <2>1
    <3> QED BY <1>0, <2>1, <3>1 DEF ChunksInv
  <2>2. CASE out = <<>>
    <3> DEFINE r == Chat!Chunk("role")
    <3>1. r \in ChatChunk /\ r.type = "role" /\ ~r.opens
      BY ChunkIs
    <3>2. out = <<>>
      BY <2>2 DEF ChunksInv
    <3> HIDE DEF r
    <3>3. more = Append(<<r>>, f) /\ <<r>> \in Seq(ChatChunk) /\ <<r>> = Append(out, r)
      BY <1>0, <2>2, <3>1, <3>2 DEF r
    <3>4. MayFollow(out, r)
      BY <3>1, <3>2 DEF MayFollow
    <3>5. Chat!WellFormedChunks(Append(out, r))
      <4>1. \A k \in 1..Len(out) : out[k].type # "done"
        BY <3>2
      <4>2. Chat!WellFormedChunks(out)
        BY DEF ChunksInv
      <4> QED BY <1>0, <3>1, <3>4, <4>1, <4>2, ChunksAppend
    <3>6. Cardinality(Opened(Append(out, r))) = n
      BY <1>0, <3>1, OpenedAppend DEF ChunksInv
    <3>7. Unended(<<r>>)
      BY <3>1 DEF Unended
    <3>8. ChunksInv(<<r>>, n)
      BY <3>1, <3>3, <3>5, <3>6, <3>7 DEF ChunksInv
    <3> QED BY <3>3, <3>8
  <2> QED BY <2>1, <2>2
<1>2. mid # <<>> /\ mid[1].type = "role" /\ Unended(mid)
  BY <1>1 DEF ChunksInv
<1>3. Len(mid) \in 1..Len(mid)
  BY <1>1, <1>2
<1>4. MayFollow(mid, f)
  BY <1>1, <1>2, <1>3 DEF ChunksInv, Fitting, MayFollow, Unended
<1>5. Chat!WellFormedChunks(more)
  BY <1>0, <1>1, <1>2, <1>4, ChunksAppend DEF ChunksInv, Unended
<1>6. Cardinality(Opened(more)) = count
  BY <1>1, OpenedAppend DEF ChunksInv
<1>8. /\ more \in Seq(ChatChunk) /\ Len(mid) \in Nat /\ Len(more) = Len(mid) + 1
      /\ \A k \in 1..Len(mid) : more[k] = mid[k]
      /\ more[Len(mid) + 1] = f
      /\ \A k \in 1..(Len(mid) + 1) : k \in 1..Len(mid) \/ k = Len(mid) + 1
  <2>1. more \in Seq(ChatChunk)
    BY <1>0, <1>1, AppendProperties
  <2>2. mid \in Seq(ChatChunk)
    BY <1>1
  <2>3. /\ Len(mid) \in Nat /\ Len(Append(mid, f)) = Len(mid) + 1
        /\ \A k \in 1..Len(mid) : Append(mid, f)[k] = mid[k]
        /\ Append(mid, f)[Len(mid) + 1] = f
        /\ \A k \in 1..(Len(mid) + 1) : k \in 1..Len(mid) \/ k = Len(mid) + 1
    BY <2>2
  <2> QED BY <1>1, <2>1, <2>3
<1>7. Unended(more)
  BY <1>2, <1>8 DEF Unended, Fitting
<1>9. more # <<>> /\ more[1] = mid[1]
  <2>1. 1 \in 1..Len(mid)
    BY <1>3, <1>8
  <2>2. Len(more) # 0
    BY <1>8
  <2> QED BY <1>8, <2>1, <2>2
<1> QED BY <1>2, <1>5, <1>6, <1>7, <1>8, <1>9 DEF ChunksInv

\* The two chunks that end a stream.
LEMMA ChunksEnd ==
  ASSUME NEW out, NEW n, ChunksInv(out, n),
         NEW f \in ChatChunk, f.type \in {"finish", "error"}, f.type = "finish" => out # <<>>,
         NEW more, more = out \o <<f>> \o <<Chat!Chunk("done")>>
  PROVE  /\ more \in Seq(ChatChunk) /\ Chat!WellFormedChunks(more)
         /\ more # <<>> /\ Last(more).type = "done"
<1> DEFINE d == Chat!Chunk("done")
           mid == Append(out, f)
<1>1. d \in ChatChunk /\ d.type = "done"
  BY ChunkIs
<1>2. out \in Seq(ChatChunk) /\ Unended(out) /\ Chat!WellFormedChunks(out)
  BY DEF ChunksInv
<1> HIDE DEF d
<1>3. mid \in Seq(ChatChunk) /\ more = Append(mid, d)
  BY <1>1, <1>2 DEF d
<1>4. MayFollow(out, f)
  <2>1. out # <<>> => Len(out) \in 1..Len(out)
    BY <1>2
  <2> QED BY <1>2, <2>1 DEF ChunksInv, MayFollow, Unended
<1>5. Chat!WellFormedChunks(mid)
  BY <1>2, <1>4, ChunksAppend DEF Unended
<1>6. /\ \A k \in 1..Len(mid) : mid[k].type # "done"
      /\ mid # <<>> /\ mid[Len(mid)] = f
  BY <1>2, AppendIs DEF Unended
<1> HIDE DEF mid
<1>7. MayFollow(mid, d)
  BY <1>1, <1>6 DEF MayFollow
<1>8. Chat!WellFormedChunks(more)
  BY <1>1, <1>3, <1>5, <1>6, <1>7, ChunksAppend
<1>9. more \in Seq(ChatChunk) /\ more # <<>> /\ Last(more) = d
  <2>1. more \in Seq(ChatChunk) /\ more # <<>>
    <3>1. Append(mid, d) \in Seq(ChatChunk) /\ Append(mid, d) # <<>>
      BY <1>1, <1>3, AppendProperties, ZenonT(30)
    <3> QED BY <1>3, <3>1
  <2>2. Len(more) = Len(mid) + 1 /\ more[Len(mid) + 1] = d
    BY <1>3, AppendIs
  <2> QED BY <2>1, <2>2 DEF Last
<1> QED BY <1>1, <1>8, <1>9

LEMMA PiecedIs ==
  ASSUME NEW a \in Pieced, NEW b \in Pieced
  PROVE  /\ <<>> \in Pieced /\ a \o b \in Pieced /\ Len(a) \in Nat
         /\ \A n \in Nat : SubSeq(a, n + 1, Len(a)) \in Pieced
<1>0. PICK S : Pieced = Seq(S)
  BY DEF Pieced
<1>1. <<>> \in Pieced /\ Len(a) \in Nat
  BY <1>0
<1>2. a \o b \in Pieced
  BY <1>0, ConcatProperties
<1>3. ASSUME NEW n \in Nat PROVE SubSeq(a, n + 1, Len(a)) \in Pieced
  BY <1>0
<1> QED BY <1>1, <1>2, <1>3

\* The role is sent before the first chunk.
LEMMA PushKeeps ==
  ASSUME NEW y \in ChatT, ~y.ended, NEW n, ChunksInv(y.out, n), y.role_sent <=> y.out # <<>>,
         NEW f, Fitting(f, n), Len(y.calls) = IF f.opens THEN n + 1 ELSE n,
         NEW u, u = Chat!Push(y, f)
  PROVE  ChatOpen(u) /\ u.completed = y.completed /\ u.refused = y.refused
<1> DEFINE more == y.out \o (IF y.out # <<>> THEN <<>> ELSE <<Chat!Chunk("role")>>) \o <<f>>
<1>1. more = y.out \o (IF y.role_sent THEN <<>> ELSE <<Chat!Chunk("role")>>) \o <<f>>
  OBVIOUS
<1>2. u = [y EXCEPT !.role_sent = TRUE, !.out = more]
  BY <1>1 DEF Chat!Push
<1>3. ChunksInv(more, Len(y.calls))
  BY ChunksPush
<1>4. more # <<>>
  <2>1. y.out \in Seq(ChatChunk) /\ f \in ChatChunk /\ Chat!Chunk("role") \in ChatChunk
    BY ChunkIs DEF ChatT, Fitting
  <2> QED BY <2>1
<1> HIDE DEF more
<1>5. more \in Seq(ChatChunk)
  BY <1>3 DEF ChunksInv
<1>6. /\ u \in ChatT /\ u.out = more /\ u.role_sent = TRUE /\ u.calls = y.calls
      /\ u.ended = y.ended /\ u.completed = y.completed /\ u.refused = y.refused
  BY <1>2, <1>5 DEF ChatT
<1> QED BY <1>3, <1>4, <1>6 DEF ChatOpen

\* A call's arguments are no part of its place.
Amended(y, c) ==
  /\ y \in ChatT /\ y.out = c.out /\ y.role_sent = c.role_sent /\ y.ended = c.ended
  /\ y.completed = c.completed /\ y.refused = c.refused
  /\ y.text = c.text /\ Len(y.calls) = Len(c.calls)

LEMMA AmendedIs ==
  ASSUME NEW c \in ChatT, NEW n \in 1..Len(c.calls), NEW data \in Pieced,
         NEW y, y = [c EXCEPT !.calls[n].arguments = data]
  PROVE  Amended(y, c)
<1> DEFINE call == [c.calls[n] EXCEPT !.arguments = data]
           calls == [c.calls EXCEPT ![n] = call]
<1>1. c.calls \in Seq(ChatCall) /\ c.calls[n] \in ChatCall
  BY DEF ChatT
<1>2. call \in ChatCall
  BY <1>1 DEF ChatCall
<1> HIDE DEF call
<1>3. calls \in Seq(ChatCall) /\ Len(calls) = Len(c.calls)
  BY <1>1, <1>2
<1>4. y = [c EXCEPT !.calls = calls]
  BY DEF ChatT, call
<1> HIDE DEF calls
<1> QED BY <1>3, <1>4 DEF ChatT, Amended

LEMMA ArgumentDeltaFits ==
  ASSUME NEW n \in Nat, NEW k \in 1..n, NEW data \in Pieced
  PROVE  Fitting(Chat!ArgumentDelta(k, data), n) /\ ~Chat!ArgumentDelta(k, data).opens
<1> DEFINE f == [type |-> "call", index |-> k - 1, opens |-> FALSE, id |-> 0, data |-> data]
<1>1. Chat!ArgumentDelta(k, data) = f
  <2> DEFINE blank == [type |-> "call", index |-> 0, opens |-> FALSE, id |-> 0, data |-> <<>>]
  <2>1. Chat!ArgumentDelta(k, data) = [blank EXCEPT !.index = k - 1, !.data = data]
    BY Zenon DEF Chat!ArgumentDelta, Chat!Chunk
  <2> QED BY <2>1
<1>2. f \in ChatChunk
  BY DEF ChatChunk
<1> QED BY <1>1, <1>2 DEF Fitting

\* A call gets the next index.
LEMMA OpenCallKeeps ==
  ASSUME NEW c, ChatInv(c), NEW e \in TurnEvent, NEW u, u = Chat!OpenCall(c, e)
  PROVE  ChatInv(u)
<1> DEFINE call == [item |-> e.index, id |-> e.id, arguments |-> e.data]
           calls == Append(c.calls, call)
           y == [c EXCEPT !.calls = calls]
           n == Len(c.calls)
           f == [type |-> "call", index |-> n, opens |-> TRUE, id |-> e.id, data |-> e.data]
<1>1. c \in ChatT /\ c.calls \in Seq(ChatCall) /\ n \in Nat /\ ~c.ended
  BY DEF ChatInv, ChatOpen, ChatT
<1>2. call \in ChatCall /\ f \in ChatChunk
  BY <1>1 DEF ChatCall, TurnEvent, ChatChunk
<1>3. f.opens = TRUE /\ f.type = "call" /\ f.index = n
  OBVIOUS
<1> HIDE DEF call
<1>4. calls \in Seq(ChatCall) /\ Len(calls) = n + 1
  BY <1>1, <1>2
<1>5. u = Chat!Push(y, f)
  BY DEF Chat!OpenCall, call
<1> HIDE DEF calls, f
<1>6. /\ y \in ChatT /\ y.out = c.out /\ y.role_sent = c.role_sent /\ y.ended = c.ended
      /\ y.completed = c.completed /\ y.refused = c.refused /\ y.calls = calls
  BY <1>1, <1>4 DEF ChatT
<1> HIDE DEF y
<1>7. Fitting(f, n)
  BY <1>2, <1>3 DEF Fitting
<1>8. ChunksInv(y.out, n) /\ (y.role_sent <=> y.out # <<>>)
  BY <1>6 DEF ChatInv, ChatOpen
<1>9. ChatOpen(u) /\ u.completed = y.completed /\ u.refused = y.refused
  <2>1. Len(y.calls) = IF f.opens THEN n + 1 ELSE n
    BY <1>3, <1>4, <1>6
  <2>2. y \in ChatT /\ ~y.ended
    BY <1>1, <1>6
  <2> HIDE DEF n
  <2> QED BY <1>5, <1>7, <1>8, <2>1, <2>2, PushKeeps
<1> QED BY <1>6, <1>9 DEF ChatInv

\* Upstream's last word on the arguments of a call.
LEMMA SettleKeeps ==
  ASSUME NEW c, ChatInv(c), NEW n \in 1..Len(c.calls), NEW whole \in Pieced,
         NEW u, u = Chat!Settle(c, n, whole)
  PROVE  ChatInv(u)
<1> DEFINE y == [c EXCEPT !.calls[n].arguments = whole]
<1>0. PICK told, rest : told = c.calls[n].arguments /\ rest = Chat!Unsent(whole, told)
  OBVIOUS
<1>1. c \in ChatT /\ c.calls \in Seq(ChatCall) /\ Len(c.calls) \in Nat /\ ~c.ended
  BY DEF ChatInv, ChatOpen, ChatT
<1>2. told \in Pieced
  <2>1. c.calls[n] \in ChatCall
    BY <1>1
  <2> QED BY <1>0, <2>1 DEF ChatCall
<1>3. rest \in Pieced
  <2> HIDE DEF y
  <2>1. /\ <<>> \in Pieced /\ Len(told) \in Nat
        /\ \A k \in Nat : SubSeq(whole, k + 1, Len(whole)) \in Pieced
    BY <1>2, PiecedIs
  <2> QED BY <1>0, <2>1 DEF Chat!Unsent
<1>4. Amended(y, c)
  BY <1>1, AmendedIs
<1>5. \/ u = c \/ u = y \/ u = Chat!Push(y, Chat!ArgumentDelta(n, rest))
  BY <1>0 DEF Chat!Settle
<1> HIDE DEF y
<1>6. ChatInv(y)
  <2>1. y.calls # <<>> => c.calls # <<>>
    BY <1>1, <1>4 DEF Amended, ChatT
  <2> QED BY <1>4, <2>1 DEF Amended, ChatInv, ChatOpen
<1>7. ASSUME u = Chat!Push(y, Chat!ArgumentDelta(n, rest)) PROVE ChatInv(u)
  <2> DEFINE f == Chat!ArgumentDelta(n, rest)
  <2>1. Fitting(f, Len(c.calls)) /\ ~f.opens
    BY <1>1, <1>3, ArgumentDeltaFits
  <2> HIDE DEF f
  <2>2. ChunksInv(y.out, Len(c.calls)) /\ (y.role_sent <=> y.out # <<>>) /\ y \in ChatT /\ ~y.ended
    BY <1>4, <1>6 DEF Amended, ChatInv, ChatOpen
  <2>3. ChatOpen(u) /\ u.completed = y.completed /\ u.refused = y.refused
    BY <1>4, <1>7, <2>1, <2>2, PushKeeps DEF f, Amended
  <2> QED BY <1>6, <2>3 DEF ChatInv
<1> QED BY <1>5, <1>6, <1>7

\* Text.
LEMMA ContentKeeps ==
  ASSUME NEW c, ChatInv(c), NEW data \in Pieced, NEW u,
         u = Chat!Content(c, data) \/ u = Chat!Content([c EXCEPT !.saw_text_delta = TRUE], data)
  PROVE  ChatInv(u)
<1> DEFINE blank == Chat!Chunk("content")
           f == [blank EXCEPT !.data = data]
           text == c.text \o data
<1>1. c \in ChatT /\ c.text \in Pieced /\ ~c.ended /\ c.calls \in Seq(ChatCall)
  BY DEF ChatInv, ChatOpen, ChatT
<1>2. text \in Pieced
  BY <1>1, PiecedIs
<1>3. blank \in ChatChunk /\ blank.type = "content" /\ ~blank.opens
  BY ChunkIs
<1>4. PICK y : /\ u = Chat!Push(y, f)
               /\ \/ y = [c EXCEPT !.text = text]
                  \/ y = [c EXCEPT !.saw_text_delta = TRUE, !.text = text]
  BY <1>1 DEF Chat!Content, ChatT
<1> HIDE DEF text, blank
<1>5. /\ y \in ChatT /\ y.out = c.out /\ y.role_sent = c.role_sent /\ y.ended = c.ended
      /\ y.completed = c.completed /\ y.refused = c.refused /\ y.calls = c.calls
  BY <1>1, <1>2, <1>4, ZenonT(30) DEF ChatT
<1>6. f \in ChatChunk /\ f.type = "content" /\ ~f.opens
  BY <1>3 DEF ChatChunk
<1> HIDE DEF f
<1>7. Fitting(f, Len(c.calls))
  BY <1>1, <1>6 DEF Fitting
<1>8. ChatOpen(u) /\ u.completed = y.completed /\ u.refused = y.refused
  BY <1>1, <1>4, <1>5, <1>6, <1>7, PushKeeps DEF ChatInv, ChatOpen
<1> QED BY <1>5, <1>8 DEF ChatInv

LEMMA KnownIs ==
  ASSUME NEW c, NEW i, Chat!Known(c, i)
  PROVE  Chat!Position(c, i) \in 1..Len(c.calls)
BY DEF Chat!Known, Chat!Position

\* What an event changes, before the stream can end.
LEMMA ObserveKeeps ==
  ASSUME NEW c, ChatInv(c), NEW e \in TurnEvent, NEW u, u = Chat!Observe(c, e)
  PROVE  /\ ChatOpen(u)
         /\ u.completed <=> e.type \in {"completed", "incomplete"}
         /\ u.refused <=> e.type \in Refusals
<1>1. /\ e.type \in EventTypes /\ e.index \in Nat /\ e.kind \in Kinds \union {"none"}
      /\ e.id \in Nat /\ e.data \in Pieced /\ e.signature \in Nat
  BY DEF TurnEvent
<1>2. c \in ChatT /\ ChatOpen(c) /\ ~c.completed /\ ~c.refused
  BY DEF ChatInv, ChatOpen
<1>3. ASSUME ChatInv(u), e.type \notin {"completed", "incomplete"}, e.type \notin Refusals
      PROVE  /\ ChatOpen(u)
             /\ u.completed <=> e.type \in {"completed", "incomplete"}
             /\ u.refused <=> e.type \in Refusals
  BY <1>3 DEF ChatInv
<1>4. CASE e.type \in {"item_added", "item_done"} /\ e.kind = "function_call"
  <2>1. [e EXCEPT !.data = <<>>] \in TurnEvent
    <3>1. <<>> \in Pieced
      BY <1>1, PiecedIs
    <3> QED BY <3>1 DEF TurnEvent
  <2>2. \/ \E call \in TurnEvent : u = Chat!OpenCall(c, call)
        \/ /\ Chat!Known(c, e.index)
           /\ u = Chat!Settle(c, Chat!Position(c, e.index), e.data)
    BY <1>4, <2>1 DEF Chat!Observe, Chat!Refusals
  <2>3. ChatInv(u)
    BY <1>1, <2>2, OpenCallKeeps, SettleKeeps, KnownIs
  <2> QED BY <1>3, <1>4, <2>3 DEF Refusals
<1>5. CASE e.type \in {"text_delta", "text_done"}
  <2>1. ChatInv(u)
    <3>1. \/ u = c \/ u = Chat!Content(c, e.data)
          \/ u = Chat!Content([c EXCEPT !.saw_text_delta = TRUE], e.data)
      BY <1>5 DEF Chat!Observe, Chat!Refusals
    <3> QED BY <1>1, <3>1, ContentKeeps
  <2> QED BY <1>3, <1>5, <2>1 DEF Refusals
<1>6. CASE e.type = "arguments_delta"
  <2>1. CASE ~Chat!Known(c, e.index)
    <3>1. u = c
      BY <1>6, <2>1 DEF Chat!Observe, Chat!Refusals
    <3> QED BY <1>3, <1>6, <3>1 DEF Refusals
  <2>2. CASE Chat!Known(c, e.index)
    <3>1. PICK n \in 1..Len(c.calls) : n = Chat!Position(c, e.index)
      BY <2>2, KnownIs
    <3> DEFINE y == [c EXCEPT !.calls[n].arguments = @ \o e.data]
               data == c.calls[n].arguments \o e.data
               f == Chat!ArgumentDelta(n, e.data)
    <3>2. u = Chat!Push(y, f)
      BY <1>6, <2>2, <3>1 DEF Chat!Observe, Chat!Refusals
    <3>3. c.calls \in Seq(ChatCall) /\ Len(c.calls) \in Nat /\ c.calls[n].arguments \in Pieced
      <4>1. c.calls \in Seq(ChatCall)
        BY <1>2 DEF ChatT
      <4>2. c.calls[n] \in ChatCall
        BY <4>1
      <4> QED BY <4>1, <4>2 DEF ChatCall
    <3>4. data \in Pieced
      BY <1>1, <3>3, PiecedIs
    <3>5. y = [c EXCEPT !.calls[n].arguments = data]
      BY <1>2 DEF ChatT
    <3> HIDE DEF y, data, f
    <3>6. Amended(y, c)
      BY <1>2, <3>4, <3>5, AmendedIs
    <3>7. Fitting(f, Len(c.calls)) /\ ~f.opens
      BY <1>1, <3>3, ArgumentDeltaFits DEF f
    <3>8. ChunksInv(y.out, Len(c.calls)) /\ (y.role_sent <=> y.out # <<>>) /\ y \in ChatT /\ ~y.ended
      BY <1>2, <3>6 DEF Amended, ChatOpen
    <3>9. ChatOpen(u) /\ u.completed = y.completed /\ u.refused = y.refused
      BY <3>2, <3>6, <3>7, <3>8, PushKeeps DEF Amended
    <3>10. ChatInv(u)
      BY <1>2, <3>6, <3>9 DEF ChatInv, Amended
    <3> QED BY <1>3, <1>6, <3>10 DEF Refusals
  <2> QED BY <2>1, <2>2
<1>7. CASE e.type = "arguments_done"
  <2>1. \/ u = c
        \/ /\ Chat!Known(c, e.index)
           /\ u = Chat!Settle(c, Chat!Position(c, e.index), e.data)
    BY <1>7 DEF Chat!Observe, Chat!Refusals
  <2>2. ChatInv(u)
    BY <1>1, <2>1, SettleKeeps, KnownIs
  <2> QED BY <1>3, <1>7, <2>2 DEF Refusals
<1>8. CASE e.type \in {"completed", "incomplete"}
  <2>1. e.kind \notin {"failed", "incomplete"}
    BY <1>1 DEF Kinds
  <2>2. PICK reason \in {"stop", "length"} :
          u = [c EXCEPT !.completed = TRUE, !.finish_reason = reason]
    BY <1>2, <1>8, <2>1 DEF Chat!Observe, Chat!Refusals, Chat!Completed, ChatT
  <2>3. /\ u \in ChatT /\ u.out = c.out /\ u.role_sent = c.role_sent /\ u.ended = c.ended
        /\ u.completed /\ u.refused = c.refused /\ u.calls = c.calls /\ u.text = c.text
    BY <1>2, <2>2 DEF ChatT
  <2> QED BY <1>2, <1>8, <2>3 DEF ChatOpen, Refusals
<1>9. CASE e.type \in Refusals
  <2>1. u = [c EXCEPT !.refused = TRUE]
    BY <1>9 DEF Chat!Observe, Chat!Refusals, Refusals
  <2>2. /\ u \in ChatT /\ u.out = c.out /\ u.role_sent = c.role_sent /\ u.ended = c.ended
        /\ u.completed = c.completed /\ u.refused /\ u.calls = c.calls /\ u.text = c.text
    BY <1>2, <2>1 DEF ChatT
  <2>3. e.type \notin {"completed", "incomplete"}
    BY <1>9 DEF Refusals
  <2> QED BY <1>2, <1>9, <2>2, <2>3 DEF ChatOpen
<1>10. CASE \/ e.type \in {"created", "alive", "thought_delta", "closed"}
            \/ e.type \in {"item_added", "item_done"} /\ e.kind # "function_call"
  <2>1. u = c
    BY <1>10 DEF Chat!Observe, Chat!Refusals
  <2> QED BY <1>3, <1>10, <2>1 DEF Refusals
<1>11. \/ e.type \in {"item_added", "item_done"} \/ e.type \in {"text_delta", "text_done"}
       \/ e.type = "arguments_delta" \/ e.type = "arguments_done"
       \/ e.type \in {"completed", "incomplete"} \/ e.type \in Refusals
       \/ e.type \in {"created", "alive", "thought_delta", "closed"}
  BY <1>1 DEF EventTypes, Finals, Terminal, Refusals
<1> QED BY <1>4, <1>5, <1>6, <1>7, <1>8, <1>9, <1>10, <1>11

\* The last chunks of a turn.
LEMMA EndWithKeeps ==
  ASSUME NEW c, ChatOpen(c), NEW f \in ChatChunk, f.type \in {"finish", "error"},
         f.type = "finish" => c.role_sent, NEW u, u = Chat!EndWith(c, <<f>>)
  PROVE  ChatEnded(u)
<1> DEFINE more == c.out \o <<f>> \o <<Chat!Chunk("done")>>
<1>1. /\ more \in Seq(ChatChunk) /\ Chat!WellFormedChunks(more)
      /\ more # <<>> /\ Last(more).type = "done"
  BY ChunksEnd DEF ChatOpen
<1>2. u = [c EXCEPT !.ended = TRUE, !.out = more]
  BY DEF Chat!EndWith
<1> HIDE DEF more
<1>3. u \in ChatT /\ u.ended /\ u.out = more
  BY <1>1, <1>2 DEF ChatOpen, ChatT
<1> QED BY <1>1, <1>3 DEF ChatEnded

\* Chat: every event.
LEMMA ChatHear ==
  ASSUME NEW c, ChatInv(c), NEW e \in TurnEvent, e.type = "closed" => e = Closed,
         NEW u, u = Chat!Hear(c, e)
  PROVE  IF e.type \in Finals THEN ChatEnded(u) ELSE ChatInv(u)
<1>1. PICK heard : heard = Chat!Observe(c, e)
  OBVIOUS
<1>2. /\ ChatOpen(heard)
      /\ heard.completed <=> e.type \in {"completed", "incomplete"}
      /\ heard.refused <=> e.type \in Refusals
  BY <1>1, ObserveKeeps
<1>3. e = Chat!Closed <=> e.type = "closed"
  BY DEF Closed, Chat!Closed, Event, Chat!Event
<1>4. ~c.ended
  BY DEF ChatInv, ChatOpen
<1>5. u = IF heard.refused THEN Chat!Fail(heard)
          ELSE IF heard.completed \/ e = Chat!Closed THEN Chat!Close(heard) ELSE heard
  BY <1>1, <1>4 DEF Chat!Hear
<1>6. ASSUME u = Chat!Fail(heard) PROVE ChatEnded(u)
  <2>1. Chat!Chunk("error") \in ChatChunk /\ Chat!Chunk("error").type = "error"
    BY ChunkIs
  <2> QED BY <1>2, <1>6, <2>1, EndWithKeeps DEF Chat!Fail
<1>7. ASSUME u = Chat!Close(heard) PROVE ChatEnded(u)
  <2>1. CASE ~heard.completed \/ Chat!IsEmpty(heard)
    BY <1>6, <1>7, <2>1 DEF Chat!Close
  <2>2. CASE heard.completed /\ ~Chat!IsEmpty(heard)
    <3> DEFINE f == [Chat!Chunk("finish") EXCEPT !.data = Chat!FinishReason(heard)]
    <3>1. u = Chat!EndWith(heard, <<f>>)
      BY <1>7, <2>2 DEF Chat!Close
    <3>2. Chat!FinishReason(heard) \in {"stop", "length", "tool_calls"}
      BY <1>2 DEF ChatOpen, ChatT, Chat!FinishReason
    <3>3. f \in ChatChunk /\ f.type = "finish"
      BY <3>2 DEF ChatChunk, Chat!Chunk
    <3>4. heard.role_sent
      BY <1>2, <2>2 DEF ChatOpen, Chat!IsEmpty
    <3> HIDE DEF f
    <3> QED BY <1>2, <3>1, <3>3, <3>4, EndWithKeeps
  <2> QED BY <2>1, <2>2
<1>8. CASE e.type \in Finals
  <2>1. e.type \in Refusals \/ e.type \in {"completed", "incomplete"} \/ e.type = "closed"
    BY <1>8 DEF Finals, Terminal, Refusals
  <2> QED BY <1>2, <1>3, <1>5, <1>6, <1>7, <1>8, <2>1
<1>9. CASE e.type \notin Finals
  <2>1. e.type \notin Refusals /\ e.type \notin {"completed", "incomplete"} /\ e.type # "closed"
    BY <1>9 DEF Finals, Terminal
  <2> QED BY <1>2, <1>3, <1>5, <1>9, <2>1 DEF ChatInv
<1> QED BY <1>8, <1>9

LEMMA ChatDeaf ==
  ASSUME NEW c, c.ended, NEW e
  PROVE  Chat!Hear(c, e) = c
BY DEF Chat!Hear

-----------------------------------------------------------------------------
(* ResponsesRelay.                                                         *)

RelayFrame == [sequence : Nat, event : TurnEvent]
RelayT ==
  [sequence : Nat, open : BOOLEAN, out : Seq(RelayFrame), output : Seq(TurnEvent),
   completed : {"no"} \union Terminal]

AddedAt(out, i) ==
  {j \in 1..Len(out) : out[j].event.type = "item_added" /\ out[j].event.index = i}
Untold(out) == \A k \in 1..Len(out) : out[k].event.type \notin Terminal
Erring(out) == \E k \in 1..Len(out) : out[k].event.type = "error"

\* The frames of a turn that is not over: its n items are announced once.
RelayOut(out, o, n) ==
  /\ out \in Seq(RelayFrame) /\ Relay!WellFormedRelay(out) /\ Untold(out) /\ ~Erring(out)
  /\ \A k \in 1..Len(out) : out[k].event.type = "item_added" => out[k].event.index < n
  /\ \A p \in o : Cardinality(AddedAt(out, p[1])) = 1
RelayInv(r, o, n) == r \in RelayT /\ r.open /\ r.sequence = Len(r.out) /\ RelayOut(r.out, o, n)
RelayEnded(r, failed) ==
  /\ r \in RelayT /\ ~r.open /\ Relay!WellFormedRelay(r.out)
  /\ failed <=> Erring(r.out)

\* An event of a translator's: its items are numbered as they are announced.
Strict(o, n, e) ==
  /\ Legal(o, e) /\ e.type \notin Finals
  /\ e.type = "item_added" => e.index = n
  /\ e.type = "text_delta" => \E p \in o : p[1] = e.index /\ p[2] = "message"
Count(n, e) == IF e.type = "item_added" THEN n + 1 ELSE n

LEMMA RelayCardinality ==
  ASSUME NEW S
  PROVE  Relay!Cardinality(S) = Cardinality(S)
BY Zenon DEF Cardinality, Relay!Cardinality

LEMMA AddedAppend ==
  ASSUME NEW out \in Seq(RelayFrame), NEW f, NEW i
  PROVE  /\ Cardinality(AddedAt(out, i)) \in Nat
         /\ Cardinality(AddedAt(Append(out, f), i)) =
              IF f.event.type = "item_added" /\ f.event.index = i
                THEN Cardinality(AddedAt(out, i)) + 1 ELSE Cardinality(AddedAt(out, i))
<1>1. AddedAt(out, i) \subseteq 1..Len(out) /\ Len(out) \in Nat /\ Len(out) + 1 \notin AddedAt(out, i)
  BY DEF AddedAt
<1>2. IsFiniteSet(AddedAt(out, i)) /\ Cardinality(AddedAt(out, i)) \in Nat
  <2>1. IsFiniteSet(1..Len(out))
    BY <1>1, FS_Interval
  <2> QED BY <1>1, <2>1, FS_Subset, FS_CardinalityType
<1>3. AddedAt(Append(out, f), i) =
        IF f.event.type = "item_added" /\ f.event.index = i
          THEN AddedAt(out, i) \union {Len(out) + 1} ELSE AddedAt(out, i)
  BY AppendIs DEF AddedAt
<1> QED BY <1>1, <1>2, <1>3, FS_AddElement

\* A relayed stream stays well formed with the next event.
LEMMA RelayAppend ==
  ASSUME NEW out \in Seq(RelayFrame), NEW f, Relay!WellFormedRelay(out), Untold(out),
         f.sequence = Len(out),
         f.event.type = "item_done" => Cardinality(AddedAt(out, f.event.index)) = 1,
         f.event.type = "failed" => out # <<>> /\ out[Len(out)].event.type = "error"
  PROVE  Relay!WellFormedRelay(Append(out, f))
<1> DEFINE more == Append(out, f)
<1>1. /\ Len(out) \in Nat /\ Len(more) = Len(out) + 1
      /\ \A k \in 1..Len(out) : more[k] = out[k]
      /\ more[Len(out) + 1] = f
      /\ \A k \in 1..(Len(out) + 1) : k \in 1..Len(out) \/ k = Len(out) + 1
  BY AppendIs
<1>2. out = <<>> <=> Len(out) = 0
  OBVIOUS
<1> HIDE DEF more
<1> SUFFICES ASSUME NEW k \in 1..Len(more)
             PROVE  /\ more[k].sequence = k - 1
                    /\ more[k].event.type = "item_done" =>
                         1 = Cardinality({j \in 1..k - 1 :
                                            /\ more[j].event.type = "item_added"
                                            /\ more[j].event.index = more[k].event.index})
                    /\ more[k].event.type = "failed" =>
                         k > 1 /\ more[k - 1].event.type = "error"
                    /\ more[k].event.type \in Terminal => k = Len(more)
  BY RelayCardinality DEF Relay!WellFormedRelay, more, Terminal, Relay!Terminal
<1>3. CASE k \in 1..Len(out)
  <2>1. \A j \in 1..k - 1 : more[j] = out[j]
    BY <1>1, <1>3
  <2>2. more[k] = out[k] /\ (k > 1 => more[k - 1] = out[k - 1])
    BY <1>1, <1>3
  <2> DEFINE i == out[k].event.index
  <2>3. {j \in 1..k - 1 : more[j].event.type = "item_added" /\ more[j].event.index = i}
        = {j \in 1..k - 1 : out[j].event.type = "item_added" /\ out[j].event.index = i}
    BY <2>1
  <2>4. /\ out[k].sequence = k - 1
        /\ out[k].event.type = "item_done" =>
             1 = Cardinality({j \in 1..k - 1 : /\ out[j].event.type = "item_added"
                                               /\ out[j].event.index = i})
        /\ out[k].event.type = "failed" => k > 1 /\ out[k - 1].event.type = "error"
    BY <1>3, RelayCardinality DEF Relay!WellFormedRelay
  <2>5. out[k].event.type \notin Terminal
    BY <1>3 DEF Untold
  <2> HIDE DEF i
  <2>6. more[k].event.index = i
    BY <2>2 DEF i
  <2> QED BY <2>2, <2>3, <2>4, <2>5, <2>6
<1>4. CASE k = Len(out) + 1
  <2>1. more[k] = f /\ k - 1 = Len(out) /\ k = Len(more)
    BY <1>1, <1>4
  <2>2. {j \in 1..k - 1 : more[j].event.type = "item_added" /\ more[j].event.index = f.event.index}
        = AddedAt(out, f.event.index)
    BY <1>1, <2>1 DEF AddedAt
  <2>3. out # <<>> => more[k - 1] = out[Len(out)] /\ k > 1
    BY <1>1, <1>2, <2>1
  <2> QED BY <2>1, <2>2, <2>3
<1> QED BY <1>1, <1>3, <1>4

LEMMA RelayPushIs ==
  ASSUME NEW r \in RelayT, NEW e \in TurnEvent, r.sequence = Len(r.out), NEW u, u = Relay!Push(r, e)
  PROVE  /\ u \in RelayT /\ u.sequence = Len(u.out) /\ u.open = r.open
         /\ u.out = Append(r.out, [sequence |-> Len(r.out), event |-> e])
         /\ u.output = r.output /\ u.completed = r.completed
<1> DEFINE f == [sequence |-> r.sequence, event |-> e]
           more == Append(r.out, f)
<1>1. r.out \in Seq(RelayFrame) /\ f \in RelayFrame /\ r.sequence \in Nat
  BY DEF RelayT, RelayFrame
<1> HIDE DEF f
<1>2. more \in Seq(RelayFrame) /\ Len(more) = r.sequence + 1
  BY <1>1
<1>3. u = [r EXCEPT !.sequence = r.sequence + 1, !.out = more]
  BY DEF Relay!Push, f, RelayT
<1> HIDE DEF more
<1>5. PICK next \in Nat : next = r.sequence + 1
  BY <1>1
<1>4. /\ u \in RelayT /\ u.sequence = r.sequence + 1 /\ u.open = r.open /\ u.out = more
      /\ u.output = r.output /\ u.completed = r.completed
  <2>1. u = [r EXCEPT !.sequence = next, !.out = more]
    BY <1>3, <1>5
  <2>2. /\ u \in RelayT /\ u.sequence = next /\ u.open = r.open /\ u.out = more
        /\ u.output = r.output /\ u.completed = r.completed
    BY <1>2, <2>1 DEF RelayT
  <2> QED BY <1>5, <2>2
<1> QED BY <1>2, <1>4 DEF more, f

LEMMA RelayFoldIs ==
  ASSUME NEW r \in RelayT, NEW e \in TurnEvent, NEW u, u = Relay!Fold(r, e)
  PROVE  u \in RelayT /\ u.sequence = r.sequence /\ u.open = r.open /\ u.out = r.out
<1> DEFINE more == Append(r.output, e)
<1>1. more \in Seq(TurnEvent)
  BY DEF RelayT
<1>2. \/ u = r
      \/ u = [r EXCEPT !.output = more]
      \/ e.type \in Terminal /\ u = [r EXCEPT !.completed = e.type]
  BY DEF Relay!Fold, RelayT, Terminal, Relay!Terminal
<1> HIDE DEF more
<1> QED BY <1>1, <1>2 DEF RelayT

\* A frame more that ends nothing.
LEMMA RelayTells ==
  ASSUME NEW r, NEW o, NEW n \in Nat, RelayInv(r, o, n), NEW e \in TurnEvent, Strict(o, n, e),
         NEW u, u = Relay!Push(r, e)
  PROVE  RelayInv(u, After(o, e), Count(n, e))
<1> DEFINE f == [sequence |-> Len(r.out), event |-> e]
<1>1. /\ u \in RelayT /\ u.sequence = Len(u.out) /\ u.open = r.open /\ u.out = Append(r.out, f)
  BY RelayPushIs DEF RelayInv
<1>2. f.sequence = Len(r.out) /\ f.event = e
  OBVIOUS
<1>3. r.out \in Seq(RelayFrame)
  BY DEF RelayInv, RelayT
<1> HIDE DEF f
<1>4. e.type \notin Terminal /\ e.type # "failed" /\ e.type # "error"
  BY DEF Strict, Finals, Terminal, Refusals
<1>5. e.type = "item_done" => Cardinality(AddedAt(r.out, e.index)) = 1
  BY DEF Strict, Legal, RelayInv, RelayOut
<1>6. Relay!WellFormedRelay(u.out)
  BY <1>1, <1>2, <1>3, <1>4, <1>5, RelayAppend DEF RelayInv, RelayOut
<1>7. /\ Len(r.out) \in Nat /\ Len(u.out) = Len(r.out) + 1
      /\ \A k \in 1..Len(r.out) : u.out[k] = r.out[k]
      /\ u.out[Len(r.out) + 1] = f
      /\ \A k \in 1..Len(u.out) : k \in 1..Len(r.out) \/ k = Len(r.out) + 1
  BY <1>1, <1>3, AppendIs
<1>8. Untold(u.out) /\ ~Erring(u.out)
  <2>1. \A k \in 1..Len(r.out) : r.out[k].event.type \notin Terminal \union {"error"}
    BY DEF Untold, Erring, RelayInv, RelayOut
  <2>2. \A k \in 1..Len(u.out) : u.out[k].event.type \notin Terminal \union {"error"}
    BY <1>2, <1>4, <1>7, <2>1
  <2> QED BY <2>2 DEF Untold, Erring
<1>9. ASSUME NEW k \in 1..Len(u.out), u.out[k].event.type = "item_added"
      PROVE  u.out[k].event.index < Count(n, e)
  <2>1. CASE k \in 1..Len(r.out)
    <3>1. u.out[k] = r.out[k] /\ r.out[k].event.index < n /\ r.out[k].event.index \in Nat
      <4>1. u.out[k] = r.out[k] /\ r.out[k].event.index < n
        BY <1>7, <1>9, <2>1 DEF RelayInv, RelayOut
      <4>2. r.out[k] \in RelayFrame
        BY <1>3, <2>1
      <4>3. r.out[k].event.index \in Nat
        BY <4>2 DEF RelayFrame, TurnEvent
      <4> QED BY <4>1, <4>3
    <3> QED BY <3>1 DEF Count
  <2>2. CASE k = Len(r.out) + 1
    <3>1. e.type = "item_added" /\ u.out[k].event.index = n
      BY <1>2, <1>7, <1>9, <2>2 DEF Strict
    <3> QED BY <3>1 DEF Count
  <2> QED BY <1>7, <2>1, <2>2
<1>10. \A i : Cardinality(AddedAt(u.out, i)) =
              IF e.type = "item_added" /\ e.index = i
                THEN Cardinality(AddedAt(r.out, i)) + 1 ELSE Cardinality(AddedAt(r.out, i))
  BY <1>1, <1>2, <1>3, AddedAppend
<1>11. ASSUME NEW p \in After(o, e) PROVE Cardinality(AddedAt(u.out, p[1])) = 1
  <2>1. CASE e.type = "item_added"
    <3>1. p \in o \/ p = <<e.index, e.kind>>
      BY <2>1 DEF After
    <3>2. CASE p \in o
      <4>1. p[1] # e.index /\ Cardinality(AddedAt(r.out, p[1])) = 1
        BY <2>1, <3>2 DEF Strict, Legal, RelayInv, RelayOut
      <4> QED BY <1>10, <4>1
    <3>3. CASE p = <<e.index, e.kind>>
      <4>1. p[1] = e.index /\ e.index = n
        BY <2>1, <3>3 DEF Strict
      <4>2. AddedAt(r.out, n) = {}
        <5>1. ASSUME NEW k \in 1..Len(r.out), r.out[k].event.type = "item_added"
              PROVE  r.out[k].event.index # n
          <6>1. r.out[k].event.index < n
            BY <5>1 DEF RelayInv, RelayOut
          <6> QED BY <6>1
        <5> QED BY <5>1 DEF AddedAt
      <4>3. Cardinality(AddedAt(r.out, n)) = 0
        BY <4>2, FS_EmptySet
      <4> QED BY <1>10, <2>1, <4>1, <4>3
    <3> QED BY <3>1, <3>2, <3>3
  <2>2. CASE e.type # "item_added"
    <3>1. CASE e.type = "text_delta"
      <4>1. p \in o \/ p = <<e.index, "message">>
        BY <3>1 DEF After
      <4>2. PICK q \in o : q[1] = p[1]
        BY <3>1, <4>1 DEF Strict
      <4> QED BY <1>10, <2>2, <4>2 DEF RelayInv, RelayOut
    <3>2. CASE e.type # "text_delta"
      <4>1. p \in o
        BY <2>2, <3>2 DEF After
      <4> QED BY <1>10, <2>2, <4>1 DEF RelayInv, RelayOut
    <3> QED BY <3>1, <3>2
  <2> QED BY <2>1, <2>2
<1>12. u.out \in Seq(RelayFrame) /\ u.open
  BY <1>1 DEF RelayT, RelayInv
<1>13. RelayOut(u.out, After(o, e), Count(n, e))
  BY <1>6, <1>8, <1>9, <1>11, <1>12 DEF RelayOut
<1> QED BY <1>1, <1>12, <1>13 DEF RelayInv

\* Responses: every event that a translator may tell.
LEMMA RelayHear ==
  ASSUME NEW r, NEW o, NEW n \in Nat, RelayInv(r, o, n), NEW e \in TurnEvent, Strict(o, n, e),
         NEW u, u = Relay!Hear(r, e)
  PROVE  RelayInv(u, After(o, e), Count(n, e))
<1>1. PICK heard : heard = Relay!Fold(r, e)
  OBVIOUS
<1>2. RelayInv(heard, o, n)
  BY <1>1, RelayFoldIs DEF RelayInv
<1>3. e.type \notin {"closed", "broken", "failed"}
  BY DEF Strict, Finals, Terminal, Refusals
<1>4. e # Relay!Closed
  BY <1>3 DEF Relay!Closed, Relay!Event
<1>5. u = Relay!Push(heard, e)
  BY <1>1, <1>2, <1>3, <1>4 DEF Relay!Hear, Relay!Relay, RelayInv
<1> QED BY <1>2, <1>5, RelayTells

LEMMA EventIs ==
  ASSUME NEW type \in EventTypes
  PROVE  /\ Event(type) \in TurnEvent /\ Event(type).type = type /\ Event(type).index = 0
         /\ Relay!Event(type) = Event(type)
BY DEF Event, Relay!Event, TurnEvent, Pieced

\* The provider's end of a turn, and then the stream's.
LEMMA RelayEnds ==
  ASSUME NEW r, NEW o, NEW n \in Nat, RelayInv(r, o, n), NEW e \in TurnEvent, e.type \in Terminal,
         NEW u, u = Relay!Hear(Relay!Hear(r, e), Closed)
  PROVE  RelayEnded(u, e.type = "failed")
<1>1. PICK heard : heard = Relay!Fold(r, e)
  OBVIOUS
<1>2. RelayInv(heard, o, n)
  BY <1>1, RelayFoldIs DEF RelayInv
<1>3. e.type \notin {"closed", "broken", "error"}
  BY DEF Terminal
<1>4. e # Relay!Closed /\ Closed \in TurnEvent /\ Closed = Relay!Closed
      /\ Event("error") \in TurnEvent /\ Event("error").type = "error"
      /\ Relay!Event("error") = Event("error")
  <2>1. "closed" \in EventTypes /\ "error" \in EventTypes
    BY DEF EventTypes, Finals, Refusals
  <2> QED BY <1>3, <2>1, EventIs DEF Relay!Closed, Closed
<1>5. PICK told : /\ told \in RelayT /\ told.open /\ Relay!WellFormedRelay(told.out)
                  /\ Erring(told.out) <=> e.type = "failed"
                  /\ u = Relay!Hear(told, Closed)
  <2>1. CASE e.type # "failed"
    <3> DEFINE told == Relay!Push(heard, e)
               f == [sequence |-> Len(heard.out), event |-> e]
    <3>1. Relay!Hear(r, e) = told
      BY <1>1, <1>2, <1>3, <1>4, <2>1 DEF Relay!Hear, Relay!Relay, RelayInv
    <3>2. told \in RelayT /\ told.open /\ told.out = Append(heard.out, f)
      BY <1>2, RelayPushIs DEF RelayInv
    <3> HIDE DEF told
    <3>3. f.sequence = Len(heard.out) /\ f.event = e
      OBVIOUS
    <3> HIDE DEF f
    <3>4. heard.out \in Seq(RelayFrame) /\ e.type # "item_done"
      BY <1>2 DEF RelayInv, RelayT, Terminal
    <3>5. Relay!WellFormedRelay(told.out)
      BY <1>2, <2>1, <3>2, <3>3, <3>4, RelayAppend DEF RelayInv, RelayOut
    <3>6. ~Erring(told.out)
      BY <1>2, <1>3, <3>2, <3>3, <3>4, AppendIs DEF RelayInv, RelayOut, Erring
    <3> QED BY <2>1, <3>1, <3>2, <3>5, <3>6
  <2>2. CASE e.type = "failed"
    <3> DEFINE error == Event("error")
               first == Relay!Push(heard, error)
               told == Relay!Push(first, e)
               f == [sequence |-> Len(heard.out), event |-> error]
               g == [sequence |-> Len(first.out), event |-> e]
    <3>1. Relay!Hear(r, e) = told
      BY <1>1, <1>2, <1>3, <1>4, <2>2 DEF Relay!Hear, Relay!Relay, RelayInv
    <3>2. /\ first \in RelayT /\ first.open /\ first.out = Append(heard.out, f)
          /\ first.sequence = Len(first.out)
      BY <1>2, <1>4, RelayPushIs DEF RelayInv
    <3> HIDE DEF first, error
    <3>3. told \in RelayT /\ told.open /\ told.out = Append(first.out, g)
      BY <3>2, RelayPushIs
    <3> HIDE DEF told
    <3>4. /\ f.sequence = Len(heard.out) /\ f.event.type = "error"
          /\ g.sequence = Len(first.out) /\ g.event = e
      BY <1>4 DEF error
    <3> HIDE DEF f, g
    <3>5. heard.out \in Seq(RelayFrame) /\ first.out \in Seq(RelayFrame) /\ e.type # "item_done"
      BY <1>2, <2>2, <3>2 DEF RelayInv, RelayT
    <3>6. Relay!WellFormedRelay(first.out)
      BY <1>2, <3>2, <3>4, <3>5, RelayAppend DEF RelayInv, RelayOut
    <3>7. /\ Len(heard.out) \in Nat /\ Len(first.out) = Len(heard.out) + 1
          /\ first.out[Len(first.out)] = f /\ Untold(first.out) /\ first.out # <<>>
      <4>1. /\ Len(heard.out) \in Nat /\ Len(first.out) = Len(heard.out) + 1
            /\ \A k \in 1..Len(heard.out) : first.out[k] = heard.out[k]
            /\ first.out[Len(heard.out) + 1] = f
            /\ \A k \in 1..Len(first.out) : k \in 1..Len(heard.out) \/ k = Len(heard.out) + 1
        BY <3>2, <3>5, AppendIs
      <4>2. Untold(first.out)
        BY <1>2, <3>4, <4>1 DEF Untold, RelayInv, RelayOut, Terminal
      <4>3. first.out # <<>>
        BY <4>1
      <4> QED BY <4>1, <4>2, <4>3
    <3>8. Relay!WellFormedRelay(told.out)
      BY <3>3, <3>4, <3>5, <3>6, <3>7, RelayAppend
    <3>9. Erring(told.out)
      <4>1. Len(first.out) \in 1..Len(told.out) /\ told.out[Len(first.out)] = f
        BY <3>3, <3>5, <3>7, AppendIs
      <4> QED BY <3>4, <4>1 DEF Erring
    <3> QED BY <2>2, <3>1, <3>3, <3>8, <3>9
  <2> QED BY <2>1, <2>2
<1>6. PICK last : last = Relay!Fold(told, Closed)
  OBVIOUS
<1>7. last \in RelayT /\ last.open /\ last.out = told.out
  BY <1>4, <1>5, <1>6, RelayFoldIs
<1>8. u = [last EXCEPT !.open = FALSE]
  <2>1. Closed.type = "closed"
    BY DEF Closed, Event
  <2> QED BY <2>1, <1>4, <1>5, <1>6, <1>7 DEF Relay!Hear, Relay!Relay
<1>9. u \in RelayT /\ ~u.open /\ u.out = last.out
  BY <1>7, <1>8 DEF RelayT
<1> QED BY <1>5, <1>7, <1>9 DEF RelayEnded

\* The stream broke, or the turn was refused.
LEMMA RelayBreaks ==
  ASSUME NEW r, NEW o, NEW n \in Nat, RelayInv(r, o, n), NEW u, u = Relay!Hear(r, Event("broken"))
  PROVE  RelayEnded(u, TRUE)
<1> DEFINE e == Event("broken")
           error == Event("error")
<1>1. /\ e \in TurnEvent /\ e.type = "broken" /\ error \in TurnEvent /\ error.type = "error"
      /\ Relay!Event("error") = error
  <2>1. "broken" \in EventTypes /\ "error" \in EventTypes
    BY DEF EventTypes, Finals, Refusals
  <2> QED BY <2>1, EventIs
<1>2. e # Relay!Closed
  BY <1>1 DEF Relay!Closed, Relay!Event
<1> HIDE DEF e, error
<1>3. PICK heard : heard = Relay!Fold(r, e)
  OBVIOUS
<1>4. RelayInv(heard, o, n)
  BY <1>1, <1>3, RelayFoldIs DEF RelayInv
<1>5. PICK told : told = Relay!Push(heard, error)
  OBVIOUS
<1>6. u = [told EXCEPT !.open = FALSE]
  BY <1>1, <1>2, <1>3, <1>4, <1>5 DEF Relay!Hear, Relay!Relay, RelayInv, e
<1> DEFINE f == [sequence |-> Len(heard.out), event |-> error]
<1>7. told \in RelayT /\ told.out = Append(heard.out, f)
  BY <1>1, <1>4, <1>5, RelayPushIs DEF RelayInv
<1>8. f.sequence = Len(heard.out) /\ f.event = error
  OBVIOUS
<1> HIDE DEF f
<1>9. heard.out \in Seq(RelayFrame)
  BY <1>4 DEF RelayInv, RelayT
<1>10. Relay!WellFormedRelay(told.out)
  BY <1>1, <1>4, <1>7, <1>8, <1>9, RelayAppend DEF RelayInv, RelayOut
<1>11. Erring(told.out)
  <2>1. Len(told.out) \in 1..Len(told.out) /\ told.out[Len(told.out)] = f
    BY <1>7, <1>9, AppendIs
  <2> QED BY <1>1, <1>8, <2>1 DEF Erring
<1>12. u \in RelayT /\ ~u.open /\ u.out = told.out
  BY <1>6, <1>7 DEF RelayT
<1> QED BY <1>10, <1>11, <1>12 DEF RelayEnded

-----------------------------------------------------------------------------
(* The three surfaces of a retold turn, which hear the same events.        *)

Together(m, c, r, o, n) ==
  /\ MessagesInv(m) /\ ~m.finished /\ Shows(m, o)
  /\ ChatInv(c)
  /\ RelayInv(r, o, n)
Over(m, c, r, failed) ==
  /\ MessagesInv(m) /\ m.finished /\ (Last(m.out).type = "error" <=> failed)
  /\ ChatEnded(c)
  /\ RelayEnded(r, failed)

MessagesAt(out) == FoldLeft(Messages!Hear, messages, out)
ChatAt(out) == FoldLeft(Chat!Hear, chat, out)
RelayAt(out) == FoldLeft(Relay!Hear, relay, out)

\* What a translator has to tell, its items that are open and their count.
Retelling(out, o, n) ==
  /\ out \in Seq(TurnEvent) /\ n \in Nat
  /\ Together(MessagesAt(out), ChatAt(out), RelayAt(out), o, n)
\* The surfaces when they have heard all of it.
Retells(out, failed) == Over(MessagesAt(out), ChatAt(out), RelayAt(out), failed)

ChatFold == INSTANCE FoldFacts WITH Op <- Chat!Hear
RelayFold == INSTANCE FoldFacts WITH Op <- Relay!Hear

\* A surface that hears one event more.
LEMMA MessagesFoldAppend ==
  ASSUME NEW m, NEW S, NEW s \in Seq(S), NEW e
  PROVE  FoldLeft(Messages!Hear, m, Append(s, e)) = Messages!Hear(FoldLeft(Messages!Hear, m, s), e)
<1>1. \A x : FoldLeft(Messages!Hear, m, x) = MessagesFold!Folded(m, x)
  BY Zenon DEF FoldLeft, MessagesFold!Folded, MapThenFoldSet, MessagesFold!MapThenFoldSet, Max,
     MessagesFold!Greatest
<1>2. MessagesFold!Folded(m, Append(s, e))
      = Messages!Hear(MessagesFold!Folded(m, s), e)
  BY MessagesFold!FoldedAppend
<1> QED BY <1>1, <1>2

LEMMA MessagesFolds ==
  /\ \A m : FoldLeft(Messages!Hear, m, <<>>) = m
  /\ \A m, e : FoldLeft(Messages!Hear, m, <<e>>) = Messages!Hear(m, e)
<1>1. \A m : FoldLeft(Messages!Hear, m, <<>>) = m
  BY MessagesFold!FoldedEmpty DEF FoldLeft, MessagesFold!Folded, MapThenFoldSet,
     MessagesFold!MapThenFoldSet, Max, MessagesFold!Greatest
<1>2. \A m, e : FoldLeft(Messages!Hear, m, <<e>>) = Messages!Hear(m, e)
  BY MessagesFold!FoldedOne DEF FoldLeft, MessagesFold!Folded, MapThenFoldSet,
     MessagesFold!MapThenFoldSet, Max, MessagesFold!Greatest
<1> QED BY <1>1, <1>2

LEMMA ChatFoldAppend ==
  ASSUME NEW m, NEW S, NEW s \in Seq(S), NEW e
  PROVE  FoldLeft(Chat!Hear, m, Append(s, e)) = Chat!Hear(FoldLeft(Chat!Hear, m, s), e)
<1>1. \A x : FoldLeft(Chat!Hear, m, x) = ChatFold!Folded(m, x)
  BY Zenon DEF FoldLeft, ChatFold!Folded, MapThenFoldSet, ChatFold!MapThenFoldSet, Max,
     ChatFold!Greatest
<1>2. ChatFold!Folded(m, Append(s, e))
      = Chat!Hear(ChatFold!Folded(m, s), e)
  BY ChatFold!FoldedAppend
<1> QED BY <1>1, <1>2

LEMMA ChatFolds ==
  /\ \A m : FoldLeft(Chat!Hear, m, <<>>) = m
  /\ \A m, e : FoldLeft(Chat!Hear, m, <<e>>) = Chat!Hear(m, e)
<1>1. \A m : FoldLeft(Chat!Hear, m, <<>>) = m
  BY ChatFold!FoldedEmpty DEF FoldLeft, ChatFold!Folded, MapThenFoldSet,
     ChatFold!MapThenFoldSet, Max, ChatFold!Greatest
<1>2. \A m, e : FoldLeft(Chat!Hear, m, <<e>>) = Chat!Hear(m, e)
  BY ChatFold!FoldedOne DEF FoldLeft, ChatFold!Folded, MapThenFoldSet,
     ChatFold!MapThenFoldSet, Max, ChatFold!Greatest
<1> QED BY <1>1, <1>2

LEMMA RelayFoldAppend ==
  ASSUME NEW m, NEW S, NEW s \in Seq(S), NEW e
  PROVE  FoldLeft(Relay!Hear, m, Append(s, e)) = Relay!Hear(FoldLeft(Relay!Hear, m, s), e)
<1>1. \A x : FoldLeft(Relay!Hear, m, x) = RelayFold!Folded(m, x)
  BY Zenon DEF FoldLeft, RelayFold!Folded, MapThenFoldSet, RelayFold!MapThenFoldSet, Max,
     RelayFold!Greatest
<1>2. RelayFold!Folded(m, Append(s, e))
      = Relay!Hear(RelayFold!Folded(m, s), e)
  BY RelayFold!FoldedAppend
<1> QED BY <1>1, <1>2

LEMMA RelayFolds ==
  /\ \A m : FoldLeft(Relay!Hear, m, <<>>) = m
<1>1. \A m : FoldLeft(Relay!Hear, m, <<>>) = m
  BY RelayFold!FoldedEmpty DEF FoldLeft, RelayFold!Folded, MapThenFoldSet,
     RelayFold!MapThenFoldSet, Max, RelayFold!Greatest
<1> QED BY <1>1

LEMMA RetellNothing ==
  ASSUME NEW o, NEW n \in Nat, Together(messages, chat, relay, o, n)
  PROVE  Retelling(<<>>, o, n)
BY MessagesFolds, ChatFolds, RelayFolds DEF Retelling, MessagesAt, ChatAt, RelayAt

LEMMA RetellAppend ==
  ASSUME NEW out \in Seq(TurnEvent), NEW e
  PROVE  /\ MessagesAt(Append(out, e)) = Messages!Hear(MessagesAt(out), e)
         /\ ChatAt(Append(out, e)) = Chat!Hear(ChatAt(out), e)
         /\ RelayAt(Append(out, e)) = Relay!Hear(RelayAt(out), e)
<1>1. MessagesAt(Append(out, e)) = Messages!Hear(MessagesAt(out), e)
  BY MessagesFoldAppend, ZenonT(30) DEF MessagesAt
<1>2. ChatAt(Append(out, e)) = Chat!Hear(ChatAt(out), e)
  BY ChatFoldAppend, ZenonT(30) DEF ChatAt
<1>3. RelayAt(Append(out, e)) = Relay!Hear(RelayAt(out), e)
  BY RelayFoldAppend DEF RelayAt
<1> QED BY <1>1, <1>2, <1>3

\* The surfaces hear a translator tell one event more.
LEMMA RetellOne ==
  ASSUME NEW out, NEW o, NEW n, Retelling(out, o, n), NEW e \in TurnEvent, Strict(o, n, e),
         NEW more, more = Append(out, e)
  PROVE  Retelling(more, After(o, e), Count(n, e))
<1>1. PICK m, c, r : m = MessagesAt(out) /\ c = ChatAt(out) /\ r = RelayAt(out)
  OBVIOUS
<1>2. /\ out \in Seq(TurnEvent) /\ n \in Nat /\ MessagesInv(m) /\ ~m.finished /\ Shows(m, o)
      /\ ChatInv(c) /\ RelayInv(r, o, n)
  BY <1>1 DEF Retelling, Together
<1>3. /\ MessagesAt(more) = Messages!Hear(m, e)
      /\ ChatAt(more) = Chat!Hear(c, e)
      /\ RelayAt(more) = Relay!Hear(r, e)
  BY <1>1, <1>2, RetellAppend
<1>4. Legal(o, e) /\ e.type \notin Finals /\ (e.type = "closed" => e = Closed)
  BY DEF Strict, Legal
<1>5. /\ MessagesInv(MessagesAt(more)) /\ ~MessagesAt(more).finished
      /\ Shows(MessagesAt(more), After(o, e))
  BY <1>2, <1>3, <1>4, MessagesHear
<1>6. ChatInv(ChatAt(more))
  BY <1>2, <1>3, <1>4, ChatHear
<1>7. RelayInv(RelayAt(more), After(o, e), Count(n, e))
  BY <1>2, <1>3, RelayHear
<1>8. more \in Seq(TurnEvent) /\ Count(n, e) \in Nat
  BY <1>2 DEF Count
<1> QED BY <1>5, <1>6, <1>7, <1>8 DEF Retelling, Together

\* And how the turn ended.
LEMMA RetellEnd ==
  ASSUME NEW out, NEW o, NEW n, Retelling(out, o, n), NEW e \in TurnEvent, e.type \in Terminal,
         NEW more, more = Append(Append(out, e), Closed)
  PROVE  Retells(more, e.type = "failed")
<1>1. PICK m, c, r : m = MessagesAt(out) /\ c = ChatAt(out) /\ r = RelayAt(out)
  OBVIOUS
<1>2. /\ out \in Seq(TurnEvent) /\ n \in Nat /\ MessagesInv(m) /\ ~m.finished /\ Shows(m, o)
      /\ ChatInv(c) /\ RelayInv(r, o, n)
  BY <1>1 DEF Retelling, Together
<1>3. Append(out, e) \in Seq(TurnEvent)
  BY <1>2
<1>4. /\ MessagesAt(more) = Messages!Hear(Messages!Hear(m, e), Closed)
      /\ ChatAt(more) = Chat!Hear(Chat!Hear(c, e), Closed)
      /\ RelayAt(more) = Relay!Hear(Relay!Hear(r, e), Closed)
  BY <1>1, <1>2, <1>3, RetellAppend
<1>5. Legal(o, e) /\ e.type \in Finals /\ (e.type \in Refusals <=> e.type = "failed")
  BY DEF Legal, Finals, Terminal, Refusals
<1>6. MessagesEnded(Messages!Hear(m, e), e)
  BY <1>2, <1>5, MessagesHear
<1>7. MessagesAt(more) = Messages!Hear(m, e)
  BY <1>4, <1>6, MessagesDeaf DEF MessagesEnded
<1>8. ChatEnded(Chat!Hear(c, e))
  BY <1>2, <1>5, ChatHear DEF Legal
<1>9. ChatAt(more) = Chat!Hear(c, e)
  BY <1>4, <1>8, ChatDeaf DEF ChatEnded
<1>10. RelayEnded(RelayAt(more), e.type = "failed")
  <2>1. \A u : u = Relay!Hear(Relay!Hear(r, e), Closed) => RelayEnded(u, e.type = "failed")
    BY <1>2, RelayEnds
  <2> QED BY <1>4, <2>1
<1> QED BY <1>5, <1>6, <1>7, <1>8, <1>9, <1>10 DEF Retells, Over, MessagesEnded

\* Or that the provider broke off.
LEMMA RetellBroken ==
  ASSUME NEW out, NEW o, NEW n, Retelling(out, o, n), NEW more, more = Append(out, Event("broken"))
  PROVE  Retells(more, TRUE)
<1> DEFINE e == Event("broken")
<1>1. PICK m, c, r : m = MessagesAt(out) /\ c = ChatAt(out) /\ r = RelayAt(out)
  OBVIOUS
<1>2. /\ out \in Seq(TurnEvent) /\ n \in Nat /\ MessagesInv(m) /\ ~m.finished /\ Shows(m, o)
      /\ ChatInv(c) /\ RelayInv(r, o, n)
  BY <1>1 DEF Retelling, Together
<1>3. e \in TurnEvent /\ e.type = "broken"
  <2>1. "broken" \in EventTypes
    BY DEF EventTypes, Finals, Refusals
  <2> QED BY <2>1, EventIs
<1>4. /\ MessagesAt(more) = Messages!Hear(m, e)
      /\ ChatAt(more) = Chat!Hear(c, e)
      /\ RelayAt(more) = Relay!Hear(r, e)
  BY <1>1, <1>2, RetellAppend
<1>5. RelayEnded(RelayAt(more), TRUE)
  BY <1>2, <1>4, RelayBreaks
<1> HIDE DEF e
<1>6. Legal(o, e) /\ e.type \in Finals /\ e.type \in Refusals
  BY <1>3 DEF Legal, Finals, Refusals
<1>7. MessagesEnded(MessagesAt(more), e)
  BY <1>2, <1>3, <1>4, <1>6, MessagesHear
<1>8. ChatEnded(ChatAt(more))
  BY <1>2, <1>3, <1>4, <1>6, ChatHear DEF Legal
<1> QED BY <1>5, <1>6, <1>7, <1>8 DEF Retells, Over, MessagesEnded

-----------------------------------------------------------------------------
(* What the two translators tell, one item at a time.                      *)

OpenItem == [kind : {"none", "message", "reasoning"}, index : Nat, text : Pieced]
OpenOf(open) == IF open.kind = "none" THEN {} ELSE {<<open.index, open.kind>>}
Telling(out, open, n) ==
  /\ open \in OpenItem /\ (open.kind # "none" => open.index < n)
  /\ Retelling(out, OpenOf(open), n)

LEMMA AddedIs ==
  ASSUME NEW i \in Nat, NEW kind \in Kinds, NEW id \in Nat, NEW e, e = AddedEvent(i, kind, id)
  PROVE  e \in TurnEvent /\ e.type = "item_added" /\ e.index = i /\ e.kind = kind
<1>1. "item_added" \in EventTypes
  BY DEF EventTypes
<1>2. PICK x : x = Event("item_added")
  OBVIOUS
<1>3. x \in TurnEvent /\ x.type = "item_added"
  BY <1>1, <1>2, EventIs
<1>4. e = [x EXCEPT !.index = i, !.kind = kind, !.id = id]
  BY <1>2, Zenon DEF AddedEvent
<1> QED BY <1>3, <1>4 DEF TurnEvent

LEMMA DeltaIs ==
  ASSUME NEW type \in EventTypes, NEW i \in Nat, NEW data \in Pieced,
         NEW e, e = DeltaEvent(type, i, data)
  PROVE  e \in TurnEvent /\ e.type = type /\ e.index = i /\ e.data = data
<1>2. PICK x : x = Event(type)
  OBVIOUS
<1>3. x \in TurnEvent /\ x.type = type
  BY <1>2, EventIs
<1>4. e = [x EXCEPT !.index = i, !.data = data]
  BY <1>2, Zenon DEF DeltaEvent
<1> QED BY <1>3, <1>4 DEF TurnEvent

LEMMA DoneIs ==
  ASSUME NEW i \in Nat, NEW kind \in Kinds, NEW id \in Nat, NEW data \in Pieced,
         NEW signature \in Nat, NEW e, e = DoneEvent(i, kind, id, data, signature)
  PROVE  e \in TurnEvent /\ e.type = "item_done" /\ e.index = i /\ e.kind = kind
<1>1. "item_done" \in EventTypes
  BY DEF EventTypes
<1> QED BY <1>1 DEF DoneEvent, TurnEvent

LEMMA RetellNext ==
  ASSUME NEW out, NEW o, NEW n, Retelling(out, o, n), NEW e \in TurnEvent, Strict(o, n, e),
         NEW after, after = After(o, e), NEW count, count = Count(n, e)
  PROVE  Retelling(Append(out, e), after, count)
BY RetellOne

LEMMA RetellMore ==
  ASSUME NEW out, NEW o, NEW n, Retelling(out, o, n), NEW e \in TurnEvent, Strict(o, n, e),
         NEW after, after = After(o, e), NEW count, count = Count(n, e)
  PROVE  Retelling(out \o <<e>>, after, count)
<1>1. out \in Seq(TurnEvent)
  BY DEF Retelling
<1>2. out \o <<e>> = Append(out, e)
  BY <1>1
<1> QED BY <1>2, RetellOne

LEMMA TellSign ==
  ASSUME NEW out, NEW open, NEW n, Telling(out, open, n)
  PROVE  Telling(out \o <<Created>>, open, n)
<1> DEFINE o == OpenOf(open)
<1>1. "created" \in EventTypes /\ "created" \notin Finals
  BY DEF EventTypes, Finals, Terminal, Refusals
<1>2. Created \in TurnEvent /\ Created.type = "created"
  BY <1>1, EventIs DEF Created
<1>3. Strict(o, n, Created) /\ After(o, Created) = o /\ Count(n, Created) = n
  BY <1>1, <1>2 DEF Strict, Legal, After, Count
<1>4. Retelling(out \o <<Created>>, o, n)
  BY <1>2, <1>3, RetellMore DEF Telling
<1> QED BY <1>4 DEF Telling

\* An item begins.
LEMMA TellNew ==
  ASSUME NEW out, NEW open, NEW n, Telling(out, open, n), open.kind = "none",
         NEW kind \in {"message", "reasoning"}, NEW e, e = AddedEvent(n, kind, 0),
         NEW next, next = [kind |-> kind, index |-> n, text |-> <<>>]
  PROVE  Telling(out \o <<e>>, next, n + 1)
<1>1. n \in Nat /\ kind \in Kinds /\ Retelling(out, {}, n)
  BY DEF Telling, Retelling, OpenOf, Kinds
<1>2. e \in TurnEvent /\ e.type = "item_added" /\ e.index = n /\ e.kind = kind
  BY <1>1, AddedIs
<1>3. e.type \notin Finals
  BY <1>2 DEF Finals, Terminal, Refusals
<1>4. Strict({}, n, e) /\ After({}, e) = {<<n, kind>>} /\ Count(n, e) = n + 1
  BY <1>1, <1>2, <1>3 DEF Strict, Legal, After, Count
<1>5. Retelling(out \o <<e>>, {<<n, kind>>}, n + 1)
  BY <1>1, <1>2, <1>4, RetellMore
<1>6. next \in OpenItem /\ next.kind = kind /\ next.index = n /\ next.index < n + 1
  BY <1>1 DEF OpenItem, Pieced
<1> QED BY <1>5, <1>6 DEF Telling, OpenOf

\* It grows.
LEMMA TellDelta ==
  ASSUME NEW out, NEW open, NEW n, Telling(out, open, n), NEW type, NEW data \in Pieced,
         \/ type = "text_delta" /\ open.kind = "message"
         \/ type = "thought_delta" /\ open.kind = "reasoning",
         NEW e, e = DeltaEvent(type, open.index, data),
         NEW next, next \in OpenItem, next.kind = open.kind, next.index = open.index
  PROVE  Telling(out \o <<e>>, next, n)
<1> DEFINE p == <<open.index, open.kind>>
           o == {p}
<1>1. /\ n \in Nat /\ open.index \in Nat /\ open.kind # "none" /\ Retelling(out, o, n)
  BY DEF Telling, Retelling, OpenItem, OpenOf
<1>2. type \in EventTypes /\ type \notin Finals
  BY DEF EventTypes, Finals, Terminal, Refusals
<1>3. e \in TurnEvent /\ e.type = type /\ e.index = open.index
  BY <1>1, <1>2, DeltaIs
<1>4. p[1] = open.index /\ p[2] = open.kind
  OBVIOUS
<1>5. Strict(o, n, e) /\ Count(n, e) = n
  BY <1>2, <1>3, <1>4 DEF Strict, Legal, Count
<1>6. After(o, e) = o
  <2>1. CASE type = "text_delta"
    <3>1. After(o, e) = o \union {<<e.index, "message">>} /\ open.kind = "message"
      BY <1>3, <2>1 DEF After
    <3> QED BY <1>3, <3>1
  <2>2. CASE type = "thought_delta"
    BY <1>3, <2>2 DEF After
  <2> QED BY <2>1, <2>2
<1>7. Retelling(out \o <<e>>, o, n)
  BY <1>1, <1>3, <1>5, <1>6, RetellMore
<1> QED BY <1>1, <1>7 DEF Telling, OpenOf

\* It is done.
LEMMA TellDone ==
  ASSUME NEW out, NEW open, NEW n, Telling(out, open, n), open.kind # "none",
         NEW data \in Pieced, NEW signature \in Nat,
         NEW e, e = DoneEvent(open.index, open.kind, 0, data, signature),
         NEW next \in OpenItem, next.kind = "none"
  PROVE  Telling(out \o <<e>>, next, n)
<1> DEFINE p == <<open.index, open.kind>>
           o == {p}
<1>1. /\ n \in Nat /\ open.index \in Nat /\ open.kind \in Kinds /\ Retelling(out, o, n)
  BY DEF Telling, Retelling, OpenItem, OpenOf, Kinds
<1>2. e \in TurnEvent /\ e.type = "item_done" /\ e.index = open.index
  BY <1>1, DoneIs
<1>3. e.type \notin Finals
  BY <1>2 DEF Finals, Terminal, Refusals
<1>4. p[1] = open.index
  OBVIOUS
<1>5. Strict(o, n, e) /\ Count(n, e) = n /\ After(o, e) = {}
  BY <1>2, <1>3, <1>4 DEF Strict, Legal, Count, After
<1>6. Retelling(out \o <<e>>, {}, n)
  BY <1>1, <1>2, <1>5, RetellMore
<1> QED BY <1>6 DEF Telling, OpenOf

LEMMA TellTextDone ==
  ASSUME NEW out, NEW open, NEW n, Telling(out, open, n), open.kind = "message",
         NEW data \in Pieced, NEW e, e = DeltaEvent("text_done", open.index, data)
  PROVE  Telling(out \o <<e>>, open, n)
<1> DEFINE o == OpenOf(open)
<1>1. n \in Nat /\ open.index \in Nat
  BY DEF Telling, Retelling, OpenItem
<1>2. "text_done" \in EventTypes /\ "text_done" \notin Finals
  BY DEF EventTypes, Finals, Terminal, Refusals
<1>3. e \in TurnEvent /\ e.type = "text_done"
  BY <1>1, <1>2, DeltaIs
<1>4. Strict(o, n, e) /\ Count(n, e) = n /\ After(o, e) = o
  BY <1>2, <1>3 DEF Strict, Legal, Count, After
<1>5. Retelling(out \o <<e>>, o, n)
  BY <1>3, <1>4, RetellMore DEF Telling
<1> QED BY <1>5 DEF Telling

LEMMA Concat2 ==
  ASSUME NEW S, NEW out \in Seq(S), NEW a \in S, NEW b \in S
  PROVE  out \o <<a, b>> = (out \o <<a>>) \o <<b>>
<1>1. /\ <<a>> \in Seq(S) /\ <<b>> \in Seq(S)
      /\ <<a, b>> = <<a>> \o <<b>>
  <2>1. <<a>> \in Seq(S)
    OBVIOUS
  <2>2. <<b>> \in Seq(S)
    OBVIOUS
  <2>3. <<a, b>> = Append(<<a>>, b)
    OBVIOUS
  <2>4. Append(<<a>>, b) = <<a>> \o <<b>>
    BY <2>1, AppendIsConcat
  <2> QED BY <2>1, <2>2, <2>3, <2>4
<1>2. (out \o <<a>>) \o <<b>> = out \o (<<a>> \o <<b>>)
  BY <1>1, ConcatAssociative
<1> QED BY <1>1, <1>2

LEMMA TwoIs ==
  ASSUME NEW S, NEW x \in S, NEW y \in S
  PROVE  <<x>> \o <<y>> = <<x, y>>
<1>1. <<x>> \in Seq(S)
  OBVIOUS
<1>2. <<x, y>> = Append(<<x>>, y)
  OBVIOUS
<1>3. Append(<<x>>, y) = <<x>> \o <<y>>
  BY <1>1, AppendIsConcat
<1> QED BY <1>2, <1>3

LEMMA ConcatOne ==
  ASSUME NEW x
  PROVE  <<>> \o <<x>> = <<x>> /\ \A y : <<x>> \o <<y>> = <<x, y>>
<1>1. <<>> \o <<x>> = <<x>>
  OBVIOUS
<1>2. ASSUME NEW y PROVE <<x>> \o <<y>> = <<x, y>>
  <2>1. x \in {x, y} /\ y \in {x, y}
    OBVIOUS
  <2> QED BY <2>1, TwoIs
<1> QED BY <1>1, <1>2

LEMMA Concat4 ==
  ASSUME NEW S, NEW out \in Seq(S), NEW a \in S, NEW b \in S, NEW c \in S, NEW d \in S,
         NEW more, more = <<a, b, c, d>>
  PROVE  out \o more = Append(Append(Append(Append(out, a), b), c), d)
OBVIOUS

CallTelling(i, id, data) ==
  <<AddedEvent(i, "function_call", id), DeltaEvent("arguments_delta", i, data),
    DeltaEvent("arguments_done", i, data), DoneEvent(i, "function_call", id, data, 0)>>

\* A call is told as a whole: added, its arguments, done.
LEMMA TellCalled ==
  ASSUME NEW out, NEW open, NEW n, Telling(out, open, n), open.kind = "none",
         NEW id \in Nat, NEW data \in Pieced
  PROVE  /\ Telling(out \o CallTelling(n, id, data), open, n + 1)
         /\ CallTelling(n, id, data) \in Seq(TurnEvent)
<1>1. n \in Nat /\ out \in Seq(TurnEvent) /\ Retelling(out, {}, n)
  BY DEF Telling, Retelling, OpenOf
<1>2. PICK a, b, c, d : /\ a = AddedEvent(n, "function_call", id)
                        /\ b = DeltaEvent("arguments_delta", n, data)
                        /\ c = DeltaEvent("arguments_done", n, data)
                        /\ d = DoneEvent(n, "function_call", id, data, 0)
  OBVIOUS
<1>3. a \in TurnEvent /\ a.type = "item_added" /\ a.index = n /\ a.kind = "function_call"
  <2>1. "function_call" \in Kinds
    BY DEF Kinds
  <2> QED BY <1>1, <1>2, <2>1, AddedIs
<1>4. /\ b \in TurnEvent /\ b.type = "arguments_delta"
      /\ c \in TurnEvent /\ c.type = "arguments_done"
  <2>1. "arguments_delta" \in EventTypes /\ "arguments_done" \in EventTypes
    BY DEF EventTypes
  <2> QED BY <1>1, <1>2, <2>1, DeltaIs
<1>5. d \in TurnEvent /\ d.type = "item_done" /\ d.index = n
  <2>1. "function_call" \in Kinds /\ 0 \in Nat
    BY DEF Kinds
  <2> QED BY <1>1, <1>2, <2>1, DoneIs
<1> DEFINE p == <<n, "function_call">>
           o == {p}
<1>6. Retelling(Append(out, a), o, n + 1)
  <2>1. a.type \notin Finals
    BY <1>3 DEF Finals, Terminal, Refusals
  <2>2. Strict({}, n, a) /\ After({}, a) = o /\ Count(n, a) = n + 1
    BY <1>3, <2>1 DEF Strict, Legal, After, Count, Kinds
  <2> QED BY <1>1, <1>3, <2>2, RetellNext
<1>7. \A e \in {b, c} : Strict(o, n + 1, e) /\ After(o, e) = o /\ Count(n + 1, e) = n + 1
  <2>1. b.type \notin Finals /\ c.type \notin Finals
    BY <1>4 DEF Finals, Terminal, Refusals
  <2> QED BY <1>4, <2>1 DEF Strict, Legal, After, Count
<1>8. Strict(o, n + 1, d) /\ After(o, d) = {} /\ Count(n + 1, d) = n + 1
  <2>1. d.type \notin Finals
    BY <1>5 DEF Finals, Terminal, Refusals
  <2>2. p[1] = n
    OBVIOUS
  <2> QED BY <1>5, <2>1, <2>2 DEF Strict, Legal, After, Count
<1> HIDE DEF o
<1>9. Retelling(Append(Append(out, a), b), o, n + 1)
  BY <1>4, <1>6, <1>7, RetellNext
<1>10. Retelling(Append(Append(Append(out, a), b), c), o, n + 1)
  BY <1>4, <1>7, <1>9, RetellNext
<1>11. Retelling(Append(Append(Append(Append(out, a), b), c), d), {}, n + 1)
  BY <1>5, <1>8, <1>10, RetellNext
<1>12. PICK more : more = <<a, b, c, d>>
  OBVIOUS
<1>13. CallTelling(n, id, data) = more /\ more \in Seq(TurnEvent)
  <2>1. CallTelling(n, id, data) = more
    BY <1>2, <1>12 DEF CallTelling
  <2>2. <<a, b, c, d>> \in Seq(TurnEvent)
    BY <1>3, <1>4, <1>5
  <2> QED BY <1>12, <2>1, <2>2
<1>14. out \o more = Append(Append(Append(Append(out, a), b), c), d)
  BY <1>1, <1>3, <1>4, <1>5, <1>12, Concat4
<1>15. open \in OpenItem /\ OpenOf(open) = {}
  BY DEF Telling, OpenOf
<1>16. Retelling(out \o CallTelling(n, id, data), OpenOf(open), n + 1)
  BY <1>11, <1>13, <1>14, <1>15
<1> QED BY <1>13, <1>15, <1>16 DEF Telling

-----------------------------------------------------------------------------
(* ApiTurn.                                                                *)

CallMap == UNION {[D -> Pieced] : D \in SUBSET Nat}
ApiWires == {"chat", "messages", "responses"}
ApiReasons == {"none", "stop", "length", "max_tokens", "content_filter", "refusal"}
ApiT ==
  [wire : ApiWires, started : BOOLEAN, next_index : Nat, open : OpenItem, finished : BOOLEAN,
   calls : CallMap, told : SUBSET Nat, reason : ApiReasons, produced : BOOLEAN,
   stopped : BOOLEAN, refused : BOOLEAN, out : Seq(TurnEvent)]

ApiInv(t) ==
  /\ t \in ApiT /\ ~t.finished /\ ~t.refused /\ IsFiniteSet(DOMAIN t.calls)
  /\ Telling(t.out, t.open, t.next_index)

\* What a translator has told when it has told how the turn ended.
Finished(out, type) ==
  \E before, o, n : \E e \in TurnEvent :
    /\ Retelling(before, o, n) /\ e.type = type /\ type \in Terminal /\ out = Append(before, e)
ApiDone(t) == t \in ApiT /\ t.finished /\ ~t.refused /\ \E type : Finished(t.out, type)

\* Nothing but what is told has changed.
Keeps(u, t) == u.calls = t.calls /\ u.wire = t.wire

LEMMA ApiEvents ==
  /\ Api!Created = Created /\ Api!Nothing \in OpenItem /\ Api!Nothing.kind = "none"
  /\ \A type : Api!Event(type) = Event(type)
  /\ \A i, kind, id : Api!AddedEvent(i, kind, id) = AddedEvent(i, kind, id)
  /\ \A type, i, data : Api!DeltaEvent(type, i, data) = DeltaEvent(type, i, data)
  /\ \A i, kind, id, data, signature :
       Api!DoneEvent(i, kind, id, data, signature) = DoneEvent(i, kind, id, data, signature)
  /\ \A i, id, data : Api!CallEvents(i, id, data) = CallTelling(i, id, data)
<1>1. \A type : Api!Event(type) = Event(type)
  BY DEF Api!Event, Event
<1>2. Api!Created = Created
  BY <1>1 DEF Api!Created, Created
<1>3. Api!Nothing \in OpenItem /\ Api!Nothing.kind = "none"
  BY DEF Api!Nothing, OpenItem, Pieced
<1>4. \A i, kind, id : Api!AddedEvent(i, kind, id) = AddedEvent(i, kind, id)
  BY <1>1, Zenon DEF Api!AddedEvent, AddedEvent
<1>5. \A type, i, data : Api!DeltaEvent(type, i, data) = DeltaEvent(type, i, data)
  BY <1>1, Zenon DEF Api!DeltaEvent, DeltaEvent
<1>6. \A i, kind, id, data, signature :
        Api!DoneEvent(i, kind, id, data, signature) = DoneEvent(i, kind, id, data, signature)
  BY Zenon DEF Api!DoneEvent, DoneEvent
<1>7. \A i, id, data : Api!CallEvents(i, id, data) = CallTelling(i, id, data)
  BY <1>4, <1>5, <1>6, Zenon DEF Api!CallEvents, CallTelling
<1> QED BY <1>1, <1>2, <1>3, <1>4, <1>5, <1>6, <1>7

\* ApiTurn: the turn starts.
LEMMA ApiStartKeeps ==
  ASSUME NEW t, ApiInv(t), NEW u, u = Api!Start(t)
  PROVE  ApiInv(u) /\ u.open = t.open /\ Keeps(u, t)
<1>1. CASE t.started
  BY <1>1 DEF Api!Start, Keeps
<1>2. CASE ~t.started
  <2> DEFINE more == t.out \o <<Created>>
  <2>1. u = [t EXCEPT !.started = TRUE, !.out = more]
    BY <1>2, ApiEvents DEF Api!Start, Api!Emit, ApiInv, ApiT
  <2>2. Telling(more, t.open, t.next_index)
    BY TellSign DEF ApiInv
  <2> HIDE DEF more
  <2>3. more \in Seq(TurnEvent)
    BY <2>2 DEF Telling, Retelling
  <2> QED BY <2>1, <2>2, <2>3 DEF ApiInv, ApiT, Keeps
<1> QED BY <1>1, <1>2

\* What is told when the open item has gone.
LEMMA ApiEmitIs ==
  ASSUME NEW t \in ApiT, NEW open, NEW events
  PROVE  Api!Emit([t EXCEPT !.open = open], events) =
           [t EXCEPT !.open = open, !.out = t.out \o events]
<1>1. [t EXCEPT !.open = open].out = t.out
  BY DEF ApiT
<1> QED BY <1>1 DEF Api!Emit, ApiT

\* The open item is closed.
LEMMA ApiCloseKeeps ==
  ASSUME NEW t, ApiInv(t), NEW u, u = Api!CloseOpen(t)
  PROVE  ApiInv(u) /\ u.open.kind = "none" /\ Keeps(u, t)
<1> DEFINE o == t.open
<1>1. /\ t \in ApiT /\ o \in OpenItem /\ Telling(t.out, o, t.next_index) /\ t.out \in Seq(TurnEvent)
      /\ o.text \in Pieced /\ o.index \in Nat /\ 0 \in Nat
  BY DEF ApiInv, ApiT, OpenItem
<1>2. CASE o.kind = "none"
  BY <1>2 DEF Api!CloseOpen, Keeps
<1>3. ASSUME NEW more, Telling(more, Api!Nothing, t.next_index),
             u = [t EXCEPT !.open = Api!Nothing, !.out = more]
      PROVE  ApiInv(u) /\ u.open.kind = "none" /\ Keeps(u, t)
  <2>1. PICK nothing \in OpenItem : nothing = Api!Nothing /\ nothing.kind = "none"
    BY ApiEvents
  <2>2. more \in Seq(TurnEvent)
    BY <1>3 DEF Telling, Retelling
  <2>3. u = [t EXCEPT !.open = nothing, !.out = more]
    BY <1>3, <2>1
  <2>4. /\ u \in ApiT /\ u.open = nothing /\ u.out = more /\ u.next_index = t.next_index
        /\ u.calls = t.calls /\ u.wire = t.wire /\ u.finished = t.finished
        /\ u.refused = t.refused
    BY <1>1, <2>2, <2>3 DEF ApiT
  <2> QED BY <1>3, <2>1, <2>4 DEF ApiInv, Keeps
<1> DEFINE done == DoneEvent(o.index, o.kind, 0, o.text, 0)
           text == DeltaEvent("text_done", o.index, o.text)
<1>5. Api!Nothing \in OpenItem /\ Api!Nothing.kind = "none"
  BY ApiEvents
<1>6. CASE o.kind = "reasoning"
  <2>0. Api!DoneEvent(o.index, o.kind, 0, o.text, 0) = done
    BY ApiEvents, Zenon
  <2>1. u = [t EXCEPT !.open = Api!Nothing, !.out = t.out \o (<<>> \o <<done>>)]
    <3>1. o.kind # "none" /\ o.kind # "message"
      BY <1>6
    <3>2. u = Api!Emit([t EXCEPT !.open = Api!Nothing],
                       <<>> \o <<Api!DoneEvent(o.index, o.kind, 0, o.text, 0)>>)
      BY <3>1, Zenon DEF Api!CloseOpen
    <3> HIDE DEF done
    <3>3. u = Api!Emit([t EXCEPT !.open = Api!Nothing], <<>> \o <<done>>)
      BY <2>0, <3>2
    <3> QED BY <1>1, <3>3, ApiEmitIs, Zenon
  <2>2. Telling(t.out \o <<done>>, Api!Nothing, t.next_index)
    BY <1>1, <1>5, <1>6, TellDone
  <2> HIDE DEF done
  <2>3. <<>> \o <<done>> = <<done>>
    BY ConcatOne
  <2> QED BY <1>3, <2>1, <2>2, <2>3
<1>7. CASE o.kind = "message"
  <2>0. /\ Api!DoneEvent(o.index, o.kind, 0, o.text, 0) = done
        /\ Api!DeltaEvent("text_done", o.index, o.text) = text
    BY ApiEvents, Zenon
  <2>1. u = [t EXCEPT !.open = Api!Nothing, !.out = t.out \o (<<text>> \o <<done>>)]
    <3>1. o.kind # "none" /\ o.kind = "message"
      BY <1>7
    <3>2. u = Api!Emit([t EXCEPT !.open = Api!Nothing],
                       <<Api!DeltaEvent("text_done", o.index, o.text)>>
                         \o <<Api!DoneEvent(o.index, o.kind, 0, o.text, 0)>>)
      BY <3>1, Zenon DEF Api!CloseOpen
    <3> HIDE DEF text, done
    <3>3. u = Api!Emit([t EXCEPT !.open = Api!Nothing], <<text>> \o <<done>>)
      BY <2>0, <3>2
    <3> QED BY <1>1, <3>3, ApiEmitIs, Zenon
  <2>2. Telling(t.out \o <<text>>, o, t.next_index)
    BY <1>1, <1>7, TellTextDone
  <2>3. Telling((t.out \o <<text>>) \o <<done>>, Api!Nothing, t.next_index)
    BY <1>1, <1>5, <1>7, <2>2, TellDone
  <2>4. text \in TurnEvent /\ done \in TurnEvent
    <3>1. "text_done" \in EventTypes /\ o.kind \in Kinds
      BY <1>7 DEF EventTypes, Kinds
    <3> QED BY <1>1, <3>1, DeltaIs, DoneIs
  <2> HIDE DEF text, done
  <2>5. <<text>> \o <<done>> = <<text, done>>
    BY ConcatOne
  <2>6. t.out \o <<text, done>> = (t.out \o <<text>>) \o <<done>>
    <3>1. t.out \in Seq(TurnEvent)
      BY <1>1
    <3> QED BY <2>4, <3>1, Concat2, SMTT(20)
  <2> QED BY <1>3, <2>1, <2>3, <2>5, <2>6
<1> QED BY <1>1, <1>2, <1>6, <1>7 DEF OpenItem

\* An item is opened.
LEMMA ApiOpenKeeps ==
  ASSUME NEW t, ApiInv(t), t.open.kind = "none", NEW kind \in {"message", "reasoning"},
         NEW u, u = Api!OpenNew(t, kind)
  PROVE  ApiInv(u) /\ u.open.kind = kind /\ Keeps(u, t)
<1> DEFINE n == t.next_index
           e == AddedEvent(n, kind, 0)
           next == [kind |-> kind, index |-> n, text |-> <<>>]
           more == t.out \o <<e>>
<1>1. t \in ApiT /\ n \in Nat
  BY DEF ApiInv, ApiT
<1>2. u = [t EXCEPT !.open = next, !.next_index = n + 1, !.out = more]
  BY <1>1, ApiEvents DEF Api!OpenNew, Api!Emit, ApiT
<1>3. Telling(more, next, n + 1)
  BY TellNew DEF ApiInv
<1>4. next.kind = kind
  OBVIOUS
<1> HIDE DEF e, next, more
<1>5. more \in Seq(TurnEvent) /\ next \in OpenItem
  BY <1>3 DEF Telling, Retelling
<1>6. PICK count \in Nat : count = n + 1
  BY <1>1
<1>7. u = [t EXCEPT !.open = next, !.next_index = count, !.out = more]
  BY <1>2, <1>6
<1>8. /\ u \in ApiT /\ u.open = next /\ u.out = more /\ u.next_index = count
      /\ u.calls = t.calls /\ u.wire = t.wire /\ u.finished = t.finished /\ u.refused = t.refused
  BY <1>1, <1>5, <1>7, ZenonT(30) DEF ApiT
<1> QED BY <1>3, <1>4, <1>6, <1>8 DEF ApiInv, Keeps

\* Text or a thought.
LEMMA ApiSpeakKeeps ==
  ASSUME NEW t, ApiInv(t), NEW data \in Pieced, NEW kind, NEW type,
         \/ kind = "message" /\ type = "text_delta"
         \/ kind = "reasoning" /\ type = "thought_delta",
         NEW u, u = Api!Speak(t, kind, type, data)
  PROVE  ApiInv(u) /\ Keeps(u, t)
<1>1. CASE data = <<>>
  BY <1>1 DEF Api!Speak, Keeps
<1>2. CASE data # <<>>
  <2>1. PICK begun : begun = Api!Start(t)
    OBVIOUS
  <2>2. PICK closed : closed = Api!CloseOpen(begun)
    OBVIOUS
  <2>3. PICK x : x = IF begun.open.kind = kind THEN begun ELSE Api!OpenNew(closed, kind)
    OBVIOUS
  <2>4. ApiInv(x) /\ x.open.kind = kind /\ Keeps(x, t)
    <3>1. ApiInv(begun) /\ Keeps(begun, t)
      BY <2>1, ApiStartKeeps
    <3>2. ApiInv(closed) /\ closed.open.kind = "none" /\ Keeps(closed, begun)
      BY <2>2, <3>1, ApiCloseKeeps
    <3>3. \A y : y = Api!OpenNew(closed, kind) => ApiInv(y) /\ y.open.kind = kind /\ Keeps(y, closed)
      BY <3>2, ApiOpenKeeps
    <3> QED BY <2>3, <3>1, <3>2, <3>3 DEF Keeps
  <2> DEFINE e == DeltaEvent(type, x.open.index, data)
             text == x.open.text \o data
             next == [x.open EXCEPT !.text = text]
             more == x.out \o <<e>>
  <2>5. x \in ApiT /\ x.open \in OpenItem /\ x.open.text \in Pieced
    BY <2>4 DEF ApiInv, ApiT, OpenItem
  <2>6. u = [x EXCEPT !.open.text = text, !.out = more]
    <3>1. u = Api!Emit([x EXCEPT !.open.text = @ \o data],
                       <<Api!DeltaEvent(type, x.open.index, data)>>)
      BY <1>2, <2>1, <2>2, <2>3 DEF Api!Speak
    <3> QED BY <2>5, <3>1, ApiEvents DEF Api!Emit, ApiT
  <2>7. u = [x EXCEPT !.open = next, !.out = more]
    BY <2>5, <2>6 DEF ApiT
  <2>8. text \in Pieced
    BY <2>5, PiecedIs
  <2> HIDE DEF text
  <2>9. next \in OpenItem /\ next.kind = kind /\ next.index = x.open.index
    BY <2>4, <2>5, <2>8 DEF OpenItem
  <2> HIDE DEF next
  <2>10. Telling(more, next, x.next_index)
    BY <2>4, <2>9, TellDelta DEF ApiInv
  <2> HIDE DEF more
  <2>11. more \in Seq(TurnEvent)
    BY <2>10 DEF Telling, Retelling
  <2>12. /\ u \in ApiT /\ u.open = next /\ u.out = more /\ u.next_index = x.next_index
         /\ u.calls = x.calls /\ u.wire = x.wire /\ u.finished = x.finished
         /\ u.refused = x.refused
    BY <2>5, <2>7, <2>9, <2>11 DEF ApiT
  <2> QED BY <2>4, <2>10, <2>12 DEF ApiInv, Keeps
<1> QED BY <1>1, <1>2

\* A call is told.
LEMMA ApiTellCallKeeps ==
  ASSUME NEW t, ApiInv(t), NEW id \in Nat, NEW arguments \in Pieced,
         NEW u, u = Api!TellCall(t, id, arguments)
  PROVE  ApiInv(u) /\ Keeps(u, t)
<1>1. PICK begun : begun = Api!Start(t)
  OBVIOUS
<1>2. PICK closed : closed = Api!CloseOpen(begun)
  OBVIOUS
<1>3. ApiInv(closed) /\ closed.open.kind = "none" /\ Keeps(closed, t)
  <2>1. ApiInv(begun) /\ Keeps(begun, t)
    BY <1>1, ApiStartKeeps
  <2>2. ApiInv(closed) /\ closed.open.kind = "none" /\ Keeps(closed, begun)
    BY <1>2, <2>1, ApiCloseKeeps
  <2> QED BY <2>1, <2>2 DEF Keeps
<1>4. PICK data \in Pieced : data = IF arguments = <<>> THEN Api!EmptyObject ELSE arguments
  <2>1. Api!EmptyObject \in Pieced
    <3>1. "{}" \in {"x", "[", "]", "{}"}
      OBVIOUS
    <3>2. <<"{}">> \in Seq({"x", "[", "]", "{}"})
      BY <3>1
    <3> QED BY <3>2, Zenon DEF Api!EmptyObject, Pieced
  <2> QED BY <2>1
<1> DEFINE n == closed.next_index
           more == closed.out \o CallTelling(n, id, data)
<1>5. closed \in ApiT /\ n \in Nat
  BY <1>3 DEF ApiInv, ApiT
<1>6. PICK count \in Nat : count = n + 1
  BY <1>5
<1>7. u = [closed EXCEPT !.next_index = count, !.out = more]
  <2>1. u = Api!Emit([closed EXCEPT !.next_index = @ + 1], Api!CallEvents(n, id, data))
    BY <1>1, <1>2, <1>4 DEF Api!TellCall
  <2> QED BY <1>5, <1>6, <2>1, ApiEvents DEF Api!Emit, ApiT
<1>8. Telling(more, closed.open, count)
  BY <1>3, <1>6, TellCalled DEF ApiInv
<1> HIDE DEF more
<1>9. more \in Seq(TurnEvent)
  BY <1>8 DEF Telling, Retelling
<1>10. /\ u \in ApiT /\ u.open = closed.open /\ u.out = more /\ u.next_index = count
       /\ u.calls = closed.calls /\ u.wire = closed.wire /\ u.finished = closed.finished
       /\ u.refused = closed.refused
  BY <1>5, <1>7, <1>9 DEF ApiT
<1> QED BY <1>3, <1>8, <1>10 DEF ApiInv, Keeps

\* The end is told once.
LEMMA ApiFinishes ==
  ASSUME NEW t, ApiInv(t), NEW type \in Terminal, NEW u, u = Api!Finish(t, type)
  PROVE  ApiDone(u)
<1>1. PICK begun : begun = Api!Start(t)
  OBVIOUS
<1>2. PICK closed : closed = Api!CloseOpen(begun)
  OBVIOUS
<1>3. ApiInv(closed)
  BY <1>1, <1>2, ApiStartKeeps, ApiCloseKeeps
<1> DEFINE e == Event(type)
           more == Append(closed.out, e)
<1>4. e \in TurnEvent /\ e.type = type
  <2>1. type \in EventTypes
    BY DEF EventTypes, Finals
  <2> QED BY <2>1, EventIs
<1>5. closed \in ApiT /\ closed.out \in Seq(TurnEvent) /\ ~t.finished
  BY <1>3 DEF ApiInv, ApiT
<1>6. u = [closed EXCEPT !.finished = TRUE, !.out = more]
  <2>1. u = Api!Emit([closed EXCEPT !.finished = TRUE], <<Api!Event(type)>>)
    BY <1>1, <1>2, <1>5 DEF Api!Finish
  <2>2. Append(closed.out, e) = closed.out \o <<e>>
    BY <1>4, <1>5, AppendIsConcat
  <2> QED BY <1>5, <2>1, <2>2, ApiEvents DEF Api!Emit, ApiT
<1> HIDE DEF e
<1>7. Finished(more, type) /\ more \in Seq(TurnEvent)
  BY <1>3, <1>4, <1>5 DEF ApiInv, Telling, Finished
<1> HIDE DEF more
<1>8. u \in ApiT /\ u.finished /\ ~u.refused /\ u.out = more
  BY <1>3, <1>5, <1>6, <1>7 DEF ApiT, ApiInv
<1> QED BY <1>7, <1>8 DEF ApiDone

LEMMA CallMapIs ==
  ASSUME NEW b
  PROVE  b \in CallMap <=> /\ b = [i \in DOMAIN b |-> b[i]] /\ DOMAIN b \subseteq Nat
                           /\ \A i \in DOMAIN b : b[i] \in Pieced
<1>1. ASSUME b \in CallMap
      PROVE  /\ b = [i \in DOMAIN b |-> b[i]] /\ DOMAIN b \subseteq Nat
             /\ \A i \in DOMAIN b : b[i] \in Pieced
  <2>1. PICK D \in SUBSET Nat : b \in [D -> Pieced]
    BY <1>1 DEF CallMap
  <2> QED BY <2>1
<1>2. ASSUME b = [i \in DOMAIN b |-> b[i]], DOMAIN b \subseteq Nat,
             \A i \in DOMAIN b : b[i] \in Pieced
      PROVE  b \in CallMap
  <2>1. b \in [DOMAIN b -> Pieced]
    BY <1>2
  <2> QED BY <1>2, <2>1 DEF CallMap
<1> QED BY <1>1, <1>2

LEMMA CallPutIs ==
  ASSUME NEW b \in CallMap, NEW i \in Nat, NEW x \in Pieced, NEW u, u = Api!Put(b, i, x)
  PROVE  /\ u \in CallMap /\ DOMAIN u = DOMAIN b \union {i}
         /\ IsFiniteSet(DOMAIN b) => IsFiniteSet(DOMAIN u)
<1>1. u = [j \in DOMAIN b \union {i} |-> IF j = i THEN x ELSE b[j]]
  BY DEF Api!Put
<1>2. DOMAIN b \subseteq Nat /\ \A j \in DOMAIN b : b[j] \in Pieced
  BY CallMapIs
<1>3. DOMAIN u = DOMAIN b \union {i}
  BY <1>1
<1>4. u = [j \in DOMAIN u |-> u[j]] /\ DOMAIN u \subseteq Nat /\ \A j \in DOMAIN u : u[j] \in Pieced
  BY <1>1, <1>2
<1>5. IsFiniteSet(DOMAIN b) => IsFiniteSet(DOMAIN u)
  BY <1>3, FS_AddElement
<1> QED BY <1>3, <1>4, <1>5, CallMapIs

\* What only the translator remembers.
LEMMA ApiSame ==
  ASSUME NEW t, ApiInv(t), NEW u \in ApiT, IsFiniteSet(DOMAIN u.calls),
         u.out = t.out, u.open = t.open, u.next_index = t.next_index,
         u.finished = t.finished, u.refused = t.refused
  PROVE  ApiInv(u)
BY DEF ApiInv

LEMMA ApiHolds ==
  ASSUME NEW t, ApiInv(t), NEW calls \in CallMap, IsFiniteSet(DOMAIN calls),
         NEW u, u = [t EXCEPT !.calls = calls]
  PROVE  ApiInv(u) /\ u.calls = calls /\ u.wire = t.wire
<1>1. t \in ApiT
  BY DEF ApiInv
<1>2. /\ u \in ApiT /\ u.calls = calls /\ u.wire = t.wire /\ u.out = t.out /\ u.open = t.open
      /\ u.next_index = t.next_index /\ u.finished = t.finished /\ u.refused = t.refused
  BY <1>1 DEF ApiT
<1> QED BY <1>2, ApiSame

\* Pieces of a call are held until it is whole.
LEMMA ApiHoldKeeps ==
  ASSUME NEW t, ApiInv(t), NEW i \in Nat, NEW data \in Pieced, NEW u, u = Api!Hold(t, i, data)
  PROVE  ApiInv(u) /\ u.wire = t.wire
<1>1. t \in ApiT /\ t.calls \in CallMap /\ IsFiniteSet(DOMAIN t.calls)
  BY DEF ApiInv, ApiT
<1> DEFINE held == Api!Held(t, i)
<1>2. held \in Pieced
  BY <1>1, CallMapIs, PiecedIs DEF Api!Held
<1> HIDE DEF held
<1>3. held \o data \in Pieced
  BY <1>2, PiecedIs
<1>4. PICK calls : calls = Api!Put(t.calls, i, held \o data)
  OBVIOUS
<1>5. calls \in CallMap /\ IsFiniteSet(DOMAIN calls)
  BY <1>1, <1>3, <1>4, CallPutIs
<1>6. u = [t EXCEPT !.calls = calls]
  BY <1>1, <1>4 DEF Api!Hold, held, ApiT
<1> QED BY <1>5, <1>6, ApiHolds

HeldFold == INSTANCE FoldFacts WITH Op <- Api!TellHeld
ItemFold == INSTANCE FoldFacts WITH Op <- Api!Item

LEMMA ApiInOrder ==
  ASSUME NEW S
  PROVE  Api!InOrder(S) = InOrder(S)
<1>1. Api!Cardinality(S) = Cardinality(S)
  BY Zenon DEF Cardinality, Api!Cardinality
<1> QED BY <1>1, Zenon DEF InOrder, Api!InOrder

\* What is held is told in the order of its index.
LEMMA ApiTellCallsKeeps ==
  ASSUME NEW t, ApiInv(t), NEW u, u = Api!TellCalls(t)
  PROVE  ApiInv(u) /\ u.wire = t.wire /\ u.calls = <<>>
<1> DEFINE Q == {x \in ApiT : ApiInv(x) /\ Keeps(x, t)}
           S == DOMAIN t.calls
<1>1. t \in ApiT /\ S \subseteq Nat /\ IsFiniteSet(S) /\ \A i \in S : t.calls[i] \in Pieced
  BY CallMapIs DEF ApiInv, ApiT
<1>2. PICK s \in Seq(S) : s = Api!InOrder(S)
  BY <1>1, ApiInOrder, InOrderIs
<1>3. t \in Q
  BY <1>1 DEF Keeps
<1>4. ASSUME NEW x \in Q, NEW i \in S PROVE Api!TellHeld(x, i) \in Q
  <2>1. ApiInv(x) /\ x.calls = t.calls /\ x.wire = t.wire /\ i \in Nat /\ t.calls[i] \in Pieced
    BY <1>1 DEF Keeps
  <2>2. PICK y : y = Api!TellCall(x, i, t.calls[i])
    OBVIOUS
  <2>3. ApiInv(y) /\ Keeps(y, x)
    BY <2>1, <2>2, ApiTellCallKeeps
  <2>4. y = Api!TellHeld(x, i)
    BY <2>1, <2>2 DEF Api!TellHeld
  <2>5. y \in Q
    BY <2>1, <2>3 DEF Keeps, ApiInv
  <2> QED BY <2>4, <2>5
<1> HIDE DEF Q, S
<1>5. PICK x : x = FoldLeft(Api!TellHeld, t, s)
  OBVIOUS
<1>6. x = HeldFold!Folded(t, s)
  BY <1>5, Zenon DEF FoldLeft, HeldFold!Folded, MapThenFoldSet, HeldFold!MapThenFoldSet, Max,
     HeldFold!Greatest
<1>7. x \in Q
  BY <1>3, <1>4, <1>6, HeldFold!FoldedKeeps
<1>8. Api!FoldLeft(Api!TellHeld, t, s) = x
  BY <1>5, Zenon DEF FoldLeft, Api!FoldLeft, MapThenFoldSet, Api!MapThenFoldSet, Max, Api!Max
<1>9. u = [x EXCEPT !.calls = <<>>]
  BY <1>2, <1>8 DEF Api!TellCalls, S
<1>10. <<>> \in CallMap /\ IsFiniteSet(DOMAIN <<>>)
  <2>1. DOMAIN <<>> = {} /\ <<>> = [i \in DOMAIN <<>> |-> <<>>[i]]
    OBVIOUS
  <2> QED BY <2>1, FS_EmptySet, CallMapIs
<1> QED BY <1>7, <1>9, <1>10, ApiHolds DEF Q, Keeps

ItemEvent == [index : Nat, data : Pieced]

LEMMA ApiItemKeeps ==
  ASSUME NEW t, ApiInv(t), NEW call, call.index \in Nat, call.data \in Pieced,
         NEW u, u = Api!Item(t, call)
  PROVE  ApiInv(u) /\ u.wire = t.wire
<1>1. CASE call.index \in t.told
  BY <1>1 DEF Api!Item
<1>2. CASE call.index \notin t.told
  <2>1. PICK told : told = t.told \union {call.index}
    OBVIOUS
  <2>2. PICK x : x = [t EXCEPT !.told = told]
    OBVIOUS
  <2>3. t \in ApiT /\ told \in SUBSET Nat
    BY <2>1 DEF ApiInv, ApiT
  <2>4. /\ x \in ApiT /\ x.calls = t.calls /\ x.wire = t.wire /\ x.out = t.out /\ x.open = t.open
        /\ x.next_index = t.next_index /\ x.finished = t.finished /\ x.refused = t.refused
    BY <2>2, <2>3 DEF ApiT
  <2>5. ApiInv(x)
    BY <2>4, ApiSame DEF ApiInv
  <2>6. u = Api!TellCall(x, call.index, call.data)
    BY <1>2, <2>1, <2>2, <2>3 DEF Api!Item, ApiT
  <2> QED BY <2>4, <2>5, <2>6, ApiTellCallKeeps DEF Keeps
<1> QED BY <1>1, <1>2

\* The calls that the end of a Responses turn repeats.
LEMMA ApiItemsKeep ==
  ASSUME NEW t, ApiInv(t), NEW s \in Seq(ItemEvent), NEW u, u = Api!FoldLeft(Api!Item, t, s)
  PROVE  ApiInv(u) /\ u.wire = t.wire
<1> DEFINE Q == {x \in ApiT : ApiInv(x) /\ x.wire = t.wire}
<1>1. t \in Q
  BY DEF ApiInv
<1>2. ASSUME NEW x \in Q, NEW call \in ItemEvent PROVE Api!Item(x, call) \in Q
  <2>1. PICK y : y = Api!Item(x, call)
    OBVIOUS
  <2>2. call.index \in Nat /\ call.data \in Pieced
    BY DEF ItemEvent
  <2>3. ApiInv(y) /\ y.wire = x.wire
    BY <2>1, <2>2, ApiItemKeeps
  <2> QED BY <2>1, <2>3 DEF ApiInv
<1> HIDE DEF Q
<1>3. u = ItemFold!Folded(t, s)
  BY Zenon DEF Api!FoldLeft, ItemFold!Folded, Api!MapThenFoldSet, ItemFold!MapThenFoldSet,
     Api!Max, ItemFold!Greatest
<1>4. ItemFold!Folded(t, s) \in Q
  BY <1>1, <1>2, ItemFold!FoldedKeeps
<1> QED BY <1>3, <1>4 DEF Q

-----------------------------------------------------------------------------
(* What a provider's stream says, and how the translator takes it.         *)

ApiHeard(w, e) ==
  /\ e.index \in Nat
  /\ \/ e.type \in {"text", "thought"} /\ e.data \in Pieced
     \/ w = "chat" /\ e.type = "arguments" /\ e.data \in Pieced
     \/ w = "messages" /\ e.type \in {"open", "arguments"} /\ e.data \in Pieced
     \/ w = "messages" /\ e.type \in {"shut", "stop"}
     \/ w \in {"chat", "messages"} /\ e.type = "reason" /\ e.data \in ApiReasons
     \/ w \in {"messages", "responses"} /\ e.type = "begin"
     \/ w = "responses" /\ e.type = "call" /\ e.data \in Pieced
     \/ w = "responses" /\ e.type \in Terminal /\ e.data \in Seq(ItemEvent)
     \/ e.type = "error"

ApiRefused(t) == t \in ApiT /\ t.refused /\ ~t.finished /\ \E o, n : Retelling(t.out, o, n)
ApiGoes(u, t) == ApiInv(u) /\ u.wire = t.wire
ApiTaken(u, t) == ApiGoes(u, t) \/ ApiDone(u) \/ ApiRefused(u)

LEMMA ApiSpoken ==
  ASSUME NEW t, ApiInv(t), NEW data \in Pieced, NEW u,
         u = Api!SpeakText(t, data) \/ u = Api!SpeakThought(t, data)
  PROVE  ApiGoes(u, t)
<1>1. CASE u = Api!SpeakText(t, data)
  <2>1. u = Api!Speak(t, "message", "text_delta", data)
    BY <1>1 DEF Api!SpeakText
  <2>2. ApiInv(u) /\ Keeps(u, t)
    BY <2>1, ApiSpeakKeeps
  <2> QED BY <2>2 DEF Keeps, ApiGoes
<1>2. CASE u = Api!SpeakThought(t, data)
  <2>1. u = Api!Speak(t, "reasoning", "thought_delta", data)
    BY <1>2 DEF Api!SpeakThought
  <2>2. ApiInv(u) /\ Keeps(u, t)
    BY <2>1, ApiSpeakKeeps
  <2> QED BY <2>2 DEF Keeps, ApiGoes
<1> QED BY <1>1, <1>2

LEMMA ApiFails ==
  ASSUME NEW t, ApiInv(t), NEW u, u = Api!Finish(t, "failed")
  PROVE  ApiDone(u)
<1>1. "failed" \in Terminal
  BY DEF Terminal
<1> QED BY <1>1, ApiFinishes

\* The reason of a finish, or that something was said.
LEMMA ApiNotes ==
  ASSUME NEW t, ApiInv(t), NEW u,
         \/ \E reason \in ApiReasons : u = [t EXCEPT !.reason = reason]
         \/ u = [t EXCEPT !.produced = TRUE]
         \/ u = [t EXCEPT !.stopped = TRUE]
  PROVE  ApiGoes(u, t)
<1>1. t \in ApiT
  BY DEF ApiInv
<1>2. /\ u \in ApiT /\ u.calls = t.calls /\ u.wire = t.wire /\ u.out = t.out /\ u.open = t.open
      /\ u.next_index = t.next_index /\ u.finished = t.finished /\ u.refused = t.refused
  <2>1. CASE \E reason \in ApiReasons : u = [t EXCEPT !.reason = reason]
    BY <1>1, <2>1 DEF ApiT
  <2>2. CASE u = [t EXCEPT !.produced = TRUE]
    BY <1>1, <2>2 DEF ApiT
  <2>3. CASE u = [t EXCEPT !.stopped = TRUE]
    BY <1>1, <2>3 DEF ApiT
  <2> QED BY <2>1, <2>2, <2>3
<1>3. ApiInv(u)
  BY <1>2, ApiSame DEF ApiInv
<1> QED BY <1>2, <1>3 DEF ApiGoes

LEMMA ApiRefuses ==
  ASSUME NEW t, ApiInv(t), NEW u, u = [t EXCEPT !.refused = TRUE]
  PROVE  ApiRefused(u)
<1>1. t \in ApiT /\ ~t.finished /\ Retelling(t.out, OpenOf(t.open), t.next_index)
  BY DEF ApiInv, Telling
<1>2. u \in ApiT /\ u.refused /\ u.finished = t.finished /\ u.out = t.out
  BY <1>1 DEF ApiT
<1> QED BY <1>1, <1>2 DEF ApiRefused

\* The turn ends as its reason says, its calls told.
LEMMA ApiTerminates ==
  ASSUME NEW t, ApiInv(t), NEW reason, NEW u, u = Api!Finish(Api!TellCalls(t), Api!EndType(reason))
  PROVE  ApiDone(u)
<1>1. PICK x : x = Api!TellCalls(t)
  OBVIOUS
<1>2. ApiInv(x)
  BY <1>1, ApiTellCallsKeeps
<1>3. Api!EndType(reason) \in Terminal
  <2>1. CASE reason \in {"length", "max_tokens"}
    <3>1. reason \notin {"content_filter", "refusal"}
      BY <2>1
    <3> QED BY <2>1, <3>1 DEF Api!EndType, Terminal
  <2>2. CASE reason \notin {"length", "max_tokens"}
    BY <2>2 DEF Api!EndType, Terminal
  <2> QED BY <2>1, <2>2
<1> QED BY <1>1, <1>2, <1>3, ApiFinishes

\* A chat provider's event.
LEMMA ChatAccepts ==
  ASSUME NEW t, ApiInv(t), NEW e, ApiHeard("chat", e), NEW u, u = Api!ChatAccept(t, e)
  PROVE  ApiTaken(u, t)
<1>1. PICK made : made = [t EXCEPT !.produced = TRUE]
  OBVIOUS
<1>2. ApiInv(made) /\ made.wire = t.wire
  BY <1>1, ApiNotes DEF ApiGoes
<1>3. CASE e.type \in {"text", "thought"}
  <2>1. u = Api!SpeakText(made, e.data) \/ u = Api!SpeakThought(made, e.data)
    BY <1>1, <1>3 DEF Api!ChatAccept
  <2>2. e.data \in Pieced
    BY <1>3 DEF ApiHeard, Terminal
  <2> QED BY <1>2, <2>1, <2>2, ApiSpoken DEF ApiTaken, ApiGoes
<1>4. CASE e.type = "arguments"
  <2>1. u = Api!Hold(made, e.index, e.data)
    BY <1>1, <1>4 DEF Api!ChatAccept
  <2>2. e.data \in Pieced /\ e.index \in Nat
    BY <1>4 DEF ApiHeard, Terminal
  <2> QED BY <1>2, <2>1, <2>2, ApiHoldKeeps DEF ApiTaken, ApiGoes
<1>5. CASE e.type = "reason"
  <2>1. u = [t EXCEPT !.reason = e.data]
    BY <1>5 DEF Api!ChatAccept
  <2>2. e.data \in ApiReasons
    BY <1>5 DEF ApiHeard, Terminal
  <2> QED BY <2>1, <2>2, ApiNotes DEF ApiTaken
<1>6. CASE e.type = "error"
  <2>1. u = Api!Finish(t, "failed")
    BY <1>6 DEF Api!ChatAccept
  <2> QED BY <2>1, ApiFails DEF ApiTaken
<1> QED BY <1>3, <1>4, <1>5, <1>6 DEF ApiHeard

LEMMA MessagesTerminates ==
  ASSUME NEW t, ApiInv(t), NEW u, u = Api!MessagesTerminate(t)
  PROVE  ApiTaken(u, t)
<1>1. CASE t.stopped
  BY <1>1 DEF Api!MessagesTerminate, ApiTaken, ApiGoes
<1>2. CASE ~t.stopped
  <2>1. PICK x : x = [t EXCEPT !.stopped = TRUE]
    OBVIOUS
  <2>2. ApiInv(x)
    BY <2>1, ApiNotes DEF ApiGoes
  <2>3. u = Api!Finish(Api!TellCalls(x), Api!EndType(t.reason))
    BY <1>2, <2>1 DEF Api!MessagesTerminate
  <2> QED BY <2>2, <2>3, ApiTerminates DEF ApiTaken
<1> QED BY <1>1, <1>2

LEMMA ReleasedKeeps ==
  ASSUME NEW t, ApiInv(t), NEW i, NEW u, u = Api!Released(t, i)
  PROVE  ApiGoes(u, t)
<1>1. t \in ApiT /\ t.calls \in CallMap /\ IsFiniteSet(DOMAIN t.calls)
  BY DEF ApiInv, ApiT
<1>2. PICK calls : calls = [j \in DOMAIN t.calls \ {i} |-> t.calls[j]]
  OBVIOUS
<1>3. calls \in CallMap /\ IsFiniteSet(DOMAIN calls)
  <2>1. DOMAIN calls = DOMAIN t.calls \ {i}
    BY <1>2
  <2>2. IsFiniteSet(DOMAIN calls)
    BY <1>1, <2>1, FS_RemoveElement
  <2>3. DOMAIN t.calls \subseteq Nat /\ \A j \in DOMAIN t.calls : t.calls[j] \in Pieced
    BY <1>1, CallMapIs
  <2>4. /\ calls = [j \in DOMAIN calls |-> calls[j]] /\ DOMAIN calls \subseteq Nat
        /\ \A j \in DOMAIN calls : calls[j] \in Pieced
    BY <1>2, <2>1, <2>3
  <2> QED BY <2>2, <2>4, CallMapIs
<1>4. u = [t EXCEPT !.calls = calls]
  BY <1>1, <1>2 DEF Api!Released, ApiT
<1> QED BY <1>3, <1>4, ApiHolds DEF ApiGoes

\* An Anthropic provider's event.
LEMMA MessagesAccepts ==
  ASSUME NEW t, ApiInv(t), NEW e, ApiHeard("messages", e), NEW u, u = Api!MessagesAccept(t, e)
  PROVE  ApiTaken(u, t)
<1>1. /\ e.index \in Nat
      /\ e.type \in {"text", "thought", "open", "arguments"} => e.data \in Pieced
      /\ e.type = "reason" => e.data \in ApiReasons
      /\ e.type \in {"text", "thought", "open", "arguments", "shut", "stop", "reason", "begin", "error"}
  BY DEF ApiHeard, Terminal
<1>0. t.calls \in CallMap /\ IsFiniteSet(DOMAIN t.calls) /\ t \in ApiT
  BY DEF ApiInv, ApiT
<1>2. CASE e.type = "begin"
  <2>1. u = Api!Start(t)
    BY <1>2 DEF Api!MessagesAccept
  <2> QED BY <2>1, ApiStartKeeps DEF Keeps, ApiTaken, ApiGoes
<1>3. CASE e.type \in {"text", "thought"}
  <2>1. u = Api!SpeakText(t, e.data) \/ u = Api!SpeakThought(t, e.data)
    BY <1>3 DEF Api!MessagesAccept
  <2> QED BY <1>1, <1>3, <2>1, ApiSpoken DEF ApiTaken
<1>4. CASE e.type = "open"
  <2>1. PICK calls : calls = Api!Put(t.calls, e.index, e.data)
    OBVIOUS
  <2>2. u = [t EXCEPT !.calls = calls]
    BY <1>0, <1>4, <2>1 DEF Api!MessagesAccept, ApiT
  <2>3. calls \in CallMap /\ IsFiniteSet(DOMAIN calls)
    BY <1>0, <1>1, <1>4, <2>1, CallPutIs
  <2> QED BY <2>2, <2>3, ApiHolds DEF ApiTaken, ApiGoes
<1>5. CASE e.type = "arguments"
  <2>1. u = IF e.index \in DOMAIN t.calls THEN Api!Hold(t, e.index, e.data) ELSE t
    BY <1>5 DEF Api!MessagesAccept
  <2>2. CASE e.index \in DOMAIN t.calls
    BY <1>1, <1>5, <2>1, <2>2, ApiHoldKeeps DEF ApiTaken, ApiGoes
  <2>3. CASE e.index \notin DOMAIN t.calls
    BY <2>1, <2>3 DEF ApiTaken, ApiGoes
  <2> QED BY <2>2, <2>3
<1>6. CASE e.type = "shut"
  <2>1. u = IF e.index \in DOMAIN t.calls
              THEN Api!TellCall(Api!Released(t, e.index), e.index, t.calls[e.index]) ELSE t
    BY <1>6 DEF Api!MessagesAccept
  <2>2. CASE e.index \in DOMAIN t.calls
    <3>1. PICK x : x = Api!Released(t, e.index)
      OBVIOUS
    <3>2. ApiInv(x) /\ x.wire = t.wire
      BY <3>1, ReleasedKeeps DEF ApiGoes
    <3>3. t.calls[e.index] \in Pieced
      BY <1>0, <2>2, CallMapIs
    <3>4. u = Api!TellCall(x, e.index, t.calls[e.index])
      BY <2>1, <2>2, <3>1
    <3> QED BY <1>1, <3>2, <3>3, <3>4, ApiTellCallKeeps DEF ApiTaken, ApiGoes, Keeps
  <2>3. CASE e.index \notin DOMAIN t.calls
    BY <2>1, <2>3 DEF ApiTaken, ApiGoes
  <2> QED BY <2>2, <2>3
<1>7. CASE e.type = "reason"
  <2>1. u = [t EXCEPT !.reason = e.data]
    BY <1>7 DEF Api!MessagesAccept
  <2> QED BY <1>1, <1>7, <2>1, ApiNotes DEF ApiTaken
<1>8. CASE e.type = "stop"
  <2>1. u = Api!MessagesTerminate(t)
    BY <1>8 DEF Api!MessagesAccept
  <2> QED BY <2>1, MessagesTerminates
<1>9. CASE e.type = "error"
  <2>1. u = Api!Finish(t, "failed")
    BY <1>9 DEF Api!MessagesAccept
  <2> QED BY <2>1, ApiFails DEF ApiTaken
<1> QED BY <1>1, <1>2, <1>3, <1>4, <1>5, <1>6, <1>7, <1>8, <1>9

\* A Responses provider's event.
LEMMA ResponsesAccepts ==
  ASSUME NEW t, ApiInv(t), NEW e, ApiHeard("responses", e), NEW u, u = Api!ResponsesAccept(t, e)
  PROVE  ApiTaken(u, t)
<1>1. /\ e.index \in Nat
      /\ e.type \in {"text", "thought", "call"} => e.data \in Pieced
      /\ e.type \in Terminal => e.data \in Seq(ItemEvent)
      /\ e.type \in {"text", "thought", "call", "begin", "error"} \union Terminal
  BY DEF ApiHeard, Terminal
<1>2. CASE e.type = "begin"
  <2>1. u = Api!Start(t)
    BY <1>2 DEF Api!ResponsesAccept, Api!Terminal
  <2> QED BY <2>1, ApiStartKeeps DEF Keeps, ApiTaken, ApiGoes
<1>3. CASE e.type \in {"text", "thought"}
  <2>1. u = Api!SpeakText(t, e.data) \/ u = Api!SpeakThought(t, e.data)
    BY <1>3 DEF Api!ResponsesAccept, Api!Terminal
  <2> QED BY <1>1, <1>3, <2>1, ApiSpoken DEF ApiTaken
<1>4. CASE e.type = "call"
  <2>1. u = Api!Item(t, e)
    BY <1>4 DEF Api!ResponsesAccept, Api!Terminal
  <2> QED BY <1>1, <1>4, <2>1, ApiItemKeeps DEF ApiTaken, ApiGoes
<1>5. CASE e.type \in Terminal
  <2>1. PICK x : x = Api!FoldLeft(Api!Item, t, e.data)
    OBVIOUS
  <2>2. ApiInv(x)
    BY <1>1, <1>5, <2>1, ApiItemsKeep
  <2>3. u = Api!Finish(x, e.type)
    BY <1>5, <2>1 DEF Api!ResponsesAccept, Terminal, Api!Terminal
  <2> QED BY <1>5, <2>2, <2>3, ApiFinishes DEF ApiTaken
<1>6. CASE e.type = "error"
  <2>1. u = Api!Finish(t, "failed")
    BY <1>6 DEF Api!ResponsesAccept, Api!Terminal
  <2> QED BY <2>1, ApiFails DEF ApiTaken
<1> QED BY <1>1, <1>2, <1>3, <1>4, <1>5, <1>6

\* An event of the provider's, and the end of what it sends.
LEMMA ApiAccepts ==
  ASSUME NEW t, ApiInv(t), NEW e, ApiHeard(t.wire, e), NEW u, u = Api!Accept(t, e)
  PROVE  ApiTaken(u, t)
<1>1. t.wire \in {"chat", "messages", "responses"} /\ ~t.finished
  BY DEF ApiInv, ApiT, ApiWires
<1>2. CASE t.wire = "chat"
  BY <1>1, <1>2, ChatAccepts DEF Api!Accept
<1>3. CASE t.wire = "messages"
  BY <1>1, <1>3, MessagesAccepts DEF Api!Accept
<1>4. CASE t.wire = "responses"
  BY <1>1, <1>4, ResponsesAccepts DEF Api!Accept
<1> QED BY <1>1, <1>2, <1>3, <1>4

\* The body ends.
LEMMA ApiEnds ==
  ASSUME NEW t, ApiInv(t), NEW u, u = Api!EndOf(t)
  PROVE  ApiTaken(u, t)
<1>1. t.wire \in {"chat", "messages", "responses"} /\ ~t.finished
  BY DEF ApiInv, ApiT, ApiWires
<1>2. CASE u = [t EXCEPT !.refused = TRUE]
  BY <1>2, ApiRefuses DEF ApiTaken
<1>3. CASE t.wire = "chat"
  <2>1. u = Api!ChatEnd(t)
    BY <1>3 DEF Api!EndOf
  <2>2. \/ u = [t EXCEPT !.refused = TRUE]
        \/ u = Api!Finish(Api!TellCalls(t), Api!EndType(t.reason))
    BY <1>1, <2>1 DEF Api!ChatEnd
  <2> QED BY <1>2, <2>2, ApiTerminates DEF ApiTaken
<1>4. CASE t.wire = "messages"
  <2>1. u = Api!MessagesEnd(t)
    BY <1>4 DEF Api!EndOf
  <2>2. u = [t EXCEPT !.refused = TRUE] \/ u = Api!MessagesTerminate(t)
    BY <1>1, <2>1 DEF Api!MessagesEnd
  <2> QED BY <1>2, <2>2, MessagesTerminates
<1>5. CASE t.wire = "responses"
  <2>1. u = Api!ResponsesEnd(t)
    BY <1>5 DEF Api!EndOf
  <2> QED BY <1>1, <1>2, <2>1 DEF Api!ResponsesEnd
<1> QED BY <1>1, <1>3, <1>4, <1>5
=============================================================================
