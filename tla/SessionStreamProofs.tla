------------------------ MODULE SessionStreamProofs ------------------------
(***************************************************************************)
(* Theorems about SessionStream, for every number of viewers and every     *)
(* depth, capacity and length of output.  The inductive invariant has four *)
(* parts: where the pump's counters stand at each of its steps (PumpInv);  *)
(* that the characters a catch-up is stamped past have been drawn          *)
(* (CursorInv); that the frames in the queue of an unflagged viewer        *)
(* continue what it shows, up to a character, as far as the session's      *)
(* sequence (FollowInv); and that a terminal is told of the end only after *)
(* everything was offered (TerminalInv).                                   *)
(***************************************************************************)
EXTENDS SessionStream, TLAPS

USE ViewersAssumption, BoundsAssumption DEF Viewers

-----------------------------------------------------------------------------
(* What the operators return.                                              *)

\* The carry only shortens a prefix, and a longer prefix completes no less.
LEMMA CompleteFacts ==
  ASSUME NEW n \in Positions
  PROVE  /\ Complete[n] \in Positions /\ n \in Nat /\ Complete[n] \in Nat
         /\ Complete[n] <= n
         /\ \A m \in Positions : m <= n => Complete[m] <= Complete[n]
BY CompleteAssumption DEF Positions

LEMMA RingPushType ==
  ASSUME NEW r \in [seq : Positions, len : 0..Capacity], NEW n \in Nat, r.seq + n <= MaxBytes
  PROVE  /\ RingPush(r, n) \in [seq : Positions, len : 0..Capacity]
         /\ RingPush(r, n).seq = r.seq + n
BY DEF RingPush, Least, Positions

LEMMA DrawnType ==
  ASSUME NEW n \in Positions
  PROVE  /\ Drawn(n) \in View
         /\ Drawn(n).upto = n /\ ~Drawn(n).gap /\ ~Drawn(n).resumed
BY DEF Drawn, View

\* Writing a range leaves a hole only when it starts more than part of a
\* character past the view's end, and never moves the end back.
LEMMA WrittenType ==
  ASSUME NEW w \in View, NEW from \in Positions, NEW to \in Positions
  PROVE  /\ Written(w, from, to) \in View
         /\ Written(w, from, to).upto \in {w.upto, to}
         /\ Written(w, from, to).upto >= w.upto
         /\ Written(w, from, to).upto >= to
         /\ Written(w, from, to).gap => w.gap \/ Complete[from] > w.upto
         /\ Written(w, from, to).resumed = w.resumed
<1>1. /\ w.upto \in Positions /\ w.gap \in BOOLEAN /\ w.torn \in BOOLEAN
      /\ w.twice \in BOOLEAN /\ w.resumed \in BOOLEAN
  BY DEF View
<1> DEFINE gap == w.gap \/ Complete[from] > w.upto
           torn == w.torn \/ from > w.upto
           twice == w.twice \/ (from < w.upto /\ from < to)
           upto == Most(w.upto, to)
<1>2. upto \in {w.upto, to} /\ upto >= w.upto /\ upto >= to
  BY <1>1 DEF Most, Positions
<1>3. gap \in BOOLEAN /\ torn \in BOOLEAN /\ twice \in BOOLEAN
  OBVIOUS
<1>4. Written(w, from, to) = [[[[w EXCEPT !.upto = upto] EXCEPT !.gap = gap]
                                    EXCEPT !.torn = torn] EXCEPT !.twice = twice]
  BY DEF Written
<1> HIDE DEF gap, torn, twice, upto
<1>5. Written(w, from, to) =
        [upto |-> upto, gap |-> gap, torn |-> torn, twice |-> twice,
         resumed |-> w.resumed]
  BY <1>4 DEF View
<1> QED BY <1>1, <1>2, <1>3, <1>5 DEF View, gap

LEMMA ResumedType ==
  ASSUME NEW w \in View, NEW from \in Positions, NEW to \in Positions
  PROVE  /\ Resumed(w, from, to) \in View
         /\ Resumed(w, from, to).upto >= w.upto
         /\ Resumed(w, from, to).upto >= to
         /\ Resumed(w, from, to).gap => w.gap \/ Complete[from] > w.upto
         /\ w.gap => Resumed(w, from, to).resumed
<1> DEFINE u == Written(w, from, to)
<1>1. u \in View /\ u.upto >= w.upto /\ u.upto >= to /\ (u.gap => w.gap \/ Complete[from] > w.upto)
  BY WrittenType
<1>2. w.gap \in BOOLEAN /\ u.resumed \in BOOLEAN
  BY <1>1 DEF View
<1> HIDE DEF u
<1>3. Resumed(w, from, to) = [u EXCEPT !.resumed = u.resumed \/ w.gap]
  BY DEF Resumed, u
<1> QED BY <1>1, <1>2, <1>3 DEF View

-----------------------------------------------------------------------------
(* Types, and where the pump's counters stand at each step.                *)

CountInv ==
  /\ step = "fed" => ring.seq = seq
  /\ step \in {"pushed", "tail"} => ring.seq = got
  /\ step \in {"fed", "pushed", "tail"} => seq <= got
  /\ step \notin {"fed", "pushed", "tail"} => got = seq /\ ring.seq = seq

\* The stream is over: everything was offered, and no output follows.
Ended == step \in {"exited", "said", "closed", "done"} \/ (step = "send" /\ frame \notin Output)

\* The screen has every character up to the stored sequence, except while the
\* tail waits to be drawn; until the end it has no more than complete ones.
ScreenInv ==
  /\ vt <= got
  /\ step # "flushed" => Complete[seq] <= vt
  /\ step \in {"fed", "pushed"} => Complete[got] <= vt
  /\ step # "ended" /\ ~Ended => vt <= Complete[got]

FrameInv ==
  /\ step \in {"flushed", "stored"} => frame \in Output
  /\ step = "send" => frame \in Frame
  /\ step \in {"flushed", "stored", "send"} /\ frame \in Output =>
       frame.to = seq /\ frame.from <= seq /\ Complete[frame.from] <= vt

SubsInv ==
  /\ step # "send" => targets = {}
  /\ targets \subseteq subs
  /\ subs = {v \in Viewers : pc[v] # "off"}

PumpInv == CountInv /\ ScreenInv /\ FrameInv /\ SubsInv

LEMMA KindOf ==
  /\ \A f \in Output : f.kind \in {"output", "tail"}
  /\ \A f \in Frame : f \in Output \/ f.kind \in {"exit", "close"}
  /\ [kind |-> "exit"] \in Frame \ Output /\ [kind |-> "close"] \in Frame \ Output
  /\ Output \subseteq Frame
<1>1. \A f \in Output : f.kind \in {"output", "tail"}
  BY DEF Output
<1>2. \A f \in Frame : f \in Output \/ f.kind \in {"exit", "close"}
  BY DEF Frame
<1>3. [kind |-> "exit"].kind = "exit" /\ [kind |-> "close"].kind = "close"
  OBVIOUS
<1>4. [kind |-> "exit"] \in Frame /\ [kind |-> "close"] \in Frame /\ Output \subseteq Frame
  BY DEF Frame
<1> QED BY <1>1, <1>2, <1>3, <1>4

LEMMA PumpTypes ==
  ASSUME TypeOK, PumpInv, Pump \/ WatcherRecords
  PROVE  TypeOK'
<1> USE DEF TypeOK
<1>1. CASE Read
  <2>1. got' \in Positions
    BY <1>1 DEF Read, Positions
  <2>2. vt' \in Positions
    BY <1>1, <2>1, CompleteFacts DEF Read
  <2> QED BY <1>1, <2>1, <2>2 DEF Read, viewer, PumpSteps
<1>2. CASE PushRing
  <2>1. got - ring.seq \in Nat /\ ring.seq + (got - ring.seq) <= MaxBytes
    BY <1>2 DEF PushRing, PumpInv, CountInv, Positions
  <2> QED BY <1>2, <2>1, RingPushType DEF PushRing, viewer, PumpSteps
<1>3. CASE StoreSeq
  BY <1>3 DEF StoreSeq, viewer, PumpSteps, Frame, Output
<1>4. CASE FlushTail
  <2>1. PICK n \in 1..Chunk : got + n <= MaxBytes /\ got' = got + n /\ ring' = RingPush(ring, n)
    BY <1>4 DEF FlushTail
  <2>2. n \in Nat /\ ring.seq + n <= MaxBytes /\ got' \in Positions
    BY <1>4, <2>1 DEF FlushTail, PumpInv, CountInv, Positions
  <2> QED BY <1>4, <2>1, <2>2, RingPushType DEF FlushTail, viewer, PumpSteps
<1>5. CASE StoreTail
  BY <1>5 DEF StoreTail, viewer, PumpSteps, Frame, Output
<1>6. CASE DrawTail
  BY <1>6, CompleteFacts DEF DrawTail, viewer, PumpSteps
<1>7. CASE CopyTargets
  BY <1>7, KindOf DEF CopyTargets, output, viewer, PumpSteps
<1>8. CASE Offer
  <2>1. frame \in Frame
    BY <1>8 DEF Offer, PumpInv, FrameInv
  <2>2. PICK v \in targets :
          \/ /\ Len(queue[v]) < Depth
             /\ queue' = [queue EXCEPT ![v] = Append(queue[v], frame)] /\ lagging' = lagging
          \/ lagging' = [lagging EXCEPT ![v] = TRUE] /\ queue' = queue
    BY <1>8 DEF Offer
  <2>3. queue' \in [Viewers -> Seq(Frame)] /\ \A w \in Viewers : Len(queue'[w]) <= Depth
    <3>1. CASE queue' = queue
      BY <3>1
    <3>2. CASE /\ Len(queue[v]) < Depth
               /\ queue' = [queue EXCEPT ![v] = Append(queue[v], frame)]
      <4>1. Append(queue[v], frame) \in Seq(Frame) /\ Len(Append(queue[v], frame)) <= Depth
        BY <2>1, <3>2
      <4> QED BY <3>2, <4>1
    <3> QED BY <2>2, <3>1, <3>2
  <2> QED BY <1>8, <2>2, <2>3 DEF Offer, output, viewer
<1>9. CASE Broadcasted
  <2>1. frame \in Frame
    BY <1>9 DEF Broadcasted, PumpInv, FrameInv
  <2> QED BY <1>9, <2>1, KindOf DEF Broadcasted, output, viewer, PumpSteps
<1>10. CASE EndOfFile
  BY <1>10 DEF EndOfFile, output, viewer, PumpSteps
<1>11. CASE RecordExit
  BY <1>11 DEF RecordExit, viewer, PumpSteps
<1>12. CASE WatcherRecords
  BY <1>12 DEF WatcherRecords, pump, viewer
<1>13. CASE Finish
  BY <1>13 DEF Finish, output, viewer, PumpSteps
<1>14. CASE DrawRest
  BY <1>14 DEF DrawRest, viewer, PumpSteps
<1> QED BY <1>1, <1>2, <1>3, <1>4, <1>5, <1>6, <1>7, <1>8, <1>9, <1>10, <1>11, <1>12, <1>13, <1>14
        DEF Pump, Work

LEMMA ViewerTypes ==
  ASSUME TypeOK, NEW v \in Viewers, Viewer(v) \/ Drop(v)
  PROVE  TypeOK'
<1> USE DEF TypeOK, output, pump, Goto, Show, Leave
<1>1. CASE Join(v)
  BY <1>1 DEF Join, ViewerSteps
<1>2. CASE Stamp(v)
  BY <1>2 DEF Stamp, ViewerSteps
<1>3. CASE CatchUp(v)
  <2>1. Drawn(vt) \in View
    BY DrawnType
  <2>2. cursor[v] # None => cursor[v] \in Positions /\ ring.seq \in Positions
    BY <1>3 DEF CatchUp
  <2>3. cursor[v] # None => Resumed(view[v], cursor[v], ring.seq) \in View
    BY <2>2, ResumedType
  <2>4. view' \in [Viewers -> View]
    BY <1>3, <2>1, <2>3 DEF CatchUp
  <2> QED BY <1>3, <2>4 DEF CatchUp, ViewerSteps
<1>4. CASE Greet(v)
  BY <1>4 DEF Greet, ViewerSteps
<1>5. CASE Attach(v)
  BY <1>5, DrawnType DEF Attach, ViewerSteps
<1>6. CASE Pull(v)
  <2>1. Head(queue[v]).from \in Positions /\ Head(queue[v]).to \in Positions
    BY <1>6 DEF Pull, Output
  <2>2. Written(view[v], Head(queue[v]).from, Head(queue[v]).to) \in View
    BY <2>1, WrittenType
  <2>3. Tail(queue[v]) \in Seq(Frame) /\ Len(Tail(queue[v])) <= Depth
    BY <1>6 DEF Pull
  <2> QED BY <1>6, <2>1, <2>2, <2>3 DEF Pull
<1>7. CASE PullExit(v)
  <2>1. Tail(queue[v]) \in Seq(Frame) /\ Len(Tail(queue[v])) <= Depth
    BY <1>7 DEF PullExit
  <2> QED BY <1>7, <2>1 DEF PullExit
<1>8. CASE PullClose(v)
  BY <1>8 DEF PullClose, ViewerSteps
<1>9. CASE Drained(v)
  BY <1>9 DEF Drained, ViewerSteps
<1>10. CASE TakeLagging(v)
  BY <1>10 DEF TakeLagging, ViewerSteps
<1>11. CASE TerminalEnds(v)
  BY <1>11 DEF TerminalEnds, ViewerSteps
<1>12. CASE Drop(v)
  BY <1>12 DEF Drop, ViewerSteps
<1> QED BY <1>1, <1>2, <1>3, <1>4, <1>5, <1>6, <1>7, <1>8, <1>9, <1>10, <1>11, <1>12 DEF Viewer

\* The screen and the frames, apart from the counters they follow.
LEMMA PumpKeepsScreen ==
  ASSUME TypeOK, PumpInv, Pump \/ WatcherRecords
  PROVE  ScreenInv' /\ FrameInv' /\ vt' >= vt
<1> USE DEF PumpInv, CountInv, ScreenInv, FrameInv, Ended
<1>1. /\ got \in Positions /\ vt \in Nat /\ seq \in Positions /\ ring.seq \in Nat
      /\ got \in Nat /\ seq \in Nat
  BY DEF TypeOK, Positions
<1>2. /\ Complete[got] \in Nat /\ Complete[got] <= got
      /\ Complete[seq] \in Nat /\ Complete[seq] <= seq
  BY <1>1, CompleteFacts
<1>3. got' \in Positions /\ vt' \in Nat
  BY PumpTypes DEF TypeOK, Positions
<1>4. /\ got' \in Nat /\ Complete[got'] \in Nat /\ Complete[got'] <= got'
      /\ \A m \in Positions : m <= got' => Complete[m] <= Complete[got']
  BY <1>3, CompleteFacts
<1>5. CASE Read
  <2>1. got' > got /\ vt' = Complete[got'] /\ seq' = seq /\ seq <= got /\ step' = "fed"
    BY <1>1, <1>5 DEF Read
  <2>2. Complete[got] <= Complete[got'] /\ Complete[seq] <= Complete[got']
    BY <1>1, <1>4, <2>1
  <2>3. step = "read"
    BY <1>5 DEF Read
  <2> QED BY <1>1, <1>2, <1>3, <1>4, <2>1, <2>2, <2>3
<1>6. CASE PushRing
  BY <1>1, <1>6 DEF PushRing
<1>7. CASE StoreSeq
  <2>1. /\ seq' = got /\ got' = got /\ vt' = vt /\ step' = "stored" /\ step = "pushed"
        /\ frame' = [kind |-> "output", from |-> seq, to |-> ring.seq]
    BY <1>7 DEF StoreSeq
  <2>2. frame' \in Output /\ frame'.to = seq' /\ frame'.from = seq
    BY <1>1, <2>1 DEF Output, TypeOK
  <2>3. vt <= got /\ Complete[seq] <= vt /\ vt <= Complete[got] /\ Complete[got] <= vt /\ seq <= got
    BY <2>1
  <2> QED BY <1>1, <1>2, <2>1, <2>2, <2>3
<1>8. CASE FlushTail
  <2>1. got' >= got /\ vt' = vt /\ seq' = seq /\ step = "read" /\ step' = "tail"
    BY <1>1, <1>8 DEF FlushTail
  <2>2. Complete[got] <= Complete[got']
    BY <1>1, <1>4, <2>1
  <2> QED BY <1>1, <1>2, <1>3, <1>4, <2>1, <2>2
<1>9. CASE StoreTail
  <2>1. /\ seq' = got /\ got' = got /\ vt' = vt /\ step' = "flushed" /\ step = "tail"
        /\ frame' = [kind |-> "tail", from |-> seq, to |-> ring.seq]
    BY <1>9 DEF StoreTail
  <2>2. frame' \in Output /\ frame'.to = seq' /\ frame'.from = seq
    BY <1>1, <2>1 DEF Output, TypeOK
  <2> QED BY <1>1, <1>2, <2>1, <2>2
<1>10. CASE DrawTail
  <2>1. /\ got' = got /\ seq' = seq /\ vt' = Complete[got] /\ frame' = frame
        /\ step = "flushed" /\ step' = "stored" /\ got = seq
    BY <1>10 DEF DrawTail
  <2>2. frame \in Output /\ frame.from \in Positions /\ frame.from <= got /\ frame.to = seq
    BY <2>1 DEF Output
  <2>3. Complete[frame.from] <= Complete[got]
    BY <1>1, <2>2, CompleteFacts
  <2> QED BY <1>1, <1>2, <2>1, <2>2, <2>3
<1>11. CASE DrawRest
  BY <1>1, <1>2, <1>11 DEF DrawRest
<1>12. CASE CopyTargets
  BY <1>1, <1>2, <1>12, KindOf DEF CopyTargets, output
<1>13. CASE Offer
  BY <1>1, <1>13 DEF Offer, output
<1>14. CASE Broadcasted
  BY <1>1, <1>14, KindOf DEF Broadcasted, output
<1>15. CASE EndOfFile
  BY <1>1, <1>15 DEF EndOfFile, output
<1>16. CASE RecordExit
  BY <1>1, <1>16 DEF RecordExit
<1>17. CASE WatcherRecords
  BY <1>1, <1>17 DEF WatcherRecords, pump
<1>18. CASE Finish
  BY <1>1, <1>18 DEF Finish, output
<1> QED
  BY <1>5, <1>6, <1>7, <1>8, <1>9, <1>10, <1>11, <1>12, <1>13, <1>14, <1>15, <1>16, <1>17, <1>18
  DEF Pump, Work

LEMMA PumpKeepsCounts ==
  ASSUME TypeOK, PumpInv, Pump \/ WatcherRecords
  PROVE  PumpInv'
<1> USE DEF PumpInv, CountInv, SubsInv
<1>1. got \in Nat /\ seq \in Nat /\ ring.seq \in Nat
  BY DEF TypeOK, Positions
<1> SUFFICES CountInv' /\ SubsInv'
  BY PumpKeepsScreen
<1>2. CASE Read
  <2>1. got' >= got
    BY <1>1, <1>2 DEF Read
  <2> QED BY <1>1, <1>2, <2>1 DEF Read, viewer
<1>3. CASE PushRing
  <2>1. ring'.seq = ring.seq + (got - ring.seq)
    BY <1>3 DEF PushRing, RingPush
  <2> QED BY <1>1, <1>3, <2>1 DEF PushRing, viewer
<1>4. CASE StoreSeq
  BY <1>1, <1>4 DEF StoreSeq, viewer
<1>5. CASE FlushTail
  <2>1. PICK n \in 1..Chunk : got' = got + n /\ ring' = RingPush(ring, n)
    BY <1>5 DEF FlushTail
  <2>2. ring'.seq = ring.seq + n /\ n \in Nat
    BY <2>1 DEF RingPush
  <2> QED BY <1>1, <1>5, <2>1, <2>2 DEF FlushTail, viewer
<1>6. CASE StoreTail
  BY <1>1, <1>6 DEF StoreTail, viewer
<1>7. CASE DrawTail \/ DrawRest
  BY <1>1, <1>7 DEF DrawTail, DrawRest, viewer
<1>8. CASE CopyTargets
  BY <1>1, <1>8, KindOf DEF CopyTargets, output, viewer
<1>9. CASE Offer
  BY <1>1, <1>9 DEF Offer, output, viewer
<1>10. CASE Broadcasted
  BY <1>1, <1>10, KindOf DEF Broadcasted, output, viewer
<1>11. CASE EndOfFile
  BY <1>1, <1>11 DEF EndOfFile, output, viewer
<1>12. CASE RecordExit
  BY <1>1, <1>12 DEF RecordExit, viewer
<1>13. CASE WatcherRecords
  BY <1>1, <1>13 DEF WatcherRecords, pump, viewer
<1>14. CASE Finish
  BY <1>1, <1>14 DEF Finish, output, viewer
<1> QED BY <1>2, <1>3, <1>4, <1>5, <1>6, <1>7, <1>8, <1>9, <1>10, <1>11, <1>12, <1>13, <1>14
        DEF Pump, Work

\* What a viewer's step leaves to the pump, and what it does to the subscribers.
LEMMA ViewerApart ==
  ASSUME TypeOK, PumpInv, NEW v \in Viewers, Viewer(v) \/ Drop(v)
  PROVE  /\ UNCHANGED <<output, step, frame>>
         /\ targets' \in {targets, targets \ {v}}
         /\ v \in targets' => pc'[v] # "off"
         /\ \A w \in Viewers \ {v} : /\ pc'[w] = pc[w] /\ tag'[w] = tag[w]
                                     /\ queue'[w] = queue[w] /\ lagging'[w] = lagging[w]
                                     /\ view'[w] = view[w] /\ (w \in told' <=> w \in told)
         /\ \A b \in Browsers \ {v} : cursor'[b] = cursor[b]
         /\ subs' = {w \in Viewers : pc'[w] # "off"}
<1> USE DEF TypeOK, PumpInv, SubsInv, output, pump, Goto, Show, Leave
<1>1. CASE Join(v)
  BY <1>1 DEF Join
<1>2. CASE Stamp(v)
  BY <1>2 DEF Stamp
<1>3. CASE CatchUp(v)
  BY <1>3 DEF CatchUp
<1>4. CASE Greet(v)
  BY <1>4 DEF Greet
<1>5. CASE Attach(v)
  BY <1>5 DEF Attach
<1>6. CASE Pull(v)
  BY <1>6 DEF Pull
<1>7. CASE PullExit(v)
  BY <1>7 DEF PullExit
<1>8. CASE PullClose(v)
  BY <1>8 DEF PullClose
<1>9. CASE Drained(v)
  BY <1>9 DEF Drained
<1>10. CASE TakeLagging(v)
  BY <1>10 DEF TakeLagging
<1>11. CASE TerminalEnds(v)
  BY <1>11 DEF TerminalEnds
<1>12. CASE Drop(v)
  BY <1>12 DEF Drop
<1> QED BY <1>1, <1>2, <1>3, <1>4, <1>5, <1>6, <1>7, <1>8, <1>9, <1>10, <1>11, <1>12 DEF Viewer

LEMMA ViewerKeepsCounts ==
  ASSUME TypeOK, PumpInv, NEW v \in Viewers, Viewer(v) \/ Drop(v)
  PROVE  PumpInv'
<1>1. UNCHANGED <<output, step, frame>> /\ targets' \subseteq targets
  BY ViewerApart
<1>2. CountInv' /\ ScreenInv' /\ FrameInv'
  BY <1>1 DEF PumpInv, CountInv, ScreenInv, Ended, FrameInv, output
<1>3. SubsInv'
  <2>1. step' = step /\ targets' \subseteq targets /\ subs' = {w \in Viewers : pc'[w] # "off"}
    BY ViewerApart
  <2>2. \A w \in targets' : pc'[w] # "off"
    <3> SUFFICES ASSUME NEW w \in targets' PROVE pc'[w] # "off"
      OBVIOUS
    <3>1. w \in Viewers /\ pc[w] # "off"
      BY <2>1 DEF PumpInv, SubsInv
    <3>2. CASE w = v
      BY <3>2, ViewerApart
    <3>3. CASE w # v
      BY <3>1, <3>3, ViewerApart
    <3> QED BY <3>2, <3>3
  <2> QED BY <2>1, <2>2 DEF PumpInv, SubsInv
<1> QED BY <1>2, <1>3 DEF PumpInv

LEMMA Counted == Spec => [](TypeOK /\ PumpInv)
<1>1. Init => TypeOK /\ PumpInv
  <2> SUFFICES ASSUME Init PROVE TypeOK /\ PumpInv
    OBVIOUS
  <2>1. TypeOK
    <3>1. 0 \in Positions /\ 0 \in 0..Capacity /\ <<>> \in Seq(Frame) /\ Len(<<>>) <= Depth
      BY DEF Positions
    <3>2. Drawn(0) \in View
      BY <3>1, DrawnType
    <3> QED BY <3>1, <3>2 DEF Init, TypeOK, PumpSteps, ViewerSteps
  <2>2. PumpInv
    <3>1. 0 \in Positions
      BY DEF Positions
    <3> QED BY <3>1, CompleteFacts
            DEF Init, PumpInv, CountInv, ScreenInv, Ended, FrameInv, SubsInv, Positions
  <2> QED BY <2>1, <2>2
<1>2. TypeOK /\ PumpInv /\ [Next]_vars => TypeOK' /\ PumpInv'
  <2> SUFFICES ASSUME TypeOK, PumpInv, [Next]_vars PROVE TypeOK' /\ PumpInv'
    OBVIOUS
  <2>1. CASE Pump \/ WatcherRecords
    BY <2>1, PumpTypes, PumpKeepsCounts
  <2>2. CASE \E v \in Viewers : Viewer(v) \/ Drop(v)
    BY <2>2, ViewerTypes, ViewerKeepsCounts
  <2>3. CASE UNCHANGED vars
    BY <2>3 DEF vars, TypeOK, PumpInv, CountInv, ScreenInv, Ended, FrameInv, SubsInv
  <2> QED BY <2>1, <2>2, <2>3 DEF Next
<1> QED BY <1>1, <1>2, PTL DEF Spec

\* Every record of the session has its type, at every reachable state: no queue
\* is longer than QUEUE_DEPTH, no ring longer than its budget and no counter
\* past the session's output (ring.rs, fanout.rs).
THEOREM StreamTypes == Spec => []TypeOK
BY Counted, PTL

-----------------------------------------------------------------------------
(* The page's cursor.                                                      *)

\* A catch-up frame's tag was the session's sequence when it was read, which
\* only grows; and without a masked tail the sequence is never a character
\* ahead of the screen.
CursorInv ==
  /\ \A v \in Viewers : tag[v] <= seq
  /\ step \notin {"tail", "flushed"}
  /\ CursorHonest

LEMMA PumpApart ==
  ASSUME TypeOK, PumpInv, Pump \/ WatcherRecords
  PROVE  /\ UNCHANGED viewer
         /\ seq' >= seq /\ vt' >= vt
         /\ ~Masked /\ step \notin {"tail", "flushed"} => step' \notin {"tail", "flushed"}
<1>1. vt \in Nat /\ seq \in Nat /\ ring.seq \in Nat
  BY DEF TypeOK, Positions
<1>2. UNCHANGED viewer
  BY DEF Pump, Work, Read, PushRing, StoreSeq, FlushTail, StoreTail, DrawTail, DrawRest,
         CopyTargets, Offer, Broadcasted, EndOfFile, RecordExit, WatcherRecords, Finish, viewer
<1>3. ~Masked /\ step \notin {"tail", "flushed"} => step' \notin {"tail", "flushed"}
  BY KindOf DEF Pump, Work, Read, PushRing, StoreSeq, FlushTail, StoreTail, DrawTail,
         DrawRest, CopyTargets, Offer, Broadcasted, EndOfFile, RecordExit, WatcherRecords,
         Finish, pump,
         PumpInv, FrameInv
<1>4. vt' >= vt
  BY PumpKeepsScreen
<1>5. seq' >= seq
  <2>1. CASE StoreSeq \/ StoreTail
    BY <1>1, <2>1 DEF StoreSeq, StoreTail, PumpInv, CountInv
  <2>2. CASE ~StoreSeq /\ ~StoreTail
    <3>1. seq' = seq
      BY <2>2 DEF Pump, Work, Read, PushRing, FlushTail, DrawTail, DrawRest, CopyTargets,
           Offer, Broadcasted, EndOfFile, RecordExit, WatcherRecords, Finish, output
    <3> QED BY <1>1, <3>1
  <2> QED BY <2>1, <2>2
<1> QED BY <1>2, <1>3, <1>4, <1>5

\* What a page or a terminal can find: the screen and the ring reach every
\* character of the stored sequence, or of where a tail not drawn yet starts.
LEMMA ScreenReaches ==
  ASSUME TypeOK, PumpInv
  PROVE  /\ step # "flushed" => Complete[seq] <= vt
         /\ Complete[seq] <= ring.seq /\ seq <= ring.seq
         /\ step \in {"flushed", "stored", "send"} /\ frame \in Output =>
              /\ frame.from \in Positions /\ frame.from <= seq
              /\ Complete[frame.from] <= vt /\ Complete[frame.from] <= ring.seq
<1>1. /\ vt \in Nat /\ seq \in Nat /\ ring.seq \in Nat /\ seq \in Positions
      /\ Complete[seq] \in Nat /\ Complete[seq] <= seq
  BY CompleteFacts DEF TypeOK, Positions
<1>2. frame \in Output => /\ frame.from \in Positions /\ frame.from \in Nat
                          /\ Complete[frame.from] \in Nat /\ Complete[frame.from] <= frame.from
  BY CompleteFacts DEF Output
<1> QED BY <1>1, <1>2 DEF PumpInv, CountInv, ScreenInv, FrameInv

LEMMA PumpKeepsCursor ==
  ASSUME TypeOK, PumpInv, CursorInv, ~Masked, Pump \/ WatcherRecords
  PROVE  CursorInv'
<1>1. UNCHANGED <<tag, cursor, view>> /\ seq' >= seq /\ step' \notin {"tail", "flushed"}
  BY PumpApart DEF CursorInv, viewer
<1>2. CursorHonest'
  BY <1>1 DEF CursorInv, CursorHonest
<1>3. \A v \in Viewers : tag'[v] <= seq'
  BY <1>1, PumpTypes DEF CursorInv, TypeOK, Positions
<1> QED BY <1>1, <1>2, <1>3 DEF CursorInv

LEMMA ViewerKeepsCursor ==
  ASSUME TypeOK, PumpInv, CursorInv, NEW v \in Viewers, Viewer(v) \/ Drop(v)
  PROVE  CursorInv'
<1> USE DEF TypeOK
<1>1. /\ seq' = seq /\ step' = step
      /\ \A w \in Viewers \ {v} : tag'[w] = tag[w] /\ view'[w] = view[w]
      /\ \A b \in Browsers \ {v} : cursor'[b] = cursor[b]
  BY ViewerApart DEF output
<1>2. \A w \in Viewers \ {v} : tag'[w] <= seq'
  BY <1>1 DEF CursorInv
<1>3. \A b \in Browsers \ {v} : cursor'[b] # None => Complete[cursor'[b]] <= view'[b].upto
  BY <1>1 DEF CursorInv, CursorHonest
<1>4. /\ tag'[v] <= seq'
      /\ v \in Browsers /\ cursor'[v] # None => Complete[cursor'[v]] <= view'[v].upto
  <2>1. CASE Stamp(v)
    BY <2>1 DEF Stamp, CursorInv, CursorHonest, Positions, output
  <2>2. CASE CatchUp(v)
    <3>1. tag'[v] = tag[v] /\ cursor'[v] = tag[v] /\ v \in Browsers
      BY <2>2 DEF CatchUp
    <3>2. tag[v] <= seq /\ tag[v] \in Nat /\ seq \in Nat /\ vt \in Nat /\ ring.seq \in Nat
      BY DEF CursorInv, Positions
    <3>3. /\ Complete[tag[v]] \in Nat /\ Complete[tag[v]] <= Complete[seq] /\ Complete[seq] \in Nat
          /\ Complete[seq] <= vt /\ Complete[seq] <= ring.seq
      BY <3>2, ScreenReaches, CompleteFacts DEF CursorInv
    <3>4. view'[v].upto >= Complete[seq]
      <4>1. CASE view'[v] = Drawn(vt)
        BY <3>2, <3>3, <4>1, DrawnType
      <4>2. CASE cursor[v] # None /\ view'[v] = Resumed(view[v], cursor[v], ring.seq)
        <5>1. cursor[v] \in Positions /\ ring.seq \in Positions /\ view[v] \in View
          BY <3>1, <4>2
        <5> DEFINE u == Resumed(view[v], cursor[v], ring.seq)
        <5>2. u \in View /\ u.upto >= ring.seq
          BY <5>1, ResumedType
        <5> HIDE DEF u
        <5>3. u.upto \in Nat /\ view'[v] = u
          BY <4>2, <5>2 DEF View, Positions, u
        <5> QED BY <3>2, <3>3, <5>2, <5>3
      <4> QED BY <2>2, <4>1, <4>2 DEF CatchUp, Show
    <3>5. view'[v].upto \in Nat
      BY ViewerTypes DEF View, Positions
    <3>6. Complete[cursor'[v]] <= view'[v].upto
      BY <3>1, <3>3, <3>4, <3>5
    <3> QED BY <1>1, <3>1, <3>2, <3>6
  <2>3. CASE Pull(v)
    <3>1. /\ Head(queue[v]).from \in Positions /\ Head(queue[v]).to \in Positions
          /\ view[v] \in View
      BY <2>3 DEF Pull, Output
    <3>2. view'[v].upto >= Head(queue[v]).to
      BY <2>3, <3>1, WrittenType DEF Pull, Show
    <3>3. tag' = tag /\ (v \in Browsers => cursor'[v] = Head(queue[v]).to)
      BY <2>3 DEF Pull
    <3>4. view'[v].upto \in Nat
      BY ViewerTypes DEF View, Positions
    <3>5. Complete[Head(queue[v]).to] <= Head(queue[v]).to /\ Complete[Head(queue[v]).to] \in Nat
      BY <3>1, CompleteFacts
    <3>6. Head(queue[v]).to \in Nat
      BY <3>1 DEF Positions
    <3>7. Complete[Head(queue[v]).to] <= view'[v].upto
      BY <3>2, <3>4, <3>5, <3>6
    <3>8. tag'[v] <= seq'
      BY <1>1, <3>3 DEF CursorInv
    <3> QED BY <3>3, <3>7, <3>8
  <2>4. CASE Attach(v)
    BY <1>1, <2>4 DEF Attach, CursorInv
  <2>5. CASE /\ tag' = tag /\ cursor' = cursor /\ view' = view
    BY <1>1, <2>5 DEF CursorInv, CursorHonest
  <2> QED
    BY <2>1, <2>2, <2>3, <2>4, <2>5
    DEF Viewer, Join, Greet, PullExit, PullClose, Drained, TakeLagging, TerminalEnds, Drop
<1> QED BY <1>1, <1>2, <1>3, <1>4 DEF CursorInv, CursorHonest

LEMMA CursorKept ==
  ASSUME ~Masked
  PROVE  Spec => []CursorInv
<1>1. Init => CursorInv
  BY DEF Init, CursorInv, CursorHonest
<1>2. TypeOK /\ PumpInv /\ CursorInv /\ [Next]_vars => CursorInv'
  <2> SUFFICES ASSUME TypeOK, PumpInv, CursorInv, [Next]_vars PROVE CursorInv'
    OBVIOUS
  <2>1. CASE Pump \/ WatcherRecords
    BY <2>1, PumpKeepsCursor
  <2>2. CASE \E v \in Viewers : Viewer(v) \/ Drop(v)
    BY <2>2, ViewerKeepsCursor
  <2>3. CASE UNCHANGED vars
    BY <2>3 DEF vars, CursorInv, CursorHonest
  <2> QED BY <2>1, <2>2, <2>3 DEF Next
<1> QED BY <1>1, <1>2, Counted, PTL DEF Spec

\* The page's cursor is never a complete character ahead of what its terminal
\* was sent, as long as the scrubber holds nothing back (Masked: README, what
\* the properties do not cover): a reconnect skips no character.
THEOREM CursorIsHonest ==
  ASSUME ~Masked
  PROVE  Spec => []CursorHonest
<1>1. CursorInv => CursorHonest
  BY DEF CursorInv
<1> QED BY <1>1, CursorKept, PTL

-----------------------------------------------------------------------------
(* A queue that continues a view: each output frame starts no later than   *)
(* the end of an earlier frame of the queue or, up to the first bytes of a *)
(* character, the view's end, so pulling the frames in order opens no hole.*)

Outputs(q) == {i \in 1..Len(q) : q[i] \in Output}
Continues(q, upto) ==
  \A i \in Outputs(q) :
    Complete[q[i].from] <= upto \/ \E j \in Outputs(q) : j < i /\ q[i].from <= q[j].to
Reaches(q, upto, n) == Complete[n] <= upto \/ \E j \in Outputs(q) : n <= q[j].to

LEMMA AppendContinues ==
  ASSUME NEW q \in Seq(Frame), NEW f \in Frame, NEW upto \in Nat, Continues(q, upto),
         f \in Output => Reaches(q, upto, f.from)
  PROVE  Continues(Append(q, f), upto)
<1> DEFINE r == Append(q, f)
<1>1. /\ Len(r) = Len(q) + 1 /\ Len(q) \in Nat
      /\ \A i \in 1..Len(q) : r[i] = q[i]
      /\ r[Len(q) + 1] = f
  OBVIOUS
<1> HIDE DEF r
<1>2. Outputs(q) = Outputs(r) \cap 1..Len(q)
  BY <1>1 DEF Outputs
<1> SUFFICES ASSUME NEW i \in Outputs(r)
             PROVE  Complete[r[i].from] <= upto \/ \E j \in Outputs(r) : j < i /\ r[i].from <= r[j].to
  BY DEF Continues, r
<1>3. CASE i \in 1..Len(q)
  <2>1. i \in Outputs(q) /\ r[i] = q[i]
    BY <1>1, <1>2, <1>3
  <2>2. CASE Complete[q[i].from] <= upto
    BY <2>1, <2>2
  <2>3. CASE \E j \in Outputs(q) : j < i /\ q[i].from <= q[j].to
    BY <1>1, <1>2, <2>1, <2>3 DEF Outputs
  <2> QED BY <2>1, <2>2, <2>3 DEF Continues
<1>4. CASE i = Len(q) + 1
  <2>1. r[i] = f /\ f \in Output
    BY <1>1, <1>4 DEF Outputs
  <2>2. CASE \E j \in Outputs(q) : f.from <= q[j].to
    BY <1>1, <1>2, <1>4, <2>1, <2>2 DEF Outputs
  <2> QED BY <2>1, <2>2 DEF Reaches
<1> QED BY <1>1, <1>3, <1>4 DEF Outputs

LEMMA AppendReaches ==
  ASSUME NEW q \in Seq(Frame), NEW f \in Frame, NEW upto \in Nat, NEW n \in Nat,
         Reaches(q, upto, n) \/ (f \in Output /\ n <= f.to)
  PROVE  Reaches(Append(q, f), upto, n)
<1> DEFINE r == Append(q, f)
<1>1. /\ Len(r) = Len(q) + 1 /\ Len(q) \in Nat
      /\ \A i \in 1..Len(q) : r[i] = q[i]
      /\ r[Len(q) + 1] = f
  OBVIOUS
<1> HIDE DEF r
<1>2. CASE \E j \in Outputs(q) : n <= q[j].to
  BY <1>1, <1>2 DEF Reaches, Outputs, r
<1>3. CASE f \in Output /\ n <= f.to
  <2>1. Len(q) + 1 \in Outputs(r)
    BY <1>1, <1>3 DEF Outputs
  <2> QED BY <1>1, <1>3, <2>1 DEF Reaches, r
<1> QED BY <1>2, <1>3 DEF Reaches

\* Pulling the head moves the view to its end.
LEMMA PullContinues ==
  ASSUME NEW q \in Seq(Frame), q # <<>>, NEW upto \in Nat, NEW later \in Nat,
         upto <= later, Head(q) \in Output => Head(q).to <= later
  PROVE  /\ Continues(q, upto) => Continues(Tail(q), later)
         /\ \A n \in Positions : Reaches(q, upto, n) => Reaches(Tail(q), later, n)
         /\ Continues(q, upto) /\ Head(q) \in Output => Complete[Head(q).from] <= upto
<1> DEFINE r == Tail(q)
<1>1. /\ Len(q) \in Nat \ {0} /\ Len(r) = Len(q) - 1 /\ Head(q) = q[1]
      /\ \A i \in 1..Len(r) : r[i] = q[i + 1]
  OBVIOUS
<1> HIDE DEF r
<1>2. \A i \in Outputs(q) : /\ q[i].from \in Positions /\ q[i].from \in Nat /\ q[i].to \in Nat
                            /\ Complete[q[i].from] \in Nat /\ Complete[q[i].from] <= q[i].from
  BY CompleteFacts DEF Outputs, Output, Positions
<1>3. \A i \in Outputs(q) : i = 1 \/ (i - 1 \in Outputs(r) /\ r[i - 1] = q[i])
  BY <1>1 DEF Outputs
<1>4. \A i \in Outputs(r) : i + 1 \in Outputs(q) /\ r[i] = q[i + 1]
  BY <1>1 DEF Outputs
<1>5. ASSUME Continues(q, upto) PROVE Continues(r, later)
  <2> SUFFICES ASSUME NEW i \in Outputs(r)
               PROVE  Complete[r[i].from] <= later \/ \E j \in Outputs(r) : j < i /\ r[i].from <= r[j].to
    BY DEF Continues
  <2>1. i + 1 \in Outputs(q) /\ r[i] = q[i + 1] /\ i \in Nat
    BY <1>4 DEF Outputs
  <2>2. CASE Complete[q[i + 1].from] <= upto
    BY <1>2, <2>1, <2>2
  <2>3. CASE \E j \in Outputs(q) : j < i + 1 /\ q[i + 1].from <= q[j].to
    <3>1. PICK j \in Outputs(q) : j < i + 1 /\ q[i + 1].from <= q[j].to
      BY <2>3
    <3>2. CASE j = 1
      BY <1>1, <1>2, <2>1, <3>1, <3>2 DEF Outputs
    <3>3. CASE j # 1
      <4>1. j - 1 \in Outputs(r) /\ r[j - 1] = q[j] /\ j - 1 < i
        BY <1>3, <2>1, <3>1, <3>3 DEF Outputs
      <4> QED BY <2>1, <3>1, <4>1
    <3> QED BY <3>2, <3>3
  <2> QED BY <1>5, <2>1, <2>2, <2>3 DEF Continues
<1>6. ASSUME NEW n \in Positions, Reaches(q, upto, n) PROVE Reaches(r, later, n)
  <2> USE CompleteFacts
  <2>1. CASE Complete[n] <= upto
    BY <2>1 DEF Reaches
  <2>2. CASE \E j \in Outputs(q) : n <= q[j].to
    <3>1. PICK j \in Outputs(q) : n <= q[j].to
      BY <2>2
    <3>2. CASE j = 1
      BY <1>1, <1>2, <3>1, <3>2 DEF Reaches, Outputs
    <3>3. CASE j # 1
      BY <1>3, <3>1, <3>3 DEF Reaches
    <3> QED BY <3>2, <3>3
  <2> QED BY <1>6, <2>1, <2>2 DEF Reaches
<1>7. ASSUME Continues(q, upto), Head(q) \in Output PROVE Complete[Head(q).from] <= upto
  <2>1. 1 \in Outputs(q) /\ Head(q) = q[1]
    BY <1>1, <1>7 DEF Outputs
  <2> QED BY <1>7, <2>1 DEF Continues, Outputs
<1> QED BY <1>5, <1>6, <1>7 DEF r

\* A view drawn past every start in its queue is continued by it.
LEMMA DrawnContinues ==
  ASSUME NEW q, NEW upto \in Nat, \A i \in Outputs(q) : Complete[q[i].from] <= upto
  PROVE  Continues(q, upto)
BY DEF Continues

-----------------------------------------------------------------------------
(* What the queues hold, and what an unflagged viewer still has to come.   *)

\* A queued output is stored, and no character newer than the screen; close is
\* the last frame.
Closing(v) ==
  step \in {"closed", "done"} \/ (step = "send" /\ frame.kind = "close" /\ v \notin targets)
Queued(v) ==
  /\ pc[v] = "off" => queue[v] = <<>>
  /\ \A i \in Outputs(queue[v]) :
       /\ queue[v][i].from <= queue[v][i].to /\ queue[v][i].to <= seq
       /\ Complete[queue[v][i].to] <= vt
  /\ \A i \in 1..Len(queue[v]) :
       queue[v][i].kind = "close" => i = Len(queue[v]) /\ Closing(v)

\* The frame on its way to a viewer starts where the next one must; once it was
\* offered the next starts at the sequence.
Pending(v) ==
  step \in {"flushed", "stored"} \/ (step = "send" /\ frame \in Output /\ v \in targets)
Bound(v) == IF Pending(v) THEN frame.from ELSE seq
Following == {"greet", "live", "check"}
Follows(v) ==
  pc[v] \in Following /\ ~lagging[v] =>
    Continues(queue[v], view[v].upto) /\ Reaches(queue[v], view[v].upto, Bound(v))

FollowInv == \A v \in Viewers : Queued(v) /\ Follows(v)

LEMMA Numbers ==
  ASSUME TypeOK, PumpInv
  PROVE  /\ vt \in Nat /\ seq \in Nat /\ ring.seq \in Nat
         /\ got \in Nat /\ seq \in Positions
         /\ \A v \in Viewers : /\ queue[v] \in Seq(Frame) /\ view[v].upto \in Nat
                              /\ Bound(v) \in Positions /\ Bound(v) \in Nat
         /\ \A v \in Viewers : \A i \in Outputs(queue[v]) :
              /\ queue[v][i].from \in Positions /\ queue[v][i].to \in Positions
              /\ queue[v][i].from \in Nat /\ queue[v][i].to \in Nat
<1>1. \A f \in Output : f.from \in Positions /\ f.to \in Positions /\ f.from \in Nat /\ f.to \in Nat
  BY DEF Output, Positions
<1>2. /\ vt \in Nat /\ seq \in Nat /\ ring.seq \in Nat /\ got \in Nat /\ seq \in Positions
      /\ \A v \in Viewers : queue[v] \in Seq(Frame) /\ view[v].upto \in Nat
  BY DEF TypeOK, Positions, View
<1>3. ASSUME NEW v \in Viewers PROVE Bound(v) \in Positions /\ Bound(v) \in Nat
  BY <1>1, <1>2 DEF Bound, Pending, PumpInv, FrameInv
<1> QED BY <1>1, <1>2, <1>3 DEF Outputs

\* Only Offer touches a queue or a flag.
LEMMA OfferOnly ==
  ASSUME Pump \/ WatcherRecords, ~Offer
  PROVE  UNCHANGED <<queue, lagging>>
BY DEF Pump, Work, Read, PushRing, StoreSeq, FlushTail, StoreTail, DrawTail, DrawRest,
       CopyTargets, Broadcasted, EndOfFile, RecordExit, WatcherRecords, Finish, pump

LEMMA BoundKept ==
  ASSUME TypeOK, PumpInv, Pump \/ WatcherRecords, ~Offer, NEW v \in Viewers, pc[v] # "off"
  PROVE  /\ Bound(v)' = Bound(v)
         /\ Closing(v) => Closing(v)'
<1>1. CASE StoreSeq \/ StoreTail
  BY <1>1 DEF StoreSeq, StoreTail, Bound, Pending, Closing
<1>2. CASE CopyTargets
  <2>1. v \in subs
    BY DEF PumpInv, SubsInv
  <2>2. step = "stored" => frame \in Output
    BY DEF PumpInv, FrameInv
  <2> QED BY <1>2, <2>1, <2>2, KindOf DEF CopyTargets, output, Bound, Pending, Closing
<1>3. CASE Broadcasted
  BY <1>3, KindOf DEF Broadcasted, output, Bound, Pending, Closing, PumpInv, FrameInv
<1>4. CASE DrawTail \/ DrawRest
  BY <1>4 DEF DrawTail, DrawRest, Bound, Pending, Closing
<1>5. CASE Read \/ PushRing \/ FlushTail \/ EndOfFile \/ RecordExit \/ Finish
  BY <1>5 DEF Read, PushRing, FlushTail, EndOfFile, RecordExit, Finish, output, Bound, Pending,
     Closing
<1>6. CASE WatcherRecords
  BY <1>6 DEF WatcherRecords, pump, Bound, Pending, Closing
<1> QED BY <1>1, <1>2, <1>3, <1>4, <1>5, <1>6 DEF Pump, Work

LEMMA OfferKeepsFollows ==
  ASSUME TypeOK, PumpInv, FollowInv, Offer
  PROVE  FollowInv'
<1>1. PICK v \in targets :
        /\ targets' = targets \ {v}
        /\ \/ /\ Len(queue[v]) < Depth
              /\ queue' = [queue EXCEPT ![v] = Append(queue[v], frame)] /\ lagging' = lagging
           \/ lagging' = [lagging EXCEPT ![v] = TRUE] /\ queue' = queue
  BY DEF Offer
<1>2. /\ UNCHANGED <<got, vt, ring, seq, step, frame, pc, view>> /\ step = "send"
      /\ v \in Viewers /\ pc[v] # "off" /\ frame \in Frame
  BY DEF Offer, output, viewer, PumpInv, SubsInv, FrameInv
<1>3. /\ frame \in Output => /\ frame.to = seq /\ frame.from <= seq
                             /\ frame.from \in Nat /\ frame.to \in Nat
      /\ Complete[seq] <= vt
  BY <1>2 DEF PumpInv, FrameInv, ScreenInv, Output, Positions
<1>4. ASSUME NEW w \in Viewers, w # v PROVE Queued(w)' /\ Follows(w)'
  <2>1. /\ queue'[w] = queue[w] /\ lagging'[w] = lagging[w] /\ (w \in targets' <=> w \in targets)
    BY <1>1, <1>4 DEF TypeOK
  <2> QED BY <1>2, <1>4, <2>1 DEF FollowInv, Queued, Follows, Bound, Pending, Closing
<1>5. Queued(v)' /\ Follows(v)'
  <2>1. CASE lagging' = [lagging EXCEPT ![v] = TRUE] /\ queue' = queue
    <3>1. lagging'[v]
      BY <1>2, <2>1 DEF TypeOK
    <3>2. Closing(v) => Closing(v)'
      BY <1>1, <1>2 DEF Closing
    <3> QED BY <1>2, <2>1, <3>1, <3>2 DEF FollowInv, Queued, Follows
  <2>2. CASE /\ Len(queue[v]) < Depth
             /\ queue' = [queue EXCEPT ![v] = Append(queue[v], frame)] /\ lagging' = lagging
    <3> DEFINE q == queue[v]
               r == Append(q, frame)
               upto == view[v].upto
    <3>1. queue'[v] = r /\ q \in Seq(Frame) /\ upto \in Nat /\ v \notin targets'
      BY <1>1, <1>2, <2>2, Numbers DEF TypeOK
    <3>2. /\ Len(r) = Len(q) + 1 /\ Len(q) \in Nat
          /\ \A i \in 1..Len(q) : r[i] = q[i]
          /\ r[Len(q) + 1] = frame
      BY <3>1
    <3>3. Closing(v)' <=> frame.kind = "close"
      BY <1>2, <3>1 DEF Closing
    <3>4. ~Closing(v)
      BY <1>1, <1>2 DEF Closing
    <3> HIDE DEF r
    <3>5. Queued(v)'
      <4>1. ASSUME NEW i \in 1..Len(r), r[i].kind = "close"
            PROVE  i = Len(r) /\ Closing(v)'
        <5>1. i \notin 1..Len(q)
          BY <1>2, <3>2, <3>4, <4>1 DEF FollowInv, Queued
        <5>2. i = Len(r)
          BY <3>2, <5>1
        <5> QED BY <3>2, <3>3, <4>1, <5>2
      <4>2. \A i \in Outputs(r) : i \in Outputs(q) \/ (i = Len(r) /\ frame \in Output)
        BY <3>2 DEF Outputs
      <4>3. ASSUME NEW i \in Outputs(r)
            PROVE  r[i].from <= r[i].to /\ r[i].to <= seq /\ Complete[r[i].to] <= vt
        <5>1. CASE i \in Outputs(q)
          <6>1. r[i] = q[i]
            BY <3>2, <5>1 DEF Outputs
          <6> QED BY <1>2, <5>1, <6>1 DEF FollowInv, Queued
        <5>2. CASE i = Len(r) /\ frame \in Output
          <6>1. r[i] = frame /\ seq \in Nat
            BY <3>2, <5>2, Numbers
          <6> QED BY <1>3, <5>2, <6>1
        <5> QED BY <4>2, <5>1, <5>2
      <4> QED BY <1>2, <3>1, <4>1, <4>3 DEF Queued
    <3>6. Follows(v)'
      <4> SUFFICES ASSUME pc[v] \in Following, ~lagging[v]
                   PROVE  Continues(r, upto) /\ Reaches(r, upto, seq)
        <5>1. Bound(v)' = seq
          BY <1>2, <3>1 DEF Bound, Pending
        <5> QED BY <1>2, <2>2, <3>1, <5>1 DEF Follows
      <4>1. Continues(q, upto) /\ Reaches(q, upto, Bound(v))
        BY <1>2 DEF FollowInv, Follows
      <4>2. Bound(v) = IF frame \in Output THEN frame.from ELSE seq
        BY <1>1, <1>2 DEF Bound, Pending
      <4>3. Continues(r, upto)
        BY <1>2, <3>1, <4>1, <4>2, AppendContinues DEF r
      <4>4. Reaches(q, upto, seq) \/ (frame \in Output /\ seq <= frame.to)
        BY <1>3, <4>1, <4>2, Numbers
      <4>5. Reaches(r, upto, seq)
        BY <1>2, <3>1, <4>4, Numbers, AppendReaches DEF r
      <4> QED BY <4>3, <4>5
    <3> QED BY <3>5, <3>6
  <2> QED BY <1>1, <2>1, <2>2
<1> QED BY <1>4, <1>5 DEF FollowInv

LEMMA PumpKeepsFollows ==
  ASSUME TypeOK, PumpInv, FollowInv, Pump \/ WatcherRecords
  PROVE  FollowInv'
<1>1. CASE ~Offer
  <2> SUFFICES ASSUME NEW v \in Viewers PROVE Queued(v)' /\ Follows(v)'
    BY DEF FollowInv
  <2>1. UNCHANGED <<queue, lagging, pc, view>> /\ vt' >= vt /\ seq' >= seq
    BY <1>1, OfferOnly, PumpApart DEF viewer
  <2>2. vt' \in Nat /\ seq' \in Nat
    BY PumpTypes DEF TypeOK, Positions
  <2>3. pc[v] # "off" => Bound(v)' = Bound(v) /\ (Closing(v) => Closing(v)')
    BY <1>1, BoundKept
  <2>4. Queued(v)'
    <3>1. CASE pc[v] = "off"
      BY <2>1, <3>1 DEF FollowInv, Queued, Outputs
    <3>2. CASE pc[v] # "off"
      <4>1. ASSUME NEW i \in Outputs(queue[v])
            PROVE  Complete[queue[v][i].to] <= vt' /\ queue[v][i].to <= seq'
        <5>1. queue[v][i].to \in Positions /\ queue[v][i].to \in Nat
          BY Numbers
        <5>2. Complete[queue[v][i].to] \in Nat
          BY <5>1, CompleteFacts
        <5>3. Complete[queue[v][i].to] <= vt /\ queue[v][i].to <= seq
          BY DEF FollowInv, Queued
        <5> QED BY <2>1, <2>2, <5>1, <5>2, <5>3, Numbers
      <4> QED BY <2>1, <2>3, <3>2, <4>1 DEF FollowInv, Queued
    <3> QED BY <3>1, <3>2
  <2>5. Follows(v)'
    BY <2>1, <2>3 DEF FollowInv, Follows, Following
  <2> QED BY <2>4, <2>5
<1> QED BY <1>1, OfferKeepsFollows

\* What is drawn for a viewer reaches past every frame it has queued, and as far
\* as the next must start.
LEMMA RedrawnFollows ==
  ASSUME TypeOK, PumpInv, FollowInv, NEW v \in Viewers, NEW upto \in Nat,
         upto >= vt \/ upto >= ring.seq
  PROVE  Continues(queue[v], upto) /\ Reaches(queue[v], upto, Bound(v))
<1>1. ASSUME NEW i \in Outputs(queue[v]) PROVE Complete[queue[v][i].from] <= upto
  <2> DEFINE f == queue[v][i]
  <2>1. f.from \in Positions /\ f.to \in Positions /\ f.from <= f.to
    BY Numbers DEF FollowInv, Queued
  <2>2. f.to <= seq /\ Complete[f.to] <= vt
    BY DEF FollowInv, Queued
  <2> HIDE DEF f
  <2>3. Complete[f.from] <= Complete[f.to] /\ Complete[f.to] <= f.to
    BY <2>1, CompleteFacts
  <2>4. Complete[f.from] \in Nat /\ Complete[f.to] \in Nat /\ f.to \in Nat
    BY <2>1, CompleteFacts
  <2>5. seq <= ring.seq
    BY ScreenReaches
  <2>6. Complete[f.from] <= vt /\ Complete[f.from] <= ring.seq
    BY <2>2, <2>3, <2>4, <2>5, Numbers
  <2> QED BY <2>4, <2>6, Numbers DEF f
<1>2. Complete[Bound(v)] <= vt /\ Complete[Bound(v)] <= ring.seq
  <2>1. CASE Pending(v)
    <3>1. frame \in Output /\ Bound(v) = frame.from /\ step \in {"flushed", "stored", "send"}
      BY <2>1 DEF Pending, PumpInv, FrameInv, Bound
    <3> QED BY <3>1, ScreenReaches
  <2>2. CASE ~Pending(v)
    BY <2>2, ScreenReaches DEF Bound, Pending
  <2> QED BY <2>1, <2>2
<1>3. Complete[Bound(v)] <= upto
  <2>1. Complete[Bound(v)] \in Nat
    BY Numbers, CompleteFacts
  <2> QED BY <1>2, <2>1, Numbers
<1> QED BY <1>1, <1>3, DrawnContinues DEF Reaches

LEMMA ViewerKeepsFollows ==
  ASSUME TypeOK, PumpInv, FollowInv, NEW v \in Viewers, Viewer(v) \/ Drop(v)
  PROVE  FollowInv'
<1>1. /\ UNCHANGED <<got, vt, ring, seq, step, frame>>
      /\ targets' \in {targets, targets \ {v}}
      /\ \A w \in Viewers \ {v} : /\ pc'[w] = pc[w] /\ queue'[w] = queue[w]
                                  /\ lagging'[w] = lagging[w] /\ view'[w] = view[w]
  BY ViewerApart DEF output
<1>2. ASSUME NEW w \in Viewers \ {v} PROVE Queued(w)' /\ Follows(w)'
  BY <1>1 DEF FollowInv, Queued, Follows, Bound, Pending, Closing
<1> SUFFICES Queued(v)' /\ Follows(v)'
  BY <1>2 DEF FollowInv
<1>3. queue[v] \in Seq(Frame) /\ view[v] \in View /\ view[v].upto \in Nat /\ vt \in Positions
  BY Numbers DEF TypeOK
<1>4. CASE pc'[v] = "off" /\ queue'[v] = <<>>
  BY <1>1, <1>4 DEF Queued, Follows, Following, Outputs
<1>5. CASE Join(v) \/ Stamp(v)
  <2>1. UNCHANGED <<queue, targets>> /\ pc[v] # "redraw" /\ pc'[v] \in {"joined", "stamped", "redraw"}
    BY <1>5 DEF Join, Stamp, Goto, pump, TypeOK
  <2> QED BY <1>1, <2>1 DEF FollowInv, Queued, Follows, Following, Outputs, Closing
<1>6. CASE CatchUp(v) \/ Attach(v)
  <2>1. UNCHANGED <<queue, targets, lagging>> /\ pc'[v] # "off"
    BY <1>6 DEF CatchUp, Attach, Goto, pump, TypeOK
  <2>2. view'[v].upto >= vt \/ view'[v].upto >= ring.seq
    <3>1. CASE view'[v] = Drawn(vt)
      BY <1>3, <3>1, DrawnType, Numbers
    <3>2. CASE /\ v \in Browsers /\ cursor[v] # None
               /\ view'[v] = Resumed(view[v], cursor[v], ring.seq)
      <4>1. cursor[v] \in Positions /\ ring.seq \in Positions
        BY <3>2 DEF TypeOK
      <4>2. Resumed(view[v], cursor[v], ring.seq).upto >= ring.seq
        BY <1>3, <4>1, ResumedType
      <4> QED BY <3>2, <4>2
    <3> QED BY <1>6, <3>1, <3>2 DEF CatchUp, Attach, Show, TypeOK
  <2>3. view'[v].upto \in Nat
    BY ViewerTypes DEF TypeOK, View, Positions
  <2>4. Bound(v)' = Bound(v)
    BY <1>1, <2>1 DEF Bound, Pending
  <2>5. Follows(v)'
    BY <2>1, <2>2, <2>3, <2>4, RedrawnFollows DEF Follows
  <2> QED BY <1>1, <2>1, <2>5 DEF FollowInv, Queued, Outputs, Closing
<1>7. CASE Greet(v) \/ Drained(v) \/ TakeLagging(v)
  <2>1. /\ UNCHANGED <<queue, targets, view>> /\ pc'[v] # "off"
        /\ pc'[v] \in Following /\ ~lagging'[v] => pc[v] \in Following /\ ~lagging[v]
    BY <1>7 DEF Greet, Drained, TakeLagging, Goto, pump, Following, TypeOK
  <2> QED BY <1>1, <2>1 DEF FollowInv, Queued, Follows, Bound, Pending, Outputs, Closing
<1>8. CASE Pull(v) \/ PullExit(v)
  <2> DEFINE q == queue[v]
             r == Tail(q)
  <2>1. /\ UNCHANGED <<lagging, targets, pc>> /\ pc[v] = "live"
        /\ q # <<>> /\ queue'[v] = r /\ view'[v].upto \in Nat
    <3>1. view'[v].upto \in Nat
      BY ViewerTypes DEF TypeOK, View, Positions
    <3> QED BY <1>8, <3>1 DEF Pull, PullExit, pump, TypeOK
  <2>2. view[v].upto <= view'[v].upto /\ (Head(q) \in Output => Head(q).to <= view'[v].upto)
    <3>1. CASE Pull(v)
      <4>1. Head(q).from \in Positions /\ Head(q).to \in Positions
        BY <3>1 DEF Pull, Output
      <4> DEFINE w == Written(view[v], Head(q).from, Head(q).to)
      <4>2. w.upto >= view[v].upto /\ w.upto >= Head(q).to
        BY <1>3, <4>1, WrittenType
      <4>3. view'[v].upto >= view[v].upto /\ view'[v].upto >= Head(q).to
        BY <3>1, <4>2 DEF Pull, Show, TypeOK
      <4> QED BY <1>3, <2>1, <4>1, <4>3 DEF Positions
    <3>2. CASE PullExit(v)
      BY <1>3, <3>2, KindOf DEF PullExit
    <3> QED BY <1>8, <3>1, <3>2
  <2>3. /\ Len(q) \in Nat \ {0} /\ Len(r) = Len(q) - 1
        /\ \A i \in 1..Len(r) : r[i] = q[i + 1] /\ i + 1 \in 1..Len(q)
    BY <1>3, <2>1
  <2> HIDE DEF r
  <2>4. \A i \in Outputs(r) : i + 1 \in Outputs(q) /\ r[i] = q[i + 1]
    BY <2>3 DEF Outputs
  <2>5. Queued(v)'
    <3>1. \A i \in 1..Len(r) : r[i].kind = "close" => i = Len(r) /\ Closing(v)
      BY <2>3 DEF FollowInv, Queued
    <3>2. \A i \in Outputs(r) : /\ r[i].from <= r[i].to /\ r[i].to <= seq
                               /\ Complete[r[i].to] <= vt
      BY <2>4 DEF FollowInv, Queued
    <3> QED BY <1>1, <2>1, <3>1, <3>2 DEF Queued, Closing
  <2>6. Follows(v)'
    <3> SUFFICES ASSUME pc[v] \in Following, ~lagging[v]
                 PROVE  Continues(r, view'[v].upto) /\ Reaches(r, view'[v].upto, Bound(v))
      BY <1>1, <2>1 DEF Follows, Bound, Pending
    <3>1. Continues(q, view[v].upto) /\ Reaches(q, view[v].upto, Bound(v))
      BY DEF FollowInv, Follows
    <3> QED BY <1>3, <2>1, <2>2, <3>1, Numbers, PullContinues DEF r
  <2> QED BY <2>5, <2>6
<1>9. CASE PullClose(v) \/ TerminalEnds(v) \/ Drop(v)
  BY <1>4, <1>9 DEF PullClose, TerminalEnds, Drop, Leave, Goto, TypeOK
<1> QED BY <1>5, <1>6, <1>7, <1>8, <1>9 DEF Viewer

LEMMA Followed == Spec => []FollowInv
<1>1. Init => FollowInv
  BY DEF Init, FollowInv, Queued, Follows, Following, Outputs
<1>2. TypeOK /\ PumpInv /\ FollowInv /\ [Next]_vars => FollowInv'
  <2> SUFFICES ASSUME TypeOK, PumpInv, FollowInv, [Next]_vars PROVE FollowInv'
    OBVIOUS
  <2>1. CASE Pump \/ WatcherRecords
    BY <2>1, PumpKeepsFollows
  <2>2. CASE \E v \in Viewers : Viewer(v) \/ Drop(v)
    BY <2>2, ViewerKeepsFollows
  <2>3. CASE UNCHANGED vars
    BY <2>3 DEF vars, FollowInv, Queued, Follows, Bound, Pending, Closing
  <2> QED BY <2>1, <2>2, <2>3 DEF Next
<1> QED BY <1>1, <1>2, Counted, PTL DEF Spec

-----------------------------------------------------------------------------
(* What FollowInv says of browsers and of terminals.                       *)

LEMMA PumpKeepsRepaired ==
  ASSUME TypeOK, PumpInv, BrowserRepaired, Pump \/ WatcherRecords
  PROVE  BrowserRepaired'
<1>1. UNCHANGED <<pc, view>>
  BY PumpApart DEF viewer
<1>2. \A b \in Browsers : lagging[b] => lagging'[b]
  <2>1. CASE Offer
    <3>1. PICK v \in targets : lagging' \in {lagging, [lagging EXCEPT ![v] = TRUE]}
      BY <2>1 DEF Offer
    <3> QED BY <3>1 DEF TypeOK
  <2>2. CASE ~Offer
    BY <2>2, OfferOnly
  <2> QED BY <2>1, <2>2
<1> QED BY <1>1, <1>2 DEF BrowserRepaired

LEMMA ViewerKeepsRepaired ==
  ASSUME TypeOK, PumpInv, CursorInv, FollowInv, BrowserRepaired,
         NEW v \in Viewers, Viewer(v) \/ Drop(v)
  PROVE  BrowserRepaired'
<1> DEFINE Repaired(b) == view[b].gap /\ ~view[b].resumed =>
             lagging[b] \/ pc[b] \in {"refresh", "redraw", "off", "joined", "stamped"}
<1>1. ASSUME NEW w \in Browsers \ {v} PROVE Repaired(w)'
  <2>1. pc'[w] = pc[w] /\ lagging'[w] = lagging[w] /\ view'[w] = view[w]
    BY ViewerApart
  <2> QED BY <2>1 DEF BrowserRepaired
<1>2. ASSUME v \in Browsers PROVE Repaired(v)'
  <2>1. CASE Join(v) \/ Stamp(v) \/ PullClose(v) \/ Drop(v)
    BY <2>1 DEF Join, Stamp, PullClose, Drop, Leave, Goto, TypeOK
  <2>2. CASE CatchUp(v)
    <3>1. CASE view'[v] = Drawn(vt)
      BY <3>1, DrawnType DEF TypeOK
    <3>2. CASE cursor[v] # None /\ view'[v] = Resumed(view[v], cursor[v], ring.seq)
      <4>1. cursor[v] \in Positions /\ ring.seq \in Positions /\ view[v] \in View
        BY <1>2, <3>2 DEF TypeOK
      <4>2. Complete[cursor[v]] <= view[v].upto
        BY <1>2, <3>2 DEF CursorInv, CursorHonest
      <4>3. ~(Complete[cursor[v]] > view[v].upto)
        BY <4>1, <4>2, CompleteFacts DEF Positions, View
      <4>4. LET u == Resumed(view[v], cursor[v], ring.seq) IN u.gap => u.resumed
        BY <4>1, <4>3, ResumedType
      <4> QED BY <3>2, <4>4
    <3> QED BY <2>2, <3>1, <3>2 DEF CatchUp, Show, TypeOK
  <2>3. CASE Pull(v)
    <3>1. /\ pc[v] = "live" /\ UNCHANGED <<pc, lagging>> /\ Head(queue[v]) \in Output
          /\ queue[v] # <<>> /\ view'[v] = Written(view[v], Head(queue[v]).from, Head(queue[v]).to)
      BY <2>3 DEF Pull, Show, TypeOK
    <3>2. CASE lagging[v]
      BY <3>1, <3>2
    <3>3. CASE ~lagging[v]
      <4>1. Complete[Head(queue[v]).from] <= view[v].upto
        <5>1. Continues(queue[v], view[v].upto)
          BY <3>1, <3>3 DEF FollowInv, Follows, Following
        <5>2. 1 \in Outputs(queue[v]) /\ queue[v][1] = Head(queue[v])
          BY <3>1, Numbers DEF Outputs
        <5> QED BY <5>1, <5>2 DEF Continues, Outputs
      <4>2. Head(queue[v]).from \in Positions /\ Head(queue[v]).to \in Positions /\ view[v] \in View
        BY <3>1 DEF Output, TypeOK
      <4>3. ~(Complete[Head(queue[v]).from] > view[v].upto)
        BY <4>1, <4>2, CompleteFacts DEF Positions, View
      <4>4. LET u == Written(view[v], Head(queue[v]).from, Head(queue[v]).to)
            IN  (u.gap => view[v].gap) /\ u.resumed = view[v].resumed
        BY <4>2, <4>3, WrittenType
      <4> QED BY <1>2, <3>1, <3>3, <4>4 DEF BrowserRepaired
    <3> QED BY <3>2, <3>3
  <2>4. CASE Greet(v) \/ PullExit(v) \/ Drained(v) \/ TakeLagging(v)
    BY <1>2, <2>4 DEF Greet, PullExit, Drained, TakeLagging, Goto, TypeOK, BrowserRepaired
  <2>5. CASE Attach(v) \/ TerminalEnds(v)
    BY <1>2, <2>5 DEF Attach, TerminalEnds
  <2> QED BY <2>1, <2>2, <2>3, <2>4, <2>5 DEF Viewer
<1> QED BY <1>1, <1>2 DEF BrowserRepaired

\* A character dropped for a slow browser is always on its way to be repaired:
\* the flag is up, or the refresh it asked for is under way (broadcast,
\* serve_websocket).  Where the scrubber holds a tail back it need not be: the
\* hole is then opened by a reconnect from a dishonest cursor.
THEOREM BrowsersAreRepaired ==
  ASSUME ~Masked
  PROVE  Spec => []BrowserRepaired
<1>1. Init => BrowserRepaired
  BY DEF Init, BrowserRepaired, Drawn
<1>2. TypeOK /\ PumpInv /\ FollowInv /\ CursorInv /\ BrowserRepaired /\ [Next]_vars
        => BrowserRepaired'
  <2> SUFFICES ASSUME TypeOK, PumpInv, FollowInv, CursorInv, BrowserRepaired, [Next]_vars
               PROVE  BrowserRepaired'
    OBVIOUS
  <2>1. CASE Pump \/ WatcherRecords
    BY <2>1, PumpKeepsRepaired
  <2>2. CASE \E v \in Viewers : Viewer(v) \/ Drop(v)
    BY <2>2, ViewerKeepsRepaired
  <2>3. CASE UNCHANGED vars
    BY <2>3 DEF vars, BrowserRepaired
  <2> QED BY <2>1, <2>2, <2>3 DEF Next
<1> QED BY <1>1, <1>2, Counted, Followed, CursorKept, PTL DEF Spec

TerminalInv ==
  /\ exited => Ended
  /\ \A t \in Terminals :
       /\ t \in told => pc[t] = "off"
       /\ t \in told /\ ~lagging[t] => Ended /\ Complete[got] <= view[t].upto

LEMMA EndedStays ==
  ASSUME TypeOK, PumpInv, Pump, Ended
  PROVE  Ended' /\ got' = got
BY KindOf DEF Pump, Work, Read, PushRing, StoreSeq, FlushTail, StoreTail, DrawTail, DrawRest,
     CopyTargets, Offer, Broadcasted, EndOfFile, RecordExit, Finish, output, Ended, PumpInv,
     FrameInv

LEMMA PumpKeepsTerminals ==
  ASSUME TypeOK, PumpInv, TerminalInv, ~Watched, Pump \/ WatcherRecords
  PROVE  TerminalInv'
<1>1. Pump /\ UNCHANGED viewer
  BY PumpApart DEF WatcherRecords
<1>2. exited' => Ended'
  <2>1. CASE exited
    BY <1>1, <2>1, EndedStays DEF TerminalInv
  <2>2. CASE ~exited
    BY <1>1, <2>2 DEF Pump, Work, Read, PushRing, StoreSeq, FlushTail, StoreTail, DrawTail,
       DrawRest, CopyTargets, Offer, Broadcasted, EndOfFile, RecordExit, Finish, output, Ended
  <2> QED BY <2>1, <2>2
<1>3. ASSUME NEW t \in Terminals
      PROVE  /\ t \in told' => pc'[t] = "off"
             /\ t \in told' /\ ~lagging'[t] => Ended' /\ Complete[got'] <= view'[t].upto
  <2>1. t \in told /\ ~lagging'[t] => ~lagging[t]
    <3>1. CASE Offer
      <4>1. PICK v \in targets : lagging' \in {lagging, [lagging EXCEPT ![v] = TRUE]}
        BY <3>1 DEF Offer
      <4> QED BY <4>1 DEF TypeOK
    <3>2. CASE ~Offer
      BY <3>2, OfferOnly
    <3> QED BY <3>1, <3>2
  <2> QED BY <1>1, <2>1, EndedStays DEF TerminalInv, viewer
<1> QED BY <1>2, <1>3 DEF TerminalInv

LEMMA ViewerKeepsTerminals ==
  ASSUME TypeOK, PumpInv, FollowInv, TerminalInv, NEW v \in Viewers, Viewer(v) \/ Drop(v)
  PROVE  TerminalInv'
<1>1. /\ UNCHANGED <<got, vt, ring, seq, exited, step, frame>>
      /\ \A w \in Viewers \ {v} : /\ pc'[w] = pc[w] /\ lagging'[w] = lagging[w]
                                  /\ view'[w] = view[w] /\ (w \in told' <=> w \in told)
  BY ViewerApart DEF output
<1>2. exited' => Ended'
  BY <1>1 DEF TerminalInv, Ended
<1>3. ASSUME NEW t \in Terminals \ {v}
      PROVE  /\ t \in told' => pc'[t] = "off"
             /\ t \in told' /\ ~lagging'[t] => Ended' /\ Complete[got'] <= view'[t].upto
  BY <1>1 DEF TerminalInv, Ended
<1>4. ASSUME v \in Terminals
      PROVE  /\ v \in told' => pc'[v] = "off"
             /\ v \in told' /\ ~lagging'[v] => Ended' /\ Complete[got'] <= view'[v].upto
  <2>1. CASE Join(v)
    BY <1>1, <1>4, <2>1 DEF Join, TerminalInv
  <2>2. CASE Attach(v) \/ Pull(v)
    BY <1>4, <2>2 DEF Attach, Pull, TerminalInv
  <2>3. CASE PullExit(v)
    BY <1>1, <1>4, <2>3 DEF PullExit, TerminalInv, Ended
  <2>4. CASE PullClose(v) \/ TerminalEnds(v)
    <3>1. /\ pc[v] = "live" /\ UNCHANGED <<lagging, view>> /\ pc'[v] = "off"
      BY <2>4 DEF PullClose, TerminalEnds, Leave, Goto, TypeOK
    <3>2. Ended /\ Outputs(queue[v]) = {}
      <4>1. CASE PullClose(v)
        <5>1. /\ queue[v] # <<>> /\ Len(queue[v]) \in Nat \ {0}
              /\ queue[v][1] = Head(queue[v]) /\ Head(queue[v]).kind = "close"
          BY <4>1, Numbers DEF PullClose
        <5>2. Len(queue[v]) = 1 /\ Closing(v)
          <6>1. 1 \in 1..Len(queue[v]) /\ queue[v][1].kind = "close"
            BY <5>1
          <6>2. Queued(v)
            BY DEF FollowInv
          <6> QED BY <6>1, <6>2 DEF Queued
        <5> QED BY <5>1, <5>2, KindOf DEF Closing, Ended, Outputs
      <4>2. CASE TerminalEnds(v)
        BY <4>2 DEF TerminalEnds, TerminalInv, Outputs
      <4> QED BY <2>4, <4>1, <4>2
    <3>3. ASSUME ~lagging[v] PROVE Complete[got] <= view[v].upto
      <4>1. Reaches(queue[v], view[v].upto, Bound(v))
        BY <3>1, <3>3 DEF FollowInv, Follows, Following
      <4>2. Bound(v) = seq /\ seq = got
        BY <3>2, KindOf DEF Ended, Bound, Pending, PumpInv, CountInv
      <4> QED BY <3>2, <4>1, <4>2 DEF Reaches
    <3> QED BY <1>1, <1>4, <3>1, <3>2, <3>3 DEF TerminalInv, Ended
  <2>5. CASE Drop(v)
    BY <1>1, <1>4, <2>5 DEF Drop, Leave, Goto, TerminalInv, Ended, TypeOK
  <2>6. CASE TakeLagging(v)
    BY <1>1, <1>4, <2>6 DEF TakeLagging, TerminalInv
  <2> QED
    BY <1>4, <2>1, <2>2, <2>3, <2>4, <2>5, <2>6
    DEF Viewer, Stamp, CatchUp, Greet, Drained
<1> QED BY <1>2, <1>3, <1>4 DEF TerminalInv

\* An attached terminal is let go only when "nothing is left unsent"
\* (relay_terminal): once the session is over, one that was let go and never
\* overflowed was sent the output to the end of its last complete character.
\* With a watcher that records the exit first it need not.
THEOREM TerminalsReachTheEnd ==
  ASSUME ~Watched
  PROVE  Spec => []TerminalsSeeTheEnd
<1>1. Init => TerminalInv
  BY DEF Init, TerminalInv, Drawn
<1>2. TypeOK /\ PumpInv /\ FollowInv /\ TerminalInv /\ [Next]_vars => TerminalInv'
  <2> SUFFICES ASSUME TypeOK, PumpInv, FollowInv, TerminalInv, [Next]_vars PROVE TerminalInv'
    OBVIOUS
  <2>1. CASE Pump \/ WatcherRecords
    BY <2>1, PumpKeepsTerminals
  <2>2. CASE \E v \in Viewers : Viewer(v) \/ Drop(v)
    BY <2>2, ViewerKeepsTerminals
  <2>3. CASE UNCHANGED vars
    BY <2>3 DEF vars, TerminalInv, Ended
  <2> QED BY <2>1, <2>2, <2>3 DEF Next
<1>3. TypeOK /\ PumpInv /\ TerminalInv => TerminalsSeeTheEnd
  <2> SUFFICES ASSUME TypeOK, PumpInv, TerminalInv PROVE TerminalsSeeTheEnd
    OBVIOUS
  <2>1. /\ vt \in Positions /\ got \in Positions /\ vt <= got
        /\ \A t \in Terminals : view[t].upto \in Nat
    BY Numbers DEF TypeOK, PumpInv, ScreenInv
  <2>2. Complete[vt] <= Complete[got] /\ Complete[vt] \in Nat /\ Complete[got] \in Nat
    BY <2>1, CompleteFacts
  <2> QED BY <2>1, <2>2 DEF TerminalInv, TerminalsSeeTheEnd
<1> QED BY <1>1, <1>2, <1>3, Counted, Followed, PTL DEF Spec
=============================================================================
