--------------------------- MODULE SessionStream ---------------------------
(***************************************************************************)
(* One mirrored session's output on its way to the people watching it:     *)
(* Session::pump and catch_up (src/src/remote/session.rs), SeqRing         *)
(* (remote/ring.rs), Fanout (remote/fanout.rs), the WebSocket loop of a    *)
(* browser (remote/server.rs), the relay of an attached terminal           *)
(* (remote/hub.rs) and the page's cursor (web/app.js).                     *)
(*                                                                         *)
(* The output is a stream of bytes numbered from 1; a frame is a range of  *)
(* them, a snapshot of the screen is a prefix.  The ring, the sequence and *)
(* the viewers get every byte as it is read; the emulator gets complete    *)
(* characters only, and what begins one is carried over (remote/utf8.rs),  *)
(* so a snapshot may end before the sequence it is sent under.  What a     *)
(* viewer sees is how far its view goes and whether a character was        *)
(* missed, torn or written twice.  A frame handed to a socket reaches the  *)
(* page at once or the connection is lost: the server's thread never       *)
(* learns which.                                                           *)
(*                                                                         *)
(* RingPushWhole, OfferBlocking, OfferUnmarked, PullHelloCursor and        *)
(* TerminalEndsBusy are mistakes the code does not make, each before the   *)
(* definition it would replace.                                            *)
(***************************************************************************)
EXTENDS Naturals, Sequences

CONSTANTS
  Browsers, Terminals,  \* viewers over a WebSocket, and attached terminals
  Depth,                \* QUEUE_DEPTH
  Capacity,             \* the replay ring's byte budget
  Chunk,                \* the largest pty read
  MaxBytes,             \* bound on the session's output
  Complete,             \* of its first n bytes, those that make complete characters
  Lossy,                \* whether connections may drop
  Masked,               \* whether the scrubber has credentials to look for
  Watched,              \* a --tmux session, whose watcher records the exit
  None

Viewers == Browsers \cup Terminals

ASSUME ViewersAssumption == Browsers \cap Terminals = {}
ASSUME BoundsAssumption ==
  /\ Depth \in Nat \ {0} /\ Capacity \in Nat /\ Chunk \in Nat \ {0} /\ MaxBytes \in Nat
  /\ Lossy \in BOOLEAN /\ Masked \in BOOLEAN /\ Watched \in BOOLEAN
  /\ None \notin Nat
\* "Never more than 3 bytes" are carried, whatever the reads' lengths (utf8.rs).
ASSUME CompleteAssumption ==
  /\ Complete \in [0..MaxBytes -> 0..MaxBytes]
  /\ \A n \in 0..MaxBytes : Complete[n] <= n /\ n <= Complete[n] + 3
  /\ \A m, n \in 0..MaxBytes : m <= n => Complete[m] <= Complete[n]

VARIABLES
  got,      \* bytes taken from the scrubber: the drawn ones and the chunker's carry
  vt,       \* bytes the emulator has drawn
  ring,     \* the ring's stream position and its length
  seq,      \* Session::seq
  exited,   \* Session::exit is recorded
  step,     \* the pump thread: where it is
  frame,    \* the frame it is broadcasting
  targets,  \* the subscribers copied out and not yet offered it
  subs,     \* Fanout::subscribers
  queue, lagging,  \* each subscriber's queue and flag
  pc, tag,  \* each viewer's thread, and the sequence its catch-up frame names
  cursor,   \* the page's lastSeq
  view,     \* what the viewer's terminal shows
  told      \* viewers that know the session is over

vars == <<got, vt, ring, seq, exited, step, frame, targets, subs, queue, lagging, pc, tag,
          cursor, view, told>>
output == <<got, vt, ring, seq, exited>>
pump == <<step, frame, targets>>
viewer == <<pc, tag, cursor, view, told>>

Positions == 0..MaxBytes
Output == [kind : {"output", "tail"}, from : Positions, to : Positions]
Frame == Output \cup [kind : {"exit", "close"}]
View == [upto : Positions, gap : BOOLEAN, torn : BOOLEAN, twice : BOOLEAN,
         resumed : BOOLEAN]
PumpSteps == {"read", "fed", "pushed", "stored", "tail", "flushed", "send", "eof", "ended",
              "exited", "said", "closed", "done"}
ViewerSteps == {"off", "joined", "stamped", "greet", "live", "check", "refresh", "redraw"}

TypeOK ==
  /\ got \in Positions /\ vt \in Positions /\ seq \in Positions /\ exited \in BOOLEAN
  /\ ring \in [seq : Positions, len : 0..Capacity]
  /\ step \in PumpSteps /\ frame \in Frame \cup {None}
  /\ targets \subseteq Viewers /\ subs \subseteq Viewers
  /\ queue \in [Viewers -> Seq(Frame)] /\ \A v \in Viewers : Len(queue[v]) <= Depth
  /\ lagging \in [Viewers -> BOOLEAN]
  /\ pc \in [Viewers -> ViewerSteps]
  /\ tag \in [Viewers -> Positions]
  /\ cursor \in [Browsers -> Positions \cup {None}]
  /\ view \in [Viewers -> View]
  /\ told \subseteq Viewers

Drawn(upto) ==
  [upto |-> upto, gap |-> FALSE, torn |-> FALSE, twice |-> FALSE, resumed |-> FALSE]

Init ==
  /\ got = 0 /\ vt = 0 /\ ring = [seq |-> 0, len |-> 0] /\ seq = 0 /\ exited = FALSE
  /\ step = "read" /\ frame = None /\ targets = {}
  /\ subs = {}
  /\ queue = [v \in Viewers |-> <<>>] /\ lagging = [v \in Viewers |-> FALSE]
  /\ pc = [v \in Viewers |-> "off"] /\ tag = [v \in Viewers |-> 0]
  /\ cursor = [b \in Browsers |-> None]
  /\ view = [v \in Viewers |-> Drawn(0)]
  /\ told = {}

-----------------------------------------------------------------------------
(* SeqRing.                                                                *)

Least(a, b) == IF a < b THEN a ELSE b
RingPushWhole(r, n) ==
  [seq |-> r.seq + n, len |-> IF n >= Capacity THEN n ELSE Least(Capacity, r.len + n)]
RingPush(r, n) == [seq |-> r.seq + n, len |-> Least(Capacity, r.len + n)]
FirstSeq(r) == r.seq - r.len
Replayable(r, since) == since <= r.seq /\ since >= FirstSeq(r)

-----------------------------------------------------------------------------
(* The pump thread.                                                        *)

\* A pty read, masked, and drawn as far as it completes characters.
Read ==
  /\ step = "read"
  /\ \E n \in 1..Chunk : got + n <= MaxBytes /\ got' = got + n
  /\ vt' = Complete[got']
  /\ step' = "fed"
  /\ UNCHANGED <<ring, seq, exited, frame, targets, subs, queue, lagging, viewer>>

PushRing ==
  /\ step = "fed"
  /\ ring' = RingPush(ring, got - ring.seq)
  /\ step' = "pushed"
  /\ UNCHANGED <<got, vt, seq, exited, frame, targets, subs, queue, lagging, viewer>>

StoreSeq ==
  /\ step = "pushed"
  /\ frame' = [kind |-> "output", from |-> seq, to |-> ring.seq]
  /\ seq' = ring.seq
  /\ step' = "stored"
  /\ UNCHANGED <<got, vt, ring, exited, targets, subs, queue, lagging, viewer>>

\* EOF: what the scrubber held back goes through the ring first, and is drawn
\* only after its sequence is stored.
FlushTail ==
  /\ step = "read" /\ Masked
  /\ \E n \in 1..Chunk :
       got + n <= MaxBytes /\ got' = got + n /\ ring' = RingPush(ring, n)
  /\ step' = "tail"
  /\ UNCHANGED <<vt, seq, exited, frame, targets, subs, queue, lagging, viewer>>

StoreTail ==
  /\ step = "tail"
  /\ frame' = [kind |-> "tail", from |-> seq, to |-> ring.seq]
  /\ seq' = ring.seq
  /\ step' = "flushed"
  /\ UNCHANGED <<got, vt, ring, exited, targets, subs, queue, lagging, viewer>>

DrawTail ==
  /\ step = "flushed"
  /\ vt' = Complete[got]
  /\ step' = "stored"
  /\ UNCHANGED <<got, ring, seq, exited, frame, targets, subs, queue, lagging, viewer>>

\* broadcast copies the subscribers out under its lock and sends outside it.
CopyTargets ==
  /\ step \in {"stored", "exited", "said"}
  /\ targets' = subs
  /\ frame' = CASE step = "stored" -> frame
                [] step = "exited" -> [kind |-> "exit"]
                [] step = "said" -> [kind |-> "close"]
  /\ step' = "send"
  /\ UNCHANGED <<output, subs, queue, lagging, viewer>>

OfferBlocking ==
  /\ step = "send"
  /\ \E v \in targets :
       /\ Len(queue[v]) < Depth
       /\ targets' = targets \ {v}
       /\ queue' = [queue EXCEPT ![v] = Append(@, frame)]
  /\ UNCHANGED <<output, step, frame, subs, lagging, viewer>>

OfferUnmarked ==
  /\ step = "send"
  /\ \E v \in targets :
       /\ targets' = targets \ {v}
       /\ queue' = IF Len(queue[v]) < Depth
                     THEN [queue EXCEPT ![v] = Append(@, frame)] ELSE queue
  /\ UNCHANGED <<output, step, frame, subs, lagging, viewer>>

\* try_send: a full queue drops the frame and marks the viewer.  (The flag is
\* stored before the pump goes on, and nothing can be missed in between.)
Offer ==
  /\ step = "send"
  /\ \E v \in targets :
       /\ targets' = targets \ {v}
       /\ IF Len(queue[v]) < Depth
            THEN queue' = [queue EXCEPT ![v] = Append(@, frame)] /\ UNCHANGED lagging
            ELSE lagging' = [lagging EXCEPT ![v] = TRUE] /\ UNCHANGED queue
  /\ UNCHANGED <<output, step, frame, subs, viewer>>

Broadcasted ==
  /\ step = "send" /\ targets = {}
  /\ step' = CASE frame.kind = "output" -> "read"
               [] frame.kind = "tail" -> "eof"
               [] frame.kind = "exit" -> "said"
               [] frame.kind = "close" -> "closed"
  /\ UNCHANGED <<output, frame, targets, subs, queue, lagging, viewer>>

\* EOF with nothing held back.
EndOfFile ==
  /\ step = "read"
  /\ step' = "eof"
  /\ UNCHANGED <<output, frame, targets, subs, queue, lagging, viewer>>

\* What the chunker still carries can never be completed: it is drawn as a
\* replacement character, on the emulator alone.
DrawRest ==
  /\ step = "eof"
  /\ vt' = got
  /\ step' = "ended"
  /\ UNCHANGED <<got, ring, seq, exited, frame, targets, subs, queue, lagging, viewer>>

RecordExit ==
  /\ step = "ended"
  /\ exited' = TRUE
  /\ step' = "exited"
  /\ UNCHANGED <<got, vt, ring, seq, frame, targets, subs, queue, lagging, viewer>>

\* The watcher of a tmux session sees its pane dead, records the exit, and
\* stops the server, which is what gives the pump its EOF.
WatcherRecords ==
  /\ Watched /\ ~exited
  /\ exited' = TRUE
  /\ UNCHANGED <<got, vt, ring, seq, pump, subs, queue, lagging, viewer>>

\* The bridge and the temporary config are torn down.
Finish ==
  /\ step = "closed"
  /\ step' = "done"
  /\ UNCHANGED <<output, frame, targets, subs, queue, lagging, viewer>>

\* What the thread does of itself, and what it waits on the agent for.
Work ==
  \/ PushRing \/ StoreSeq \/ StoreTail \/ DrawTail \/ CopyTargets \/ Offer
  \/ Broadcasted \/ DrawRest \/ RecordExit \/ Finish
Pump == Work \/ Read \/ FlushTail \/ EndOfFile

-----------------------------------------------------------------------------
(* What a viewer's terminal shows.                                         *)

Goto(v, s) == pc' = [pc EXCEPT ![v] = s]

\* A range that starts past the view's end leaves out a character, or only the
\* first bytes of the one it goes on with.
Most(a, b) == IF a < b THEN b ELSE a
Written(w, from, to) ==
  [w EXCEPT !.upto = Most(@, to), !.gap = @ \/ Complete[from] > w.upto,
            !.torn = @ \/ from > w.upto, !.twice = @ \/ (from < w.upto /\ from < to)]
Resumed(w, from, to) == [Written(w, from, to) EXCEPT !.resumed = @ \/ w.gap]
Show(v, w) == view' = [view EXCEPT ![v] = w]

Leave(v) ==
  /\ Goto(v, "off")
  /\ subs' = subs \ {v} /\ targets' = targets \ {v}
  /\ queue' = [queue EXCEPT ![v] = <<>>]

\* Authenticated, and subscribed, with a flag of its own, before anything is read.
Join(v) ==
  /\ pc[v] = "off" /\ v \notin told
  /\ Goto(v, "joined")
  /\ subs' = subs \cup {v}
  /\ lagging' = [lagging EXCEPT ![v] = FALSE]
  /\ UNCHANGED <<output, pump, queue, tag, cursor, view, told>>

\* catch_up reads the sequence first.
Stamp(b) ==
  /\ b \in Browsers /\ pc[b] \in {"joined", "refresh"}
  /\ tag' = [tag EXCEPT ![b] = seq]
  /\ Goto(b, IF pc[b] = "joined" THEN "stamped" ELSE "redraw")
  /\ UNCHANGED <<output, pump, subs, queue, lagging, cursor, view, told>>

\* Then the delta, or the screen when there is no cursor or it was evicted.
CatchUp(b) ==
  /\ b \in Browsers /\ pc[b] \in {"stamped", "redraw"}
  /\ IF pc[b] = "stamped" /\ cursor[b] # None /\ Replayable(ring, cursor[b])
       THEN Show(b, Resumed(view[b], cursor[b], ring.seq))
       ELSE Show(b, Drawn(vt))
  /\ cursor' = [cursor EXCEPT ![b] = tag[b]]
  /\ Goto(b, IF pc[b] = "stamped" THEN "greet" ELSE "live")
  /\ UNCHANGED <<output, pump, subs, queue, lagging, tag, told>>

\* A session that has ended says so to a viewer who joins now.
Greet(b) ==
  /\ b \in Browsers /\ pc[b] = "greet"
  /\ told' = IF exited THEN told \cup {b} ELSE told
  /\ Goto(b, "live")
  /\ UNCHANGED <<output, pump, subs, queue, lagging, tag, cursor, view>>

\* An attached terminal draws the screen and then follows.
Attach(t) ==
  /\ t \in Terminals /\ pc[t] = "joined"
  /\ Show(t, Drawn(vt))
  /\ Goto(t, "live")
  /\ UNCHANGED <<output, pump, subs, queue, lagging, tag, cursor, told>>

PullHelloCursor(v) ==
  /\ pc[v] = "live" /\ queue[v] # <<>> /\ Head(queue[v]) \in Output
  /\ Show(v, Written(view[v], Head(queue[v]).from, Head(queue[v]).to))
  /\ cursor' = IF v \in Browsers THEN [cursor EXCEPT ![v] = seq] ELSE cursor
  /\ queue' = [queue EXCEPT ![v] = Tail(@)]
  /\ UNCHANGED <<output, pump, subs, lagging, pc, tag, told>>

\* A queued output frame, whose tag the page stores.
Pull(v) ==
  /\ pc[v] = "live" /\ queue[v] # <<>> /\ Head(queue[v]) \in Output
  /\ Show(v, Written(view[v], Head(queue[v]).from, Head(queue[v]).to))
  /\ cursor' = IF v \in Browsers THEN [cursor EXCEPT ![v] = Head(queue[v]).to] ELSE cursor
  /\ queue' = [queue EXCEPT ![v] = Tail(@)]
  /\ UNCHANGED <<output, pump, subs, lagging, pc, tag, told>>

PullExit(v) ==
  /\ pc[v] = "live" /\ queue[v] # <<>> /\ Head(queue[v]).kind = "exit"
  /\ told' = IF v \in Browsers THEN told \cup {v} ELSE told
  /\ queue' = [queue EXCEPT ![v] = Tail(@)]
  /\ UNCHANGED <<output, pump, subs, lagging, pc, tag, cursor, view>>

\* A page whose socket closes before it heard of the exit connects again.
PullClose(v) ==
  /\ pc[v] = "live" /\ queue[v] # <<>> /\ Head(queue[v]).kind = "close"
  /\ Leave(v)
  /\ told' = IF v \in Terminals THEN told \cup {v} ELSE told
  /\ UNCHANGED <<output, step, frame, lagging, tag, cursor, view>>

\* Nothing queued: a browser's thread looks at its flag.
Drained(b) ==
  /\ b \in Browsers /\ pc[b] = "live" /\ queue[b] = <<>>
  /\ Goto(b, "check")
  /\ UNCHANGED <<output, pump, subs, queue, lagging, tag, cursor, view, told>>

TakeLagging(b) ==
  /\ pc[b] = "check"
  /\ lagging' = [lagging EXCEPT ![b] = FALSE]
  /\ Goto(b, IF lagging[b] THEN "refresh" ELSE "live")
  /\ UNCHANGED <<output, pump, subs, queue, tag, cursor, view, told>>

TerminalEndsBusy(t) ==
  /\ t \in Terminals /\ pc[t] = "live" /\ exited
  /\ Leave(t)
  /\ told' = told \cup {t}
  /\ UNCHANGED <<output, step, frame, lagging, tag, cursor, view>>

\* A terminal's wait timed out on an empty queue after the exit.
TerminalEnds(t) ==
  /\ t \in Terminals /\ pc[t] = "live" /\ queue[t] = <<>> /\ exited
  /\ Leave(t)
  /\ told' = told \cup {t}
  /\ UNCHANGED <<output, step, frame, lagging, tag, cursor, view>>

\* The connection drops, with whatever was on its way.
Drop(v) ==
  /\ Lossy /\ pc[v] # "off"
  /\ Leave(v)
  /\ UNCHANGED <<output, step, frame, lagging, tag, cursor, view, told>>

Viewer(v) ==
  \/ Join(v) \/ Stamp(v) \/ CatchUp(v) \/ Greet(v) \/ Attach(v) \/ Pull(v)
  \/ PullExit(v) \/ PullClose(v) \/ Drained(v) \/ TakeLagging(v) \/ TerminalEnds(v)

Next == Pump \/ WatcherRecords \/ \E v \in Viewers : Viewer(v) \/ Drop(v)

Spec == Init /\ [][Next]_vars

\* The pump thread is scheduled; nothing is asked of the agent or the viewers.
PumpFair == Spec /\ WF_vars(Work)

\* The viewers' threads are scheduled too.
ViewersRun == \A v \in Viewers : WF_vars(Viewer(v))

-----------------------------------------------------------------------------
(* Properties.                                                             *)

\* The page's cursor never "claims bytes the terminal has not written", so that
\* a reconnect cannot "resume past them and lose that output" (app.js): no
\* character that is complete up to the cursor is missing from the page.  The
\* first bytes of one may be: CharactersWhole.
CursorHonest ==
  \A b \in Browsers : cursor[b] # None => Complete[cursor[b]] <= view[b].upto

\* A frame dropped for a slow browser is repaired from the screen: while a
\* connection's view lacks a character, its flag is up or its refresh is under way
\* (broadcast, serve_websocket).  One of which it lacks the first bytes alone, by
\* a snapshot taken between its halves, is not repaired: CharactersWhole.
BrowserRepaired ==
  \A b \in Browsers : view[b].gap /\ ~view[b].resumed =>
    \/ lagging[b] \/ pc[b] \in {"refresh", "redraw", "off", "joined", "stamped"}

\* The same promise for an attached terminal: "the subscriber's own thread
\* notices, clears it, and asks for a fresh screen snapshot" (fanout.rs), so a
\* terminal that has read all its frames of a finished session misses none.
\* Not kept: a terminal's thread never looks at its flag (README).
TerminalRepaired ==
  \A t \in Terminals : pc[t] = "live" /\ step = "done" /\ queue[t] = <<>> => ~view[t].gap

\* An attached terminal is let go only when "nothing is left unsent"
\* (relay_terminal): one whose queue never overflowed was sent the output to the
\* end of its last complete character.
TerminalsSeeTheEnd ==
  \A t \in Terminals :
    t \in told /\ step = "done" /\ ~lagging[t] => Complete[vt] <= view[t].upto

\* "Replaying exactly that delta restores the view" (ring.rs): a view resumed
\* from its cursor has no hole below it.
\* Not kept after a dropped frame (README).
ResumeRestores == \A b \in Browsers : ~view[b].resumed

\* A character "unlucky enough to land on a boundary" of two reads is not spoiled
\* (utf8.rs): what a viewer is sent goes on where its view ends.
\* Not kept by a snapshot drawn while part of a character is carried: it is sent
\* under a sequence past that part, which no later frame repeats (README).
CharactersWhole == \A v \in Viewers : view[v].gap \/ ~view[v].torn

\* Nor does a viewer see any output twice.
\* Not kept by what is broadcast while a viewer joins (README).
WrittenOnce == \A v \in Viewers : ~view[v].twice

\* The launch's guards are torn down "only after every viewer has been told
\* the session ended" (pump): a browser was told, or the frame is in its queue.
\* Not kept when the queue is full (README).
ViewersTold ==
  step = "done" =>
    \A b \in Browsers : pc[b] \in {"live", "check", "refresh", "redraw"} =>
      b \in told \/ \E i \in 1..Len(queue[b]) : queue[b][i].kind \in {"exit", "close"}

\* "A slow viewer must never slow the agent down" (fanout.rs): whatever the
\* viewers do or fail to do, the pump gets back to reading, or to its end.
AgentNeverWaits == step # "read" ~> step \in {"read", "done"}

\* Once the agent is quiet, every browser whose thread runs has as much of its
\* output on its screen as the emulator, and lacks no character of it, except the
\* first bytes of one (CharactersWhole).
BrowsersCatchUp ==
  ViewersRun /\ <>[](step = "read") =>
    \A b \in Browsers : <>[](view[b].upto >= vt /\ ~view[b].gap)
=============================================================================
