------------------------------ MODULE MCParts ------------------------------
(***************************************************************************)
(* Seven parts that share nothing, checked one after the other in one run: *)
(* the initial state picks the part, and only that one moves.  A serving   *)
(* bridge and Antigravity renewals have two turns at it.                   *)
(***************************************************************************)
EXTENDS BridgeServe, AgyRenew, UsageRecord, HubSessions, SecretScrubber, TLC

CONSTANTS MaxWritten, MaxOdd

VARIABLES
  part,
  decoder, fed, carry, scanned, said, over,
  agent, carried, rollouts, transcript, told, spent, written, odd, misled

decoderVars == <<decoder, fed, carry, scanned, said, over>>
historyVars == <<agent, carried, rollouts, transcript, told, spent, written, odd, misled>>

allVars == <<part, serveVars, renewVars, recordVars, hubVars, scrubVars, decoderVars, historyVars>>

\* Two sessions share a route, the third has another one over the same login.
PartRouteOf == [c \in Coders |-> IF c = "c3" THEN "r2" ELSE "r1"]
PartFileOf == [r \in Routes |-> "f1"]

\* Two turns of one bridge and one of another.
Late == <<"p", 2>>
PartTurns == {<<"p", 1>>, Late, <<"q", 1>>}

\* A request of any kind, and one of another process that is a turn.
PartRequests == {<<"p", 1>>, <<"q", 1>>}
PartRoutes ==
  <<"p", 1>> :> {"forward", "codex", "translated"} @@ <<"q", 1>> :> {"translated"}

\* One or two credentials of up to four letters, one of them perhaps inside
\* the other.  Which letter a credential begins with is no matter.
PartFamilies ==
  {{v, w} : v \in {u \in Strings({"a", "b"}, 1, 3) : u[1] = "a"}, w \in Strings({"a", "b"}, 1, 4)}

Decode == INSTANCE Decoders WITH
  MaxInput <- [chunker |-> 5, sse |-> 6],
  input <- fed, buffer <- carry, output <- said, ended <- over

\* Two models in the histories that alc usage reads, and a copy, a torn row or
\* a total that begins again.
Reading == INSTANCE UsageReading WITH
  Models <- {"m", "n"}, Window <- 9, files <- rollouts, ledger <- told

\* A part that does not move stands in one state.  Codex alone, without the
\* ledger, is left out: no two of its rows share an id.
Still ==
  /\ part # "decode" => decoder = "sse"
  /\ part # "scrub" => values = {<<"a">>}
  /\ part # "reading" => agent = "claude"
  /\ (part # "reading" \/ agent = "codex") => carried

Init ==
  /\ part \in {"crowd", "pair", "three", "two", "usage", "hub", "scrub", "decode", "reading"}
  /\ ServeInit /\ RenewInit /\ RecordInit /\ HubInit /\ ScrubInit /\ Decode!Init /\ Reading!Init /\ Still

\* Three coders at once, with the clock going on a little.
Crowd == ServeNext /\ now' <= 1 /\ stops' = 0

\* A coder on each route, and bridges that stop and come back.
Pair == ServeNext /\ pc'["c2"] = "idle"

\* All three turns, with the login changing hands and nobody refused or
\* giving up.
Three ==
  /\ (\E t \in Turns : Renews(t) \/ Streams(t)) \/ LoginChanges
  /\ refused' = {} /\ login' # 0 /\ \A t \in Turns : turn'[t].attempt = 0

\* A turn of each bridge, and everything going wrong.
Two == RenewNext /\ (turn'[Late] = turn[Late] \/ Kill("p"))

Others(parts) == UNCHANGED part /\ UNCHANGED parts
Decoding == <<scrubVars, decoderVars>>

Next ==
  \/ part = "crowd" /\ Crowd /\ Others(<<renewVars, recordVars, hubVars, Decoding, historyVars>>)
  \/ part = "pair" /\ Pair /\ Others(<<renewVars, recordVars, hubVars, Decoding, historyVars>>)
  \/ part = "three" /\ Three /\ Others(<<serveVars, recordVars, hubVars, Decoding, historyVars>>)
  \/ part = "two" /\ Two /\ Others(<<serveVars, recordVars, hubVars, Decoding, historyVars>>)
  \/ part = "usage" /\ RecordNext /\ Others(<<serveVars, renewVars, hubVars, Decoding, historyVars>>)
  \/ part = "hub" /\ HubNext /\ Others(<<serveVars, renewVars, recordVars, Decoding, historyVars>>)
  \/ part = "scrub" /\ ScrubNext
       /\ Others(<<serveVars, renewVars, recordVars, hubVars, decoderVars, historyVars>>)
  \/ part = "decode" /\ Decode!Next
       /\ Others(<<serveVars, renewVars, recordVars, hubVars, scrubVars, historyVars>>)
  \/ part = "reading" /\ Reading!Next
       /\ Others(<<serveVars, renewVars, recordVars, hubVars, Decoding>>)

Spec == Init /\ [][Next]_allVars

-----------------------------------------------------------------------------
\* The part that moves has the states of its module; the others stand still.
TypeOK ==
  CASE part \in {"crowd", "pair"} -> ServeTypeOK
    [] part \in {"three", "two"} -> RenewTypeOK
    [] part = "usage" -> RecordTypeOK [] part = "hub" -> HubTypeOK
    [] part = "scrub" -> ScrubTypeOK [] part = "decode" -> Decode!TypeOK
    [] part = "reading" -> Reading!TypeOK

\* How a stream is cut does not show in what is made of it (Decoders).
ChunkingUnseen == part = "decode" => Decode!ChunkingUnseen

\* However histories overlap, no token is counted twice or for a model that
\* did not use it (UsageReading).
CountedOnce == part = "reading" => Reading!CountedOnce
=============================================================================
