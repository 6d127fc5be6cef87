----------------------------- MODULE PartsProofs -----------------------------
(***************************************************************************)
(* Parts of the system that are independent of each other, each for any    *)
(* number of its processes and any of its inputs: the records of requests, *)
(* the sessions of hubs, Antigravity's login, the secret scrubber, and the *)
(* bridge as it serves.                                                    *)
(***************************************************************************)
EXTENDS UsageRecord, HubSessions, AgyRenew, SecretScrubber, BridgeServe, FiniteSetTheorems,
  SequenceTheorems, WellFoundedInduction, TLAPS

-----------------------------------------------------------------------------
(* Records.  However the upload, the answer and the client end, a request  *)
(* is recorded at most once, with what ended it first, and a line cut      *)
(* short costs at most one record.                                         *)

Pieces == {"line", "part", "bare"}
Line == [request : Requests, outcome : Outcomes, piece : Pieces]
Request == [via : Vias, phase : {"new", "sent", "body", "ended", "over", "dead"},
            form : Forms, uploading : BOOLEAN, limited : BOOLEAN]
Causes == DOMAIN Meaning
Cells == 1..Len(ledger)
Written(r) == \E k \in Cells : ledger[k].request = r

\* A request is closed by the first thing that ends it.
ClosedInv ==
  \A r \in Requests :
    /\ outcome[r] # "open" <=> first[r] # "none"
    /\ outcome[r] # "open" => outcome[r] = Meaning[first[r]]
    /\ request[r].phase \in {"ended", "over"} => outcome[r] # "open"

\* What is closed is due or written, never both, and written once; a process
\* that died takes what was due along.
LedgerInv ==
  /\ ledger \in Seq(Line)
  /\ \A j, k \in Cells : ledger[j].request = ledger[k].request => j = k
  /\ \A k \in Cells : ledger[k].request \notin due /\ outcome[ledger[k].request] # "open"
  /\ \A r \in Requests :
       outcome[r] # "open" => r \in due \/ Written(r) \/ request[r].phase = "dead"

\* A line that is cut short is known for one.
TornInv ==
  /\ IsFiniteSet(torn)
  /\ \A k \in Cells : ledger[k].piece # "line" => ledger[k].request \in torn

RecordInv == RecordTypeOK /\ ClosedInv /\ LedgerInv /\ TornInv

LEMMA InitRecordInv == RecordInit => RecordInv
<1> SUFFICES ASSUME RecordInit PROVE RecordInv
  OBVIOUS
<1>1. ledger = <<>> /\ Cells = {}
  BY DEF RecordInit, Cells
<1>2. RecordTypeOK
  BY <1>1 DEF RecordInit, RecordTypeOK, Vias, Forms
<1>3. ClosedInv /\ LedgerInv
  BY <1>1 DEF RecordInit, ClosedInv, LedgerInv
<1>4. TornInv
  BY <1>1, FS_EmptySet DEF RecordInit, TornInv
<1> QED BY <1>2, <1>3, <1>4 DEF RecordInv

-----------------------------------------------------------------------------
(* What happens to a request.                                              *)

\* Every step of a request changes it alone, closes it or leaves its
\* observation as it is, and writes nothing.
Changes(r) ==
  /\ UNCHANGED recording
  /\ \E q \in Request :
       /\ request' = [request EXCEPT ![r] = q]
       /\ request[r].phase = "dead" => q.phase = "dead"
       /\ q.phase \in {"ended", "over"} => outcome'[r] # "open"
  /\ \/ StaysOpen(r)
     \/ \E cause \in Causes : Closes(r, cause, Meaning[cause])

\* What each cause means is an outcome.
LEMMA Meanings ==
  /\ \A cause \in Causes : Meaning[cause] \in Outcomes
  /\ "none" \notin Causes /\ "open" \notin Outcomes
BY DEF Causes, Meaning, Outcomes

\* Whatever is told, an observation is closed afterwards.
LEMMA CloseCloses ==
  ASSUME RecordTypeOK, NEW r \in Requests, NEW how \in Outcomes, Close(r, how)
  PROVE  outcome'[r] # "open"
BY Meanings DEF RecordTypeOK, Close

LEMMA RequestTurns ==
  ASSUME RecordTypeOK, ClosedInv, NEW r \in Requests, ViasOf[r] \subseteq Vias,
         \/ Arrives(r) \/ Uploaded(r) \/ UploadBreaks(r) \/ NotSent(r) \/ Answered(r)
         \/ Tells(r) \/ Limited(r) \/ BodyEnds(r) \/ Breaks(r) \/ Garbled(r) \/ HangsUp(r)
  PROVE  Changes(r)
<1> DEFINE Becomes(q) == request' = [request EXCEPT ![r] = q]
<1>0. request[r] \in Request /\ request \in [Requests -> Request]
  BY DEF RecordTypeOK, Request
<1>a. ASSUME NEW q \in Request, Becomes(q), UNCHANGED recording, StaysOpen(r),
             request[r].phase = "dead" => q.phase = "dead",
             q.phase \in {"ended", "over"} => request[r].phase \in {"ended", "over"}
      PROVE  Changes(r)
  <2>1. q.phase \in {"ended", "over"} => outcome'[r] # "open"
    BY <1>a DEF StaysOpen, ClosedInv
  <2> QED BY <1>a, <2>1 DEF Changes
<1>b. ASSUME NEW q \in Request, Becomes(q), UNCHANGED recording,
             NEW cause \in Causes, Closes(r, cause, Meaning[cause]),
             request[r].phase = "dead" => q.phase = "dead"
      PROVE  Changes(r)
  <2>1. outcome'[r] # "open"
    BY <1>b, CloseCloses, Meanings DEF Closes
  <2> QED BY <1>b, <2>1 DEF Changes
<1>c. /\ Causes = {"completed", "incomplete", "failed", "whole", "unfinished", "refused",
                   "unreachable", "silent", "broken", "upload", "hungup", "garbled", "fails"}
      /\ Meaning["refused"] = "Failed" /\ Meaning["upload"] = "Truncated"
      /\ Meaning["silent"] = "TimedOut" /\ Meaning["broken"] = "Truncated"
      /\ Meaning["fails"] = "Failed" /\ Meaning["garbled"] = "Cancelled"
      /\ Meaning["hungup"] = "Cancelled"
  BY DEF Causes, Meaning
<1> HIDE DEF Changes, Becomes
<1>1. CASE Arrives(r)
  <2>1. PICK via \in ViasOf[r] :
          Becomes([request[r] EXCEPT !.via = via, !.phase = "sent",
                                     !.uploading = (via = "forward")])
    BY <1>1, <1>0, ZenonT(40) DEF Arrives, Becomes, Request
  <2>2. [request[r] EXCEPT !.via = via, !.phase = "sent",
                           !.uploading = (via = "forward")] \in Request
    BY <1>0 DEF Request
  <2> QED BY <1>0, <1>1, <1>a, <2>1, <2>2 DEF Arrives, Phase, Request
<1>2. CASE Uploaded(r) \/ UploadBreaks(r)
  <2> DEFINE q == [request[r] EXCEPT !.uploading = FALSE]
  <2>1. q \in Request /\ q.phase = request[r].phase /\ Becomes(q)
    BY <1>0, <1>2 DEF Uploaded, UploadBreaks, Becomes, Request
  <2> HIDE DEF q
  <2>2. CASE Uploaded(r)
    BY <1>a, <2>1, <2>2 DEF Uploaded
  <2>3. CASE UploadBreaks(r)
    BY <1>b, <1>c, <2>1, <2>3 DEF UploadBreaks
  <2> QED BY <1>2, <2>2, <2>3
<1>3. CASE NotSent(r)
  <2> DEFINE q == [request[r] EXCEPT !.phase = "over", !.uploading = FALSE]
  <2>1. q \in Request /\ Becomes(q) /\ request[r].phase # "dead"
    BY <1>0, <1>3 DEF NotSent, Becomes, Request, Phase
  <2> HIDE DEF q
  <2> QED BY <1>3, <1>b, <1>c, <2>1 DEF NotSent
<1>4. CASE Answered(r)
  <2> DEFINE q(phase, form) == [request[r] EXCEPT !.phase = phase, !.form = form]
  <2>1. \A phase \in {"body", "ended", "over"}, form \in {"sse", "json", "opaque"} :
          q(phase, form) \in Request /\ q(phase, form).phase = phase
    BY <1>0 DEF Request, Forms
  <2>2. request[r].phase # "dead" /\ UNCHANGED recording
    BY <1>4 DEF Answered, Phase
  <2>3. \A phase \in {"body", "ended", "over"}, form \in {"sse", "json", "opaque"} :
          request' = [request EXCEPT ![r].phase = phase, ![r].form = form] => Becomes(q(phase, form))
    BY <1>0 DEF Becomes, Request
  <2>4. \/ \E form \in {"sse", "json", "opaque"} : Becomes(q("body", form)) /\ StaysOpen(r)
        \/ \E form \in {"sse", "json", "opaque"} :
             Becomes(q("ended", form)) /\ Closes(r, EndsAs(form), Meaning[EndsAs(form)])
        \/ \E phase \in {"body", "over"} :
             Becomes(q(phase, "opaque")) /\ Closes(r, "refused", Meaning["refused"])
    BY <1>4, <1>c, <2>3 DEF Answered
  <2>5. \A form : EndsAs(form) \in Causes
    BY <1>c DEF EndsAs
  <2> HIDE DEF q
  <2>6. CASE \E form \in {"sse", "json", "opaque"} : Becomes(q("body", form)) /\ StaysOpen(r)
    BY <1>a, <2>1, <2>2, <2>6
  <2>7. CASE \E form \in {"sse", "json", "opaque"} :
               Becomes(q("ended", form)) /\ Closes(r, EndsAs(form), Meaning[EndsAs(form)])
    BY <1>b, <2>1, <2>2, <2>5, <2>7
  <2>8. CASE \E phase \in {"body", "over"} :
               Becomes(q(phase, "opaque")) /\ Closes(r, "refused", Meaning["refused"])
    BY <1>b, <1>c, <2>1, <2>2, <2>8
  <2> QED BY <2>4, <2>6, <2>7, <2>8
<1>5. CASE Limited(r)
  <2> DEFINE q == [request[r] EXCEPT !.limited = TRUE]
  <2>1. q \in Request /\ q.phase = request[r].phase /\ Becomes(q)
    BY <1>0, <1>5 DEF Limited, Becomes, Request
  <2> HIDE DEF q
  <2> QED BY <1>5, <1>a, <2>1 DEF Limited
<1>6. ASSUME NEW phase \in {"ended", "over"}, Moves(r, phase), request[r].phase # "dead",
             UNCHANGED recording, NEW cause \in Causes, Closes(r, cause, Meaning[cause])
      PROVE  Changes(r)
  <2> DEFINE q == [request[r] EXCEPT !.phase = phase]
  <2>1. q \in Request /\ Becomes(q)
    BY <1>0, <1>6 DEF Moves, Becomes, Request
  <2> HIDE DEF q
  <2> QED BY <1>6, <1>b, <2>1
<1>7. CASE Tells(r)
  <2>1. PICK cause \in Causes : /\ Closes(r, cause, Meaning[cause])
                                /\ UNCHANGED request \/ Moves(r, "over")
    BY <1>7, <1>c DEF Tells
  <2>2. Becomes(request[r]) \/ Moves(r, "over")
    BY <1>0, <2>1 DEF Becomes
  <2> QED BY <1>0, <1>6, <1>7, <1>b, <2>1, <2>2 DEF Tells, Phase
<1>8. CASE BodyEnds(r) \/ Breaks(r) \/ Garbled(r)
  <2>1. \E cause \in Causes : Closes(r, cause, Meaning[cause])
    BY <1>8, <1>c DEF BodyEnds, Breaks, Garbled, EndsAs
  <2>2. Moves(r, "ended") \/ Moves(r, "over")
    BY <1>8 DEF BodyEnds, Breaks, Garbled
  <2> QED BY <1>6, <1>8, <2>1, <2>2 DEF BodyEnds, Breaks, Garbled, Phase
<1>9. CASE HangsUp(r)
  <2>1. CASE Phase(r, "ended")
    <3> DEFINE q == [request[r] EXCEPT !.phase = "over"]
    <3>1. q \in Request /\ Becomes(q) /\ request[r].phase = "ended"
      BY <1>0, <1>9, <2>1 DEF HangsUp, Moves, Becomes, Request, Phase
    <3> HIDE DEF q
    <3> QED BY <1>9, <1>a, <2>1, <3>1 DEF HangsUp
  <2>2. CASE ~Phase(r, "ended")
    BY <1>6, <1>9, <1>c, <2>2 DEF HangsUp, Phase
  <2> QED BY <2>1, <2>2
<1> QED BY <1>1, <1>2, <1>3, <1>4, <1>5, <1>7, <1>8, <1>9

-----------------------------------------------------------------------------
(* The invariant.                                                          *)

LEMMA CellTypes ==
  ASSUME LedgerInv PROVE \A k \in Cells : ledger[k].request \in Requests
<1> SUFFICES ASSUME NEW k \in Cells PROVE ledger[k].request \in Requests
  OBVIOUS
<1>1. ledger[k] \in Line
  BY DEF LedgerInv, Cells
<1> QED BY <1>1 DEF Line

LEMMA TurnsStep ==
  ASSUME RecordInv, NEW r \in Requests, Changes(r) PROVE RecordInv'
<1> USE DEF RecordInv
<1>1. /\ ledger' = ledger /\ torn' = torn /\ Cells' = Cells
      /\ \A u \in Requests : Written(u)' = Written(u)
  BY DEF Changes, recording, Cells, Written
<1>2. PICK q \in Request :
        /\ request' = [request EXCEPT ![r] = q]
        /\ request[r].phase = "dead" => q.phase = "dead"
        /\ q.phase \in {"ended", "over"} => outcome'[r] # "open"
  BY DEF Changes
<1>3. request' \in [Requests -> Request] /\ request \in [Requests -> Request]
  BY <1>2 DEF RecordTypeOK, Request
<1>4. CASE StaysOpen(r)
  <2>1. RecordTypeOK'
    BY <1>1, <1>3, <1>4 DEF RecordTypeOK, StaysOpen, Request, Cells
  <2>2. ClosedInv'
    BY <1>2, <1>3, <1>4 DEF ClosedInv, StaysOpen
  <2>3. LedgerInv'
    BY <1>1, <1>2, <1>3, <1>4 DEF LedgerInv, StaysOpen
  <2>4. TornInv'
    BY <1>1 DEF TornInv
  <2> QED BY <2>1, <2>2, <2>3, <2>4
<1>5. ASSUME NEW cause \in Causes, Closes(r, cause, Meaning[cause]) PROVE RecordInv'
  <2>1. CASE outcome[r] = "open"
    <3>1. first[r] = "none"
      BY <2>1 DEF ClosedInv
    <3>2. /\ outcome' = [outcome EXCEPT ![r] = Meaning[cause]] /\ due' = due \cup {r}
          /\ first' = [first EXCEPT ![r] = cause]
      BY <1>5, <2>1, <3>1 DEF Closes, Close, Happens
    <3>3. RecordTypeOK'
      BY <1>1, <1>3, <3>2, Meanings DEF RecordTypeOK, Causes, Request, Cells
    <3>4. ClosedInv'
      BY <1>2, <1>3, <3>2, Meanings DEF ClosedInv, RecordTypeOK
    <3>5. LedgerInv'
      <4>1. \A k \in Cells : ledger[k].request # r
        BY <2>1 DEF LedgerInv
      <4>2. \A k \in Cells : ledger[k].request \in Requests
        BY CellTypes
      <4> QED BY <1>1, <1>2, <1>3, <3>2, <4>1, <4>2, Meanings DEF LedgerInv, RecordTypeOK
    <3>6. TornInv'
      BY <1>1 DEF TornInv
    <3> QED BY <3>3, <3>4, <3>5, <3>6
  <2>2. CASE outcome[r] # "open"
    <3>1. StaysOpen(r)
      BY <1>5, <2>2 DEF Closes, Close, Happens, StaysOpen, ClosedInv
    <3> QED BY <1>4, <3>1
  <2> QED BY <2>1, <2>2
<1> QED BY <1>4, <1>5 DEF Changes

\* A line, whole or cut short, that is appended for a request that is due.
LEMMA WritingStep ==
  ASSUME RecordInv, NEW r \in Requests, NEW piece \in Pieces, Writing(r), Puts(r, piece),
         torn' \in {torn, torn \cup {r}}, piece # "line" => r \in torn'
  PROVE  RecordInv'
<1> USE DEF RecordInv
<1> DEFINE cell == [request |-> r, outcome |-> outcome[r], piece |-> piece]
<1>1. /\ r \in due /\ due' = due \ {r}
      /\ UNCHANGED <<request, outcome, first>> /\ ledger' = Append(ledger, cell)
  BY DEF Writing, Puts
<1>2. cell \in Line /\ cell.request = r /\ cell.piece = piece
  BY <1>1 DEF RecordTypeOK, Line
<1> HIDE DEF cell
<1>3. /\ Cells' = Cells \cup {Len(ledger) + 1} /\ Len(ledger) + 1 \notin Cells
      /\ \A k \in Cells : ledger'[k] = ledger[k]
      /\ ledger'[Len(ledger) + 1] = cell /\ ledger' \in Seq(Line)
  BY <1>1, <1>2 DEF LedgerInv, Cells
<1>4. RecordTypeOK'
  <2>1. \A k \in 1..Len(ledger') : ledger'[k].piece \in {"line", "part", "bare"}
    BY <1>2, <1>3 DEF RecordTypeOK, Cells, Pieces
  <2> QED BY <1>1, <2>1 DEF RecordTypeOK
<1>5. ClosedInv'
  BY <1>1 DEF ClosedInv
<1>6. LedgerInv'
  <2>1. \A k \in Cells : ledger[k].request # r
    BY <1>1 DEF LedgerInv
  <2>2. \A j, k \in Cells' : ledger'[j].request = ledger'[k].request => j = k
    BY <1>2, <1>3, <2>1 DEF LedgerInv
  <2>3. \A k \in Cells' : ledger'[k].request \notin due' /\ outcome'[ledger'[k].request] # "open"
    <3>1. outcome'[r] # "open" /\ r \notin due'
      BY <1>1 DEF RecordTypeOK
    <3> QED BY <1>1, <1>2, <1>3, <3>1 DEF LedgerInv
  <2>4. Written(r)' /\ \A u \in Requests : Written(u) => Written(u)'
    BY <1>2, <1>3 DEF Written
  <2>5. \A u \in Requests : outcome'[u] # "open" =>
          u \in due' \/ Written(u)' \/ request'[u].phase = "dead"
    BY <1>1, <2>4 DEF LedgerInv
  <2> QED BY <1>3, <2>2, <2>3, <2>5 DEF LedgerInv
<1>7. TornInv'
  <2>1. IsFiniteSet(torn')
    BY FS_AddElement DEF TornInv
  <2>2. \A k \in Cells' : ledger'[k].piece # "line" => ledger'[k].request \in torn'
    BY <1>2, <1>3 DEF TornInv
  <2> QED BY <2>1, <2>2 DEF TornInv
<1>8. torn' \subseteq Requests
  BY DEF RecordTypeOK
<1> QED BY <1>4, <1>5, <1>6, <1>7

\* A process that dies takes what is due along, and comes back as nothing.
LEMMA DiesStep ==
  ASSUME RecordInv, NEW p, Dies(p) PROVE RecordInv'
<1> USE DEF RecordInv
<1>1. /\ UNCHANGED <<outcome, first, ledger, torn>> /\ Cells' = Cells
      /\ due' = {r \in due : Process(r) # p}
      /\ \A r \in Requests : Written(r)' = Written(r)
  BY DEF Dies, recording, Cells, Written
<1>2. /\ request' \in [Requests -> Request]
      /\ \A r \in Requests : \/ request'[r] = request[r] /\ Process(r) # p
                             \/ request'[r].phase = "dead" /\ Process(r) = p
  <2> DEFINE corpse(r) == [request[r] EXCEPT !.phase = "dead", !.uploading = FALSE]
  <2>1. \A r \in Requests : corpse(r) \in Request /\ corpse(r).phase = "dead"
    BY DEF RecordTypeOK, Request
  <2>2. request \in [Requests -> Request]
    BY DEF RecordTypeOK, Request
  <2>3. request' = [r \in Requests |-> IF Process(r) = p THEN corpse(r) ELSE request[r]]
    BY DEF Dies
  <2> HIDE DEF corpse
  <2>4. ASSUME NEW r \in Requests
        PROVE  /\ request'[r] \in Request
               /\ \/ request'[r] = request[r] /\ Process(r) # p
                  \/ request'[r].phase = "dead" /\ Process(r) = p
    <3>1. CASE Process(r) = p
      <4>1. request'[r] = corpse(r)
        BY <2>3, <3>1
      <4> QED BY <2>1, <3>1, <4>1
    <3>2. CASE Process(r) # p
      <4>1. request'[r] = request[r]
        BY <2>3, <3>2
      <4> QED BY <2>2, <3>2, <4>1
    <3> QED BY <3>1, <3>2
  <2> QED BY <2>3, <2>4
<1>3. RecordTypeOK'
  BY <1>1, <1>2 DEF RecordTypeOK, Request, Cells
<1>4. ClosedInv'
  BY <1>1, <1>2 DEF ClosedInv
<1>5. LedgerInv'
  <2>1. \A r \in Requests : outcome[r] # "open" =>
          r \in due' \/ Written(r) \/ request'[r].phase = "dead"
    BY <1>1, <1>2 DEF LedgerInv
  <2> QED BY <1>1, <2>1 DEF LedgerInv
<1>6. TornInv'
  BY <1>1 DEF TornInv
<1> QED BY <1>3, <1>4, <1>5, <1>6

LEMMA NextRecordInv == RecordInv /\ [RecordNext]_recordVars => RecordInv'
<1> SUFFICES ASSUME RecordInv, [RecordNext]_recordVars PROVE RecordInv'
  OBVIOUS
<1>1. ASSUME NEW r \in Requests,
             \/ Arrives(r) \/ Uploaded(r) \/ UploadBreaks(r) \/ NotSent(r) \/ Answered(r)
             \/ Tells(r) \/ Limited(r) \/ BodyEnds(r) \/ Breaks(r) \/ Garbled(r) \/ HangsUp(r)
      PROVE  RecordInv'
  BY <1>1, RequestTurns, TurnsStep, ViasAssumption DEF RecordInv
<1>2. ASSUME NEW r \in Requests, Appends(r) PROVE RecordInv'
  BY <1>2, WritingStep DEF Appends, Pieces
<1>3. ASSUME NEW r \in Requests, Tears(r) PROVE RecordInv'
  BY <1>3, WritingStep DEF Tears, Pieces
<1>4. ASSUME NEW p, Dies(p) PROVE RecordInv'
  BY <1>4, DiesStep
<1>5. CASE UNCHANGED recordVars
  BY <1>5 DEF recordVars, RecordInv, RecordTypeOK, ClosedInv, LedgerInv, TornInv, Cells, Written
<1> QED BY <1>1, <1>2, <1>3, <1>4, <1>5 DEF RecordNext

LEMMA RecordInductive == RecordSpec => []RecordInv
<1> QED BY InitRecordInv, NextRecordInv, PTL DEF RecordSpec

-----------------------------------------------------------------------------
(* Counting.                                                               *)

\* What a request has in the ledger and due is one record or none.
LEMMA RecordsCounted ==
  ASSUME RecordInv, NEW r \in Requests
  PROVE  /\ RecordsOf(r) = 1 \/ RecordsOf(r) = 0
         /\ r \in due \/ Written(r) => RecordsOf(r) = 1
<1> DEFINE of == {k \in 1..Len(ledger) : ledger[k].request = r}
<1> USE DEF RecordInv
<1>1. CASE Written(r)
  <2>1. PICK k \in Cells : ledger[k].request = r
    BY <1>1 DEF Written
  <2>2. of = {k} /\ r \notin due
    BY <2>1 DEF LedgerInv, Cells
  <2>3. Cardinality(of) = 1
    BY <2>2, FS_Singleton
  <2> QED BY <2>2, <2>3 DEF RecordsOf
<1>2. CASE ~Written(r)
  <2>1. of = {}
    BY <1>2 DEF Written, Cells
  <2>2. Cardinality(of) = 0
    BY <2>1, FS_EmptySet
  <2> QED BY <1>2, <2>2 DEF RecordsOf
<1> QED BY <1>1, <1>2

\* A record that is not read back stands behind a torn line, and no two stand
\* behind the same.
LEMMA LostBehindTorn ==
  ASSUME RecordInv PROVE RecordsSurvive
<1> USE DEF RecordInv
<1> DEFINE written == {k \in 1..Len(ledger) : ledger[k].request \notin torn}
           lost == written \ ReadBack
           behind == [k \in lost |-> ledger[k - 1].request]
<1>1. Len(ledger) \in Nat
  BY DEF LedgerInv
<1>2. \A k \in lost : k \in Cells /\ k - 1 \in Cells /\ ledger[k - 1].request \in torn
  <2> SUFFICES ASSUME NEW k \in lost
               PROVE  k \in Cells /\ k - 1 \in Cells /\ ledger[k - 1].request \in torn
    OBVIOUS
  <2>1. k \in Cells /\ ledger[k].piece = "line" /\ ~Reads(k)
    BY DEF TornInv, ReadBack, Cells
  <2>2. k # 1 /\ ledger[k - 1].piece # "line"
    BY <2>1 DEF Reads
  <2>3. k - 1 \in Cells
    BY <1>1, <2>1, <2>2 DEF Cells
  <2> QED BY <2>1, <2>2, <2>3 DEF TornInv
<1>3. behind \in Injection(lost, torn)
  <2>1. behind \in [lost -> torn]
    BY <1>2
  <2>2. ASSUME NEW j \in lost, NEW k \in lost, behind[j] = behind[k] PROVE j = k
    <3>1. ledger[j - 1].request = ledger[k - 1].request
      BY <2>2
    <3>2. j - 1 = k - 1
      BY <1>2, <3>1 DEF LedgerInv
    <3> QED BY <1>1, <1>2, <3>2 DEF Cells
  <2> HIDE DEF behind, lost
  <2> QED BY <2>1, <2>2 DEF Injection, IsInjective
<1>4. Cardinality(lost) <= Cardinality(torn)
  <2> HIDE DEF behind, lost
  <2> QED BY <1>3, FS_Injection DEF TornInv
<1> QED BY <1>4 DEF RecordsSurvive

-----------------------------------------------------------------------------
(* The theorems.                                                           *)

\* Every variable keeps its type, and what is due is closed.
THEOREM RecordTypes == RecordSpec => []RecordTypeOK
<1>1. RecordInv => RecordTypeOK
  BY DEF RecordInv
<1> QED BY <1>1, RecordInductive, PTL

\* finish_at: of the upload, the wait and the answer, each holding the
\* observation, the first to end decides the outcome, and one record of it is
\* written or on its way when nobody reads the answer any more.  append and
\* read_records: among any number of processes writing to one ledger, a line
\* cut short makes at most the record behind it unreadable.
THEOREM LedgerTold == RecordSpec => []LedgerTrue
<1>1. RecordInv => OneHonestRecord
  <2> SUFFICES ASSUME RecordInv, NEW r \in Requests
               PROVE  /\ RecordsOf(r) <= 1
                      /\ outcome[r] # "open" => outcome[r] = Meaning[first[r]]
                      /\ request[r].phase \in {"ended", "over"} =>
                           outcome[r] # "open" /\ RecordsOf(r) = 1
    BY DEF OneHonestRecord
  <2> QED BY RecordsCounted DEF RecordInv, ClosedInv, LedgerInv
<1>2. RecordInv => RecordsSurvive
  BY LostBehindTorn
<1>3. RecordInv => LedgerTrue
  BY <1>1, <1>2 DEF LedgerTrue
<1> QED BY <1>3, RecordInductive, PTL

-----------------------------------------------------------------------------
(* Hubs.  Whatever fails, temporary files are there as long as their       *)
(* session runs, and what is left behind is on record.  The argument: a hub *)
(* that cleans up holds the owner lock, so no other hub is up, so no       *)
(* session holds files.                                                    *)

Owning == {"reaping", "serving", "stopping"}

\* Only the hub with the lock looks at records or has sessions.
OwnerInv == \A h \in Hubs : hub[h] \in Owning => owner = {h}

\* A session on its way has its files, and a hub that is up.
HoldInv ==
  \A s \in Sessions : SessionPhase(s) \in Holding =>
    s \in files /\ session[s].hub \in Hubs /\ Up(session[s].hub)

\* Files that can be removed are of sessions on their way or lost, and on
\* record once noted.
FilesInv ==
  \A s \in files \ left : SessionPhase(s) \in Holding \cup {"lost"} /\ (session[s].noted => s \in recorded)

\* An agent runs in a session that has it, or its hub is gone.
AgentInv == \A s \in agents \ silent : SessionPhase(s) \in {"pane", "running", "dropped", "lost"}

HubInv == HubTypeOK /\ OwnerInv /\ HoldInv /\ FilesInv /\ AgentInv

USE DEF SessionPhase, Goes, HubGoes, Up, Removes, Stops, AsksToStop, hubs, given

LEMMA InitHubInv == HubInit => HubInv
  BY DEF HubInit, HubInv, HubTypeOK, OwnerInv, HoldInv, FilesInv, AgentInv, Holding, Owning

LEMMA NextHubTypeOK == HubTypeOK /\ [HubNext]_hubVars => HubTypeOK'
<1> SUFFICES ASSUME HubTypeOK, [HubNext]_hubVars PROVE HubTypeOK'
  OBVIOUS
<1> USE DEF HubTypeOK, Holding, Over
<1>1. ASSUME NEW h \in Hubs, Starts(h) \/ Owns(h) \/ ReapsFiles(h) \/ ReapsRecord(h) \/ ReapsGarbled(h)
                                 \/ Listens(h) \/ Stopped(h)
      PROVE  HubTypeOK'
  BY <1>1 DEF Starts, Owns, ReapsFiles, ReapsRecord, ReapsGarbled, Listens, Stopped
<1>2. ASSUME NEW h \in Hubs, HubEnds(h) PROVE HubTypeOK'
  BY <1>2 DEF HubEnds
<1>3. ASSUME NEW s \in Sessions, Prepares(s) PROVE HubTypeOK'
  <2> PICK h \in Hubs :
        session' = [session EXCEPT ![s] = [phase |-> "prepared", hub |-> h, noted |-> FALSE]]
    BY <1>3 DEF Prepares
  <2>1. session' \in [Sessions -> [phase : Holding \cup Over \cup {"none", "dropped"},
                                   hub : Hubs \cup {0}, noted : BOOLEAN]]
    OBVIOUS
  <2> QED
    BY <1>3, <2>1 DEF Prepares
<1>4. ASSUME NEW s \in Sessions, Records(s) PROVE HubTypeOK'
  BY <1>4 DEF Records
<1>5. ASSUME NEW s \in Sessions, Pane(s) \/ SessionStart(s) PROVE HubTypeOK'
  BY <1>5 DEF Pane, SessionStart
<1>8. ASSUME NEW s \in Sessions,
             \/ CreateFails(s) \/ CreateRefused(s) \/ DropsPrepared(s) \/ StartFails(s) \/ StopsServer(s)
      PROVE  HubTypeOK'
  BY <1>8 DEF CreateFails, CreateRefused, DropsPrepared, StartFails, StopsServer
<1>6. ASSUME NEW s \in Sessions, AgentEnds(s) \/ Exits(s) \/ GuardsDrop(s) \/ CardReaped(s) PROVE HubTypeOK'
  BY <1>6 DEF AgentEnds, Exits, GuardsDrop, CardReaped
<1>7. CASE UNCHANGED hubVars
  BY <1>7 DEF hubVars
<1> QED
  BY <1>1, <1>2, <1>3, <1>4, <1>5, <1>6, <1>7, <1>8 DEF HubNext

\* What a hub does on its own.  Cleaning up takes no session's files.
LEMMA HubStep ==
  ASSUME HubInv, NEW h \in Hubs,
         Starts(h) \/ Owns(h) \/ ReapsFiles(h) \/ ReapsRecord(h) \/ ReapsGarbled(h)
           \/ Listens(h) \/ Stopped(h) \/ HubEnds(h)
  PROVE  OwnerInv' /\ HoldInv' /\ FilesInv' /\ AgentInv'
<1> USE DEF HubInv, HubTypeOK, OwnerInv, HoldInv, FilesInv, AgentInv, Holding, Owning
<1>1. CASE Starts(h)
  BY <1>1 DEF Starts
<1>2. CASE Owns(h)
  BY <1>2 DEF Owns
<1>3. CASE ReapsFiles(h)
  <2>1. owner = {h} /\ ~Up(h)
    BY <1>3 DEF ReapsFiles
  <2>2. \A s \in Sessions : SessionPhase(s) \notin Holding
    BY <2>1
  <2> QED
    BY <1>3, <2>2 DEF ReapsFiles
<1>4. CASE ReapsRecord(h) \/ ReapsGarbled(h)
  <2>1. owner = {h} /\ ~Up(h)
    BY <1>4 DEF ReapsRecord, ReapsGarbled
  <2>2. \A s \in Sessions : SessionPhase(s) \notin Holding
    BY <2>1
  <2> QED
    BY <1>4, <2>2 DEF ReapsRecord, ReapsGarbled
<1>5. CASE Listens(h) \/ Stopped(h)
  BY <1>5 DEF Listens, Stopped
<1>6. CASE HubEnds(h)
  <2>1. OwnerInv' /\ FilesInv' /\ AgentInv'
    BY <1>6 DEF HubEnds
  <2>2. HoldInv'
    BY <1>6 DEF HubEnds
  <2> QED
    BY <2>1, <2>2
<1> QED
  BY <1>1, <1>2, <1>3, <1>4, <1>5, <1>6

\* What is done about one session leaves the others alone.
LEMMA SessionStep ==
  ASSUME HubInv, NEW s \in Sessions,
         \/ Prepares(s) \/ Records(s) \/ Pane(s) \/ SessionStart(s) \/ CreateFails(s)
         \/ CreateRefused(s) \/ DropsPrepared(s) \/ StartFails(s) \/ StopsServer(s)
         \/ AgentEnds(s) \/ Exits(s) \/ GuardsDrop(s) \/ CardReaped(s)
  PROVE  OwnerInv' /\ HoldInv' /\ FilesInv' /\ AgentInv'
<1> USE DEF HubInv, HubTypeOK, OwnerInv, HoldInv, FilesInv, AgentInv, Holding, Owning
<1>1. CASE Prepares(s)
  BY <1>1 DEF Prepares
<1>2. CASE Records(s)
  <2>1. CASE recorded' = recorded \cup {s}
             /\ session' = [session EXCEPT ![s].phase = "recorded", ![s].noted = TRUE]
    BY <1>2, <2>1 DEF Records
  <2>2. CASE session' = [session EXCEPT ![s].phase = "recorded"] /\ recorded' = recorded
    BY <1>2, <2>2 DEF Records
  <2> QED
    BY <1>2, <2>1, <2>2 DEF Records
<1>3. CASE Pane(s) \/ SessionStart(s)
  BY <1>3 DEF Pane, SessionStart
<1>4. CASE CreateFails(s) \/ DropsPrepared(s)
  BY <1>4 DEF CreateFails, DropsPrepared
<1>9. CASE CreateRefused(s) \/ StopsServer(s)
  BY <1>9 DEF CreateRefused, StopsServer
<1>10. CASE StartFails(s)
  BY <1>10 DEF StartFails
<1>5. CASE AgentEnds(s)
  BY <1>5 DEF AgentEnds
<1>6. CASE Exits(s)
  BY <1>6 DEF Exits
<1>7. CASE GuardsDrop(s)
  BY <1>7 DEF GuardsDrop
<1>8. CASE CardReaped(s)
  BY <1>8 DEF CardReaped
<1> QED
  BY <1>1, <1>2, <1>3, <1>4, <1>5, <1>6, <1>7, <1>8, <1>9, <1>10

LEMMA NextHubInv == HubInv /\ [HubNext]_hubVars => HubInv'
<1> SUFFICES ASSUME HubInv, [HubNext]_hubVars PROVE HubInv'
  OBVIOUS
<1>1. HubTypeOK'
  BY NextHubTypeOK DEF HubInv
<1>2. CASE HubNext
  BY <1>1, <1>2, HubStep, SessionStep DEF HubNext, HubInv
<1>3. CASE UNCHANGED hubVars
  BY <1>3 DEF hubVars, HubInv, HubTypeOK, OwnerInv, HoldInv, FilesInv, AgentInv, Holding, Owning
<1> QED
  BY <1>2, <1>3

\* Hubs, launches and records keep to their shapes.
THEOREM HubTypes == HubSpec => []HubTypeOK
<1>1. HubInv => HubTypeOK
  BY DEF HubInv
<1> QED
  BY <1>1, InitHubInv, NextHubInv, PTL DEF HubSpec

\* While its hub is up an agent has its files or is not left running, and
\* files that no hub would remove any more are on record for the next.
THEOREM FilesKept == HubSpec => []FilesFollowSessions
<1>1. HubInv => FilesFollowSessions
  BY DEF HubInv, HoldInv, FilesInv, AgentInv, FilesFollowSessions, AgentsKeepFiles,
         LeftoversNoted, Holding, HubTypeOK
<1> QED
  BY <1>1, InitHubInv, NextHubInv, PTL DEF HubSpec

HIDE DEF SessionPhase, Goes, HubGoes, Up, Removes, Stops, AsksToStop, hubs, given

-----------------------------------------------------------------------------
(* Antigravity.  Whoever gives up or is killed, alc runs one agy at a time, *)
(* because whoever runs it, or has given up waiting for it, holds the lock *)
(* file; and a turn names the project of the account that signs it, because *)
(* a project is only used with the token it was asked for with, and a token *)
(* never changes accounts.                                                 *)

\* The lock file is one turn's, whose task is about to run agy or runs it.
LockInv ==
  /\ \A t, u \in lock : t = u
  /\ \A t \in Turns : t \in lock <=> thread[t] \in {"has", "agy"}

\* Where a turn is, its task is too, unless the turn has given up.
ThreadInv ==
  \A t \in Turns :
    /\ At(t, "lock") => thread[t] = "waiting"
    /\ At(t, "recheck") => thread[t] = "has"
    /\ At(t, "agy") => thread[t] = "agy"
    /\ At(t, "gone") => thread[t] # "has"
    /\ turn[t].pc \notin {"lock", "recheck", "agy", "gone"} => thread[t] = "none"

\* A remembered project is the one of its token's account.
ProjectInv ==
  \A b \in Bridges : project[b].token # 0 => project[b].account = issued[project[b].token]

\* A turn that asks or posts has a token, and posts with its account's project.
SignedInv ==
  \A t \in Turns :
    /\ turn[t].pc \in {"asked", "post"} => turn[t].token # 0
    /\ turn[t].pc = "post" => turn[t].named = issued[turn[t].token]

RenewInv == RenewTypeOK /\ LockInv /\ ThreadInv /\ ProjectInv /\ SignedInv

USE DEF At, TurnGoes, TurnEnds, Frees, Thread, Forgets, Forgotten, stored, renewing

LEMMA HomeIsBridge == \A t \in Turns : Home(t) \in Bridges
  BY DEF Bridges

LEMMA InitRenewInv == RenewInit => RenewInv
  BY HomeIsBridge DEF RenewInit, RenewInv, RenewTypeOK, LockInv, ThreadInv, ProjectInv, SignedInv, RenewSteps,
     Ended, Tokens, TurnStates, In, Again

-----------------------------------------------------------------------------
(* What the steps of a turn make of it.                                    *)

\* Steps of a turn without a task, and those of one that signs.
Free == {"token", "flight", "asked", "post", "answered", "failed"}
Signing == {"asked", "post"}

Signed(r) ==
  /\ r.pc \in Signing => r.token # 0
  /\ r.pc = "post" => r.named = issued[r.token]

Becomes(t, r) == turn' = [turn EXCEPT ![t] = r]

LEMMA Goings ==
  ASSUME RenewTypeOK, NEW t \in Turns, NEW at \in RenewSteps \ Signing, TurnGoes(t, at)
  PROVE  \E r \in TurnStates : Signed(r) /\ r.pc = at /\ Becomes(t, r)
<1> DEFINE r == [turn[t] EXCEPT !.pc = at]
<1>1. turn[t] \in TurnStates
  BY DEF RenewTypeOK
<1>2. r \in TurnStates /\ Signed(r) /\ r.pc = at
  BY <1>1 DEF TurnStates, Signed, Signing
<1>3. Becomes(t, r)
  BY DEF Becomes, RenewTypeOK
<1> QED
  BY <1>2, <1>3

LEMMA Endings ==
  ASSUME RenewTypeOK, NEW t \in Turns, NEW at \in Ended, TurnEnds(t, at)
  PROVE  \E r \in TurnStates : Signed(r) /\ r.pc = at /\ Becomes(t, r)
<1>1. In(at) \in TurnStates /\ Signed(In(at)) /\ In(at).pc = at
  BY DEF RenewTypeOK, TurnStates, In, Again, Signed, Signing, RenewSteps, Ended
<1> QED
  BY <1>1 DEF Becomes

LEMMA Signings ==
  ASSUME RenewTypeOK, ProjectInv, NEW t \in Turns, login # 0, Signs(t)
  PROVE  \E r \in TurnStates : Signed(r) /\ r.pc \in Free /\ Becomes(t, r)
<1> DEFINE known == project[Home(t)]
           r == [turn[t] EXCEPT !.pc = IF known.token = login THEN "post" ELSE "asked",
                                !.token = login,
                                !.named = IF known.token = login THEN known.account ELSE 0]
<1>1. /\ turn[t] \in TurnStates /\ login \in 0..Len(issued)
      /\ known.account \in Nat /\ (known.token = login => known.account = issued[login])
  BY HomeIsBridge DEF RenewTypeOK, ProjectInv
<1>2. r \in TurnStates
  BY <1>1 DEF TurnStates, RenewSteps
<1>3. Signed(r) /\ r.pc \in Free
  BY <1>1 DEF TurnStates, Signed, Signing, Free
<1>4. Becomes(t, r)
  BY DEF Becomes, RenewTypeOK, Signs
<1> QED
  BY <1>2, <1>3, <1>4

LEMMA Renewals ==
  ASSUME RenewTypeOK, ProjectInv, NEW t \in Turns, login # 0, Renewed(t)
  PROVE  \E r \in TurnStates : Signed(r) /\ r.pc \in Free /\ Becomes(t, r)
<1>1. CASE Signs(t)
  BY <1>1, Signings
<1>2. CASE turn' = [turn EXCEPT ![t].pc = "token", ![t].rejected = 0]
  <2> DEFINE r == [turn[t] EXCEPT !.pc = "token", !.rejected = 0]
  <2>1. turn[t] \in TurnStates /\ 0 \in 0..Len(issued)
    BY DEF RenewTypeOK
  <2>2. r \in TurnStates /\ Signed(r) /\ r.pc \in Free
    <3>1. r.pc = "token" /\ r \in TurnStates
      BY <2>1 DEF TurnStates, RenewSteps
    <3> QED
      BY <3>1 DEF Signed, Signing, Free
  <2>3. Becomes(t, r)
    BY <1>2 DEF Becomes, RenewTypeOK
  <2> QED
    BY <2>2, <2>3
<1> QED
  BY <1>1, <1>2 DEF Renewed

LEMMA Refusals ==
  ASSUME RenewTypeOK, NEW t \in Turns, Refused(t)
  PROVE  /\ \E r \in TurnStates : Signed(r) /\ r.pc \in Free /\ Becomes(t, r)
         /\ UNCHANGED project \/ Forgets(t)
<1>0. turn[t] \in TurnStates
  BY DEF RenewTypeOK
<1>1. CASE TurnEnds(t, "failed") /\ (UNCHANGED project \/ Forgets(t))
  BY <1>1, Endings DEF Ended, Free
<1>2. CASE /\ turn' = [turn EXCEPT ![t] = Again("token", 0, turn[t].renewed, turn[t].attempt + 1)]
           /\ UNCHANGED project
  <2> DEFINE r == Again("token", 0, turn[t].renewed, turn[t].attempt + 1)
  <2>1. r \in TurnStates /\ Signed(r) /\ r.pc \in Free
    <3>1. r.pc = "token" /\ r \in TurnStates
      BY <1>0 DEF RenewTypeOK, TurnStates, RenewSteps, Again
    <3> QED
      BY <3>1 DEF Signed, Signing, Free
  <2> QED
    BY <1>2, <2>1 DEF Becomes
<1>3. CASE Unauthorized(t)
  <2> DEFINE r == Again("flight", turn[t].token, TRUE, turn[t].attempt)
  <2>1. r \in TurnStates /\ Signed(r) /\ r.pc \in Free
    <3>1. r.pc = "flight" /\ r \in TurnStates
      BY <1>0 DEF RenewTypeOK, TurnStates, RenewSteps, Again
    <3> QED
      BY <3>1 DEF Signed, Signing, Free
  <2>2. CASE Becomes(t, r)
    BY <1>3, <2>1, <2>2 DEF Unauthorized
  <2>3. CASE TurnEnds(t, "failed")
    BY <1>3, <2>3, Endings DEF Unauthorized, Ended, Free
  <2> QED
    BY <1>3, <2>2, <2>3 DEF Unauthorized, Becomes
<1> QED
  BY <1>1, <1>2, <1>3 DEF Refused

\* Whatever a turn does, what it becomes is signed with what is its own.
LEMMA TurnStep ==
  ASSUME RenewInv, NEW t \in Turns, Renews(t) \/ Streams(t) \/ Cancel(t)
  PROVE  \/ UNCHANGED turn
         \/ \E r \in TurnStates : Signed(r) /\ Becomes(t, r)
<1> USE DEF RenewInv
<1>1. CASE Token(t)
  <2>1. "flight" \in RenewSteps \ Signing /\ "failed" \in Ended
    BY DEF RenewSteps, Signing, Ended
  <2> QED
    BY <1>1, <2>1, Goings, Endings, Signings DEF Token
<1>2. CASE Flight(t)
  <2>1. "lock" \in RenewSteps \ Signing /\ "failed" \in Ended
    BY DEF RenewSteps, Signing, Ended
  <2> QED
    BY <1>2, <2>1, Goings, Endings, Renewals DEF Flight, Usable
<1>3. CASE Acquire(t)
  <2>1. "recheck" \in RenewSteps \ Signing
    BY DEF RenewSteps, Signing
  <2> QED
    BY <1>3, <2>1, Goings DEF Acquire
<1>4. CASE NotAcquired(t)
  BY <1>4, Endings DEF NotAcquired, Ended
<1>5. CASE WaitEnds(t)
  BY <1>5 DEF WaitEnds
<1>6. CASE Recheck(t)
  <2>1. "agy" \in RenewSteps \ Signing /\ "failed" \in Ended
    BY DEF RenewSteps, Signing, Ended
  <2> QED
    BY <1>6, <2>1, Goings, Endings, Renewals DEF Recheck, Usable
<1>7. CASE AgyEnds(t)
  <2>1. "after" \in RenewSteps \ Signing /\ "failed" \in Ended
    BY DEF RenewSteps, Signing, Ended
  <2> QED
    BY <1>7, <2>1, Goings, Endings DEF AgyEnds
<1>8. CASE AfterAgy(t)
  BY <1>8, Endings, Renewals DEF AfterAgy, Usable, Ended
<1>9. CASE ProjectAnswered(t)
  <2> DEFINE seen == turn[t].token
  <2>1. turn[t] \in TurnStates /\ turn[t].pc = "asked" /\ login \in 0..Len(issued)
    BY <1>9 DEF ProjectAnswered, RenewTypeOK
  <2>2. seen \in 1..Len(issued) /\ issued \in Seq(Nat) /\ issued[seen] \in Nat
    <3>1. seen # 0
      BY <2>1 DEF SignedInv
    <3>2. seen \in 0..Len(issued) /\ issued \in Seq(Nat)
      BY <2>1 DEF TurnStates, RenewTypeOK
    <3> QED
      BY <3>1, <3>2
  <2>3. CASE Refused(t)
    BY <2>3, Refusals
  <2>4. CASE turn' = [turn EXCEPT ![t].pc = "post", ![t].named = issued[seen], ![t].switches = 0]
    <3> DEFINE r == [turn[t] EXCEPT !.pc = "post", !.named = issued[seen], !.switches = 0]
    <3>1. r \in TurnStates
      BY <2>1, <2>2 DEF TurnStates, RenewSteps
    <3>2. Signed(r)
      BY <2>1, <2>2 DEF Signed, Signing, TurnStates
    <3>3. Becomes(t, r)
      BY <2>4 DEF Becomes, RenewTypeOK
    <3> QED
      BY <3>1, <3>2, <3>3
  <2>5. CASE login # 0 /\ turn' = [turn EXCEPT ![t].token = login, ![t].switches = @ + 1]
    <3> DEFINE r == [turn[t] EXCEPT !.token = login, !.switches = turn[t].switches + 1]
    <3>0. turn[t].switches + 1 \in Nat
      BY <2>1 DEF TurnStates
    <3>1. r \in TurnStates
      BY <2>1, <3>0 DEF TurnStates
    <3>2. Signed(r)
      BY <2>1, <2>5 DEF Signed, Signing, TurnStates
    <3>3. Becomes(t, r)
      BY <2>5 DEF Becomes, RenewTypeOK
    <3> QED
      BY <3>1, <3>2, <3>3
  <2>6. CASE TurnEnds(t, "failed")
    BY <2>6, Endings DEF Ended
  <2> QED
    BY <1>9, <2>3, <2>4, <2>5, <2>6 DEF ProjectAnswered
<1>10. CASE Post(t)
  BY <1>10, Endings, Refusals DEF Post, Ended
<1>11. CASE Cancel(t)
  BY <1>11, Endings DEF Cancel, Ended
<1> QED
  BY <1>1, <1>2, <1>3, <1>4, <1>5, <1>6, <1>7, <1>8, <1>9, <1>10, <1>11 DEF Renews, Streams

LEMMA StoredUnchanged ==
  ASSUME NEW t \in Turns, Renews(t) \/ Streams(t) \/ Cancel(t)
  PROVE  UNCHANGED <<login, issued, worn, refused, orphans>>
  BY DEF Renews, Streams, Token, Flight, Acquire, NotAcquired, WaitEnds, Recheck, AgyEnds, AfterAgy,
         ProjectAnswered, Post, Cancel

\* What a bridge remembers is the answer it has just got, or nothing.
LEMMA ProjectStep ==
  ASSUME RenewInv, NEW t \in Turns, Renews(t) \/ Streams(t) \/ Cancel(t)
  PROVE  /\ project' \in [Bridges -> [token : 0..Len(issued), account : Nat]]
         /\ ProjectInv'
<1> USE HomeIsBridge DEF RenewInv, RenewTypeOK, ProjectInv
<1>1. UNCHANGED issued
  BY StoredUnchanged
<1>2. CASE UNCHANGED project
  BY <1>1, <1>2
<1>3. CASE Forgets(t)
  BY <1>1, <1>3
<1>4. CASE ProjectAnswered(t) /\ project' = [project EXCEPT ![Home(t)] =
             [token |-> turn[t].token, account |-> issued[turn[t].token]]]
  <2>1. turn[t].token \in 1..Len(issued) /\ issued[turn[t].token] \in Nat
    BY <1>4 DEF ProjectAnswered, SignedInv, TurnStates
  <2> QED
    BY <1>1, <1>4, <2>1
<1>5. \/ UNCHANGED project
      \/ Forgets(t)
      \/ ProjectAnswered(t) /\ project' = [project EXCEPT ![Home(t)] =
             [token |-> turn[t].token, account |-> issued[turn[t].token]]]
  <2>1. CASE Renews(t) \/ Cancel(t)
    BY <2>1 DEF Renews, Token, Flight, Acquire, NotAcquired, WaitEnds, Recheck, AgyEnds, AfterAgy, Cancel
  <2>2. CASE ProjectAnswered(t)
    BY <2>2, Refusals DEF ProjectAnswered
  <2>3. CASE Post(t)
    BY <2>3, Refusals DEF Post
  <2> QED
    BY <2>1, <2>2, <2>3 DEF Streams
<1> QED
  BY <1>2, <1>3, <1>4, <1>5

LEMMA TasksTyped ==
  ASSUME RenewTypeOK, NEW t \in Turns, Renews(t) \/ Streams(t) \/ Cancel(t)
  PROVE  /\ flight' \in [Bridges -> SUBSET Turns] /\ lock' \subseteq Turns
         /\ thread' \in [Turns -> {"none", "waiting", "has", "agy"}]
<1> USE HomeIsBridge DEF RenewTypeOK
<1>1. CASE Acquire(t) \/ NotAcquired(t) \/ WaitEnds(t)
  BY <1>1 DEF Acquire, NotAcquired, WaitEnds
<1>4. CASE Flight(t)
  <2>1. CASE UNCHANGED flight /\ UNCHANGED thread
    BY <1>4, <2>1 DEF Flight
  <2>2. CASE thread' = [thread EXCEPT ![t] = "waiting"] /\ flight' = [flight EXCEPT ![Home(t)] = {t}]
    BY <1>4, <2>2 DEF Flight
  <2> QED
    BY <1>4, <2>1, <2>2 DEF Flight
<1>2. CASE Recheck(t) \/ AgyEnds(t) \/ AfterAgy(t) \/ Cancel(t)
  BY <1>2, ZenonT(40) DEF Recheck, AgyEnds, AfterAgy, Cancel
<1>3. CASE Token(t) \/ Streams(t)
  BY <1>3 DEF Token, Streams, ProjectAnswered, Post
<1> QED
  BY <1>1, <1>2, <1>3, <1>4 DEF Renews

-----------------------------------------------------------------------------
(* The two invariants.                                                     *)

LEMMA LockStep ==
  ASSUME RenewInv, NEW t \in Turns, Renews(t) \/ Streams(t) \/ Cancel(t)
  PROVE  LockInv'
<1> USE DEF RenewInv, RenewTypeOK, LockInv, ThreadInv
<1>1. CASE Flight(t)
  BY <1>1, ZenonT(40) DEF Flight
<1>2. CASE Acquire(t) \/ NotAcquired(t) \/ WaitEnds(t)
  BY <1>2, SMTT(30) DEF Acquire, NotAcquired, WaitEnds
<1>3. CASE Recheck(t)
  BY <1>3 DEF Recheck
<1>4. CASE AgyEnds(t)
  BY <1>4 DEF AgyEnds
<1>5. CASE Cancel(t)
  BY <1>5 DEF Cancel
<1>6. CASE Token(t) \/ AfterAgy(t) \/ Streams(t)
  BY <1>6 DEF Token, AfterAgy, Streams, ProjectAnswered, Post
<1> QED
  BY <1>1, <1>2, <1>3, <1>4, <1>5, <1>6 DEF Renews

\* A turn that is anywhere without a task has none.
LEMMA Freed ==
  ASSUME RenewInv, NEW t \in Turns, NEW r \in TurnStates, Becomes(t, r),
         thread' \in [Turns -> {"none", "waiting", "has", "agy"}],
         r.pc \in Free, thread'[t] = "none",
         \A u \in Turns \ {t} : thread'[u] = thread[u]
  PROVE  ThreadInv'
  BY DEF RenewInv, RenewTypeOK, ThreadInv, Becomes, Free

LEMMA ThreadStep ==
  ASSUME RenewInv, NEW t \in Turns, Renews(t) \/ Streams(t) \/ Cancel(t)
  PROVE  ThreadInv'
<1> USE DEF RenewInv
<1>0. /\ thread' \in [Turns -> {"none", "waiting", "has", "agy"}]
      /\ "failed" \in Ended \cap Free /\ "answered" \in Ended \cap Free
      /\ "flight" \in (RenewSteps \ Signing) \cap Free
  BY TasksTyped DEF Ended, Free, RenewSteps, Signing
<1>1. CASE Token(t)
  <2>1. UNCHANGED thread /\ thread[t] = "none"
    BY <1>1 DEF Token, ThreadInv
  <2>2. \E r \in TurnStates : r.pc \in Free /\ Becomes(t, r)
    BY <1>0, <1>1, Goings, Endings, Signings DEF Token
  <2> QED
    BY <1>0, <2>1, <2>2, Freed
<1>2. CASE Flight(t)
  <2>1. thread[t] = "none"
    BY <1>2 DEF Flight, ThreadInv
  <2>2. CASE UNCHANGED thread /\ (TurnEnds(t, "failed") \/ (login # 0 /\ Renewed(t)))
    <3>1. \E r \in TurnStates : r.pc \in Free /\ Becomes(t, r)
      BY <1>0, <2>2, Endings, Renewals
    <3> QED
      BY <1>0, <2>1, <2>2, <3>1, Freed
  <2>3. CASE TurnGoes(t, "lock") /\ Thread(t, "waiting")
    BY <2>3 DEF RenewTypeOK, ThreadInv
  <2> HIDE DEF TurnEnds, TurnGoes, Thread
  <2>4. \/ UNCHANGED thread /\ (TurnEnds(t, "failed") \/ (login # 0 /\ Renewed(t)))
        \/ TurnGoes(t, "lock") /\ Thread(t, "waiting")
    BY <1>2 DEF Flight, Usable
  <2> QED
    BY <2>2, <2>3, <2>4
<1>3. CASE Acquire(t)
  BY <1>3 DEF Acquire, RenewTypeOK, ThreadInv
<1>4. CASE NotAcquired(t)
  <2>1. \E r \in TurnStates : r.pc \in Free /\ Becomes(t, r)
    <3>1. TurnEnds(t, "failed")
      BY <1>4 DEF NotAcquired
    <3> QED
      BY <1>0, <3>1, Endings
  <2> QED
    BY <1>0, <1>4, <2>1, Freed DEF NotAcquired, RenewTypeOK
<1>5. CASE WaitEnds(t)
  BY <1>5 DEF WaitEnds, RenewTypeOK, ThreadInv
<1>6. CASE Recheck(t)
  <2>1. CASE TurnGoes(t, "agy") /\ Thread(t, "agy")
    BY <2>1 DEF RenewTypeOK, ThreadInv
  <2>2. CASE Thread(t, "none") /\ (TurnEnds(t, "failed") \/ (login # 0 /\ Renewed(t)))
    <3>1. \E r \in TurnStates : r.pc \in Free /\ Becomes(t, r)
      BY <1>0, <2>2, Endings, Renewals
    <3> QED
      BY <1>0, <2>2, <3>1, Freed DEF RenewTypeOK
  <2> HIDE DEF TurnEnds, TurnGoes, Thread
  <2>3. \/ TurnGoes(t, "agy") /\ Thread(t, "agy")
        \/ Thread(t, "none") /\ (TurnEnds(t, "failed") \/ (login # 0 /\ Renewed(t)))
    BY <1>6 DEF Recheck, Usable
  <2> QED
    BY <2>1, <2>2, <2>3
<1>7. CASE AgyEnds(t)
  <2>1. CASE TurnGoes(t, "after")
    BY <1>7, <2>1 DEF AgyEnds, RenewTypeOK, ThreadInv
  <2>2. CASE TurnEnds(t, "failed")
    <3>1. \E r \in TurnStates : r.pc \in Free /\ Becomes(t, r)
      BY <1>0, <2>2, Endings
    <3> QED
      BY <1>0, <1>7, <3>1, Freed DEF AgyEnds, RenewTypeOK
  <2>3. CASE At(t, "gone") /\ UNCHANGED turn
    BY <1>7, <2>3 DEF AgyEnds, RenewTypeOK, ThreadInv
  <2> QED
    BY <1>7, <2>1, <2>2, <2>3 DEF AgyEnds
<1>8. CASE AfterAgy(t)
  <2>1. UNCHANGED thread /\ thread[t] = "none"
    BY <1>8 DEF AfterAgy, ThreadInv
  <2>2. \E r \in TurnStates : r.pc \in Free /\ Becomes(t, r)
    BY <1>0, <1>8, Endings, Renewals DEF AfterAgy, Usable
  <2> QED
    BY <1>0, <2>1, <2>2, Freed
<1>9. CASE ProjectAnswered(t)
  <2>1. UNCHANGED thread /\ thread[t] = "none" /\ turn[t].pc = "asked"
    BY <1>9 DEF ProjectAnswered, ThreadInv
  <2>2. CASE Refused(t) \/ TurnEnds(t, "failed")
    <3>1. \E r \in TurnStates : r.pc \in Free /\ Becomes(t, r)
      BY <1>0, <2>2, Refusals, Endings
    <3> QED
      BY <1>0, <2>1, <3>1, Freed
  <2>3. CASE \/ turn' = [turn EXCEPT ![t].pc = "post", ![t].named = issued[turn[t].token],
                                       ![t].switches = 0]
             \/ turn' = [turn EXCEPT ![t].token = login, ![t].switches = @ + 1]
    <3>1. turn'[t].pc \in Signing /\ \A u \in Turns \ {t} : turn'[u] = turn[u]
      BY <2>1, <2>3 DEF RenewTypeOK, TurnStates, Signing
    <3> QED
      BY <2>1, <3>1 DEF ThreadInv, Signing
  <2> QED
    BY <1>9, <2>2, <2>3 DEF ProjectAnswered
<1>10. CASE Post(t)
  <2>1. UNCHANGED thread /\ thread[t] = "none"
    BY <1>10 DEF Post, ThreadInv
  <2>2. \E r \in TurnStates : r.pc \in Free /\ Becomes(t, r)
    BY <1>0, <1>10, Endings, Refusals DEF Post
  <2> QED
    BY <1>0, <2>1, <2>2, Freed
<1>11. CASE Cancel(t)
  <2>1. turn' \in [Turns -> TurnStates] /\ turn'[t].pc = "gone"
        /\ \A u \in Turns \ {t} : turn'[u] = turn[u]
    BY <1>11 DEF Cancel, RenewTypeOK, TurnStates, In, Again, RenewSteps, Ended
  <2>2. thread'[t] # "has" /\ \A u \in Turns \ {t} : thread'[u] = thread[u]
    BY <1>11 DEF Cancel, RenewTypeOK
  <2> QED
    BY <2>1, <2>2 DEF ThreadInv
<1> QED
  BY <1>1, <1>2, <1>3, <1>4, <1>5, <1>6, <1>7, <1>8, <1>9, <1>10, <1>11 DEF Renews, Streams

-----------------------------------------------------------------------------
LEMMA TurnActs ==
  ASSUME RenewInv, NEW t \in Turns, Renews(t) \/ Streams(t) \/ Cancel(t)
  PROVE  RenewInv'
<1>1. UNCHANGED <<login, issued, worn, refused, orphans>>
  BY StoredUnchanged
<1>2. TurnStates' = TurnStates /\ Tokens' = Tokens
  BY <1>1 DEF TurnStates, Tokens
<1>3. turn' \in [Turns -> TurnStates] /\ SignedInv'
  <2>1. CASE UNCHANGED turn
    BY <1>1, <2>1 DEF RenewInv, RenewTypeOK, SignedInv
  <2>2. CASE \E r \in TurnStates : Signed(r) /\ Becomes(t, r)
    BY <1>1, <2>2 DEF RenewInv, RenewTypeOK, SignedInv, Signed, Signing, Becomes
  <2> QED
    BY <2>1, <2>2, TurnStep
<1>4. RenewTypeOK'
  <2>1. RenewTypeOK
    BY DEF RenewInv
  <2> QED
    BY <1>1, <1>2, <1>3, <2>1, ProjectStep, TasksTyped DEF RenewTypeOK
<1> QED
  BY <1>3, <1>4, ProjectStep, LockStep, ThreadStep DEF RenewInv

\* A process that dies lets go of everything; its agy may stay, unguarded.
LEMMA KillStep == ASSUME RenewInv, NEW b \in Bridges, Kill(b) PROVE RenewInv'
<1> USE DEF RenewInv, Kill
<1>1. UNCHANGED <<login, issued, worn, refused, project>>
  OBVIOUS
<1>2. In("gone") \in TurnStates /\ In("gone").pc = "gone"
  BY DEF RenewTypeOK, TurnStates, In, Again, RenewSteps, Ended
<1>3. turn' \in [Turns -> TurnStates] /\ flight' \in [Bridges -> SUBSET Turns]
  BY <1>2 DEF RenewTypeOK
<1>4. orphans' \subseteq Bridges
  BY HomeIsBridge DEF RenewTypeOK
<1>5. RenewTypeOK'
  BY <1>1, <1>3, <1>4 DEF RenewTypeOK, TurnStates, Tokens
<1>6. LockInv'
  BY DEF RenewTypeOK, LockInv
<1>7. ThreadInv'
  BY <1>2 DEF RenewTypeOK, ThreadInv
<1>8. ProjectInv' /\ SignedInv'
  BY <1>1, <1>2 DEF RenewTypeOK, ProjectInv, SignedInv
<1> QED
  BY <1>5, <1>6, <1>7, <1>8

\* A token keeps its account, whoever signs in afterwards.
LEMMA LoginStep == ASSUME RenewInv, LoginChanges PROVE RenewInv'
<1> USE DEF RenewInv
<1>1. /\ issued' \in Seq(Nat) /\ Len(issued') >= Len(issued)
      /\ login' \in 0..Len(issued') /\ \A k \in 1..Len(issued) : issued'[k] = issued[k]
  <2>1. CASE UNCHANGED issued /\ login' \in {0, login}
    BY <2>1 DEF RenewTypeOK
  <2>2. ASSUME NEW a \in Nat, Writes(a)
        PROVE  /\ issued' \in Seq(Nat) /\ Len(issued') >= Len(issued)
               /\ login' \in 0..Len(issued') /\ \A k \in 1..Len(issued) : issued'[k] = issued[k]
    BY <2>2 DEF RenewTypeOK, Writes
  <2>3. CASE AgyRunning /\ login \in worn \cup refused /\ Writes(issued[login])
    <3>1. issued[login] \in Nat
      BY <2>3 DEF RenewTypeOK, Tokens
    <3> QED
      BY <2>3, <3>1, <2>2
  <2>4. CASE \E a \in Accounts : Writes(a)
    BY <2>4, <2>2 DEF Accounts
  <2> QED
    BY <2>1, <2>3, <2>4 DEF LoginChanges
<1>2. UNCHANGED <<renewing, project, turn>>
  BY DEF LoginChanges
<1>3. worn' \subseteq Tokens' /\ refused' \subseteq Tokens'
  <2>1. Tokens \subseteq Tokens' /\ (login # 0 => login \in Tokens)
    BY <1>1 DEF RenewTypeOK, Tokens
  <2>2. worn' \subseteq worn \cup ({login} \ {0}) /\ refused' \subseteq refused \cup ({login} \ {0})
    BY DEF LoginChanges, Writes
  <2> QED
    BY <2>1, <2>2 DEF RenewTypeOK
<1>4. TurnStates \subseteq TurnStates'
  BY <1>1 DEF RenewTypeOK, TurnStates
<1>5. project' \in [Bridges -> [token : 0..Len(issued'), account : Nat]]
  BY <1>1, <1>2 DEF RenewTypeOK
<1>6. turn' \in [Turns -> TurnStates']
  BY <1>2, <1>4 DEF RenewTypeOK
<1>7. RenewTypeOK'
  BY <1>1, <1>2, <1>3, <1>5, <1>6 DEF RenewTypeOK
<1>8. ProjectInv'
  BY <1>1, <1>2 DEF RenewTypeOK, ProjectInv
<1>9. SignedInv'
  <2>1. \A t \in Turns : turn[t].token \in 0..Len(issued)
    BY DEF RenewTypeOK, TurnStates
  <2> QED
    BY <1>1, <1>2, <2>1, SMTT(30) DEF RenewTypeOK, SignedInv
<1> QED
  BY <1>2, <1>7, <1>8, <1>9 DEF LockInv, ThreadInv

LEMMA NextRenewInv == RenewInv /\ [RenewNext]_renewVars => RenewInv'
<1> SUFFICES ASSUME RenewInv, [RenewNext]_renewVars PROVE RenewInv'
  OBVIOUS
<1>1. ASSUME NEW b \in Bridges, OrphanEnds(b) PROVE RenewInv'
  BY <1>1, SMTT(30)
     DEF OrphanEnds, RenewInv, RenewTypeOK, LockInv, ThreadInv, ProjectInv, SignedInv,
     TurnStates, Tokens
<1>2. CASE UNCHANGED renewVars
  BY <1>2 DEF renewVars, RenewInv, RenewTypeOK, LockInv, ThreadInv, ProjectInv, SignedInv, TurnStates, Tokens
<1> QED
  BY <1>1, <1>2, TurnActs, KillStep, LoginStep DEF RenewNext

\* The login, the lock and the turns keep to their shapes.
THEOREM RenewalTypes == RenewSpec => []RenewTypeOK
<1>1. RenewInv => RenewTypeOK
  BY DEF RenewInv
<1> QED
  BY <1>1, InitRenewInv, NextRenewInv, PTL DEF RenewSpec

\* Of however many bridges and turns, whoever gives up or is killed, at most
\* one runs agy.
THEOREM OneAgyAtATime == RenewSpec => []OneAgy
<1>1. RenewInv => OneAgy
  BY DEF RenewInv, LockInv, OneAgy
<1> QED
  BY <1>1, InitRenewInv, NextRenewInv, PTL DEF RenewSpec

\* A turn posts with the project of the account that signs it, however the
\* login is renewed or replaced under it.
THEOREM ProjectsAreOwn == RenewSpec => []ProjectIsOwn
<1>1. RenewInv => ProjectIsOwn
  BY DEF RenewInv, SignedInv, ProjectIsOwn
<1> QED
  BY <1>1, InitRenewInv, NextRenewInv, PTL DEF RenewSpec

HIDE DEF At, TurnGoes, TurnEnds, Frees, Thread, Forgets, Forgotten, stored, renewing

-----------------------------------------------------------------------------
(* The secret scrubber.  For any credentials and any output, cut anywhere: *)
(* what viewers are given is what masking the whole output gives.  The     *)
(* argument: a credential that crosses the place up to which output was    *)
(* let out either cannot be there, because a byte that was read differs,   *)
(* or ends inside another one that begins exactly at that place and is     *)
(* held back as a whole.                                                   *)

\* The bytes of secret are at text behind the first p, as far as n of them go.
Agrees(secret, text, p, n) == \A k \in 1..n : text[p + k] = secret[k]
Hits(secret, text, p) == p + Len(secret) <= Len(text) /\ Agrees(secret, text, p, Len(secret))
\* Some byte of text, as far as it goes, is not the one of the secret.
Differs(secret, text, p) ==
  \E k \in 1..Len(secret) : p + k <= Len(text) /\ text[p + k] # secret[k]
Covers(text, n) ==
  \E s \in Secrets, p \in Nat : Hits(s, text, p) /\ p < n /\ n <= p + Len(s)

\* A credential across b is not there, or ends inside one that begins at b.
CrossAt(text, b) ==
  \A s \in Secrets, p \in Nat :
    p < b /\ b < p + Len(s)
      => \/ Differs(s, text, p)
         \/ \E t \in Secrets : Hits(t, text, b) /\ p + Len(s) <= b + Len(t)

CrossInv == ~Nested /\ ~ended => CrossAt(input, Len(output))

\* With nothing to look for nothing is held back.
IdleInv == Secrets = {} => Len(output) = Len(input)

ScrubInv == ScrubTypeOK /\ CrossInv /\ IdleInv /\ ScrubUnseen

LEMMA SecretTypes ==
  ASSUME values \in Families
  PROVE  \A s \in Secrets : s \in Seq(Letters) /\ Len(s) \in Nat \ {0}
  BY ScrubAssumption DEF Secrets

LEMMA LeastOf ==
  ASSUME NEW T, T \subseteq Nat, T # {}
  PROVE  \E x \in T : \A y \in T : x <= y
<1> DEFINE R == {pair \in Nat \X Nat : pair[1] < pair[2]}
<1>1. IsWellFoundedOn(R, Nat)
  BY NatLessThanWellFounded, SMT DEF OpToRel
<1> HIDE DEF R
<1>2. PICK x \in T : \A y \in T : ~(<<y, x>> \in R)
  <2>1. \E x \in T : \A y \in T : ~(<<y, x>> \in R)
    BY <1>1, WFMin, Zenon
  <2> QED BY <2>1
<1>3. \A y \in T : ~(y < x)
  BY <1>2 DEF R
<1> QED BY <1>3

LEMMA MaxOf ==
  ASSUME NEW T, NEW n \in Nat, T \subseteq 0..n, T # {}
  PROVE  Max(T) \in T /\ \A x \in T : x <= Max(T)
<1> DEFINE A == {n - x : x \in T}
<1>0. \A x \in T : x \in Nat /\ n - x \in Nat
  OBVIOUS
<1>1. A \subseteq Nat /\ A # {}
  BY <1>0
<1>2. PICK a \in A : \A b \in A : a <= b
  <2> HIDE DEF A
  <2> QED BY <1>1, LeastOf
<1>3. PICK x \in T : a = n - x
  OBVIOUS
<1>4. \A y \in T : x >= y
  <2> SUFFICES ASSUME NEW y \in T PROVE x >= y
    OBVIOUS
  <2>1. n - y \in A /\ x \in Int /\ y \in Int
    OBVIOUS
  <2> HIDE DEF A
  <2> QED BY <2>1, <1>2, <1>3
<1>5. Max(T) \in T /\ \A y \in T : Max(T) >= y
  BY <1>4 DEF Max
<1> QED BY <1>5

LEMMA MinOf ==
  ASSUME NEW T, T \subseteq Nat, T # {}
  PROVE  Min(T) \in T /\ Min(T) \in Nat /\ \A x \in T : Min(T) <= x
<1>1. PICK a \in T : \A b \in T : a <= b
  BY LeastOf
<1> QED BY <1>1 DEF Min

\* Two sequences are the same if the places of one have what the other has.
LEMMA SameText ==
  ASSUME NEW S, NEW s \in Seq(S), NEW text \in Seq(S), NEW p \in Nat, p + Len(s) <= Len(text)
  PROVE  SubSeq(text, p + 1, p + Len(s)) = s <=> Agrees(s, text, p, Len(s))
<1> DEFINE sub == SubSeq(text, p + 1, p + Len(s))
<1>0. Len(s) \in Nat /\ \A i \in p + 1..p + Len(s) : text[i] \in S
  OBVIOUS
<1>1. sub \in Seq(S) /\ Len(sub) = Len(s)
  BY <1>0, SubSeqProperties
<1>2. \A k \in 1..Len(s) : sub[k] = text[p + k]
  <2>1. \A i \in 1..(p + Len(s)) - (p + 1) + 1 : sub[i] = text[(p + 1) + i - 1]
    BY <1>0, SubSeqProperties
  <2> QED BY <2>1, <1>0
<1> HIDE DEF sub
<1>3. sub = s => Agrees(s, text, p, Len(s))
  BY <1>2 DEF Agrees
<1>4. Agrees(s, text, p, Len(s)) => sub = s
  BY <1>1, <1>2, SeqEqual DEF Agrees
<1> QED BY <1>3, <1>4 DEF sub

\* The spans of matches are where credentials are hit.
LEMMA FoundIs ==
  ASSUME NEW S, NEW s \in Seq(S), NEW text \in Seq(S), NEW span
  PROVE  span \in Found(s, text) <=> \E p \in Nat : Hits(s, text, p) /\ span = <<p, p + Len(s)>>
<1>0. Len(s) \in Nat /\ Len(text) \in Nat
  OBVIOUS
<1>1. ASSUME span \in Found(s, text)
      PROVE  \E p \in Nat : Hits(s, text, p) /\ span = <<p, p + Len(s)>>
  <2>1. PICK p \in 0..Len(text) - Len(s) :
          SubSeq(text, p + 1, p + Len(s)) = s /\ span = <<p, p + Len(s)>>
    BY <1>1 DEF Found
  <2>2. p \in Nat /\ p + Len(s) <= Len(text)
    BY <1>0
  <2> QED BY <2>1, <2>2, SameText DEF Hits
<1>2. ASSUME NEW p \in Nat, Hits(s, text, p), span = <<p, p + Len(s)>>
      PROVE  span \in Found(s, text)
  <2>1. p \in 0..Len(text) - Len(s)
    BY <1>0, <1>2 DEF Hits
  <2>2. SubSeq(text, p + 1, p + Len(s)) = s
    BY <1>2, SameText DEF Hits
  <2> QED BY <1>2, <2>1, <2>2 DEF Found
<1> QED BY <1>1, <1>2

LEMMA MatchesAre ==
  ASSUME values \in Families, NEW text \in Seq(Letters), NEW span
  PROVE  span \in Matches(text) <=>
           \E s \in Secrets, p \in Nat : Hits(s, text, p) /\ span = <<p, p + Len(s)>>
<1>1. \A s \in Secrets :
        span \in Found(s, text) <=> \E p \in Nat : Hits(s, text, p) /\ span = <<p, p + Len(s)>>
  BY SecretTypes, FoundIs
<1>2. span \in Matches(text) <=> \E s \in Secrets : span \in Found(s, text)
  BY DEF Matches
<1> QED BY <1>1, <1>2

LEMMA MaskedIs ==
  ASSUME values \in Families, NEW text \in Seq(Letters)
  PROVE  /\ Masked(text, Matches(text)) \in Seq(Letters \cup {"*"})
         /\ Len(Masked(text, Matches(text))) = Len(text)
         /\ \A n \in 1..Len(text) :
              Masked(text, Matches(text))[n] = IF Covers(text, n) THEN "*" ELSE text[n]
<1>1. ASSUME NEW n \in Nat
      PROVE  (\E span \in Matches(text) : span[1] < n /\ n <= span[2]) <=> Covers(text, n)
  <2>1. ASSUME NEW span \in Matches(text), span[1] < n, n <= span[2] PROVE Covers(text, n)
    <3>1. PICK s \in Secrets, p \in Nat : Hits(s, text, p) /\ span = <<p, p + Len(s)>>
      BY MatchesAre
    <3>2. p < n /\ n <= p + Len(s)
      BY <2>1, <3>1
    <3> QED BY <3>1, <3>2 DEF Covers
  <2>2. ASSUME NEW s \in Secrets, NEW p \in Nat, Hits(s, text, p), p < n, n <= p + Len(s)
        PROVE  \E span \in Matches(text) : span[1] < n /\ n <= span[2]
    <3>1. <<p, p + Len(s)>> \in Matches(text)
      BY <2>2, MatchesAre
    <3> QED BY <2>2, <3>1
  <2> QED BY <2>1, <2>2 DEF Covers
<1> DEFINE Byte(n) == IF \E span \in Matches(text) : span[1] < n /\ n <= span[2] THEN "*" ELSE text[n]
<1>2. Masked(text, Matches(text)) = [n \in 1..Len(text) |-> Byte(n)]
  BY DEF Masked
<1>3. \A n \in 1..Len(text) : Byte(n) = IF Covers(text, n) THEN "*" ELSE text[n]
  BY <1>1
<1>4. \A n \in 1..Len(text) : text[n] \in Letters /\ Byte(n) \in Letters \cup {"*"}
  OBVIOUS
<1> HIDE DEF Byte
<1> QED BY <1>2, <1>3, <1>4

\* The longest end of text that a credential begins with, and goes on from.
LEMMA PartialIs ==
  ASSUME values \in Families, NEW text \in Seq(Letters)
  PROVE  LET hold == PartialMatchSuffix(text) IN
         /\ hold \in 0..Len(text)
         /\ hold > 0 => \E s \in Secrets : Len(s) > hold /\ Agrees(s, text, Len(text) - hold, hold)
         /\ \A n \in 1..Len(text), s \in Secrets :
              Len(s) > n /\ Agrees(s, text, Len(text) - n, n) => n <= hold
<1> DEFINE Begins(s, n) == Upto(s, n) = From(text, Len(text) - n + 1)
           ends == {n \in 1..Len(text) : \E s \in Secrets : Len(s) > n /\ Begins(s, n)}
<1>0. Len(text) \in Nat
  OBVIOUS
<1>1. Max({0} \cup ends) \in {0} \cup ends /\ \A n \in {0} \cup ends : n <= Max({0} \cup ends)
  <2>1. {0} \cup ends \subseteq 0..Len(text) /\ {0} \cup ends # {}
    BY <1>0
  <2> HIDE DEF ends
  <2> QED BY <1>0, <2>1, MaxOf
<1>2. ASSUME NEW s \in Secrets, NEW n \in 1..Len(text), Len(s) > n
      PROVE  Begins(s, n) <=> Agrees(s, text, Len(text) - n, n)
  <2>1. s \in Seq(Letters) /\ n \in Nat /\ Len(s) \in Nat
    BY SecretTypes
  <2>2. /\ Upto(s, n) \in Seq(Letters) /\ Len(Upto(s, n)) = n
        /\ \A k \in 1..n : Upto(s, n)[k] = s[k]
    <3>1. \A k \in 1..n : s[k] \in Letters
      BY <2>1, <1>2
    <3>2. /\ SubSeq(s, 1, n) \in Seq(Letters) /\ Len(SubSeq(s, 1, n)) = n
          /\ \A k \in 1..n - 1 + 1 : SubSeq(s, 1, n)[k] = s[1 + k - 1]
      BY <2>1, <3>1, SubSeqProperties
    <3> QED BY <2>1, <3>2 DEF Upto
  <2>3. (Len(text) - n) + 1 \in Int /\ (Len(text) - n) + Len(Upto(s, n)) = Len(text) /\ Len(text) - n \in Nat
    BY <2>2, <1>0
  <2>4. SubSeq(text, (Len(text) - n) + 1, (Len(text) - n) + Len(Upto(s, n))) = Upto(s, n)
          <=> Agrees(Upto(s, n), text, Len(text) - n, n)
    <3>1. ASSUME NEW u \in Seq(Letters), NEW p \in Nat, p + Len(u) <= Len(text)
          PROVE  SubSeq(text, p + 1, p + Len(u)) = u <=> Agrees(u, text, p, Len(u))
      BY <3>1, SameText
    <3>2. Upto(s, n) \in Seq(Letters) /\ Len(text) - n \in Nat
          /\ (Len(text) - n) + Len(Upto(s, n)) <= Len(text)
      BY <2>2, <2>3, <1>0
    <3>3. Len(Upto(s, n)) = n
      BY <2>2
    <3> QED BY <3>1, <3>2, <3>3
  <2>5. Agrees(Upto(s, n), text, Len(text) - n, n) <=> Agrees(s, text, Len(text) - n, n)
    BY <2>2 DEF Agrees
  <2> QED BY <2>3, <2>4, <2>5 DEF From
<1>3. PartialMatchSuffix(text) = Max({0} \cup ends)
  BY DEF PartialMatchSuffix
<1> DEFINE hold == PartialMatchSuffix(text)
<1>4. hold \in {0} \cup ends /\ \A n \in ends : n <= hold
  BY <1>1, <1>3
<1> HIDE DEF Begins, hold
<1>5. hold \in 0..Len(text)
  BY <1>0, <1>4
<1>6. hold > 0 => \E s \in Secrets : Len(s) > hold /\ Agrees(s, text, Len(text) - hold, hold)
  BY <1>4, <1>2
<1>7. ASSUME NEW n \in 1..Len(text), NEW s \in Secrets, Len(s) > n, Agrees(s, text, Len(text) - n, n)
      PROVE  n <= hold
  BY <1>7, <1>4, <1>2
<1> QED BY <1>5, <1>6, <1>7 DEF hold

\* What is held back, in terms of where credentials are hit.
LEMMA HeldIs ==
  ASSUME values \in Families, NEW text \in Seq(Letters)
  PROVE  LET hold == PartialMatchSuffix(text)
             emit == Len(text) - Held(text)
             Cut(s, p) == Hits(s, text, p) /\ p + Len(s) > Len(text) - hold
         IN /\ emit \in 0..Len(text)
            /\ \/ emit = Len(text) - hold /\ \A s \in Secrets, p \in Nat : ~Cut(s, p)
               \/ /\ \E s \in Secrets : Cut(s, emit)
                  /\ \A s \in Secrets, p \in Nat : Cut(s, p) => emit <= p
<1> DEFINE hold == PartialMatchSuffix(text)
           emit == Len(text) - Held(text)
           Cut(s, p) == Hits(s, text, p) /\ p + Len(s) > Len(text) - hold
           cut == {span \in Matches(text) : span[2] > Len(text) - hold}
           starts == {span[1] : span \in cut}
<1>0. Len(text) \in Nat /\ hold \in 0..Len(text)
  BY PartialIs
<1>1. \A s \in Secrets : Len(s) \in Nat \ {0}
  BY SecretTypes
<1>2. \A p : p \in starts <=> p \in Nat /\ \E s \in Secrets : Cut(s, p)
  <2>1. ASSUME NEW p, p \in starts PROVE p \in Nat /\ \E s \in Secrets : Cut(s, p)
    BY <2>1, MatchesAre
  <2>2. ASSUME NEW p \in Nat, NEW s \in Secrets, Cut(s, p) PROVE p \in starts
    <3>1. <<p, p + Len(s)>> \in Matches(text)
      BY <2>2, MatchesAre
    <3>2. <<p, p + Len(s)>> \in cut
      BY <3>1, <2>2
    <3> QED BY <3>2
  <2> QED BY <2>1, <2>2
<1>3. CASE cut = {}
  <2>1. Held(text) = hold
    BY <1>3 DEF Held
  <2>2. \A s \in Secrets, p \in Nat : ~Cut(s, p)
    BY <1>2, <1>3
  <2> QED BY <2>1, <2>2, <1>0
<1>4. CASE cut # {}
  <2>1. Held(text) = Len(text) - Min(starts)
    BY <1>4 DEF Held
  <2>2. starts # {} /\ starts \subseteq Nat
    BY <1>4, <1>2
  <2>3. Min(starts) \in starts /\ \A p \in starts : Min(starts) <= p
    BY <2>2, MinOf
  <2>4. PICK s \in Secrets : Cut(s, Min(starts))
    BY <2>3, <1>2
  <2>5. Min(starts) \in Nat /\ Min(starts) <= Len(text)
    <3>1. Len(s) \in Nat /\ Min(starts) \in Nat
      BY <2>2, <1>1, MinOf
    <3> HIDE DEF starts, cut
    <3> QED BY <2>4, <3>1, <1>0 DEF Hits
  <2>6. emit = Min(starts)
    BY <2>1, <2>5, <1>0
  <2>7. \A t \in Secrets, p \in Nat : Cut(t, p) => emit <= p
    BY <2>3, <2>6, <1>2
  <2> HIDE DEF starts, cut, emit
  <2>8. emit \in 0..Len(text)
    BY <2>5, <2>6, <1>0
  <2> QED BY <2>4, <2>6, <2>7, <2>8 DEF emit
<1> QED BY <1>3, <1>4

-----------------------------------------------------------------------------
(* What lies before the boundary, behind it and across it.                 *)

LEMMA Behind ==
  ASSUME NEW text \in Seq(Letters), NEW b \in 0..Len(text)
  PROVE  LET rest == From(text, b + 1) IN
         /\ rest \in Seq(Letters) /\ Len(rest) = Len(text) - b
         /\ \A k \in 1..Len(text) - b : rest[k] = text[b + k]
<1>0. Len(text) \in Nat /\ b \in Nat /\ b <= Len(text)
  OBVIOUS
<1>1. \A k \in b + 1..Len(text) : text[k] \in Letters
  BY <1>0
<1>2. /\ SubSeq(text, b + 1, Len(text)) \in Seq(Letters)
      /\ Len(SubSeq(text, b + 1, Len(text))) = IF b + 1 <= Len(text) THEN Len(text) - (b + 1) + 1 ELSE 0
      /\ \A k \in 1..Len(text) - (b + 1) + 1 : SubSeq(text, b + 1, Len(text))[k] = text[(b + 1) + k - 1]
  BY <1>0, <1>1, SubSeqProperties
<1> QED BY <1>0, <1>2 DEF From

LEMMA HitsBehind ==
  ASSUME values \in Families, NEW text \in Seq(Letters), NEW b \in 0..Len(text),
         NEW s \in Secrets, NEW p \in Nat
  PROVE  Hits(s, From(text, b + 1), p) <=> Hits(s, text, b + p)
<1> DEFINE rest == From(text, b + 1)
<1>0. Len(text) \in Nat /\ b \in Nat /\ Len(s) \in Nat /\ Len(rest) = Len(text) - b
  BY Behind, SecretTypes
<1>1. p + Len(s) <= Len(rest) <=> (b + p) + Len(s) <= Len(text)
  BY <1>0
<1>2. ASSUME p + Len(s) <= Len(rest), NEW k \in 1..Len(s)
      PROVE  rest[p + k] = text[(b + p) + k]
  <2>1. p + k \in 1..Len(text) - b /\ b + (p + k) = (b + p) + k
    BY <1>0, <1>2
  <2> QED BY <2>1, Behind
<1> HIDE DEF rest
<1>3. p + Len(s) <= Len(rest) => (Agrees(s, rest, p, Len(s)) <=> Agrees(s, text, b + p, Len(s)))
  BY <1>2 DEF Agrees
<1>4. Hits(s, rest, p) <=> Hits(s, text, b + p)
  BY <1>1, <1>3 DEF Hits
<1> QED BY <1>4 DEF rest

LEMMA CoversBehind ==
  ASSUME values \in Families, NEW text \in Seq(Letters), NEW b \in 0..Len(text),
         NEW n \in 1..Len(text) - b
  PROVE  /\ Covers(From(text, b + 1), n) => Covers(text, b + n)
         /\ CrossAt(text, b) => (Covers(From(text, b + 1), n) <=> Covers(text, b + n))
<1>0. Len(text) \in Nat /\ b \in Nat /\ n \in Nat /\ \A s \in Secrets : Len(s) \in Nat
  BY SecretTypes
<1>1. ASSUME Covers(From(text, b + 1), n) PROVE Covers(text, b + n)
  <2>1. PICK s \in Secrets, p \in Nat : Hits(s, From(text, b + 1), p) /\ p < n /\ n <= p + Len(s)
    BY <1>1 DEF Covers
  <2>2. Hits(s, text, b + p) /\ b + p \in Nat /\ b + p < b + n /\ b + n <= (b + p) + Len(s)
    BY <2>1, <1>0, HitsBehind
  <2> QED BY <2>2 DEF Covers
<1>2. ASSUME CrossAt(text, b), Covers(text, b + n) PROVE Covers(From(text, b + 1), n)
  <2>1. PICK s \in Secrets, p \in Nat : Hits(s, text, p) /\ p < b + n /\ b + n <= p + Len(s)
    BY <1>2 DEF Covers
  <2>2. CASE b <= p
    <3>1. p - b \in Nat /\ b + (p - b) = p
      BY <2>2, <1>0
    <3>2. Hits(s, From(text, b + 1), p - b)
      BY <2>1, <3>1, HitsBehind
    <3>3. p - b < n /\ n <= (p - b) + Len(s)
      BY <2>1, <1>0
    <3> QED BY <3>1, <3>2, <3>3 DEF Covers
  <2>3. CASE p < b
    <3>1. b < p + Len(s)
      BY <2>1, <1>0
    <3>2. ~Differs(s, text, p)
      BY <2>1 DEF Differs, Hits, Agrees
    <3>3. PICK t \in Secrets : Hits(t, text, b) /\ p + Len(s) <= b + Len(t)
      BY <1>2, <2>3, <3>1, <3>2 DEF CrossAt
    <3>4. Hits(t, From(text, b + 1), 0)
      <4>1. b + 0 = b
        BY <1>0
      <4> QED BY <4>1, <3>3, HitsBehind
    <3>5. 0 < n /\ n <= 0 + Len(t)
      BY <2>1, <3>3, <1>0
    <3> QED BY <3>4, <3>5 DEF Covers
  <2> QED BY <2>2, <2>3, <1>0
<1> QED BY <1>1, <1>2

\* What has been read stays read when the output goes on.
LEMMA GoesOn ==
  ASSUME values \in Families, NEW text \in Seq(Letters), NEW chunk \in Seq(Letters),
         NEW s \in Secrets, NEW p \in Nat
  PROVE  /\ Hits(s, text, p) => Hits(s, text \o chunk, p)
         /\ Differs(s, text, p) => Differs(s, text \o chunk, p) /\ ~Hits(s, text \o chunk, p)
         /\ p + Len(s) <= Len(text) => (Hits(s, text, p) <=> Hits(s, text \o chunk, p))
<1> DEFINE more == text \o chunk
<1>0. /\ Len(text) \in Nat /\ Len(chunk) \in Nat /\ Len(s) \in Nat
      /\ Len(more) = Len(text) + Len(chunk)
      /\ \A i \in 1..Len(text) : more[i] = text[i]
  BY SecretTypes, ConcatProperties
<1> HIDE DEF more
<1>1. p + Len(s) <= Len(text) => \A k \in 1..Len(s) : more[p + k] = text[p + k]
  BY <1>0
<1>2. p + Len(s) <= Len(text) => (Hits(s, text, p) <=> Hits(s, more, p))
  BY <1>0, <1>1 DEF Hits, Agrees
<1>3. Hits(s, text, p) => p + Len(s) <= Len(text)
  BY DEF Hits
<1>4. ASSUME Differs(s, text, p) PROVE Differs(s, more, p) /\ ~Hits(s, more, p)
  <2>1. PICK k \in 1..Len(s) : p + k <= Len(text) /\ text[p + k] # s[k]
    BY <1>4 DEF Differs
  <2>2. p + k <= Len(more) /\ more[p + k] # s[k]
    BY <2>1, <1>0
  <2> QED BY <2>2 DEF Differs, Hits, Agrees
<1> QED BY <1>2, <1>3, <1>4 DEF more

LEMMA CrossGoesOn ==
  ASSUME values \in Families, NEW text \in Seq(Letters), NEW chunk \in Seq(Letters),
         NEW b \in 0..Len(text), CrossAt(text, b)
  PROVE  CrossAt(text \o chunk, b)
<1> SUFFICES ASSUME NEW s \in Secrets, NEW p \in Nat, p < b, b < p + Len(s)
             PROVE  \/ Differs(s, text \o chunk, p)
                    \/ \E t \in Secrets : Hits(t, text \o chunk, b) /\ p + Len(s) <= b + Len(t)
  BY DEF CrossAt
<1>0. b \in Nat
  OBVIOUS
<1>1. CASE Differs(s, text, p)
  BY <1>1, GoesOn
<1>2. CASE \E t \in Secrets : Hits(t, text, b) /\ p + Len(s) <= b + Len(t)
  BY <1>0, <1>2, GoesOn
<1> QED BY <1>1, <1>2 DEF CrossAt

LEMMA CoversGoesOn ==
  ASSUME values \in Families, NEW text \in Seq(Letters), NEW chunk \in Seq(Letters),
         NEW b \in 0..Len(text), NEW n \in 1..b
  PROVE  /\ Covers(text, n) => Covers(text \o chunk, n)
         /\ CrossAt(text, b) => (Covers(text, n) <=> Covers(text \o chunk, n))
<1>0. Len(text) \in Nat /\ b \in Nat /\ n \in Nat /\ \A s \in Secrets : Len(s) \in Nat
  BY SecretTypes
<1>1. Covers(text, n) => Covers(text \o chunk, n)
  BY GoesOn DEF Covers
<1>2. ASSUME CrossAt(text, b), Covers(text \o chunk, n) PROVE Covers(text, n)
  <2>1. PICK s \in Secrets, p \in Nat : Hits(s, text \o chunk, p) /\ p < n /\ n <= p + Len(s)
    BY <1>2 DEF Covers
  <2>2. p + Len(s) <= Len(text)
    <3> SUFFICES ASSUME Len(text) < p + Len(s) PROVE FALSE
      BY <1>0
    <3>1. p < b /\ b < p + Len(s)
      BY <2>1, <1>0
    <3>2. ~Differs(s, text, p)
      BY <2>1, GoesOn
    <3>3. PICK t \in Secrets : Hits(t, text, b) /\ p + Len(s) <= b + Len(t)
      BY <1>2, <3>1, <3>2 DEF CrossAt
    <3> QED BY <3>3, <1>0 DEF Hits
  <2> QED BY <2>1, <2>2, GoesOn DEF Covers
<1> QED BY <1>1, <1>2

\* Wherever the boundary goes, what crosses it is not there, or is held back.
LEMMA CrossMoves ==
  ASSUME values \in Families, ~Nested, NEW text \in Seq(Letters), NEW b \in 0..Len(text),
         CrossAt(text, b)
  PROVE  CrossAt(text, b + (Len(From(text, b + 1)) - Held(From(text, b + 1))))
<1> DEFINE rest == From(text, b + 1)
           hold == PartialMatchSuffix(rest)
           emit == Len(rest) - Held(rest)
           Cut(s, p) == Hits(s, rest, p) /\ p + Len(s) > Len(rest) - hold
<1>0. /\ Len(text) \in Nat /\ b \in Nat /\ b <= Len(text)
      /\ \A s \in Secrets : Len(s) \in Nat \ {0} /\ s \in Seq(Letters)
      /\ rest \in Seq(Letters) /\ Len(rest) = Len(text) - b
      /\ \A k \in 1..Len(text) - b : rest[k] = text[b + k]
  BY SecretTypes, Behind
<1>1. /\ hold \in 0..Len(rest)
      /\ hold > 0 => \E s \in Secrets : Len(s) > hold /\ Agrees(s, rest, Len(rest) - hold, hold)
      /\ \A n \in 1..Len(rest), s \in Secrets : Len(s) > n /\ Agrees(s, rest, Len(rest) - n, n) => n <= hold
  BY <1>0, PartialIs
<1>2. /\ emit \in 0..Len(rest)
      /\ \/ emit = Len(rest) - hold /\ \A s \in Secrets, p \in Nat : ~Cut(s, p)
         \/ /\ \E s \in Secrets : Cut(s, emit)
            /\ \A s \in Secrets, p \in Nat : Cut(s, p) => emit <= p
  BY <1>0, HeldIs
<1>3. \A s \in Secrets, p \in Nat : Hits(s, rest, p) <=> Hits(s, text, b + p)
  BY HitsBehind
<1> HIDE DEF rest, hold, emit
\* Of two credentials neither lies inside the other, so that the boundary
\* only moves back.
<1>4. emit <= Len(rest) - hold
  <2> SUFFICES ASSUME Len(rest) - hold < emit PROVE FALSE
    BY <1>0, <1>1, <1>2
  <2>1. PICK t \in Secrets : Cut(t, emit)
    BY <1>1, <1>2, <1>0
  <2>2. PICK s \in Secrets : Len(s) > hold /\ Agrees(s, rest, Len(rest) - hold, hold)
    BY <1>0, <1>1, <1>2
  <2> DEFINE q == emit - (Len(rest) - hold)
  <2>3. q \in Nat /\ 0 < q /\ Len(rest) - hold \in Nat /\ hold \in Nat
    BY <1>0, <1>1, <1>2
  <2>4. emit + Len(t) <= Len(rest) /\ q + Len(t) <= hold
    BY <2>1, <2>3, <1>0, <1>1, <1>2 DEF Hits
  <2>5. \A k \in 1..Len(t) : s[q + k] = t[k]
    <3> SUFFICES ASSUME NEW k \in 1..Len(t) PROVE s[q + k] = t[k]
      OBVIOUS
    <3>1. rest[emit + k] = t[k]
      BY <2>1 DEF Hits, Agrees
    <3>2. q + k \in 1..hold /\ (Len(rest) - hold) + (q + k) = emit + k
      <4>1. Len(rest) \in Int /\ hold \in Int /\ emit \in Int /\ Len(t) \in Int /\ k \in Int
            /\ 1 <= k /\ k <= Len(t)
        BY <1>0, <1>1, <1>2
      <4>2. 0 < q /\ q + Len(t) <= hold /\ q \in Int /\ q = emit - (Len(rest) - hold)
        BY <2>3, <2>4
      <4> HIDE DEF q
      <4> QED BY <4>1, <4>2
    <3>3. rest[(Len(rest) - hold) + (q + k)] = s[q + k]
      BY <2>2, <3>2 DEF Agrees
    <3> QED BY <3>1, <3>2, <3>3
  <2> HIDE DEF q
  <2>6. Hits(t, s, q) /\ q + Len(t) < Len(s)
    BY <2>2, <2>3, <2>4, <2>5, <1>0 DEF Hits, Agrees
  <2>7. <<q, q + Len(t)>> \in Found(t, s)
    BY <2>3, <2>6, <1>0, FoundIs
  <2> QED BY <2>3, <2>6, <2>7 DEF Nested
\* What begins before the boundary and is not read to its end is not there.
<1>5. ASSUME NEW s \in Secrets, NEW p \in Nat, p < Len(rest) - hold, Len(rest) < p + Len(s)
      PROVE  Differs(s, text, b + p)
  <2> DEFINE n == Len(rest) - p
  <2>1. n \in 1..Len(rest) /\ Len(s) > n /\ ~(n <= hold) /\ Len(rest) - n = p
    BY <1>0, <1>1, <1>5
  <2>2. PICK k \in 1..n : rest[p + k] # s[k]
    BY <1>1, <2>1 DEF Agrees
  <2>3. k \in 1..Len(s) /\ p + k \in 1..Len(text) - b /\ b + (p + k) = (b + p) + k
    BY <1>0, <2>1
  <2>4. text[(b + p) + k] # s[k] /\ (b + p) + k <= Len(text)
    BY <2>2, <2>3, <1>0
  <2> QED BY <2>3, <2>4 DEF Differs
<1>6. ASSUME NEW s \in Secrets, NEW p \in Nat, p < b + emit, b + emit < p + Len(s),
             ~Differs(s, text, p)
      PROVE  \E t \in Secrets : Hits(t, text, b + emit) /\ p + Len(s) <= (b + emit) + Len(t)
  <2>1. CASE b <= p
    <3>1. p - b \in Nat /\ b + (p - b) = p /\ p - b < emit /\ emit < (p - b) + Len(s)
      BY <2>1, <1>0, <1>2, <1>6
    <3>2. (p - b) + Len(s) <= Len(rest)
      <4>1. p - b < Len(rest) - hold
        BY <3>1, <1>0, <1>1, <1>2, <1>4
      <4>2. ~(Len(rest) < (p - b) + Len(s))
        BY <4>1, <3>1, <1>5, <1>6
      <4> QED BY <4>2, <3>1, <1>0
    <3>3. Hits(s, rest, p - b)
      <4>1. p + Len(s) <= Len(text)
        BY <3>2, <1>0
      <4>2. Hits(s, text, p)
        BY <4>1, <1>0, <1>6 DEF Hits, Agrees, Differs
      <4> QED BY <4>2, <3>1, <1>3
    <3>4. ~Cut(s, p - b)
      BY <3>1, <1>2, <1>0
    <3>5. (p - b) + Len(s) <= Len(rest) - hold
      BY <3>3, <3>4, <3>1, <1>0, <1>1
    <3>6. PICK t \in Secrets : Cut(t, emit)
      BY <3>1, <3>3, <3>5, <1>2, <1>0, <1>1
    <3>7. Hits(t, text, b + emit)
      BY <3>6, <1>2, <1>3
    <3>8. p + Len(s) <= (b + emit) + Len(t)
      BY <3>5, <3>6, <1>0, <1>1, <1>2
    <3> QED BY <3>7, <3>8
  <2>2. CASE p < b
    <3>1. b < p + Len(s)
      BY <2>2, <1>0, <1>2, <1>6
    <3>2. PICK t \in Secrets : Hits(t, text, b) /\ p + Len(s) <= b + Len(t)
      BY <2>2, <3>1, <1>6 DEF CrossAt
    <3>3. Hits(t, rest, 0)
      <4>1. b + 0 = b
        BY <1>0
      <4> QED BY <4>1, <3>2, <1>3
    <3>4. CASE Cut(t, 0)
      <4>1. emit = 0
        BY <3>4, <1>2
      <4>2. b + emit = b
        BY <4>1, <1>0
      <4> QED BY <4>2, <3>2
    <3>5. CASE ~Cut(t, 0)
      <4>1. Len(t) <= Len(rest) - hold
        BY <3>3, <3>5, <1>0, <1>1
      <4>2. PICK u \in Secrets : Cut(u, emit)
        BY <4>1, <3>2, <1>0, <1>1, <1>2, <1>6
      <4>3. Hits(u, text, b + emit)
        BY <4>2, <1>2, <1>3
      <4>4. p + Len(s) <= (b + emit) + Len(u)
        BY <4>1, <4>2, <3>2, <1>0, <1>1, <1>2
      <4> QED BY <4>3, <4>4
    <3> QED BY <3>4, <3>5
  <2> QED BY <2>1, <2>2, <1>0
<1>7. CrossAt(text, b + emit)
  BY <1>6 DEF CrossAt
<1> QED BY <1>7 DEF emit, rest

-----------------------------------------------------------------------------
(* The steps.                                                              *)

LEMMA InitScrubInv == ScrubInit => ScrubInv
<1> SUFFICES ASSUME ScrubInit PROVE ScrubInv
  OBVIOUS
<1>1. /\ values \in Families /\ input = <<>> /\ output = <<>> /\ buffer = <<>> /\ ~ended
      /\ Len(input) = 0 /\ Len(output) = 0
  BY DEF ScrubInit
<1>2. From(input, Len(output) + 1) = <<>>
  BY <1>1, SubSeqEmpty DEF From
<1>3. CrossAt(input, Len(output))
  BY <1>1 DEF CrossAt
<1> QED BY <1>1, <1>2, <1>3 DEF ScrubInv, ScrubTypeOK, CrossInv, IdleInv, ScrubUnseen

\* What is let out of a piece, and what stays behind.
LEMMA LetOut ==
  ASSUME values \in Families, NEW text \in Seq(Letters), NEW b \in 0..Len(text)
  PROVE  LET rest == From(text, b + 1)
             emit == Len(rest) - Held(rest)
         IN /\ emit \in 0..Len(rest)
            /\ Scrub(rest).out \in Seq(Letters \cup {"*"}) /\ Len(Scrub(rest).out) = emit
            /\ \A n \in 1..emit :
                 Scrub(rest).out[n] = IF Covers(rest, n) THEN "*" ELSE text[b + n]
            /\ Scrub(rest).keep = From(text, (b + emit) + 1)
<1> DEFINE rest == From(text, b + 1)
           emit == Len(rest) - Held(rest)
           masked == Masked(rest, Matches(rest))
<1>0. /\ Len(text) \in Nat /\ b \in Nat /\ b <= Len(text)
      /\ rest \in Seq(Letters) /\ Len(rest) = Len(text) - b
      /\ \A k \in 1..Len(text) - b : rest[k] = text[b + k]
  <2>1. Len(text) \in Nat /\ b \in Nat /\ b <= Len(text)
    OBVIOUS
  <2>2. /\ rest \in Seq(Letters) /\ Len(rest) = Len(text) - b
        /\ \A k \in 1..Len(text) - b : rest[k] = text[b + k]
    BY Behind
  <2> QED BY <2>1, <2>2
<1>1. emit \in 0..Len(rest)
  BY <1>0, HeldIs
<1>2. /\ masked \in Seq(Letters \cup {"*"}) /\ Len(masked) = Len(rest)
      /\ \A n \in 1..Len(rest) : masked[n] = IF Covers(rest, n) THEN "*" ELSE rest[n]
  BY <1>0, MaskedIs
<1>3. Scrub(rest) = [out |-> Upto(masked, emit), keep |-> From(rest, emit + 1)]
  BY DEF Scrub
<1> HIDE DEF rest, masked, emit
<1>4. /\ Upto(masked, emit) \in Seq(Letters \cup {"*"}) /\ Len(Upto(masked, emit)) = emit
      /\ \A n \in 1..emit : Upto(masked, emit)[n] = masked[n]
  <2>1. emit \in Nat /\ \A n \in 1..emit : masked[n] \in Letters \cup {"*"}
    BY <1>0, <1>1, <1>2
  <2>2. /\ SubSeq(masked, 1, emit) \in Seq(Letters \cup {"*"})
        /\ Len(SubSeq(masked, 1, emit)) = IF 1 <= emit THEN emit - 1 + 1 ELSE 0
        /\ \A n \in 1..emit - 1 + 1 : SubSeq(masked, 1, emit)[n] = masked[1 + n - 1]
    BY <2>1, SubSeqProperties
  <2> QED BY <2>1, <2>2 DEF Upto
<1>5. From(rest, emit + 1) = From(text, (b + emit) + 1)
  <2>1. emit \in 0..Len(rest) /\ b + emit \in 0..Len(text) /\ emit \in Nat
    BY <1>0, <1>1
  <2>2. /\ From(rest, emit + 1) \in Seq(Letters) /\ Len(From(rest, emit + 1)) = Len(rest) - emit
        /\ \A k \in 1..Len(rest) - emit : From(rest, emit + 1)[k] = rest[emit + k]
    BY <1>0, <2>1, Behind
  <2>3. /\ From(text, (b + emit) + 1) \in Seq(Letters)
        /\ Len(From(text, (b + emit) + 1)) = Len(text) - (b + emit)
        /\ \A k \in 1..Len(text) - (b + emit) : From(text, (b + emit) + 1)[k] = text[(b + emit) + k]
    BY <2>1, Behind
  <2>4. Len(rest) - emit = Len(text) - (b + emit)
    BY <1>0, <2>1
  <2>5. \A k \in 1..Len(rest) - emit : rest[emit + k] = text[(b + emit) + k]
    BY <1>0, <2>1
  <2> QED BY <2>2, <2>3, <2>4, <2>5, SeqEqual
<1>6. \A n \in 1..emit : masked[n] = IF Covers(rest, n) THEN "*" ELSE text[b + n]
  BY <1>0, <1>1, <1>2
<1> QED BY <1>1, <1>3, <1>4, <1>5, <1>6 DEF rest, emit

\* What the output so far was right about stays right when it goes on.
LEMMA SeenStays ==
  ASSUME ScrubInv, ~ended, NEW chunk \in Seq(Letters), NEW n \in 1..Len(output)
  PROVE  \/ output[n] = Masked(input \o chunk, Matches(input \o chunk))[n]
         \/ Nested /\ output[n] = (input \o chunk)[n]
<1> DEFINE more == input \o chunk
<1>0. /\ values \in Families /\ input \in Seq(Letters)
      /\ Len(output) \in 0..Len(input) /\ n \in 1..Len(input)
  BY DEF ScrubInv, ScrubTypeOK
<1>1. more \in Seq(Letters) /\ n \in 1..Len(more) /\ more[n] = input[n]
  BY <1>0, ConcatProperties
<1> HIDE DEF more
<1>2. Masked(input, Matches(input))[n] = IF Covers(input, n) THEN "*" ELSE input[n]
  BY <1>0, MaskedIs
<1>3. Masked(more, Matches(more))[n] = IF Covers(more, n) THEN "*" ELSE more[n]
  BY <1>0, <1>1, MaskedIs
<1>4. Covers(input, n) => Covers(more, n)
  BY <1>0, CoversGoesOn DEF more
<1>5. ~Nested => (Covers(input, n) <=> Covers(more, n))
  BY <1>0, CoversGoesOn DEF more, ScrubInv, CrossInv
<1>6. output[n] = Masked(input, Matches(input))[n] \/ (Nested /\ output[n] = input[n])
  BY DEF ScrubInv, ScrubUnseen
<1> QED BY <1>1, <1>2, <1>3, <1>4, <1>5, <1>6 DEF more

\* More of the output is let out: as it is to be seen, and up to a place that
\* no credential crosses.
LEMMA Advances ==
  ASSUME ScrubInv, ~ended, NEW chunk \in Seq(Letters), NEW out \in Seq(Letters \cup {"*"}),
         Len(out) <= Len(input \o chunk) - Len(output),
         \A n \in 1..Len(out) :
           out[n] = IF Covers(From(input \o chunk, Len(output) + 1), n)
                      THEN "*" ELSE (input \o chunk)[Len(output) + n],
         ~Nested /\ ~ended' => CrossAt(input \o chunk, Len(output) + Len(out)),
         Secrets = {} \/ ended' => Len(output) + Len(out) = Len(input \o chunk),
         input' = input \o chunk, output' = output \o out,
         buffer' = From(input \o chunk, (Len(output) + Len(out)) + 1), values' = values
  PROVE  ScrubInv'
<1> DEFINE more == input \o chunk
           b == Len(output)
<1>0. /\ values \in Families /\ input \in Seq(Letters) /\ output \in Seq(Letters \cup {"*"})
      /\ b \in Nat /\ Len(input) \in Nat /\ b <= Len(input) /\ Len(out) \in Nat
  BY DEF ScrubInv, ScrubTypeOK
<1>1. /\ more \in Seq(Letters) /\ Len(more) \in Nat /\ Len(input) <= Len(more)
  BY <1>0, ConcatProperties
<1>2. /\ output' \in Seq(Letters \cup {"*"}) /\ Len(output') = b + Len(out)
      /\ \A n \in 1..b + Len(out) : output'[n] = IF n <= b THEN output[n] ELSE out[n - b]
  BY <1>0, ConcatProperties
<1>3. Secrets' = Secrets /\ (Nested' <=> Nested)
  BY DEF Secrets, Nested
<1>4. Matches(input)' = Matches(more)
  BY <1>3 DEF Matches
<1> HIDE DEF b, more
<1>5. ScrubTypeOK'
  <2>1. ended' => buffer' = <<>>
    <3>1. From(more, Len(more) + 1) = <<>>
      BY <1>1, SubSeqEmpty DEF From
    <3> QED BY <3>1 DEF more, b
  <2>2. Len(output') <= Len(input')
    BY <1>0, <1>1, <1>2 DEF b, more
  <2> QED BY <1>0, <1>1, <1>2, <2>1, <2>2 DEF ScrubTypeOK, b, more
<1>6. CrossInv'
  <2>1. ~Nested /\ ~ended' => CrossAt(more, Len(output'))
    BY <1>2 DEF b, more
  <2> QED BY <1>3, <2>1 DEF CrossInv, CrossAt, more
<1>7. IdleInv'
  BY <1>2, <1>3 DEF IdleInv, b, more
<1>8. ASSUME NEW n \in 1..Len(output')
      PROVE  \/ output'[n] = Masked(more, Matches(more))[n]
             \/ Nested /\ output'[n] = more[n]
  <2>1. CASE n <= b
    <3>1. n \in 1..b /\ output'[n] = output[n]
      BY <1>0, <1>2, <1>8, <2>1
    <3> QED BY <3>1, SeenStays DEF b, more
  <2>2. CASE b < n
    <3> DEFINE k == n - b
    <3>1. k \in 1..Len(out) /\ output'[n] = out[k] /\ b + k = n /\ n \in 1..Len(more)
          /\ k \in 1..Len(more) - b /\ b \in 0..Len(more)
      BY <1>0, <1>1, <1>2, <1>8, <2>2 DEF b, more
    <3> HIDE DEF k
    <3>2. out[k] = IF Covers(From(more, b + 1), k) THEN "*" ELSE more[b + k]
      BY <3>1 DEF b, more
    <3>3. Covers(From(more, b + 1), k) => Covers(more, b + k)
      BY <1>0, <1>1, <3>1, CoversBehind
    <3>4. ~Nested => (Covers(From(more, b + 1), k) <=> Covers(more, b + k))
      <4>1. ~Nested => CrossAt(input, b)
        BY DEF ScrubInv, CrossInv, b
      <4>2. ~Nested => CrossAt(more, b)
        BY <4>1, <1>0, CrossGoesOn DEF more
      <4> QED BY <4>2, <1>0, <1>1, <3>1, CoversBehind
    <3>5. Masked(more, Matches(more))[n] = IF Covers(more, n) THEN "*" ELSE more[n]
      BY <1>0, <1>1, <3>1, MaskedIs
    <3> QED BY <3>1, <3>2, <3>3, <3>4, <3>5
  <2>3. n \in Nat
    BY <1>8
  <2> QED BY <2>1, <2>2, <2>3, <1>0
<1>9. ScrubUnseen'
  BY <1>3, <1>4, <1>8 DEF ScrubUnseen, more
<1> QED BY <1>5, <1>6, <1>7, <1>9 DEF ScrubInv

LEMMA PieceStep ==
  ASSUME ScrubInv, ~ended, NEW chunk \in Seq(Letters), Piece(chunk)
  PROVE  ScrubInv'
<1> DEFINE more == input \o chunk
           b == Len(output)
           rest == From(more, b + 1)
<1>0. /\ values \in Families /\ input \in Seq(Letters) /\ b \in 0..Len(input)
      /\ buffer = From(input, b + 1) /\ values' = values /\ input' = more /\ (ended' <=> ended)
  BY DEF ScrubInv, ScrubTypeOK, Piece
<1>1. /\ more \in Seq(Letters) /\ Len(more) = Len(input) + Len(chunk) /\ b \in 0..Len(more)
      /\ \A i \in 1..Len(more) : more[i] = IF i <= Len(input) THEN input[i] ELSE chunk[i - Len(input)]
  BY <1>0, ConcatProperties
<1>2. CASE Secrets = {}
  <2>1. b = Len(input) /\ output' = output \o chunk /\ buffer' = buffer
    BY <1>2 DEF ScrubInv, IdleInv, Piece
  <2>2. /\ chunk \in Seq(Letters \cup {"*"}) /\ Len(chunk) <= Len(more) - b
        /\ b + Len(chunk) = Len(more)
    BY <1>0, <1>1, <2>1
  <2>3. \A n \in 1..Len(chunk) : chunk[n] = more[b + n] /\ ~Covers(rest, n)
    BY <1>0, <1>1, <1>2, <2>1 DEF Covers
  <2>4. CrossAt(more, b + Len(chunk))
    BY <1>2 DEF CrossAt
  <2>5. buffer' = From(more, (b + Len(chunk)) + 1)
    <3>1. From(input, Len(input) + 1) = <<>> /\ From(more, Len(more) + 1) = <<>>
      BY <1>0, <1>1, SubSeqEmpty DEF From
    <3> QED BY <3>1, <2>1, <2>2, <1>0
  <2> QED BY <1>0, <2>1, <2>2, <2>3, <2>4, <2>5, Advances
<1>3. CASE Secrets # {}
  <2>1. buffer \o chunk = rest
    <3>1. /\ buffer \in Seq(Letters) /\ Len(buffer) = Len(input) - b
          /\ \A k \in 1..Len(input) - b : buffer[k] = input[b + k]
      BY <1>0, Behind
    <3>2. /\ rest \in Seq(Letters) /\ Len(rest) = Len(more) - b
          /\ \A k \in 1..Len(more) - b : rest[k] = more[b + k]
      BY <1>1, Behind
    <3>3. /\ buffer \o chunk \in Seq(Letters) /\ Len(buffer \o chunk) = Len(buffer) + Len(chunk)
          /\ \A k \in 1..Len(buffer) + Len(chunk) :
               (buffer \o chunk)[k] = IF k <= Len(buffer) THEN buffer[k] ELSE chunk[k - Len(buffer)]
      BY <3>1, ConcatProperties
    <3>4. Len(input) \in Nat /\ Len(chunk) \in Nat /\ b \in Nat /\ b <= Len(input)
      BY <1>0
    <3> HIDE DEF rest, more, b
    <3>5. Len(buffer \o chunk) = Len(rest)
      BY <3>1, <3>2, <3>3, <3>4, <1>1
    <3>6. \A k \in 1..Len(rest) : (buffer \o chunk)[k] = rest[k]
      <4> SUFFICES ASSUME NEW k \in 1..Len(rest) PROVE (buffer \o chunk)[k] = rest[k]
        OBVIOUS
      <4>1. k \in 1..Len(more) - b /\ b + k \in 1..Len(more) /\ k \in 1..Len(buffer) + Len(chunk)
        BY <3>1, <3>2, <3>4, <1>1
      <4>2. CASE k <= Len(buffer)
        <5>1. (buffer \o chunk)[k] = buffer[k]
          BY <4>1, <4>2, <3>3
        <5>2. b + k <= Len(input) /\ k \in 1..Len(input) - b
          BY <4>1, <4>2, <3>1, <3>4
        <5>3. buffer[k] = input[b + k] /\ rest[k] = more[b + k]
          BY <4>1, <5>2, <3>1, <3>2
        <5>4. more[b + k] = input[b + k]
          BY <4>1, <5>2, <1>1
        <5> QED BY <5>1, <5>3, <5>4
      <4>3. CASE ~(k <= Len(buffer))
        <5>1. k \in Int /\ b \in Int /\ Len(input) \in Int /\ Len(buffer) = Len(input) - b
          BY <3>1, <3>4
        <5>2. ~(b + k <= Len(input)) /\ (b + k) - Len(input) = k - Len(buffer) /\ ~(k <= Len(buffer))
          BY <4>3, <5>1
        <5>3. rest[k] = chunk[(b + k) - Len(input)]
          BY <4>1, <5>2, <3>2, <1>1
        <5>4. (buffer \o chunk)[k] = chunk[k - Len(buffer)]
          BY <4>1, <5>2, <3>3
        <5> QED BY <5>2, <5>3, <5>4
      <4> QED BY <4>2, <4>3
    <3> QED BY <3>2, <3>3, <3>5, <3>6, SeqEqual
  <2> DEFINE out == Scrub(rest).out
             emit == Len(rest) - Held(rest)
  <2>2. output' = output \o out /\ buffer' = Scrub(rest).keep
    BY <1>3, <2>1 DEF Piece
  <2>3. /\ emit \in 0..Len(rest)
        /\ out \in Seq(Letters \cup {"*"}) /\ Len(out) = emit
        /\ \A n \in 1..emit : out[n] = IF Covers(rest, n) THEN "*" ELSE more[b + n]
        /\ Scrub(rest).keep = From(more, (b + emit) + 1)
    BY <1>0, <1>1, LetOut
  <2>4. Len(rest) = Len(more) - b
    BY <1>1, Behind
  <2>5. ~Nested => CrossAt(more, b + emit)
    <3>1. ~Nested => CrossAt(input, b)
      BY DEF ScrubInv, CrossInv
    <3>2. ~Nested => CrossAt(more, b)
      BY <3>1, <1>0, CrossGoesOn
    <3> QED BY <3>2, <1>0, <1>1, CrossMoves
  <2>6. Len(out) <= Len(more) - b
    BY <2>3, <2>4
  <2> HIDE DEF out, emit, rest
  <2> QED BY <1>0, <1>3, <2>2, <2>3, <2>5, <2>6, Advances DEF rest
<1> QED BY <1>2, <1>3

LEMMA FlushStep ==
  ASSUME ScrubInv, ScrubFlush
  PROVE  ScrubInv'
<1> DEFINE b == Len(output)
           out == Masked(buffer, Matches(buffer))
<1>0. /\ values \in Families /\ input \in Seq(Letters) /\ b \in 0..Len(input)
      /\ buffer = From(input, b + 1) /\ values' = values /\ input' = input /\ ended' /\ ~ended
      /\ output' = output \o out /\ buffer' = <<>>
  BY DEF ScrubInv, ScrubTypeOK, ScrubFlush
<1>1. input \o <<>> = input
  BY <1>0, ConcatEmptySeq
<1>2. /\ buffer \in Seq(Letters) /\ Len(buffer) = Len(input) - b
      /\ \A k \in 1..Len(input) - b : buffer[k] = input[b + k]
  BY <1>0, Behind
<1>3. /\ out \in Seq(Letters \cup {"*"}) /\ Len(out) = Len(buffer)
      /\ \A n \in 1..Len(buffer) : out[n] = IF Covers(buffer, n) THEN "*" ELSE buffer[n]
  BY <1>0, <1>2, MaskedIs
<1>4. Len(out) = Len(input) - b /\ b + Len(out) = Len(input)
  BY <1>0, <1>2, <1>3
<1>5. From(input, (b + Len(out)) + 1) = <<>>
  BY <1>0, <1>4, SubSeqEmpty DEF From
<1>6. \A n \in 1..Len(out) :
        out[n] = IF Covers(From(input, b + 1), n) THEN "*" ELSE input[b + n]
  BY <1>0, <1>2, <1>3, <1>4
<1>7. <<>> \in Seq(Letters) /\ Len(out) <= Len(input) - b
  BY <1>0, <1>4
<1> HIDE DEF out
<1> QED BY <1>0, <1>1, <1>3, <1>4, <1>5, <1>6, <1>7, Advances

LEMMA NextScrubInv == ScrubInv /\ [ScrubNext]_scrubVars => ScrubInv'
<1> SUFFICES ASSUME ScrubInv, [ScrubNext]_scrubVars PROVE ScrubInv'
  OBVIOUS
<1>1. CASE ScrubPush
  <2>1. PICK chunk \in Strings(Letters, 1, MaxChunk) : Piece(chunk)
    BY <1>1 DEF ScrubPush
  <2>2. chunk \in Seq(Letters)
    BY ScrubAssumption DEF Strings
  <2>3. ~ended
    BY <1>1 DEF ScrubPush
  <2> QED BY <2>1, <2>2, <2>3, PieceStep
<1>2. CASE ScrubFlush
  BY <1>2, FlushStep
<1>3. CASE UNCHANGED scrubVars
  <2>1. Secrets' = Secrets /\ (Nested' <=> Nested) /\ Matches(input)' = Matches(input)
    BY <1>3 DEF scrubVars, Secrets, Nested, Matches
  <2>2. ScrubTypeOK' /\ IdleInv' /\ ScrubUnseen'
    BY <1>3, <2>1 DEF ScrubInv, scrubVars, ScrubTypeOK, IdleInv, ScrubUnseen
  <2>3. CrossInv'
    BY <1>3, <2>1 DEF ScrubInv, scrubVars, CrossInv, CrossAt
  <2> QED BY <2>2, <2>3 DEF ScrubInv
<1> QED BY <1>1, <1>2, <1>3 DEF ScrubNext

\* Columns stay where they are: what viewers were given and what is held back
\* are together as long as the terminal's output.
THEOREM ScrubTypes == ScrubSpec => []ScrubTypeOK
<1>1. ScrubInv => ScrubTypeOK
  BY DEF ScrubInv
<1> QED BY <1>1, InitScrubInv, NextScrubInv, PTL DEF ScrubSpec

\* However the output is cut, viewers are given what masking the whole of it
\* gives, and with nested credentials nothing that is not in it.
THEOREM CutsUnseen == ScrubSpec => []ScrubUnseen
<1>1. ScrubInv => ScrubUnseen
  BY DEF ScrubInv
<1> QED BY <1>1, InitScrubInv, NextScrubInv, PTL DEF ScrubSpec

-----------------------------------------------------------------------------
(* The bridge, serving, for any sessions, routes and login files, any      *)
(* limit and any grace.  The inductive invariant has four parts: the count *)
(* of requests in flight is the number of open ones (FlightInv), a route   *)
(* and a turn have the login of their file (LoginInv), the clock that the  *)
(* idle watcher reads is no older than the last request (ClockInv), and    *)
(* what a helper handed out is registered (KeyInv).                        *)

USE SessionAssumption, RouteAssumption DEF Clients

LEMMA Bounds ==
  /\ Cap \in Nat /\ Limit \in Nat /\ Grace \in Nat /\ MaxTime \in Nat /\ MaxStops \in Nat
  /\ Keys \in Nat \ {0} /\ Limit > 0
BY BoundAssumption

USE Bounds DEF Open, Registering, Replied, Stamped

\* Where a request that is over leads.
LEMMA Ends ==
  /\ DOMAIN After = Replied \cup Stamped
  /\ \A step \in Replied : After[step] \in Stamped
  /\ \A step \in Stamped : After[step] \in Steps \ Open
BY DEF After, Steps

-----------------------------------------------------------------------------
(* The count of requests in flight.                                        *)

OpenSet == {s \in Clients : IsOpen(s)}
FlightInv ==
  /\ pc \in [Clients -> Steps]
  /\ host \in {"down", "up", "stopping"}
  /\ inFlight = Cardinality(OpenSet)
  /\ host = "down" => OpenSet = {}

LEMMA OpenFinite ==
  /\ IsFiniteSet(OpenSet) /\ Cardinality(OpenSet) \in 0..Cardinality(Clients)
  /\ Cardinality(OpenSet) = 0 <=> OpenSet = {}
<1>1. OpenSet \subseteq Clients /\ IsFiniteSet(Clients)
  BY DEF OpenSet
<1> QED BY <1>1, FS_Subset, FS_CardinalityType, FS_EmptySet

\* A bridge that goes down cuts every open request.
LEMMA Cut ==
  ASSUME pc \in [Clients -> Steps], Exit \/ Crash
  PROVE  /\ pc' \in [Clients -> Steps]
         /\ \A s \in Clients : /\ pc'[s] \notin Open
                               /\ pc[s] \in Registering => pc'[s] = "help"
                               /\ pc[s] \in Open \ Registering => pc'[s] = "send"
                               /\ pc[s] \notin Open => pc'[s] = pc[s]
<1>1. pc' = [s \in Clients |-> CASE pc[s] \in Registering -> "help"
                                [] pc[s] \in Open \ Registering -> "send"
                                [] OTHER -> pc[s]]
  BY DEF Exit, Crash, Down
<1>2. ASSUME NEW s \in Clients
      PROVE  /\ pc'[s] \in Steps /\ pc'[s] \notin Open
             /\ pc[s] \in Registering => pc'[s] = "help"
             /\ pc[s] \in Open \ Registering => pc'[s] = "send"
             /\ pc[s] \notin Open => pc'[s] = pc[s]
  <2>1. CASE pc[s] \in Registering
    BY <1>1, <2>1 DEF Steps
  <2>2. CASE pc[s] \in Open \ Registering
    BY <1>1, <2>2 DEF Steps
  <2>3. CASE pc[s] \notin Open
    BY <1>1, <2>3
  <2> QED BY <2>1, <2>2, <2>3
<1> QED BY <1>1, <1>2

LEMMA FlightStep ==
  ASSUME FlightInv, [ServeNext]_serveVars
  PROVE  FlightInv'
<1> USE DEF FlightInv
<1>1. ASSUME NEW s \in Clients, Want(s) \/ SendFails(s) \/ Begin(s)
      PROVE  FlightInv'
  <2>1. UNCHANGED <<host, inFlight>> /\ pc' \in [Clients -> Steps]
    BY <1>1 DEF Want, SendFails, Begin, Goto, hostVars, Steps
  <2>2. OpenSet' = OpenSet
    BY <1>1 DEF Want, SendFails, Begin, Goto, OpenSet, IsOpen
  <2> QED BY <2>1, <2>2
<1>2. ASSUME NEW s \in Natives, Enter(s) \/ Answer(s)
      PROVE  FlightInv'
  <2>1. UNCHANGED <<host, inFlight>> /\ pc' \in [Clients -> Steps]
    BY <1>2 DEF Enter, Answer, Goto, hostVars, Steps
  <2>2. OpenSet' = OpenSet
    BY <1>2 DEF Enter, Answer, Goto, OpenSet, IsOpen
  <2> QED BY <2>1, <2>2
<1>11. ASSUME NEW s \in Natives, Register(s)
      PROVE  FlightInv'
  <2>1. pc' \in [Clients -> Steps] /\ host' = host
    BY <1>11 DEF Register, Goto, Steps
  <2>2. CASE host = "up" /\ helper[s].instance = instance
    <3>1. s \notin OpenSet /\ OpenSet' = OpenSet \cup {s} /\ inFlight' = inFlight + 1
      BY <1>11, <2>2 DEF Register, Goto, OpenSet, IsOpen
    <3> QED BY <2>1, <2>2, <3>1, OpenFinite, FS_AddElement
  <2>3. CASE ~(host = "up" /\ helper[s].instance = instance)
    <3>1. OpenSet' = OpenSet /\ inFlight' = inFlight
      BY <1>11, <2>3 DEF Register, Goto, OpenSet, IsOpen
    <3> QED BY <2>1, <3>1
  <2> QED BY <2>2, <2>3
<1>3. ASSUME NEW s \in Coders, FindRoute(s) \/ Login(s) \/ Insert(s)
      PROVE  FlightInv'
  <2>1. UNCHANGED <<host, inFlight>> /\ pc' \in [Clients -> Steps]
    BY <1>3 DEF FindRoute, Login, Insert, Goto, hostVars, Steps
  <2>2. OpenSet' = OpenSet
    BY <1>3 DEF FindRoute, Login, Insert, Goto, OpenSet, IsOpen
  <2> QED BY <2>1, <2>2
<1>4. ASSUME NEW s \in Clients, Help(s)
      PROVE  FlightInv'
  <2>1. pc' \in [Clients -> Steps] /\ OpenSet' = OpenSet
    BY <1>4 DEF Help, Goto, OpenSet, IsOpen, Open, Steps
  <2>2. \/ host = "down" /\ host' = "up" /\ inFlight' = 0
        \/ UNCHANGED <<host, inFlight>>
    BY <1>4 DEF Help, FreshHost, hostVars
  <2> QED BY <2>1, <2>2, OpenFinite
<1>5. ASSUME NEW s \in Clients, Send(s)
      PROVE  FlightInv'
  <2>1. pc' \in [Clients -> Steps] /\ host' = host /\ host = "up" /\ inFlight' = inFlight + 1
    BY <1>5 DEF Send, Goto, Steps
  <2>2. s \notin OpenSet /\ OpenSet' = OpenSet \cup {s}
    BY <1>5 DEF Send, Goto, OpenSet, IsOpen
  <2> QED BY <2>1, <2>2, OpenFinite, FS_AddElement
<1>6. ASSUME NEW s \in Clients, End(s)
      PROVE  FlightInv'
  <2>1. pc[s] \in Replied \cup Stamped /\ pc' = [pc EXCEPT ![s] = After[pc[s]]]
    BY <1>6 DEF End, Goto
  <2>2. pc' \in [Clients -> Steps] /\ host' = host /\ s \in OpenSet
    BY <1>6, <2>1, Ends DEF End, Steps, OpenSet, IsOpen
  <2>3. CASE pc[s] \in Replied
    <3>1. inFlight' = inFlight
      BY <1>6, <2>3 DEF End
    <3>2. OpenSet' = OpenSet
      BY <2>1, <2>3, Ends DEF OpenSet, IsOpen
    <3> QED BY <2>2, <3>1, <3>2
  <2>4. CASE pc[s] \in Stamped
    <3>1. inFlight' = inFlight - 1
      BY <1>6, <2>4 DEF End
    <3>2. OpenSet' = OpenSet \ {s}
      BY <2>1, <2>4, Ends DEF OpenSet, IsOpen
    <3> QED BY <2>2, <3>1, <3>2, OpenFinite, FS_RemoveElement
  <2> QED BY <2>1, <2>3, <2>4
<1>7. CASE Watch \/ StopAsked
  BY <1>7 DEF Watch, WatchTime, WatchFlight, WatchLast, StopAsked, StopServing, sessionVars,
     OpenSet, IsOpen
<1>8. CASE Tick \/ ChangeKey
  BY <1>8 DEF Tick, ChangeKey, hostVars, sessionVars, OpenSet, IsOpen
<1>9. CASE Exit \/ Crash
  <2>1. host' = "down" /\ inFlight' = 0
    BY <1>9 DEF Exit, Crash, Down
  <2>2. pc' \in [Clients -> Steps] /\ OpenSet' = {}
    BY <1>9, Cut DEF OpenSet, IsOpen, Steps
  <2> QED BY <2>1, <2>2, FS_EmptySet
<1>10. CASE UNCHANGED serveVars
  BY <1>10 DEF serveVars, hostVars, sessionVars, OpenSet, IsOpen
<1> QED
  BY <1>1, <1>2, <1>3, <1>4, <1>5, <1>6, <1>7, <1>8, <1>9, <1>10, <1>11
  DEF ServeNext, Asks, Forwards, Builds

-----------------------------------------------------------------------------
(* Types, and the keys.                                                    *)

\* A helper's credential is of a bridge that has been, and of the one that runs
\* once it registers; one that was handed out, or is about to be, by the bridge
\* that is or was last holds a key its forwarding route accepts.
KeyInv ==
  /\ host # "down" => instance > 0
  /\ \A s \in Natives :
       /\ pc[s] \in Registering => helper[s].instance = instance /\ instance > 0
       /\ pc[s] \in {"entered", "granted"} => helper[s].key \in forward
       /\ helper[s].instance <= instance /\ cred[s].instance <= instance
       /\ helper[s].instance > 0 => helper[s].key > 0
       /\ cred[s].instance > 0 /\ cred[s].instance = instance => cred[s].key \in forward

LEMMA TypeStep ==
  ASSUME ServeTypeOK, FlightInv', KeyInv, [ServeNext]_serveVars
  PROVE  ServeTypeOK'
<1> USE DEF ServeTypeOK
<1>0. inFlight' \in 0..Cardinality(Clients) /\ pc' \in [Clients -> Steps] /\ host' \in {"down", "up", "stopping"}
  <2>1. OpenSet' \subseteq Clients /\ IsFiniteSet(Clients)
    BY DEF OpenSet
  <2> QED BY <2>1, FS_Subset, FS_CardinalityType DEF FlightInv
<1>1. ASSUME NEW s \in Clients, Want(s) \/ SendFails(s) \/ Begin(s) \/ Send(s) \/ End(s)
      PROVE  ServeTypeOK'
  <2>1. CASE Want(s) \/ SendFails(s)
    BY <1>0, <2>1 DEF Want, SendFails, hostVars, routeVars
  <2>2. CASE Begin(s) \/ Send(s)
    BY <1>0, <2>2 DEF Begin, Send, routeVars
  <2>3. CASE End(s)
    <3>1. state' \in [Coders -> Nat] /\ last' \in 0..MaxTime /\ busy' \in 0..MaxTime
      BY <2>3 DEF End
    <3>2. Nothing \in Creds
      BY DEF Nothing, Creds
    <3>3. helper' \in [Natives -> Creds] /\ cred' \in [Natives -> Creds]
      <4>1. CASE s \in Natives
        BY <2>3, <3>2, <4>1 DEF End, HandsOut
      <4>2. CASE s \notin Natives
        <5>1. helper' = helper /\ cred' = cred
          BY <2>3, <4>2 DEF End, HandsOut
        <5> QED BY <5>1
      <4> QED BY <4>1, <4>2
    <3> QED BY <1>0, <2>3, <3>1, <3>3 DEF End, routeVars
  <2> QED BY <1>1, <2>1, <2>2, <2>3
<1>2. ASSUME NEW s \in Natives, Answer(s) PROVE ServeTypeOK'
  BY <1>0, <1>2 DEF Answer, hostVars, routeVars
<1>3. ASSUME NEW s \in Natives, Register(s) PROVE ServeTypeOK'
  <2>1. Nothing \in Creds
    BY DEF Creds, Nothing
  <2>2. helper' \in [Natives -> Creds] /\ busy' \in 0..MaxTime
    BY <1>3, <2>1 DEF Register
  <2> QED BY <1>0, <1>3, <2>2 DEF Register, routeVars
<1>11. ASSUME NEW s \in Natives, Enter(s) PROVE ServeTypeOK'
  <2>1. helper[s].key \in 1..Keys
    BY <1>11 DEF Enter, KeyInv, Creds
  <2>2. forward' \subseteq 1..Keys
    BY <1>11, <2>1 DEF Enter, Add
  <2> QED BY <1>0, <1>11, <2>2 DEF Enter, hostVars, routeVars
<1>4. ASSUME NEW s \in Coders, FindRoute(s) \/ Insert(s) PROVE ServeTypeOK'
  <2>1. RouteOf[s] \in Routes
    OBVIOUS
  <2> QED BY <1>0, <1>4, <2>1, ZenonT(40) DEF FindRoute, Insert, hostVars, routeVars
<1>5. ASSUME NEW s \in Coders, Login(s) PROVE ServeTypeOK'
  <2>1. FileOf[RouteOf[s]] \in Files
    OBVIOUS
  <2> QED BY <1>0, <1>5, <2>1 DEF Login, hostVars
<1>6. ASSUME NEW s \in Clients, Help(s) PROVE ServeTypeOK'
  <2>1. /\ instance' \in Nat /\ last' \in 0..MaxTime /\ stopAt' \in 0..MaxTime
        /\ watch' \in [step : {"sleep", "flight", "last", "done"}, now : 0..MaxTime, busy : 0..MaxTime]
        /\ logins' \in [Files -> Nat] /\ routes' \in [Routes -> Nat] /\ made' \in Nat
        /\ forward' \subseteq 1..Keys
    <3>1. CASE FreshHost
      BY <3>1 DEF FreshHost, Asleep
    <3>2. CASE UNCHANGED <<hostVars, routeVars, forward>>
      BY <3>2 DEF hostVars, routeVars
    <3> QED BY <1>6, <3>1, <3>2 DEF Help
  <2>2. s \in Natives => [instance |-> instance', key |-> key] \in Creds
    BY <2>1 DEF Creds
  <2> QED BY <1>0, <1>6, <2>1, <2>2 DEF Help
<1>7. CASE Watch \/ StopAsked
  <2> DEFINE Watches ==
        [step : {"sleep", "flight", "last", "done"}, now : 0..MaxTime, busy : 0..MaxTime]
  <2>1. Asleep \in Watches /\ [Asleep EXCEPT !.step = "done"] \in Watches
    BY DEF Asleep
  <2>2. /\ [watch EXCEPT !.step = "flight", !.now = now] \in Watches
        /\ [watch EXCEPT !.step = "last", !.busy = busy] \in Watches
    OBVIOUS
  <2>3. watch' \in Watches /\ stopAt' \in 0..MaxTime /\ stops' \in 0..MaxStops
    <3>1. CASE WatchTime \/ WatchFlight
      BY <2>1, <2>2, <3>1 DEF WatchTime, WatchFlight
    <3>2. CASE WatchLast
      BY <2>1, <3>2 DEF WatchLast, StopServing
    <3>3. CASE StopAsked
      BY <3>3 DEF StopAsked, StopServing
    <3> QED BY <1>7, <3>1, <3>2, <3>3 DEF Watch
  <2> QED
    BY <1>0, <1>7, <2>3
    DEF Watch, WatchTime, WatchFlight, WatchLast, StopAsked, sessionVars, routeVars
<1>8. CASE Tick \/ ChangeKey
  <2>1. now' \in 0..MaxTime /\ busy' \in 0..MaxTime /\ key' \in 1..Keys
    BY <1>8 DEF Tick, ChangeKey
  <2> QED BY <1>0, <1>8, <2>1 DEF Tick, ChangeKey, hostVars, sessionVars, routeVars
<1>9. CASE Exit \/ Crash
  <2>1. stops' \in 0..MaxStops /\ state' \in [Coders -> Nat]
    BY <1>9 DEF Exit, Crash, Down
  <2>2. /\ watch' \in [step : {"sleep", "flight", "last", "done"}, now : 0..MaxTime, busy : 0..MaxTime]
        /\ stopAt' \in 0..MaxTime
    BY <1>9 DEF Exit, Crash, Down, Asleep
  <2> QED BY <1>0, <1>9, <2>1, <2>2 DEF Exit, Crash, Down, routeVars
<1>10. CASE UNCHANGED serveVars
  BY <1>10 DEF serveVars, hostVars, sessionVars, routeVars
<1> QED
  BY <1>1, <1>2, <1>3, <1>4, <1>5, <1>6, <1>7, <1>8, <1>9, <1>10, <1>11
  DEF ServeNext, Asks, Forwards, Builds

LEMMA KeyStep ==
  ASSUME ServeTypeOK, FlightInv, KeyInv, [ServeNext]_serveVars
  PROVE  KeyInv'
<1> USE DEF ServeTypeOK, KeyInv
<1>0. \A n \in Natives : helper[n] \in Creds /\ cred[n] \in Creds
  OBVIOUS
<1>1. ASSUME NEW s \in Clients, Help(s) PROVE KeyInv'
  <2>1. /\ cred' = cred /\ pc[s] = "help"
        /\ helper' \in {helper, [helper EXCEPT ![s] = [instance |-> instance', key |-> key]]}
        /\ pc' \in {[pc EXCEPT ![s] = "register"], [pc EXCEPT ![s] = "send"]}
    BY <1>1 DEF Help, Goto
  <2>2. CASE host = "down" /\ FreshHost
    <3>1. instance' = instance + 1 /\ host' = "up" /\ instance \in Nat
      BY <2>2 DEF FreshHost
    <3>2. \A n \in Natives : pc'[n] \notin Registering
      <4>1. \A n \in Clients : pc[n] \notin Open
        BY <2>2 DEF FlightInv, OpenSet, IsOpen
      <4> QED BY <2>1, <4>1
    <3>3. ASSUME NEW n \in Natives
          PROVE  /\ cred'[n].instance <= instance' /\ cred'[n].instance # instance'
                 /\ helper'[n].instance <= instance'
      <4>1. cred[n].instance \in Nat /\ cred[n].instance <= instance /\ cred'[n] = cred[n]
        BY <1>0, <2>1 DEF Creds
      <4>2. helper'[n].instance = instance' \/ helper'[n] = helper[n]
        BY <2>1
      <4>3. helper[n].instance \in Nat /\ helper[n].instance <= instance
        BY <1>0 DEF Creds
      <4> QED BY <3>1, <4>1, <4>2, <4>3
    <3>4. \A n \in Natives : helper'[n].instance > 0 => helper'[n].key > 0
      BY <1>0, <2>1, <3>1 DEF Creds
    <3>5. instance' > 0
      BY <3>1
    <3> QED BY <3>2, <3>3, <3>4, <3>5
  <2>3. CASE host # "down" /\ UNCHANGED <<host, instance, forward>>
    <3>1. ASSUME NEW n \in Natives, n = s PROVE pc'[n] \notin Registering
      BY <2>1, <3>1
    <3>2. ASSUME NEW n \in Natives, n # s PROVE pc'[n] = pc[n] /\ helper'[n] = helper[n]
      BY <2>1, <3>2
    <3>3. ASSUME NEW n \in Natives
          PROVE  helper'[n].instance <= instance' /\ (helper'[n].instance > 0 => helper'[n].key > 0)
      BY <1>0, <2>1, <2>3 DEF Creds
    <3> QED BY <2>1, <2>3, <3>1, <3>2, <3>3
  <2> QED BY <1>1, <2>2, <2>3 DEF Help, hostVars
<1>2. ASSUME NEW s \in Natives, Register(s) PROVE KeyInv'
  <2>1. CASE /\ host = "up" /\ helper[s].instance = instance
    <3>1. /\ UNCHANGED <<host, instance, forward, cred, helper>>
          /\ pc' = [pc EXCEPT ![s] = "counted"]
      BY <1>2, <2>1 DEF Register, Goto
    <3> QED BY <2>1, <3>1
  <2>2. CASE ~(host = "up" /\ helper[s].instance = instance)
    <3>1. /\ UNCHANGED <<host, instance, forward, cred>>
          /\ helper' = [helper EXCEPT ![s] = Nothing] /\ pc' = [pc EXCEPT ![s] = "help"]
      BY <1>2, <2>2 DEF Register, Goto
    <3> QED BY <3>1 DEF Nothing
  <2> QED BY <2>1, <2>2
<1>8. ASSUME NEW s \in Natives, Enter(s) PROVE KeyInv'
  <2>1. pc[s] = "enter" /\ UNCHANGED <<host, instance, cred, helper>>
    BY <1>8 DEF Enter, hostVars
  <2>2. \/ forward' = forward \cup {helper[s].key} /\ pc' = [pc EXCEPT ![s] = "entered"]
        \/ forward' = forward /\ pc' = [pc EXCEPT ![s] = "full"]
    BY <1>8 DEF Enter, Add, Goto
  <2> QED BY <2>1, <2>2
<1>9. ASSUME NEW s \in Clients, End(s) PROVE KeyInv'
  <2>1. /\ UNCHANGED <<host, instance, forward>>
        /\ pc[s] \in Replied \cup Stamped /\ pc' = [pc EXCEPT ![s] = After[pc[s]]]
        /\ HandsOut(s)
    BY <1>9 DEF End, Goto
  <2>2. CASE pc[s] \in {"entered", "full"}
    <3>1. UNCHANGED <<cred, helper>>
      BY <2>1, <2>2 DEF HandsOut
    <3>2. pc'[s] = IF pc[s] = "entered" THEN "granted" ELSE "denied"
      BY <2>1, <2>2 DEF After
    <3> QED BY <2>1, <2>2, <3>1, <3>2
  <2>3. CASE pc[s] \in {"granted", "denied"}
    <3>1. helper' = [helper EXCEPT ![s] = Nothing]
      BY <2>1, <2>3 DEF HandsOut
    <3>2. cred' = IF pc[s] = "granted" THEN [cred EXCEPT ![s] = helper[s]] ELSE cred
      BY <2>1 DEF HandsOut
    <3>3. pc'[s] \notin Registering
      BY <2>1, <2>3 DEF After
    <3> QED BY <2>1, <2>3, <3>1, <3>2, <3>3 DEF Nothing
  <2>4. CASE pc[s] \notin Registering
    <3>1. UNCHANGED <<cred, helper>>
      BY <2>1, <2>4 DEF HandsOut
    <3>2. pc'[s] \notin Registering
      BY <2>1, <2>4 DEF After
    <3> QED BY <2>1, <3>1, <3>2
  <2> QED BY <2>1, <2>2, <2>3, <2>4
<1>10. ASSUME NEW s \in Clients, Begin(s) PROVE KeyInv'
  <2>1. /\ UNCHANGED <<host, instance, forward, cred, helper>>
        /\ \/ pc[s] = "begun" /\ pc' = [pc EXCEPT ![s] = "handle"]
           \/ pc[s] = "counted" /\ pc' = [pc EXCEPT ![s] = "enter"]
    BY <1>10 DEF Begin, Goto
  <2> QED BY <2>1
<1>3. ASSUME NEW s \in Clients,
             Want(s) \/ Send(s) \/ SendFails(s)
             \/ (s \in Natives /\ Answer(s))
             \/ (s \in Coders /\ (FindRoute(s) \/ Login(s) \/ Insert(s)))
      PROVE  KeyInv'
  <2>1. UNCHANGED <<host, instance, forward, cred, helper>>
    BY <1>3 DEF Want, Send, SendFails, Answer, FindRoute, Login, Insert, hostVars
  <2>2. \A n \in Clients : pc'[n] = pc[n] \/ pc'[n] \notin Registering
    BY <1>3 DEF Want, Send, SendFails, Answer, FindRoute, Login, Insert, Goto
  <2> QED BY <2>1, <2>2
<1>4. CASE Watch \/ StopAsked
  BY <1>4 DEF Watch, WatchTime, WatchFlight, WatchLast, StopAsked, StopServing, sessionVars
<1>5. CASE Tick \/ ChangeKey
  BY <1>5 DEF Tick, ChangeKey, hostVars, sessionVars
<1>6. CASE Exit \/ Crash
  <2>1. host' = "down" /\ UNCHANGED <<instance, forward, helper, cred>>
    BY <1>6 DEF Exit, Crash, Down
  <2> QED BY <1>6, <2>1, Cut
<1>7. CASE UNCHANGED serveVars
  BY <1>7 DEF serveVars, hostVars, sessionVars
<1> QED
  BY <1>1, <1>2, <1>3, <1>4, <1>5, <1>6, <1>7, <1>8, <1>9, <1>10
  DEF ServeNext, Asks, Forwards, Builds

LEMMA Typed == ServeSpec => [](ServeTypeOK /\ FlightInv /\ KeyInv)
<1>1. ServeInit => ServeTypeOK /\ FlightInv /\ KeyInv
  <2> SUFFICES ASSUME ServeInit PROVE ServeTypeOK /\ FlightInv /\ KeyInv
    OBVIOUS
  <2>1. OpenSet = {}
    BY DEF ServeInit, OpenSet, IsOpen
  <2>2. FlightInv
    BY <2>1, FS_EmptySet DEF ServeInit, FlightInv, Steps
  <2>3. Nothing \in Creds
    BY DEF Nothing, Creds
  <2>4. ServeTypeOK
    BY <2>2, <2>3, OpenFinite DEF ServeInit, ServeTypeOK, FlightInv, Asleep
  <2> QED BY <2>2, <2>4 DEF ServeInit, KeyInv, Nothing
<1>2. ServeTypeOK /\ FlightInv /\ KeyInv /\ [ServeNext]_serveVars => ServeTypeOK' /\ FlightInv' /\ KeyInv'
  BY TypeStep, FlightStep, KeyStep
<1> QED BY <1>1, <1>2, PTL DEF ServeSpec

\* Every part of the bridge has its type; the count of Activity stays between
\* zero and the number of sessions, so that a decrement never meets a zero.
THEOREM ServeTypes == ServeSpec => []ServeTypeOK
BY Typed, PTL

\* A credential that the running bridge's helper handed out stays accepted while
\* that bridge runs, whatever other keys are registered (serve.rs, ForwardEntry).
THEOREM EarlierKeysKept == ServeSpec => []EarlierKeysWork
<1>1. ServeTypeOK /\ KeyInv => EarlierKeysWork
  BY DEF ServeTypeOK, KeyInv, EarlierKeysWork
<1> QED BY <1>1, Typed, PTL

-----------------------------------------------------------------------------
(* One login for a file.                                                   *)

\* A state that was built, put in or not, has the manager of its login file, and
\* a turn has one only while its request is open.
LoginInv ==
  /\ \A r \in Routes : routes[r] # 0 => routes[r] = logins[FileOf[r]]
  /\ \A s \in Coders :
       /\ state[s] # 0 => pc[s] \in {"build", "stream"} /\ state[s] = logins[FileOf[RouteOf[s]]]
       /\ pc[s] = "stream" => state[s] # 0

LEMMA RouteLoginStep ==
  ASSUME ServeTypeOK, FlightInv, LoginInv, [ServeNext]_serveVars
  PROVE  LoginInv'
<1> USE DEF ServeTypeOK, LoginInv
<1>1. ASSUME NEW s \in Clients, Want(s) \/ SendFails(s) \/ Begin(s) \/ Send(s)
      PROVE  LoginInv'
  BY <1>1 DEF Want, SendFails, Begin, Send, Goto, hostVars, routeVars
<1>2. ASSUME NEW s \in Natives, Answer(s) \/ Register(s) \/ Enter(s) PROVE LoginInv'
  <2>1. UNCHANGED <<routes, logins, state>> /\ \A c \in Coders : pc'[c] = pc[c]
    BY <1>2 DEF Answer, Register, Enter, Goto, routeVars
  <2> QED BY <2>1
<1>3. ASSUME NEW s \in Clients, End(s) PROVE LoginInv'
  <2>1. /\ UNCHANGED <<routes, logins>> /\ pc' = [pc EXCEPT ![s] = After[pc[s]]]
        /\ pc[s] \in Replied \cup Stamped
        /\ state' = [t \in Coders |-> IF t = s THEN 0 ELSE state[t]]
    BY <1>3 DEF End, Goto, routeVars
  <2>2. After[pc[s]] # "stream"
    BY <2>1, Ends DEF Steps
  <2> QED BY <2>1, <2>2
<1>4. ASSUME NEW s \in Clients, Help(s) PROVE LoginInv'
  <2>1. state' = state /\ pc[s] = "help" /\ pc' \in {[pc EXCEPT ![s] = "register"], [pc EXCEPT ![s] = "send"]}
    BY <1>4 DEF Help, Goto
  <2>2. CASE host = "down" /\ FreshHost
    <3>1. \A c \in Coders : pc[c] \notin {"build", "stream"}
      BY <2>2 DEF FlightInv, OpenSet, IsOpen
    <3>2. \A c \in Coders : state[c] = 0 /\ pc'[c] # "stream"
      BY <2>1, <3>1
    <3> QED BY <2>1, <2>2, <3>2 DEF FreshHost
  <2>3. CASE UNCHANGED <<hostVars, routeVars, forward>>
    BY <2>1, <2>3 DEF routeVars
  <2> QED BY <1>4, <2>2, <2>3 DEF Help
<1>5. ASSUME NEW s \in Coders, FindRoute(s) PROVE LoginInv'
  <2>1. RouteOf[s] \in Routes
    OBVIOUS
  <2> QED BY <1>5, <2>1 DEF FindRoute, Goto, routeVars
<1>6. ASSUME NEW s \in Coders, Login(s) PROVE LoginInv'
  <2> DEFINE f == FileOf[RouteOf[s]]
  <2>1. RouteOf[s] \in Routes /\ f \in Files
    OBVIOUS
  <2>2. CASE logins[f] = 0
    <3>1. /\ made' = made + 1 /\ logins' = [logins EXCEPT ![f] = made']
          /\ state' = [state EXCEPT ![s] = made'] /\ UNCHANGED <<routes, pc>> /\ pc[s] = "build"
      BY <1>6, <2>2 DEF Login
    <3>2. made' # 0 /\ logins'[f] = made' /\ state'[s] = made'
      BY <2>1, <3>1
    <3>3. \A r \in Routes : FileOf[r] = f => routes[r] = 0
      BY <2>2
    <3>4. \A c \in Coders : FileOf[RouteOf[c]] = f => state[c] = 0
      BY <2>2
    <3> QED BY <2>1, <3>1, <3>2, <3>3, <3>4
  <2>3. CASE logins[f] # 0
    BY <1>6, <2>1, <2>3 DEF Login
  <2> QED BY <2>2, <2>3
<1>7. ASSUME NEW s \in Coders, Insert(s) PROVE LoginInv'
  <2> DEFINE r == RouteOf[s]
  <2>1. /\ r \in Routes /\ pc[s] = "build" /\ state[s] # 0 /\ state[s] = logins[FileOf[r]]
    BY <1>7 DEF Insert
  <2>2. /\ routes' = IF routes[r] = 0 THEN [routes EXCEPT ![r] = state[s]] ELSE routes
        /\ state' = [state EXCEPT ![s] = routes'[r]]
        /\ pc' = [pc EXCEPT ![s] = "stream"] /\ logins' = logins
    BY <1>7 DEF Insert, Goto
  <2>3. routes'[r] = logins[FileOf[r]] /\ routes'[r] # 0
    BY <2>1, <2>2
  <2>4. \A q \in Routes \ {r} : routes'[q] = routes[q]
    BY <2>2
  <2> QED BY <2>1, <2>2, <2>3, <2>4
<1>8. CASE Watch \/ StopAsked
  BY <1>8 DEF Watch, WatchTime, WatchFlight, WatchLast, StopAsked, sessionVars, routeVars
<1>9. CASE Tick \/ ChangeKey
  BY <1>9 DEF Tick, ChangeKey, sessionVars, routeVars
<1>10. CASE Exit \/ Crash
  <2>1. state' = [s \in Coders |-> 0] /\ UNCHANGED <<routes, logins>>
    BY <1>10 DEF Exit, Crash, Down, routeVars
  <2>2. \A s \in Coders : pc'[s] # "stream" /\ state'[s] = 0
    BY <1>10, <2>1, Cut
  <2> QED BY <2>1, <2>2
<1>11. CASE UNCHANGED serveVars
  BY <1>11 DEF serveVars, sessionVars, routeVars
<1> QED
  BY <1>1, <1>2, <1>3, <1>4, <1>5, <1>6, <1>7, <1>8, <1>9, <1>10, <1>11 DEF ServeNext, Asks, Forwards, Builds

\* Turns that spend one login are served by one AuthManager, by whichever routes
\* they came and in whatever order those were built, restarts of the bridge in
\* between included (build_route, Host::route).
THEOREM LoginShared == ServeSpec => []SharedLogin
<1>1. ServeInit => LoginInv
  BY DEF ServeInit, LoginInv
<1>2. LoginInv => SharedLogin
  BY DEF LoginInv, SharedLogin
<1> QED BY <1>1, <1>2, RouteLoginStep, Typed, PTL DEF ServeSpec

-----------------------------------------------------------------------------
(* The idle stop.                                                          *)

\* While the bridge is up with nothing open its clock is no older than the last
\* request; one that just stamped the clock finds it at the present.  What the
\* watcher sampled with a count of zero stays below the clock.
ClockInv ==
  /\ last <= now /\ busy <= now
  /\ \A s \in Clients : pc[s] \in Stamped => last = now
  /\ host = "up" /\ OpenSet = {} => busy <= last
  /\ host = "up" /\ watch.step = "last" => watch.busy <= last

LEMMA ClockStep ==
  ASSUME ServeTypeOK, FlightInv, ClockInv, [ServeNext]_serveVars
  PROVE  ClockInv'
<1> USE DEF ClockInv
<1>0. /\ now \in Nat /\ last \in Nat /\ busy \in Nat /\ watch.busy \in Nat
      /\ pc \in [Clients -> Steps]
  BY DEF ServeTypeOK
<1>1. ASSUME NEW s \in Clients, Want(s) \/ SendFails(s)
      PROVE  ClockInv'
  <2>1. OpenSet' = OpenSet
    BY <1>0, <1>1 DEF Want, SendFails, Goto, OpenSet, IsOpen
  <2> QED BY <1>0, <1>1, <2>1 DEF Want, SendFails, Goto, hostVars
<1>2. ASSUME NEW s \in Natives, Answer(s) \/ Enter(s) PROVE ClockInv'
  <2>1. OpenSet' = OpenSet
    BY <1>0, <1>2 DEF Answer, Enter, Goto, OpenSet, IsOpen
  <2> QED BY <1>0, <1>2, <2>1 DEF Answer, Enter, Goto, hostVars
<1>3. ASSUME NEW s \in Natives, Register(s) PROVE ClockInv'
  <2>1. UNCHANGED <<host, last, watch, now>>
    BY <1>3 DEF Register
  <2>2. CASE busy' = now /\ pc' = [pc EXCEPT ![s] = "counted"]
    <3>1. s \in OpenSet'
      BY <1>0, <2>2 DEF OpenSet, IsOpen
    <3> QED BY <1>0, <2>1, <2>2, <3>1
  <2>3. CASE busy' = busy /\ pc' = [pc EXCEPT ![s] = "help"]
    <3>1. OpenSet' = OpenSet
      BY <1>0, <1>3, <2>3 DEF Register, OpenSet, IsOpen
    <3> QED BY <1>0, <2>1, <2>3, <3>1
  <2> QED BY <1>3, <2>2, <2>3 DEF Register, Goto
<1>4. ASSUME NEW s \in Coders, FindRoute(s) \/ Login(s) \/ Insert(s)
      PROVE  ClockInv'
  <2>1. OpenSet' = OpenSet
    BY <1>0, <1>4 DEF FindRoute, Login, Insert, Goto, OpenSet, IsOpen
  <2> QED BY <1>0, <1>4, <2>1 DEF FindRoute, Login, Insert, Goto, hostVars
<1>5. ASSUME NEW s \in Clients, Help(s) PROVE ClockInv'
  <2>1. OpenSet' = OpenSet
    BY <1>0, <1>5 DEF Help, Goto, OpenSet, IsOpen
  <2>2. /\ UNCHANGED <<now, busy>> /\ pc[s] = "help"
        /\ pc' \in {[pc EXCEPT ![s] = "register"], [pc EXCEPT ![s] = "send"]}
    BY <1>5 DEF Help, Goto
  <2>3. CASE FreshHost
    BY <1>0, <2>1, <2>2, <2>3 DEF FreshHost, Asleep
  <2>4. CASE UNCHANGED <<hostVars, routeVars, forward>>
    BY <1>0, <2>1, <2>2, <2>4 DEF hostVars
  <2> QED BY <1>5, <2>3, <2>4 DEF Help
<1>6. ASSUME NEW s \in Clients, Send(s) PROVE ClockInv'
  <2>1. s \in OpenSet'
    BY <1>0, <1>6 DEF Send, Goto, OpenSet, IsOpen
  <2> QED BY <1>0, <1>6, <2>1 DEF Send, Goto
<1>7. ASSUME NEW s \in Clients, Begin(s) PROVE ClockInv'
  BY <1>0, <1>7 DEF Begin, Goto
<1>8. ASSUME NEW s \in Clients, End(s) PROVE ClockInv'
  <2>1. last' = now /\ busy' = now /\ UNCHANGED <<host, watch, now>>
    BY <1>0, <1>8 DEF End
  <2> QED BY <1>0, <1>8, <2>1
<1>9. CASE WatchFlight
  <2>1. inFlight <= 0 => OpenSet = {}
    BY OpenFinite DEF FlightInv
  <2>2. OpenSet' = OpenSet
    BY <1>9 DEF WatchFlight, sessionVars, OpenSet, IsOpen
  <2>3. CASE inFlight > 0
    BY <1>0, <1>9, <2>2, <2>3 DEF WatchFlight, sessionVars, Asleep
  <2>4. CASE ~(inFlight > 0)
    <3>1. watch'.busy = busy /\ busy <= last
      BY <1>9, <2>1, <2>4, OpenFinite DEF WatchFlight, FlightInv, ServeTypeOK
    <3> QED BY <1>0, <1>9, <2>2, <3>1 DEF WatchFlight, sessionVars
  <2> QED BY <2>3, <2>4
<1>10. CASE WatchTime \/ WatchLast \/ StopAsked
  <2>1. OpenSet' = OpenSet
    BY <1>10 DEF WatchTime, WatchLast, StopAsked, sessionVars, OpenSet, IsOpen
  <2>2. /\ UNCHANGED <<last, busy, now, pc>>
        /\ host' \in {host, "stopping"}
        /\ host' = "stopping" \/ watch'.step # "last"
    <3>1. CASE WatchTime
      BY <3>1 DEF WatchTime, sessionVars, ServeTypeOK
    <3>2. CASE WatchLast
      BY <3>2 DEF WatchLast, StopServing, sessionVars, Asleep
    <3>3. CASE StopAsked
      BY <3>3 DEF StopAsked, StopServing, sessionVars
    <3> QED BY <1>10, <3>1, <3>2, <3>3
  <2> QED BY <1>0, <2>1, <2>2
<1>11. CASE Tick
  <2>1. /\ now' = now + 1 /\ UNCHANGED <<host, last, watch, pc>> /\ OpenSet' = OpenSet
        /\ busy' = IF \E s \in Clients : IsOpen(s) THEN now' ELSE busy
        /\ \A s \in Clients : pc[s] \notin Stamped
    BY <1>11 DEF Tick, hostVars, sessionVars, OpenSet, IsOpen
  <2>2. OpenSet = {} => busy' = busy
    BY <2>1 DEF OpenSet
  <2> QED BY <1>0, <2>1, <2>2
<1>12. CASE ChangeKey
  BY <1>0, <1>12 DEF ChangeKey, hostVars, sessionVars, OpenSet, IsOpen
<1>13. CASE Exit \/ Crash
  <2>1. host' = "down" /\ UNCHANGED <<last, now, busy>>
    BY <1>13 DEF Exit, Crash, Down
  <2>2. \A s \in Clients : pc'[s] \notin Stamped
    BY <1>0, <1>13, Cut
  <2> QED BY <1>0, <2>1, <2>2
<1>14. CASE UNCHANGED serveVars
  BY <1>14 DEF serveVars, hostVars, sessionVars, OpenSet, IsOpen
<1> QED
  BY <1>1, <1>2, <1>3, <1>4, <1>5, <1>6, <1>7, <1>8, <1>9, <1>10, <1>11, <1>12, <1>13, <1>14
  DEF ServeNext, Asks, Forwards, Builds, Watch

\* The bridge goes idle only when nothing was in flight for IDLE_LIMIT before it
\* looked, although it loads the count and the clock at different times
\* (Activity, watch_idle).
THEOREM IdleIsIdle == ServeSpec => IdleStops
<1>1. ServeInit => ClockInv
  BY DEF ServeInit, ClockInv, Asleep
<1>2. ServeTypeOK /\ ClockInv /\ [ServeNext]_serveVars
        => (watch.step = "last" /\ watch'.step = "done" => watch.now - watch.busy >= Limit)
  <2> SUFFICES ASSUME ServeTypeOK, ClockInv, [ServeNext]_serveVars, watch.step = "last", watch'.step = "done"
               PROVE  watch.now - watch.busy >= Limit
    OBVIOUS
  <2>1. WatchLast
    <3>1. watch' # watch /\ watch' # Asleep
      BY DEF Asleep
    <3> QED
      BY <3>1 DEF ServeNext, Asks, Forwards, Builds, Want, Help, FreshHost, Send, SendFails, Begin, End, Register,
         Enter, Answer, FindRoute, Login, Insert, Watch, WatchTime, WatchFlight, StopAsked, Exit,
         Crash, Down, Tick, ChangeKey, hostVars, serveVars
  <2>2. host = "up" /\ watch.now - last >= Limit
    BY <2>1 DEF WatchLast, Asleep
  <2>3. watch.busy <= last /\ watch.busy \in Nat /\ watch.now \in Nat /\ last \in Nat
    BY <2>2 DEF ClockInv, ServeTypeOK
  <2> QED BY <2>2, <2>3
<1>3. ServeTypeOK /\ FlightInv /\ ClockInv /\ [ServeNext]_serveVars => ClockInv'
  BY ClockStep
<1> QED BY <1>1, <1>2, <1>3, Typed, PTL DEF ServeSpec, IdleStops
=============================================================================
