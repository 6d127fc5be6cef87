----------------------------- MODULE UsageRecord -----------------------------
(***************************************************************************)
(* One line of the ledger per request.  The upload, the wait for an answer *)
(* and the answer each hold a reference to a request's observation and     *)
(* race to close it: the first one decides the outcome and writes the      *)
(* record.  Several alc processes append to one ledger, and one may die in *)
(* the middle of a line.                                                   *)
(*                                                                         *)
(* A request is forwarded to a provider's own API ("forward"), or is a     *)
(* turn of chatgpt.com's ("codex") or of another upstream ("translated").  *)
(***************************************************************************)
EXTENDS Naturals, Sequences, FiniteSets

CONSTANTS
  Requests,  \* <<process, n>>: requests of an alc process
  ViasOf,    \* the vias each may take
  MaxTears   \* bound on lines cut short

Process(r) == r[1]
Vias == {"forward", "codex", "translated"}
ASSUME ViasAssumption == \A r \in Requests : ViasOf[r] \subseteq Vias
Forms == {"none", "sse", "json", "opaque"}
Outcomes == {"Completed", "Incomplete", "Failed", "Cancelled", "TimedOut", "Truncated"}

VARIABLES
  request,  \* the requests
  outcome,  \* how the observation of each was closed, "open" before
  first,    \* what came first of all that ends a request; for checking
  due,      \* closed, and not in the ledger yet
  ledger,   \* what was appended: whole lines, and lines cut short
  torn      \* the requests whose line was; for checking

recordVars == <<request, outcome, first, due, ledger, torn>>
recording == <<ledger, torn>>

RecordInit ==
  /\ request = [r \in Requests |-> [via |-> "forward", phase |-> "new", form |-> "none",
                                    uploading |-> FALSE, limited |-> FALSE]]
  /\ outcome = [r \in Requests |-> "open"]
  /\ first = [r \in Requests |-> "none"]
  /\ due = {} /\ ledger = <<>> /\ torn = {}

\* What each thing that ends a request says of it.
Meaning ==
  [completed |-> "Completed", incomplete |-> "Incomplete", failed |-> "Failed",
   whole |-> "Completed", unfinished |-> "Truncated", refused |-> "Failed",
   unreachable |-> "Failed", silent |-> "TimedOut", broken |-> "Truncated",
   upload |-> "Truncated", hungup |-> "Cancelled", garbled |-> "Cancelled",
   fails |-> "Failed"]

Happens(r, cause) ==
  first' = IF first[r] = "none" THEN [first EXCEPT ![r] = cause] ELSE first

\* finish_at: closed once, under the mutex; written after it is released.
Close(r, how) ==
  IF outcome[r] = "open"
    THEN outcome' = [outcome EXCEPT ![r] = how] /\ due' = due \cup {r}
    ELSE UNCHANGED <<outcome, due>>

\* Something ends the request and is told as such.
Closes(r, cause, how) == Happens(r, cause) /\ Close(r, how)
StaysOpen(r) == UNCHANGED <<first, outcome, due>>

Phase(r, phase) == request[r].phase = phase
Via(r, vias) == request[r].via \in vias
Moves(r, phase) == request' = [request EXCEPT ![r].phase = phase]

-----------------------------------------------------------------------------
Arrives(r) ==
  /\ Phase(r, "new")
  /\ \E via \in ViasOf[r] :
       request' = [request EXCEPT ![r].via = via, ![r].phase = "sent",
                                  ![r].uploading = via = "forward"]
  /\ StaysOpen(r) /\ UNCHANGED recording

\* The whole body has gone out: its model and tier are noted.
Uploaded(r) ==
  /\ request[r].uploading /\ request' = [request EXCEPT ![r].uploading = FALSE]
  /\ StaysOpen(r) /\ UNCHANGED recording

UploadBreaks(r) ==
  /\ request[r].uploading
  /\ request' = [request EXCEPT ![r].uploading = FALSE]
  /\ Closes(r, "upload", "Truncated") /\ UNCHANGED recording

NotSent(r) ==
  /\ Phase(r, "sent")
  /\ request' = [request EXCEPT ![r].phase = "over", ![r].uploading = FALSE]
  /\ \E cause \in {"unreachable", "silent"} : Closes(r, cause, Meaning[cause])
  /\ UNCHANGED recording

\* finish: what the end of a whole answer says.  A stream that told no
\* ending is a truncated one, and a stream that is not inspected any more
\* tells none; an answer nobody can look into is taken at its word.
EndsAs(form) == IF form = "sse" THEN "unfinished" ELSE "whole"

Answered(r) ==
  /\ Phase(r, "sent")
  /\ \/ \E form \in {"sse", "json", "opaque"} :
          /\ Via(r, {"forward"}) \/ form = "sse"
          /\ request' = [request EXCEPT ![r].phase = "body", ![r].form = form]
          /\ StaysOpen(r)
     \/ \E form \in {"sse", "json", "opaque"} :
          /\ Via(r, {"forward"})
          /\ request' = [request EXCEPT ![r].phase = "ended", ![r].form = form]
          /\ Closes(r, EndsAs(form), Meaning[EndsAs(form)])
     \/ \E phase \in {"body", "over"} :
          /\ phase = "over" => ~Via(r, {"forward"})
          /\ request' = [request EXCEPT ![r].phase = phase, ![r].form = "opaque"]
          /\ Closes(r, "refused", "Failed")
  /\ UNCHANGED recording

\* A frame with an ending in it, or a JSON answer that is all there.
Tells(r) ==
  /\ Phase(r, "body") /\ request[r].form = "sse" /\ ~request[r].limited
  /\ \E told \in {"completed", "incomplete", "failed"} :
       /\ Closes(r, told, Meaning[told])
       /\ \/ UNCHANGED request
          \/ ~Via(r, {"forward"}) /\ Moves(r, "over")
  /\ UNCHANGED recording

Limited(r) ==
  /\ Phase(r, "body") /\ request[r].form = "sse" /\ Via(r, {"forward", "codex"})
  /\ ~request[r].limited /\ request' = [request EXCEPT ![r].limited = TRUE]
  /\ StaysOpen(r) /\ UNCHANGED recording

\* End of stream, or the last byte of a known length.  What is parsed of a
\* JSON answer may call it incomplete or failed.
BodyEnds(r) ==
  /\ Phase(r, "body")
  /\ \/ Closes(r, EndsAs(request[r].form), Meaning[EndsAs(request[r].form)])
     \/ request[r].form = "json"
        /\ \E told \in {"incomplete", "failed"} : Closes(r, told, Meaning[told])
  /\ ~Via(r, {"translated"})
  /\ Moves(r, "ended") /\ UNCHANGED recording

Breaks(r) ==
  /\ Phase(r, "body")
  /\ \/ Via(r, {"forward", "codex"}) /\ Closes(r, "broken", "Truncated")
     \/ Via(r, {"codex", "translated"}) /\ Closes(r, "silent", "TimedOut")
     \/ Via(r, {"translated"}) /\ Closes(r, "fails", "Failed")
  /\ Moves(r, "over") /\ UNCHANGED recording

\* chatgpt.com sends a frame that is not JSON, or its [DONE]: the turn is
\* over, and dropping the observation closes it.
Garbled(r) ==
  /\ Phase(r, "body") /\ Via(r, {"codex"}) /\ request[r].form = "sse"
  /\ Closes(r, "garbled", "Cancelled")
  /\ Moves(r, "over") /\ UNCHANGED recording

HangsUpUnguarded(r) ==
  /\ request[r].phase \in {"sent", "body", "ended"}
  /\ IF Phase(r, "body") THEN Closes(r, "hungup", "Cancelled") ELSE StaysOpen(r)
  /\ Moves(r, "over") /\ UNCHANGED recording

\* The client hangs up.  Before the answer DispatchGuard closes the request,
\* although the upload that is still held refers to it; afterwards the
\* answer does, unless it has ended.
HangsUp(r) ==
  /\ request[r].phase \in {"sent", "body", "ended"}
  /\ IF Phase(r, "ended") THEN StaysOpen(r) ELSE Closes(r, "hungup", "Cancelled")
  /\ Moves(r, "over") /\ UNCHANGED recording

-----------------------------------------------------------------------------
Writing(r) == r \in due /\ due' = due \ {r} /\ UNCHANGED <<request, outcome, first>>

Puts(r, piece) == ledger' = Append(ledger, [request |-> r, outcome |-> outcome[r], piece |-> piece])

AppendsBare(r) == Writing(r) /\ Puts(r, "bare") /\ UNCHANGED torn

\* append: one write_all of one line.
Appends(r) == Writing(r) /\ Puts(r, "line") /\ UNCHANGED torn

\* The disk is full, or the process dies: some of the line is there, or all of
\* it but the end of the line.
Tears(r) ==
  /\ Cardinality(torn) < MaxTears /\ torn' = torn \cup {r}
  /\ Writing(r) /\ \E piece \in {"part", "bare"} : Puts(r, piece)

\* A process dies: what it has not written is lost with it.
Dies(p) ==
  /\ \E r \in Requests : Process(r) = p /\ (request[r].phase \notin {"new", "over"} \/ r \in due)
  /\ request' = [r \in Requests |->
       IF Process(r) = p THEN [request[r] EXCEPT !.phase = "dead", !.uploading = FALSE] ELSE request[r]]
  /\ due' = {r \in due : Process(r) # p}
  /\ UNCHANGED <<outcome, first, recording>>

RecordNext ==
  \/ \E r \in Requests :
       \/ Arrives(r) \/ Uploaded(r) \/ UploadBreaks(r) \/ NotSent(r) \/ Answered(r)
       \/ Tells(r) \/ Limited(r) \/ BodyEnds(r) \/ Breaks(r) \/ Garbled(r) \/ HangsUp(r)
       \/ Appends(r) \/ Tears(r)
  \/ \E p \in {Process(r) : r \in Requests} : Dies(p)

RecordSpec == RecordInit /\ [][RecordNext]_recordVars

-----------------------------------------------------------------------------
\* read_records: what is between two ends of line is one record or is skipped.
Reads(k) ==
  /\ k = 1 \/ ledger[k - 1].piece = "line"
  /\ \/ ledger[k].piece = "line"
     \/ ledger[k].piece = "bare" /\ k = Len(ledger)
ReadBack == {k \in 1..Len(ledger) : Reads(k)}

\* Requests are in a phase of theirs, and closed once they are written.
RecordTypeOK ==
  /\ request \in [Requests -> [via : Vias, phase : {"new", "sent", "body", "ended", "over", "dead"},
                               form : Forms, uploading : BOOLEAN, limited : BOOLEAN]]
  /\ outcome \in [Requests -> Outcomes \cup {"open"}]
  /\ first \in [Requests -> DOMAIN Meaning \cup {"none"}]
  /\ due \subseteq {r \in Requests : outcome[r] # "open"} /\ torn \subseteq Requests
  /\ \A k \in 1..Len(ledger) : ledger[k].piece \in {"line", "part", "bare"}

RecordsOf(r) ==
  Cardinality({k \in 1..Len(ledger) : ledger[k].request = r}) + (IF r \in due THEN 1 ELSE 0)

\* However the upload, the answer and the client end, and in whatever order,
\* a request is recorded once, as soon as nobody reads its answer any more,
\* with what ended it first.
OneHonestRecord ==
  \A r \in Requests :
    /\ RecordsOf(r) <= 1
    /\ outcome[r] # "open" => outcome[r] = Meaning[first[r]]
    /\ request[r].phase \in {"ended", "over"} => outcome[r] # "open" /\ RecordsOf(r) = 1

\* A line cut short takes at most the line behind it with it: every record
\* whose line was written is read back, unless it follows a torn one.
RecordsSurvive ==
  LET written == {k \in 1..Len(ledger) : ledger[k].request \notin torn} IN
  Cardinality(written \ ReadBack) <= Cardinality(torn)

\* The ledger tells the truth: each request is in it once and as it ended, and
\* what another process left half written hides at most one record.
LedgerTrue == OneHonestRecord /\ RecordsSurvive
=============================================================================
