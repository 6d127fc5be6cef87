---------------------------- MODULE UsageReading ----------------------------
(***************************************************************************)
(* `alc usage` adds up the tokens of three sources that overlap: alc's own *)
(* ledger, the rollout files Codex keeps and the transcripts of Claude     *)
(* Code.  None of them was made for it.  A rollout may tell every response *)
(* (a request row), only a running total, or both; totals are repeated,    *)
(* start again and are overwritten; files are copied, resumed and forked;  *)
(* a message is in a transcript once per content block, still growing.     *)
(*                                                                         *)
(* The actions are what the agents write, one row at a time; the reader is *)
(* a function of it.  A response is its number in spent.                   *)
(*                                                                         *)
(* FoldSessionEach is a mistake the code does not make; it stands before   *)
(* the definition it would replace.                                        *)
(***************************************************************************)
EXTENDS Naturals, Sequences, FiniteSets, FiniteSetsExt, SequencesExt

CONSTANTS
  Models,
  MaxWritten,  \* bound on rows and responses
  MaxOdd,      \* bound on what goes wrong, and on copies
  Window       \* a context window, larger than any total

None == "none"

VARIABLES
  agent,       \* whose history: "codex" or "claude"
  carried,     \* alc started the agent and carries its responses
  files,       \* Codex: rollouts, in the order of their paths
  transcript,  \* Claude Code: rows, in the order they are read
  ledger,      \* responses that went through alc
  spent,       \* what each response cost; for checking
  written, odd,
  misled       \* the row that tells of another model was lost; for checking

vars == <<agent, carried, files, transcript, ledger, spent, written, odd, misled>>

Zero == [used |-> 0, total |-> 0]

First == CHOOSE model \in Models : TRUE
\* How a rollout usually begins; an older one may not.
Beginning == << [kind |-> "context", at |-> 0, model |-> First, turn |-> 0],
                [kind |-> "total", at |-> 0, count |-> Zero] >>

Init ==
  /\ agent \in {"codex", "claude"} /\ carried \in BOOLEAN
  /\ IF agent = "codex"
       THEN \E rows \in {<<>>, Beginning} :
              files = << [session |-> "a", forked |-> FALSE, start |-> 0, conflict |-> FALSE,
                          rows |-> rows, turn |-> 0, count |-> Zero,
                          model |-> IF rows = <<>> THEN None ELSE First] >>
       ELSE files = <<>>
  /\ transcript = <<>> /\ ledger = {} /\ spent = <<>>
  /\ written = 0 /\ odd = 0 /\ misled = FALSE

-----------------------------------------------------------------------------
(* Codex writes rollouts.  A row is known by when it was written.          *)

Puts(f, new, rows) ==
  /\ written < MaxWritten /\ written' = written + 1
  /\ files' = [files EXCEPT ![f] = [new EXCEPT !.rows = @ \o rows]]

\* A row that was cut short by a crash cannot be read.
Torn(row) == [kind |-> "gap", at |-> row.at]
Writes(f, new, row) ==
  \/ Puts(f, new, <<row>>) /\ UNCHANGED <<odd, misled>>
  \/ /\ odd < MaxOdd /\ odd' = odd + 1 /\ Puts(f, new, <<Torn(row)>>)
     /\ misled' = (misled \/ row.kind = "context")

TurnBegins(f) ==
  /\ \E model \in Models :
       Writes(f, [files[f] EXCEPT !.model = model, !.turn = written + 1],
              [kind |-> "context", at |-> written + 1, model |-> model, turn |-> written + 1])
  /\ UNCHANGED <<agent, carried, transcript, ledger, spent>>

Spends(model, used, request, shows) ==
  spent' = Append(spent, [model |-> model, used |-> used, request |-> request, shows |-> shows])
\* Only the thread alc started goes through it, not what becomes of a copy.
Through(f) == ledger' = IF carried /\ f = 1 THEN ledger \cup {Len(spent) + 1} ELSE ledger
Grown(count) == [used |-> count.used + 1, total |-> count.total + 1]

\* In a turn.  A version of Codex tells every response, or does not.
Responds(f) ==
  LET new == [files[f] EXCEPT !.count = Grown(@)] IN
  /\ files[f].model # None
  /\ Spends(files[f].model, 1, 0, {}) /\ Through(f)
  /\ \/ Puts(f, new, <<>>) /\ UNCHANGED <<odd, misled>>
     \/ Writes(f, new, [kind |-> "request", at |-> written + 1, response |-> Len(spent) + 1,
                        turn |-> new.turn, used |-> 1, count |-> new.count])
  /\ UNCHANGED <<agent, carried, transcript>>

\* A total is written after responses, and again when quotas change.
Totals(f) ==
  /\ Writes(f, files[f], [kind |-> "total", at |-> written + 1, count |-> files[f].count])
  /\ UNCHANGED <<agent, carried, transcript, ledger, spent>>

Odd == odd < MaxOdd /\ odd' = odd + 1 /\ UNCHANGED <<agent, carried, transcript, ledger, spent, misled>>

\* fill_to_context_window overwrites the total; a resumed thread may begin
\* its total again.
Recounts(f) ==
  /\ Odd /\ \E count \in {Zero, [used |-> 0, total |-> Window]} :
       count # files[f].count /\ files' = [files EXCEPT ![f].count = count]
  /\ UNCHANGED written

\* A file is archived or copied, whole or in part, and may be resumed as the
\* same session, from the last total in it and with a turn of its own; or its
\* history begins a fork, which may say where its own rows begin, and may
\* repeat the session_meta of its parent; or the copy's own session_meta
\* cannot be read.
Copies(f) ==
  /\ Odd /\ Len(files) = 1
  /\ \E n \in 0..Len(files[f].rows) :
       LET rows == SubSeq(files[f].rows, 1, n)
           totals == SelectSeq(rows, LAMBDA row : row.kind = "total")
           copy == [files[f] EXCEPT !.rows = rows, !.model = None,
                                    !.count = IF totals = <<>> THEN Zero ELSE Last(totals).count]
           fork == [copy EXCEPT !.session = "b", !.forked = TRUE]
       IN \E file \in {copy, [copy EXCEPT !.session = None], fork, [fork EXCEPT !.conflict = TRUE],
                       [fork EXCEPT !.start = n + 1]} :
            files' = Append(files, file)
  /\ UNCHANGED written

-----------------------------------------------------------------------------
(* Claude Code writes transcripts: a row for each content block, the last  *)
(* of which has the stop_reason and the whole usage.                       *)

\* A message's rows may lack one of its two ids, always the same one.
Shown == {{"both", "message"}, {"both", "request"}}

Asks ==
  /\ agent = "claude" /\ written < MaxWritten /\ written' = written + 1
  /\ \E model \in Models, shows \in Shown :
       \/ Spends(model, 2, Len(spent) + 1, shows) /\ UNCHANGED odd
       \/ /\ odd < MaxOdd /\ odd' = odd + 1 /\ spent # <<>>
          /\ Spends(model, 2, Last(spent).request, shows)
  /\ Through(1) /\ UNCHANGED <<agent, carried, files, transcript, misled>>

Tells(k) ==
  /\ agent = "claude" /\ written < MaxWritten /\ written' = written + 1
  /\ \A n \in 1..Len(transcript) : transcript[n].of = k => ~transcript[n].final
  /\ \E final \in BOOLEAN, shown \in spent[k].shows :
       transcript' = Append(transcript,
         [of |-> k, at |-> written + 1, final |-> final, used |-> IF final THEN 2 ELSE 1,
          message |-> IF shown = "request" THEN 0 ELSE k,
          request |-> IF shown = "message" THEN 0 ELSE spent[k].request, model |-> spent[k].model])
  /\ UNCHANGED <<agent, carried, files, ledger, spent, odd, misled>>

\* Another session's file, read before or after, begins with a copied row.
Repeats(n) ==
  /\ odd < MaxOdd /\ odd' = odd + 1
  /\ transcript' \in {<<transcript[n]>> \o transcript, Append(transcript, transcript[n])}
  /\ UNCHANGED <<agent, carried, files, ledger, spent, written, misled>>

Next ==
  \/ \E f \in 1..Len(files) : TurnBegins(f) \/ Responds(f) \/ Totals(f) \/ Recounts(f) \/ Copies(f)
  \/ Asks \/ \E k \in 1..Len(spent) : Tells(k)
  \/ \E n \in 1..Len(transcript) : Repeats(n)

Spec == Init /\ [][Next]_vars

-----------------------------------------------------------------------------
(* read_codex.                                                             *)

Has(file, kind) == \E n \in 1..Len(file.rows) : file.rows[n].kind = kind

\* A record of usage, for a source, with the ids it is known by.  The reader
\* collects records in a list: the row one was made from tells it from others.
Record(source, granularity, ids, model, used, at, from) ==
  [source |-> source, granularity |-> granularity, ids |-> ids, model |-> model,
   used |-> used, at |-> at, from |-> from]

Delta(count, previous) ==
  IF previous = <<>> \/ count.used < previous[1].used \/ count.total < previous[1].total
    THEN <<>>
    ELSE << [used |-> count.used - previous[1].used, total |-> count.total - previous[1].total] >>

ArtificialTotal(count) == count.total > 0 /\ count.used = 0

Artless == [model |-> None, previous |-> <<>>, baseline |-> None, changed |-> FALSE,
            gap |-> FALSE, pending |-> <<>>, endpoint |-> <<>>, artificial |-> FALSE,
            records |-> {}, requests |-> {}]

\* The total a row tells is what the next one is compared with.
Rebased(s, count) ==
  [s EXCEPT !.previous = <<count>>, !.baseline = s.model, !.changed = FALSE, !.gap = FALSE,
            !.pending = <<>>, !.endpoint = <<>>, !.artificial = ArtificialTotal(count)]

\* The responses told since the last total make up the difference.
Reconciled(s, count) ==
  LET delta == Delta(count, s.previous) IN
  /\ s.pending # <<>> /\ s.endpoint = <<count>> /\ delta # <<>>
  /\ ~ArtificialTotal(count) /\ ~s.artificial /\ ~s.gap
  /\ delta[1].used = FoldLeft(LAMBDA sum, used : sum + used, 0, s.pending)
  /\ delta[1].total = delta[1].used

\* Reasons for which the difference between two totals is nobody's.
Doubtful(s, file, overlapping, n, count) ==
  LET delta == Delta(count, s.previous)
      owned == ~file.forked \/ (file.start > 0 /\ n >= file.start)
  IN \/ file.conflict \/ overlapping \/ file.session = None
     \/ s.gap \/ ~owned
     \/ ArtificialTotal(count) \/ s.artificial
     \/ Has(file, "request")
     \/ delta = <<>>
     \/ s.changed \/ s.baseline # s.model
     \/ delta # <<>> /\ delta[1].used = 0 /\ delta[1].total > 0

ReadTotal(s, f, overlapping, n) ==
  LET file == files[f]
      row == file.rows[n]
      doubtful == Doubtful(s, file, overlapping, n, row.count)
      granularity == IF doubtful THEN "checkpoint" ELSE "delta"
      used == IF doubtful THEN row.count.used ELSE Delta(row.count, s.previous)[1].used
      model == IF doubtful THEN None ELSE s.model
      record == Record("codex", granularity, {}, model, used, row.at, <<"rollout", f, n>>)
  IN IF s.previous = <<row.count>>
       THEN [s EXCEPT !.baseline = s.model, !.changed = FALSE]
     ELSE IF (s.previous = <<>> /\ row.count = Zero) \/ Reconciled(s, row.count)
            \/ (~doubtful /\ used = 0)
       THEN Rebased(s, row.count)
     ELSE [Rebased(s, row.count) EXCEPT !.records = @ \cup {record}]

\* The model of a turn, as its turn_context row has it.
TurnModel(file, turn) ==
  LET told == {file.rows[n].model : n \in {m \in 1..Len(file.rows) :
                 file.rows[m].kind = "context" /\ file.rows[m].turn = turn}}
  IN IF Cardinality(told) = 1 /\ ~file.conflict THEN CHOOSE model \in told : TRUE ELSE None

ReadRequest(s, f, n) ==
  LET row == files[f].rows[n] IN
  [s EXCEPT !.pending = Append(@, row.used), !.endpoint = <<row.count>>,
            !.requests = @ \cup {Record("codex", "request", {<<"responses", row.response>>},
                                        TurnModel(files[f], row.turn), row.used, row.at, <<"rollout", f, n>>)}]

FoldCodex(f, overlapping) ==
  FoldLeft(LAMBDA s, n :
             LET row == files[f].rows[n] IN
             CASE row.kind = "gap" -> [s EXCEPT !.gap = TRUE]
               [] row.kind = "context" ->
                    [s EXCEPT !.model = row.model,
                              !.changed = @ \/ (s.previous # <<>> /\ s.model # row.model)]
               [] row.kind = "request" -> ReadRequest(s, f, n)
               [] row.kind = "total" -> ReadTotal(s, f, overlapping, n),
           Artless, [n \in 1..Len(files[f].rows) |-> n])

\* Of compatible copies of one session the longest is read, and its totals
\* are trusted.
Longest(same) == CHOOSE f \in same : \A g \in same :
  \/ Len(files[f].rows) > Len(files[g].rows)
  \/ Len(files[f].rows) = Len(files[g].rows) /\ f <= g
Compatible(same) == \A f \in same : IsPrefix(files[f].rows, files[Longest(same)].rows)

FoldSessionEach(session) ==
  LET same == {f \in 1..Len(files) : files[f].session = session} IN
  IF same = {} THEN {}
  ELSE IF session # None /\ Compatible(same) THEN {FoldCodex(f, FALSE) : f \in same}
  ELSE {FoldCodex(f, TRUE) : f \in same}

FoldSession(session) ==
  LET same == {f \in 1..Len(files) : files[f].session = session} IN
  IF same = {} THEN {}
  ELSE IF session # None /\ Compatible(same) THEN {FoldCodex(Longest(same), FALSE)}
  ELSE {FoldCodex(f, TRUE) : f \in same}

\* insert_codex_request: copies of a response are one, the earliest; one that
\* knows its model tells the others, unless another disagrees.
InsertCodexRequests(requests) ==
  LET Copied(ids) == {r \in requests : r.ids = ids}
      Told(ids) == {r.model : r \in Copied(ids)} \ {None}
  IN {[CHOOSE r \in Copied(ids) : \A s \in Copied(ids) : r.at <= s.at EXCEPT
         !.model = IF Cardinality(Told(ids)) = 1 THEN CHOOSE model \in Told(ids) : TRUE ELSE None]
      : ids \in {r.ids : r \in requests}}

ReadCodex ==
  LET folds == UNION {FoldSession(session) : session \in {"a", "b", None}} IN
  UNION {fold.records : fold \in folds}
    \cup InsertCodexRequests(UNION {fold.requests : fold \in folds})

-----------------------------------------------------------------------------
(* read_claude.                                                            *)

\* The messages a request is known to have answered with.
RequestMessages(request) ==
  {row.message : row \in {r \in ToSet(transcript) : r.request = request}} \ {0}

MessageId(row) ==
  IF row.message # 0 THEN row.message
  ELSE IF Cardinality(RequestMessages(row.request)) = 1
    THEN CHOOSE id \in RequestMessages(row.request) : TRUE
  ELSE 0

Identified(row) == MessageId(row) # 0 \/ RequestMessages(row.request) = {}
Key(row) == IF MessageId(row) # 0 THEN <<"messages", MessageId(row)>>
                                  ELSE <<"claude-request", row.request>>
Ids(row) ==
  {Key(row)} \cup IF row.request # 0 /\ Cardinality(RequestMessages(row.request)) <= 1
                    THEN {<<"claude-request", row.request>>} ELSE {}

\* insert_claude: the latest row wins, a final one over any other, and copies
\* that disagree on the model have none.
InsertClaude(previous, row) ==
  LET conflict == previous.conflict \/ previous.model # row.model
      replace == IF row.final = previous.final THEN row.at >= previous.at ELSE row.final
      newest == IF replace THEN row ELSE previous
  IN [final |-> newest.final, at |-> newest.at, used |-> newest.used,
      model |-> IF conflict THEN None ELSE row.model,
      ids |-> previous.ids \cup Ids(row), conflict |-> conflict]

ReadClaude ==
  LET Same(key) == SelectSeq(transcript, LAMBDA row : Identified(row) /\ Key(row) = key)
      Opened(row) == [final |-> row.final, at |-> row.at, used |-> row.used, model |-> row.model,
                     ids |-> Ids(row), conflict |-> FALSE]
      Merged(key) == FoldLeft(InsertClaude, Opened(Head(Same(key))), Tail(Same(key)))
      Made(key) == LET m == Merged(key) IN Record("claude", "request", m.ids, m.model, m.used, m.at, key)
      Doubted(n) == LET row == transcript[n] IN
                    Record("claude", "checkpoint", {}, row.model, row.used, row.at, <<"row", n>>)
      identified == {n \in 1..Len(transcript) : Identified(transcript[n])}
  IN {Made(key) : key \in {Key(transcript[n]) : n \in identified}}
     \cup {Doubted(n) : n \in 1..Len(transcript) \ identified}

-----------------------------------------------------------------------------
(* alc usage: the three sources together.                                  *)

ReadLedger ==
  {Record("alc", "request", {<<IF agent = "codex" THEN "responses" ELSE "messages", k>>},
          spent[k].model, spent[k].used, k, <<"line", k>>) : k \in ledger}

ReadNative == IF agent = "codex" THEN ReadCodex ELSE ReadClaude

\* What shares an id, directly or through others, is one request.
Group(record, records) ==
  IF record.ids = {} THEN {record}
  ELSE FoldLeft(LAMBDA group, n : {r \in records : \E s \in group : r = s \/ r.ids \cap s.ids # {}},
                {record}, [n \in 1..Cardinality(records) |-> n])

Rank(record) ==
  (IF record.source = "alc" THEN 0 ELSE 10)
    + CASE record.granularity = "request" -> 0 [] record.granularity = "delta" -> 1
        [] record.granularity = "checkpoint" -> 2

Reconcile(records) ==
  {[record |-> CHOOSE r \in group : \A s \in group :
                 Rank(r) < Rank(s) \/ (Rank(r) = Rank(s) /\ r.at <= s.at),
    provenance |-> {r.source : r \in group}] : group \in {Group(r, records) : r \in records}}

\* A row that some other source of the agent might have as well.
HasOverlap(row, rows) == UNION {r.provenance : r \in rows} \ row.provenance # {}

\* effective_tokens: a checkpoint counts for nothing.
EffectiveTokens(record) == IF record.granularity = "checkpoint" THEN 0 ELSE record.used

-----------------------------------------------------------------------------
\* Histories are what the agents can write.
TypeOK ==
  /\ written <= MaxWritten /\ odd <= MaxOdd
  /\ ledger \subseteq 1..Len(spent)
  /\ \A f \in 1..Len(files) : files[f].count.used <= files[f].count.total
  /\ \A n \in 1..Len(transcript) : transcript[n].of \in 1..Len(spent)

Counted(records, models) ==
  MapThenSumSet(EffectiveTokens, {r \in records : r.model \in models})
Spent(models) ==
  FoldLeft(LAMBDA sum, s : IF s.model \in models THEN sum + s.used ELSE sum, 0, spent)

\* No token is counted twice, and none for a model that another one used,
\* unless the row that said so was lost.
Within(records) ==
  /\ Counted(records, Models \cup {None}) <= Spent(Models \cup {None})
  /\ misled \/ \A model \in Models : Counted(records, {model}) <= Spent({model})

\* A response that a rollout tells, or a message whose last row is there, is
\* counted with all it cost.
Told(k) ==
  IF agent = "codex"
    THEN \E f \in 1..Len(files) : \E n \in 1..Len(files[f].rows) :
           files[f].rows[n].kind = "request" /\ files[f].rows[n].response = k
    ELSE /\ \A m \in 1..Len(spent) : spent[m].request = spent[k].request => m = k
         /\ \E n \in 1..Len(transcript) : transcript[n].of = k /\ transcript[n].final
                                          /\ transcript[n].message = k

\* However the histories were copied, forked, resumed, torn and told twice,
\* the tokens counted are tokens spent, once; so are those of all sources
\* together, unless the report says that they may overlap.
CountedOnce ==
  LET native == ReadNative
      rows == Reconcile(ReadLedger \cup native)
  IN
  /\ Within(native)
  /\ (\A row \in rows : ~HasOverlap(row, rows)) => Within({row.record : row \in rows})
  /\ \A k \in 1..Len(spent) : Told(k) =>
       \E r \in native : \E id \in r.ids : id[2] = k /\ EffectiveTokens(r) = spent[k].used
=============================================================================
