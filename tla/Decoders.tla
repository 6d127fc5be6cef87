------------------------------ MODULE Decoders ------------------------------
(***************************************************************************)
(* Two decoders that are fed a live stream in the pieces it comes in:      *)
(* Utf8Chunker makes text of a terminal's output for the screen, and       *)
(* SseDecoder makes frames of an answer from upstream.  Each keeps what    *)
(* the next piece may complete, and neither may let the places where the   *)
(* stream was cut show in what it says.                                    *)
(***************************************************************************)
EXTENDS ByteStreams, FiniteSets, FiniteSetsExt, SequencesExt, TLC

CONSTANTS
  MaxChunk,   \* bound on the length of a piece
  MaxInput    \* bound on the length of a stream, for each decoder

Decoder == {"chunker", "sse"}

\* What streams are made of.  "2", "3" and "4" begin a character of so many
\* bytes, "c" goes on with one, "x" is in none.  "d" and "e" stand for the
\* field and value of a data: and of an event: line.
Bytes == [chunker |-> {"a", "2", "3", "4", "c", "x"}, sse |-> {"d", "e", "r", "n"}]

VARIABLES
  decoder,  \* which one
  input,    \* the stream so far
  buffer,   \* held back: buffer, carry
  scanned,  \* how much of it holds no boundary
  output,   \* what was let out
  ended

vars == <<decoder, input, buffer, scanned, output, ended>>

Init ==
  /\ decoder \in Decoder
  /\ input = <<>> /\ buffer = <<>> /\ scanned = 0 /\ output = <<>> /\ ended = FALSE

-----------------------------------------------------------------------------
(* Utf8Chunker.                                                            *)

Need == "a" :> 0 @@ "2" :> 1 @@ "3" :> 2 @@ "4" :> 3
Lead(byte) == byte \in DOMAIN Need

\* How many bytes from the n-th on go on with the character begun there.
Run(bytes, n) ==
  Max({m \in 0..Need[bytes[n]] :
        n + m <= Len(bytes) /\ \A k \in n + 1..n + m : bytes[k] = "c"})

\* valid_up_to and error_len, one character after another.  What the bytes
\* run out in is carried.
RECURSIVE Decode(_, _)
Decode(bytes, text) ==
  IF bytes = <<>> THEN [out |-> text, keep |-> <<>>, scanned |-> 0]
  ELSE IF ~Lead(bytes[1]) THEN Decode(Tail(bytes), Append(text, "?"))
  ELSE LET length == Run(bytes, 1) + 1
           whole == length > Need[bytes[1]]
       IN IF ~whole /\ length = Len(bytes)
            THEN [out |-> text, keep |-> bytes, scanned |-> 0]
            ELSE Decode(From(bytes, length + 1), Append(text, IF whole THEN bytes[1] ELSE "?"))

-----------------------------------------------------------------------------
(* SseDecoder.                                                             *)

Lines(body) ==
  FoldLeft(LAMBDA lines, byte :
             IF byte = "n" THEN Append(lines, <<>>)
                           ELSE [lines EXCEPT ![Len(lines)] = Append(@, byte)],
           << <<>> >>, body)

Stripped(line) == IF line # <<>> /\ Last(line) = "r" THEN Front(line) ELSE line

\* A blank line ends a frame and forgets its event; a frame needs data.
ParseSse(body) ==
  LET none == [event |-> <<>>, data |-> <<>>]
      Dispatch(p) == IF p.open.data = <<>> THEN p.frames ELSE Append(p.frames, p.open)
      Reads(p, raw) ==
        LET line == Stripped(raw) IN
        IF line = <<>> THEN [frames |-> Dispatch(p), open |-> none]
        ELSE IF line[1] = "e" THEN [p EXCEPT !.open.event = line]
        ELSE IF line[1] = "d" THEN [p EXCEPT !.open.data = Append(@, line)]
        ELSE p
  IN Dispatch(FoldLeft(Reads, [frames |-> <<>>, open |-> none], Lines(body)))

\* The ends of the first frame and of the blank line behind it.
FrameBoundaries(bytes) == Found(<<"n", "n">>, bytes) \cup Found(<<"n", "r", "n">>, bytes)

RECURSIVE Split(_, _, _)
Split(bytes, from, frames) ==
  LET ends == FrameBoundaries(From(bytes, from + 1)) IN
  IF ends = {} THEN [out |-> frames, keep |-> bytes, scanned |-> Max({Len(bytes), 2}) - 2]
  ELSE LET first == CHOOSE e \in ends : \A f \in ends : e[1] <= f[1] IN
       Split(From(bytes, from + first[2] + 1), 0, frames \o ParseSse(Upto(bytes, from + first[1])))

-----------------------------------------------------------------------------
DecodedOnlyNew(chunk) ==
  CASE decoder = "chunker" -> Decode(buffer \o chunk, <<>>)
    [] decoder = "sse" -> Split(buffer \o chunk, Len(buffer), <<>>)

Decoded(chunk) ==
  CASE decoder = "chunker" -> Decode(buffer \o chunk, <<>>)
    [] decoder = "sse" -> Split(buffer \o chunk, scanned, <<>>)

Push ==
  /\ ~ended
  /\ \E chunk \in Strings(Bytes[decoder], 1, MaxChunk) :
       /\ Len(input) + Len(chunk) <= MaxInput[decoder]
       /\ LET decoded == Decoded(chunk) IN
            /\ output' = output \o decoded.out
            /\ buffer' = decoded.keep /\ scanned' = decoded.scanned
       /\ input' = input \o chunk
  /\ UNCHANGED <<decoder, ended>>

\* flush and finish: what is held back is let out as it is.
Flush ==
  /\ ~ended /\ ended' = TRUE
  /\ output' = output \o CASE decoder = "chunker" -> IF buffer = <<>> THEN <<>> ELSE <<"?">>
                           [] decoder = "sse" -> IF buffer = <<>> THEN <<>> ELSE ParseSse(buffer)
  /\ buffer' = <<>> /\ scanned' = 0
  /\ UNCHANGED <<decoder, input>>

Next == Push \/ Flush

Spec == Init /\ [][Next]_vars

-----------------------------------------------------------------------------
\* What is held back is the end of the stream, and was searched as far as said.
TypeOK ==
  /\ input \in Seq(Bytes[decoder]) /\ Len(input) <= MaxInput[decoder]
  /\ ~ended => buffer = From(input, Len(input) - Len(buffer) + 1)
  /\ scanned \in 0..Len(buffer)

\* Text as the whole stream has it: a byte that no character before it takes
\* begins one of its own, or something unreadable.
Text(bytes) ==
  LET Taken(n) == \E m \in 1..n - 1 : Lead(bytes[m]) /\ n <= m + Run(bytes, m)
      Said(n) == IF Lead(bytes[n]) /\ Run(bytes, n) = Need[bytes[n]] THEN bytes[n] ELSE "?"
      starts == SelectSeq([n \in 1..Len(bytes) |-> n], LAMBDA n : ~Taken(n))
  IN [k \in 1..Len(starts) |-> Said(starts[k])]

Whole(bytes) ==
  CASE decoder = "chunker" -> Text(bytes)
    [] decoder = "sse" -> ParseSse(bytes)

\* Wherever a stream is cut into pieces, also while it goes on, what is let
\* out is what the whole stream says: no character lost, no frame missed.  And
\* nothing waits that could be told: one character that goes on at most, and
\* no frame behind which a blank line has come.
ChunkingUnseen ==
  LET told == Max({0} \cup {e[2] : e \in FrameBoundaries(input)})
  IN IF ended THEN output = Whole(input)
     ELSE CASE decoder = "chunker" ->
                 IsPrefix(output, Text(input)) /\ Len(Text(input)) <= Len(output) + 1
            [] decoder = "sse" -> output = ParseSse(Upto(input, told))
=============================================================================
