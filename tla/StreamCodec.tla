----------------------------- MODULE StreamCodec ------------------------------
(***************************************************************************)
(* The loops around the streaming decoders of zlib, bzip2, liblzma, lz4    *)
(* frames and zstd (lib/src/codec/{zlib,bzip2,xz,lz4,zstd}_codec.cpp).     *)
(* The libraries are external: a stream is known here by how many bytes of *)
(* output can be told from each number of bytes of input, and where it     *)
(* ends; the bytes themselves do not matter.                               *)
(***************************************************************************)
EXTENDS Integers

CONSTANTS Codecs,      \* which of the loops
          MaxInput,    \* bound: the bytes there are from the offset on
          MaxOutput,   \* bound: the bytes a stream decodes to
          ChunkSize,   \* the output taken from the library at once
          MaxFeed,     \* max_feed, the input given to zlib or bzip2 at once
          Ceilings     \* values of max_output_size

VARIABLES
  codec,
  stream,      \* the input, see Streams
  ceiling,
  fed,         \* fed_total; for the others everything is fed at once
  consumed,    \* the input the library has taken of what it was fed
  emitted,     \* the output the library has given
  produced,    \* the output the sink has taken
  idleRounds,
  phase,       \* "feed", "call", "answer" or "done"
  answer,      \* what the library answered, and whether it got any further
  status

given == <<codec, stream, ceiling>>
vars == <<codec, stream, ceiling, fed, consumed, emitted, produced, idleRounds, phase,
          answer, status>>

\* deflate, zlib and gzip share a loop, as do xz and lzma_alone.
FeedsInPieces == codec \in {"deflate", "zlib", "bzip2"}

\* Something follows the last byte that output depends on: a checksum, an index
\* or a mark; zstd gives that byte back until all of its output is out.  A raw
\* deflate stream and lzma_alone have nothing there.
HasTrailer(c) == c \in {"zlib", "bzip2", "lz4", "xz", "zstd"}

\* `told[n]` bytes of output are determined by n bytes of input; the stream ends
\* with input byte `ends`, which is missing if it is beyond `available`; a
\* byte past `bad` makes no sense to the library.
Streams(c) ==
  {s \in [available : 1 .. MaxInput, ends : 1 .. MaxInput + 1, bad : 0 .. MaxInput + 1,
          told : [0 .. MaxInput + 1 -> 0 .. MaxOutput], stalls : BOOLEAN] :
     /\ s.told[0] = 0
     /\ \A n \in 1 .. MaxInput + 1 : s.told[n - 1] <= s.told[n]
     /\ \A n \in s.ends .. MaxInput + 1 : s.told[n] = s.told[s.ends]
     /\ HasTrailer(c) => s.told[s.ends - 1] = s.told[s.ends]
     /\ s.bad < s.ends => s.told[s.bad] = s.told[s.ends]
     /\ s.bad >= s.ends => s.bad = MaxInput + 1}

NoAnswer == [code |-> "none", got |-> 0, progressed |-> FALSE]

Init == /\ codec \in Codecs
        /\ stream \in Streams(codec)
        /\ ceiling \in Ceilings
        /\ fed = 0 /\ consumed = 0 /\ emitted = 0 /\ produced = 0
        /\ idleRounds = 0
        /\ phase = "feed"
        /\ answer = NoAnswer
        /\ status = "none"

Stop(why) == status' = why /\ phase' = "done"

-----------------------------------------------------------------------------
(* The top of the loops.                                                   *)

Smaller(a, b) == IF a < b THEN a ELSE b
Left == stream.available - fed

\* avail_in is 0: the next piece, if there is any.
Feed ==
  /\ phase = "feed" /\ FeedsInPieces
  /\ \/ /\ consumed < fed
        /\ phase' = "call" /\ UNCHANGED <<fed, status>>
     \/ /\ consumed = fed /\ Left = 0
        /\ Stop("truncated_data") /\ UNCHANGED fed
     \/ /\ consumed = fed /\ Left > 0
        /\ fed' = fed + Smaller(Left, MaxFeed)
        /\ phase' = "call" /\ UNCHANGED status
  /\ UNCHANGED <<given, consumed, emitted, produced, idleRounds, answer>>

\* The others point the library at all of the data.  Only lz4 asks first
\* whether any is left.
FeedAll ==
  /\ phase = "feed" /\ ~FeedsInPieces
  /\ fed' = stream.available
  /\ IF codec = "lz4" /\ consumed >= stream.available
     THEN Stop("truncated_data")
     ELSE phase' = "call" /\ UNCHANGED status
  /\ UNCHANGED <<given, consumed, emitted, produced, idleRounds, answer>>

-----------------------------------------------------------------------------
(* The library.                                                            *)

Total == stream.told[stream.ends]
Ended(c, e) == c = stream.ends /\ e = Total

\* A byte is taken when the output told before it fits the chunk; the
\* library stops when the chunk is full, the input is used up or the stream
\* ends.
Reaches(c, e) ==
  /\ c \in consumed .. Smaller(fed, Smaller(stream.ends, stream.bad))
  /\ e \in emitted .. emitted + ChunkSize
  /\ e <= stream.told[c]
  /\ c > consumed => stream.told[c - 1] <= emitted + ChunkSize
  /\ \/ e = emitted + ChunkSize
     \/ e = stream.told[c] /\ (c = fed \/ c = stream.ends \/ c = stream.bad)

Answers(code, c, e) ==
  /\ consumed' = c /\ emitted' = e
  /\ answer' = [code |-> code, got |-> e - emitted,
                progressed |-> c > consumed \/ e > emitted]
  /\ phase' = "answer"
  /\ UNCHANGED <<given, fed, produced, idleRounds, status>>

\* liblzma answers LZMA_BUF_ERROR, and bzip2 BZ_UNEXPECTED_EOF, to nothing more.
Decode ==
  /\ phase = "call"
  /\ \E c \in 0 .. MaxInput, e \in 0 .. MaxOutput :
       /\ Reaches(c, e)
       /\ \E code \in {"end", "ok", "error", "eof", "internal"} :
            /\ code = "end" <=> Ended(c, e)
            /\ code \in {"error", "internal"} =>
                 c = stream.bad /\ e = stream.told[c] /\ c < fed
            /\ code = "eof" => /\ codec \in {"bzip2", "xz", "lzma"} /\ c = fed
                               /\ c = consumed /\ e = emitted /\ ~Ended(c, e)
            /\ code = "ok" => ~(c = stream.bad /\ e = emitted /\ c = consumed)
            /\ Answers(code, c, e)

\* A library that makes no progress though it could.
Stall ==
  /\ phase = "call" /\ stream.stalls
  /\ Answers("ok", consumed, emitted)

-----------------------------------------------------------------------------
(* What the loops do with the answer.                                      *)

\* zstd and lz4 look for an error before they write, the others after.
Written == codec \notin {"zstd", "lz4"} \/ answer.code \in {"ok", "end"}
\* Fault: what the sink has taken before is forgotten.
TooMuchAtOnce == Written /\ answer.got > ceiling
TooMuch == Written /\ answer.got > ceiling - produced

SinkRefuses ==
  /\ phase = "answer" /\ answer.got > 0 /\ Written
  /\ \/ TooMuch /\ Stop("output_limit_exceeded")
     \/ ~TooMuch /\ Stop("write_error")
  /\ UNCHANGED <<given, fed, consumed, emitted, produced, idleRounds, answer>>

\* The rest of a round: take what was got, then stop for `why`, or go round.
Takes == produced' = IF Written THEN produced + answer.got ELSE produced

\* Fault: the answer is acted upon before its output is written.
EndsUnwritten(why) ==
  /\ Stop(why)
  /\ UNCHANGED <<given, fed, consumed, emitted, produced, idleRounds, answer>>

Ends(why) ==
  /\ Takes /\ Stop(why)
  /\ UNCHANGED <<given, fed, consumed, emitted, idleRounds, answer>>

GoesRound(rounds) ==
  /\ Takes /\ idleRounds' = rounds /\ phase' = "feed"
  /\ UNCHANGED <<given, fed, consumed, emitted, answer, status>>

UsedUp == consumed = fed /\ fed >= stream.available

\* Fault: the used up input is noticed before the output that is still to come.
GoOnUsedUp ==
  \/ UsedUp /\ Ends("truncated_data")
  \/ ~UsedUp /\ answer.progressed /\ GoesRound(0)
  \/ /\ ~UsedUp /\ ~answer.progressed
     /\ \/ idleRounds + 1 > 2 /\ Ends("invalid_data")
        \/ idleRounds + 1 <= 2 /\ GoesRound(idleRounds + 1)

\* Fault: idle rounds are not counted.
GoOnUncounted ==
  \/ answer.progressed /\ GoesRound(0)
  \/ /\ ~answer.progressed
     /\ \/ UsedUp /\ Ends("truncated_data")
        \/ ~UsedUp /\ GoesRound(0)

\* zlib, bzip2 and liblzma: an idle round is forgiven twice.
GoOnCounting ==
  \/ answer.progressed /\ GoesRound(0)
  \/ /\ ~answer.progressed
     /\ \/ UsedUp /\ Ends("truncated_data")
        \/ ~UsedUp /\ idleRounds + 1 > 2 /\ Ends("invalid_data")
        \/ ~UsedUp /\ idleRounds + 1 <= 2 /\ GoesRound(idleRounds + 1)

GoOn ==
  \/ codec \notin {"zstd", "lz4"} /\ GoOnCounting
  \/ /\ codec = "zstd"
     /\ \/ UsedUp /\ Ends("truncated_data")
        \/ ~UsedUp /\ ~answer.progressed /\ Ends("invalid_data")
        \/ ~UsedUp /\ answer.progressed /\ GoesRound(0)
  \/ /\ codec = "lz4"
     /\ \/ ~answer.progressed /\ Ends("invalid_data")
        \/ answer.progressed /\ GoesRound(0)

SinkTakes ==
  /\ phase = "answer" /\ ~TooMuch
  /\ \/ answer.code = "end" /\ Ends("ok")
     \/ answer.code = "ok" /\ GoOn
     \/ answer.code = "error" /\ Ends("invalid_data")
     \/ answer.code = "eof" /\ Ends("truncated_data")
     \/ answer.code = "internal" /\ Ends(IF codec \in {"zstd", "lz4"} THEN "invalid_data"
                                         ELSE "internal_error")

Done == phase = "done" /\ UNCHANGED vars

Step == Feed \/ FeedAll \/ Decode \/ Stall \/ SinkRefuses \/ SinkTakes
Next == Step \/ Done

Spec == Init /\ [][Next]_vars

-----------------------------------------------------------------------------
(* Properties.                                                             *)

\* ok stands for the whole output of a stream that is all there, and the input
\* said to be consumed is that of the stream, whatever follows it.
OkIsComplete ==
  status = "ok" => produced = Total /\ consumed = stream.ends

\* truncated_data stands for a stream whose end is missing, if the library does
\* its part.
TruncatedIsCutOff ==
  status = "truncated_data" /\ ~stream.stalls => stream.ends > stream.available

\* The loop ends whatever the library does.
LoopEnds == <>(phase = "done")
=============================================================================
