----------------------------- MODULE WindowWriter -----------------------------
(***************************************************************************)
(* codec_detail::window_writer on top of an output_sink, from the first    *)
(* call a decoder makes to what codec_decompress and                       *)
(* codec_decompress_to_buffer leave behind (lib/src/codec/codec.cpp).  The *)
(* decoder (decode_lz4_block_sequence, decompress_lzo) is any client that  *)
(* stops at the first call that answers false and then ends one of the     *)
(* ways those two end.                                                     *)
(***************************************************************************)
EXTENDS Integers, Sequences

CONSTANTS Bytes,
          History,        \* history_, the largest distance
          MaxOutputSize,  \* max_output_size_
          MaxRun,         \* bound: the longest append or match
          MaxDistance     \* bound: the longest distance a decoder reads

ASSUME WriterAssumption ==
  /\ Bytes # {} /\ History \in Nat \ {0} /\ MaxOutputSize \in Nat
  /\ MaxRun \in Nat /\ MaxDistance \in Nat

VARIABLES
  medium,      \* null_sink, file_sink or buffer_sink
  taken,       \* the bytes commit() took; written_ is their number
  contents,    \* the bytes in the file or vector, counted only by a null_sink
  file,        \* at the path: nothing, what an earlier run left, or ours
  sinkStatus,  \* output_sink::status_
  buffer,
  produced,
  status,      \* window_writer::status_
  call,        \* the last append (distance 0) or copy_match, and its `remaining`
  chunk,       \* the bytes of the chunk still to be inserted
  phase,
  result       \* the codec_result

sink == <<taken, contents, file, sinkStatus>>
vars == <<medium, sink, buffer, produced, status, call, chunk, phase, result>>

Idle == [distance |-> 0, length |-> 0, remaining |-> 0]
Kept == {"ok", "truncated_data"}
Statuses == Kept \cup {"invalid_data", "output_limit_exceeded", "write_error"}

Init == /\ medium \in {"null", "file", "buffer"}
        /\ taken = << >> /\ contents = << >>
        /\ file \in IF medium = "file" THEN {"absent", "stale"} ELSE {"absent"}
        /\ sinkStatus = "ok"
        /\ buffer = << >>
        /\ produced = 0
        /\ status = "ok"
        /\ call = Idle
        /\ chunk = 0
        /\ phase = "decoding"
        /\ result = [status |-> "none", output_size |-> 0]

-----------------------------------------------------------------------------
(* output_sink::write, which answers true or false.                        *)

Within(data) == Len(taken) <= MaxOutputSize /\ Len(data) <= MaxOutputSize - Len(taken)

\* commit: only a file can refuse, when it is opened or when it is written.
WriteTakes(data) ==
  /\ sinkStatus = "ok" /\ Within(data)
  /\ taken' = taken \o data /\ contents' = contents \o data
  /\ file' = IF medium = "file" /\ data # << >> THEN "ours" ELSE file
  /\ UNCHANGED sinkStatus

WriteFails(data) ==
  \/ sinkStatus # "ok" /\ UNCHANGED sink
  \/ /\ sinkStatus = "ok" /\ data # << >> /\ ~Within(data)
     /\ sinkStatus' = "output_limit_exceeded"
     /\ UNCHANGED <<taken, contents, file>>
  \/ /\ sinkStatus = "ok" /\ data # << >> /\ Within(data) /\ medium = "file"
     /\ sinkStatus' = "write_error"
     /\ \/ UNCHANGED <<file, contents>>
        \/ /\ file' = "ours"
           /\ \E n \in 0 .. Len(data) : contents' = contents \o SubSeq(data, 1, n)
     /\ UNCHANGED taken

-----------------------------------------------------------------------------
(* append and copy_match.                                                  *)

\* check_ceiling
Fits(length) == produced <= MaxOutputSize /\ length <= MaxOutputSize - produced

InWindow(distance) == distance # 0 /\ distance <= History /\ distance <= Len(buffer)

Refuse(why, distance, length) ==
  /\ status' = why /\ phase' = "failed"
  /\ call' = [distance |-> distance, length |-> length, remaining |-> 0]
  /\ UNCHANGED <<medium, sink, buffer, produced, chunk, result>>

Begin(distance, length) ==
  /\ phase' = "inserting"
  /\ call' = [distance |-> distance, length |-> length, remaining |-> length]
  /\ UNCHANGED <<medium, sink, buffer, produced, status, chunk, result>>

\* A call of no bytes changes nothing and is left out.
AppendLiterals(length) ==
  /\ phase = "decoding"
  /\ \/ Fits(length) /\ Begin(0, length)
     \/ ~Fits(length) /\ Refuse("output_limit_exceeded", 0, length)

CopyMatch(distance, length) ==
  /\ phase = "decoding"
  /\ \/ InWindow(distance) /\ Fits(length) /\ Begin(distance, length)
     \/ ~InWindow(distance) /\ Refuse("invalid_data", distance, length)
     \/ /\ InWindow(distance) /\ ~Fits(length)
        /\ Refuse("output_limit_exceeded", distance, length)

Smaller(a, b) == IF a < b THEN a ELSE b
NextChunk == Smaller(call.remaining, History)

\* reserve_room: whether the buffer would grow past twice the history.
HasRoom == Len(buffer) + NextChunk <= History * 2
Excess == Len(buffer) - History
Older == SubSeq(buffer, 1, Excess)

ReserveRoom ==
  /\ phase = "inserting" /\ chunk = 0 /\ call.remaining > 0
  /\ HasRoom \/ Len(buffer) <= History
  /\ chunk' = NextChunk
  /\ UNCHANGED <<medium, sink, buffer, produced, status, call, phase, result>>

\* Fault: one byte too few is erased.
DrainErasingLess ==
  /\ phase = "inserting" /\ chunk = 0 /\ call.remaining > 0
  /\ ~HasRoom /\ Len(buffer) > History
  /\ chunk' = NextChunk
  /\ WriteTakes(Older)
  /\ buffer' = SubSeq(buffer, Excess, Len(buffer))
  /\ UNCHANGED <<medium, produced, status, call, phase, result>>

\* drain_to_history
DrainToHistory ==
  /\ phase = "inserting" /\ chunk = 0 /\ call.remaining > 0
  /\ ~HasRoom /\ Len(buffer) > History
  /\ chunk' = NextChunk
  /\ WriteTakes(Older)
  /\ buffer' = SubSeq(buffer, Excess + 1, Len(buffer))
  /\ UNCHANGED <<medium, produced, status, call, phase, result>>

DrainFails ==
  /\ phase = "inserting" /\ chunk = 0 /\ call.remaining > 0
  /\ ~HasRoom /\ Len(buffer) > History
  /\ WriteFails(Older)
  /\ status' = sinkStatus'
  /\ phase' = "failed"
  /\ UNCHANGED <<medium, buffer, produced, call, chunk, result>>

\* The next byte of the chunk; nobody looks at produced_ before the chunk is in.
Insert(byte) ==
  /\ phase = "inserting" /\ chunk > 0
  /\ call.distance > 0 => byte = buffer[Len(buffer) + 1 - call.distance]
  /\ buffer' = Append(buffer, byte)
  /\ chunk' = chunk - 1
  /\ call' = [call EXCEPT !.remaining = @ - 1]
  /\ produced' = produced + 1
  /\ UNCHANGED <<medium, sink, status, phase, result>>

CallReturns ==
  /\ phase = "inserting" /\ call.remaining = 0
  /\ phase' = "decoding"
  /\ UNCHANGED <<medium, sink, buffer, produced, status, call, chunk, result>>

-----------------------------------------------------------------------------
(* How a decoder ends: flush for an intact stream, finish_partial for any  *)
(* other; then reconcile.                                                  *)

Reconciled(verdict, size) ==
  result' = [status |-> verdict, output_size |-> IF verdict \in Kept THEN size ELSE 0]

\* Fault: what the window still holds of a stream that was cut off is dropped.
ReturnUnflushed(verdict) ==
  /\ phase = "decoding" /\ verdict \in Kept
  /\ UNCHANGED <<sink, buffer>>
  /\ Reconciled(verdict, Len(taken))
  /\ phase' = "returned"
  /\ UNCHANGED <<medium, produced, status, call, chunk>>

\* A stream that ended, or that was cut off: the rest of the window follows.
FlushAndReturn(verdict) ==
  /\ phase = "decoding" /\ verdict \in Kept
  /\ WriteTakes(buffer)
  /\ buffer' = << >>
  /\ Reconciled(verdict, Len(taken'))
  /\ phase' = "returned"
  /\ UNCHANGED <<medium, produced, status, call, chunk>>

\* The writer failed before, or fails now.  decompress_lz4 still flushes after
\* a bad block that follows a good one, and ends a cut off block with
\* truncated_data whatever became of it.
FlushFails(verdict) ==
  /\ phase \in {"decoding", "failed"} /\ verdict \in Kept
  /\ \/ status # "ok" /\ UNCHANGED <<sink, status>>
     \/ phase = "decoding" /\ buffer # << >> /\ WriteFails(buffer) /\ status' = sinkStatus'
  /\ Reconciled(status', 0)
  /\ phase' = "returned"
  /\ UNCHANGED <<medium, buffer, produced, call, chunk>>

\* The decoder's own complaint, or the writer's status passed on.
ReturnFailure(verdict) ==
  /\ \/ phase = "decoding" /\ verdict = "invalid_data"
     \/ phase = "failed" /\ verdict = status
  /\ Reconciled(verdict, 0)
  /\ phase' = "returned"
  /\ UNCHANGED <<medium, sink, buffer, produced, status, call, chunk>>

-----------------------------------------------------------------------------
(* codec_decompress and codec_decompress_to_buffer after the decoder.      *)

\* file_sink::finish, which makes the file if nothing was ever written.
Keep ==
  /\ phase = "returned" /\ result.status \in Kept
  /\ file' = IF medium = "file" THEN "ours" ELSE file
  /\ phase' = "done"
  /\ UNCHANGED <<medium, taken, contents, sinkStatus, buffer, produced, status, call, chunk,
                 result>>

\* file_sink::discard; codec_decompress_to_buffer clears the vector.
Discard(verdict) ==
  /\ file' = "absent" /\ contents' = << >>
  /\ result' = [status |-> verdict, output_size |-> 0]
  /\ phase' = "done"
  /\ UNCHANGED <<medium, taken, sinkStatus, buffer, produced, status, call, chunk>>

FinishFails ==
  /\ phase = "returned" /\ result.status \in Kept /\ medium = "file"
  /\ Discard("write_error")

DiscardFailure ==
  /\ phase = "returned" /\ result.status \notin Kept
  /\ Discard(result.status)

Done == phase = "done" /\ UNCHANGED vars

Next == \/ \E n \in 1 .. MaxRun :
             \/ AppendLiterals(n)
             \/ \E d \in 0 .. MaxDistance : CopyMatch(d, n)
        \/ ReserveRoom \/ DrainToHistory \/ DrainFails
        \/ \E b \in Bytes : Insert(b)
        \/ CallReturns
        \/ \E v \in Statuses : FlushAndReturn(v) \/ FlushFails(v) \/ ReturnFailure(v)
        \/ Keep \/ FinishFails \/ DiscardFailure
        \/ Done

Spec == Init /\ [][Next]_vars

-----------------------------------------------------------------------------
(* Properties.                                                             *)

Phases == {"decoding", "inserting", "failed", "returned", "done"}

TypeOK ==
  /\ medium \in {"null", "file", "buffer"}
  /\ taken \in Seq(Bytes) /\ contents \in Seq(Bytes) /\ buffer \in Seq(Bytes)
  /\ file \in {"absent", "stale", "ours"}
  /\ sinkStatus \in {"ok", "output_limit_exceeded", "write_error"} /\ status \in Statuses
  /\ produced \in Nat /\ chunk \in Nat
  /\ call \in [distance : Nat, length : Nat, remaining : Nat]
  /\ phase \in Phases
  /\ result \in [status : Statuses \cup {"none"}, output_size : Nat]

\* The vector never grows past what the constructor reserved, and the sink never
\* meets its own ceiling, since the writer refused the call before.
NeverOutgrown ==
  /\ Len(buffer) <= History * 2
  /\ produced <= MaxOutputSize
  /\ sinkStatus # "output_limit_exceeded"

\* A result that is kept tells how many bytes are there and how many were decoded;
\* after any other nothing is left, not even what an earlier run had left there.
ResultTellsOutput ==
  phase = "done" =>
    /\ result.output_size = Len(contents)
    /\ IF result.status \in Kept
       THEN result.output_size = produced /\ (medium = "file" => file = "ours")
       ELSE file = "absent"

\* The output as a decoder with unlimited memory has it.
D == INSTANCE DecodedOutput WITH
  stream <- taken \o buffer,
  refused <- IF status \in {"invalid_data", "output_limit_exceeded"} THEN status ELSE "no",
  outcome <- IF phase = "done" THEN result.status ELSE "none",
  left <- IF phase = "done" THEN contents ELSE << >>

ImplementsDecodedOutput == D!Spec
=============================================================================
