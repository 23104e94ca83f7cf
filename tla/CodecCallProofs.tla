--------------------------- MODULE CodecCallProofs ---------------------------
(***************************************************************************)
(* For any history, ceiling, calls and bytes: the window never outgrows    *)
(* what is reserved for it, the result tells what is left behind, and the  *)
(* output is the one a decoder with unlimited memory has.  For any stream, *)
(* any way a library cuts it up and any sizes: ok stands for all of the    *)
(* output, and truncated_data for a stream that was cut off.               *)
(***************************************************************************)
EXTENDS CodecCall, SequenceTheorems, TLAPS

\* Every byte produced was written or is in the window.
Counted == produced = Len(taken) + Len(buffer)

\* The bytes a call still owes were granted by check_ceiling.
Granted == produced + call.remaining <= MaxOutputSize

Room == chunk <= call.remaining /\ Len(buffer) + chunk <= History * 2

\* Who has failed, and who may not have.
Verdicts ==
  /\ sinkStatus \in {"ok", "write_error"}
  /\ status # "truncated_data"
  /\ phase \in {"decoding", "inserting"} => status = "ok" /\ sinkStatus = "ok"
  /\ phase = "failed" => status # "ok"
  /\ phase = "decoding" => call.remaining = 0

\* The bytes a match may refer to are in the window.
HistoryKept ==
  /\ phase \in {"decoding", "inserting", "failed"} => taken = << >> \/ Len(buffer) >= History
  /\ phase = "inserting" => call.distance <= History /\ call.distance <= Len(buffer)

\* What is where the output goes, while a decoder is at work and when it returned.
Contents == phase # "done" /\ sinkStatus = "ok" => contents = taken

Success ==
  /\ status = "ok" /\ sinkStatus = "ok" /\ buffer = << >> /\ call.remaining = 0
  /\ result.output_size = Len(taken)

Returned ==
  phase = "returned" =>
    /\ result.status \in Statuses
    /\ result.status \in Kept => Success

Finished ==
  phase = "done" =>
    /\ result.status \in Statuses
    /\ IF result.status \in Kept
       THEN Success /\ contents = taken /\ (medium = "file" => file = "ours")
       ELSE result.output_size = 0 /\ contents = << >> /\ file = "absent"

IInv == TypeOK /\ Counted /\ Granted /\ Room /\ Verdicts /\ HistoryKept /\ Contents
        /\ Returned /\ Finished

-----------------------------------------------------------------------------
(* What write does, for a client whose sink has not failed.                *)

LEMMA Taking ==
  ASSUME IInv, phase # "done", NEW data \in Seq(Bytes), WriteTakes(data)
  PROVE  /\ taken' = taken \o data /\ taken' \in Seq(Bytes)
         /\ Len(taken') = Len(taken) + Len(data)
         /\ contents' = taken'
         /\ file' \in {"absent", "stale", "ours"}
         /\ sinkStatus = "ok" /\ sinkStatus' = "ok"
<1>1. taken \in Seq(Bytes) /\ file \in {"absent", "stale", "ours"}
  BY DEF IInv, TypeOK
<1>2. taken \o data \in Seq(Bytes) /\ Len(taken \o data) = Len(taken) + Len(data)
  BY <1>1, ConcatProperties
<1>3. sinkStatus = "ok" /\ contents = taken
  BY DEF IInv, Contents, WriteTakes
<1> QED BY <1>1, <1>2, <1>3 DEF WriteTakes

\* The writer asked check_ceiling before: only the file can fail.
LEMMA Failing ==
  ASSUME IInv, phase # "done", sinkStatus = "ok",
         NEW data \in Seq(Bytes), Len(data) <= Len(buffer), WriteFails(data)
  PROVE  /\ taken' = taken
         /\ contents' \in Seq(Bytes)
         /\ file' \in {"absent", "stale", "ours"}
         /\ sinkStatus' = "write_error"
<1>1. /\ taken \in Seq(Bytes) /\ contents \in Seq(Bytes) /\ buffer \in Seq(Bytes)
      /\ file \in {"absent", "stale", "ours"}
      /\ produced \in Nat /\ call.remaining \in Nat
  BY DEF IInv, TypeOK
<1>2. Len(taken) \in Nat /\ Len(buffer) \in Nat /\ Len(data) \in Nat
  BY <1>1, LenProperties
<1>3. Within(data)
  BY <1>1, <1>2, WriterAssumption DEF WriterAssumption, IInv, Counted, Granted, Within
<1>4. ASSUME NEW n \in 0 .. Len(data)
      PROVE  contents \o SubSeq(data, 1, n) \in Seq(Bytes)
  <2>1. \A i \in 1 .. n : data[i] \in Bytes
    BY <1>2, ElementOfSeq
  <2>2. SubSeq(data, 1, n) \in Seq(Bytes)
    BY <1>2, <2>1, SubSeqProperties
  <2> QED BY <1>1, <2>2, ConcatProperties
<1> QED BY <1>1, <1>3, <1>4 DEF WriteFails

\* What is drained and what stays are the buffer.
LEMMA Draining ==
  ASSUME NEW b \in Seq(Bytes), NEW k \in 0 .. Len(b)
  PROVE  /\ SubSeq(b, 1, k) \in Seq(Bytes) /\ Len(SubSeq(b, 1, k)) = k
         /\ SubSeq(b, k + 1, Len(b)) \in Seq(Bytes)
         /\ Len(SubSeq(b, k + 1, Len(b))) = Len(b) - k
         /\ SubSeq(b, 1, k) \o SubSeq(b, k + 1, Len(b)) = b
<1>1. Len(b) \in Nat
  BY LenProperties
<1>2. \A i \in 1 .. Len(b) : b[i] \in Bytes
  BY ElementOfSeq
<1>3. SubSeq(b, 1, k) \in Seq(Bytes) /\ Len(SubSeq(b, 1, k)) = k
  <2>1. \A i \in 1 .. k : b[i] \in Bytes
    BY <1>1, <1>2
  <2> QED BY <1>1, <2>1, SubSeqProperties
<1>4. /\ SubSeq(b, k + 1, Len(b)) \in Seq(Bytes)
      /\ Len(SubSeq(b, k + 1, Len(b))) = Len(b) - k
  <2>1. \A i \in k + 1 .. Len(b) : b[i] \in Bytes
    BY <1>1, <1>2
  <2>2. /\ SubSeq(b, k + 1, Len(b)) \in Seq(Bytes)
        /\ Len(SubSeq(b, k + 1, Len(b))) =
             IF k + 1 <= Len(b) THEN Len(b) - (k + 1) + 1 ELSE 0
    BY <1>1, <2>1, SubSeqProperties
  <2> QED BY <1>1, <2>2
<1>5. SubSeq(b, 1, k) \o SubSeq(b, k + 1, Len(b)) = SubSeq(b, 1, Len(b))
  <2>1. 1 \in 1 .. Len(b) + 1 /\ k \in 1 - 1 .. Len(b) /\ Len(b) \in k .. Len(b)
    BY <1>1
  <2> QED BY <2>1, ConcatAdjacentSubSeq
<1> QED BY <1>3, <1>4, <1>5, SubSeqFull

\* Bytes that move from the window to the sink stay where they were in the output.
LEMMA Moving == \A s, t, u \in Seq(Bytes) : (s \o t) \o u = s \o (t \o u)
<1> TAKE s, t, u \in Seq(Bytes)
<1> QED BY ConcatAssociative

-----------------------------------------------------------------------------
(* The invariant.                                                          *)

LEMMA Started == Init => IInv
<1> SUFFICES ASSUME Init PROVE IInv
  OBVIOUS
<1>1. << >> \in Seq(Bytes) /\ Len(<< >>) = 0
  BY EmptySeq
<1> QED
  BY <1>1, WriterAssumption
     DEF WriterAssumption, Init, IInv, TypeOK, Counted, Granted, Room, Verdicts, HistoryKept,
         Contents, Returned, Finished, Idle, Phases, Statuses, Kept

\* The types a step starts from, lengths included.
LEMMA Typed ==
  ASSUME IInv
  PROVE  /\ taken \in Seq(Bytes) /\ contents \in Seq(Bytes) /\ buffer \in Seq(Bytes)
         /\ Len(taken) \in Nat /\ Len(buffer) \in Nat
         /\ produced \in Nat /\ chunk \in Nat
         /\ call.distance \in Nat /\ call.length \in Nat /\ call.remaining \in Nat
         /\ History \in Nat /\ History > 0 /\ MaxOutputSize \in Nat
<1>1. taken \in Seq(Bytes) /\ contents \in Seq(Bytes) /\ buffer \in Seq(Bytes)
  BY DEF IInv, TypeOK
<1> QED BY <1>1, LenProperties, WriterAssumption DEF WriterAssumption, IInv, TypeOK

LEMMA CallsPreserve ==
  ASSUME IInv,
         \E n \in 1 .. MaxRun : \/ AppendLiterals(n)
                                \/ \E d \in 0 .. MaxDistance : CopyMatch(d, n)
  PROVE  IInv'
<1> USE Typed
<1>1. PICK n \in 1 .. MaxRun, d \in 0 .. MaxDistance :
        \/ d = 0 /\ AppendLiterals(n)
        \/ CopyMatch(d, n)
  <2>1. 0 \in 0 .. MaxDistance
    BY WriterAssumption DEF WriterAssumption
  <2> QED BY <2>1
<1>2. n \in Nat /\ d \in Nat
  BY <1>1, WriterAssumption DEF WriterAssumption
<1>3. CASE Begin(d, n) /\ Fits(n) /\ (d = 0 \/ InWindow(d)) /\ phase = "decoding"
  <2>1. /\ call' = [distance |-> d, length |-> n, remaining |-> n] /\ phase' = "inserting"
        /\ UNCHANGED <<medium, taken, contents, file, sinkStatus, buffer, produced, status,
                      chunk, result>>
    BY <1>3 DEF Begin, sink
  <2>2. TypeOK
    BY DEF IInv
  <2>3. TypeOK'
    BY <1>2, <2>1, <2>2 DEF TypeOK, Phases
  <2>4. Counted' /\ Room'
    BY <1>2, <1>3, <2>1 DEF IInv, Counted, Room, Verdicts
  <2>5. Granted'
    BY <1>2, <1>3, <2>1 DEF Fits, Granted
  <2>6. HistoryKept'
    <3>1. d <= History /\ d <= Len(buffer)
      BY <1>3 DEF InWindow
    <3> QED BY <1>3, <2>1, <3>1 DEF IInv, HistoryKept
  <2>7. Verdicts' /\ Contents' /\ Returned' /\ Finished'
    BY <1>3, <2>1 DEF IInv, Verdicts, Contents, Returned, Finished
  <2> QED BY <2>3, <2>4, <2>5, <2>6, <2>7 DEF IInv
<1>4. CASE /\ phase = "decoding"
           /\ Refuse("invalid_data", d, n) \/ Refuse("output_limit_exceeded", d, n)
  <2>1. call' = [distance |-> d, length |-> n, remaining |-> 0] /\ phase' = "failed"
    BY <1>4 DEF Refuse
  <2>2. UNCHANGED <<medium, taken, contents, file, sinkStatus, buffer, produced, chunk, result>>
    BY <1>4 DEF Refuse, sink
  <2>3. status' \in {"invalid_data", "output_limit_exceeded"}
    BY <1>4 DEF Refuse
  <2>4. TypeOK'
    BY <1>2, <2>1, <2>2, <2>3 DEF IInv, TypeOK, Phases, Statuses
  <2>5. Counted' /\ Granted' /\ Room'
    BY <1>4, <2>1, <2>2 DEF IInv, Counted, Granted, Room, Verdicts
  <2>6. Verdicts' /\ HistoryKept' /\ Contents' /\ Returned' /\ Finished'
    BY <1>4, <2>1, <2>2, <2>3
       DEF IInv, Verdicts, HistoryKept, Contents, Returned, Finished
  <2> QED BY <2>4, <2>5, <2>6 DEF IInv
<1> QED BY <1>1, <1>3, <1>4 DEF AppendLiterals, CopyMatch

\* What a chunk that does not fit leaves to write, and what of it is kept.
LEMMA Excessive ==
  ASSUME IInv, Len(buffer) > History
  PROVE  /\ Older \in Seq(Bytes) /\ Len(Older) = Excess /\ Len(Older) <= Len(buffer)
         /\ SubSeq(buffer, Excess + 1, Len(buffer)) \in Seq(Bytes)
         /\ Len(SubSeq(buffer, Excess + 1, Len(buffer))) = History
         /\ Older \o SubSeq(buffer, Excess + 1, Len(buffer)) = buffer
<1>1. Excess \in 0 .. Len(buffer) /\ Len(buffer) - Excess = History
  BY Typed DEF Excess
<1>2. buffer \in Seq(Bytes)
  BY Typed
<1>3. /\ SubSeq(buffer, 1, Excess) \in Seq(Bytes) /\ Len(SubSeq(buffer, 1, Excess)) = Excess
      /\ SubSeq(buffer, Excess + 1, Len(buffer)) \in Seq(Bytes)
      /\ Len(SubSeq(buffer, Excess + 1, Len(buffer))) = Len(buffer) - Excess
      /\ SubSeq(buffer, 1, Excess) \o SubSeq(buffer, Excess + 1, Len(buffer)) = buffer
  BY <1>1, <1>2, Draining
<1>4. Excess <= Len(buffer) /\ Len(buffer) - Excess = History
  BY <1>1
<1> QED BY <1>3, <1>4 DEF Older

LEMMA RoomPreserves ==
  ASSUME IInv, ReserveRoom \/ DrainToHistory \/ DrainFails
  PROVE  IInv'
<1> USE Typed
<1>1. /\ NextChunk \in Nat /\ NextChunk <= call.remaining /\ NextChunk <= History
  BY DEF NextChunk, Smaller
<1>2. /\ phase = "inserting" /\ chunk = 0 /\ UNCHANGED <<medium, produced, call, result>>
  BY DEF ReserveRoom, DrainToHistory, DrainFails, sink
<1>3. CASE ReserveRoom
  <2>1. /\ UNCHANGED <<taken, contents, file, sinkStatus, buffer, status, phase>>
        /\ chunk' = NextChunk /\ Len(buffer) + NextChunk <= History * 2
    BY <1>1, <1>3 DEF ReserveRoom, HasRoom, sink
  <2> QED
    BY <1>1, <1>2, <2>1
       DEF IInv, TypeOK, Counted, Granted, Room, Verdicts, HistoryKept, Contents, Returned,
           Finished
<1>4. CASE DrainToHistory
  <2>1. /\ UNCHANGED <<status, phase>> /\ chunk' = NextChunk
        /\ WriteTakes(Older)
        /\ buffer' = SubSeq(buffer, Excess + 1, Len(buffer))
        /\ Len(buffer) > History
    BY <1>4 DEF DrainToHistory
  <2>2. /\ taken' \in Seq(Bytes) /\ Len(taken') = Len(taken) + Excess /\ contents' = taken'
        /\ file' \in {"absent", "stale", "ours"} /\ sinkStatus' = "ok"
    BY <1>2, <2>1, Excessive, Taking
  <2>3. buffer' \in Seq(Bytes) /\ Len(buffer') = History
    BY <2>1, Excessive
  <2>4. TypeOK'
    BY <1>1, <1>2, <2>1, <2>2, <2>3 DEF IInv, TypeOK
  <2>5. Counted' /\ Granted' /\ Room'
    <3>1. produced' = produced /\ call' = call /\ chunk' = NextChunk
      BY <1>2, <2>1
    <3>2. Len(taken') = Len(taken) + Len(buffer) - History
      BY <2>2 DEF Excess
    <3>3. /\ Len(taken) \in Nat /\ Len(buffer) \in Nat /\ History \in Nat
      OBVIOUS
    <3>4. /\ produced = Len(taken) + Len(buffer) /\ produced + call.remaining <= MaxOutputSize
      BY DEF IInv, Counted, Granted
    <3>5. Counted'
      BY <2>3, <3>1, <3>2, <3>3, <3>4 DEF Counted
    <3>6. Granted'
      BY <3>1, <3>4 DEF Granted
    <3>7. Room'
      BY <1>1, <2>3, <3>1, <3>3 DEF Room
    <3> QED BY <3>5, <3>6, <3>7
  <2>6. phase' = "inserting" /\ call' = call /\ status' = status
    BY <1>2, <2>1
  <2>7. Verdicts'
    BY <1>2, <2>2, <2>6 DEF IInv, Verdicts
  <2>8. HistoryKept'
    <3>1. call.distance <= History
      BY <1>2 DEF IInv, HistoryKept
    <3> QED BY <2>3, <2>6, <3>1 DEF HistoryKept
  <2>9. Contents' /\ Returned' /\ Finished'
    BY <2>2, <2>6 DEF Contents, Returned, Finished
  <2> QED BY <2>4, <2>5, <2>7, <2>8, <2>9 DEF IInv
<1>5. CASE DrainFails
  <2>1. /\ WriteFails(Older) /\ Len(buffer) > History /\ status' = sinkStatus'
        /\ phase' = "failed" /\ UNCHANGED <<buffer, chunk>>
    BY <1>5 DEF DrainFails
  <2>2. sinkStatus = "ok"
    BY <1>2 DEF IInv, Verdicts
  <2>3. /\ taken' = taken /\ contents' \in Seq(Bytes) /\ sinkStatus' = "write_error"
        /\ file' \in {"absent", "stale", "ours"}
    BY <1>2, <2>1, <2>2, Excessive, Failing
  <2> QED
    BY <1>2, <2>1, <2>3
       DEF IInv, TypeOK, Counted, Granted, Room, Verdicts, HistoryKept, Contents, Returned,
           Finished, Phases, Statuses
<1> QED BY <1>3, <1>4, <1>5

LEMMA InsertPreserves ==
  ASSUME IInv, (\E b \in Bytes : Insert(b)) \/ CallReturns
  PROVE  IInv'
<1>0. /\ taken \in Seq(Bytes) /\ contents \in Seq(Bytes) /\ buffer \in Seq(Bytes)
      /\ Len(taken) \in Nat /\ Len(buffer) \in Nat /\ produced \in Nat /\ chunk \in Nat
      /\ call.distance \in Nat /\ call.remaining \in Nat
      /\ History \in Nat /\ MaxOutputSize \in Nat
  BY Typed
<1>1. CASE \E b \in Bytes : Insert(b)
  <2>1. PICK b \in Bytes : Insert(b)
    BY <1>1
  <2>2. /\ phase = "inserting" /\ chunk > 0 /\ chunk' = chunk - 1
        /\ buffer' = Append(buffer, b)
        /\ call' = [call EXCEPT !.remaining = @ - 1] /\ produced' = produced + 1
        /\ UNCHANGED <<medium, taken, contents, file, sinkStatus, status, phase, result>>
    BY <2>1 DEF Insert, sink
  <2>3. buffer' \in Seq(Bytes) /\ Len(buffer') = Len(buffer) + 1
    BY <1>0, <2>2, AppendProperties
  <2>4. call'.distance = call.distance /\ call'.remaining = call.remaining - 1
    BY <2>2 DEF IInv, TypeOK
  <2>5. call' \in [distance : Nat, length : Nat, remaining : Nat]
    <3>1. call \in [distance : Nat, length : Nat, remaining : Nat] /\ call.remaining > 0
      BY <1>0, <2>2 DEF IInv, TypeOK, Room
    <3>2. call.remaining - 1 \in Nat
      BY <3>1
    <3>3. call' = [call EXCEPT !.remaining = call.remaining - 1]
      BY <2>2
    <3> QED BY <3>1, <3>2, <3>3
  <2>6. TypeOK'
    <3>1. TypeOK
      BY DEF IInv
    <3>2. produced' \in Nat /\ chunk' \in Nat
      BY <1>0, <2>2
    <3> QED BY <2>2, <2>3, <2>5, <3>1, <3>2 DEF TypeOK
  <2>7. Counted' /\ Granted' /\ Room'
    <3>1. /\ produced = Len(taken) + Len(buffer) /\ produced + call.remaining <= MaxOutputSize
          /\ chunk <= call.remaining /\ Len(buffer) + chunk <= History * 2
      BY DEF IInv, Counted, Granted, Room
    <3>2. taken' = taken /\ produced' = produced + 1 /\ chunk' = chunk - 1
      BY <2>2
    <3>3. produced' = Len(taken') + Len(buffer')
      BY <1>0, <2>3, <3>1, <3>2
    <3>4. call'.remaining = call.remaining - 1
      BY <2>4
    <3>5. produced' + call'.remaining <= MaxOutputSize
      <4>1. produced \in Nat /\ call.remaining \in Nat /\ MaxOutputSize \in Nat
        BY <1>0
      <4>2. /\ produced' = produced + 1 /\ produced + call.remaining <= MaxOutputSize
            /\ call'.remaining = call.remaining - 1
        BY <3>1, <3>2, <3>4
      <4> QED BY <4>1, <4>2
    <3>6. chunk' <= call'.remaining
      <4>1. chunk \in Nat /\ call.remaining \in Nat
        BY <1>0
      <4>2. /\ chunk' = chunk - 1 /\ chunk <= call.remaining
            /\ call'.remaining = call.remaining - 1
        BY <3>1, <3>2, <3>4
      <4> QED BY <4>1, <4>2
    <3>7. Len(buffer') + chunk' <= History * 2
      <4>1. Len(buffer) \in Nat /\ chunk \in Nat /\ History \in Nat
        BY <1>0
      <4>2. /\ Len(buffer') = Len(buffer) + 1 /\ chunk' = chunk - 1
            /\ Len(buffer) + chunk <= History * 2
        BY <2>3, <3>1, <3>2
      <4> QED BY <4>1, <4>2
    <3> QED BY <3>3, <3>5, <3>6, <3>7 DEF Counted, Granted, Room
  <2>8. Verdicts' /\ HistoryKept' /\ Contents' /\ Returned' /\ Finished'
    <3>1. /\ taken = << >> \/ Len(buffer) >= History
          /\ call.distance <= History /\ call.distance <= Len(buffer)
      BY <2>2 DEF IInv, HistoryKept
    <3>2. HistoryKept'
      BY <1>0, <2>2, <2>3, <2>4, <3>1 DEF HistoryKept
    <3>3. Verdicts' /\ Contents' /\ Returned' /\ Finished'
      BY <2>2 DEF IInv, Verdicts, Contents, Returned, Finished
    <3> QED BY <3>2, <3>3
  <2> QED BY <2>6, <2>7, <2>8 DEF IInv
<1>2. CASE CallReturns
  BY <1>2
     DEF CallReturns, sink, IInv, TypeOK, Counted, Granted, Room, Verdicts, HistoryKept,
         Contents, Returned, Finished, Phases
<1> QED BY <1>1, <1>2

LEMMA FlushPreserves ==
  ASSUME IInv, NEW v \in Statuses, FlushAndReturn(v)
  PROVE  IInv'
<1> USE Typed
<1>1. /\ phase = "decoding" /\ phase' = "returned" /\ v \in Kept
      /\ WriteTakes(buffer) /\ buffer' = << >>
      /\ result' = [status |-> v, output_size |-> Len(taken')]
      /\ UNCHANGED <<medium, produced, status, call, chunk>>
  BY DEF FlushAndReturn, Reconciled
<1>2. /\ taken' \in Seq(Bytes) /\ Len(taken') = Len(taken) + Len(buffer) /\ contents' = taken'
      /\ file' \in {"absent", "stale", "ours"} /\ sinkStatus' = "ok"
  BY <1>1, Taking
<1>3. buffer' \in Seq(Bytes) /\ Len(buffer') = 0 /\ Len(taken') \in Nat
  BY <1>1, <1>2, EmptySeq
<1>4. result' \in [status : Statuses \cup {"none"}, output_size : Nat]
  BY <1>1, <1>3
<1>5. TypeOK'
  BY <1>1, <1>2, <1>3, <1>4 DEF IInv, TypeOK, Phases
<1>6. Counted' /\ Granted' /\ Room'
  <2>1. /\ produced = Len(taken) + Len(buffer) /\ produced + call.remaining <= MaxOutputSize
        /\ chunk <= call.remaining /\ Len(buffer) + chunk <= History * 2
    BY DEF IInv, Counted, Granted, Room
  <2>2. produced' = produced /\ call' = call /\ chunk' = chunk
    BY <1>1
  <2>3. Len(buffer) \in Nat /\ chunk \in Nat /\ History \in Nat
    OBVIOUS
  <2>4. Len(buffer') + chunk' <= History * 2
    BY <1>3, <2>1, <2>2, <2>3
  <2> QED BY <1>2, <1>3, <2>1, <2>2, <2>4 DEF Counted, Granted, Room
<1>7. Verdicts' /\ HistoryKept' /\ Contents' /\ Finished'
  BY <1>1, <1>2 DEF IInv, Verdicts, HistoryKept, Contents, Finished
<1>8. Returned'
  BY <1>1, <1>2 DEF IInv, Verdicts, Returned, Success
<1> QED BY <1>5, <1>6, <1>7, <1>8 DEF IInv

LEMMA FailuresPreserve ==
  ASSUME IInv, \E v \in Statuses : FlushFails(v) \/ ReturnFailure(v)
  PROVE  IInv'
<1> USE Typed
<1>1. PICK v \in Statuses : FlushFails(v) \/ ReturnFailure(v)
  OBVIOUS
<1>2. /\ phase \in {"decoding", "failed"} /\ phase' = "returned"
      /\ UNCHANGED <<medium, buffer, produced, call, chunk>>
  BY <1>1 DEF FlushFails, ReturnFailure, sink
<1>3. /\ taken' = taken /\ contents' \in Seq(Bytes)
      /\ file' \in {"absent", "stale", "ours"} /\ sinkStatus' \in {"ok", "write_error"}
      /\ sinkStatus' = "ok" => contents' = taken
      /\ status' \in Statuses \ {"truncated_data"}
      /\ result'.status \in Statuses \ Kept
      /\ result' \in [status : Statuses \cup {"none"}, output_size : Nat]
  <2>1. CASE ReturnFailure(v)
    <3>1. v \in Statuses \ Kept
      BY <1>2, <2>1 DEF ReturnFailure, IInv, Verdicts, TypeOK, Statuses, Kept
    <3> QED
      BY <1>2, <2>1, <3>1
         DEF ReturnFailure, Reconciled, sink, IInv, TypeOK, Verdicts, Contents
  <2>2. CASE status # "ok" /\ UNCHANGED <<sink, status>> /\ Reconciled(status', 0)
    <3>1. status \in Statuses \ Kept
      BY <2>2 DEF IInv, Verdicts, TypeOK, Statuses, Kept
    <3> QED
      BY <1>2, <2>2, <3>1 DEF Reconciled, sink, IInv, TypeOK, Verdicts, Contents
  <2>3. CASE /\ phase = "decoding" /\ WriteFails(buffer) /\ status' = sinkStatus'
             /\ Reconciled(status', 0)
    <3>1. sinkStatus = "ok" /\ Len(buffer) <= Len(buffer)
      BY <2>3 DEF IInv, Verdicts
    <3>2. /\ taken' = taken /\ contents' \in Seq(Bytes) /\ sinkStatus' = "write_error"
          /\ file' \in {"absent", "stale", "ours"}
      BY <2>3, <3>1, Failing
    <3>3. "write_error" \in Statuses \ Kept
      BY DEF Statuses, Kept
    <3>4. result' = [status |-> "write_error", output_size |-> 0]
      BY <2>3, <3>2, <3>3 DEF Reconciled
    <3> QED BY <2>3, <3>2, <3>3, <3>4
  <2> QED BY <1>1, <2>1, <2>2, <2>3 DEF FlushFails
<1>4. TypeOK'
  BY <1>2, <1>3 DEF IInv, TypeOK, Phases
<1>5. Counted' /\ Granted' /\ Room'
  BY <1>2, <1>3 DEF IInv, Counted, Granted, Room
<1>6. Verdicts' /\ HistoryKept' /\ Contents' /\ Returned' /\ Finished'
  BY <1>2, <1>3 DEF Verdicts, HistoryKept, Contents, Returned, Finished
<1> QED BY <1>4, <1>5, <1>6 DEF IInv

LEMMA EndingPreserves ==
  ASSUME IInv, Keep \/ FinishFails \/ DiscardFailure
  PROVE  IInv'
<1> USE Typed
<1>1. CASE Keep
  BY <1>1
     DEF Keep, IInv, TypeOK, Counted, Granted, Room, Verdicts, HistoryKept, Contents,
         Returned, Finished, Success, Phases
<1>2. CASE FinishFails \/ DiscardFailure
  <2>1. PICK v \in Statuses \ Kept : phase = "returned" /\ Discard(v)
    BY <1>2 DEF FinishFails, DiscardFailure, Statuses, Kept, IInv, Returned
  <2>2. << >> \in Seq(Bytes)
    BY EmptySeq
  <2>3. result' \in [status : Statuses \cup {"none"}, output_size : Nat]
    BY <2>1 DEF Discard
  <2>4. TypeOK'
    BY <2>1, <2>2, <2>3 DEF Discard, IInv, TypeOK, Phases
  <2>5. Counted' /\ Granted' /\ Room'
    BY <2>1 DEF Discard, IInv, Counted, Granted, Room
  <2>6. Verdicts' /\ HistoryKept' /\ Contents' /\ Returned' /\ Finished'
    BY <2>1 DEF Discard, IInv, Verdicts, HistoryKept, Contents, Returned, Finished
  <2> QED BY <2>4, <2>5, <2>6 DEF IInv
<1> QED BY <1>1, <1>2

LEMMA Preserved == IInv /\ [Next]_vars => IInv'
<1> SUFFICES ASSUME IInv, [Next]_vars PROVE IInv'
  OBVIOUS
<1>1. CASE UNCHANGED vars
  BY <1>1
     DEF vars, sink, IInv, TypeOK, Counted, Granted, Room, Verdicts, HistoryKept, Contents,
         Returned, Finished, Success
<1>2. CASE \E n \in 1 .. MaxRun : \/ AppendLiterals(n)
                                  \/ \E d \in 0 .. MaxDistance : CopyMatch(d, n)
  BY <1>2, CallsPreserve
<1>3. CASE ReserveRoom \/ DrainToHistory \/ DrainFails
  BY <1>3, RoomPreserves
<1>4. CASE (\E b \in Bytes : Insert(b)) \/ CallReturns
  BY <1>4, InsertPreserves
<1>5. CASE \E v \in Statuses : FlushAndReturn(v)
  BY <1>5, FlushPreserves
<1>6. CASE \E v \in Statuses : FlushFails(v) \/ ReturnFailure(v)
  BY <1>6, FailuresPreserve
<1>7. CASE Keep \/ FinishFails \/ DiscardFailure
  BY <1>7, EndingPreserves
<1> QED BY <1>1, <1>2, <1>3, <1>4, <1>5, <1>6, <1>7 DEF Next, Done

LEMMA Invariant == Spec => []IInv
BY Started, Preserved, PTL DEF Spec

\* The writer, its sink and the result are typed throughout.
THEOREM TypeCorrect == Spec => []TypeOK
<1>1. IInv => TypeOK
  BY DEF IInv
<1> QED BY <1>1, Invariant, PTL

\* The buffer stays within the room reserved for it, and the sink's own ceiling
\* is never what stops a decoder.
THEOREM NeverGrown == Spec => []NeverOutgrown
<1>1. IInv => NeverOutgrown
  <2> SUFFICES ASSUME IInv PROVE NeverOutgrown
    OBVIOUS
  <2>1. Len(buffer) <= History * 2
    BY Typed DEF IInv, Room
  <2>2. produced <= MaxOutputSize
    BY Typed DEF IInv, Granted
  <2> QED BY <2>1, <2>2 DEF IInv, Verdicts, NeverOutgrown
<1> QED BY <1>1, Invariant, PTL

\* The status and the size returned agree with the file or the vector.
LEMMA ResultAgrees == IInv => ResultTellsOutput
<1> SUFFICES ASSUME IInv, phase = "done"
             PROVE  /\ result.output_size = Len(contents)
                    /\ IF result.status \in Kept
                       THEN result.output_size = produced /\ (medium = "file" => file = "ours")
                       ELSE file = "absent"
  BY DEF ResultTellsOutput
<1>1. Len(<< >>) = 0
  BY EmptySeq
<1>2. CASE result.status \in Kept
  BY <1>1, <1>2, Typed DEF IInv, Counted, Finished, Success
<1>3. CASE result.status \notin Kept
  BY <1>1, <1>3 DEF IInv, Finished
<1> QED BY <1>2, <1>3

-----------------------------------------------------------------------------
(* The refinement.                                                         *)

\* What the abstract decoder sees of a writer at work.
Stream == taken \o buffer
Refused == IF status \in {"invalid_data", "output_limit_exceeded"} THEN status ELSE "no"

\* Nothing of what it sees changes.
Unseen ==
  /\ taken' \o buffer' = taken \o buffer
  /\ call' = call /\ Refused' = Refused
  /\ phase # "done" /\ phase' # "done"

LEMMA UnseenStutters ==
  ASSUME Unseen PROVE UNCHANGED D!vars
BY DEF Unseen, Refused, D!vars

LEMMA StreamLength ==
  ASSUME IInv
  PROVE  /\ Stream \in Seq(Bytes) /\ Len(Stream) = produced
         /\ \A d \in 1 .. Len(buffer) :
              Stream[Len(Stream) + 1 - d] = buffer[Len(buffer) + 1 - d]
<1>1. /\ taken \in Seq(Bytes) /\ buffer \in Seq(Bytes)
      /\ Len(taken) \in Nat /\ Len(buffer) \in Nat
  BY Typed
<1>2. /\ Stream \in Seq(Bytes) /\ Len(Stream) = Len(taken) + Len(buffer)
      /\ \A i \in 1 .. Len(taken) + Len(buffer) :
           Stream[i] = IF i <= Len(taken) THEN taken[i] ELSE buffer[i - Len(taken)]
  BY <1>1, ConcatProperties DEF Stream
<1>3. ASSUME NEW d \in 1 .. Len(buffer)
      PROVE  Stream[Len(Stream) + 1 - d] = buffer[Len(buffer) + 1 - d]
  <2>1. /\ Len(Stream) + 1 - d \in 1 .. Len(taken) + Len(buffer)
        /\ ~(Len(Stream) + 1 - d <= Len(taken))
        /\ Len(Stream) + 1 - d - Len(taken) = Len(buffer) + 1 - d
    BY <1>1, <1>2
  <2> QED BY <1>2, <2>1
<1> QED BY <1>2, <1>3 DEF IInv, Counted

\* A call is accepted, or refused for the same reason.
LEMMA CallsRefine ==
  ASSUME IInv, NEW n \in 1 .. MaxRun, NEW d \in 0 .. MaxDistance,
         (d = 0 /\ AppendLiterals(n)) \/ CopyMatch(d, n)
  PROVE  D!Next
<1>1. n \in Nat \ {0} /\ d \in Nat
  BY WriterAssumption DEF WriterAssumption
<1>2. /\ phase = "decoding" /\ status = "ok" /\ call.remaining = 0
  BY DEF AppendLiterals, CopyMatch, IInv, Verdicts
<1>3. Len(taken \o buffer) = produced
  BY StreamLength DEF Stream
<1>4. D!Fits(n) <=> Fits(n)
  <2>1. produced \in Nat /\ MaxOutputSize \in Nat /\ produced <= MaxOutputSize
    BY <1>2, Typed DEF IInv, Granted
  <2> QED BY <1>1, <1>3, <2>1 DEF D!Fits, Fits
<1>5. D!InHistory(d) <=> InWindow(d)
  <2>1. taken = << >> \/ Len(buffer) >= History
    BY <1>2 DEF IInv, HistoryKept
  <2>2. taken = << >> => produced = Len(buffer)
    BY Typed, EmptySeq DEF IInv, Counted
  <2>3. produced >= Len(buffer)
    BY Typed DEF IInv, Counted
  <2> QED BY <1>1, <1>3, <2>1, <2>2, <2>3, Typed DEF D!InHistory, InWindow
<1>6. D!Waiting
  BY <1>2 DEF D!Waiting
<1>7. CASE Begin(d, n) /\ Fits(n) /\ (d = 0 \/ InWindow(d))
  <2>1. /\ call' = [distance |-> d, length |-> n, remaining |-> n]
        /\ phase' = "inserting" /\ UNCHANGED <<taken, buffer, status, result, contents>>
    BY <1>7 DEF Begin, sink
  <2>2. D!Ask(call'.length)
    BY <1>1, <1>2, <1>6, <2>1 DEF D!Ask
  <2>3. D!Accept
    BY <1>4, <1>5, <1>7, <2>1, <2>2 DEF D!Accept
  <2> QED BY <2>3 DEF D!Next
<1>8. CASE Refuse("invalid_data", d, n) /\ ~InWindow(d)
  <2>1. /\ call' = [distance |-> d, length |-> n, remaining |-> 0]
        /\ phase' = "failed" /\ status' = "invalid_data"
        /\ UNCHANGED <<taken, buffer, result, contents>>
    BY <1>8 DEF Refuse, sink
  <2>2. D!Ask(0)
    BY <1>1, <1>2, <1>6, <2>1 DEF D!Ask
  <2>3. D!RefuseDistance
    BY <1>5, <1>8, <2>1, <2>2 DEF D!RefuseDistance
  <2> QED BY <2>3 DEF D!Next
<1>9. CASE Refuse("output_limit_exceeded", d, n) /\ ~Fits(n)
  <2>1. /\ call' = [distance |-> d, length |-> n, remaining |-> 0]
        /\ phase' = "failed" /\ status' = "output_limit_exceeded"
        /\ UNCHANGED <<taken, buffer, result, contents>>
    BY <1>9 DEF Refuse, sink
  <2>2. D!Ask(0)
    BY <1>1, <1>2, <1>6, <2>1 DEF D!Ask
  <2>3. D!RefuseLength
    BY <1>4, <1>9, <2>1, <2>2 DEF D!RefuseLength
  <2> QED BY <2>3 DEF D!Next
<1> QED BY <1>7, <1>8, <1>9 DEF AppendLiterals, CopyMatch

\* Draining and flushing move bytes that were there, and failing moves none.
LEMMA UnseenSteps ==
  ASSUME IInv,
         \/ ReserveRoom \/ DrainToHistory \/ DrainFails \/ CallReturns
         \/ \E v \in Statuses : FlushAndReturn(v) \/ FlushFails(v) \/ ReturnFailure(v)
  PROVE  Unseen
<1>1. CASE ReserveRoom \/ CallReturns
  BY <1>1 DEF ReserveRoom, CallReturns, sink, Unseen, Refused
<1>2. CASE DrainToHistory
  <2>1. /\ phase = "inserting" /\ WriteTakes(Older) /\ Len(buffer) > History
        /\ buffer' = SubSeq(buffer, Excess + 1, Len(buffer))
        /\ UNCHANGED <<call, status, phase>>
    BY <1>2 DEF DrainToHistory
  <2>2. /\ Older \in Seq(Bytes) /\ buffer' \in Seq(Bytes) /\ Older \o buffer' = buffer
    BY <2>1, Excessive
  <2>3. taken' = taken \o Older
    BY <2>1 DEF WriteTakes
  <2>4. (taken \o Older) \o buffer' = taken \o (Older \o buffer')
    <3>1. taken \in Seq(Bytes)
      BY Typed
    <3> QED BY <2>2, <3>1, Moving, Zenon
  <2> QED BY <2>1, <2>2, <2>3, <2>4 DEF Unseen, Refused
<1>3. CASE DrainFails
  <2>1. /\ phase = "inserting" /\ WriteFails(Older) /\ Len(buffer) > History
        /\ status' = sinkStatus' /\ phase' = "failed" /\ UNCHANGED <<buffer, call>>
    BY <1>3 DEF DrainFails
  <2>2. status = "ok" /\ sinkStatus = "ok"
    BY <2>1 DEF IInv, Verdicts
  <2>3. taken' = taken /\ status' = "write_error"
    BY <2>1, <2>2, Excessive, Failing
  <2> QED BY <2>1, <2>2, <2>3 DEF Unseen, Refused
<1>4. CASE \E v \in Statuses : FlushAndReturn(v)
  <2>1. /\ phase = "decoding" /\ phase' = "returned" /\ WriteTakes(buffer) /\ buffer' = << >>
        /\ UNCHANGED <<status, call>>
    BY <1>4 DEF FlushAndReturn
  <2>2. taken' = taken \o buffer /\ taken' \in Seq(Bytes)
    BY <2>1, Taking, Typed
  <2>3. taken' \o << >> = taken'
    BY <2>2, ConcatEmptySeq
  <2> QED BY <2>1, <2>2, <2>3 DEF Unseen, Refused
<1>5. CASE \E v \in Statuses : FlushFails(v) \/ ReturnFailure(v)
  <2>1. PICK v \in Statuses : FlushFails(v) \/ ReturnFailure(v)
    BY <1>5
  <2>2. /\ phase \in {"decoding", "failed"} /\ phase' = "returned"
        /\ UNCHANGED <<buffer, call>>
    BY <2>1 DEF FlushFails, ReturnFailure
  <2>3. CASE UNCHANGED <<sink, status>>
    BY <2>2, <2>3 DEF sink, Unseen, Refused
  <2>4. CASE phase = "decoding" /\ WriteFails(buffer) /\ status' = sinkStatus'
    <3>1. status = "ok" /\ sinkStatus = "ok"
      BY <2>4 DEF IInv, Verdicts
    <3>2. taken' = taken /\ status' = "write_error"
      BY <2>4, <3>1, Failing, Typed
    <3> QED BY <2>2, <3>1, <3>2 DEF Unseen, Refused
  <2> QED BY <2>1, <2>3, <2>4 DEF FlushFails, ReturnFailure
<1> QED BY <1>1, <1>2, <1>3, <1>4, <1>5

\* A byte inserted is the one an unlimited memory has at that distance.
LEMMA InsertRefines ==
  ASSUME IInv, NEW b \in Bytes, Insert(b)
  PROVE  D!Put
<1>1. /\ phase = "inserting" /\ chunk > 0 /\ buffer' = Append(buffer, b)
      /\ call' = [call EXCEPT !.remaining = @ - 1]
      /\ call.distance > 0 => b = buffer[Len(buffer) + 1 - call.distance]
      /\ UNCHANGED <<taken, contents, status, phase, result>>
  BY DEF Insert, sink
<1>2. call.remaining > 0
  BY <1>1, Typed DEF IInv, Room
<1>3. call.distance > 0 => b = (taken \o buffer)[Len(taken \o buffer) + 1 - call.distance]
  <2>1. call.distance > 0 => call.distance \in 1 .. Len(buffer)
    BY <1>1, Typed DEF IInv, HistoryKept
  <2> QED BY <1>1, <2>1, StreamLength DEF Stream
<1>4. taken' \o buffer' = Append(taken \o buffer, b)
  <2>1. taken \in Seq(Bytes) /\ buffer \in Seq(Bytes) /\ taken \o buffer \in Seq(Bytes)
    BY Typed, StreamLength DEF Stream
  <2>2. <<b>> \in Seq(Bytes)
    OBVIOUS
  <2>3. /\ Append(taken \o buffer, b) = (taken \o buffer) \o <<b>>
        /\ Append(buffer, b) = buffer \o <<b>>
    BY <2>1, AppendIsConcat
  <2>4. (taken \o buffer) \o <<b>> = taken \o (buffer \o <<b>>)
    BY <2>1, <2>2, ConcatAssociative
  <2> QED BY <1>1, <2>3, <2>4
<1> QED BY <1>1, <1>2, <1>3, <1>4 DEF D!Put

\* What is left is all of the output, or nothing.
LEMMA EndingRefines ==
  ASSUME IInv, Keep \/ FinishFails \/ DiscardFailure
  PROVE  D!End
<1>1. CASE Keep
  <2>1. /\ phase = "returned" /\ result.status \in Kept /\ phase' = "done"
        /\ UNCHANGED <<taken, contents, buffer, status, call, result>>
    BY <1>1 DEF Keep
  <2>2. /\ status = "ok" /\ sinkStatus = "ok" /\ buffer = << >> /\ call.remaining = 0
        /\ contents = taken
    BY <2>1 DEF IInv, Returned, Success, Contents
  <2>3. taken \o buffer = contents
    BY <2>2, Typed, ConcatEmptySeq
  <2>4. D!Waiting
    BY <2>1, <2>2 DEF D!Waiting
  <2> QED BY <2>1, <2>3, <2>4 DEF D!End, Kept, D!Kept
<1>2. CASE FinishFails \/ DiscardFailure
  <2>1. PICK v \in Statuses \ Kept : phase = "returned" /\ Discard(v)
    BY <1>2 DEF FinishFails, DiscardFailure, Statuses, Kept, IInv, Returned
  <2>2. /\ phase' = "done" /\ contents' = << >> /\ result'.status = v
        /\ UNCHANGED <<taken, buffer, status, call>>
    BY <2>1 DEF Discard
  <2> QED BY <2>1, <2>2 DEF D!End, Kept, D!Kept, Statuses
<1> QED BY <1>1, <1>2

LEMMA InitRefines == Init => D!Init
<1> SUFFICES ASSUME Init PROVE D!Init
  OBVIOUS
<1>1. << >> \in Seq(Bytes) /\ << >> \o << >> = << >>
  BY EmptySeq, ConcatEmptySeq
<1> QED BY <1>1 DEF Init, D!Init, Idle, D!Idle

LEMMA NextRefines == IInv /\ [Next]_vars => [D!Next]_(D!vars)
<1> SUFFICES ASSUME IInv, [Next]_vars PROVE D!Next \/ UNCHANGED D!vars
  OBVIOUS
<1>1. CASE UNCHANGED vars
  BY <1>1 DEF vars, sink, D!vars
<1>2. CASE \E n \in 1 .. MaxRun : \/ AppendLiterals(n)
                                  \/ \E d \in 0 .. MaxDistance : CopyMatch(d, n)
  <2>1. 0 \in 0 .. MaxDistance
    BY WriterAssumption DEF WriterAssumption
  <2> QED BY <1>2, <2>1, CallsRefine
<1>3. CASE \/ ReserveRoom \/ DrainToHistory \/ DrainFails \/ CallReturns
           \/ \E v \in Statuses : FlushAndReturn(v) \/ FlushFails(v) \/ ReturnFailure(v)
  BY <1>3, UnseenSteps, UnseenStutters
<1>4. CASE \E b \in Bytes : Insert(b)
  BY <1>4, InsertRefines DEF D!Next
<1>5. CASE Keep \/ FinishFails \/ DiscardFailure
  BY <1>5, EndingRefines DEF D!Next
<1> QED BY <1>1, <1>2, <1>3, <1>4, <1>5 DEF Next, Done

-----------------------------------------------------------------------------
(* The loops around a library's decoder.                                   *)

LoopTypeOK ==
  /\ codec \in Codecs /\ stream \in Loop!Streams(codec) /\ ceiling \in Ceilings
  /\ fed \in Nat /\ consumed \in Nat /\ emitted \in Nat /\ written \in Nat
  /\ answer \in [code : {"none", "end", "ok", "error", "eof", "internal"},
                 got : Nat, progressed : BOOLEAN]
  /\ loopPhase \in {"feed", "call", "answer", "done"}

\* The library is ahead of nothing, and is called with all the input there is,
\* or with some it has not taken yet.
Ahead ==
  /\ consumed <= fed /\ fed <= stream.available
  /\ consumed <= stream.ends /\ consumed <= stream.bad
  /\ loopPhase = "call" => IF Loop!FeedsInPieces THEN consumed < fed ELSE fed = stream.available

\* What the library gave the sink has, or is about to get.
Balanced ==
  /\ loopPhase \in {"feed", "call"} => written = emitted
  /\ loopPhase = "answer" => written + answer.got = emitted

\* While a loop goes on the trailer of its stream was not read to its end: it is
\* taken with the last of the output.
Unfinished ==
  /\ Loop!HasTrailer(codec)
  /\ loopPhase \in {"feed", "call"} \/ (loopPhase = "answer" /\ answer.code # "end")
  => consumed < stream.ends

Missing == stream.ends > stream.available

\* The answer is one about this stream.
Understood ==
  loopPhase = "answer" =>
    /\ answer.code = "end" => consumed = stream.ends /\ emitted = Loop!Total
    /\ answer.code = "eof" => Missing
    /\ answer.code = "ok" /\ ~answer.progressed /\ Loop!UsedUp /\ ~stream.stalls => Missing

\* The verdicts; of raw deflate the second is not true.
Verdict ==
  /\ loopStatus = "ok" => written = Loop!Total /\ consumed = stream.ends
  /\ loopStatus = "truncated_data" /\ ~stream.stalls /\ codec # "deflate" => Missing
  /\ loopPhase # "done" => loopStatus = "none"

LoopInv == LoopTypeOK /\ Ahead /\ Balanced /\ Unfinished /\ Understood /\ Verdict

\* What a stream is.
LEMMA StreamShape ==
  ASSUME NEW c, NEW s \in Loop!Streams(c)
  PROVE  /\ s.available \in 1 .. MaxInput /\ s.ends \in 1 .. MaxInput + 1
         /\ s.bad \in 0 .. MaxInput + 1 /\ s.stalls \in BOOLEAN
         /\ \A n \in 0 .. MaxInput + 1 : s.told[n] \in Nat
         /\ Loop!HasTrailer(c) => s.told[s.ends - 1] = s.told[s.ends]
         /\ s.bad < s.ends => s.told[s.bad] = s.told[s.ends]
BY SizesAssumption DEF SizesAssumption, Loop!Streams

LEMMA LoopStarts == Loop!Init => LoopInv
<1> SUFFICES ASSUME Loop!Init PROVE LoopInv
  OBVIOUS
<1>1. stream \in Loop!Streams(codec)
  BY DEF Loop!Init
<1> QED
  BY <1>1, StreamShape
  DEF Loop!Init, Loop!NoAnswer, LoopInv, LoopTypeOK, Ahead, Balanced, Unfinished, Understood, Verdict

LEMMA FeedPreserves == LoopInv /\ (Loop!Feed \/ Loop!FeedAll) => LoopInv'
<1> SUFFICES ASSUME LoopInv, Loop!Feed \/ Loop!FeedAll PROVE LoopInv'
  OBVIOUS
<1>1. /\ stream.available \in Nat /\ stream.ends \in Nat /\ stream.bad \in Nat
      /\ fed \in Nat /\ consumed \in Nat /\ MaxFeed \in Nat \ {0}
  BY StreamShape, SizesAssumption DEF LoopInv, LoopTypeOK, SizesAssumption
<1>2. UNCHANGED <<codec, stream, ceiling, consumed, emitted, written, answer>>
  BY DEF Loop!Feed, Loop!FeedAll, Loop!given
<1>3. loopPhase = "feed" /\ loopStatus = "none"
  BY DEF Loop!Feed, Loop!FeedAll, LoopInv, Verdict
<1>4. /\ fed' \in Nat /\ consumed <= fed' /\ fed' <= stream.available
      /\ loopPhase' \in {"call", "done"}
      /\ loopPhase' = "call" =>
           /\ loopStatus' = "none"
           /\ IF Loop!FeedsInPieces THEN consumed < fed' ELSE fed' = stream.available
      /\ loopPhase' = "done" =>
           /\ loopStatus' = "truncated_data" /\ consumed >= stream.available
           /\ codec \in {"deflate", "zlib", "bzip2", "lz4"}
  BY <1>1, <1>3 DEF Loop!Feed, Loop!FeedAll, Loop!Left, Loop!Smaller, Loop!Stop, LoopInv, Ahead,
                    Loop!FeedsInPieces
<1>5. loopPhase' = "done" /\ codec # "deflate" => Missing
  BY <1>1, <1>3, <1>4 DEF LoopInv, Unfinished, Missing, Loop!HasTrailer
<1>6. LoopTypeOK' /\ Ahead' /\ Balanced'
  BY <1>1, <1>2, <1>3, <1>4
  DEF LoopInv, LoopTypeOK, Ahead, Balanced, Loop!FeedsInPieces, Loop!Streams
<1>7. Unfinished' /\ Understood' /\ Verdict'
  BY <1>2, <1>3, <1>4, <1>5
  DEF LoopInv, Unfinished, Understood, Verdict, Missing, Loop!HasTrailer
<1> QED BY <1>6, <1>7 DEF LoopInv

\* What the library tells of a stream whose end it has reached.
LEMMA EndReached ==
  ASSUME LoopInv, NEW c \in Nat, NEW e \in Nat, Loop!Reaches(c, e), c = stream.ends,
         \/ Loop!HasTrailer(codec) /\ consumed < stream.ends
         \/ e = emitted
  PROVE  Loop!Ended(c, e)
<1>1. /\ stream.ends \in 1 .. MaxInput + 1 /\ ChunkSize \in Nat \ {0} /\ MaxInput \in Nat
      /\ \A n \in 0 .. MaxInput + 1 : stream.told[n] \in Nat
      /\ Loop!HasTrailer(codec) => stream.told[stream.ends - 1] = stream.told[stream.ends]
  BY StreamShape, SizesAssumption DEF LoopInv, LoopTypeOK, SizesAssumption
<1>2. e <= stream.told[c] /\ (e = emitted + ChunkSize \/ e = stream.told[c])
  BY DEF Loop!Reaches
<1>3. c > consumed => stream.told[c - 1] <= emitted + ChunkSize
  BY DEF Loop!Reaches
<1>4. CASE e = emitted
  BY <1>1, <1>2, <1>4 DEF Loop!Ended, Loop!Total, LoopInv, LoopTypeOK
<1>5. CASE Loop!HasTrailer(codec) /\ consumed < stream.ends
  BY <1>1, <1>2, <1>3, <1>5 DEF Loop!Ended, Loop!Total, LoopInv, LoopTypeOK
<1> QED BY <1>4, <1>5

LEMMA LibraryPreserves == LoopInv /\ (Loop!Decode \/ Loop!Stall) => LoopInv'
<1> SUFFICES ASSUME LoopInv, Loop!Decode \/ Loop!Stall PROVE LoopInv'
  OBVIOUS
<1>1. PICK c \in Nat, e \in Nat, code \in {"end", "ok", "error", "eof", "internal"} :
        /\ Loop!Answers(code, c, e) /\ consumed <= c /\ emitted <= e
        /\ \/ c = consumed /\ e = emitted /\ stream.stalls /\ code = "ok"
           \/ /\ Loop!Reaches(c, e)
              /\ code = "end" <=> Loop!Ended(c, e)
              /\ code = "eof" => /\ codec \in {"bzip2", "xz", "lzma"} /\ c = fed
                                 /\ c = consumed /\ e = emitted /\ ~Loop!Ended(c, e)
  <2>1. CASE Loop!Decode
    BY <2>1, SizesAssumption DEF Loop!Decode, Loop!Reaches, SizesAssumption
  <2>2. CASE Loop!Stall
    BY <2>2 DEF Loop!Stall, LoopInv, LoopTypeOK
  <2> QED BY <2>1, <2>2
<1>2. /\ stream.available \in Nat /\ stream.ends \in Nat /\ stream.bad \in Nat
      /\ fed \in Nat /\ consumed \in Nat /\ emitted \in Nat /\ written \in Nat
  BY StreamShape DEF LoopInv, LoopTypeOK
<1>3. /\ consumed' = c /\ emitted' = e /\ loopPhase' = "answer" /\ loopPhase = "call"
      /\ answer' = [code |-> code, got |-> e - emitted,
                    progressed |-> c > consumed \/ e > emitted]
      /\ UNCHANGED <<codec, stream, ceiling, fed, written, loopStatus>>
  BY <1>1 DEF Loop!Answers, Loop!given, Loop!Decode, Loop!Stall
<1>4. c <= fed /\ c <= stream.ends /\ c <= stream.bad
  BY <1>1, <1>2 DEF Loop!Reaches, Loop!Smaller, LoopInv, Ahead
<1>5. LoopTypeOK'
  BY <1>1, <1>2, <1>3 DEF LoopInv, LoopTypeOK, Loop!Streams
<1>6. Ahead' /\ Balanced'
  BY <1>1, <1>2, <1>3, <1>4 DEF LoopInv, LoopTypeOK, Ahead, Balanced
<1>7. Unfinished'
  <2> SUFFICES ASSUME Loop!HasTrailer(codec), code # "end" PROVE c < stream.ends
    BY <1>3 DEF Unfinished, Loop!HasTrailer
  <2>1. consumed < stream.ends
    BY <1>3 DEF LoopInv, Unfinished
  <2>2. CASE c = consumed
    BY <2>1, <2>2
  <2>3. CASE Loop!Reaches(c, e) /\ ~Loop!Ended(c, e)
    BY <1>2, <1>4, <2>1, <2>3, EndReached
  <2> QED BY <1>1, <2>2, <2>3
<1>8. ASSUME Loop!Reaches(c, e), ~Loop!Ended(c, e), c = fed, c = consumed, e = emitted,
             \/ ~Loop!FeedsInPieces
             \/ fed >= stream.available
      PROVE  Missing
  <2>1. fed = stream.available
    BY <1>2, <1>3, <1>8 DEF LoopInv, Ahead
  <2>2. c # stream.ends
    BY <1>8, EndReached
  <2> QED BY <1>2, <1>4, <2>1, <2>2, <1>8 DEF Missing
<1>9. Understood'
  <2>1. code = "end" => c = stream.ends /\ e = Loop!Total
    BY <1>1 DEF Loop!Ended
  <2>2. code = "eof" => Missing
    <3>1. code = "eof" => ~Loop!FeedsInPieces
      BY <1>1, <1>2, <1>3 DEF LoopInv, Ahead
    <3> QED BY <1>1, <1>8, <3>1
  <2>3. code = "ok" /\ ~(c > consumed \/ e > emitted) /\ c = fed /\ fed >= stream.available
          /\ ~stream.stalls => Missing
    BY <1>1, <1>2, <1>8
  <2> QED BY <1>3, <2>1, <2>2, <2>3 DEF Understood, Missing, Loop!Total, Loop!UsedUp
<1>10. Verdict'
  BY <1>3 DEF LoopInv, Verdict
<1> QED BY <1>5, <1>6, <1>7, <1>9, <1>10 DEF LoopInv

LEMMA SinkPreserves == LoopInv /\ (Loop!SinkRefuses \/ Loop!SinkTakes) => LoopInv'
<1> SUFFICES ASSUME LoopInv, Loop!SinkRefuses \/ Loop!SinkTakes PROVE LoopInv'
  OBVIOUS
<1>1. /\ stream.available \in Nat /\ stream.ends \in Nat
      /\ fed \in Nat /\ consumed \in Nat /\ emitted \in Nat /\ written \in Nat
      /\ answer.got \in Nat
  BY StreamShape DEF LoopInv, LoopTypeOK
<1>2. loopPhase = "answer" /\ loopStatus = "none" /\ written + answer.got = emitted
  BY DEF Loop!SinkRefuses, Loop!SinkTakes, LoopInv, Verdict, Balanced
<1>3. CASE Loop!SinkRefuses
  <2>1. /\ UNCHANGED <<codec, stream, ceiling, fed, consumed, emitted, written, answer>>
        /\ loopPhase' = "done" /\ loopStatus' \in {"output_limit_exceeded", "write_error"}
    BY <1>3 DEF Loop!SinkRefuses, Loop!Stop, Loop!given
  <2> QED
    BY <2>1 DEF LoopInv, LoopTypeOK, Ahead, Balanced, Unfinished, Understood, Verdict, Loop!Streams
<1>4. CASE Loop!SinkTakes
  <2> DEFINE Ended(why) == loopPhase' = "done" /\ loopStatus' = why
             Round == loopPhase' = "feed" /\ loopStatus' = "none"
  <2>1. /\ UNCHANGED <<codec, stream, ceiling, fed, consumed, emitted, answer>>
        /\ Loop!Takes
    BY <1>4 DEF Loop!SinkTakes, Loop!GoOn, Loop!GoOnCounting, Loop!Ends, Loop!GoesRound, Loop!given
  <2>2. \/ answer.code = "end" /\ Ended("ok")
        \/ answer.code = "ok" /\ (Round \/ Ended("invalid_data"))
        \/ answer.code = "ok" /\ Ended("truncated_data") /\ Loop!UsedUp
              /\ (~answer.progressed \/ codec = "zstd")
        \/ answer.code = "eof" /\ Ended("truncated_data")
        \/ answer.code \in {"error", "internal"} /\ (Ended("invalid_data") \/ Ended("internal_error"))
    BY <1>2, <1>4 DEF Loop!SinkTakes, Loop!GoOn, Loop!GoOnCounting, Loop!Ends, Loop!GoesRound, Loop!Stop
  <2>3. answer.code \in {"ok", "end"} => written' = emitted
    BY <1>1, <1>2, <2>1 DEF Loop!Takes, Loop!Written
  <2>4. written' \in Nat
    BY <1>1, <2>1 DEF Loop!Takes
  <2>5. loopStatus' = "truncated_data" /\ ~stream.stalls => Missing
    <3>1. CASE answer.code = "eof"
      BY <1>2, <3>1 DEF LoopInv, Understood
    <3>2. CASE answer.code = "ok" /\ Loop!UsedUp /\ ~answer.progressed
      BY <1>2, <3>2 DEF LoopInv, Understood
    <3>3. CASE answer.code = "ok" /\ Loop!UsedUp /\ codec = "zstd"
      BY <1>1, <1>2, <3>3 DEF LoopInv, Unfinished, Missing, Loop!HasTrailer, Loop!UsedUp
    <3> QED BY <2>2, <3>1, <3>2, <3>3
  <2>6. loopStatus' = "ok" => written' = Loop!Total /\ consumed = stream.ends
    BY <1>2, <2>2, <2>3 DEF LoopInv, Understood
  <2>7. LoopTypeOK' /\ Ahead' /\ Balanced'
    BY <2>1, <2>2, <2>3, <2>4 DEF LoopInv, LoopTypeOK, Ahead, Balanced, Loop!Streams
  <2>8. Unfinished' /\ Understood' /\ Verdict'
    BY <1>2, <2>1, <2>2, <2>5, <2>6
    DEF LoopInv, Unfinished, Understood, Verdict, Missing, Loop!HasTrailer, Loop!Total
  <2> QED BY <2>7, <2>8 DEF LoopInv
<1> QED BY <1>3, <1>4

-----------------------------------------------------------------------------
(* The call: one of the two decoders runs, the other is never started.     *)

CallInv ==
  \/ IInv /\ WithoutLoop
  \/ LoopInv /\ WithoutWriter

\* A decoder that is not called stays as it is.
LEMMA NotStarted ==
  /\ WithoutLoop => ~Loop!Step
  /\ WithoutWriter /\ [Next]_vars => UNCHANGED vars
<1>1. WithoutLoop => ~Loop!Step
  BY DEF WithoutLoop, Loop!Step, Loop!Feed, Loop!FeedAll, Loop!Decode, Loop!Stall,
         Loop!SinkRefuses, Loop!SinkTakes
<1>2. WithoutWriter /\ [Next]_vars => UNCHANGED vars
  <2> SUFFICES ASSUME WithoutWriter, Next PROVE UNCHANGED vars
    OBVIOUS
  <2>1. phase = "done"
    BY DEF WithoutWriter
  <2> QED
    BY <2>1 DEF Next, Done, AppendLiterals, CopyMatch, ReserveRoom, DrainToHistory, DrainFails,
                Insert, CallReturns, FlushAndReturn, FlushFails, ReturnFailure, Keep, FinishFails,
                DiscardFailure, Begin, Refuse
<1> QED BY <1>1, <1>2

LEMMA CallInvariant == CallSpec => []CallInv
<1>1. CallInit => CallInv
  BY Started, LoopStarts DEF CallInit, CallInv
<1>2. CallInv /\ [CallNext]_<<vars, loopVars>> => CallInv'
  <2> SUFFICES ASSUME CallInv, [CallNext]_<<vars, loopVars>> PROVE CallInv'
    OBVIOUS
  <2>1. CASE IInv /\ WithoutLoop
    <3>1. [Next]_vars /\ UNCHANGED loopVars
      BY <2>1, NotStarted DEF CallNext
    <3>2. IInv'
      BY <2>1, <3>1, Preserved
    <3>3. WithoutLoop'
      BY <2>1, <3>1 DEF WithoutLoop, loopVars, Loop!NoAnswer
    <3> QED BY <3>2, <3>3 DEF CallInv
  <2>2. CASE LoopInv /\ WithoutWriter
    <3>1. UNCHANGED vars /\ (Loop!Step \/ UNCHANGED loopVars)
      BY <2>2, NotStarted DEF CallNext
    <3>2. WithoutWriter'
      BY <2>2, <3>1 DEF WithoutWriter, vars, sink, Idle
    <3>3. CASE Loop!Step
      BY <2>2, <3>2, <3>3, FeedPreserves, LibraryPreserves, SinkPreserves DEF Loop!Step, CallInv
    <3>4. CASE UNCHANGED loopVars
      BY <2>2, <3>2, <3>4
      DEF loopVars, LoopInv, LoopTypeOK, Ahead, Balanced, Unfinished, Understood, Verdict, Missing,
          Loop!Streams, Loop!FeedsInPieces, Loop!HasTrailer, Loop!Total, Loop!UsedUp, CallInv
    <3> QED BY <2>2, <3>1, <3>2, <3>3, <3>4 DEF CallInv
  <2> QED BY <2>1, <2>2 DEF CallInv
<1> QED BY <1>1, <1>2, PTL DEF CallSpec

\* Whatever the stream, its chunks and the answers of the library: a loop that
\* answers ok wrote all of the output, and says how long the stream was.
THEOREM OkIsAllOfIt == CallSpec => []OkIsComplete
<1>1. CallInv => OkIsComplete
  BY DEF CallInv, LoopInv, Verdict, WithoutLoop, OkIsComplete, Loop!OkIsComplete
<1> QED BY <1>1, CallInvariant, PTL

\* A loop that calls a stream cut off has not seen its end, unless the library
\* stalled; raw deflate is the exception the third finding is about.
THEOREM CutOffIsMissing ==
  ASSUME "deflate" \notin Codecs
  PROVE  CallSpec => []TruncatedIsCutOff
<1>1. CallInv => TruncatedIsCutOff
  BY DEF CallInv, LoopInv, LoopTypeOK, Verdict, Missing, WithoutLoop, TruncatedIsCutOff,
         Loop!TruncatedIsCutOff
<1> QED BY <1>1, CallInvariant, PTL

\* The status and the size returned agree with the file or the vector.
THEOREM ResultIsTrue == CallSpec => []ResultTellsOutput
<1>1. WithoutWriter => ResultTellsOutput
  <2>1. Len(<< >>) = 0
    BY EmptySeq
  <2> QED BY <2>1 DEF WithoutWriter, ResultTellsOutput, Kept
<1>2. CallInv => ResultTellsOutput
  BY <1>1, ResultAgrees DEF CallInv
<1> QED BY <1>2, CallInvariant, PTL

\* Through any drains, failures and ends the output is that of a decoder that
\* keeps all of it in memory.
THEOREM Refinement == CallSpec => ImplementsDecodedOutput
<1>1. CallInit => D!Init
  <2>1. << >> \in Seq(Bytes) /\ << >> \o << >> = << >>
    BY EmptySeq, ConcatEmptySeq
  <2>2. WithoutWriter => D!Init
    BY <2>1 DEF WithoutWriter, D!Init, Idle, D!Idle
  <2> QED BY <2>2, InitRefines DEF CallInit
<1>2. CallInv /\ [CallNext]_<<vars, loopVars>> => [D!Next]_(D!vars)
  <2> SUFFICES ASSUME CallInv, [CallNext]_<<vars, loopVars>> PROVE [D!Next]_(D!vars)
    OBVIOUS
  <2>1. [Next]_vars
    BY NotStarted DEF CallInv, CallNext
  <2>2. CASE IInv
    BY <2>1, <2>2, NextRefines
  <2>3. CASE WithoutWriter
    <3>1. UNCHANGED vars
      BY <2>1, <2>3, NotStarted
    <3> QED BY <3>1 DEF vars, sink, D!vars
  <2> QED BY <2>2, <2>3 DEF CallInv
<1> QED BY <1>1, <1>2, CallInvariant, PTL DEF CallSpec, ImplementsDecodedOutput, D!Spec
=============================================================================
