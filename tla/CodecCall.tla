------------------------------ MODULE CodecCall ------------------------------
(***************************************************************************)
(* One call of codec_decompress (lib/src/codec/codec.cpp): it dispatches   *)
(* on the codec, to a decoder of its own that writes through a window      *)
(* (WindowWriter, which also has what codec_decompress does after the      *)
(* decoder) or to the loop around a library's decoder (StreamCodec).       *)
(***************************************************************************)
EXTENDS WindowWriter

CONSTANTS Codecs, MaxInput, MaxOutput, ChunkSize, MaxFeed, Ceilings

ASSUME SizesAssumption ==
  /\ MaxInput \in Nat \ {0} /\ MaxOutput \in Nat
  /\ ChunkSize \in Nat \ {0} /\ MaxFeed \in Nat \ {0} /\ Ceilings \subseteq Nat

VARIABLES codec, stream, ceiling, fed, consumed, emitted, written, idleRounds,
          loopPhase, answer, loopStatus

Loop == INSTANCE StreamCodec WITH
  produced <- written, phase <- loopPhase, status <- loopStatus

\* The decoder that is not called: nothing of it ever happens.
WithoutWriter ==
  /\ medium = "null" /\ file = "absent" /\ phase = "done"
  /\ taken = << >> /\ contents = << >> /\ sinkStatus = "ok" /\ buffer = << >>
  /\ produced = 0 /\ status = "ok" /\ call = Idle /\ chunk = 0
  /\ result = [status |-> "none", output_size |-> 0]

WithoutLoop ==
  /\ codec = "none" /\ stream = "none" /\ ceiling = 0 /\ loopPhase = "done"
  /\ fed = 0 /\ consumed = 0 /\ emitted = 0 /\ written = 0 /\ idleRounds = 0
  /\ answer = Loop!NoAnswer /\ loopStatus = "none"

loopVars == <<codec, stream, ceiling, fed, consumed, emitted, written, idleRounds,
              loopPhase, answer, loopStatus>>

CallInit == \/ Init /\ WithoutLoop
            \/ Loop!Init /\ WithoutWriter

CallNext == \/ Next /\ UNCHANGED loopVars
            \/ Loop!Step /\ UNCHANGED vars

\* The loop is one call on one thread.
CallSpec == CallInit /\ [][CallNext]_<<vars, loopVars>> /\ WF_loopVars(Loop!Step)

-----------------------------------------------------------------------------
(* The properties of the loop, under the names StreamCodec states them by. *)

\* ok stands for the whole output of a stream that is all there, and the input
\* said to be consumed is that of the stream, whatever follows it.
OkIsComplete == Loop!OkIsComplete

\* truncated_data stands for a stream whose end is missing, if the library does
\* its part.
TruncatedIsCutOff == Loop!TruncatedIsCutOff

\* The loop ends whatever the library does: input that is used up, a full sink
\* and rounds without progress all stop it.
LoopEnds == Loop!LoopEnds
=============================================================================
