---------------------------- MODULE DecodedOutput -----------------------------
(***************************************************************************)
(* What a decompressor that copies from its own output promises, as if the *)
(* whole output stayed in memory: a match repeats the byte `distance` back *)
(* from the end; a call that asks for more than the ceiling leaves, or for *)
(* bytes outside the history, is refused as a whole; and when it ends, all *)
(* of the output is left if the input was good or merely cut off, and none *)
(* of it otherwise.                                                        *)
(***************************************************************************)
EXTENDS Integers, Sequences

CONSTANTS Bytes, History, MaxOutputSize

VARIABLES stream,   \* everything decoded so far
          call,     \* the last call, and what it still owes; distance 0: literals
          refused,  \* why a call was refused, or "no"
          outcome,  \* the status returned, or "none"
          left      \* the output left behind

vars == <<stream, call, refused, outcome, left>>

Kept == {"ok", "truncated_data"}
Idle == [distance |-> 0, length |-> 0, remaining |-> 0]

Init == /\ stream = << >>
        /\ call = Idle
        /\ refused = "no"
        /\ outcome = "none"
        /\ left = << >>

Waiting == outcome = "none" /\ refused = "no" /\ call.remaining = 0

InHistory(distance) == distance \in 1 .. History /\ distance <= Len(stream)
Fits(length) == Len(stream) + length <= MaxOutputSize

\* The call made next: `remaining` of its bytes are owed.
Ask(owed) ==
  /\ Waiting
  /\ call' \in [distance : Nat, length : Nat \ {0}, remaining : Nat]
  /\ call'.remaining = owed
  /\ UNCHANGED <<stream, outcome, left>>

Accept ==
  /\ Ask(call'.length)
  /\ call'.distance = 0 \/ InHistory(call'.distance)
  /\ Fits(call'.length)
  /\ UNCHANGED refused

RefuseDistance ==
  /\ Ask(0)
  /\ ~InHistory(call'.distance)
  /\ refused' = "invalid_data"

RefuseLength ==
  /\ Ask(0)
  /\ ~Fits(call'.length)
  /\ refused' = "output_limit_exceeded"

Put ==
  /\ outcome = "none" /\ call.remaining > 0
  /\ \E byte \in Bytes :
       /\ call.distance > 0 => byte = stream[Len(stream) + 1 - call.distance]
       /\ stream' = Append(stream, byte)
  /\ call' = [call EXCEPT !.remaining = @ - 1]
  /\ UNCHANGED <<refused, outcome, left>>

End ==
  /\ outcome = "none"
  /\ \E status \in Kept \cup {"invalid_data", "output_limit_exceeded", "write_error"} :
       /\ outcome' = status
       /\ status \in Kept => Waiting
       /\ left' = IF status \in Kept THEN stream ELSE << >>
  /\ UNCHANGED <<stream, call, refused>>

Next == Accept \/ RefuseDistance \/ RefuseLength \/ Put \/ End

Spec == Init /\ [][Next]_vars
=============================================================================
