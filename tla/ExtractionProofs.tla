--------------------------- MODULE ExtractionProofs ---------------------------
(***************************************************************************)
(* For any file maps, exit codes, utilities and leftovers of earlier runs: *)
(* a success stands for output, a failure leaves nothing, neither touches  *)
(* the directory of an earlier result, and run_process tells the truth.    *)
(***************************************************************************)
EXTENDS Extraction, TLAPS

\* Where run_process is, its child has one of a few states.
Calls ==
  /\ at # "idle" => phase = "run"
  /\ at = "idle" => child = "none" /\ code = P!NoCode
  /\ at \in {"poll", "looked"} =>
       /\ child \in {"running", "zombie", "gone"}
       /\ child = "zombie" => code # P!NoCode
       /\ child = "gone" => ignoring
  /\ at = "reap" => child # "none" /\ late
  /\ child = "running" => at \in {"poll", "looked", "reap"}
  /\ at = "returned" => answer.status # "none"
  /\ P!AnswerIsTrue

Busy == {"internal", "carve", "run", "judge"}

\* The directory at hand exists and began empty, unless somebody meddled; what
\* meddlers write is theirs.
AtHand ==
  /\ phase # "choose" => next \in DOMAIN map /\ Kind \notin {"declined", "unknown"}
  /\ phase \in Busy => next \in present /\ ("old" \in files[next] => next \in stubborn \cup orphans)
  /\ \A k \in DOMAIN map :
       /\ "orphan" \in files[k] => k \in orphans
       /\ "input" \in files[k] => k \in stubborn \/ (phase = "run" /\ k = next)
       /\ k \notin present => files[k] = {}

\* Results that no attempt was made for have what an earlier run left.
Untouched ==
  \A k \in DOMAIN map :
    (k > next \/ (k = next /\ phase \in {"choose", "prepare"})) /\ Undisturbed(k)
      => files[k] \subseteq {"old"}

Verdict ==
  /\ extraction.success => extraction.failure = "none"
  /\ phase \in {"judge", "judged"} /\ ~extraction.success =>
       extraction.failure \notin {"none", "unrecorded"}

\* What is said of an extraction, recorded or about to be, and its directory.
Holds(e, k) ==
  /\ e.success =>
       /\ k \in present /\ files[k] \cap Full # {}
       /\ Undisturbed(k) => "own" \in files[k] /\ "old" \notin files[k]
  /\ e.failure \notin {"none", "unrecorded", "write_error"} /\ Undisturbed(k) => k \notin present
  /\ e.failure = "write_error" /\ Undisturbed(k) => files[k] \subseteq {"old"}

Judged == phase = "judged" => Holds(extraction, next)
Past == \A k \in DOMAIN map : /\ Holds(results[k], k)
                              /\ k >= next => results[k] = Unrecorded

IInv == TypeOK /\ Calls /\ AtHand /\ Untouched /\ Verdict /\ Judged /\ Past

-----------------------------------------------------------------------------

LEMMA Started == Init => IInv
<1> SUFFICES ASSUME Init PROVE IInv
  OBVIOUS
<1>1. map \in Seq([kind : {"declined", "unknown", "internal", "external", "none"},
                   narrow : BOOLEAN])
      /\ Codes \subseteq Nat
  BY ExtractionAssumption DEF ExtractionAssumption, Init
<1>2. \A k \in DOMAIN map : results[k] = Unrecorded /\ files[k] \subseteq {"old"}
  BY DEF Init
<1>3. TypeOK
  <2>1. P!TypeOK
    BY DEF Init, P!Init, P!TypeOK, P!NoAnswer, P!NoCode
  <2>2. results \in [DOMAIN map -> Extractions] /\ extraction \in Extractions
    BY DEF Init, Unrecorded, NoExtraction, Extractions, Failures
  <2>3. files \in [DOMAIN map -> SUBSET Files]
    BY DEF Init, Files
  <2> QED BY <1>1, <2>1, <2>2, <2>3 DEF Init, TypeOK
<1>4. Calls
  BY DEF Init, P!Init, Calls, P!AnswerIsTrue, P!NoAnswer, P!NoCode
<1>5. AtHand
  BY <1>2 DEF Init, AtHand, Busy
<1>6. Past
  BY <1>1, <1>2 DEF Init, Past, Holds, Unrecorded
<1>7. Untouched
  BY <1>2 DEF Untouched
<1>8. Judged /\ Verdict
  BY DEF Init, NoExtraction, Judged, Verdict
<1> QED BY <1>3, <1>4, <1>5, <1>6, <1>7, <1>8 DEF IInv

-----------------------------------------------------------------------------
(* Steps that leave what was recorded alone.                               *)

SameAt(j) == /\ files'[j] = files[j] /\ (j \in present' <=> j \in present)
             /\ (j \in stubborn' <=> j \in stubborn) /\ (j \in orphans' <=> j \in orphans)

LEMMA HoldsStays ==
  ASSUME NEW j, NEW e, Holds(e, j), SameAt(j)
  PROVE  Holds(e, j)'
BY DEF Holds, SameAt, Undisturbed

\* Steps that touch the directory of the result at hand only.
LEMMA PastStays ==
  ASSUME IInv, next \in DOMAIN map, UNCHANGED <<map, next, results>>,
         \A j \in DOMAIN map \ {next} : SameAt(j)
  PROVE  Past'
<1>1. results[next] = Unrecorded
  BY DEF IInv, Past, TypeOK
<1>2. ASSUME NEW j \in DOMAIN map PROVE Holds(results[j], j)'
  <2>1. CASE j = next
    BY <1>1, <2>1 DEF Holds, Unrecorded
  <2>2. CASE j # next
    BY <2>2 DEF IInv, Past, Holds, SameAt, Undisturbed
  <2> QED BY <2>1, <2>2
<1> QED BY <1>2 DEF IInv, Past

\* What run_process and the world do to its own variables does not depend on more
\* than that it is called in "run" alone.
LEMMA CallsStay ==
  ASSUME IInv, UNCHANGED process, phase = "run" => phase' = "run"
  PROVE  Calls'
BY DEF IInv, Calls, process, P!AnswerIsTrue, P!NoCode

LEMMA ProcessTyped ==
  ASSUME TypeOK, UNCHANGED process
  PROVE  P!TypeOK'
BY DEF TypeOK, process, P!TypeOK, P!NoCode

-----------------------------------------------------------------------------
(* extract.                                                                *)

LEMMA LoopPreserves ==
  ASSUME IInv, Skip \/ Choose \/ Record \/ Widen
  PROVE  IInv'
<1>0. /\ UNCHANGED <<map, present, files, stubborn, orphans>> /\ UNCHANGED process
      /\ phase # "run" /\ phase' \in {"choose", "prepare"}
  BY DEF Skip, Choose, Record, Widen, Idle, disk
<1>1. next \in DOMAIN map /\ next \in Nat /\ DOMAIN map = 1 .. Len(map) /\ Len(map) \in Nat
  <2>1. DOMAIN map = 1 .. Len(map) /\ Len(map) \in Nat
    BY ExtractionAssumption DEF ExtractionAssumption, IInv, TypeOK
  <2>2. next \in 1 .. Len(map) + 1 /\ (phase # "choose" => next \in DOMAIN map)
    BY DEF IInv, TypeOK, AtHand
  <2> QED BY <2>1, <2>2 DEF Skip, Choose, Record, Widen
<1>2. TypeOK'
  <2>1. next' \in 1 .. Len(map) + 1 /\ attempt' \in {1, 2}
    BY <1>1 DEF Skip, Choose, Record, Widen, IInv, TypeOK
  <2>2. extraction' \in Extractions
    <3>1. NoExtraction \in Extractions
      BY DEF NoExtraction, Extractions, Failures
    <3> QED BY <3>1 DEF Skip, Choose, Record, Widen, IInv, TypeOK
  <2>3. results' \in [DOMAIN map -> Extractions]
    BY DEF Skip, Choose, Record, Widen, IInv, TypeOK
  <2>4. P!TypeOK'
    BY <1>0, ProcessTyped DEF IInv
  <2> QED BY <1>0, <2>1, <2>2, <2>3, <2>4 DEF IInv, TypeOK
<1>3. Calls'
  BY <1>0, CallsStay
<1>4. AtHand'
  <2>1. phase' = "prepare" => next' = next /\ Kind \notin {"declined", "unknown"}
    BY <1>0 DEF Skip, Choose, Record, Widen, IInv, AtHand
  <2> QED BY <1>0, <1>1, <2>1 DEF IInv, AtHand, Busy, Kind
<1>5. Past'
  <2>1. CASE Skip \/ Choose \/ Widen
    BY <1>0, <1>1, <2>1 DEF Skip, Choose, Widen, IInv, TypeOK, Past, Holds, Undisturbed
  <2>2. CASE Record
    <3>1. /\ results' = [results EXCEPT ![next] = extraction] /\ next' = next + 1
          /\ Holds(extraction, next) /\ results \in [DOMAIN map -> Extractions]
      BY <2>2 DEF Record, IInv, Judged, TypeOK
    <3>2. ASSUME NEW k \in DOMAIN map
          PROVE  Holds(results[k], k)' /\ (k >= next' => results'[k] = Unrecorded)
      <4>1. CASE k = next
        BY <1>0, <1>1, <3>1, <4>1 DEF Holds, Undisturbed
      <4>2. CASE k # next
        <5>1. results'[k] = results[k] /\ Holds(results[k], k)
              /\ (k >= next => results[k] = Unrecorded)
          BY <3>1, <4>2 DEF IInv, Past
        <5>2. k \in Nat /\ (k >= next' => k >= next)
          BY <1>1, <3>1
        <5> QED BY <1>0, <5>1, <5>2 DEF Holds, Undisturbed
      <4> QED BY <4>1, <4>2
    <3> QED BY <1>0, <3>2 DEF Past
  <2> QED BY <2>1, <2>2
<1>6. Untouched'
  <2>1. CASE Skip \/ Choose \/ Record
    BY <1>0, <1>1, <2>1 DEF Skip, Choose, Record, IInv, Untouched, Undisturbed
  <2>2. CASE Widen
    <3>1. Undisturbed(next) => files[next] \subseteq {"old"}
      BY <1>1, <2>2 DEF Widen, IInv, Judged, Verdict, Holds, AtHand
    <3> QED BY <1>0, <1>1, <2>2, <3>1 DEF Widen, IInv, Untouched, Undisturbed
  <2> QED BY <2>1, <2>2
<1>7. Judged' /\ Verdict'
  BY <1>0 DEF Skip, Choose, Record, Widen, NoExtraction, IInv, Judged, Verdict
<1> QED BY <1>2, <1>3, <1>4, <1>5, <1>6, <1>7 DEF IInv

-----------------------------------------------------------------------------
(* The directory made, filled, judged and removed.                         *)

\* A directory that becomes what a step makes of it, and the others.
LEMMA Becoming ==
  ASSUME IInv, next \in DOMAIN map, NEW there \in BOOLEAN, NEW S \in SUBSET Files,
         Becomes(next, there, S), there \/ next \notin stubborn
  PROVE  /\ present' \subseteq DOMAIN map /\ files' \in [DOMAIN map -> SUBSET Files]
         /\ stubborn' \subseteq present' /\ stubborn' = stubborn /\ orphans' = orphans
         /\ files'[next] = S /\ (next \in present' <=> there)
         /\ \A j \in DOMAIN map \ {next} : SameAt(j)
BY DEF IInv, TypeOK, Becomes, SameAt

LEMMA Leftovers ==
  ASSUME IInv, next \in DOMAIN map, NEW S \in Survivors(next)
  PROVE  /\ S \subseteq Files /\ next \in stubborn \cup orphans
         /\ AsOld(S) \subseteq Files \ {"input", "orphan"}
         /\ ("orphan" \in S => next \in orphans) /\ ("input" \in S => phase = "run" \/ next \in stubborn)
<1>1. /\ files[next] \subseteq Files
      /\ "orphan" \in files[next] => next \in orphans
      /\ "input" \in files[next] => phase = "run" \/ next \in stubborn
  BY DEF IInv, TypeOK, AtHand
<1>2. S \subseteq Files /\ next \in stubborn \cup orphans
      /\ ("orphan" \in S => next \in orphans) /\ ("input" \in S => phase = "run" \/ next \in stubborn)
  BY <1>1 DEF Survivors, Files
<1>3. AsOld(S) \subseteq Files \ {"input", "orphan"}
  BY <1>2 DEF AsOld, Files, Full
<1> QED BY <1>2, <1>3

LEMMA Outcomes ==
  ASSUME NEW why \in Failures
  PROVE  Failure(why) \in Extractions /\ Success \in Extractions
BY DEF Failure, Success, Extractions, Failures

LEMMA RefusePreserves ==
  ASSUME IInv, Refuse
  PROVE  IInv'
<1>0. /\ UNCHANGED <<map, next, attempt, results, present, files, stubborn, orphans>>
      /\ UNCHANGED process
      /\ phase = "prepare" /\ phase' = "judged" /\ extraction' = Failure("write_error")
      /\ next \in DOMAIN map
  BY DEF Refuse, Idle, disk, Keeps, Outcome, IInv, AtHand
<1>1. TypeOK'
  <2>1. P!TypeOK' /\ extraction' \in Extractions
    BY <1>0, ProcessTyped, Outcomes DEF IInv, Failures
  <2> QED BY <1>0, <2>1 DEF IInv, TypeOK
<1>2. Calls'
  BY <1>0, CallsStay
<1>3. AtHand'
  BY <1>0 DEF IInv, AtHand, Busy, Kind
<1>4. Past'
  BY <1>0, PastStays DEF SameAt
<1>5. Judged' /\ Verdict'
  BY <1>0 DEF Judged, Verdict, Holds, Failure, Untouched, IInv, Undisturbed
<1>6. Untouched'
  BY <1>0 DEF IInv, Untouched, Undisturbed
<1> QED BY <1>1, <1>2, <1>3, <1>4, <1>5, <1>6 DEF IInv

\* A step in the directory at hand, and what it must see to there.
LEMMA Within ==
  ASSUME IInv, next \in DOMAIN map, UNCHANGED <<map, next, attempt, results>>,
         \A j \in DOMAIN map \ {next} : SameAt(j),
         phase \notin {"choose", "judged"}, phase' \notin {"choose", "prepare"},
         phase' \in Busy =>
           /\ next \in present'
           /\ "old" \in files'[next] => next \in stubborn' \cup orphans',
         "orphan" \in files'[next] => next \in orphans',
         "input" \in files'[next] => phase' = "run" \/ next \in stubborn',
         next \notin present' => files'[next] = {}
  PROVE  AtHand' /\ Past' /\ Untouched'
<1>1. Past'
  BY PastStays
<1>2. Untouched'
  <2>1. next \in Int
    BY DEF IInv, TypeOK
  <2>2. ASSUME NEW k \in DOMAIN map, k > next, Undisturbed(k)'
        PROVE  files'[k] \subseteq {"old"}
    <3>1. k # next
      BY <2>1, <2>2
    <3> QED BY <2>2, <3>1 DEF IInv, Untouched, SameAt, Undisturbed
  <2> QED BY <2>2 DEF Untouched
<1>3. AtHand'
  <2>1. ASSUME NEW k \in DOMAIN map, k # next
        PROVE  /\ "orphan" \in files'[k] => k \in orphans'
               /\ "input" \in files'[k] => k \in stubborn'
               /\ k \notin present' => files'[k] = {}
    BY <2>1 DEF IInv, AtHand, SameAt
  <2>2. next' \in DOMAIN map' /\ Kind' \notin {"declined", "unknown"}
    BY DEF IInv, AtHand, Kind
  <2> QED BY <2>1, <2>2 DEF AtHand
<1> QED BY <1>1, <1>2, <1>3

LEMMA CannotCreatePreserves ==
  ASSUME IInv, CannotCreate
  PROVE  IInv'
<1>0. /\ UNCHANGED <<map, next, attempt, results>> /\ UNCHANGED process
      /\ phase = "prepare" /\ phase' = "judged" /\ extraction' = Failure("write_error")
      /\ next \in DOMAIN map /\ next \notin stubborn /\ Becomes(next, FALSE, {})
  BY DEF CannotCreate, Removed, Keeps, Outcome, IInv, AtHand
<1>1. /\ present' \subseteq DOMAIN map /\ files' \in [DOMAIN map -> SUBSET Files]
      /\ stubborn' \subseteq present' /\ orphans' = orphans
      /\ files'[next] = {} /\ next \notin present'
      /\ \A j \in DOMAIN map \ {next} : SameAt(j)
  BY <1>0, Becoming
<1>2. TypeOK'
  <2>1. P!TypeOK' /\ extraction' \in Extractions
    BY <1>0, ProcessTyped, Outcomes DEF IInv, Failures
  <2> QED BY <1>0, <1>1, <2>1 DEF IInv, TypeOK
<1>3. Calls'
  BY <1>0, CallsStay
<1>4. AtHand' /\ Past' /\ Untouched'
  BY <1>0, <1>1, Within DEF Busy
<1>5. Judged' /\ Verdict'
  BY <1>0, <1>1 DEF Judged, Verdict, Holds, Failure
<1> QED BY <1>2, <1>3, <1>4, <1>5 DEF IInv

LEMMA Element ==
  ASSUME NEW S, NEW m \in Seq(S), NEW k \in DOMAIN m
  PROVE  m[k] \in S
OBVIOUS

LEMMA PreparePreserves ==
  ASSUME IInv, Prepare
  PROVE  IInv'
<1>0. /\ UNCHANGED <<map, next, attempt, results>> /\ UNCHANGED process
      /\ phase = "prepare" /\ extraction' = Failure("unsupported") /\ Begin
      /\ next \in DOMAIN map
  BY DEF Prepare, Keeps, IInv, AtHand
<1>1. phase' \in {"internal", "carve", "judge"}
  <2>1. Kind \in {"internal", "external", "none"}
    <3>1. map \in Seq([kind : {"declined", "unknown", "internal", "external", "none"},
                       narrow : BOOLEAN])
      BY ExtractionAssumption DEF ExtractionAssumption, IInv, TypeOK
    <3>2. map[next] \in [kind : {"declined", "unknown", "internal", "external", "none"},
                         narrow : BOOLEAN]
      BY <1>0, <3>1, Element
    <3>3. Kind \notin {"declined", "unknown"}
      BY <1>0 DEF IInv, AtHand
    <3> QED BY <3>2, <3>3 DEF Kind
  <2> QED BY <1>0, <2>1 DEF Begin
<1>2. PICK S \in SUBSET Files :
        /\ Becomes(next, TRUE, S)
        /\ S \cap {"orphan", "input"} = {}
        /\ "old" \in S => next \in stubborn \cup orphans
  <2>1. CASE Becomes(next, TRUE, {})
    <3>1. {} \in SUBSET Files /\ {} \cap {"orphan", "input"} = {} /\ "old" \notin {}
      OBVIOUS
    <3> QED BY <2>1, <3>1
  <2>2. CASE \E S \in Survivors(next) : Becomes(next, TRUE, AsOld(S))
    <3>1. PICK S \in Survivors(next) : Becomes(next, TRUE, AsOld(S))
      BY <2>2
    <3>2. AsOld(S) \subseteq Files \ {"input", "orphan"} /\ next \in stubborn \cup orphans
      BY <1>0, <3>1, Leftovers
    <3> QED BY <3>1, <3>2
  <2> QED BY <2>1, <2>2 DEF Prepare
<1>3. /\ present' \subseteq DOMAIN map /\ files' \in [DOMAIN map -> SUBSET Files]
      /\ stubborn' = stubborn /\ stubborn' \subseteq present' /\ orphans' = orphans
      /\ files'[next] = S /\ next \in present'
      /\ \A j \in DOMAIN map \ {next} : SameAt(j)
  BY <1>0, <1>2, Becoming
<1>4. TypeOK'
  <2>1. P!TypeOK' /\ extraction' \in Extractions
    BY <1>0, ProcessTyped, Outcomes DEF IInv, Failures
  <2> QED BY <1>0, <1>1, <1>3, <2>1 DEF IInv, TypeOK
<1>5. Calls'
  BY <1>0, CallsStay
<1>6. AtHand' /\ Past' /\ Untouched'
  <2>1. /\ phase' \notin {"choose", "prepare"} /\ phase # "run"
        /\ "old" \in files'[next] => next \in stubborn' \cup orphans'
        /\ "orphan" \notin files'[next] /\ "input" \notin files'[next]
    BY <1>0, <1>1, <1>2, <1>3
  <2> QED BY <1>0, <1>3, <2>1, Within
<1>7. Judged' /\ Verdict'
  BY <1>0, <1>1 DEF Judged, Verdict, Failure
<1> QED BY <1>4, <1>5, <1>6, <1>7 DEF IInv

\* Steps that fill or leave the directory at hand, from the phase p to the phase q.
Fills(p, q) ==
  /\ phase = p /\ phase' = q
  /\ UNCHANGED <<map, next, attempt, results>>
  /\ files' \in [DOMAIN map -> SUBSET Files] /\ UNCHANGED present
  /\ stubborn' \subseteq present /\ orphans' \subseteq DOMAIN map
  /\ stubborn \subseteq stubborn' /\ orphans \subseteq orphans'
  /\ files'[next] \cap {"old", "orphan"} \subseteq files[next]
  /\ "input" \in files'[next] => q = "run" \/ next \in stubborn'
  /\ \A j \in DOMAIN map \ {next} : SameAt(j)

LEMMA FillsPreserves ==
  ASSUME IInv, NEW p \in Busy, NEW q \in Busy, Fills(p, q),
         extraction' \in Extractions, P!TypeOK', Calls',
         extraction'.success => extraction'.failure = "none",
         q = "judge" /\ ~extraction'.success => extraction'.failure \notin {"none", "unrecorded"}
  PROVE  IInv'
<1>1. next \in DOMAIN map /\ next \in present
      /\ ("old" \in files[next] => next \in stubborn \cup orphans)
      /\ ("orphan" \in files[next] => next \in orphans)
  BY DEF IInv, AtHand, Fills, Busy
<1>2. TypeOK'
  BY DEF IInv, TypeOK, Fills, Busy
<1>3. AtHand' /\ Past' /\ Untouched'
  BY <1>1, Within DEF Fills, Busy
<1>4. Judged' /\ Verdict'
  BY DEF Judged, Verdict, Fills, Busy
<1> QED BY <1>2, <1>3, <1>4 DEF IInv

\* The parts of a Fills step that leave the process alone or are made by it alone.
LEMMA InternalPreserves ==
  ASSUME IInv, InternalWrites \/ InternalReturns \/ NotCarved \/ Carve
  PROVE  IInv'
<1>0. /\ UNCHANGED <<map, next, attempt, results, present, orphans>> /\ UNCHANGED process
      /\ phase \in {"internal", "carve"} /\ phase # "run"
      /\ next \in DOMAIN map /\ next \in present /\ files \in [DOMAIN map -> SUBSET Files]
      /\ "input" \in files[next] => next \in stubborn
      /\ stubborn \subseteq present /\ orphans \subseteq DOMAIN map
  BY DEF InternalWrites, InternalReturns, NotCarved, Carve, Writes, Keeps, Outcome, Idle, disk,
         IInv, TypeOK, AtHand, Busy
<1>1. P!TypeOK' /\ Calls'
  BY <1>0, ProcessTyped, CallsStay DEF IInv
<1>2. CASE InternalWrites
  <2>1. Fills("internal", "internal")
    BY <1>0, <1>2 DEF InternalWrites, Writes, Fills, SameAt, Files
  <2>2. extraction' \in Extractions /\ (extraction'.success => extraction'.failure = "none")
    BY <1>2 DEF InternalWrites, IInv, TypeOK, Verdict
  <2> QED BY <1>1, <2>1, <2>2, FillsPreserves DEF Busy
<1>3. CASE InternalReturns \/ NotCarved
  <2>1. PICK p \in {"internal", "carve"} : Fills(p, "judge")
    BY <1>0, <1>3 DEF InternalReturns, NotCarved, Outcome, Idle, disk, Fills, SameAt
  <2>2. /\ extraction' \in Extractions
        /\ extraction'.success => extraction'.failure = "none"
        /\ ~extraction'.success => extraction'.failure \notin {"none", "unrecorded"}
    <3>1. PICK e \in {Success} \cup
                     {Failure(why) : why \in {"invalid_data", "utility_not_found", "write_error"}} :
            extraction' = e
      BY <1>3 DEF InternalReturns, NotCarved, Outcome
    <3>2. CASE e = Success
      BY <3>1, <3>2 DEF Success, Extractions, Failures
    <3>3. CASE e # Success
      <4>1. PICK why \in {"invalid_data", "utility_not_found", "write_error"} : e = Failure(why)
        BY <3>1, <3>3
      <4> QED BY <3>1, <4>1 DEF Failure, Extractions, Failures
    <3> QED BY <3>2, <3>3
  <2> QED BY <1>1, <2>1, <2>2, FillsPreserves DEF Busy
<1>4. CASE Carve
  <2>1. Fills("carve", "run")
    BY <1>0, <1>4 DEF Carve, Fills, SameAt, Files
  <2>2. extraction' \in Extractions /\ (extraction'.success => extraction'.failure = "none")
    BY <1>4 DEF Carve, IInv, TypeOK, Verdict
  <2> QED BY <1>1, <2>1, <2>2, FillsPreserves DEF Busy
<1> QED BY <1>2, <1>3, <1>4

LEMMA FinishPreserves ==
  ASSUME IInv, Finish
  PROVE  IInv'
<1>0. /\ next \in DOMAIN map /\ next \in present /\ files \in [DOMAIN map -> SUBSET Files]
      /\ stubborn \subseteq present /\ orphans \subseteq DOMAIN map /\ P!TypeOK
      /\ phase = "run" /\ P!Return
  BY DEF Finish, IInv, TypeOK, AtHand, Busy
<1>1. Fills("run", "judge")
  BY <1>0 DEF Finish, Keeps, Outcome, Fills, SameAt, Files
<1>2. /\ extraction' \in Extractions
      /\ extraction'.success => extraction'.failure = "none"
      /\ ~extraction'.success => extraction'.failure \notin {"none", "unrecorded"}
  <2>1. answer.status \in {"completed", "not_found", "spawn_failed", "timed_out"}
    BY <1>0 DEF P!TypeOK, P!Return, IInv, Calls
  <2> QED BY <2>1 DEF Finish, Outcome, Failure, Success, Extractions, Failures
<1>3. P!TypeOK' /\ Calls'
  BY <1>0 DEF P!Return, P!TypeOK, Calls, P!NoAnswer, P!NoCode, P!AnswerIsTrue
<1> QED BY <1>1, <1>2, <1>3, FillsPreserves DEF Busy

LEMMA UtilityWritesPreserves ==
  ASSUME IInv, UtilityWrites
  PROVE  IInv'
<1>0. /\ next \in DOMAIN map /\ next \in present /\ files \in [DOMAIN map -> SUBSET Files]
      /\ stubborn \subseteq present /\ orphans \subseteq DOMAIN map
      /\ phase = "run" /\ UNCHANGED process
  BY DEF UtilityWrites, IInv, TypeOK, AtHand, Calls, Busy
<1>1. Fills("run", "run")
  BY <1>0 DEF UtilityWrites, Writes, Keeps, Fills, SameAt, Files
<1>2. extraction' \in Extractions /\ (extraction'.success => extraction'.failure = "none")
  BY DEF UtilityWrites, IInv, TypeOK, Verdict
<1>3. P!TypeOK' /\ Calls'
  BY <1>0, ProcessTyped, CallsStay DEF IInv, UtilityWrites
<1> QED BY <1>1, <1>2, <1>3, FillsPreserves DEF Busy

LEMMA JudgePreserves ==
  ASSUME IInv, Judge
  PROVE  IInv'
<1>0. /\ UNCHANGED <<map, next, attempt, results>> /\ UNCHANGED process
      /\ phase = "judge" /\ phase' = "judged"
      /\ next \in DOMAIN map /\ next \in present
      /\ "input" \in files[next] => next \in stubborn
      /\ "old" \in files[next] => next \in stubborn \cup orphans
      /\ "orphan" \in files[next] => next \in orphans
      /\ files[next] \subseteq Files
  BY DEF Judge, Keeps, Outcome, IInv, TypeOK, AtHand, Busy
<1>1. PICK found \in Answers(next) :
        extraction' = IF extraction.success /\ ~found THEN Failure("no_output") ELSE extraction
  BY DEF Judge, Outcome
<1>2. /\ extraction' \in Extractions
      /\ extraction'.success => extraction'.failure = "none"
      /\ ~extraction'.success => extraction'.failure \notin {"none", "unrecorded"}
      /\ extraction'.success => extraction' = extraction /\ files[next] \cap Full # {}
  <2>1. Failure("no_output") \in Extractions /\ ~Failure("no_output").success
        /\ Failure("no_output").failure = "no_output"
    BY DEF Failure, Extractions, Failures
  <2>2. extraction \in Extractions /\ (extraction.success => extraction.failure = "none")
        /\ (~extraction.success => extraction.failure \notin {"none", "unrecorded"})
    BY <1>0 DEF IInv, TypeOK, Verdict
  <2>3. found => files[next] \cap Full # {}
    BY <1>1 DEF Answers
  <2>4. CASE extraction.success /\ ~found
    BY <1>1, <2>1, <2>4
  <2>5. CASE ~(extraction.success /\ ~found)
    BY <1>1, <2>2, <2>3, <2>5
  <2> QED BY <2>4, <2>5
<1>3. P!TypeOK' /\ Calls'
  BY <1>0, ProcessTyped, CallsStay DEF IInv
<1>4. CASE extraction'.success /\ UNCHANGED disk
  <2>1. TypeOK'
    BY <1>0, <1>2, <1>3, <1>4 DEF IInv, TypeOK, disk
  <2>2. AtHand' /\ Past' /\ Untouched'
    BY <1>0, <1>4, Within DEF disk, SameAt, IInv, AtHand, Busy
  <2>3. extraction'.failure = "none"
    BY <1>2, <1>4
  <2>4. Judged' /\ Verdict'
    <3>1. /\ files[next] \cap Full # {}
          /\ Undisturbed(next) => "own" \in files[next] /\ "old" \notin files[next]
      BY <1>0, <1>2, <1>4 DEF Undisturbed, Full, Files
    <3> QED BY <1>0, <1>2, <1>4, <2>3, <3>1 DEF Judged, Verdict, Holds, disk, Undisturbed
  <2> QED BY <1>3, <2>1, <2>2, <2>4 DEF IInv
<1>5. CASE ~extraction'.success
  <2>1. PICK there \in BOOLEAN, S \in SUBSET Files :
          /\ Becomes(next, there, S) /\ (there \/ next \notin stubborn)
          /\ there => next \in stubborn \cup orphans
          /\ ~there => S = {}
          /\ "input" \in S => next \in stubborn
          /\ "orphan" \in S => next \in orphans
    <3>1. CASE Removed(next) /\ Becomes(next, FALSE, {})
      <4> DEFINE None == {}
      <4>1. None \in SUBSET Files /\ None = {} /\ "input" \notin None /\ "orphan" \notin None
            /\ FALSE \in BOOLEAN
        OBVIOUS
      <4>2. Becomes(next, FALSE, None) /\ next \notin stubborn
        BY <3>1 DEF Removed
      <4> HIDE DEF None
      <4> QED BY <4>1, <4>2
    <3>2. CASE \E S \in Survivors(next) : Becomes(next, TRUE, S)
      <4>1. PICK S \in Survivors(next) : Becomes(next, TRUE, S)
        BY <3>2
      <4>2. S \subseteq Files /\ next \in stubborn \cup orphans /\ ("input" \in S => next \in stubborn)
            /\ ("orphan" \in S => next \in orphans)
        BY <1>0, <4>1, Leftovers
      <4> QED BY <4>1, <4>2
    <3> QED BY <1>5, <3>1, <3>2 DEF Judge
  <2>2. /\ present' \subseteq DOMAIN map /\ files' \in [DOMAIN map -> SUBSET Files]
        /\ stubborn' = stubborn /\ stubborn' \subseteq present' /\ orphans' = orphans
        /\ files'[next] = S /\ (next \in present' <=> there)
        /\ \A j \in DOMAIN map \ {next} : SameAt(j)
    BY <1>0, <2>1, Becoming
  <2>3. TypeOK'
    BY <1>0, <1>2, <1>3, <2>2 DEF IInv, TypeOK
  <2>4. AtHand' /\ Past' /\ Untouched'
    <3>1. /\ "orphan" \in files'[next] => next \in orphans'
          /\ "input" \in files'[next] => next \in stubborn'
          /\ next \notin present' => files'[next] = {}
      BY <2>1, <2>2
    <3> QED BY <1>0, <2>2, <3>1, Within DEF Busy
  <2>5. Judged' /\ Verdict'
    BY <1>0, <1>2, <1>5, <2>1, <2>2 DEF Judged, Verdict, Holds, Undisturbed
  <2> QED BY <1>3, <2>3, <2>4, <2>5 DEF IInv
<1> QED BY <1>4, <1>5 DEF Judge

-----------------------------------------------------------------------------
(* Processes.                                                              *)

LEMMA OrphanWritesPreserves ==
  ASSUME IInv, OrphanWrites
  PROVE  IInv'
<1>0. PICK k \in orphans \cap present :
        /\ files' = [files EXCEPT ![k] = @ \cup {"orphan"}]
        /\ UNCHANGED <<map, next, attempt, results, present, stubborn, orphans, phase, extraction>>
        /\ UNCHANGED process
  BY DEF OrphanWrites, Keeps
<1>1. files \in [DOMAIN map -> SUBSET Files] /\ k \in DOMAIN map /\ ~Undisturbed(k)
  BY <1>0 DEF IInv, TypeOK, Undisturbed
<1>2. files'[k] = files[k] \cup {"orphan"}
      /\ \A j \in DOMAIN map \ {k} : files'[j] = files[j]
  BY <1>0, <1>1
<1>3. TypeOK'
  <2>1. P!TypeOK'
    BY <1>0, ProcessTyped DEF IInv
  <2>2. files' \in [DOMAIN map -> SUBSET Files]
    BY <1>0, <1>1 DEF Files
  <2> QED BY <1>0, <2>1, <2>2 DEF IInv, TypeOK
<1>4. Calls'
  BY <1>0, CallsStay
<1>5. AtHand'
  BY <1>0, <1>2 DEF IInv, AtHand, Kind
<1>6. Untouched'
  BY <1>0, <1>1, <1>2 DEF IInv, Untouched, Undisturbed
<1>7. ASSUME NEW e, NEW j \in DOMAIN map, Holds(e, j)
      PROVE  /\ e.success =>
                  /\ j \in present' /\ files'[j] \cap Full # {}
                  /\ Undisturbed(j)' => "own" \in files'[j] /\ "old" \notin files'[j]
             /\ e.failure \notin {"none", "unrecorded", "write_error"} /\ Undisturbed(j)'
                  => j \notin present'
             /\ e.failure = "write_error" /\ Undisturbed(j)' => files'[j] \subseteq {"old"}
  BY <1>0, <1>1, <1>2, <1>7 DEF Holds, Undisturbed
<1>8. Past'
  BY <1>0, <1>7 DEF IInv, Past, Holds
<1>9. Judged' /\ Verdict'
  BY <1>0, <1>7 DEF IInv, Judged, Verdict, Holds, AtHand
<1> QED BY <1>3, <1>4, <1>5, <1>6, <1>8, <1>9 DEF IInv

LEMMA ProcessPreserves ==
  ASSUME IInv, \/ phase = "run" /\ Run(P!Call)
               \/ Run(P!Loop)
               \/ Run(P!World)
  PROVE  IInv'
<1>0. /\ UNCHANGED <<map, next, attempt, results, present, files, stubborn, orphans>>
      /\ UNCHANGED <<phase, extraction>>
      /\ (phase = "run" /\ P!Call) \/ P!Loop \/ P!World
  BY DEF Run, Keeps, disk
<1>1. P!TypeOK /\ Calls /\ Codes \subseteq Nat
  BY ExtractionAssumption DEF ExtractionAssumption, IInv, TypeOK
<1>2. P!TypeOK' /\ Calls'
  <2>1. CASE phase = "run" /\ P!Call
    <3>1. CASE P!NotFound \/ P!SpawnFails
      BY <1>0, <1>1, <2>1, <3>1
      DEF P!NotFound, P!SpawnFails, P!Answer, P!NoCode, P!TypeOK, Calls, P!AnswerIsTrue
    <3>2. CASE P!Spawn
      BY <1>0, <1>1, <2>1, <3>2 DEF P!Spawn, P!NoCode, P!TypeOK, Calls, P!AnswerIsTrue
    <3> QED BY <2>1, <3>1, <3>2 DEF P!Call
  <2>2. CASE P!Loop
    <3>1. CASE P!Poll
      BY <1>0, <1>1, <3>1 DEF P!Poll, P!Answer, P!NoCode, P!TypeOK, Calls, P!AnswerIsTrue
    <3>2. CASE P!Sleep \/ P!Kill
      BY <1>0, <1>1, <3>2 DEF P!Sleep, P!Kill, P!NoCode, P!TypeOK, Calls, P!AnswerIsTrue
    <3>3. CASE P!Reap
      BY <1>0, <1>1, <3>3 DEF P!Reap, P!Answer, P!NoCode, P!TypeOK, Calls, P!AnswerIsTrue
    <3> QED BY <2>2, <3>1, <3>2, <3>3 DEF P!Loop
  <2>3. CASE P!World
    <3>1. CASE P!ChildExits \/ P!ChildDies
      BY <1>0, <1>1, <3>1
      DEF P!ChildExits, P!ChildDies, P!Stopped, P!NoCode, P!TypeOK, Calls, P!AnswerIsTrue
    <3>2. CASE P!TimePasses
      BY <1>0, <1>1, <3>2 DEF P!TimePasses, P!NoCode, P!TypeOK, Calls, P!AnswerIsTrue
    <3> QED BY <2>3, <3>1, <3>2 DEF P!World
  <2> QED BY <1>0, <2>1, <2>2, <2>3
<1>3. TypeOK'
  BY <1>0, <1>2 DEF IInv, TypeOK
<1>4. AtHand' /\ Untouched'
  BY <1>0 DEF IInv, AtHand, Kind, Untouched, Undisturbed
<1>5. Judged' /\ Verdict' /\ Past'
  BY <1>0 DEF IInv, Judged, Verdict, Past, Holds, Undisturbed
<1> QED BY <1>2, <1>3, <1>4, <1>5 DEF IInv

LEMMA IdlePreserves ==
  ASSUME IInv, UNCHANGED vars
  PROVE  IInv'
<1>0. /\ UNCHANGED <<map, next, attempt, results, present, files, stubborn, orphans>>
      /\ UNCHANGED <<phase, extraction>> /\ UNCHANGED process
  BY DEF vars, disk
<1>1. P!TypeOK' /\ Calls'
  BY <1>0, ProcessTyped, CallsStay DEF IInv
<1>2. TypeOK'
  BY <1>0, <1>1 DEF IInv, TypeOK
<1>3. AtHand' /\ Untouched'
  BY <1>0 DEF IInv, AtHand, Kind, Untouched, Undisturbed
<1>4. Judged' /\ Verdict' /\ Past'
  BY <1>0 DEF IInv, Judged, Verdict, Past, Holds, Undisturbed
<1> QED BY <1>1, <1>2, <1>3, <1>4 DEF IInv

-----------------------------------------------------------------------------

THEOREM Preserved == IInv /\ [Next]_vars => IInv'
<1> SUFFICES ASSUME IInv, [Next]_vars PROVE IInv'
  OBVIOUS
<1>1. CASE Skip \/ Choose \/ Record \/ Widen
  BY <1>1, LoopPreserves
<1>2. CASE Refuse
  BY <1>2, RefusePreserves
<1>3. CASE CannotCreate
  BY <1>3, CannotCreatePreserves
<1>4. CASE Prepare
  BY <1>4, PreparePreserves
<1>5. CASE InternalWrites \/ InternalReturns \/ NotCarved \/ Carve
  BY <1>5, InternalPreserves
<1>6. CASE Finish
  BY <1>6, FinishPreserves
<1>7. CASE Judge
  BY <1>7, JudgePreserves
<1>8. CASE UtilityWrites
  BY <1>8, UtilityWritesPreserves
<1>9. CASE OrphanWrites
  BY <1>9, OrphanWritesPreserves
<1>10. CASE (phase = "run" /\ Run(P!Call)) \/ Run(P!Loop) \/ Run(P!World)
  BY <1>10, ProcessPreserves
<1>11. CASE Returned \/ UNCHANGED vars
  BY <1>11, IdlePreserves DEF Returned
<1> QED BY <1>1, <1>2, <1>3, <1>4, <1>5, <1>6, <1>7, <1>8, <1>9, <1>10, <1>11 DEF Next, Step

\* Whatever the utilities do, the invariant holds; the properties follow from it.
THEOREM Invariance == Spec => []IInv
<1>1. Init => IInv
  BY Started
<1>2. IInv /\ [Next]_vars => IInv'
  BY Preserved
<1> QED BY <1>1, <1>2, PTL DEF Spec

\* extract and run_process keep to their types.
THEOREM TypeCorrect == Spec => []TypeOK
<1>1. IInv => TypeOK
  BY DEF IInv
<1> QED BY <1>1, Invariance, PTL

\* run_process leaves no child and says what became of it.
THEOREM TruthIsTold == Spec => []AnswerIsTrue
<1>1. IInv => AnswerIsTrue
  BY DEF IInv, Calls, AnswerIsTrue
<1> QED BY <1>1, Invariance, PTL

\* A success stands for a file with bytes: of its own attempt where nobody meddled,
\* and never the carved input but where it could not be removed.
THEOREM SuccessStands == Spec => []SuccessHasOutput
<1>1. IInv => SuccessHasOutput
  <2> SUFFICES ASSUME IInv, NEW k \in DOMAIN map, results[k].success
               PROVE  /\ k \in present /\ files[k] \cap Full # {}
                      /\ "input" \in files[k] => k \in stubborn
                      /\ Undisturbed(k) => "own" \in files[k] /\ "old" \notin files[k]
    BY DEF SuccessHasOutput
  <2>1. k < next
    BY DEF IInv, TypeOK, Past, Unrecorded
  <2>2. "input" \in files[k] => k \in stubborn
    BY <2>1 DEF IInv, TypeOK, AtHand
  <2> QED BY <2>2 DEF IInv, Past, Holds
<1> QED BY <1>1, Invariance, PTL

\* A failure leaves no directory, or nothing of its own in it.
THEOREM NothingIsLeft == Spec => []FailureLeavesNothing
<1>1. IInv => FailureLeavesNothing
  BY DEF IInv, Past, Holds, FailureLeavesNothing
<1> QED BY <1>1, Invariance, PTL

LEMMA OthersAlone ==
  ASSUME IInv, [Next]_vars, NEW k \in DOMAIN map, k # next
  PROVE  (k \in present => k \in present') /\ files[k] \subseteq files'[k]
<1>0. files \in [DOMAIN map -> SUBSET Files]
  BY DEF IInv, TypeOK
<1>1. CASE UNCHANGED disk
  BY <1>1 DEF disk
<1>2. CASE CannotCreate \/ Prepare \/ Judge
  <2>1. UNCHANGED disk \/ \E there \in BOOLEAN : \E S : Becomes(next, there, S)
    BY <1>2 DEF CannotCreate, Prepare, Judge
  <2> QED BY <1>0, <2>1 DEF Becomes, disk
<1>3. CASE InternalWrites \/ Carve \/ Finish \/ UtilityWrites
  BY <1>0, <1>3 DEF InternalWrites, Carve, Finish, UtilityWrites, Writes
<1>4. CASE OrphanWrites
  BY <1>0, <1>4 DEF OrphanWrites
<1>5. CASE Skip \/ Choose \/ Record \/ Widen \/ Refuse \/ InternalReturns \/ NotCarved
           \/ (phase = "run" /\ Run(P!Call)) \/ Run(P!Loop) \/ Run(P!World)
           \/ Returned \/ UNCHANGED vars
  BY <1>1, <1>5
  DEF Skip, Choose, Record, Widen, Refuse, InternalReturns, NotCarved, Idle, Run, Returned, vars
<1> QED BY <1>2, <1>3, <1>4, <1>5 DEF Next, Step

\* No attempt disturbs the output of a result that was recorded before it.
THEOREM EarlierOnesStay == Spec => EarlierStays
<1>1. ASSUME IInv, [Next]_vars
      PROVE  [\A k \in Recorded : k \in present' /\ files[k] \subseteq files'[k]]_vars
  <2> SUFFICES ASSUME NEW k \in Recorded
               PROVE  k \in present' /\ files[k] \subseteq files'[k]
    OBVIOUS
  <2>1. k \in DOMAIN map /\ results[k].success /\ k \in present
    BY <1>1 DEF Recorded, IInv, Past, Holds
  <2>2. k # next
    BY <1>1, <2>1 DEF IInv, TypeOK, Past, Unrecorded
  <2> QED BY <1>1, <2>1, <2>2, OthersAlone
<1> QED BY <1>1, Invariance, PTL DEF Spec, EarlierStays

=============================================================================
