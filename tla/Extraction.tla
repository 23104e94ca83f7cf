------------------------------ MODULE Extraction ------------------------------
(***************************************************************************)
(* scanner::extract (lib/src/scanner.cpp) and execute_extractor with the   *)
(* external utility it runs (lib/src/extractor.cpp): for each result of    *)
(* a scan a directory, named for its offset, is emptied, filled by an      *)
(* attempt, judged, and removed again unless the attempt succeeded; a      *)
(* failed attempt is made once more with all the data there is.            *)
(***************************************************************************)
EXTENDS Integers, Sequences

CONSTANTS Maps,      \* the file maps: sequences of results with kind and narrow
          Codes,     \* exit codes of utilities
          Accepted   \* 0 and the extractor's exit_codes

ASSUME ExtractionAssumption ==
  /\ \A m \in Maps : m \in Seq([kind : {"declined", "unknown", "internal", "external", "none"},
                                narrow : BOOLEAN])
  /\ Codes \subseteq Nat /\ Accepted \subseteq Codes /\ 0 \in Accepted

VARIABLES
  map,        \* file_map; narrow: the result does not reach the data's end
  next,       \* the result extract is at
  attempt,    \* 1, or 2 with the size widened
  phase,
  extraction, \* the extraction_result of the attempt
  results,    \* by place in the map; "none" where nothing is recorded
  present,    \* whose directories exist
  files,      \* the kinds of files in them
  stubborn,   \* directories with something in them that cannot be removed
  orphans,    \* directories a utility's own child may still write to
  at, child, code, ignoring, late, answer   \* run_process

disk == <<present, files, stubborn, orphans>>
process == <<at, child, code, ignoring, late, answer>>
vars == <<map, next, attempt, phase, extraction, results, disk, process>>

P == INSTANCE Process

\* Files of this attempt, of an earlier one or an earlier run, of a process that
\* outlived its utility; files without a byte; and the carved input.
Files == {"own", "old", "orphan", "hollow", "input"}
Full == Files \ {"hollow"}

NoExtraction == [success |-> FALSE, failure |-> "none"]
Unrecorded == [success |-> FALSE, failure |-> "unrecorded"]
Success == [success |-> TRUE, failure |-> "none"]
Failure(why) == [success |-> FALSE, failure |-> why]

Init ==
  /\ map \in Maps
  /\ next = 1 /\ attempt = 1
  /\ phase = "choose"
  /\ extraction = NoExtraction
  /\ results = [k \in DOMAIN map |-> Unrecorded]
  /\ present \in SUBSET DOMAIN map
  /\ \E left \in SUBSET present : files = [k \in DOMAIN map |-> IF k \in left THEN {"old"} ELSE {}]
  /\ stubborn \in SUBSET present
  /\ orphans = {}
  /\ P!Init

-----------------------------------------------------------------------------
(* extract.                                                                *)

Kind == map[next].kind
Idle == UNCHANGED <<disk, process>>

\* Declined, or without an extractor.
Skip ==
  /\ phase = "choose" /\ next <= Len(map) /\ Kind \in {"declined", "unknown"}
  /\ next' = next + 1
  /\ Idle /\ UNCHANGED <<map, attempt, phase, extraction, results>>

Choose ==
  /\ phase = "choose" /\ next <= Len(map) /\ Kind \notin {"declined", "unknown"}
  /\ phase' = "prepare"
  /\ Idle /\ UNCHANGED <<map, next, attempt, extraction, results>>

Record ==
  /\ phase = "judged" /\ (extraction.success \/ attempt = 2 \/ ~map[next].narrow)
  /\ phase' = "choose" /\ attempt' = 1 /\ next' = next + 1
  /\ results' = [results EXCEPT ![next] = extraction]
  /\ extraction' = NoExtraction
  /\ Idle /\ UNCHANGED map

Widen ==
  /\ phase = "judged" /\ ~extraction.success /\ attempt = 1 /\ map[next].narrow
  /\ phase' = "prepare" /\ attempt' = 2
  /\ extraction' = NoExtraction
  /\ Idle /\ UNCHANGED <<map, next, results>>

-----------------------------------------------------------------------------
(* execute_extractor.                                                      *)

Becomes(k, there, S) ==
  /\ present' = IF there THEN present \cup {k} ELSE present \ {k}
  /\ files' = [files EXCEPT ![k] = S]
  /\ UNCHANGED <<stubborn, orphans>>

\* remove_all of a directory leaves nothing, unless something in it cannot be
\* removed or an orphan writes there meanwhile.
Removed(k) == k \notin stubborn
Survivors(k) ==
  IF k \in present /\ k \in stubborn \cup orphans
  THEN SUBSET ((IF k \in stubborn THEN files[k] ELSE {}) \cup
               (IF k \in orphans THEN {"orphan"} ELSE {}))
  ELSE {}

\* To the attempt that begins, all that is left there is old.
AsOld(S) == {IF f \in Full THEN "old" ELSE f : f \in S}

Begin == phase' = CASE Kind = "internal" -> "internal"
                    [] Kind = "external" -> "carve"
                    [] Kind = "none" -> "judge"

Keeps == UNCHANGED <<map, next, attempt, results>>
Outcome(e, place) == extraction' = e /\ phase' = place

\* Without a root for the output nothing is touched.
Refuse ==
  /\ phase = "prepare"
  /\ Outcome(Failure("write_error"), "judged")
  /\ Idle /\ Keeps

CannotCreate ==
  /\ phase = "prepare" /\ Removed(next)
  /\ Becomes(next, FALSE, {})
  /\ Outcome(Failure("write_error"), "judged")
  /\ UNCHANGED process /\ Keeps

\* Fault: the directory is not emptied.
PrepareInPlace ==
  /\ phase = "prepare"
  /\ Becomes(next, TRUE, AsOld(files[next]))
  /\ Begin
  /\ extraction' = Failure("unsupported")
  /\ UNCHANGED process /\ Keeps

\* Fault: the directory all results share is emptied.
PrepareBase ==
  /\ phase = "prepare"
  /\ present' = {next} /\ files' = [k \in DOMAIN map |-> {}]
  /\ UNCHANGED <<stubborn, orphans>>
  /\ Begin
  /\ extraction' = Failure("unsupported")
  /\ UNCHANGED process /\ Keeps

\* The directory is emptied and made.  Whether remove_all failed is not asked.
Prepare ==
  /\ phase = "prepare"
  /\ \/ Removed(next) /\ Becomes(next, TRUE, {})
     \/ \E S \in Survivors(next) : Becomes(next, TRUE, AsOld(S))
  /\ Begin
  /\ extraction' = Failure("unsupported")
  /\ UNCHANGED process /\ Keeps

\* What an extractor, built in or external, does in its directory.
Writes(k) ==
  \/ /\ \E f \in {"own", "hollow"} : files' = [files EXCEPT ![k] = @ \cup {f}]
     /\ UNCHANGED <<present, stubborn, orphans>>
  \/ /\ stubborn' = stubborn \cup {k}
     /\ UNCHANGED <<present, files, orphans>>

InternalWrites ==
  /\ phase = "internal"
  /\ Writes(next)
  /\ UNCHANGED <<phase, extraction, process>> /\ Keeps

InternalReturns ==
  /\ phase = "internal"
  /\ \E e \in {Success, Failure("invalid_data")} : Outcome(e, "judge")
  /\ Idle /\ Keeps

\* run_external_extractor up to the process.
NotCarved ==
  /\ phase = "carve"
  /\ \E why \in {"utility_not_found", "invalid_data", "write_error"} :
       Outcome(Failure(why), "judge")
  /\ Idle /\ Keeps

Carve ==
  /\ phase = "carve"
  /\ files' = [files EXCEPT ![next] = @ \cup {"input"}]
  /\ phase' = "run"
  /\ UNCHANGED <<present, stubborn, orphans, extraction, process>> /\ Keeps

\* The carved file is removed, which fails in a directory the utility left
\* unwritable and is not asked for; then the process_result is looked at.
Finish ==
  /\ phase = "run" /\ P!Return
  /\ \/ files' = [files EXCEPT ![next] = @ \ {"input"}]
     \/ next \in stubborn /\ UNCHANGED files
  /\ UNCHANGED <<present, stubborn, orphans>>
  /\ Outcome(CASE answer.status = "not_found" -> Failure("utility_not_found")
               [] answer.status = "timed_out" -> Failure("timed_out")
               [] answer.status = "spawn_failed" -> Failure("utility_failed")
               [] answer.status = "completed" ->
                    IF answer.exit_code \in Accepted THEN Success ELSE Failure("utility_failed"),
             "judge")
  /\ Keeps

\* contains_nonempty_output, which gives up at a directory it cannot read.
Answers(k) == {files[k] \cap Full # {}} \cup IF k \in stubborn THEN {FALSE} ELSE {}

\* Fault: what a failed attempt wrote stays.
JudgeOnly ==
  /\ phase = "judge"
  /\ \E found \in Answers(next) :
       Outcome(IF extraction.success /\ ~found THEN Failure("no_output") ELSE extraction, "judged")
  /\ Idle /\ Keeps

\* A success without output is none; a failure leaves no directory.
Judge ==
  /\ phase = "judge"
  /\ \E found \in Answers(next) :
       Outcome(IF extraction.success /\ ~found THEN Failure("no_output") ELSE extraction, "judged")
  /\ \/ extraction'.success /\ UNCHANGED disk
     \/ ~extraction'.success /\ Removed(next) /\ Becomes(next, FALSE, {})
     \/ ~extraction'.success /\ \E S \in Survivors(next) : Becomes(next, TRUE, S)
  /\ UNCHANGED process /\ Keeps

-----------------------------------------------------------------------------
(* The utility and what it leaves running.                                 *)

UtilityWrites ==
  /\ child = "running"
  /\ \/ Writes(next)
     \/ /\ files' = [files EXCEPT ![next] = @ \ {"input"}]
        /\ UNCHANGED <<present, stubborn, orphans>>
     \/ orphans' = orphans \cup {next} /\ UNCHANGED <<present, files, stubborn>>
  /\ UNCHANGED <<phase, extraction, process>> /\ Keeps

OrphanWrites ==
  /\ \E k \in orphans \cap present : files' = [files EXCEPT ![k] = @ \cup {"orphan"}]
  /\ UNCHANGED <<present, stubborn, orphans, phase, extraction, process>> /\ Keeps

Run(A) == A /\ UNCHANGED <<phase, extraction, disk>> /\ Keeps

Returned == phase = "choose" /\ next > Len(map) /\ UNCHANGED vars

Step == \/ Skip \/ Choose \/ Record \/ Widen
        \/ Refuse \/ CannotCreate \/ Prepare
        \/ InternalReturns \/ NotCarved \/ Carve \/ Finish \/ Judge
        \/ phase = "run" /\ Run(P!Call)
        \/ Run(P!Loop)

Next == \/ Step \/ InternalWrites \/ UtilityWrites \/ OrphanWrites
        \/ Run(P!World)
        \/ Returned

Spec == Init /\ [][Next]_vars

\* The thread that extracts runs, the clock advances, and the kernel ends what was
\* killed.  A utility need not end.
FairSpec ==
  /\ Spec
  /\ WF_vars(Step)
  /\ WF_vars(Run(P!TimePasses))
  /\ WF_vars(Run(P!ChildDies))

-----------------------------------------------------------------------------
(* Properties.                                                             *)

Failures == {"none", "unrecorded", "unsupported", "invalid_data", "utility_not_found",
             "utility_failed", "timed_out", "no_output", "write_error"}
Extractions == [success : BOOLEAN, failure : Failures]

TypeOK ==
  /\ map \in Maps
  /\ next \in 1 .. Len(map) + 1 /\ attempt \in {1, 2}
  /\ phase \in {"choose", "prepare", "internal", "carve", "run", "judge", "judged"}
  /\ extraction \in Extractions /\ results \in [DOMAIN map -> Extractions]
  /\ present \subseteq DOMAIN map /\ files \in [DOMAIN map -> SUBSET Files]
  /\ stubborn \subseteq present /\ orphans \subseteq DOMAIN map
  /\ P!TypeOK

AnswerIsTrue == P!AnswerIsTrue

\* Nobody meddles with a directory if all in it can be removed and no process
\* outlived its utility there.
Undisturbed(k) == k \notin stubborn \cup orphans

\* A recorded success has a file with bytes in its directory.  If nobody meddled its
\* own attempt wrote one, and nothing of before is there.  The carved input is there,
\* and may be all there is, only where the utility left something that cannot be
\* removed.
SuccessHasOutput ==
  \A k \in DOMAIN map :
    results[k].success =>
      /\ k \in present /\ files[k] \cap Full # {}
      /\ "input" \in files[k] => k \in stubborn
      /\ Undisturbed(k) => "own" \in files[k] /\ "old" \notin files[k]

\* A recorded failure leaves no directory, unless it could not be made or removed.
FailureLeavesNothing ==
  \A k \in DOMAIN map :
    /\ results[k].failure \notin {"none", "unrecorded", "write_error"} /\ Undisturbed(k)
         => k \notin present
    /\ results[k].failure = "write_error" /\ Undisturbed(k) => files[k] \subseteq {"old"}

\* What an attempt does leaves the output of earlier results alone.
Recorded == {k \in DOMAIN map : results[k].success}
EarlierStays == [][\A k \in Recorded : k \in present' /\ files[k] \subseteq files'[k]]_vars

\* extract returns, whatever utilities do.
ExtractReturns == <>(phase = "choose" /\ next > Len(map))
=============================================================================
