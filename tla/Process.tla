------------------------------- MODULE Process --------------------------------
(***************************************************************************)
(* run_process on POSIX (lib/src/process.cpp), called with a timeout, as   *)
(* the extractors do: the child is polled until it exits or the deadline   *)
(* has passed, then killed and waited for.  The child, the kernel and the  *)
(* clock move on their own.                                                *)
(***************************************************************************)
EXTENDS Integers

CONSTANT Codes   \* what the child may exit with, a signal of its own included

VARIABLES
  at,        \* where run_process is: "idle" is before the call
  child,     \* "none", "running", "zombie" or "gone"
  code,      \* what a child that exited by itself exited with
  ignoring,  \* SIGCHLD is ignored in this process, which keeps no zombies
  late,      \* the deadline has passed
  answer     \* the process_result

vars == <<at, child, code, ignoring, late, answer>>

NoCode == -1
NoAnswer == [status |-> "none", exit_code |-> NoCode]
Answer(s, c) == answer' = [status |-> s, exit_code |-> c] /\ at' = "returned"

Init == /\ at = "idle"
        /\ child = "none"
        /\ code = NoCode
        /\ ignoring \in BOOLEAN
        /\ late = FALSE
        /\ answer = NoAnswer

-----------------------------------------------------------------------------
(* run_process.                                                            *)

\* The program was removed since it was looked for.
NotFound ==
  /\ at = "idle"
  /\ Answer("not_found", NoCode)
  /\ UNCHANGED <<child, code, ignoring, late>>

\* A file action or posix_spawn fails.
SpawnFails ==
  /\ at = "idle"
  /\ Answer("spawn_failed", NoCode)
  /\ UNCHANGED <<child, code, ignoring, late>>

Spawn ==
  /\ at = "idle"
  /\ child' = "running" /\ late' = FALSE
  /\ at' = "poll"
  /\ UNCHANGED <<code, ignoring, answer>>

\* waitpid with WNOHANG: 0, the child, or ECHILD.
Poll ==
  /\ at = "poll"
  /\ \/ child = "running" /\ at' = "looked" /\ UNCHANGED <<child, answer>>
     \/ child = "zombie" /\ child' = "gone" /\ Answer("completed", code)
     \/ child = "gone" /\ Answer("spawn_failed", NoCode) /\ UNCHANGED child
  /\ UNCHANGED <<code, ignoring, late>>

\* Fault: the deadline is counted from the last look.
SleepAnew ==
  /\ at = "looked"
  /\ at' = "poll" /\ late' = FALSE
  /\ UNCHANGED <<child, code, ignoring, answer>>

Sleep ==
  /\ at = "looked" /\ ~late
  /\ at' = "poll"
  /\ UNCHANGED <<child, code, ignoring, late, answer>>

\* kill: the child, if it still runs, dies a moment later.
Kill ==
  /\ at = "looked" /\ late
  /\ at' = "reap"
  /\ UNCHANGED <<child, code, ignoring, late, answer>>

\* Fault: the child is killed and not waited for.
ReapNothing ==
  /\ at = "reap"
  /\ Answer("timed_out", NoCode)
  /\ UNCHANGED <<child, code, ignoring, late>>

\* The second waitpid returns when the child is no longer running.
Reap ==
  /\ at = "reap" /\ child # "running"
  /\ child' = "gone"
  /\ Answer("timed_out", NoCode)
  /\ UNCHANGED <<code, ignoring, late>>

Return ==
  /\ at = "returned"
  /\ at' = "idle" /\ child' = "none" /\ code' = NoCode /\ late' = FALSE
  /\ answer' = NoAnswer
  /\ UNCHANGED ignoring

-----------------------------------------------------------------------------
(* The world.                                                              *)

\* Where the child is left when it stops.
Stopped == child' = IF ignoring THEN "gone" ELSE "zombie"

ChildExits ==
  /\ child = "running"
  /\ Stopped
  /\ code' \in Codes
  /\ UNCHANGED <<at, ignoring, late, answer>>

ChildDies ==
  /\ child = "running" /\ at = "reap"
  /\ Stopped
  /\ UNCHANGED <<at, code, ignoring, late, answer>>

TimePasses ==
  /\ at \in {"poll", "looked"} /\ ~late
  /\ late' = TRUE
  /\ UNCHANGED <<at, child, code, ignoring, answer>>

Call == NotFound \/ SpawnFails \/ Spawn
Loop == Poll \/ Sleep \/ Kill \/ Reap
World == ChildExits \/ ChildDies \/ TimePasses

-----------------------------------------------------------------------------
(* Properties.                                                             *)

TypeOK ==
  /\ at \in {"idle", "poll", "looked", "reap", "returned"}
  /\ child \in {"none", "running", "zombie", "gone"}
  /\ code \in Codes \cup {NoCode}
  /\ ignoring \in BOOLEAN /\ late \in BOOLEAN
  /\ answer.status \in {"none", "completed", "not_found", "spawn_failed", "timed_out"}
  /\ answer.exit_code \in Codes \cup {NoCode}

\* When run_process returned no child is left, neither at work nor as a zombie,
\* and what it says is what became of the child: an exit by itself, which a
\* process that ignores SIGCHLD is not told of, or the deadline.
AnswerIsTrue ==
  at = "returned" =>
    /\ child \in {"none", "gone"}
    /\ answer.status = "completed" => code # NoCode /\ answer.exit_code = code
    /\ answer.status = "timed_out" => late
    /\ answer.status = "spawn_failed" /\ child = "gone" => ignoring
=============================================================================
