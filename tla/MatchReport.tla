----------------------------- MODULE MatchReport -----------------------------
(***************************************************************************)
(* What literal_matcher::find promises: every occurrence of a pattern that *)
(* starts at or after the first byte searched is reported exactly once,    *)
(* in the order of earlier_in_report_order, whatever slices, windows and   *)
(* lanes the search was cut into; the search ends early only when the      *)
(* callback asks it to, and the callback is not called again after that.   *)
(***************************************************************************)
EXTENDS Integers

CONSTANTS Matches,    \* the matches there may be: records with end, length, index
          NoMatch     \* stands for "none reported yet"

VARIABLES expected,   \* the occurrences not reported yet
          latest,     \* the match the callback was given last
          status      \* "searching", "stopped" by the callback, or "done"

vars == <<expected, latest, status>>

\* m is reported before n.
ReportedBefore(m, n) ==
  \/ m.end < n.end
  \/ m.end = n.end /\ m.length > n.length
  \/ m.end = n.end /\ m.length = n.length /\ m.index < n.index

Init == /\ expected \in SUBSET Matches
        /\ latest = NoMatch
        /\ status = "searching"

Report == /\ status = "searching"
          /\ \E m \in expected :
               /\ \A n \in expected \ {m} : ReportedBefore(m, n)
               /\ expected' = expected \ {m}
               /\ latest' = m
          /\ status' \in {"searching", "stopped"}

Finish == /\ status = "searching"
          /\ expected = {}
          /\ status' = "done"
          /\ UNCHANGED <<expected, latest>>

Next == Report \/ Finish

Spec == Init /\ [][Next]_vars
=============================================================================
