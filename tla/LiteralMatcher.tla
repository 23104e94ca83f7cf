--------------------------- MODULE LiteralMatcher ----------------------------
(***************************************************************************)
(* literal_matcher::find (lib/src/detail/literal_matcher.cpp): one search  *)
(* cut into windows of interleaved slices, several lanes of windows at a   *)
(* time when a pool is lent, then a plain walk over what is left.  The     *)
(* automaton is abstracted to what it recognises (LiteralAutomaton checks  *)
(* that): started at byte b it sees exactly the occurrences that start at  *)
(* or after b.  The lanes of one round run in any order, as task_pool::run *)
(* promises (ParallelFor).                                                 *)
(***************************************************************************)
EXTENDS Integers, Sequences, FiniteSets

CONSTANTS
  Patterns,             \* the literals, a sequence of non-empty sequences
  LongestPattern,       \* the length of the longest
  Texts,                \* the inputs searched
  Walks,                \* interleaved_walks: slices in a window
  WideSlice,            \* wide_slice
  NarrowSlice,          \* narrow_slice
  MaxWindowsPerLane,    \* max_windows_per_lane
  Lanes,                \* the pool's width
  NoMatch

ASSUME SlicesAssumption ==
  /\ {Walks, WideSlice, NarrowSlice, MaxWindowsPerLane} \subseteq Nat \ {0}
  /\ Lanes \in Nat /\ Lanes > 1
ASSUME LongestAssumption ==
  /\ LongestPattern \in Nat \ {0}
  /\ DOMAIN Patterns = 1 .. Len(Patterns)
  /\ \A p \in DOMAIN Patterns : Len(Patterns[p]) \in 1 .. LongestPattern
ASSUME TextsAssumption == \A text \in Texts : Len(text) \in Nat

VARIABLES
  occurrences,    \* what there is to find: the matches that start at from or later
  size,           \* bytes in the text
  interleaved,    \* backend_ = backend::interleaved
  pooled,         \* a pool was lent
  phase,          \* where find is
  resume,         \* the phase that follows the release in progress
  cursor,         \* every match that starts before it was collected
  stride,         \* windows_per_lane of the round in progress
  harvest,        \* what each lane of the round collected, or NoMatch
  pending,        \* state.pending: matches, each with the slice it came from
  reported,       \* history: the matches given to the callback
  latest,         \* history: the last of them
  stopped,        \* the callback returned false
  reach           \* history: one past the last byte read

input == <<occurrences, size, interleaved, pooled>>
delivered == <<reported, latest, stopped>>
vars == <<occurrences, size, interleaved, pooled, phase, resume, cursor,
          stride, harvest, pending, reported, latest, stopped, reach>>

Lookahead == LongestPattern - 1
WideWindow == Walks * WideSlice
NarrowWindow == Walks * NarrowSlice
LaneIds == 0 .. Lanes - 1
StartOf(m) == m.end - m.length

\* Every place of a text at which a pattern begins, from byte `from` on.
OccurrencesIn(text, from) ==
  LET Fits(p, s) == /\ s + Len(Patterns[p]) <= Len(text)
                    /\ SubSeq(text, s + 1, s + Len(Patterns[p])) = Patterns[p]
  IN {[end |-> sp[1] + Len(Patterns[sp[2]]),
       length |-> Len(Patterns[sp[2]]), index |-> sp[2]] :
         sp \in {x \in (from .. Len(text)) \X DOMAIN Patterns : Fits(x[2], x[1])}}

Init ==
  /\ \E text \in Texts, from \in {0, 1} :
       /\ size = Len(text)
       /\ occurrences = OccurrencesIn(text, from)
       /\ cursor = from
  /\ interleaved \in BOOLEAN /\ pooled \in BOOLEAN
  /\ phase = "entry" /\ resume = "entry"
  /\ stride = 0
  /\ harvest = [l \in LaneIds |-> NoMatch]
  /\ pending = {} /\ reported = {} /\ latest = NoMatch /\ stopped = FALSE
  /\ reach = cursor

Larger(a, b) == IF a > b THEN a ELSE b
Smaller(a, b) == IF a < b THEN a ELSE b

-----------------------------------------------------------------------------
(* What one walk collects.                                                 *)

\* collect_matches over a walk that starts at begin and reads up to last:
\* the matches that start before the end of the slice.
SliceMatches(begin, end, last) ==
  {[match |-> m, slice |-> begin] :
     m \in {x \in occurrences : /\ StartOf(x) >= begin /\ StartOf(x) < end
                                /\ x.end <= last}}

\* walk_one_window: the slices of one window, each read past its end so that
\* a match that straddles it is seen.
WindowMatches(begin, span) ==
  UNION {LET b == begin + w * span
         IN SliceMatches(b, b + span, b + span + Lookahead) : w \in 0 .. Walks - 1}

-----------------------------------------------------------------------------
(* find and the two walks it calls.                                        *)

\* The early return, and the choice of the first walk.
Enter ==
  /\ phase = "entry"
  /\ phase' = IF cursor >= size THEN "returned"
              ELSE IF ~interleaved THEN "tail"
              ELSE IF pooled THEN "pool" ELSE "wide"
  /\ UNCHANGED <<input, resume, cursor, stride, harvest, pending, delivered, reach>>

\* The windows a round of the pool may take: none if the lookahead does not fit.
WindowsLeft == IF size >= Lookahead /\ cursor <= size - Lookahead
               THEN (size - Lookahead - cursor) \div WideWindow ELSE 0

\* Fault: a round is started when some lane has no window.
BeginAnyRound ==
  /\ phase = "pool" /\ WindowsLeft > 0
  /\ stride' = Smaller(MaxWindowsPerLane, WindowsLeft \div Lanes)
  /\ harvest' = [l \in LaneIds |-> NoMatch]
  /\ phase' = "lanes"
  /\ UNCHANGED <<input, resume, cursor, pending, delivered, reach>>

BeginRound ==
  /\ phase = "pool" /\ WindowsLeft >= Lanes
  /\ stride' = Smaller(MaxWindowsPerLane, WindowsLeft \div Lanes)
  /\ harvest' = [l \in LaneIds |-> NoMatch]
  /\ phase' = "lanes"
  /\ UNCHANGED <<input, resume, cursor, pending, delivered, reach>>

\* body(lane), on whichever thread drew the lane's index.
WalkLane(l) ==
  LET begin == cursor + l * stride * WideWindow IN
  /\ phase = "lanes" /\ harvest[l] = NoMatch
  /\ harvest' = [harvest EXCEPT ![l] =
       UNION {WindowMatches(begin + w * WideWindow, WideSlice) : w \in 0 .. stride - 1}]
  /\ reach' = Larger(reach, begin + stride * WideWindow + Lookahead)
  /\ UNCHANGED <<input, phase, resume, cursor, stride, pending, delivered>>

JoinRound ==
  /\ phase = "lanes" /\ \A l \in LaneIds : harvest[l] # NoMatch
  /\ pending' = pending \cup UNION {harvest[l] : l \in LaneIds}
  /\ cursor' = cursor + Lanes * stride * WideWindow
  /\ phase' = "releasing" /\ resume' = "pool"
  /\ UNCHANGED <<input, stride, harvest, delivered, reach>>

EndRounds ==
  /\ phase = "pool" /\ WindowsLeft < Lanes
  /\ phase' = "wide"
  /\ UNCHANGED <<input, resume, cursor, stride, harvest, pending, delivered, reach>>

\* Fault: the lookahead is not left out of the bytes a window may start at.
WindowFitsWithoutLookahead(window) == cursor + window <= size

\* size >= lookahead + window && cursor <= size - lookahead - window
WindowFits(window) == cursor + window + Lookahead <= size

\* One window of one of the two loops of walk_windows_on_this_thread.
WalkWindow(where, span) ==
  /\ phase = where /\ WindowFits(Walks * span)
  /\ pending' = pending \cup WindowMatches(cursor, span)
  /\ cursor' = cursor + Walks * span
  /\ reach' = Larger(reach, cursor + Walks * span + Lookahead)
  /\ phase' = "releasing" /\ resume' = where
  /\ UNCHANGED <<input, stride, harvest, delivered>>

EndWindows(where, window, next) ==
  /\ phase = where /\ ~WindowFits(window)
  /\ phase' = next
  /\ UNCHANGED <<input, resume, cursor, stride, harvest, pending, delivered, reach>>

\* walk_without_interleaving over what is left; everything pending is
\* released after it.
WalkTail ==
  /\ phase = "tail"
  /\ pending' = pending \cup SliceMatches(cursor, size, size)
  /\ reach' = Larger(reach, size)
  /\ phase' = "releasing" /\ resume' = "returned"
  /\ UNCHANGED <<input, cursor, stride, harvest, delivered>>

-----------------------------------------------------------------------------
(* release_matches_ending_at_or_before                                     *)

\* earlier_in_report_order
Earlier(m, n) ==
  \/ m.end < n.end
  \/ m.end = n.end /\ m.length > n.length
  \/ m.end = n.end /\ m.length = n.length /\ m.index < n.index

\* Fault: matches are released before those that may precede them are known.
ReleasableTooEarly == pending

\* What the release in progress may give to the callback.
Releasable ==
  {x \in pending : x.match.end <= (IF resume = "returned" THEN size ELSE cursor)}

\* One call of the callback, with the least of the sorted records.
Deliver ==
  /\ phase = "releasing"
  /\ \E x \in Releasable :
       /\ \A y \in Releasable : ~Earlier(y.match, x.match)
       /\ pending' = pending \ {x}
       /\ reported' = reported \cup {x.match}
       /\ latest' = x.match
  /\ \/ stopped' = FALSE /\ UNCHANGED phase
     \/ stopped' = TRUE /\ phase' = "returned"
  /\ UNCHANGED <<input, resume, cursor, stride, harvest, reach>>

EndRelease ==
  /\ phase = "releasing" /\ Releasable = {}
  /\ phase' = resume
  /\ UNCHANGED <<input, resume, cursor, stride, harvest, pending, delivered, reach>>

\* find has returned; TLC reports any other state without a step.
Returned == phase = "returned" /\ UNCHANGED vars

-----------------------------------------------------------------------------
Step == \/ Enter
        \/ BeginRound \/ JoinRound \/ EndRounds
        \/ \E l \in LaneIds : WalkLane(l)
        \/ WalkWindow("wide", WideSlice)
        \/ EndWindows("wide", WideWindow, "narrow")
        \/ WalkWindow("narrow", NarrowSlice)
        \/ EndWindows("narrow", NarrowWindow, "tail")
        \/ WalkTail
        \/ Deliver \/ EndRelease

Next == Step \/ Returned

Spec == Init /\ [][Next]_vars

-----------------------------------------------------------------------------
(* Properties.                                                             *)

\* The windows take their bytes through raw pointers: none reads past the
\* end of the data, whatever the sizes of slices, lookahead and lanes.
NoOverRead == reach <= size \/ (reach = cursor /\ phase \in {"entry", "returned"})

\* The search as seen by its caller.
M == INSTANCE MatchReport WITH
  Matches <- [end : Nat, length : Nat, index : Nat],
  expected <- occurrences \ reported,
  status <- IF stopped THEN "stopped"
            ELSE IF phase = "returned" THEN "done" ELSE "searching"

\* Cutting the search into slices, windows and lanes changes neither what is
\* reported nor the order: it is the single walk's report.
ImplementsMatchReport == M!Spec
=============================================================================
