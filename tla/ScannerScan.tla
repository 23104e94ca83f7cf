----------------------------- MODULE ScannerScan -----------------------------
(***************************************************************************)
(* scanner::scan (lib/src/scanner.cpp): the short signatures tried at      *)
(* their fixed offsets, the literal search with its floor of claimed       *)
(* bytes, the confidence and overlap filter over the sorted results, and   *)
(* the sizes filled in at the end.  A format's parser is what a parser may *)
(* do: reject, or answer a result that starts at its magic or some way     *)
(* before it.  The matches arrive in the order MatchReport promises.       *)
(***************************************************************************)
EXTENDS Integers, Sequences, FiniteSets

CONSTANTS
  DataSize,         \* data.size()
  Matches,          \* the matches there may be: records with start, length, index
  MaxMatches,       \* bound: matches in one input
  ShortSignatures,  \* each with its magic_offset and its number of patterns
  BackOffsets,      \* how far before its magic a parser may start a result
  MaxSize,          \* bound: the largest size a parser answers
  Low, Medium, High \* confidence_low, confidence_medium, confidence_high

Confidences == {Low, Medium, High}

ASSUME ScanAssumption ==
  /\ DataSize \in Nat \ {0} /\ MaxMatches \in Nat /\ MaxSize \in Nat
  /\ Matches \subseteq [start : 0 .. DataSize - 1, length : Nat \ {0}, index : Nat]
  /\ ShortSignatures \in Seq([magic : Nat, patterns : Nat \ {0}])
  /\ BackOffsets \subseteq Nat
  /\ Confidences \subseteq Nat /\ Low < Medium /\ Medium < High

VARIABLES
  phase,         \* "short", "walk", "filter", "fill" or "done"
  searchAll,     \* options.search_all
  upcoming,      \* the matches find did not report yet
  signature,     \* the short signature tried, and its pattern
  pattern,
  results,       \* in the order they were found
  floor,         \* first_unclaimed_offset
  unprocessed,   \* the results the filter did not look at yet
  filtered,
  nextFree,      \* next_non_overlapping_offset
  fill           \* the filtered result whose size is filled in next

walked == <<signature, pattern, upcoming, floor, results>>
kept == <<unprocessed, filtered, nextFree, fill>>
vars == <<phase, searchAll, upcoming, signature, pattern, results, floor,
          unprocessed, filtered, nextFree, fill>>

Init ==
  /\ phase = "short"
  /\ searchAll \in BOOLEAN
  /\ upcoming \in {S \in SUBSET Matches : Cardinality(S) <= MaxMatches}
  /\ signature = 1 /\ pattern = 1
  /\ results = << >>
  /\ floor = 0
  /\ unprocessed = {} /\ filtered = << >> /\ nextFree = 0 /\ fill = 1

\* What a parser may answer for a magic: the ranges it may claim.
Parsed(magic) ==
  {[offset |-> magic - b, size |-> s, confidence |-> c] :
     b \in {x \in BackOffsets : x <= magic}, s \in 0 .. MaxSize, c \in Confidences}

ResultWithin(r) == r.offset <= DataSize /\ r.size <= DataSize - r.offset

-----------------------------------------------------------------------------
(* Short signatures: with search_all they are searched like the others.    *)

ShortDone == searchAll \/ signature > Len(ShortSignatures)

NextSignature == signature' = signature + 1 /\ pattern' = 1

\* The pattern is not there, or the parser rejects it, or its answer is not
\* within the data: the next pattern is tried.
ShortMiss ==
  /\ phase = "short" /\ ~ShortDone
  /\ IF pattern < ShortSignatures[signature].patterns
     THEN pattern' = pattern + 1 /\ UNCHANGED signature
     ELSE NextSignature
  /\ UNCHANGED <<phase, searchAll, upcoming, results, floor, kept>>

\* A result was found: the signature's other patterns are not tried.  A pattern
\* has a byte at least and is not looked for where it would reach the data's end.
ShortHit ==
  /\ phase = "short" /\ ~ShortDone
  /\ ShortSignatures[signature].magic + 1 < DataSize
  /\ \E r \in Parsed(ShortSignatures[signature].magic) :
       ResultWithin(r) /\ results' = Append(results, r)
  /\ NextSignature
  /\ UNCHANGED <<phase, searchAll, upcoming, floor, kept>>

BeginWalk ==
  /\ phase = "short" /\ ShortDone
  /\ phase' = "walk"
  /\ UNCHANGED <<searchAll, walked, kept>>

-----------------------------------------------------------------------------
(* visit, called by find once for each match.                              *)

ReportedBefore(m, n) ==
  \/ m.start + m.length < n.start + n.length
  \/ m.start + m.length = n.start + n.length /\ m.length > n.length
  \/ m.start = n.start /\ m.length = n.length /\ m.index < n.index

IsNext(m) == m \in upcoming /\ \A n \in upcoming \ {m} : ReportedBefore(m, n)

\* The match starts in claimed bytes, or the parser rejects it, or its answer
\* is not within the data.
VisitMiss(m) ==
  /\ phase = "walk" /\ IsNext(m)
  /\ upcoming' = upcoming \ {m}
  /\ UNCHANGED <<phase, searchAll, signature, pattern, results, floor, kept>>

\* Fault: any result that claims nothing ends the search.
VisitHitStopping(m) ==
  /\ phase = "walk" /\ IsNext(m) /\ m.start >= floor
  /\ upcoming' = upcoming \ {m}
  /\ \E r \in Parsed(m.start) :
       /\ ResultWithin(r)
       /\ results' = Append(results, r)
       /\ LET end == r.offset + r.size
              claims == ~searchAll /\ r.confidence >= Medium /\ r.size > 0
          IN /\ floor' = IF claims /\ end > floor THEN end ELSE floor
             /\ phase' = IF ~claims \/ end <= floor THEN "filter" ELSE "walk"
             /\ unprocessed' = IF phase' = "filter" THEN DOMAIN results' ELSE {}
  /\ UNCHANGED <<searchAll, signature, pattern, filtered, nextFree, fill>>

\* A result is kept; a confident one claims its bytes, and one that ends in
\* bytes already claimed makes visit answer false, which ends the search.
VisitHit(m) ==
  /\ phase = "walk" /\ IsNext(m) /\ m.start >= floor
  /\ upcoming' = upcoming \ {m}
  /\ \E r \in Parsed(m.start) :
       /\ ResultWithin(r)
       /\ results' = Append(results, r)
       /\ LET end == r.offset + r.size
              claims == ~searchAll /\ r.confidence >= Medium /\ r.size > 0
          IN /\ floor' = IF claims /\ end > floor THEN end ELSE floor
             /\ phase' = IF claims /\ end <= floor THEN "filter" ELSE "walk"
             /\ unprocessed' = IF phase' = "filter" THEN DOMAIN results' ELSE {}
  /\ UNCHANGED <<searchAll, signature, pattern, filtered, nextFree, fill>>

EndWalk ==
  /\ phase = "walk" /\ upcoming = {}
  /\ phase' = "filter"
  /\ unprocessed' = DOMAIN results
  /\ UNCHANGED <<searchAll, walked, filtered, nextFree, fill>>

-----------------------------------------------------------------------------
(* The filter over the stably sorted results.                              *)

\* The sorted order: by offset, and for one offset in the order found.
IsCandidate(i) ==
  /\ i \in unprocessed
  /\ \A j \in unprocessed \ {i} :
       \/ results[i].offset < results[j].offset
       \/ results[i].offset = results[j].offset /\ i < j

Back == filtered[Len(filtered)]
SharesOffset(r) == filtered # << >> /\ Back.offset = r.offset

\* The results the filter keeps remember their place among the results, a
\* history field: `from`.
Keep(r, i) == [offset |-> r.offset, size |-> r.size,
               confidence |-> r.confidence, from |-> i]

\* Fault: the last result found at an offset wins.
RankByArrival(i) ==
  /\ phase = "filter" /\ IsCandidate(i) /\ SharesOffset(results[i])
  /\ filtered' = [filtered EXCEPT ![Len(filtered)] = Keep(results[i], i)]
  /\ unprocessed' = unprocessed \ {i}
  /\ UNCHANGED <<phase, searchAll, walked, nextFree, fill>>

\* Two results at one offset: the more confident stays, the earlier on a tie.
Rank(i) ==
  /\ phase = "filter" /\ IsCandidate(i) /\ SharesOffset(results[i])
  /\ filtered' = IF results[i].confidence > Back.confidence
                 THEN [filtered EXCEPT ![Len(filtered)] = Keep(results[i], i)]
                 ELSE filtered
  /\ unprocessed' = unprocessed \ {i}
  /\ UNCHANGED <<phase, searchAll, walked, nextFree, fill>>

\* Inside the bytes of a confident result.
DropOverlapped(i) ==
  /\ phase = "filter" /\ IsCandidate(i) /\ ~SharesOffset(results[i])
  /\ results[i].offset < nextFree
  /\ unprocessed' = unprocessed \ {i}
  /\ UNCHANGED <<phase, searchAll, walked, filtered, nextFree, fill>>

\* Fault: a result claims the bytes up to the data's end.
KeepClaimingAll(i) ==
  /\ phase = "filter" /\ IsCandidate(i) /\ ~SharesOffset(results[i])
  /\ results[i].offset >= nextFree
  /\ nextFree' = IF results[i].confidence >= Medium THEN DataSize ELSE nextFree
  /\ filtered' = Append(filtered, Keep(results[i], i))
  /\ unprocessed' = unprocessed \ {i}
  /\ UNCHANGED <<phase, searchAll, walked, fill>>

Accept(i) ==
  /\ phase = "filter" /\ IsCandidate(i) /\ ~SharesOffset(results[i])
  /\ results[i].offset >= nextFree
  /\ nextFree' = IF results[i].confidence >= Medium
                 THEN results[i].offset + results[i].size ELSE nextFree
  /\ filtered' = Append(filtered, Keep(results[i], i))
  /\ unprocessed' = unprocessed \ {i}
  /\ UNCHANGED <<phase, searchAll, walked, fill>>

BeginFill ==
  /\ phase = "filter" /\ unprocessed = {}
  /\ phase' = "fill"
  /\ UNCHANGED <<searchAll, walked, kept>>

-----------------------------------------------------------------------------
(* A result without a size ends where the next confident one starts.       *)

ConfidentAfter(k) == {n \in k + 1 .. Len(filtered) : filtered[n].confidence >= Medium}

\* Fault: the search for the next confident result starts at the result itself.
EndOfSelf(k) == filtered[k].offset

EndOf(k) ==
  IF ConfidentAfter(k) = {} THEN DataSize
  ELSE filtered[CHOOSE n \in ConfidentAfter(k) :
                  \A o \in ConfidentAfter(k) : n <= o].offset

FillSize ==
  /\ phase = "fill" /\ fill <= Len(filtered)
  /\ filtered' = IF filtered[fill].size = 0
                 THEN [filtered EXCEPT ![fill].size = EndOf(fill) - filtered[fill].offset]
                 ELSE filtered
  /\ fill' = fill + 1
  /\ UNCHANGED <<phase, searchAll, walked, unprocessed, nextFree>>

EndFill ==
  /\ phase = "fill" /\ fill > Len(filtered)
  /\ phase' = "done"
  /\ UNCHANGED <<searchAll, walked, kept>>

\* The results are returned; TLC reports any other state without a step.
Returned == phase = "done" /\ UNCHANGED vars

Next ==
  \/ ShortMiss \/ ShortHit \/ BeginWalk
  \/ \E m \in Matches : VisitMiss(m) \/ VisitHit(m)
  \/ EndWalk
  \/ \E i \in DOMAIN results : Rank(i) \/ DropOverlapped(i) \/ Accept(i)
  \/ BeginFill \/ FillSize \/ EndFill
  \/ Returned

Spec == Init /\ [][Next]_vars

-----------------------------------------------------------------------------
(* Properties.                                                             *)

Ranges == [offset : 0 .. DataSize, size : 0 .. DataSize, confidence : Confidences]
KeptRanges == [offset : 0 .. DataSize, size : 0 .. DataSize,
               confidence : Confidences, from : Nat]

TypeOK ==
  /\ phase \in {"short", "walk", "filter", "fill", "done"}
  /\ searchAll \in BOOLEAN
  /\ upcoming \subseteq Matches
  /\ signature \in Nat \ {0} /\ pattern \in Nat \ {0}
  /\ results \in Seq(Ranges)
  /\ floor \in 0 .. DataSize
  /\ unprocessed \subseteq DOMAIN results
  /\ filtered \in Seq(KeptRanges)
  /\ nextFree \in 0 .. DataSize
  /\ fill \in Nat \ {0}

\* The answer is ordered by offset with no offset twice, which the fill of
\* sizes, the carving of the file and the tables printed rely on.
OffsetsIncrease ==
  \A i, j \in DOMAIN filtered : i < j => filtered[i].offset < filtered[j].offset

\* Of the results found at one offset the most confident is the one reported,
\* and the first found among equals.
BestAtOffset ==
  phase \in {"fill", "done"} =>
    \A k \in DOMAIN filtered : \A i \in DOMAIN results :
      results[i].offset = filtered[k].offset =>
        \/ results[i].confidence < filtered[k].confidence
        \/ results[i].confidence = filtered[k].confidence /\ filtered[k].from <= i

FirstAtOffset(j) ==
  \A i \in DOMAIN results : results[i].offset = results[j].offset => j <= i

\* A result that is not reported gave way to one at its own offset, or starts within
\* the bytes of a confident one that was the first found at an offset that is
\* reported, by a result at least as confident.  The bytes are the first one's: the
\* result reported there may be a shorter one, found later.
DroppedForCause ==
  phase \in {"fill", "done"} =>
    \A offset \in {results[i].offset : i \in DOMAIN results} :
      \/ \E k \in DOMAIN filtered : filtered[k].offset = offset
      \/ \E k \in DOMAIN filtered, j \in DOMAIN results :
           /\ FirstAtOffset(j) /\ results[j].confidence >= Medium
           /\ results[j].offset < offset /\ offset < results[j].offset + results[j].size
           /\ filtered[k].offset = results[j].offset
           /\ filtered[k].confidence >= results[j].confidence

\* Every range reported is non-empty and within the data, and a size that was
\* filled in does not reach into a confident result.
RangesAreUsable ==
  phase = "done" =>
    \A k \in DOMAIN filtered :
      /\ filtered[k].size > 0 /\ filtered[k].offset + filtered[k].size <= DataSize
      /\ results[filtered[k].from].size = 0 =>
           \A n \in ConfidentAfter(k) :
             filtered[k].offset + filtered[k].size <= filtered[n].offset

\* Every match is visited: the search ends before its last match only if a
\* result ends in bytes claimed before its own magic was reached.
WalkIsComplete == phase \in {"filter", "fill", "done"} => upcoming = {}

\* The search ends before its last match only for a result that starts in claimed
\* bytes its magic lies beyond: if all results start at their magic, every match
\* is visited.
EndsEarlyOnlyForClaimed ==
  phase \in {"filter", "fill", "done"} /\ upcoming # {} =>
    /\ results # << >>
    /\ LET last == results[Len(results)]
       IN last.confidence >= Medium /\ last.offset < floor /\ last.offset + last.size <= floor

\* The overlap filter: no result starts within the bytes of a confident one
\* that is itself reported.
OverlapFiltered ==
  phase \in {"fill", "done"} =>
    \A i, j \in DOMAIN filtered :
      i < j /\ filtered[i].confidence >= Medium =>
        filtered[j].offset >=
          filtered[i].offset + results[filtered[i].from].size
=============================================================================
