-------------------------- MODULE ScannerScanProofs ---------------------------
(***************************************************************************)
(* For any data, signatures and parsers: the results scanner::scan returns *)
(* are ordered, one per offset, the best found there, dropped only for a   *)
(* cause and given usable sizes; and no match is left unvisited as long as *)
(* results start at their magic.                                           *)
(***************************************************************************)
EXTENDS ScannerScan, SequenceTheorems, FiniteSetTheorems, WellFoundedInduction, TLAPS

\* A non-empty set of natural numbers has a least element.
LEMMA LeastNatural ==
  ASSUME NEW T, T \subseteq Nat, T # {}
  PROVE  \E x \in T : \A y \in T : x <= y
<1> DEFINE U == {0 .. x : x \in T}
<1>1. U \subseteq FiniteSubsetsOf(Nat)
  <2> SUFFICES ASSUME NEW x \in T PROVE 0 .. x \in FiniteSubsetsOf(Nat)
    OBVIOUS
  <2>1. IsFiniteSet(0 .. x)
    BY FS_Interval
  <2> QED BY <2>1 DEF FiniteSubsetsOf
<1>2. PICK u \in U : \A v \in U : <<v, u>> \notin StrictSubsetOrdering(Nat)
  <2>1. U # {}
    OBVIOUS
  <2> HIDE DEF U
  <2> QED BY <1>1, <2>1, FS_StrictSubsetOrderingWellFounded, WFMin
<1>3. PICK x \in T : u = 0 .. x
  OBVIOUS
<1>4. ASSUME NEW y \in T, y < x PROVE FALSE
  <2>1. 0 .. y \subseteq 0 .. x
    BY <1>4
  <2>2. x \in 0 .. x /\ x \notin 0 .. y
    BY <1>4
  <2>3. <<0 .. y, 0 .. x>> \in StrictSubsetOrdering(Nat)
    BY <2>1, <2>2 DEF StrictSubsetOrdering
  <2> QED BY <2>3, <1>2, <1>3
<1> QED BY <1>4

-----------------------------------------------------------------------------
(* The inductive invariant.                                                *)

\* The results the filter has looked at.
Looked == {i \in DOMAIN results : phase \in {"filter", "fill", "done"} /\ i \notin unprocessed}

ResultsInData ==
  \A i \in DOMAIN results : /\ results[i].offset < DataSize
                            /\ results[i].offset + results[i].size <= DataSize

PhaseFacts ==
  /\ phase \in {"short", "walk"} => filtered = << >> /\ nextFree = 0 /\ unprocessed = {}
  /\ phase \in {"short", "walk", "filter"} => fill = 1
  /\ phase \in {"fill", "done"} => unprocessed = {}
  /\ phase = "done" => fill > Len(filtered)

\* Each result kept is one of those found; the sizes before `fill` are final.
KeptAreFound ==
  \A k \in DOMAIN filtered :
    /\ filtered[k].from \in Looked
    /\ filtered[k].offset = results[filtered[k].from].offset
    /\ filtered[k].confidence = results[filtered[k].from].confidence
    /\ k >= fill => filtered[k].size = results[filtered[k].from].size

SizesAreFinal ==
  \A k \in DOMAIN filtered : k < fill =>
    /\ filtered[k].size > 0
    /\ filtered[k].offset + filtered[k].size <= DataSize
    /\ results[filtered[k].from].size = 0 =>
         \A n \in ConfidentAfter(k) :
           filtered[k].offset + filtered[k].size <= filtered[n].offset

\* What is still to be looked at comes after what was.
RestIsLater ==
  /\ \A k \in DOMAIN filtered, i \in unprocessed : filtered[k].offset <= results[i].offset
  /\ \A j \in Looked, i \in unprocessed :
       \/ results[j].offset < results[i].offset
       \/ results[j].offset = results[i].offset /\ j < i

BestSoFar ==
  \A k \in DOMAIN filtered, i \in Looked :
    results[i].offset = filtered[k].offset =>
      \/ results[i].confidence < filtered[k].confidence
      \/ results[i].confidence = filtered[k].confidence /\ filtered[k].from <= i

Represented(offset) == \E k \in DOMAIN filtered : filtered[k].offset = offset

InsideConfident(i) ==
  \E j \in DOMAIN results : /\ FirstAtOffset(j) /\ results[j].confidence >= Medium
                            /\ results[j].offset < results[i].offset
                            /\ results[i].offset < results[j].offset + results[j].size
                            /\ Represented(results[j].offset)

CauseSoFar ==
  \A i \in Looked :
    \/ Represented(results[i].offset)
    \/ results[i].offset < nextFree /\ InsideConfident(i)

\* nextFree is the end of a confident result, the first at an offset represented.
ClaimIsFound ==
  nextFree = 0 \/
    \E j \in DOMAIN results : /\ FirstAtOffset(j) /\ results[j].confidence >= Medium
                              /\ nextFree = results[j].offset + results[j].size
                              /\ Represented(results[j].offset)

FilterInv == /\ KeptAreFound /\ SizesAreFinal /\ OffsetsIncrease /\ RestIsLater
             /\ BestSoFar /\ CauseSoFar /\ ClaimIsFound

IInv == TypeOK /\ ResultsInData /\ PhaseFacts /\ FilterInv

\* Before the filter has looked at a result there is nothing to say of it.
LEMMA NothingFiltered ==
  filtered = << >> /\ nextFree = 0 /\ Looked = {} => FilterInv
BY DEF FilterInv, KeptAreFound, SizesAreFinal, OffsetsIncrease, RestIsLater,
       BestSoFar, CauseSoFar, ClaimIsFound

\* The same, after a step.
LEMMA NothingFilteredNext ==
  filtered' = << >> /\ nextFree' = 0 /\ Looked' = {} => FilterInv'
BY DEF FilterInv, KeptAreFound, SizesAreFinal, OffsetsIncrease, RestIsLater,
       BestSoFar, CauseSoFar, ClaimIsFound

\* The initial states satisfy the invariant.
LEMMA InitIInv == Init => IInv
<1> SUFFICES ASSUME Init PROVE IInv
  OBVIOUS
<1>1. TypeOK
  BY ScanAssumption DEF ScanAssumption, Init, TypeOK
<1>2. ResultsInData /\ PhaseFacts
  BY DEF Init, ResultsInData, PhaseFacts
<1>3. FilterInv
  BY NothingFiltered DEF Init, Looked
<1> QED BY <1>1, <1>2, <1>3 DEF IInv

-----------------------------------------------------------------------------
(* Steps before the filter.                                                *)

\* A result appended to those found is in the data if its parser's answer is.
LEMMA AppendResult ==
  ASSUME IInv, NEW magic \in Nat, magic < DataSize, NEW r \in Parsed(magic),
         ResultWithin(r), results' = Append(results, r)
  PROVE  /\ results' \in Seq(Ranges)
         /\ ResultsInData'
         /\ r.offset + r.size \in 0 .. DataSize
<1>1. r \in Ranges /\ r.offset < DataSize /\ r.offset + r.size <= DataSize
  BY ScanAssumption DEF ScanAssumption, Parsed, ResultWithin, Ranges
<1>2. results \in Seq(Ranges)
  BY DEF IInv, TypeOK
<1>3. r.offset + r.size \in 0 .. DataSize
  BY <1>1, ScanAssumption DEF ScanAssumption, Ranges
<1> QED BY <1>1, <1>2, <1>3 DEF IInv, ResultsInData

\* The steps of the short signatures and of the walk keep the invariant.
LEMMA WalkStep ==
  ASSUME IInv, \/ ShortMiss \/ ShortHit \/ BeginWalk \/ EndWalk
               \/ \E m \in Matches : VisitMiss(m) \/ VisitHit(m)
  PROVE  IInv'
<1>1. filtered = << >> /\ nextFree = 0 /\ fill = 1 /\ phase \in {"short", "walk"}
      /\ unprocessed = {}
  BY DEF IInv, PhaseFacts, ShortMiss, ShortHit, BeginWalk, EndWalk, VisitMiss, VisitHit
<1>2. UNCHANGED <<filtered, nextFree, fill>> /\ phase' \in {"short", "walk", "filter"}
      /\ unprocessed' = IF phase' = "filter" THEN DOMAIN results' ELSE {}
  BY <1>1 DEF ShortMiss, ShortHit, BeginWalk, EndWalk, VisitMiss, VisitHit, kept, walked
<1>3. PhaseFacts' /\ FilterInv'
  <2>1. Looked' = {}
    BY <1>2 DEF Looked
  <2> QED BY <1>1, <1>2, <2>1, NothingFilteredNext DEF PhaseFacts
<1>4. filtered' \in Seq(KeptRanges) /\ nextFree' \in 0 .. DataSize /\ fill' \in Nat \ {0}
      /\ unprocessed' \subseteq DOMAIN results'
  BY <1>2 DEF IInv, TypeOK
<1>5. CASE ShortMiss
  BY <1>2, <1>3, <1>4, <1>5 DEF IInv, TypeOK, ShortMiss, NextSignature, ResultsInData
<1>6. CASE ShortHit
  <2>1. signature \in 1 .. Len(ShortSignatures)
    <3>1. signature \in Nat \ {0}
      BY DEF IInv, TypeOK
    <3>2. ~(signature > Len(ShortSignatures))
      BY <1>6 DEF ShortHit, ShortDone
    <3>3. Len(ShortSignatures) \in Nat
      BY ScanAssumption DEF ScanAssumption
    <3> QED BY <3>1, <3>2, <3>3
  <2>2. PICK r \in Parsed(ShortSignatures[signature].magic) :
          ResultWithin(r) /\ results' = Append(results, r)
    BY <1>6 DEF ShortHit
  <2>3. ShortSignatures[signature].magic \in Nat /\ ShortSignatures[signature].magic < DataSize
    <3>1. ShortSignatures[signature] \in [magic : Nat, patterns : Nat \ {0}]
      BY <2>1, ScanAssumption, ElementOfSeq DEF ScanAssumption
    <3> QED BY <1>6, <3>1, ScanAssumption DEF ScanAssumption, ShortHit
  <2>4. results' \in Seq(Ranges) /\ ResultsInData'
    BY <2>2, <2>3, AppendResult
  <2> QED BY <1>2, <1>3, <1>4, <1>6, <2>4 DEF IInv, TypeOK, ShortHit, NextSignature
<1>7. CASE BeginWalk
  BY <1>2, <1>3, <1>4, <1>7 DEF IInv, TypeOK, BeginWalk, walked, ResultsInData
<1>8. CASE EndWalk
  BY <1>2, <1>3, <1>4, <1>8 DEF IInv, TypeOK, EndWalk, walked, ResultsInData
<1>9. ASSUME NEW m \in Matches, VisitMiss(m) PROVE IInv'
  BY <1>2, <1>3, <1>4, <1>9 DEF IInv, TypeOK, VisitMiss, ResultsInData
<1>10. ASSUME NEW m \in Matches, VisitHit(m) PROVE IInv'
  <2>1. PICK r \in Parsed(m.start) :
          /\ ResultWithin(r) /\ results' = Append(results, r)
          /\ floor' \in {floor, r.offset + r.size}
    BY <1>10 DEF VisitHit
  <2>2. m.start \in Nat /\ m.start < DataSize
    BY ScanAssumption DEF ScanAssumption
  <2>3. /\ results' \in Seq(Ranges) /\ ResultsInData'
        /\ r.offset + r.size \in 0 .. DataSize
    BY <2>1, <2>2, AppendResult
  <2>4. floor' \in 0 .. DataSize
    BY <2>1, <2>3 DEF IInv, TypeOK
  <2> QED BY <1>2, <1>3, <1>4, <1>10, <2>3, <2>4 DEF IInv, TypeOK, VisitHit
<1> QED BY <1>5, <1>6, <1>7, <1>8, <1>9, <1>10

-----------------------------------------------------------------------------
(* Steps of the filter.                                                    *)

\* What the three steps of the filter share: a candidate leaves the rest, and
\* it comes after all that was looked at and before the rest.
LEMMA Candidate ==
  ASSUME IInv, NEW i \in DOMAIN results, phase = "filter", IsCandidate(i),
         UNCHANGED <<phase, results, fill>>, unprocessed' = unprocessed \ {i}
  PROVE  /\ Looked' = Looked \cup {i} /\ i \notin Looked
         /\ fill = 1
         /\ results[i] \in Ranges /\ i \in Nat
         /\ \A j \in Looked : \/ results[j].offset < results[i].offset
                              \/ results[j].offset = results[i].offset /\ j < i
         /\ \A k \in DOMAIN filtered : filtered[k].offset <= results[i].offset
         /\ \A n \in unprocessed', j \in Looked' :
              \/ results[j].offset < results[n].offset
              \/ results[j].offset = results[n].offset /\ j < n
         /\ \A n \in unprocessed' : results[i].offset <= results[n].offset
<1>1. Looked' = Looked \cup {i} /\ i \notin Looked
  BY DEF Looked, IsCandidate
<1>2. results[i] \in Ranges /\ i \in Nat /\ unprocessed \subseteq DOMAIN results
  BY ElementOfSeq DEF IInv, TypeOK
<1>3. \A n \in DOMAIN results : results[n].offset \in Nat
  <2> SUFFICES ASSUME NEW n \in DOMAIN results PROVE results[n].offset \in Nat
    OBVIOUS
  <2>1. results[n] \in Ranges
    BY ElementOfSeq DEF IInv, TypeOK
  <2> QED BY <2>1, ScanAssumption DEF ScanAssumption, Ranges
<1>4. \A n \in unprocessed' : \/ results[i].offset < results[n].offset
                              \/ results[i].offset = results[n].offset /\ i < n
  BY DEF IsCandidate
<1>5. fill = 1 /\ RestIsLater
  BY DEF IInv, PhaseFacts, FilterInv
<1> QED BY <1>1, <1>2, <1>3, <1>4, <1>5 DEF RestIsLater, IsCandidate

\* What is kept, by its place.
LEMMA KeptTypes ==
  ASSUME IInv
  PROVE  /\ Len(filtered) \in Nat /\ DOMAIN filtered = 1 .. Len(filtered)
         /\ \A k \in DOMAIN filtered : filtered[k] \in KeptRanges
         /\ filtered # << >> => Len(filtered) > 0
         /\ \A i \in DOMAIN results : results[i] \in Ranges /\ i \in Nat
BY ElementOfSeq, LenProperties, EmptySeq DEF IInv, TypeOK

\* A confidence is a number, so two of them can be compared.
LEMMA ConfidencesAreNat == \A c \in Confidences : c \in Nat
BY ScanAssumption DEF ScanAssumption

\* The last result kept has the largest offset.
LEMMA BackIsLast ==
  ASSUME IInv, filtered # << >>
  PROVE  /\ Len(filtered) \in DOMAIN filtered
         /\ \A k \in DOMAIN filtered : k # Len(filtered) => filtered[k].offset < Back.offset
BY KeptTypes DEF IInv, FilterInv, OffsetsIncrease, Back

\* Dropping an overlapped result keeps the invariant.
LEMMA DropStep ==
  ASSUME IInv, NEW i \in DOMAIN results, DropOverlapped(i)
  PROVE  IInv'
<1> USE DEF DropOverlapped, walked
<1>1. UNCHANGED <<phase, results, fill, filtered, nextFree>> /\ unprocessed' = unprocessed \ {i}
      /\ phase = "filter" /\ IsCandidate(i) /\ ~SharesOffset(results[i])
      /\ results[i].offset < nextFree
  OBVIOUS
<1> HIDE DEF DropOverlapped
<1>2. TypeOK' /\ ResultsInData' /\ PhaseFacts'
  BY <1>1 DEF DropOverlapped, IInv, TypeOK, ResultsInData, PhaseFacts
<1>3. KeptAreFound' /\ SizesAreFinal' /\ OffsetsIncrease' /\ ClaimIsFound'
  BY <1>1, Candidate
  DEF IInv, FilterInv, KeptAreFound, SizesAreFinal, OffsetsIncrease, ClaimIsFound,
      Represented, ConfidentAfter, FirstAtOffset
<1>4. RestIsLater'
  BY <1>1, Candidate DEF RestIsLater, IInv, FilterInv
<1>5. \A k \in DOMAIN filtered : filtered[k].offset # results[i].offset
  BY <1>1, Candidate, BackIsLast, KeptTypes DEF SharesOffset, KeptRanges, Back, Ranges
<1>6. BestSoFar'
  BY <1>1, <1>5, Candidate DEF BestSoFar, IInv, FilterInv
<1>7. InsideConfident(i)
  <2>1. PICK j \in DOMAIN results : /\ FirstAtOffset(j) /\ results[j].confidence >= Medium
                                   /\ nextFree = results[j].offset + results[j].size
                                   /\ Represented(results[j].offset)
    BY <1>1, KeptTypes DEF IInv, FilterInv, ClaimIsFound, Ranges
  <2>2. results[j].offset < results[i].offset
    BY <1>1, <1>5, <2>1, Candidate, KeptTypes DEF Represented, Ranges
  <2> QED BY <1>1, <2>1, <2>2 DEF InsideConfident
<1>8. CauseSoFar'
  BY <1>1, <1>7, Candidate
  DEF CauseSoFar, IInv, FilterInv, Represented, InsideConfident, FirstAtOffset
<1> QED BY <1>2, <1>3, <1>4, <1>6, <1>8 DEF IInv, FilterInv

\* Replacing or keeping the result at a candidate's offset keeps the invariant.
LEMMA RankStep ==
  ASSUME IInv, NEW i \in DOMAIN results, Rank(i)
  PROVE  IInv'
<1> DEFINE last == Len(filtered)
           better == results[i].confidence > Back.confidence
<1>1. /\ UNCHANGED <<phase, results, fill, nextFree>> /\ unprocessed' = unprocessed \ {i}
      /\ phase = "filter" /\ IsCandidate(i)
      /\ filtered # << >> /\ filtered[last].offset = results[i].offset
      /\ filtered' = IF better THEN [filtered EXCEPT ![last] = Keep(results[i], i)] ELSE filtered
  BY DEF Rank, walked, SharesOffset, Back
<1>2. last \in DOMAIN filtered /\ DOMAIN filtered = 1 .. Len(filtered) /\ last \in Nat
  BY <1>1, BackIsLast, KeptTypes
<1>3. Keep(results[i], i) \in KeptRanges
  BY KeptTypes DEF Keep, Ranges, KeptRanges
<1>4. filtered' \in Seq(KeptRanges) /\ DOMAIN filtered' = DOMAIN filtered
      /\ Len(filtered') = Len(filtered)
  BY <1>1, <1>2, <1>3 DEF IInv, TypeOK
<1>5. \A k \in DOMAIN filtered : k # last => filtered'[k] = filtered[k]
  BY <1>1, <1>4
<1>6. filtered'[last] = IF better THEN Keep(results[i], i) ELSE filtered[last]
  BY <1>1, <1>2
<1>7. \A k \in DOMAIN filtered : filtered'[k].offset = filtered[k].offset
  BY <1>1, <1>5, <1>6 DEF Keep
<1>8. TypeOK' /\ ResultsInData' /\ PhaseFacts'
  BY <1>1, <1>4 DEF Rank, walked, IInv, TypeOK, ResultsInData, PhaseFacts
<1>9. Looked' = Looked \cup {i} /\ fill = 1
  BY <1>1, Candidate
<1> HIDE DEF last, better
<1>10. KeptAreFound' /\ SizesAreFinal'
  <2>1. ASSUME NEW k \in DOMAIN filtered
        PROVE  /\ filtered'[k].from \in Looked'
               /\ filtered'[k].offset = results[filtered'[k].from].offset
               /\ filtered'[k].confidence = results[filtered'[k].from].confidence
               /\ filtered'[k].size = results[filtered'[k].from].size
    <3>1. CASE k # last
      BY <1>2, <1>5, <1>9, <3>1 DEF IInv, FilterInv, KeptAreFound
    <3>2. CASE k = last
      BY <1>2, <1>6, <1>9, <3>2 DEF IInv, FilterInv, KeptAreFound, Keep
    <3> QED BY <3>1, <3>2
  <2>2. \A k \in DOMAIN filtered : k >= fill
    BY <1>2, <1>9
  <2> QED BY <1>1, <1>2, <1>4, <1>9, <2>1, <2>2 DEF KeptAreFound, SizesAreFinal
<1>11. OffsetsIncrease' /\ RestIsLater'
  BY <1>1, <1>4, <1>7, Candidate DEF IInv, FilterInv, OffsetsIncrease, RestIsLater
<1>12. BestSoFar'
  <2> SUFFICES ASSUME NEW k \in DOMAIN filtered, NEW j \in Looked \cup {i},
                      results[j].offset = filtered[k].offset
               PROVE  \/ results[j].confidence < filtered'[k].confidence
                      \/ results[j].confidence = filtered'[k].confidence /\ filtered'[k].from <= j
    BY <1>1, <1>4, <1>7, <1>9 DEF BestSoFar
  <2>1. CASE k # last
    <3>1. j # i
      BY <1>1, <1>2, <2>1, BackIsLast, KeptTypes DEF Back, last, Ranges, KeptRanges
    <3> QED BY <1>5, <2>1, <3>1 DEF IInv, FilterInv, BestSoFar
  <2>2. CASE k = last
    <3>1. /\ results[j].confidence \in Nat /\ results[i].confidence \in Nat
          /\ filtered[last].confidence \in Nat /\ filtered[last].from \in Nat /\ i \in Nat /\ j \in Nat
      BY <1>2, KeptTypes, ConfidencesAreNat DEF Ranges, KeptRanges, Looked
    <3>2. filtered[last].from \in Looked
      BY <1>2 DEF IInv, FilterInv, KeptAreFound
    <3>3. filtered[last].from < i
      BY <1>1, <1>2, <3>2, Candidate, KeptTypes DEF IInv, FilterInv, KeptAreFound, Ranges
    <3>4. better <=> results[i].confidence > filtered[last].confidence
      BY DEF better, Back, last
    <3>5. j # i => \/ results[j].confidence < filtered[last].confidence
                   \/ results[j].confidence = filtered[last].confidence /\ filtered[last].from <= j
      BY <1>2, <2>2 DEF IInv, FilterInv, BestSoFar
    <3>6. CASE better
      <4>1. filtered'[k].confidence = results[i].confidence /\ filtered'[k].from = i
        BY <1>6, <2>2, <3>6 DEF Keep
      <4> QED BY <3>1, <3>4, <3>5, <3>6, <4>1
    <3>7. CASE ~better
      BY <1>6, <2>2, <3>1, <3>3, <3>4, <3>5, <3>7
    <3> QED BY <3>6, <3>7
  <2> QED BY <2>1, <2>2
<1>13. \A o : Represented(o)' <=> Represented(o)
  BY <1>4, <1>7 DEF Represented
<1>14. CauseSoFar' /\ ClaimIsFound'
  <2>1. Represented(results[i].offset)
    BY <1>1, <1>2 DEF Represented
  <2> QED BY <1>1, <1>9, <1>13, <2>1
          DEF IInv, FilterInv, CauseSoFar, ClaimIsFound, InsideConfident, FirstAtOffset
<1> QED BY <1>8, <1>10, <1>11, <1>12, <1>14 DEF IInv, FilterInv

\* Keeping a result at an offset of its own keeps the invariant.
LEMMA AcceptStep ==
  ASSUME IInv, NEW i \in DOMAIN results, Accept(i)
  PROVE  IInv'
<1> DEFINE last == Len(filtered)
           confident == results[i].confidence >= Medium
<1>1. /\ UNCHANGED <<phase, results, fill>> /\ unprocessed' = unprocessed \ {i}
      /\ phase = "filter" /\ IsCandidate(i) /\ ~SharesOffset(results[i])
      /\ results[i].offset >= nextFree
      /\ nextFree' = IF confident THEN results[i].offset + results[i].size ELSE nextFree
      /\ filtered' = Append(filtered, Keep(results[i], i))
  BY DEF Accept, walked
<1>2. DOMAIN filtered = 1 .. last /\ last \in Nat
  BY KeptTypes
<1>3. Keep(results[i], i) \in KeptRanges
  BY KeptTypes DEF Keep, Ranges, KeptRanges
<1>4. filtered' \in Seq(KeptRanges) /\ DOMAIN filtered' = 1 .. last + 1
      /\ Len(filtered') = last + 1 /\ filtered'[last + 1] = Keep(results[i], i)
      /\ \A k \in 1 .. last : filtered'[k] = filtered[k]
  BY <1>1, <1>2, <1>3 DEF IInv, TypeOK
<1>5. /\ results[i].offset \in Nat /\ results[i].size \in Nat /\ nextFree \in Nat
      /\ results[i].offset + results[i].size <= DataSize
      /\ \A k \in DOMAIN filtered : filtered[k].offset \in Nat
  <2>1. /\ results[i].offset \in Nat /\ results[i].size \in Nat
        /\ \A k \in DOMAIN filtered : filtered[k].offset \in Nat
    BY KeptTypes DEF Ranges, KeptRanges
  <2>2. nextFree \in Nat
    BY DEF IInv, TypeOK
  <2>3. results[i].offset + results[i].size <= DataSize
    BY KeptTypes DEF IInv, ResultsInData
  <2> QED BY <2>1, <2>2, <2>3
<1>6. TypeOK' /\ ResultsInData' /\ PhaseFacts'
  <2>1. nextFree' \in 0 .. DataSize
    BY <1>1, <1>5 DEF IInv, TypeOK
  <2>2. UNCHANGED <<phase, searchAll, upcoming, signature, pattern, floor, results, fill>>
    BY <1>1 DEF Accept, walked
  <2>3. TypeOK'
    BY <1>1, <1>4, <2>1, <2>2 DEF IInv, TypeOK
  <2>4. ResultsInData' /\ PhaseFacts'
    BY <1>1, <2>2 DEF IInv, ResultsInData, PhaseFacts
  <2> QED BY <2>3, <2>4
<1>7. Looked' = Looked \cup {i} /\ i \notin Looked /\ fill = 1
  BY <1>1, Candidate
<1>8. \A k \in DOMAIN filtered : filtered[k].offset < results[i].offset
  BY <1>1, <1>5, Candidate, BackIsLast, KeptTypes DEF SharesOffset, Back
<1> HIDE DEF last, confident
<1>9. KeptAreFound' /\ SizesAreFinal'
  <2>1. ASSUME NEW k \in 1 .. last + 1
        PROVE  /\ filtered'[k].from \in Looked'
               /\ filtered'[k].offset = results[filtered'[k].from].offset
               /\ filtered'[k].confidence = results[filtered'[k].from].confidence
               /\ filtered'[k].size = results[filtered'[k].from].size
    <3>1. CASE k \in 1 .. last
      BY <1>2, <1>4, <1>7, <3>1 DEF IInv, FilterInv, KeptAreFound
    <3>2. CASE k = last + 1
      BY <1>4, <1>7, <3>2 DEF Keep
    <3> QED BY <1>2, <3>1, <3>2
  <2>2. \A k \in 1 .. last + 1 : k >= fill
    BY <1>2, <1>7
  <2> QED BY <1>1, <1>4, <1>7, <2>1, <2>2 DEF KeptAreFound, SizesAreFinal
<1>10. OffsetsIncrease'
  BY <1>2, <1>4, <1>8 DEF IInv, FilterInv, OffsetsIncrease, Keep
<1>11. RestIsLater'
  BY <1>1, <1>2, <1>4, Candidate DEF IInv, FilterInv, RestIsLater, Keep
<1>12. \A j \in Looked : results[j].offset # results[i].offset
  BY <1>1, <1>5, <1>8, KeptTypes
  DEF IInv, FilterInv, CauseSoFar, Represented, Looked, Ranges
<1>13. BestSoFar'
  <2> SUFFICES ASSUME NEW k \in 1 .. last + 1, NEW j \in Looked \cup {i},
                      results[j].offset = filtered'[k].offset
               PROVE  \/ results[j].confidence < filtered'[k].confidence
                      \/ results[j].confidence = filtered'[k].confidence /\ filtered'[k].from <= j
    BY <1>1, <1>4, <1>7 DEF BestSoFar
  <2>1. CASE k \in 1 .. last
    <3>1. j # i
      BY <1>2, <1>4, <1>5, <1>8, <2>1
    <3> QED BY <1>2, <1>4, <2>1, <3>1 DEF IInv, FilterInv, BestSoFar
  <2>2. CASE k = last + 1
    <3>1. j = i
      BY <1>4, <1>12, <2>2 DEF Keep
    <3> QED BY <1>4, <2>2, <3>1, KeptTypes DEF Keep
  <2> QED BY <1>2, <2>1, <2>2
<1>14. /\ \A o : Represented(o) => Represented(o)'
       /\ Represented(results[i].offset)'
  <2>1. \A o : Represented(o) => Represented(o)'
    BY <1>2, <1>4 DEF Represented
  <2>2. results'[i].offset = filtered'[last + 1].offset /\ last + 1 \in DOMAIN filtered'
    BY <1>1, <1>2, <1>4 DEF Keep
  <2> QED BY <2>1, <2>2 DEF Represented
<1>15. CauseSoFar'
  <2>1. nextFree <= nextFree'
    BY <1>1, <1>5
  <2>2. \A j \in Looked : results[j].offset \in Nat
    BY KeptTypes DEF Looked, Ranges
  <2> QED BY <1>1, <1>5, <1>7, <1>14, <2>1, <2>2, SMTT(60)
          DEF IInv, FilterInv, CauseSoFar, InsideConfident, FirstAtOffset, TypeOK
<1>16. ClaimIsFound'
  <2>1. ASSUME NEW n \in DOMAIN results, results[n].offset = results[i].offset PROVE i <= n
    <3>1. n \in unprocessed
      BY <1>1, <1>12, <2>1 DEF Looked
    <3> QED BY <1>1, <2>1, <3>1, KeptTypes DEF IsCandidate, Ranges
  <2>2. FirstAtOffset(i) /\ \A j : FirstAtOffset(j)' <=> FirstAtOffset(j)
    BY <1>1, <2>1 DEF FirstAtOffset
  <2> QED BY <1>1, <1>14, <2>2 DEF IInv, FilterInv, ClaimIsFound, confident
<1> QED BY <1>6, <1>9, <1>10, <1>11, <1>13, <1>15, <1>16 DEF IInv, FilterInv

-----------------------------------------------------------------------------
(* The sizes filled in.                                                    *)

\* A result without a size ends behind its own start and not behind the start
\* of any confident result that follows.
LEMMA EndIsBehind ==
  ASSUME IInv, NEW k \in DOMAIN filtered
  PROVE  /\ EndOf(k) \in 0 .. DataSize /\ filtered[k].offset < EndOf(k)
         /\ \A n \in ConfidentAfter(k) : EndOf(k) <= filtered[n].offset
<1> USE DEF ConfidentAfter
<1>1. /\ DOMAIN filtered = 1 .. Len(filtered) /\ Len(filtered) \in Nat
      /\ \A n \in DOMAIN filtered : filtered[n] \in KeptRanges
  BY KeptTypes
<1>2. filtered[k].offset < DataSize
  BY DEF IInv, FilterInv, KeptAreFound, ResultsInData, Looked
<1>3. CASE ConfidentAfter(k) = {}
  BY <1>2, <1>3, ScanAssumption DEF ScanAssumption, EndOf
<1>4. CASE ConfidentAfter(k) # {}
  <2>1. ConfidentAfter(k) \subseteq Nat
    BY <1>1
  <2>2. \E n \in ConfidentAfter(k) : \A o \in ConfidentAfter(k) : n <= o
    <3> HIDE DEF ConfidentAfter
    <3> QED BY <1>4, <2>1, LeastNatural
  <2>3. PICK n \in ConfidentAfter(k) :
          (\A o \in ConfidentAfter(k) : n <= o) /\ EndOf(k) = filtered[n].offset
    BY <1>4, <2>2 DEF EndOf
  <2>4. n \in DOMAIN filtered /\ k < n /\ n \in Nat
    BY <1>1
  <2>5. filtered[k].offset < filtered[n].offset
    BY <2>4 DEF IInv, FilterInv, OffsetsIncrease
  <2>6. ASSUME NEW o \in ConfidentAfter(k) PROVE filtered[n].offset <= filtered[o].offset
    <3>1. o \in DOMAIN filtered /\ n <= o
      BY <1>1, <2>3
    <3>2. n # o => filtered[n].offset < filtered[o].offset
      BY <2>4, <3>1, <1>1 DEF IInv, FilterInv, OffsetsIncrease
    <3> QED BY <1>1, <2>4, <3>1, <3>2 DEF KeptRanges
  <2> QED BY <1>1, <2>3, <2>4, <2>5, <2>6 DEF KeptRanges
<1> QED BY <1>3, <1>4

\* Filling in a size keeps the invariant.
LEMMA FillStep ==
  ASSUME IInv, FillSize
  PROVE  IInv'
<1> DEFINE end == EndOf(fill) - filtered[fill].offset
<1>1. /\ UNCHANGED <<phase, results, unprocessed, nextFree>> /\ fill' = fill + 1
      /\ phase = "fill" /\ fill \in DOMAIN filtered /\ fill \in Nat
      /\ filtered' = IF filtered[fill].size = 0 THEN [filtered EXCEPT ![fill].size = end]
                     ELSE filtered
  BY KeptTypes DEF FillSize, walked, IInv, TypeOK
<1>2. /\ DOMAIN filtered = 1 .. Len(filtered) /\ Len(filtered) \in Nat
      /\ \A k \in DOMAIN filtered : filtered[k] \in KeptRanges
  BY KeptTypes
<1>3. /\ end \in 0 .. DataSize /\ end > 0
      /\ filtered[fill].offset + end = EndOf(fill) /\ EndOf(fill) <= DataSize
  <2>1. filtered[fill].offset \in Nat /\ DataSize \in Nat
    BY <1>1, <1>2, ScanAssumption DEF ScanAssumption, KeptRanges
  <2>2. EndOf(fill) \in 0 .. DataSize /\ filtered[fill].offset < EndOf(fill)
    BY <1>1, EndIsBehind
  <2> QED BY <2>1, <2>2
<1>4. /\ filtered' \in Seq(KeptRanges) /\ DOMAIN filtered' = DOMAIN filtered
      /\ Len(filtered') = Len(filtered)
      /\ \A k \in DOMAIN filtered :
           filtered'[k] = IF k = fill /\ filtered[fill].size = 0
                          THEN [filtered[k] EXCEPT !.size = end] ELSE filtered[k]
  <2>1. [filtered[fill] EXCEPT !.size = end] \in KeptRanges
    BY <1>1, <1>2, <1>3 DEF KeptRanges
  <2> HIDE DEF end
  <2> QED BY <1>1, <1>2, <2>1 DEF IInv, TypeOK
<1> HIDE DEF end
<1>5. \A k \in DOMAIN filtered : /\ filtered'[k].offset = filtered[k].offset
                                 /\ filtered'[k].confidence = filtered[k].confidence
                                 /\ filtered'[k].from = filtered[k].from
                                 /\ k # fill => filtered'[k].size = filtered[k].size
                                 /\ filtered'[fill].size =
                                      IF filtered[fill].size = 0 THEN end ELSE filtered[fill].size
  BY <1>1, <1>2, <1>4 DEF KeptRanges
<1>6. TypeOK' /\ ResultsInData' /\ PhaseFacts' /\ Looked' = Looked
  BY <1>1, <1>4 DEF FillSize, walked, IInv, TypeOK, ResultsInData, PhaseFacts, Looked
<1>7. KeptAreFound'
  BY <1>1, <1>2, <1>4, <1>5, <1>6 DEF IInv, FilterInv, KeptAreFound
<1>8. \A k \in DOMAIN filtered : ConfidentAfter(k)' = ConfidentAfter(k)
  BY <1>1, <1>2, <1>4, <1>5 DEF ConfidentAfter
<1>9. SizesAreFinal'
  <2> SUFFICES ASSUME NEW k \in DOMAIN filtered, k < fill + 1
               PROVE  /\ filtered'[k].size > 0
                      /\ filtered'[k].offset + filtered'[k].size <= DataSize
                      /\ results[filtered'[k].from].size = 0 =>
                           \A n \in ConfidentAfter(k) :
                             filtered'[k].offset + filtered'[k].size <= filtered[n].offset
    BY <1>1, <1>2, <1>4, <1>5, <1>8 DEF SizesAreFinal, ConfidentAfter
  <2>1. CASE k < fill
    BY <1>1, <1>2, <1>5, <2>1 DEF IInv, FilterInv, SizesAreFinal
  <2>2. CASE k = fill
    <3>1. /\ filtered[k].size = results[filtered[k].from].size
          /\ filtered[k].offset = results[filtered[k].from].offset
          /\ filtered[k].from \in DOMAIN results
      BY <1>1, <1>2, <2>2 DEF IInv, FilterInv, KeptAreFound, Looked
    <3>2. CASE filtered[k].size = 0
      BY <1>2, <1>3, <1>5, <2>2, <3>1, <3>2, EndIsBehind
    <3>3. CASE filtered[k].size # 0
      BY <1>2, <1>5, <2>2, <3>1, <3>3 DEF IInv, ResultsInData, KeptRanges
    <3> QED BY <3>2, <3>3
  <2> QED BY <1>1, <1>2, <2>1, <2>2
<1>10. OffsetsIncrease' /\ RestIsLater' /\ BestSoFar'
  BY <1>1, <1>4, <1>5, <1>6
  DEF IInv, FilterInv, OffsetsIncrease, RestIsLater, BestSoFar
<1>11. \A o : Represented(o)' <=> Represented(o)
  BY <1>4, <1>5 DEF Represented
<1>12. CauseSoFar' /\ ClaimIsFound'
  BY <1>1, <1>6, <1>11 DEF IInv, FilterInv, CauseSoFar, ClaimIsFound, InsideConfident, FirstAtOffset
<1> QED BY <1>6, <1>7, <1>9, <1>10, <1>12 DEF IInv, FilterInv

\* The steps between the phases keep the invariant.
LEMMA PhaseStep ==
  ASSUME IInv, BeginFill \/ EndFill \/ UNCHANGED vars
  PROVE  IInv'
<1>1. /\ UNCHANGED <<walked, kept, searchAll>> /\ Looked' = Looked
      /\ phase' \in {"short", "walk", "filter", "fill", "done"}
  BY DEF BeginFill, EndFill, vars, walked, kept, Looked, IInv, TypeOK
<1>2. TypeOK' /\ ResultsInData'
  BY <1>1 DEF walked, kept, IInv, TypeOK, ResultsInData
<1>3. PhaseFacts'
  BY KeptTypes DEF BeginFill, EndFill, vars, walked, kept, IInv, TypeOK, PhaseFacts
<1>4. FilterInv'
  BY <1>1 DEF walked, kept, IInv, FilterInv, KeptAreFound, SizesAreFinal, OffsetsIncrease,
     RestIsLater, BestSoFar, CauseSoFar, ClaimIsFound, Represented, InsideConfident, FirstAtOffset,
     ConfidentAfter
<1> QED BY <1>2, <1>3, <1>4 DEF IInv

\* The inductive invariant holds of every reachable state.
THEOREM Invariance == Spec => []IInv
<1>1. IInv /\ [Next]_vars => IInv'
  BY WalkStep, RankStep, DropStep, AcceptStep, FillStep, PhaseStep DEF Next, Returned
<1> QED BY InitIInv, <1>1, PTL DEF Spec

\* Every variable of scan stays in its type: the sums of offsets and sizes it
\* forms stay within the data (scanner.cpp:139-141, 366, 407, 423).
THEOREM TypeCorrect == Spec => []TypeOK
<1>1. IInv => TypeOK
  BY DEF IInv
<1> QED BY Invariance, <1>1, PTL

\* The results are ordered by offset and no offset is returned twice, whatever
\* the parsers answer (scanner.cpp:393-410).
THEOREM ResultsAreOrdered == Spec => []OffsetsIncrease
<1>1. IInv => OffsetsIncrease
  BY DEF IInv, FilterInv
<1> QED BY Invariance, <1>1, PTL

\* Of the results found at an offset the most confident, and of equals the
\* first, is returned (scanner.cpp:397-402).
THEOREM BestIsReported == Spec => []BestAtOffset
<1>1. IInv => BestAtOffset
  BY KeptTypes DEF IInv, FilterInv, BestSoFar, BestAtOffset, Looked, PhaseFacts
<1> QED BY Invariance, <1>1, PTL

\* A result is dropped only for one reported at its own offset, or for a confident one,
\* the first found at its offset, whose bytes it starts in and whose own offset is
\* reported, by a result at least as confident (scanner.cpp:397-409).
THEOREM NothingIsLost == Spec => []DroppedForCause
<1>1. IInv => DroppedForCause
  <2> SUFFICES ASSUME IInv, phase \in {"fill", "done"}, NEW i \in DOMAIN results,
                      ~Represented(results[i].offset)
               PROVE  \E k \in DOMAIN filtered, j \in DOMAIN results :
                        /\ FirstAtOffset(j) /\ results[j].confidence >= Medium
                        /\ results[j].offset < results[i].offset
                        /\ results[i].offset < results[j].offset + results[j].size
                        /\ filtered[k].offset = results[j].offset
                        /\ filtered[k].confidence >= results[j].confidence
    BY DEF DroppedForCause, Represented
  <2>1. Looked = DOMAIN results
    BY KeptTypes DEF IInv, Looked, PhaseFacts
  <2>2. PICK j \in DOMAIN results :
          /\ FirstAtOffset(j) /\ results[j].confidence >= Medium
          /\ results[j].offset < results[i].offset
          /\ results[i].offset < results[j].offset + results[j].size
          /\ Represented(results[j].offset)
    BY <2>1 DEF IInv, FilterInv, CauseSoFar, InsideConfident
  <2>3. PICK k \in DOMAIN filtered : filtered[k].offset = results[j].offset
    BY <2>2 DEF Represented
  <2>4. filtered[k].confidence >= results[j].confidence
    BY <2>1, <2>3, KeptTypes, ConfidencesAreNat DEF IInv, FilterInv, BestSoFar, Ranges, KeptRanges
  <2> QED BY <2>2, <2>3, <2>4
<1> QED BY Invariance, <1>1, PTL

\* Every result returned has bytes, all of them in the data, and a size filled
\* in does not reach into a confident result (scanner.cpp:412-424).
THEOREM SizesAreUsable == Spec => []RangesAreUsable
<1>1. IInv => RangesAreUsable
  <2> SUFFICES ASSUME IInv, phase = "done" PROVE \A k \in DOMAIN filtered : k < fill
    BY DEF IInv, FilterInv, SizesAreFinal, RangesAreUsable
  <2> QED BY KeptTypes DEF IInv, PhaseFacts, TypeOK
<1> QED BY Invariance, <1>1, PTL

\* As long as every parser's result starts at its magic, no match is left
\* unvisited: a confident result that has bytes ends beyond the floor it was
\* found above, so visit never answers false (scanner.cpp:349, 376-380).
THEOREM WholeWalk ==
  ASSUME BackOffsets \subseteq {0}
  PROVE  Spec => []WalkIsComplete
<1>1. Init => WalkIsComplete
  BY DEF Init, WalkIsComplete
<1>2. IInv /\ WalkIsComplete /\ [Next]_vars => WalkIsComplete'
  <2> SUFFICES ASSUME IInv, WalkIsComplete, [Next]_vars PROVE WalkIsComplete'
    OBVIOUS
  <2>1. ASSUME NEW m \in Matches, VisitHit(m) PROVE WalkIsComplete'
    <3>1. PICK r \in Parsed(m.start) :
            LET end == r.offset + r.size
                claims == ~searchAll /\ r.confidence >= Medium /\ r.size > 0
            IN phase' = IF claims /\ end <= floor THEN "filter" ELSE "walk"
      BY <2>1 DEF VisitHit
    <3>2. r.offset = m.start /\ r.size \in Nat /\ m.start \in Nat
      BY ScanAssumption DEF ScanAssumption, Parsed
    <3>3. m.start >= floor /\ floor \in Nat
      BY <2>1 DEF VisitHit, IInv, TypeOK
    <3>4. phase' = "walk"
      BY <3>1, <3>2, <3>3
    <3> QED BY <3>4 DEF WalkIsComplete
  <2>2. ASSUME NEW m \in Matches, VisitMiss(m) PROVE WalkIsComplete'
    BY <2>2 DEF VisitMiss, WalkIsComplete
  <2>3. CASE ShortMiss \/ ShortHit \/ BeginWalk \/ EndWalk
    BY <2>3 DEF ShortMiss, ShortHit, BeginWalk, EndWalk, walked, WalkIsComplete
  <2>4. CASE BeginFill \/ FillSize \/ EndFill \/ UNCHANGED vars
    BY <2>4 DEF BeginFill, FillSize, EndFill, vars, walked, WalkIsComplete
  <2>5. ASSUME NEW i \in DOMAIN results, Rank(i) \/ DropOverlapped(i) \/ Accept(i)
        PROVE  WalkIsComplete'
    BY <2>5 DEF Rank, DropOverlapped, Accept, walked, WalkIsComplete
  <2> QED BY <2>1, <2>2, <2>3, <2>4, <2>5 DEF Next, Returned
<1> QED BY Invariance, <1>1, <1>2, PTL DEF Spec
\* The search ends before its last match only for a result that starts in claimed
\* bytes (visit answers false at scanner.cpp:376).
THEOREM OnlyClaimedEndIt == Spec => []EndsEarlyOnlyForClaimed
<1>1. Init => EndsEarlyOnlyForClaimed
  BY DEF Init, EndsEarlyOnlyForClaimed
<1>2. IInv /\ EndsEarlyOnlyForClaimed /\ [Next]_vars => EndsEarlyOnlyForClaimed'
  <2> SUFFICES ASSUME IInv, EndsEarlyOnlyForClaimed, [Next]_vars
               PROVE  EndsEarlyOnlyForClaimed'
    OBVIOUS
  <2>1. ASSUME NEW m \in Matches, VisitHit(m) PROVE EndsEarlyOnlyForClaimed'
    <3>1. PICK r \in Parsed(m.start) :
            /\ results' = Append(results, r)
            /\ LET end == r.offset + r.size
                   claims == ~searchAll /\ r.confidence >= Medium /\ r.size > 0
               IN /\ floor' = IF claims /\ end > floor THEN end ELSE floor
                  /\ phase' = IF claims /\ end <= floor THEN "filter" ELSE "walk"
      BY <2>1 DEF VisitHit
    <3>2. /\ Medium \in Nat /\ floor \in Nat /\ results \in Seq(Ranges)
          /\ m.start \in Nat /\ MaxSize \in Nat /\ Confidences \subseteq Nat
          /\ BackOffsets \subseteq Nat
      BY ScanAssumption DEF ScanAssumption, Confidences, IInv, TypeOK
    <3>6. PICK b \in BackOffsets, n \in 0 .. MaxSize, c \in Confidences :
            /\ b <= m.start
            /\ r = [offset |-> m.start - b, size |-> n, confidence |-> c]
      BY <3>1 DEF Parsed
    <3>7. r.offset \in Nat /\ r.size \in Nat /\ r.confidence \in Nat
      BY <3>2, <3>6
    <3>3. results' # << >> /\ results'[Len(results')] = r
      BY <3>1, <3>2
    <3>4. CASE phase' = "filter"
      <4>1. r.confidence >= Medium /\ r.size > 0 /\ r.offset + r.size <= floor /\ floor' = floor
        BY <3>1, <3>2, <3>4, <3>7
      <4>2. r.offset < floor
        BY <4>1, <3>2, <3>7
      <4> QED BY <4>1, <4>2, <3>3 DEF EndsEarlyOnlyForClaimed
    <3>5. CASE phase' = "walk"
      BY <3>1, <3>5 DEF EndsEarlyOnlyForClaimed
    <3> QED BY <3>1, <3>4, <3>5
  <2>2. ASSUME NEW m \in Matches, VisitMiss(m) PROVE EndsEarlyOnlyForClaimed'
    BY <2>2 DEF VisitMiss, EndsEarlyOnlyForClaimed
  <2>3. CASE ShortMiss \/ ShortHit \/ BeginWalk \/ EndWalk
    BY <2>3 DEF ShortMiss, ShortHit, BeginWalk, EndWalk, walked, EndsEarlyOnlyForClaimed
  <2>4. CASE BeginFill \/ FillSize \/ EndFill \/ UNCHANGED vars
    BY <2>4 DEF BeginFill, FillSize, EndFill, vars, walked, EndsEarlyOnlyForClaimed
  <2>5. ASSUME NEW i \in DOMAIN results, Rank(i) \/ DropOverlapped(i) \/ Accept(i)
        PROVE  EndsEarlyOnlyForClaimed'
    BY <2>5 DEF Rank, DropOverlapped, Accept, walked, EndsEarlyOnlyForClaimed
  <2> QED BY <2>1, <2>2, <2>3, <2>4, <2>5 DEF Next, Returned
<1> QED BY Invariance, <1>1, <1>2, PTL DEF Spec
=============================================================================
