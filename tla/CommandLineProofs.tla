--------------------------- MODULE CommandLineProofs --------------------------
(***************************************************************************)
(* A run of the program, proved for any input, options, depth of nesting,  *)
(* number of workers, failures of the disk and leftovers of earlier runs:  *)
(* carving loses no byte, the entropy graph is drawn within its image, no  *)
(* queued file is lost before its analysis unless one extraction brought   *)
(* it out in the directory of another file's, and status 0 means that      *)
(* nothing went missing.                                                   *)
(***************************************************************************)
EXTENDS CommandLine, SequenceTheorems, FiniteSetTheorems, WellFoundedInduction, TLAPS

\* A non-empty set of natural numbers has a least element.
LEMMA LeastNatural ==
  ASSUME NEW T, T \subseteq Nat, T # {}
  PROVE  \E x \in T : \A y \in T : x <= y
<1> DEFINE U == {0 .. x : x \in T}
<1>1. U \subseteq FiniteSubsetsOf(Nat)
  <2> SUFFICES ASSUME NEW x \in T PROVE 0 .. x \in FiniteSubsetsOf(Nat)
    OBVIOUS
  <2>1. IsFiniteSet(0 .. x)
    BY FS_Interval
  <2> QED BY <2>1 DEF FiniteSubsetsOf
<1>2. PICK u \in U : \A v \in U : <<v, u>> \notin StrictSubsetOrdering(Nat)
  <2>1. U # {}
    OBVIOUS
  <2> HIDE DEF U
  <2> QED BY <1>1, <2>1, FS_StrictSubsetOrderingWellFounded, WFMin
<1>3. PICK x \in T : u = 0 .. x
  OBVIOUS
<1>4. ASSUME NEW y \in T, y < x PROVE FALSE
  <2>1. 0 .. y \subseteq 0 .. x
    BY <1>4
  <2>2. x \in 0 .. x /\ x \notin 0 .. y
    BY <1>4
  <2>3. <<0 .. y, 0 .. x>> \in StrictSubsetOrdering(Nat)
    BY <2>1, <2>2 DEF StrictSubsetOrdering
  <2> QED BY <2>3, <1>2, <1>3
<1> QED BY <1>4

-----------------------------------------------------------------------------
(* Carving: no byte is lost, and no unknown part overlaps another part.    *)

Results == [offset : Nat, size : Nat, name : STRING \ {Unknown}]
Parts == [offset : Nat, size : Nat, name : STRING \cup {Unknown}, success : BOOLEAN]

CarvingTypeOK ==
  /\ size \in Nat /\ map \in Seq(Results)
  /\ lastKnown \in 0 .. size
  /\ parts \in Seq(Parts)
  /\ carving \in {"begin", "parts", "end"}

\* The results still to come start in order, after every one that was carved.
Ordered ==
  /\ \A i, j \in DOMAIN map : i < j => map[i].offset < map[j].offset
  /\ \A i \in DOMAIN parts, j \in DOMAIN map :
       /\ parts[i].name # Unknown => parts[i].offset < map[j].offset
       /\ parts[i].name = Unknown => parts[i].offset + parts[i].size <= map[j].offset

NotTwice(p, q) ==
  Valid(p) /\ Valid(q) =>
    /\ p.name = Unknown => p.offset + p.size <= q.offset \/ q.offset + q.size <= p.offset
    /\ p.offset # q.offset \/ p.name # q.name

\* The parts s account for the bytes before `upto`: each of them is in some
\* part, and no part that is valid goes beyond; unknown parts are valid, not
\* empty, and overlap nothing.
Tiled(s, upto) ==
  /\ s \in Seq(Parts)
  /\ \A i \in DOMAIN s :
       /\ s[i].name = Unknown => s[i].size > 0 /\ Valid(s[i])
       /\ Valid(s[i]) => s[i].offset + s[i].size <= upto
  /\ \A byte \in 0 .. upto - 1 : \E i \in DOMAIN s : Holds(s[i], byte)
  /\ \A i, j \in DOMAIN s : i # j => NotTwice(s[i], s[j])

\* When it ends either nothing was carved or all of the data is accounted for.
CarvingInv ==
  /\ CarvingTypeOK /\ Ordered
  /\ carving = "begin" => parts = << >>
  /\ carving # "end" => Tiled(parts, lastKnown)
  /\ carving = "end" => Tiled(parts, size) \/ parts = << >>

-----------------------------------------------------------------------------
\* The initial states satisfy the invariant.
LEMMA CarvingStarts == CarvingInit => CarvingInv
<1> SUFFICES ASSUME CarvingInit PROVE CarvingInv
  OBVIOUS
<1>1. PICK in \in Inputs : size = in.size /\ map = in.map
  BY DEF CarvingInit
<1>2. /\ size \in Nat /\ map \in Seq(Results)
      /\ \A i, j \in DOMAIN map : i < j => map[i].offset < map[j].offset
  BY <1>1, InputsAssumption DEF InputsAssumption, Results
<1>3. lastKnown = 0 /\ parts = << >> /\ carving = "begin" /\ DOMAIN parts = {}
  BY DEF CarvingInit
<1> QED
  BY <1>2, <1>3 DEF CarvingInv, CarvingTypeOK, Ordered, Tiled

\* The offsets and sizes of parts are numbers.
LEMMA PartsAreTyped ==
  ASSUME NEW s \in Seq(Parts), NEW i \in DOMAIN s
  PROVE  s[i].offset \in Nat /\ s[i].size \in Nat
<1>1. s[i] \in Parts
  OBVIOUS
<1> QED
  BY <1>1 DEF Parts

\* What a sequence has at its places once one element is appended to it.
LEMMA Appended ==
  ASSUME NEW S, NEW s \in Seq(S), NEW e \in S
  PROVE  /\ Append(s, e) \in Seq(S)
         /\ Len(s) \in Nat /\ Len(Append(s, e)) = Len(s) + 1
         /\ DOMAIN s = 1 .. Len(s) /\ DOMAIN Append(s, e) = DOMAIN s \cup {Len(s) + 1}
         /\ Len(s) + 1 \notin DOMAIN s
         /\ \A i \in DOMAIN s : Append(s, e)[i] = s[i]
         /\ Append(s, e)[Len(s) + 1] = e
OBVIOUS

\* What there is to know of the results that remain when the first is taken.
LEMMA Remaining ==
  ASSUME CarvingInv, map # << >>
  PROVE  /\ Head(map) \in Results
         /\ Tail(map) \in Seq(Results)
         /\ \A i, j \in DOMAIN Tail(map) : i < j => Tail(map)[i].offset < Tail(map)[j].offset
         /\ \A j \in DOMAIN Tail(map) : Head(map).offset < Tail(map)[j].offset
         /\ \A i \in DOMAIN parts, j \in DOMAIN Tail(map) :
              /\ parts[i].name # Unknown => parts[i].offset < Tail(map)[j].offset
              /\ parts[i].name = Unknown => parts[i].offset + parts[i].size <= Tail(map)[j].offset
         /\ \A i \in DOMAIN parts :
              /\ parts[i].name # Unknown => parts[i].offset < Head(map).offset
              /\ parts[i].name = Unknown => parts[i].offset + parts[i].size <= Head(map).offset
<1> DEFINE n == Len(map)
<1>1. map \in Seq(Results) /\ n \in Nat \ {0} /\ DOMAIN map = 1 .. n
  BY DEF CarvingInv, CarvingTypeOK
<1>2. /\ Head(map) = map[1] /\ 1 \in DOMAIN map
      /\ Tail(map) \in Seq(Results) /\ DOMAIN Tail(map) = 1 .. n - 1
      /\ \A j \in 1 .. n - 1 : Tail(map)[j] = map[j + 1] /\ j + 1 \in DOMAIN map
  BY <1>1
<1>3. Head(map) \in Results
  BY <1>1, <1>2
<1>4. \A i, j \in DOMAIN Tail(map) : i < j => Tail(map)[i].offset < Tail(map)[j].offset
  BY <1>1, <1>2 DEF CarvingInv, Ordered
<1>5. \A j \in DOMAIN Tail(map) : Head(map).offset < Tail(map)[j].offset
  BY <1>1, <1>2 DEF CarvingInv, Ordered
<1> QED
  BY <1>2, <1>3, <1>4, <1>5 DEF CarvingInv, Ordered

\* A part that begins where the account ends or before, after everything that
\* is not to overlap it, extends the account.
LEMMA PartAdded ==
  ASSUME CarvingTypeOK, NEW s, NEW k \in 0 .. size, Tiled(s, k),
         NEW e \in Parts, Valid(e), e.offset <= k,
         e.name = Unknown => e.offset = k /\ e.size > 0,
         \A i \in DOMAIN s : e.name # Unknown =>
           /\ s[i].name # Unknown => s[i].offset < e.offset
           /\ s[i].name = Unknown => s[i].offset + s[i].size <= e.offset
  PROVE  Tiled(Append(s, e), Later(k, e.offset + e.size))
<1> DEFINE t == Append(s, e)
           n == Len(s) + 1
           m == Later(k, e.offset + e.size)
<1>1. /\ size \in Nat /\ s \in Seq(Parts) /\ e.offset \in Nat /\ e.size \in Nat
      /\ \A i \in DOMAIN s : s[i].offset \in Nat /\ s[i].size \in Nat
  <2>1. size \in Nat /\ s \in Seq(Parts)
    BY DEF CarvingTypeOK, Tiled
  <2>2. e.offset \in Nat /\ e.size \in Nat
    BY DEF Parts
  <2> QED
    BY <2>1, <2>2, PartsAreTyped
<1>2. /\ t \in Seq(Parts) /\ DOMAIN t = DOMAIN s \cup {n} /\ n \notin DOMAIN s
      /\ \A i \in DOMAIN s : t[i] = s[i]
      /\ t[n] = e
  BY <1>1, Appended
<1>3. /\ k <= m /\ e.offset + e.size <= m /\ m \in Nat
      /\ m = k \/ m = e.offset + e.size
  BY <1>1 DEF Later
<1> HIDE DEF t, n, m
<1>4. ASSUME NEW i \in DOMAIN t
      PROVE  /\ t[i].name = Unknown => t[i].size > 0 /\ Valid(t[i])
             /\ Valid(t[i]) => t[i].offset + t[i].size <= m
  BY <1>1, <1>2, <1>3 DEF Tiled
<1>5. ASSUME NEW byte \in 0 .. m - 1 PROVE \E i \in DOMAIN t : Holds(t[i], byte)
  <2>1. CASE byte < k
    BY <1>2, <2>1 DEF Tiled
  <2>2. CASE byte >= k
    <3>1. e.offset <= byte /\ byte < e.offset + e.size
      BY <1>1, <1>3, <2>2
    <3> QED
      BY <1>2, <3>1 DEF Holds
  <2> QED
    BY <2>1, <2>2, <1>3
<1>6. ASSUME NEW i \in DOMAIN s PROVE NotTwice(s[i], e) /\ NotTwice(e, s[i])
  <2>1. Valid(s[i]) => s[i].offset + s[i].size <= k
    BY DEF Tiled
  <2>2. s[i].name = Unknown => s[i].size > 0
    BY DEF Tiled
  <2>3. CASE e.name = Unknown
    BY <1>1, <2>1, <2>2, <2>3 DEF NotTwice
  <2>4. CASE e.name # Unknown
    BY <1>1, <2>1, <2>2, <2>4 DEF NotTwice
  <2> QED
    BY <2>3, <2>4
<1>7. \A i, j \in DOMAIN t : i # j => NotTwice(t[i], t[j])
  BY <1>2, <1>6 DEF Tiled
<1> QED
  BY <1>2, <1>4, <1>5, <1>7 DEF Tiled, t, m

\* The gap before `upto`, if there is one, extends the account up to there.
LEMMA GapAdded ==
  ASSUME CarvingTypeOK, Tiled(parts, lastKnown), NEW upto \in 0 .. size, NEW written \in BOOLEAN
  PROVE  /\ Tiled(parts \o Gap(upto, written), Later(lastKnown, upto))
         /\ \A i \in DOMAIN (parts \o Gap(upto, written)) :
              LET p == (parts \o Gap(upto, written))[i]
              IN \/ i \in DOMAIN parts /\ p = parts[i]
                 \/ p.name = Unknown /\ p.offset + p.size <= upto
<1> DEFINE g == Part(lastKnown, upto - lastKnown, Unknown, written)
<1>1. parts \in Seq(Parts) /\ size \in Nat /\ lastKnown \in Nat /\ upto \in Nat
  BY DEF CarvingTypeOK
<1>2. CASE upto <= lastKnown
  <2>1. Gap(upto, written) = << >> /\ Later(lastKnown, upto) = lastKnown
    BY <1>1, <1>2 DEF Gap, Later
  <2>2. parts \o Gap(upto, written) = parts
    BY <1>1, <2>1
  <2> QED
    BY <2>1, <2>2
<1>3. CASE upto > lastKnown
  <2>1. /\ g \in Parts /\ g.name = Unknown /\ g.offset = lastKnown
        /\ g.size = upto - lastKnown /\ g.size > 0 /\ Valid(g)
    BY <1>1, <1>3 DEF Part, Parts, Valid, Usable
  <2>2. parts \o Gap(upto, written) = Append(parts, g)
    BY <1>1, <1>3, <2>1 DEF Gap
  <2> HIDE DEF g
  <2>6. /\ g.offset <= lastKnown /\ lastKnown \in 0 .. size
        /\ g.name = Unknown => g.offset = lastKnown /\ g.size > 0
        /\ \A i \in DOMAIN parts : g.name # Unknown =>
             /\ parts[i].name # Unknown => parts[i].offset < g.offset
             /\ parts[i].name = Unknown => parts[i].offset + parts[i].size <= g.offset
    BY <1>1, <2>1 DEF CarvingTypeOK
  <2>3. Tiled(Append(parts, g), Later(lastKnown, g.offset + g.size))
    BY <2>1, <2>6, PartAdded
  <2>4. g.offset + g.size = upto /\ Later(lastKnown, upto) = upto
    BY <1>1, <1>3, <2>1 DEF Later
  <2>5. \A i \in DOMAIN Append(parts, g) :
          \/ i \in DOMAIN parts /\ Append(parts, g)[i] = parts[i]
          \/ Append(parts, g)[i] = g
    BY <1>1, <2>1, Appended
  <2> QED
    BY <1>1, <2>1, <2>2, <2>3, <2>4, <2>5
<1> QED
  BY <1>1, <1>2, <1>3

-----------------------------------------------------------------------------
\* Every turn of the loop keeps the invariant.
LEMMA CarvingStepKeeps == CarvingInv /\ [CarveStep]_carvingVars => CarvingInv'
<1> SUFFICES ASSUME CarvingInv, [CarveStep]_carvingVars PROVE CarvingInv'
  OBVIOUS
<1> USE DEF CarvingInv
<1>1. CASE CarveBegin
  <2>1. Tiled(<< >>, 0)
    BY DEF Tiled
  <2> QED
    BY <1>1, <2>1 DEF CarveBegin, CarvingTypeOK, Ordered, Tiled, NotTwice, Holds, Valid, Usable
<1>2. CASE CarveNothing
  BY <1>2 DEF CarveNothing, CarvingTypeOK, Ordered
<1>3. CASE CarveInvalid
  <2> DEFINE h == Head(map)
             e == Part(h.offset, h.size, h.name, FALSE)
  <2>1. h \in Results /\ h.offset \in Nat /\ h.size \in Nat /\ ~Usable(h.offset, h.size)
    BY <1>3, Remaining DEF CarveInvalid, Results
  <2>2. e \in Parts /\ e.name # Unknown /\ e.offset = h.offset /\ ~Valid(e)
    BY <2>1 DEF Part, Parts, Valid, Results
  <2>3. parts' = Append(parts, e) /\ map' = Tail(map) /\ UNCHANGED <<size, lastKnown, carving>>
    BY <1>3 DEF CarveInvalid
  <2> HIDE DEF e
  <2>4. /\ parts' \in Seq(Parts) /\ DOMAIN parts' = DOMAIN parts \cup {Len(parts) + 1}
        /\ \A i \in DOMAIN parts : parts'[i] = parts[i]
        /\ parts'[Len(parts) + 1] = e
    BY <2>2, <2>3, Appended DEF CarvingTypeOK
  <2>5. CarvingTypeOK'
    BY <1>3, <2>3, <2>4, Remaining DEF CarvingTypeOK, CarveInvalid
  <2>6. Ordered'
    BY <1>3, <2>2, <2>3, <2>4, Remaining DEF Ordered, CarveInvalid
  <2>7. Tiled(parts', lastKnown)
    <3>1. Tiled(parts, lastKnown)
      BY <1>3 DEF CarveInvalid
    <3>2. \A p \in Parts : NotTwice(p, e) /\ NotTwice(e, p)
      BY <2>2 DEF NotTwice
    <3>3. \A i, j \in DOMAIN parts' : i # j => NotTwice(parts'[i], parts'[j])
      BY <2>4, <3>1, <3>2 DEF Tiled
    <3>4. \A byte \in 0 .. lastKnown - 1 : \E i \in DOMAIN parts' : Holds(parts'[i], byte)
      BY <2>4, <3>1 DEF Tiled
    <3> QED
      BY <2>2, <2>4, <3>1, <3>3, <3>4 DEF Tiled
  <2>8. Tiled(parts, lastKnown)' <=> Tiled(parts', lastKnown)
    BY <2>3 DEF Tiled, NotTwice, Holds, Valid, Usable
  <2> QED
    BY <1>3, <2>3, <2>5, <2>6, <2>7, <2>8 DEF CarveInvalid
<1>4. CASE CarveSignature
  <2> DEFINE h == Head(map)
  <2>1. /\ h \in Results /\ h.offset \in Nat /\ h.size \in Nat
        /\ Usable(h.offset, h.size) /\ h.name # Unknown /\ h.offset \in 0 .. size
        /\ h.offset + h.size <= size
    BY <1>4, Remaining DEF CarveSignature, Results, Usable, CarvingTypeOK
  <2>2. PICK gapWritten \in BOOLEAN, written \in BOOLEAN :
          parts' = parts \o Gap(h.offset, gapWritten) \o << Part(h.offset, h.size, h.name, written) >>
    BY <1>4 DEF CarveSignature
  <2> DEFINE s == parts \o Gap(h.offset, gapWritten)
             e == Part(h.offset, h.size, h.name, written)
             k == Later(lastKnown, h.offset)
  <2>3. /\ map' = Tail(map) /\ UNCHANGED <<size, carving>> /\ carving = "parts" /\ map # << >>
        /\ lastKnown' = Later(lastKnown, h.offset + h.size)
    BY <1>4 DEF CarveSignature
  <2>4. /\ Tiled(s, k)
        /\ \A i \in DOMAIN s : \/ i \in DOMAIN parts /\ s[i] = parts[i]
                               \/ s[i].name = Unknown /\ s[i].offset + s[i].size <= h.offset
    BY <2>1, <2>3, GapAdded
  <2>5. /\ e \in Parts /\ e.name = h.name /\ e.offset = h.offset /\ e.size = h.size /\ Valid(e)
    BY <2>1 DEF Part, Parts, Valid, Results
  <2>6. /\ lastKnown \in 0 .. size /\ size \in Nat /\ k \in 0 .. size /\ h.offset <= k
        /\ Later(k, h.offset + h.size) = lastKnown'
        /\ lastKnown' \in 0 .. size
    BY <2>1, <2>3 DEF CarvingTypeOK, Later
  <2>7. \A i \in DOMAIN s :
          /\ s[i].name # Unknown => s[i].offset < h.offset
          /\ s[i].name = Unknown => s[i].offset + s[i].size <= h.offset
    BY <2>3, <2>4, Remaining
  <2>8. parts' = Append(s, e)
    <3>1. s \in Seq(Parts)
      BY <2>4 DEF Tiled
    <3> HIDE DEF s, e
    <3>2. parts' = s \o << e >>
      BY <2>2 DEF s, e
    <3> QED
      BY <3>1, <3>2, <2>5
  <2> HIDE DEF s, e, k
  <2>9. Tiled(parts', lastKnown')
    <3>1. Tiled(Append(s, e), Later(k, e.offset + e.size))
      BY <2>1, <2>4, <2>5, <2>6, <2>7, PartAdded
    <3> QED
      BY <3>1, <2>5, <2>6, <2>8
  <2>10. /\ parts' \in Seq(Parts) /\ DOMAIN parts' = DOMAIN s \cup {Len(s) + 1}
         /\ \A i \in DOMAIN s : parts'[i] = s[i]
         /\ parts'[Len(s) + 1] = e
    BY <2>4, <2>5, <2>8, Appended DEF Tiled
  <2>11. CarvingTypeOK'
    BY <2>3, <2>6, <2>10, Remaining DEF CarvingTypeOK
  <2>12. Ordered'
    <3>1. \A i, j \in DOMAIN map' : i < j => map'[i].offset < map'[j].offset
      BY <2>3, Remaining
    <3>2. ASSUME NEW i \in DOMAIN parts', NEW j \in DOMAIN map'
          PROVE  /\ parts'[i].name # Unknown => parts'[i].offset < map'[j].offset
                 /\ parts'[i].name = Unknown => parts'[i].offset + parts'[i].size <= map'[j].offset
      <4>1. h.offset < map'[j].offset /\ map'[j].offset \in Nat
        <5>1. h.offset < map'[j].offset
          BY <2>3, Remaining
        <5>2. map' \in Seq(Results)
          BY <2>3, Remaining
        <5>3. map'[j] \in Results
          BY <5>2
        <5> QED
          BY <5>1, <5>3 DEF Results
      <4>2. CASE i \in DOMAIN parts /\ parts'[i] = parts[i]
        BY <2>3, <4>2, Remaining
      <4>3. CASE parts'[i].name = Unknown /\ parts'[i].offset + parts'[i].size <= h.offset
        <5>1. parts'[i].offset \in Nat /\ parts'[i].size \in Nat
          BY <2>10, PartsAreTyped
        <5> QED
          BY <4>1, <4>3, <5>1, <2>1
      <4>4. CASE parts'[i] = e
        BY <4>1, <4>4, <2>5, <2>1
      <4> QED
        BY <4>2, <4>3, <4>4, <2>4, <2>10
    <3> QED
      BY <3>1, <3>2 DEF Ordered
  <2>13. Tiled(parts, lastKnown)' <=> Tiled(parts', lastKnown')
    BY <2>3 DEF Tiled, NotTwice, Holds, Valid, Usable
  <2> QED
    BY <2>3, <2>9, <2>11, <2>12, <2>13
<1>5. CASE CarveRest
  <2>1. PICK written \in BOOLEAN : parts' = parts \o Gap(size, written)
    BY <1>5 DEF CarveRest
  <2>2. /\ carving = "parts" /\ map = << >> /\ carving' = "end"
        /\ UNCHANGED <<size, map, lastKnown>>
    BY <1>5 DEF CarveRest
  <2>3. size \in 0 .. size /\ Later(lastKnown, size) = size
    BY DEF CarvingTypeOK, Later
  <2>4. Tiled(parts', size)
    BY <2>1, <2>2, <2>3, GapAdded
  <2>5. Tiled(parts, size)' <=> Tiled(parts', size)
    BY <2>2 DEF Tiled, NotTwice, Holds, Valid, Usable
  <2>6. CarvingTypeOK' /\ Ordered'
    BY <2>2, <2>4 DEF CarvingTypeOK, Ordered, Tiled
  <2> QED
    BY <2>2, <2>4, <2>5, <2>6
<1>6. CASE UNCHANGED carvingVars
  BY <1>6 DEF carvingVars, CarvingTypeOK, Ordered, Tiled, NotTwice, Holds, Valid, Usable
<1> QED
  BY <1>1, <1>2, <1>3, <1>4, <1>5, <1>6 DEF CarveStep

LEMMA CarvingInvImplies == CarvingInv => EveryByteCarved /\ GapsAreUnknown
BY DEF CarvingInv, CarvingTypeOK, EveryByteCarved, GapsAreUnknown, Tiled, NotTwice

\* main uses the parts of the first file and forgets them.
LEMMA CarvingInRun ==
  CarvingInv /\ [Next]_vars => CarvingInv'
<1> SUFFICES ASSUME CarvingInv, [Next]_vars PROVE CarvingInv'
  OBVIOUS
<1>1. CASE MainCarved
  <2>1. /\ carving = "end" /\ UNCHANGED <<size, map, carving>>
        /\ parts' = << >> /\ lastKnown' = 0
    BY <1>1 DEF MainCarved
  <2> QED
    BY <2>1 DEF CarvingInv, CarvingTypeOK, Ordered
<1>2. CASE CarveStep
  BY <1>2, CarvingStepKeeps
<1>3. CASE ~MainCarved /\ ~CarveStep
  <2>1. UNCHANGED carvingVars
    BY <1>3 DEF Next, Step, OpenMain, PlotEntropy, PlotFails, LogEntropy, AnalyseMain, CarveMain,
      ProcessMain, Launch, WorkerOpens, WorkerAnalyses, CollectUnread, Collect, QueueEmpty, Close,
      ExtractorWrites, Exited, vars
  <2> QED
    BY <2>1, CarvingStepKeeps
<1> QED
  BY <1>1, <1>2, <1>3

\* Whatever results overlap, contain each other or lie outside the data, each
\* byte of the data is in some part that carve_file_map returns.
THEOREM NoByteIsLost == Spec => []EveryByteCarved
<1>1. Init => CarvingInv
  BY CarvingStarts DEF Init
<1> QED
  BY <1>1, CarvingInRun, CarvingInvImplies, PTL DEF Spec

\* An unknown part overlaps no other part, and no two parts are written to one
\* file.
THEOREM UnknownIsUnclaimed == Spec => []GapsAreUnknown
<1>1. Init => CarvingInv
  BY CarvingStarts DEF Init
<1> QED
  BY <1>1, CarvingInRun, CarvingInvImplies, PTL DEF Spec

-----------------------------------------------------------------------------
(* The entropy graph: the pen stays on its line, and lines in the image.   *)

Blocks == [start : Nat, level : Levels, end : Nat]
Lines == [x0 : 0 .. Width - 1, y0 : 0 .. Height - 1, x1 : 0 .. Width - 1, y1 : 0 .. Height - 1]

\* The error tells how far the pen has come in either direction.
OnLine(p, l) ==
  /\ p \in [x : Int, y : Int, dx : Nat, dy : Int, error : Int]
  /\ p.dx = Graph!Distance(l.x0, l.x1) /\ p.dy = - Graph!Distance(l.y0, l.y1)
  /\ Graph!Between(p.x, l.x0, l.x1) /\ Graph!Between(p.y, l.y0, l.y1)
  /\ p.error = (1 + Graph!Distance(l.y0, p.y)) * p.dx + (1 + Graph!Distance(l.x0, p.x)) * p.dy

\* No block ends beyond the last, which ends where the next begins or with the
\* data.
BlocksInv ==
  /\ start \in Nat /\ blocks \in Seq(Blocks)
  /\ blocks = << >> => start = 0
  /\ \A k \in DOMAIN blocks :
       blocks[k].start <= blocks[k].end /\ blocks[k].end <= Graph!Lesser(start, size)
  /\ blocks # << >> => blocks[Len(blocks)].end = Graph!Lesser(start, size)

PenInv ==
  /\ plotting \in {"blocks", "lines", "drawn"}
  /\ plotting = "blocks" => lines = << >> /\ pen = << >>
  /\ lines \in Seq(Lines)
  /\ pen = << >> \/ /\ plotting = "lines" /\ lines # << >>
                    /\ pen = << pen[1] >> /\ OnLine(pen[1], Head(lines))

GraphInv == size \in Nat /\ BlocksInv /\ PenInv

\* A fraction of a length, rounded, is not longer.
LEMMA RoundedIsInside ==
  ASSUME NEW a \in Nat, NEW b \in Nat \ {0}, NEW most \in Nat, a <= b * most
  PROVE  Graph!Round(a, b) \in 0 .. most
<1>1. 2 * a + b \in Nat /\ 2 * b \in Nat \ {0} /\ b * most \in Nat
  OBVIOUS
<1>2. (2 * b) * (most + 1) = 2 * (b * most) + 2 * b
  OBVIOUS
<1>3. 2 * a + b < (2 * b) * (most + 1)
  BY <1>2
<1> DEFINE q == (2 * a + b) \div (2 * b)
<1>4. q \in Nat /\ (2 * b) * q <= 2 * a + b
  BY <1>1
<1>5. (2 * b) * q < (2 * b) * (most + 1) => q < most + 1
  BY <1>1, <1>4
<1> HIDE DEF q
<1>6. q <= most
  BY <1>1, <1>3, <1>4, <1>5
<1> QED
  BY <1>4, <1>6 DEF Graph!Round, q

\* A product is at most that of what its factors are at most.
LEMMA ProductIsBounded ==
  ASSUME NEW a \in Nat, NEW b \in Nat, NEW c \in Nat, a <= b
  PROVE  a * c <= b * c /\ a * c \in Nat /\ b * c \in Nat
OBVIOUS

\* Where a block's ends and its level are drawn is in the image.
LEMMA MapsInside ==
  ASSUME GraphInv, Graph!CanPlot
  PROVE  /\ \A k \in DOMAIN blocks : /\ Graph!MapX(blocks[k].start) \in 0 .. Width - 1
                                     /\ Graph!MapX(blocks[k].end) \in 0 .. Width - 1
                                     /\ Graph!MapY(blocks[k].level) \in 0 .. Height - 1
         /\ Graph!LeftMargin \in 0 .. Width - 1 /\ Graph!TopMargin \in 0 .. Height - 1
         /\ Graph!LeftMargin + Graph!PlotWidth \in 0 .. Width - 1
         /\ Graph!TopMargin + Graph!PlotHeight \in 0 .. Height - 1
<1> DEFINE end == blocks[Len(blocks)].end
           across == Width - 96
           down == Height - 80
<1>1. Width \in 128 .. 16384 /\ Height \in 128 .. 16384
  BY DEF Graph!CanPlot, Graph!MinimumDimension, Graph!MaximumDimension
<1>2. /\ Graph!LeftMargin = 64 /\ Graph!TopMargin = 32
      /\ Graph!PlotWidth = across /\ Graph!PlotHeight = down
      /\ across \in Nat /\ down \in Nat
  BY <1>1 DEF Graph!LeftMargin, Graph!TopMargin, Graph!PlotWidth, Graph!PlotHeight
<1>3. ASSUME NEW k \in DOMAIN blocks
      PROVE  /\ blocks[k].start \in 0 .. end /\ blocks[k].end \in 0 .. end
             /\ blocks[k].level \in 0 .. 8 /\ end \in Nat \ {0}
  <2>1. blocks \in Seq(Blocks) /\ blocks # << >> /\ end # 0
    BY DEF GraphInv, BlocksInv, Graph!CanPlot
  <2>2. blocks[k] \in Blocks /\ blocks[Len(blocks)] \in Blocks
    BY <2>1
  <2>3. blocks[k].start <= blocks[k].end /\ blocks[k].end <= end
    BY <2>1 DEF GraphInv, BlocksInv
  <2>4. /\ blocks[k].start \in Nat /\ blocks[k].end \in Nat /\ end \in Nat
        /\ blocks[k].level \in Levels
    BY <2>2 DEF Blocks
  <2>5. blocks[k].level \in 0 .. 8
    BY <2>4, GraphAssumption DEF GraphAssumption
  <2> HIDE DEF end
  <2> QED
    BY <2>1, <2>3, <2>4, <2>5
<1>4. ASSUME NEW offset, end \in Nat \ {0}, offset \in 0 .. end
      PROVE  Graph!MapX(offset) \in 0 .. Width - 1
  <2> HIDE DEF end, across, down
  <2>1. offset * across <= end * across /\ offset * across \in Nat
    BY <1>2, <1>4, ProductIsBounded
  <2>2. Graph!Round(offset * across, end) \in 0 .. across
    BY <1>2, <1>4, <2>1, RoundedIsInside
  <2> QED
    BY <1>1, <1>2, <2>2 DEF Graph!MapX, across, end
<1>5. ASSUME NEW level, level \in 0 .. 8
      PROVE  Graph!MapY(level) \in 0 .. Height - 1
  <2> HIDE DEF down
  <2>1. (8 - level) * down <= 8 * down /\ (8 - level) * down \in Nat
    BY <1>2, <1>5, ProductIsBounded
  <2>2. Graph!Round((8 - level) * down, 8) \in 0 .. down
    BY <1>2, <2>1, RoundedIsInside
  <2> QED
    BY <1>1, <1>2, <2>2 DEF Graph!MapY, down
<1>6. /\ Graph!LeftMargin \in 0 .. Width - 1 /\ Graph!TopMargin \in 0 .. Height - 1
      /\ Graph!LeftMargin + Graph!PlotWidth \in 0 .. Width - 1
      /\ Graph!TopMargin + Graph!PlotHeight \in 0 .. Height - 1
  BY <1>1, <1>2
<1> HIDE DEF end, across, down
<1> QED
  BY <1>3, <1>4, <1>5, <1>6

\* The lines of a block are in the image.
LEMMA BlockLinesInside ==
  ASSUME GraphInv, Graph!CanPlot, NEW k \in DOMAIN blocks
  PROVE  /\ Graph!LinesOf(k)[1] \in Lines
         /\ Graph!LinesOf(k)[2] \in Lines
<1>1. blocks \in Seq(Blocks) /\ DOMAIN blocks = 1 .. Len(blocks) /\ Len(blocks) \in Nat
  BY DEF GraphInv, BlocksInv
<1>2. k # 1 => k - 1 \in DOMAIN blocks
  BY <1>1
<1>3. 1 \in DOMAIN blocks
  BY <1>1
<1> DEFINE before == IF k = 1 THEN << Graph!MapX(blocks[1].start), Graph!MapY(blocks[1].level) >>
                     ELSE << Graph!MapX(blocks[k - 1].end), Graph!MapY(blocks[k - 1].level) >>
<1>4. before[1] \in 0 .. Width - 1 /\ before[2] \in 0 .. Height - 1
  BY <1>2, <1>3, MapsInside
<1>5. /\ Graph!MapX(blocks[k].start) \in 0 .. Width - 1
      /\ Graph!MapX(blocks[k].end) \in 0 .. Width - 1
      /\ Graph!MapY(blocks[k].level) \in 0 .. Height - 1
  BY MapsInside
<1> HIDE DEF before
<1>6. /\ Graph!Line(before[1], before[2], Graph!MapX(blocks[k].start), Graph!MapY(blocks[k].level)) \in Lines
      /\ Graph!Line(Graph!MapX(blocks[k].start), Graph!MapY(blocks[k].level),
                    Graph!MapX(blocks[k].end), Graph!MapY(blocks[k].level)) \in Lines
  BY <1>4, <1>5 DEF Graph!Line, Lines
<1> QED
  BY <1>6 DEF Graph!LinesOf, before

\* A coordinate that has not come to its end goes one nearer.
LEMMA OneNearer ==
  ASSUME NEW a \in Nat, NEW b \in Nat, NEW n \in Int, Graph!Between(n, a, b)
  PROVE  /\ Graph!Distance(a, n) \in Nat /\ Graph!Distance(a, n) <= Graph!Distance(a, b)
         /\ Graph!Distance(a, n) = Graph!Distance(a, b) <=> n = b
         /\ Graph!Distance(a, n) # Graph!Distance(a, b) =>
              LET m == n + (IF a < b THEN 1 ELSE -1)
              IN Graph!Between(m, a, b) /\ Graph!Distance(a, m) = Graph!Distance(a, n) + 1
BY DEF Graph!Between, Graph!Distance, Graph!Lesser

\* The heart of the line algorithm: after i steps across of d and j steps down
\* of h, the error allows no step in a direction that has come to its end
\* unless both have.
LEMMA ErrorStopsPen ==
  ASSUME NEW d \in Nat, NEW h \in Nat, NEW i \in 0 .. d, NEW j \in 0 .. h,
         ~(i = d /\ j = h), NEW error \in Int, error = (1 + j) * d + (1 + i) * (- h)
  PROVE  /\ 2 * error >= - h => i < d
         /\ 2 * error <= d => j < h
<1>1. CASE i = d
  <2>1. (1 + j) * d <= h * d /\ (1 + j) * d \in Nat /\ h * d \in Nat
    BY <1>1, ProductIsBounded
  <2>2. (1 + i) * (- h) = - h - h * d
    BY <1>1
  <2>3. error <= - h /\ h > 0
    BY <1>1, <2>1, <2>2
  <2> QED
    BY <1>1, <2>3
<1>2. CASE j = h
  <2>1. (1 + i) * h <= d * h /\ (1 + i) * h \in Nat /\ d * h \in Nat
    BY <1>2, ProductIsBounded
  <2>2. (1 + j) * d = d + d * h /\ (1 + i) * (- h) = - ((1 + i) * h)
    BY <1>2
  <2>3. error >= d /\ d > 0
    BY <1>2, <2>1, <2>2
  <2> QED
    BY <1>2, <2>3
<1>3. CASE i # d /\ j # h
  BY <1>3
<1> QED
  BY <1>1, <1>2, <1>3

\* A turn of the loop of line, from a point on the line that is not its end,
\* leads to a point on the line.
LEMMA TurnStaysOnLine ==
  ASSUME NEW l \in Lines, NEW p, OnLine(p, l), ~(p.x = l.x1 /\ p.y = l.y1)
  PROVE  LET across == 2 * p.error >= p.dy
             along == 2 * p.error <= p.dx
         IN OnLine([p EXCEPT !.error = @ + (IF across THEN p.dy ELSE 0) + (IF along THEN p.dx ELSE 0),
                             !.x = @ + (IF ~across THEN 0 ELSE IF l.x0 < l.x1 THEN 1 ELSE -1),
                             !.y = @ + (IF ~along THEN 0 ELSE IF l.y0 < l.y1 THEN 1 ELSE -1)], l)
<1> DEFINE across == 2 * p.error >= p.dy
           along == 2 * p.error <= p.dx
           d == Graph!Distance(l.x0, l.x1)
           h == Graph!Distance(l.y0, l.y1)
           i == Graph!Distance(l.x0, p.x)
           j == Graph!Distance(l.y0, p.y)
           x == p.x + (IF ~across THEN 0 ELSE IF l.x0 < l.x1 THEN 1 ELSE -1)
           y == p.y + (IF ~along THEN 0 ELSE IF l.y0 < l.y1 THEN 1 ELSE -1)
           error == p.error + (IF across THEN p.dy ELSE 0) + (IF along THEN p.dx ELSE 0)
<1>1. l.x0 \in Nat /\ l.x1 \in Nat /\ l.y0 \in Nat /\ l.y1 \in Nat
  BY DEF Lines
<1>2. /\ p \in [x : Int, y : Int, dx : Nat, dy : Int, error : Int]
      /\ p.dx = d /\ p.dy = - h /\ p.error = (1 + j) * d + (1 + i) * (- h)
      /\ Graph!Between(p.x, l.x0, l.x1) /\ Graph!Between(p.y, l.y0, l.y1)
  BY DEF OnLine
<1>3. d \in Nat /\ h \in Nat
  BY <1>1 DEF Graph!Distance
<1>4. /\ i \in 0 .. d /\ (i = d <=> p.x = l.x1)
      /\ j \in 0 .. h /\ (j = h <=> p.y = l.y1)
  BY <1>1, <1>2, <1>3, OneNearer
<1>5. p.x \in Int /\ p.y \in Int /\ p.error \in Int
  BY <1>2
<1>6. /\ across => i < d
      /\ along => j < h
  <2> HIDE DEF d, h, i, j
  <2> QED
    BY <1>2, <1>3, <1>4, <1>5, ErrorStopsPen
<1>7. /\ x \in Int /\ Graph!Between(x, l.x0, l.x1)
      /\ Graph!Distance(l.x0, x) = i + (IF across THEN 1 ELSE 0)
  <2>1. CASE across
    <3>1. i # d
      BY <1>3, <1>4, <1>6, <2>1
    <3> QED
      BY <1>1, <1>2, <1>5, <2>1, <3>1, OneNearer
  <2>2. CASE ~across
    <3>1. x = p.x /\ i \in Int
      BY <1>4, <1>5, <2>2
    <3> QED
      BY <1>2, <1>5, <2>2, <3>1
  <2> QED
    BY <2>1, <2>2
<1>8. /\ y \in Int /\ Graph!Between(y, l.y0, l.y1)
      /\ Graph!Distance(l.y0, y) = j + (IF along THEN 1 ELSE 0)
  <2>1. CASE along
    <3>1. j # h
      BY <1>3, <1>4, <1>6, <2>1
    <3> QED
      BY <1>1, <1>2, <1>5, <2>1, <3>1, OneNearer
  <2>2. CASE ~along
    <3>1. y = p.y /\ j \in Int
      BY <1>4, <1>5, <2>2
    <3> QED
      BY <1>2, <1>5, <2>2, <3>1
  <2> QED
    BY <2>1, <2>2
<1>9. /\ error \in Int
      /\ error = (1 + (j + (IF along THEN 1 ELSE 0))) * d + (1 + (i + (IF across THEN 1 ELSE 0))) * (- h)
  <2> HIDE DEF d, h, i, j, across, along
  <2>1. CASE along /\ across
    BY <1>2, <1>3, <1>4, <1>5, <2>1
  <2>2. CASE along /\ ~across
    BY <1>2, <1>3, <1>4, <1>5, <2>2
  <2>3. CASE ~along /\ across
    BY <1>2, <1>3, <1>4, <1>5, <2>3
  <2>4. CASE ~along /\ ~across
    BY <1>2, <1>3, <1>4, <1>5, <2>4
  <2> QED
    BY <2>1, <2>2, <2>3, <2>4
<1> DEFINE q == [p EXCEPT !.error = error, !.x = x, !.y = y]
<1>10. /\ q \in [x : Int, y : Int, dx : Nat, dy : Int, error : Int]
       /\ q.dx = p.dx /\ q.dy = p.dy /\ q.x = x /\ q.y = y /\ q.error = error
  <2> HIDE DEF x, y, error
  <2> QED
    BY <1>2, <1>7, <1>8, <1>9
<1>11. OnLine(q, l)
  <2> HIDE DEF x, y, error, q
  <2> QED
    BY <1>2, <1>7, <1>8, <1>9, <1>10 DEF OnLine
<1> QED
  BY <1>11

LEMMA GraphStarts == Init => GraphInv
<1> SUFFICES ASSUME Init PROVE GraphInv
  OBVIOUS
<1>1. size \in Nat
  BY CarvingStarts DEF Init, CarvingInv, CarvingTypeOK
<1>2. start = 0 /\ blocks = << >> /\ lines = << >> /\ pen = << >> /\ plotting = "blocks"
  BY DEF Init, Graph!EntropyInit
<1> QED
  BY <1>1, <1>2 DEF GraphInv, BlocksInv, PenInv

\* Counting a block.
LEMMA BlockCounted ==
  ASSUME GraphInv, Graph!NextBlock, size' = size
  PROVE  BlocksInv' /\ PenInv'
<1>1. size \in Nat /\ start \in Nat /\ start < size /\ blocks \in Seq(Blocks)
  BY DEF GraphInv, BlocksInv, Graph!NextBlock
<1> DEFINE unit == Graph!BlockSize
           end == start + Graph!Lesser(unit, size - start)
<1>2. unit \in Nat \ {0}
  BY <1>1, GraphAssumption DEF GraphAssumption, Graph!BlockSize
<1>3. PICK level \in Levels :
        blocks' = Append(blocks, [start |-> start, level |-> level, end |-> end])
  BY DEF Graph!NextBlock
<1>4. start' = start + unit /\ UNCHANGED <<lines, pen, plotting>>
  BY DEF Graph!NextBlock
<1> DEFINE block == [start |-> start, level |-> level, end |-> end]
<1>5. /\ end \in Nat /\ start <= end /\ end = Graph!Lesser(start', size)
      /\ Graph!Lesser(start, size) <= end
  <2> HIDE DEF unit
  <2> QED
    BY <1>1, <1>2, <1>4 DEF Graph!Lesser
<1>6. block \in Blocks /\ block.start = start /\ block.end = end
  <2> HIDE DEF end
  <2> QED
    BY <1>1, <1>5 DEF Blocks
<1> HIDE DEF unit, end, block
<1>7. /\ blocks' \in Seq(Blocks) /\ Len(blocks') = Len(blocks) + 1
      /\ DOMAIN blocks' = DOMAIN blocks \cup {Len(blocks) + 1}
      /\ \A k \in DOMAIN blocks : blocks'[k] = blocks[k]
      /\ blocks'[Len(blocks')] = block /\ blocks'[Len(blocks) + 1] = block
  BY <1>1, <1>3, <1>6, Appended DEF block
<1>8. ASSUME NEW k \in DOMAIN blocks
      PROVE  blocks[k].start <= blocks[k].end /\ blocks[k].end <= end
  <2>1. blocks[k].start <= blocks[k].end /\ blocks[k].end <= Graph!Lesser(start, size)
    BY DEF GraphInv, BlocksInv
  <2>4. blocks[k] \in Blocks
    BY <1>1
  <2>2. blocks[k].end \in Nat
    BY <2>4 DEF Blocks
  <2>3. Graph!Lesser(start, size) \in Nat
    BY <1>1 DEF Graph!Lesser
  <2> QED
    BY <1>5, <2>1, <2>2, <2>3
<1>9. \A k \in DOMAIN blocks' : blocks'[k].start <= blocks'[k].end /\ blocks'[k].end <= end
  BY <1>1, <1>5, <1>6, <1>7, <1>8
<1>10. start' \in Nat /\ blocks' # << >>
  BY <1>1, <1>2, <1>4, <1>7
<1>11. BlocksInv'
  BY <1>5, <1>6, <1>7, <1>9, <1>10 DEF BlocksInv, Graph!Lesser
<1>12. PenInv'
  BY <1>4 DEF GraphInv, PenInv, OnLine, Graph!Between, Graph!Distance, Graph!Lesser
<1> QED
  BY <1>11, <1>12

\* Drawing: the lines are laid out, then the pen draws one after the other.
LEMMA PenMoves ==
  ASSUME GraphInv, Graph!PlotStep, ~Graph!NextBlock
  PROVE  PenInv' /\ UNCHANGED <<start, blocks>>
<1>1. lines \in Seq(Lines) /\ plotting \in {"blocks", "lines", "drawn"}
  BY DEF GraphInv, PenInv
<1>2. CASE Graph!BeginPlot
  <2>1. /\ Graph!CanPlot /\ plotting' = "lines" /\ UNCHANGED <<start, blocks, pen>>
        /\ pen = << >>
        /\ lines' = Graph!Axes \o [n \in 1 .. 2 * Len(blocks) |-> Graph!LinesOf((n + 1) \div 2)[2 - (n % 2)]]
    BY <1>2 DEF Graph!BeginPlot, Graph!BlocksDone, GraphInv, PenInv
  <2>2. Graph!Axes \in Seq(Lines)
    <3>1. /\ Graph!LeftMargin \in 0 .. Width - 1 /\ Graph!TopMargin \in 0 .. Height - 1
          /\ Graph!LeftMargin + Graph!PlotWidth \in 0 .. Width - 1
          /\ Graph!TopMargin + Graph!PlotHeight \in 0 .. Height - 1
      BY <2>1, MapsInside
    <3> QED
      BY <3>1 DEF Graph!Axes, Graph!Line, Lines
  <2> DEFINE n2 == 2 * Len(blocks)
             own == [n \in 1 .. n2 |-> Graph!LinesOf((n + 1) \div 2)[2 - (n % 2)]]
  <2>3. Len(blocks) \in Nat /\ DOMAIN blocks = 1 .. Len(blocks)
    BY DEF GraphInv, BlocksInv
  <2>4. ASSUME NEW n \in 1 .. n2
        PROVE  Graph!LinesOf((n + 1) \div 2)[2 - (n % 2)] \in Lines
    <3>1. (n + 1) \div 2 \in DOMAIN blocks /\ 2 - (n % 2) \in {1, 2}
      BY <2>3
    <3> QED
      BY <2>1, <3>1, BlockLinesInside
  <2>5. own \in [1 .. n2 -> Lines] /\ n2 \in Nat
    BY <2>3, <2>4
  <2> HIDE DEF n2
  <2>6. own \in Seq(Lines)
    BY <2>5
  <2> HIDE DEF own
  <2>7. lines' = Graph!Axes \o own
    BY <2>1 DEF own, n2
  <2>8. lines' \in Seq(Lines)
    BY <2>2, <2>6, <2>7
  <2> QED
    BY <2>1, <2>8 DEF PenInv
<1>3. CASE Graph!BeginLine
  <2> DEFINE l == Head(lines)
             p == [x |-> l.x0, y |-> l.y0, dx |-> Graph!Distance(l.x0, l.x1),
                   dy |-> - Graph!Distance(l.y0, l.y1),
                   error |-> Graph!Distance(l.x0, l.x1) - Graph!Distance(l.y0, l.y1)]
  <2>1. /\ plotting = "lines" /\ lines # << >> /\ pen' = << p >>
        /\ UNCHANGED <<start, blocks, lines, plotting>>
    BY <1>3 DEF Graph!BeginLine
  <2>2. l \in Lines
    BY <1>1, <2>1
  <2>3. l.x0 \in Nat /\ l.x1 \in Nat /\ l.y0 \in Nat /\ l.y1 \in Nat
    BY <2>2 DEF Lines
  <2> HIDE DEF l
  <2>6. /\ Graph!Distance(l.x0, l.x0) = 0 /\ Graph!Distance(l.y0, l.y0) = 0
        /\ Graph!Distance(l.x0, l.x1) \in Nat /\ Graph!Distance(l.y0, l.y1) \in Nat
        /\ Graph!Between(l.x0, l.x0, l.x1) /\ Graph!Between(l.y0, l.y0, l.y1)
    BY <2>3 DEF Graph!Distance, Graph!Between, Graph!Lesser
  <2>7. /\ p.x = l.x0 /\ p.y = l.y0 /\ p.dx = Graph!Distance(l.x0, l.x1)
        /\ p.dy = - Graph!Distance(l.y0, l.y1) /\ p.error = p.dx + p.dy
        /\ p \in [x : Int, y : Int, dx : Nat, dy : Int, error : Int]
    BY <2>3, <2>6
  <2> HIDE DEF p
  <2>8. p.error = (1 + Graph!Distance(l.y0, p.y)) * p.dx + (1 + Graph!Distance(l.x0, p.x)) * p.dy
    BY <2>6, <2>7
  <2>4. OnLine(p, l)
    BY <2>6, <2>7, <2>8 DEF OnLine
  <2>5. pen'[1] = p /\ pen' = << pen'[1] >> /\ Head(lines') = l
    BY <2>1 DEF l
  <2> QED
    BY <1>1, <2>1, <2>4, <2>5 DEF PenInv, OnLine, Graph!Distance, Graph!Between, Graph!Lesser
<1>4. CASE Graph!MovePen
  <2> DEFINE p == pen[1]
             l == Head(lines)
             across == 2 * p.error >= p.dy
             along == 2 * p.error <= p.dx
             q == [p EXCEPT !.error = @ + (IF across THEN p.dy ELSE 0) + (IF along THEN p.dx ELSE 0),
                            !.x = @ + (IF ~across THEN 0 ELSE IF l.x0 < l.x1 THEN 1 ELSE -1),
                            !.y = @ + (IF ~along THEN 0 ELSE IF l.y0 < l.y1 THEN 1 ELSE -1)]
  <2>1. /\ plotting = "lines" /\ pen # << >> /\ ~(p.x = l.x1 /\ p.y = l.y1) /\ pen' = << q >>
        /\ UNCHANGED <<start, blocks, lines, plotting>>
    BY <1>4 DEF Graph!MovePen, Graph!AtEnd
  <2>2. lines # << >> /\ OnLine(p, l)
    BY <2>1 DEF GraphInv, PenInv
  <2>3. l \in Lines
    BY <1>1, <2>2
  <2>4. OnLine(q, l)
    BY <2>1, <2>2, <2>3, TurnStaysOnLine
  <2> HIDE DEF q, l
  <2>5. pen'[1] = q /\ pen' = << pen'[1] >> /\ Head(lines') = l
    BY <2>1 DEF l
  <2> QED
    BY <1>1, <2>1, <2>2, <2>4, <2>5 DEF PenInv, OnLine, Graph!Distance, Graph!Between, Graph!Lesser
<1>5. CASE Graph!EndLine
  <2>1. /\ plotting = "lines" /\ pen # << >> /\ pen' = << >> /\ lines' = Tail(lines)
        /\ UNCHANGED <<start, blocks, plotting>>
    BY <1>5 DEF Graph!EndLine, Graph!AtEnd
  <2>2. lines' \in Seq(Lines)
    BY <1>1, <2>1 DEF GraphInv, PenInv
  <2> QED
    BY <2>1, <2>2 DEF PenInv
<1>6. CASE Graph!EndPlot
  BY <1>1, <1>6 DEF Graph!EndPlot, PenInv
<1> QED
  BY <1>2, <1>3, <1>4, <1>5, <1>6 DEF Graph!PlotStep

\* The rest of the program leaves the graph alone.
LEMMA GraphInRun ==
  CarvingInv /\ GraphInv /\ [Next]_vars => GraphInv'
<1> SUFFICES ASSUME CarvingInv, GraphInv, [Next]_vars PROVE GraphInv'
  OBVIOUS
<1>1. size' \in Nat
  BY CarvingInRun DEF CarvingInv, CarvingTypeOK
<1>2. size' = size
  BY DEF Next, Step, OpenMain, PlotEntropy, PlotFails, LogEntropy, AnalyseMain, CarveMain,
    MainCarved, CarveStep, CarveBegin, CarveNothing, CarveInvalid, CarveSignature, CarveRest,
    ProcessMain, Launch, WorkerOpens, WorkerAnalyses, CollectUnread, Collect, QueueEmpty, Close,
    ExtractorWrites, Exited, vars, carvingVars
<1>3. CASE Graph!PlotStep
  <2>1. CASE Graph!NextBlock
    BY <1>1, <1>2, <2>1, BlockCounted DEF GraphInv
  <2>2. CASE ~Graph!NextBlock
    <3>1. PenInv' /\ UNCHANGED <<start, blocks>>
      BY <1>3, <2>2, PenMoves
    <3>2. BlocksInv'
      BY <1>2, <3>1 DEF GraphInv, BlocksInv, Graph!Lesser
    <3> QED
      BY <1>1, <3>1, <3>2 DEF GraphInv
  <2> QED
    BY <2>1, <2>2
<1>4. CASE ~Graph!PlotStep
  <2>1. UNCHANGED graph
    BY <1>4 DEF Next, Step, OpenMain, PlotEntropy, PlotFails, LogEntropy, AnalyseMain, CarveMain,
      MainCarved, ProcessMain, Launch, WorkerOpens, WorkerAnalyses, CollectUnread, Collect,
      QueueEmpty, Close, ExtractorWrites, Exited, vars
  <2> QED
    BY <1>2, <2>1 DEF graph, GraphInv, BlocksInv, PenInv, OnLine, Graph!Distance, Graph!Between, Graph!Lesser
<1> QED
  BY <1>3, <1>4

\* The loop of line compares both coordinates with the end: the pen passes
\* neither, in an image of any size and over blocks of any entropy, and each
\* pixel it sets is in the image.
THEOREM PenKeepsToLine == Spec => []PenStaysOnLine
<1>1. Init => CarvingInv
  BY CarvingStarts DEF Init
<1>2. GraphInv => PenStaysOnLine
  <2> SUFFICES ASSUME GraphInv, pen # << >>
               PROVE  LET l == Head(lines)
                      IN /\ Graph!Between(pen[1].x, l.x0, l.x1) /\ Graph!Between(pen[1].y, l.y0, l.y1)
                         /\ pen[1].x \in 0 .. Width - 1 /\ pen[1].y \in 0 .. Height - 1
    BY DEF PenStaysOnLine, Graph!PenStaysOnLine
  <2> DEFINE l == Head(lines)
  <2>1. lines \in Seq(Lines) /\ lines # << >> /\ OnLine(pen[1], l)
    BY DEF GraphInv, PenInv
  <2>2. l \in Lines
    BY <2>1
  <2> HIDE DEF l
  <2>3. /\ Graph!Between(pen[1].x, l.x0, l.x1) /\ Graph!Between(pen[1].y, l.y0, l.y1)
        /\ pen[1].x \in Int /\ pen[1].y \in Int
    BY <2>1 DEF OnLine
  <2>4. pen[1].x \in 0 .. Width - 1 /\ pen[1].y \in 0 .. Height - 1
    BY <2>2, <2>3, GraphAssumption DEF Lines, Graph!Between, Graph!Lesser, GraphAssumption
  <2> QED
    BY <2>3, <2>4 DEF l
<1> QED
  BY <1>1, <1>2, CarvingInRun, GraphStarts, GraphInRun, PTL DEF Spec

-----------------------------------------------------------------------------
(* Paths, and the files in the directories of a file's extractions.        *)

Paths == Seq(Nat)
FilePaths == {f \in Paths : Len(f) >= 1}

LEMMA PathElements ==
  ASSUME NEW f \in FilePaths
  PROVE  f \in Paths /\ Len(f) \in Nat /\ Len(f) >= 1 /\ \A k \in 1 .. Len(f) : f[k] \in Nat
<1>1. f \in Seq(Nat) /\ Len(f) >= 1
  BY DEF FilePaths, Paths
<1>2. \A k \in 1 .. Len(f) : f[k] \in Nat
  BY <1>1
<1> QED
  BY <1>1, <1>2 DEF Paths

LEMMA PrefixElements ==
  ASSUME NEW p \in Paths, NEW q \in Paths
  PROVE  IsPrefix(p, q) <=> Len(p) <= Len(q) /\ \A k \in 1 .. Len(p) : p[k] = q[k]
<1>1. Len(p) \in Nat /\ Len(q) \in Nat
  BY DEF Paths
<1>2. CASE Len(p) <= Len(q)
  <2>1. /\ \A k \in 1 .. Len(p) : p[k] \in Nat /\ q[k] \in Nat
    BY <1>1, <1>2 DEF Paths
  <2>2. /\ SubSeq(p, 1, Len(p)) \in Seq(Nat) /\ Len(SubSeq(p, 1, Len(p))) = Len(p)
        /\ \A k \in 1 .. Len(p) : SubSeq(p, 1, Len(p))[k] = p[k]
    BY <1>1, <2>1 DEF Paths
  <2>3. /\ SubSeq(q, 1, Len(p)) \in Seq(Nat) /\ Len(SubSeq(q, 1, Len(p))) = Len(p)
        /\ \A k \in 1 .. Len(p) : SubSeq(q, 1, Len(p))[k] = q[k]
    BY <1>1, <1>2, <2>1 DEF Paths
  <2>4. SubSeq(p, 1, Len(p)) = SubSeq(q, 1, Len(p)) <=> \A k \in 1 .. Len(p) : p[k] = q[k]
    BY <2>2, <2>3, SeqEqual
  <2> QED
    BY <1>2, <2>4 DEF IsPrefix
<1>3. CASE ~(Len(p) <= Len(q))
  BY <1>3 DEF IsPrefix
<1> QED
  BY <1>2, <1>3

LEMMA Upto ==
  ASSUME NEW n \in Nat
  PROVE  /\ \A k \in 1 .. n - 1 : k \in 1 .. n /\ k # n
         /\ \A k \in 1 .. n : k \in 1 .. n - 1 \/ k = n
         /\ \A k \in 1 .. n : k \in 1 .. n + 1
         /\ n >= 1 => n \in 1 .. n
OBVIOUS

\* The directory of a file's extractions is called as the file, but for the last name.
LEMMA BaseElements ==
  ASSUME NEW f \in FilePaths
  PROVE  /\ ExtractionBase(f) \in Paths /\ Len(ExtractionBase(f)) = Len(f) /\ Len(f) \in Nat
         /\ f[Len(f)] \in Nat /\ ExtractionBase(f)[Len(f)] = Dotted(f[Len(f)])
         /\ \A k \in 1 .. Len(f) - 1 : ExtractionBase(f)[k] = f[k]
<1> DEFINE n == Len(f)
           d == Dotted(f[n])
           base == [f EXCEPT ![n] = d]
<1>1. n \in Nat /\ n >= 1 /\ f \in Seq(Nat) /\ \A k \in 1 .. n : f[k] \in Nat
  BY DEF FilePaths, Paths
<1>2. ExtractionBase(f) = base
  BY DEF ExtractionBase
<1>3. n \in 1 .. Len(f)
  BY <1>1
<1>4. f[n] \in Nat /\ d \in Nat
  BY <1>1, <1>3 DEF Dotted
<1> HIDE DEF d
<1>5. /\ base \in Seq(Nat) /\ Len(base) = Len(f)
      /\ \A k \in 1 .. Len(f) : base[k] = IF k = n THEN d ELSE f[k]
  BY <1>3, <1>4, ExceptSeq DEF FilePaths, Paths
<1> HIDE DEF base
<1>6. \A k \in 1 .. Len(f) - 1 : k \in 1 .. Len(f) /\ k # n
  BY Upto, <1>1
<1> QED
  BY <1>1, <1>2, <1>3, <1>4, <1>5, <1>6 DEF Paths, d

\* What is in an output directory of f is in a directory beside f, called like f.
LEMMA OutputIsNested ==
  ASSUME NEW f \in FilePaths, NEW o \in Nat, NEW g \in Paths, IsPrefix(OutputDirectory(f, o), g)
  PROVE  Nests(f, g)
<1> DEFINE base == ExtractionBase(f)
<1>1. /\ base \in Paths /\ Len(base) = Len(f) /\ Len(f) \in Nat /\ Len(f) >= 1
      /\ base[Len(f)] = Dotted(f[Len(f)]) /\ \A k \in 1 .. Len(f) - 1 : base[k] = f[k]
  BY BaseElements DEF FilePaths
<1> HIDE DEF base
<1>2. /\ Append(base, o) \in Paths /\ Len(Append(base, o)) = Len(f) + 1
      /\ \A k \in 1 .. Len(f) : Append(base, o)[k] = base[k]
  BY <1>1 DEF Paths
<1>3. Len(f) + 1 <= Len(g) /\ \A k \in 1 .. Len(f) + 1 : Append(base, o)[k] = g[k]
  BY <1>2, PrefixElements DEF OutputDirectory, base
<1>4. Len(g) \in Nat
  BY DEF Paths
<1>5. \A k \in 1 .. Len(f) : g[k] = base[k]
  <2>1. \A k \in 1 .. Len(f) : k \in 1 .. Len(f) + 1
    BY <1>1
  <2> QED
    BY <1>2, <1>3, <2>1
<1>6. Len(f) < Len(g) /\ Len(f) \in 1 .. Len(f) /\ \A k \in 1 .. Len(f) - 1 : k \in 1 .. Len(f)
  BY <1>1, <1>3, <1>4
<1> QED
  BY <1>1, <1>5, <1>6 DEF Nests

\* So is every file an extraction of f brings out.
LEMMA BroughtIsNested ==
  ASSUME NEW f \in FilePaths, NEW p \in Paths, Len(p) >= 2
  PROVE  ExtractionBase(f) \o p \in Paths /\ Nests(f, ExtractionBase(f) \o p)
<1> DEFINE base == ExtractionBase(f)
           g == base \o p
<1>1. /\ base \in Paths /\ Len(base) = Len(f) /\ Len(f) \in Nat /\ Len(f) >= 1
      /\ base[Len(f)] = Dotted(f[Len(f)]) /\ \A k \in 1 .. Len(f) - 1 : base[k] = f[k]
  BY BaseElements DEF FilePaths
<1> HIDE DEF base
<1>2. /\ g \in Paths /\ Len(g) = Len(f) + Len(p) /\ Len(p) \in Nat
      /\ \A k \in 1 .. Len(f) : g[k] = base[k]
  <2>1. /\ g \in Seq(Nat) /\ Len(g) = Len(base) + Len(p) /\ Len(p) \in Nat
        /\ \A k \in 1 .. Len(base) + Len(p) : g[k] = IF k <= Len(base) THEN base[k] ELSE p[k - Len(base)]
    <3>1. base \in Seq(Nat) /\ p \in Seq(Nat)
      BY <1>1 DEF Paths
    <3>2. /\ base \o p \in Seq(Nat) /\ Len(base \o p) = Len(base) + Len(p)
          /\ \A k \in 1 .. Len(base) + Len(p) :
               (base \o p)[k] = IF k <= Len(base) THEN base[k] ELSE p[k - Len(base)]
      BY ONLY <3>1, ConcatProperties
    <3> QED
      BY <3>1, <3>2
  <2> HIDE DEF g
  <2>2. \A k \in 1 .. Len(f) : k \in 1 .. Len(base) + Len(p) /\ k <= Len(base)
    BY <1>1, <2>1
  <2> QED
    BY <1>1, <2>1, <2>2 DEF Paths
<1> HIDE DEF g
<1>3. Len(f) < Len(g) /\ Len(f) \in 1 .. Len(f) /\ \A k \in 1 .. Len(f) - 1 : k \in 1 .. Len(f)
  BY <1>1, <1>2
<1> QED
  BY <1>1, <1>2, <1>3 DEF Nests, g, base

LEMMA NestedIsLonger ==
  ASSUME NEW f \in FilePaths, NEW g \in Paths, Nests(f, g)
  PROVE  g \in FilePaths /\ Len(g) >= 2 /\ Len(g) \in Nat /\ g # f
<1>1. Len(f) \in Nat /\ Len(f) >= 1 /\ Len(f) < Len(g)
  BY PathElements DEF Nests
<1>2. Len(g) \in Nat
  BY DEF Paths
<1>3. Len(g) >= 2 /\ Len(g) >= 1 /\ Len(g) # Len(f)
  BY <1>1, <1>2
<1> QED
  BY <1>2, <1>3 DEF FilePaths

\* Being in the directory of another file's extractions, one after the other; and
\* no file is in those of two files, unless one of these is in the other's.
LEMMA NestsOrder ==
  ASSUME NEW f \in FilePaths, NEW g \in FilePaths, NEW s \in FilePaths
  PROVE  /\ ~Nests(f, f)
         /\ Nests(f, g) /\ Nests(g, s) => Nests(f, s)
         /\ Nests(f, s) /\ Nests(g, s) /\ f # g => Nests(f, g) \/ Nests(g, f)
<1>1. /\ Len(f) \in Nat /\ Len(g) \in Nat /\ Len(s) \in Nat /\ Len(f) >= 1 /\ Len(g) >= 1
      /\ \A k \in 1 .. Len(f) : f[k] \in Nat
      /\ \A k \in 1 .. Len(g) : g[k] \in Nat
  BY PathElements
<1>2. ~Nests(f, f)
  BY <1>1 DEF Nests
<1>3. Nests(f, g) /\ Nests(g, s) => Nests(f, s)
  <2> SUFFICES ASSUME Nests(f, g), Nests(g, s) PROVE Nests(f, s)
    OBVIOUS
  <2>1. /\ Len(f) < Len(g) /\ g[Len(f)] = Dotted(f[Len(f)]) /\ \A k \in 1 .. Len(f) - 1 : f[k] = g[k]
        /\ Len(g) < Len(s) /\ \A k \in 1 .. Len(g) - 1 : g[k] = s[k]
    BY DEF Nests
  <2>2. Len(f) < Len(s) /\ Len(f) \in 1 .. Len(g) - 1 /\ \A k \in 1 .. Len(f) - 1 : k \in 1 .. Len(g) - 1
    BY <1>1, <2>1
  <2> QED
    BY <2>1, <2>2 DEF Nests
<1>4. ASSUME NEW p \in FilePaths, NEW q \in FilePaths, Nests(p, s), Nests(q, s), p # q, Len(p) <= Len(q)
      PROVE  Nests(p, q)
  <2>1. /\ Len(p) \in Nat /\ Len(q) \in Nat /\ Len(p) >= 1 /\ Len(q) >= 1
        /\ \A k \in 1 .. Len(p) : p[k] \in Nat
        /\ \A k \in 1 .. Len(q) : q[k] \in Nat
    BY PathElements
  <2>2. /\ s[Len(p)] = Dotted(p[Len(p)]) /\ \A k \in 1 .. Len(p) - 1 : p[k] = s[k]
        /\ s[Len(q)] = Dotted(q[Len(q)]) /\ \A k \in 1 .. Len(q) - 1 : q[k] = s[k]
    BY <1>4 DEF Nests
  <2>3. CASE Len(p) < Len(q)
    <3>1. Len(p) \in 1 .. Len(q) - 1 /\ \A k \in 1 .. Len(p) - 1 : k \in 1 .. Len(q) - 1
      BY <2>1, <2>3
    <3> QED
      BY <2>2, <2>3, <3>1 DEF Nests
  <2>4. CASE Len(p) = Len(q)
    <3>1. Len(p) \in 1 .. Len(p) /\ Len(q) \in 1 .. Len(q)
      BY <2>1
    <3>2. p[Len(p)] \in Nat /\ q[Len(p)] \in Nat /\ Dotted(p[Len(p)]) = Dotted(q[Len(p)])
      BY <2>1, <2>2, <2>4, <3>1
    <3>3. p[Len(p)] = q[Len(p)]
      BY <3>2 DEF Dotted
    <3>4. \A k \in 1 .. Len(p) : k \in 1 .. Len(p) - 1 \/ k = Len(p)
      BY <2>1
    <3>5. \A k \in 1 .. Len(p) : p[k] = q[k]
      BY <2>2, <2>4, <3>3, <3>4
    <3> QED
      BY <1>4, <2>4, <3>5, SeqEqual DEF FilePaths, Paths
  <2> QED
    BY <1>4, <2>1, <2>3, <2>4
<1>5. Len(f) <= Len(g) \/ Len(g) <= Len(f)
  BY <1>1
<1> QED
  BY <1>2, <1>3, <1>4, <1>5

\* The files of a set, sorted, are a sequence of just these.
LEMMA SortedIsListing ==
  ASSUME NEW F, F \subseteq FilePaths, IsFiniteSet(F), NEW s \in Sorted(F)
  PROVE  /\ s \in Seq(FilePaths) /\ s \in Seq(F) /\ ToSet(s) = F
         /\ \A i, j \in DOMAIN s : i # j => s[i] # s[j]
<1>1. Cardinality(F) \in Nat
  BY FS_CardinalityType
<1>2. s \in [1 .. Cardinality(F) -> F] /\ ToSet(s) = F
  BY DEF Sorted
<1>3. s \in Seq(F)
  BY <1>1, <1>2
<1>4. s \in Seq(FilePaths)
  BY <1>3
<1>5. \A f \in FilePaths : ~Before(f, f)
  BY DEF FilePaths, Paths, Before
<1>6. ASSUME NEW i \in DOMAIN s, NEW j \in DOMAIN s, i < j PROVE s[i] # s[j]
  <2>1. Before(s[i], s[j]) /\ s[i] \in FilePaths
    BY <1>2, <1>6 DEF Sorted
  <2> QED
    BY <1>5, <2>1
<1>7. DOMAIN s \subseteq Nat
  BY <1>1, <1>2
<1>8. \A i, j \in DOMAIN s : i # j => i < j \/ j < i
  BY <1>7
<1> QED
  BY <1>2, <1>3, <1>4, <1>6, <1>8

-----------------------------------------------------------------------------
(* The queue.  Unless an extraction nested its files: no file that was ever *)
(* queued is in the directory of one that waits, so its analysis removes    *)
(* none of them and brings none out again.                                 *)

Early == {"open", "entropy", "analyse", "carve", "process"}

Alone(files, f) == \A s \in files : ~Nests(f, s)
Flat(files) == \A g, h \in files : ~Nests(g, h)
ToList(files, a) == {g \in files : \E o \in a.recurse : IsPrefix(OutputDirectory(a.path, o), g)}

Analyses == [path : FilePaths, found : BOOLEAN, recurse : SUBSET Nat]
IsAnalysisOf(a, f) == a \in Analyses /\ a.path = f /\ (a.recurse # {} => a.found)

LaunchedFiles == [path : FilePaths, at : {"open", "failed", "analyse", "done"}, carved : BOOLEAN,
                analysis : Analyses]

QueueTypeOK ==
  /\ stage \in Early \cup {"queue", "close", "exited"}
  /\ disk \subseteq Paths /\ IsFiniteSet(disk)
  /\ pending \in Seq(FilePaths) /\ counted \in Seq(FilePaths) /\ seen \subseteq FilePaths
  /\ batch \in Seq(LaunchedFiles)
  /\ \A i \in DOMAIN batch : IsAnalysisOf(batch[i].analysis, batch[i].path)
  /\ IsAnalysisOf(current, MainFile)

\* No file waits twice.
Distinct ==
  /\ \A i, j \in DOMAIN pending : i # j => pending[i] # pending[j]
  /\ \A i, j \in DOMAIN batch : i # j => batch[i].path # batch[j].path
  /\ \A i \in DOMAIN pending, j \in DOMAIN batch : pending[i] # batch[j].path

\* What waits is there until its analysis, and of all that was queued nothing is in
\* its directory; what is to be listed is not nested.
Kept ==
  /\ \A i \in DOMAIN pending : pending[i] \in disk /\ Alone(seen, pending[i])
  /\ \A i \in DOMAIN batch :
       /\ Alone(seen, batch[i].path)
       /\ batch[i].at \in {"open", "analyse"} => batch[i].path \in disk
       /\ batch[i].at = "done" => Flat(ToList(disk, batch[i].analysis))
  /\ stage \in {"carve", "process"} => Flat(ToList(disk, current))
  /\ remade = {}

Uncounted(paths, records, f) == f \in paths /\ Len(f) >= 2 /\ f \notin ToSet(records)

\* What waits was seen and is not counted yet.
Once ==
  /\ IsInjective(counted) /\ ToSet(counted) \subseteq seen \cup {MainFile}
  /\ \A i \in DOMAIN pending : Uncounted(seen, counted, pending[i])
  /\ \A i \in DOMAIN batch : Uncounted(seen, counted, batch[i].path)

Idle ==
  /\ stage # "queue" => pending = << >> /\ batch = << >>
  /\ stage \in Early => counted = << >> /\ seen \subseteq {MainFile}

QueueInv == QueueTypeOK /\ Distinct /\ (nested \/ Kept) /\ Once /\ Idle

LEMMA MainIsPath == MainFile \in FilePaths /\ MainFile \in Paths /\ Len(MainFile) = 1
BY DEF MainFile, FilePaths, Paths

\* An analysis of f removes and brings out only files in the directory of f's
\* extractions; what is to be listed of it is what it brought out.
LEMMA AnalysisIsContained ==
  ASSUME disk \subseteq Paths, IsFiniteSet(disk),
         NEW f \in FilePaths, NEW found \in BOOLEAN, NEW o, o \in Outcomes(f, found)
  PROVE  /\ o.disk \subseteq Paths /\ IsFiniteSet(o.disk)
         /\ IsAnalysisOf(o.analysis, f)
         /\ \A g \in o.made : g \in Paths /\ Nests(f, g)
         /\ ToList(o.disk, o.analysis) \subseteq o.made
         /\ o.disk \subseteq disk \cup o.made
         /\ \A g \in disk : ~Nests(f, g) => g \in o.disk
<1>1. CASE o = Scanned(f, found)
  BY <1>1 DEF Scanned, Analysis, Analyses, IsAnalysisOf, ToList
<1>2. CASE o # Scanned(f, found)
  <2>1. PICK e \in Extractions : o = Extracted(f, e)
    BY <1>2 DEF Outcomes
  <2>2. /\ e.made \subseteq Paths /\ IsFiniteSet(e.made) /\ e.failed \subseteq Nat
        /\ \A p \in e.made : Len(p) >= 2
    BY CommandAssumption DEF CommandAssumption, Paths
  <2> DEFINE made == {ExtractionBase(f) \o p : p \in e.made}
             succeeded == {Head(p) : p \in e.made}
             gone == UNION {Under(f, k) : k \in succeeded \cup e.failed}
  <2>3. /\ o.disk = (disk \ gone) \cup made /\ o.made = made
        /\ o.analysis = Analysis(f, TRUE, succeeded \cap e.followed)
    BY <2>1 DEF Extracted
  <2>4. succeeded \subseteq Nat
    <3>1. ASSUME NEW p \in e.made PROVE Head(p) \in Nat
      <4>1. p \in Seq(Nat) /\ Len(p) >= 2
        BY <2>2 DEF Paths
      <4> QED
        BY <4>1
    <3> QED
      BY <3>1
  <2>5. \A g \in made : g \in Paths /\ Nests(f, g)
    BY <2>2, BroughtIsNested
  <2>6. IsFiniteSet(made)
    <3> DEFINE make == [p \in e.made |-> ExtractionBase(f) \o p]
    <3>1. make \in Surjection(e.made, made)
      BY DEF Surjection
    <3> QED
      BY <2>2, <3>1, FS_Surjection
  <2>7. \A g \in gone : g \in disk /\ Nests(f, g)
    <3>1. ASSUME NEW k \in succeeded \cup e.failed, NEW g \in Under(f, k) PROVE g \in disk /\ Nests(f, g)
      <4>1. k \in Nat /\ g \in Paths /\ g \in disk /\ IsPrefix(OutputDirectory(f, k), g)
        BY <2>2, <2>4, <3>1 DEF Under
      <4> QED
        BY <4>1, OutputIsNested
    <3> QED
      BY <3>1
  <2>8. ASSUME NEW g \in ToList(o.disk, o.analysis) PROVE g \in made
    <3>1. PICK k \in succeeded : IsPrefix(OutputDirectory(f, k), g)
      BY <2>3, <2>8 DEF ToList, Analysis
    <3>2. g \in disk => g \in gone
      BY <3>1 DEF Under
    <3> QED
      BY <2>3, <2>8, <3>2 DEF ToList
  <2> HIDE DEF made, gone, succeeded
  <2>9. IsAnalysisOf(o.analysis, f)
    <3>1. succeeded \cap e.followed \in SUBSET Nat
      BY <2>4
    <3> QED
      BY <2>3, <3>1 DEF Analysis, Analyses, IsAnalysisOf
  <2>10. IsFiniteSet(disk \ gone)
    BY FS_Subset
  <2>11. o.disk \subseteq Paths /\ IsFiniteSet(o.disk)
    <3>1. IsFiniteSet((disk \ gone) \cup made)
      BY <2>6, <2>10, FS_Union
    <3>2. (disk \ gone) \cup made \subseteq Paths
      BY <2>5
    <3> QED
      BY <2>3, <3>1, <3>2
  <2> QED
    BY <2>3, <2>5, <2>7, <2>8, <2>9, <2>11
<1> QED
  BY <1>1, <1>2

\* What process_result queues: files that were never seen before, each from the
\* directory of the analysed file.
LEMMA ProcessingQueues ==
  ASSUME disk \subseteq Paths, IsFiniteSet(disk), NEW a, NEW f \in FilePaths, IsAnalysisOf(a, f),
         ProcessResult(a)
  PROVE  \E files \in Seq(FilePaths) :
           /\ pending' = pending \o files /\ seen' = seen \cup ToSet(files)
           /\ counted' = Append(counted, f)
           /\ \A i, j \in DOMAIN files : i # j => files[i] # files[j]
           /\ \A i \in DOMAIN files : /\ files[i] \in ToList(disk, a) /\ files[i] \notin seen
                                      /\ files[i] \in disk /\ Nests(f, files[i])
           /\ \A p \in listed' \ listed : p \in disk /\ Nests(f, p) /\ p \in seen \cup ToSet(files)
<1> DEFINE brought == IF options.matryoshka THEN ExtractedFiles(a) ELSE {}
           fresh == IF a.found THEN brought \ seen ELSE {}
<1>1. /\ counted' = Append(counted, a.path) /\ seen' = seen \cup fresh
      /\ listed' = listed \cup brought
      /\ \E files \in Sorted(fresh) : pending' = pending \o files
  BY DEF ProcessResult
<1>2. /\ brought \subseteq {p \in ToList(disk, a) : p \in disk /\ Nests(f, p)}
      /\ brought # {} => a.recurse # {}
  <2>1. a.recurse \subseteq Nat /\ a.path = f
    BY DEF IsAnalysisOf, Analyses
  <2>2. ASSUME NEW k \in a.recurse, NEW p \in Under(f, k)
        PROVE  p \in ToList(disk, a) /\ p \in disk /\ Nests(f, p)
    <3>1. k \in Nat /\ p \in disk /\ p \in Paths /\ IsPrefix(OutputDirectory(f, k), p)
      BY <2>1, <2>2 DEF Under
    <3>2. Nests(f, p)
      BY <3>1, OutputIsNested
    <3> QED
      BY <2>1, <2>2, <3>1, <3>2 DEF ToList
  <2> QED
    BY <2>1, <2>2 DEF ExtractedFiles
<1>3. brought # {} => fresh = brought \ seen
  BY <1>2 DEF IsAnalysisOf
<1>4. /\ fresh \subseteq {p \in ToList(disk, a) : p \in disk /\ Nests(f, p)}
      /\ fresh \cap seen = {}
  BY <1>2
<1>5. fresh \subseteq FilePaths /\ IsFiniteSet(fresh)
  <2>1. fresh \subseteq disk /\ \A p \in fresh : p \in Paths /\ Nests(f, p)
    BY <1>4
  <2> HIDE DEF fresh, brought
  <2>2. \A p \in fresh : p \in FilePaths
    BY <2>1, NestedIsLonger
  <2> QED
    BY <2>1, <2>2, FS_Subset
<1> HIDE DEF fresh, brought
<1>6. PICK files \in Sorted(fresh) : pending' = pending \o files
  BY <1>1
<1>7. /\ files \in Seq(FilePaths) /\ ToSet(files) = fresh
      /\ \A i, j \in DOMAIN files : i # j => files[i] # files[j]
  BY <1>5, SortedIsListing
<1>8. \A i \in DOMAIN files : files[i] \in fresh
  BY <1>7 DEF ToSet
<1>9. \A p \in listed' \ listed : p \in brought
  BY <1>1
<1> QED
  BY <1>1, <1>2, <1>3, <1>4, <1>6, <1>7, <1>8, <1>9 DEF IsAnalysisOf

\* What two sequences have at the places of their concatenation.
LEMMA Concatenated ==
  ASSUME NEW S, NEW s \in Seq(S), NEW t \in Seq(S)
  PROVE  /\ s \o t \in Seq(S)
         /\ \A i \in DOMAIN (s \o t) : \/ i \in DOMAIN s /\ (s \o t)[i] = s[i]
                                       \/ /\ i - Len(s) \in DOMAIN t /\ i \notin DOMAIN s
                                          /\ (s \o t)[i] = t[i - Len(s)]
         /\ \A i \in DOMAIN s : i \in DOMAIN (s \o t) /\ (s \o t)[i] = s[i]
         /\ \A i \in DOMAIN t : Len(s) + i \in DOMAIN (s \o t) /\ (s \o t)[Len(s) + i] = t[i]
<1>1. /\ s \o t \in Seq(S) /\ Len(s \o t) = Len(s) + Len(t) /\ Len(s) \in Nat /\ Len(t) \in Nat
      /\ DOMAIN s = 1 .. Len(s) /\ DOMAIN t = 1 .. Len(t) /\ DOMAIN (s \o t) = 1 .. Len(s) + Len(t)
      /\ \A i \in 1 .. Len(s) + Len(t) : (s \o t)[i] = IF i <= Len(s) THEN s[i] ELSE t[i - Len(s)]
  BY ConcatProperties
<1> QED
  BY <1>1

\* Processing the analysis of a file f keeps what waits distinct and uncounted; and,
\* if f's extractions nested nothing and f is beside what waits, alone and there.
LEMMA ProcessingKeepsQueue ==
  ASSUME QueueInv, disk' = disk, NEW a, NEW f \in FilePaths, IsAnalysisOf(a, f), ProcessResult(a),
         f \in seen \cup {MainFile}, f \notin ToSet(counted),
         NEW k \in Nat,
         batch' \in Seq(LaunchedFiles),
         \A i \in DOMAIN batch' : i + k \in DOMAIN batch /\ batch'[i] = batch[i + k],
         \A i \in DOMAIN pending : f # pending[i],
         \A i \in DOMAIN batch' : f # batch'[i].path
  PROVE  /\ Distinct' /\ Once'
         /\ pending' \in Seq(FilePaths) /\ counted' \in Seq(FilePaths) /\ seen' \subseteq FilePaths
         /\ /\ Kept /\ Alone(seen, f) /\ Flat(ToList(disk, a))
            /\ \A i \in DOMAIN pending : ~Nests(pending[i], f) /\ ~Nests(f, pending[i])
            /\ \A i \in DOMAIN batch' : ~Nests(batch'[i].path, f) /\ ~Nests(f, batch'[i].path)
            => /\ \A i \in DOMAIN pending' : pending'[i] \in disk /\ Alone(seen', pending'[i])
               /\ \A i \in DOMAIN batch' : Alone(seen', batch'[i].path)
<1>1. /\ disk \subseteq Paths /\ IsFiniteSet(disk) /\ pending \in Seq(FilePaths)
      /\ counted \in Seq(FilePaths) /\ seen \subseteq FilePaths /\ batch \in Seq(LaunchedFiles)
  BY DEF QueueInv, QueueTypeOK
<1>2. PICK files \in Seq(FilePaths) :
        /\ pending' = pending \o files /\ seen' = seen \cup ToSet(files)
        /\ counted' = Append(counted, f)
        /\ \A i, j \in DOMAIN files : i # j => files[i] # files[j]
        /\ \A i \in DOMAIN files : /\ files[i] \in ToList(disk, a) /\ files[i] \notin seen
                                   /\ files[i] \in disk /\ Nests(f, files[i])
  BY <1>1, ProcessingQueues
<1>3. /\ pending' \in Seq(FilePaths)
      /\ \A i \in DOMAIN pending' : \/ i \in DOMAIN pending /\ pending'[i] = pending[i]
                                    \/ /\ i - Len(pending) \in DOMAIN files /\ i \notin DOMAIN pending
                                       /\ pending'[i] = files[i - Len(pending)]
  BY <1>1, <1>2, Concatenated
<1>4. ASSUME NEW i \in DOMAIN files
      PROVE  /\ files[i] \in FilePaths /\ Len(files[i]) >= 2 /\ Len(files[i]) \in Nat /\ files[i] # f
             /\ files[i] \in ToSet(files)
  <2>1. files[i] \in Paths /\ Nests(f, files[i]) /\ files[i] \in ToSet(files)
    BY <1>1, <1>2 DEF ToSet
  <2> QED
    BY <2>1, NestedIsLonger
<1>5. Len(pending) \in Nat
  BY <1>1
<1>6. ASSUME NEW i \in DOMAIN batch' PROVE batch'[i].path \in FilePaths
  <2>1. batch'[i] \in LaunchedFiles
    OBVIOUS
  <2> QED
    BY <2>1 DEF LaunchedFiles
<1>7. \A i \in DOMAIN pending : pending[i] \in FilePaths
  BY <1>1
<1>8. /\ \A i \in DOMAIN pending : pending[i] \in seen
      /\ \A i \in DOMAIN batch' : batch'[i].path \in seen
  BY DEF QueueInv, Once, Uncounted
<1>9. Distinct'
  <2>1. ASSUME NEW i \in DOMAIN pending', NEW j \in DOMAIN pending', i # j
        PROVE  pending'[i] # pending'[j]
    <3>1. CASE i \in DOMAIN pending /\ j \in DOMAIN pending
      BY <1>3, <2>1, <3>1 DEF QueueInv, Distinct
    <3>2. CASE i \in DOMAIN pending /\ j \notin DOMAIN pending
      BY <1>2, <1>3, <1>8, <3>2
    <3>3. CASE i \notin DOMAIN pending /\ j \in DOMAIN pending
      BY <1>2, <1>3, <1>8, <3>3
    <3>4. CASE i \notin DOMAIN pending /\ j \notin DOMAIN pending
      <4>1. i \in Nat /\ j \in Nat
        BY <1>3
      <4>2. i - Len(pending) # j - Len(pending)
        BY <1>5, <2>1, <4>1
      <4> QED
        BY <1>2, <1>3, <3>4, <4>2
    <3> QED
      BY <3>1, <3>2, <3>3, <3>4
  <2>2. ASSUME NEW i \in DOMAIN batch', NEW j \in DOMAIN batch', i # j
        PROVE  batch'[i].path # batch'[j].path
    <3>1. i \in Nat /\ j \in Nat
      OBVIOUS
    <3>2. i + k # j + k
      BY <2>2, <3>1
    <3> QED
      BY <3>2 DEF QueueInv, Distinct
  <2>3. ASSUME NEW i \in DOMAIN pending', NEW j \in DOMAIN batch'
        PROVE  pending'[i] # batch'[j].path
    <3>1. CASE i \in DOMAIN pending
      BY <1>3, <3>1 DEF QueueInv, Distinct
    <3>2. CASE i \notin DOMAIN pending
      BY <1>2, <1>3, <1>8, <3>2
    <3> QED
      BY <3>1, <3>2
  <2> QED
    BY <2>1, <2>2, <2>3 DEF Distinct
<1>10. /\ counted' \in Seq(FilePaths) /\ ToSet(counted') = ToSet(counted) \cup {f}
       /\ IsInjective(counted')
  <2>1. /\ counted' \in Seq(FilePaths) /\ DOMAIN counted' = DOMAIN counted \cup {Len(counted) + 1}
        /\ \A i \in DOMAIN counted : counted'[i] = counted[i]
        /\ counted'[Len(counted) + 1] = f
    BY <1>1, <1>2, Appended
  <2>2. IsInjective(counted) /\ \A i \in DOMAIN counted : counted[i] # f
    BY DEF QueueInv, Once, ToSet
  <2> QED
    BY <2>1, <2>2 DEF ToSet, IsInjective
<1>11. seen' \subseteq FilePaths /\ seen' = seen \cup ToSet(files)
  BY <1>1, <1>2 DEF ToSet
<1>12. Once'
  <2>1. ToSet(counted') \subseteq seen' \cup {MainFile}
    BY <1>10, <1>11 DEF QueueInv, Once
  <2>2. ASSUME NEW q, f # q, Uncounted(seen, counted, q)
        PROVE  Uncounted(seen', counted', q)
    BY <2>2, <1>10, <1>11 DEF Uncounted
  <2>3. ASSUME NEW i \in DOMAIN files PROVE Uncounted(seen', counted', files[i])
    <3>1. files[i] # f /\ files[i] # MainFile /\ Len(files[i]) >= 2
      <4>1. Len(files[i]) # 1
        <5>1. \A m \in Nat : m >= 2 => m # 1
          OBVIOUS
        <5> QED
          BY ONLY <1>4, <5>1, i \in DOMAIN files
      <4> QED
        BY <1>4, <4>1, MainIsPath
    <3>2. files[i] \notin ToSet(counted)
      BY <1>2, <3>1 DEF QueueInv, Once
    <3> QED
      BY <1>4, <1>10, <1>11, <3>1, <3>2 DEF Uncounted
  <2>4. \A i \in DOMAIN pending' : Uncounted(seen', counted', pending'[i])
    BY <1>3, <2>2, <2>3 DEF QueueInv, Once
  <2>5. \A i \in DOMAIN batch' : Uncounted(seen', counted', batch'[i].path)
    BY <2>2 DEF QueueInv, Once
  <2> QED
    BY <1>10, <2>1, <2>4, <2>5 DEF Once
<1>13. ASSUME Kept, Alone(seen, f), Flat(ToList(disk, a)),
              \A i \in DOMAIN pending : ~Nests(pending[i], f) /\ ~Nests(f, pending[i]),
              \A i \in DOMAIN batch' : ~Nests(batch'[i].path, f) /\ ~Nests(f, batch'[i].path)
       PROVE  /\ \A i \in DOMAIN pending' : pending'[i] \in disk /\ Alone(seen', pending'[i])
              /\ \A i \in DOMAIN batch' : Alone(seen', batch'[i].path)
  <2>1. ASSUME NEW s \in ToSet(files) PROVE s \in FilePaths /\ Nests(f, s) /\ s \in ToList(disk, a)
    BY <1>2, <1>4 DEF ToSet
  <2>2. ASSUME NEW w \in FilePaths, w # f, Alone(seen, w), ~Nests(w, f), ~Nests(f, w)
        PROVE  Alone(seen', w)
    <3>1. ASSUME NEW s \in ToSet(files), Nests(w, s) PROVE FALSE
      BY <2>1, <2>2, <3>1, NestsOrder
    <3> QED
      BY <1>11, <2>2, <3>1 DEF Alone
  <2>3. ASSUME NEW i \in DOMAIN files PROVE files[i] \in disk /\ Alone(seen', files[i])
    <3>1. files[i] \in FilePaths /\ Nests(f, files[i]) /\ files[i] \in ToList(disk, a) /\ files[i] \in disk
      BY <1>2, <1>4
    <3>2. ASSUME NEW s \in seen, Nests(files[i], s) PROVE FALSE
      <4>1. s \in FilePaths
        BY <1>1
      <4>2. Nests(f, s)
        BY <3>1, <3>2, <4>1, NestsOrder
      <4> QED
        BY <1>13, <4>2 DEF Alone
    <3>3. ASSUME NEW s \in ToSet(files), Nests(files[i], s) PROVE FALSE
      BY <1>13, <2>1, <3>1, <3>3 DEF Flat
    <3> QED
      BY <1>11, <3>1, <3>2, <3>3 DEF Alone
  <2>4. \A i \in DOMAIN pending : pending[i] \in disk /\ Alone(seen', pending[i])
    BY <1>7, <1>13, <2>2 DEF Kept
  <2>5. \A i \in DOMAIN batch' : Alone(seen', batch'[i].path)
    BY <1>6, <1>13, <2>2 DEF Kept
  <2> QED
    BY <1>3, <2>3, <2>4, <2>5
<1> QED
  BY <1>3, <1>9, <1>10, <1>11, <1>12, <1>13

\* main goes on, or the program ends, with nothing in the queue.
LEMMA StageMoves ==
  ASSUME QueueInv, UNCHANGED <<tree, queue, current, counted>>,
         stage' \in Early \cup {"queue", "close", "exited"},
         stage' # "queue" => stage # "queue" \/ (pending = << >> /\ batch = << >>),
         stage' \in Early => stage \in Early,
         stage' \in {"carve", "process"} => stage \in {"carve", "process"}
  PROVE  QueueInv'
<1>1. QueueTypeOK'
  BY DEF QueueInv, QueueTypeOK, queue, tree
<1>2. Distinct'
  BY DEF QueueInv, Distinct, queue
<1>3. (nested \/ Kept)'
  <2>1. nested' = nested
    BY DEF tree
  <2>2. Kept => Kept'
    BY DEF Kept, queue, tree
  <2> QED
    BY <2>1, <2>2 DEF QueueInv
<1>4. Once'
  BY DEF QueueInv, Once, queue
<1>5. Idle'
  BY DEF QueueInv, Idle, queue
<1> QED
  BY <1>1, <1>2, <1>3, <1>4, <1>5 DEF QueueInv

LEMMA LogEntropyKeepsQueue ==
  ASSUME QueueInv, LogEntropy
  PROVE  QueueInv'
<1>1. /\ stage = "entropy" /\ stage' = "close" /\ counted' = << MainFile >>
      /\ UNCHANGED <<disk, nested, remade, pending, seen, batch, current>>
  BY DEF LogEntropy, queue, tree
<1>2. pending = << >> /\ batch = << >>
  BY <1>1 DEF QueueInv, Idle
<1>3. QueueTypeOK'
  BY <1>1, MainIsPath DEF QueueInv, QueueTypeOK
<1>4. Distinct' /\ Idle' /\ (Kept => Kept')
  BY <1>1, <1>2 DEF Distinct, Kept, Idle, Early
<1>5. Once'
  BY <1>1, <1>2 DEF Once, IsInjective, ToSet
<1>6. (nested \/ Kept)'
  BY <1>1, <1>4 DEF QueueInv
<1> QED
  BY <1>3, <1>4, <1>5, <1>6 DEF QueueInv

\* What an analysis means for the history of nested files.
LEMMA NestingIsRemembered ==
  ASSUME NEW o, LeavesFiles(o)
  PROVE  /\ disk' = o.disk /\ remade' = remade \cup (o.made \cap seen)
         /\ ~nested' => ~nested /\ Flat(o.made)
<1>1. nested' = (nested \/ \E g, h \in o.made : Nests(g, h))
  BY DEF LeavesFiles
<1>2. ~nested' => ~nested /\ ~(\E g, h \in o.made : Nests(g, h))
  BY <1>1
<1> QED
  BY <1>2 DEF LeavesFiles, Flat

LEMMA AnalyseMainKeepsQueue ==
  ASSUME QueueInv, AnalyseMain
  PROVE  QueueInv'
<1>1. /\ stage = "analyse" /\ stage' \in {"carve", "process"}
      /\ UNCHANGED <<counted, pending, seen, batch>>
  BY DEF AnalyseMain, queue
<1>2. PICK o : o \in Outcomes(MainFile, map # << >>) /\ current' = o.analysis /\ LeavesFiles(o)
  BY DEF AnalyseMain
<1>3. /\ o.disk \subseteq Paths /\ IsFiniteSet(o.disk) /\ IsAnalysisOf(o.analysis, MainFile)
      /\ ToList(o.disk, o.analysis) \subseteq o.made /\ \A g \in o.made : Nests(MainFile, g)
  <2>1. disk \subseteq Paths /\ IsFiniteSet(disk) /\ (map # << >>) \in BOOLEAN
    BY DEF QueueInv, QueueTypeOK
  <2> QED
    BY <1>2, <2>1, MainIsPath, AnalysisIsContained
<1>4. pending = << >> /\ batch = << >> /\ counted = << >> /\ seen \subseteq {MainFile}
  BY <1>1 DEF QueueInv, Idle, Early
<1>5. /\ disk' = o.disk /\ remade' = remade \cup (o.made \cap seen)
      /\ ~nested' => ~nested /\ Flat(o.made)
  BY <1>2, NestingIsRemembered
<1>6. QueueTypeOK'
  BY <1>1, <1>2, <1>3, <1>4, <1>5 DEF QueueInv, QueueTypeOK, Early
<1>7. Distinct' /\ Idle' /\ Once'
  BY <1>1, <1>4 DEF QueueInv, Distinct, Idle, Once, Early
<1>8. (nested \/ Kept)'
  <2> SUFFICES ASSUME ~nested' PROVE Kept'
    OBVIOUS
  <2>1. remade = {} /\ Flat(o.made)
    BY <1>5 DEF QueueInv, Kept
  <2>2. o.made \cap seen = {}
    BY <1>3, <1>4, MainIsPath, NestsOrder
  <2>3. remade' = {} /\ Flat(ToList(disk', current'))
    BY <1>2, <1>3, <1>5, <2>1, <2>2 DEF Flat
  <2> QED
    BY <1>1, <1>4, <2>3 DEF Kept
<1> QED
  BY <1>6, <1>7, <1>8 DEF QueueInv

LEMMA ProcessMainKeepsQueue ==
  ASSUME QueueInv, ProcessMain
  PROVE  QueueInv'
<1>1. /\ stage = "process" /\ stage' = "queue" /\ ProcessResult(current)
      /\ UNCHANGED <<disk, nested, remade, batch, current>>
  BY DEF ProcessMain, tree
<1>2. pending = << >> /\ batch = << >> /\ counted = << >> /\ seen \subseteq {MainFile}
  BY <1>1 DEF QueueInv, Idle, Early
<1>3. IsAnalysisOf(current, MainFile) /\ MainFile \notin ToSet(counted) /\ Alone(seen, MainFile)
  <2>1. Alone(seen, MainFile)
    BY <1>2, MainIsPath, NestsOrder DEF Alone
  <2> QED
    BY <1>2, <2>1 DEF QueueInv, QueueTypeOK, ToSet
<1>4. batch' = << >> /\ batch' \in Seq(LaunchedFiles) /\ DOMAIN batch' = {}
  BY <1>1, <1>2
<1>5. /\ Distinct' /\ Once'
      /\ pending' \in Seq(FilePaths) /\ counted' \in Seq(FilePaths) /\ seen' \subseteq FilePaths
      /\ Kept /\ Flat(ToList(disk, current)) =>
           \A i \in DOMAIN pending' : pending'[i] \in disk /\ Alone(seen', pending'[i])
  <2>1. /\ \A i \in DOMAIN batch' : i + 0 \in DOMAIN batch /\ batch'[i] = batch[i + 0]
        /\ \A i \in DOMAIN batch' : MainFile # batch'[i].path
        /\ \A i \in DOMAIN pending : MainFile # pending[i]
        /\ \A i \in DOMAIN pending : ~Nests(pending[i], MainFile) /\ ~Nests(MainFile, pending[i])
        /\ \A i \in DOMAIN batch' : ~Nests(batch'[i].path, MainFile) /\ ~Nests(MainFile, batch'[i].path)
    BY <1>2, <1>4
  <2>2. MainFile \in seen \cup {MainFile} /\ disk' = disk /\ 0 \in Nat
    BY <1>1
  <2>3. /\ Distinct' /\ Once'
        /\ pending' \in Seq(FilePaths) /\ counted' \in Seq(FilePaths) /\ seen' \subseteq FilePaths
        /\ /\ Kept /\ Alone(seen, MainFile) /\ Flat(ToList(disk, current))
           /\ \A i \in DOMAIN pending : ~Nests(pending[i], MainFile) /\ ~Nests(MainFile, pending[i])
           /\ \A i \in DOMAIN batch' : ~Nests(batch'[i].path, MainFile) /\ ~Nests(MainFile, batch'[i].path)
           => \A i \in DOMAIN pending' : pending'[i] \in disk /\ Alone(seen', pending'[i])
    BY <1>1, <1>3, <1>4, <2>1, <2>2, MainIsPath, ProcessingKeepsQueue
  <2> QED
    BY <1>3, <2>1, <2>3
<1>6. QueueTypeOK'
  BY <1>1, <1>4, <1>5 DEF QueueInv, QueueTypeOK
<1>7. Idle'
  BY <1>1 DEF Idle, Early
<1>8. (nested \/ Kept)'
  <2> SUFFICES ASSUME ~nested' PROVE Kept'
    OBVIOUS
  <2>1. Kept
    BY <1>1 DEF QueueInv
  <2>2. Flat(ToList(disk, current)) /\ remade = {}
    BY <1>1, <2>1 DEF Kept
  <2> QED
    BY <1>1, <1>4, <1>5, <2>1, <2>2 DEF Kept
<1> QED
  BY <1>5, <1>6, <1>7, <1>8 DEF QueueInv

LEMMA Rested ==
  ASSUME NEW S, NEW s \in Seq(S), NEW n \in 0 .. Len(s)
  PROVE  /\ SubSeq(s, n + 1, Len(s)) \in Seq(S)
         /\ DOMAIN SubSeq(s, n + 1, Len(s)) = 1 .. Len(s) - n
         /\ \A i \in DOMAIN SubSeq(s, n + 1, Len(s)) :
              /\ n + i \in DOMAIN s /\ i \in Nat /\ i > 0
              /\ SubSeq(s, n + 1, Len(s))[i] = s[n + i]
<1>1. \A i \in n + 1 .. Len(s) : s[i] \in S
  OBVIOUS
<1>2. Len(s) \in Nat /\ n \in Nat /\ n <= Len(s) /\ DOMAIN s = 1 .. Len(s)
  OBVIOUS
<1>3. /\ SubSeq(s, n + 1, Len(s)) \in Seq(S) /\ DOMAIN SubSeq(s, n + 1, Len(s)) = 1 .. Len(s) - n
      /\ \A i \in 1 .. Len(s) - n : SubSeq(s, n + 1, Len(s))[i] = s[n + i]
  <2> DEFINE t == SubSeq(s, n + 1, Len(s))
  <2>1. /\ t \in Seq(S) /\ Len(t) = IF n + 1 <= Len(s) THEN Len(s) - (n + 1) + 1 ELSE 0
        /\ \A i \in 1 .. Len(s) - (n + 1) + 1 : t[i] = s[n + 1 + i - 1]
    BY <1>1, <1>2, SubSeqProperties
  <2> HIDE DEF t
  <2>2. ASSUME NEW k \in Int, NEW m \in Int, m <= k
        PROVE  /\ (IF m + 1 <= k THEN k - (m + 1) + 1 ELSE 0) = k - m
               /\ k - (m + 1) + 1 = k - m
    BY <2>2
  <2>3. Len(t) = Len(s) - n /\ Len(s) - (n + 1) + 1 = Len(s) - n
    <3>1. Len(s) \in Int /\ n \in Int /\ n <= Len(s)
      BY <1>2
    <3>2. Len(t) = (IF n + 1 <= Len(s) THEN Len(s) - (n + 1) + 1 ELSE 0)
      BY <2>1
    <3> QED
      BY ONLY <2>2, <3>1, <3>2
  <2>4. DOMAIN t = 1 .. Len(t)
    BY <2>1
  <2>5. ASSUME NEW i \in 1 .. Len(s) - n PROVE t[i] = s[n + i]
    <3>1. t[i] = s[n + 1 + i - 1]
      BY <2>1, <2>3
    <3>2. \A k, m \in Int : k + 1 + m - 1 = k + m
      OBVIOUS
    <3>3. i \in Int /\ n \in Int
      BY <1>2
    <3>4. n + 1 + i - 1 = n + i
      BY <3>2, <3>3
    <3> QED
      BY <3>1, <3>4
  <2>6. t \in Seq(S) /\ DOMAIN t = 1 .. Len(s) - n
    BY <2>1, <2>3, <2>4
  <2> QED
    BY <2>5, <2>6 DEF t
<1>4. \A i \in 1 .. Len(s) - n : n + i \in DOMAIN s /\ s[n + i] \in S
  BY <1>2
<1> QED
  BY <1>2, <1>3, <1>4

LEMMA LaunchKeepsQueue ==
  ASSUME QueueInv, Launch
  PROVE  QueueInv'
<1> DEFINE n == Smaller(Workers, Len(pending))
<1>1. /\ pending \in Seq(FilePaths) /\ stage = "queue" /\ batch = << >>
      /\ batch' = [i \in 1 .. n |-> [path |-> pending[i], at |-> "open", carved |-> TRUE,
                                     analysis |-> Analysis(pending[i], FALSE, {})]]
      /\ pending' = SubSeq(pending, n + 1, Len(pending))
      /\ UNCHANGED <<stage, disk, nested, remade, seen, counted, current>>
  BY DEF Launch, QueueInv, QueueTypeOK, tree
<1>2. n \in 0 .. Len(pending) /\ Len(pending) \in Nat
  BY <1>1, CommandAssumption DEF CommandAssumption, Smaller
<1> HIDE DEF n
<1>3. /\ DOMAIN batch' = 1 .. n
      /\ \A i \in 1 .. n : /\ i \in DOMAIN pending /\ pending[i] \in FilePaths /\ batch'[i].path = pending[i]
                           /\ batch'[i].at = "open" /\ batch'[i] \in LaunchedFiles
                           /\ IsAnalysisOf(batch'[i].analysis, batch'[i].path)
  <2>1. ASSUME NEW i \in 1 .. n
        PROVE  i \in DOMAIN pending /\ pending[i] \in FilePaths
    BY <1>1, <1>2
  <2> QED
    BY <1>1, <2>1 DEF LaunchedFiles, Analysis, Analyses, IsAnalysisOf
<1>4. batch' \in Seq(LaunchedFiles)
  <2>1. n \in Nat /\ \A i \in 1 .. n : batch'[i] \in LaunchedFiles
    BY <1>2, <1>3
  <2>2. batch' = [i \in 1 .. n |-> batch'[i]]
    BY <1>1
  <2> QED
    BY <2>1, <2>2
<1>5. /\ pending' \in Seq(FilePaths)
      /\ \A i \in DOMAIN pending' : n + i \in DOMAIN pending /\ pending'[i] = pending[n + i] /\ i \in Nat /\ i > 0
  BY <1>1, <1>2, Rested
<1>6. QueueTypeOK'
  BY <1>1, <1>3, <1>4, <1>5 DEF QueueInv, QueueTypeOK
<1>7. Distinct'
  <2>1. ASSUME NEW i \in DOMAIN pending', NEW j \in DOMAIN pending', i # j
        PROVE  pending'[i] # pending'[j]
    <3>1. n \in Nat /\ i \in Nat /\ j \in Nat
      BY <1>2, <1>5
    <3>2. n + i # n + j
      BY <2>1, <3>1
    <3> QED
      BY <1>5, <3>2 DEF QueueInv, Distinct
  <2>2. ASSUME NEW i \in DOMAIN pending', NEW j \in DOMAIN batch'
        PROVE  pending'[i] # batch'[j].path
    <3>1. n + i # j
      BY <1>2, <1>3, <1>5
    <3> QED
      BY <1>3, <1>5, <3>1 DEF QueueInv, Distinct
  <2>3. \A i, j \in DOMAIN batch' : i # j => batch'[i].path # batch'[j].path
    BY <1>3 DEF QueueInv, Distinct
  <2> QED
    BY <2>1, <2>2, <2>3 DEF Distinct
<1>8. (nested \/ Kept)'
  <2>1. Kept => Kept'
    BY <1>1, <1>3, <1>5 DEF Kept
  <2> QED
    BY <1>1, <2>1 DEF QueueInv
<1>9. Once'
  BY <1>1, <1>3, <1>5 DEF QueueInv, Once
<1>10. Idle'
  BY <1>1 DEF Idle, Early
<1> QED
  BY <1>6, <1>7, <1>8, <1>9, <1>10 DEF QueueInv

LEMMA WorkerOpensKeepsQueue ==
  ASSUME QueueInv, NEW i \in DOMAIN batch, WorkerOpens(i)
  PROVE  QueueInv'
<1>1. PICK at \in {"failed", "analyse"} :
        /\ batch' = [batch EXCEPT ![i].at = at]
        /\ UNCHANGED <<stage, disk, nested, remade, pending, seen, counted, current>>
  BY DEF WorkerOpens, tree
<1>2. /\ batch \in Seq(LaunchedFiles) /\ stage = "queue" /\ batch[i].at = "open" /\ batch[i] \in LaunchedFiles
  BY DEF QueueInv, QueueTypeOK, Idle, WorkerOpens
<1>3. /\ DOMAIN batch' = DOMAIN batch
      /\ \A j \in DOMAIN batch : j # i => batch'[j] = batch[j]
      /\ batch'[i] = [batch[i] EXCEPT !.at = at]
  BY <1>1, <1>2
<1>4. /\ batch'[i].path = batch[i].path /\ batch'[i].at = at /\ batch'[i] \in LaunchedFiles
      /\ batch'[i].analysis = batch[i].analysis
  BY <1>2, <1>3 DEF LaunchedFiles
<1>5. batch' \in Seq(LaunchedFiles) /\ \A j \in DOMAIN batch' : batch'[j].path = batch[j].path
  <2>1. batch' = [batch EXCEPT ![i] = [batch[i] EXCEPT !.at = at]]
    BY <1>1
  <2>2. [batch[i] EXCEPT !.at = at] \in LaunchedFiles
    BY <1>3, <1>4
  <2>3. batch' \in Seq(LaunchedFiles)
    BY <1>2, <2>1, <2>2, ExceptSeq
  <2> QED
    BY <1>3, <1>4, <2>3
<1>6. QueueTypeOK'
  <2>1. \A j \in DOMAIN batch' : IsAnalysisOf(batch'[j].analysis, batch'[j].path)
    BY <1>3, <1>4 DEF QueueInv, QueueTypeOK
  <2> QED
    BY <1>1, <1>5, <2>1 DEF QueueInv, QueueTypeOK
<1>7. Distinct'
  BY <1>1, <1>3, <1>5 DEF QueueInv, Distinct
<1>8. (nested \/ Kept)'
  <2>1. Kept => Kept'
    BY <1>1, <1>2, <1>3, <1>4 DEF Kept
  <2> QED
    BY <1>1, <2>1 DEF QueueInv
<1>9. Once'
  BY <1>1, <1>3, <1>5 DEF QueueInv, Once
<1>10. Idle'
  BY <1>1, <1>2 DEF Idle, Early
<1> QED
  BY <1>6, <1>7, <1>8, <1>9, <1>10 DEF QueueInv

LEMMA WorkerAnalysesKeepsQueue ==
  ASSUME QueueInv, NEW i \in DOMAIN batch, WorkerAnalyses(i)
  PROVE  QueueInv'
<1>20. PICK found \in BOOLEAN : \E carved \in BOOLEAN, o \in Outcomes(batch[i].path, found) :
         /\ LeavesFiles(o)
         /\ batch' = [batch EXCEPT ![i] = Analysed(batch[i], o.analysis, carved)]
  BY DEF WorkerAnalyses
<1>1. PICK carved \in BOOLEAN, o \in Outcomes(batch[i].path, found) :
        /\ LeavesFiles(o)
        /\ batch' = [batch EXCEPT ![i] = Analysed(batch[i], o.analysis, carved)]
  BY <1>20
<1>0. UNCHANGED <<stage, pending, seen, counted, current>>
  BY DEF WorkerAnalyses
<1>2. /\ batch \in Seq(LaunchedFiles) /\ stage = "queue" /\ batch[i].at = "analyse" /\ batch[i] \in LaunchedFiles
      /\ disk \subseteq Paths /\ IsFiniteSet(disk) /\ pending \in Seq(FilePaths) /\ seen \subseteq FilePaths
  BY DEF QueueInv, QueueTypeOK, Idle, WorkerAnalyses
<1> DEFINE f == batch[i].path
<1>3. f \in FilePaths /\ f \in seen
  <2>1. Uncounted(seen, counted, f)
    BY DEF QueueInv, Once
  <2> QED
    BY <1>2, <2>1 DEF LaunchedFiles, Uncounted
<1>4. /\ o.disk \subseteq Paths /\ IsFiniteSet(o.disk)
      /\ IsAnalysisOf(o.analysis, f)
      /\ \A g \in o.made : g \in Paths /\ Nests(f, g)
      /\ ToList(o.disk, o.analysis) \subseteq o.made
      /\ o.disk \subseteq disk \cup o.made
      /\ \A g \in disk : ~Nests(f, g) => g \in o.disk
  BY <1>1, <1>2, <1>3, AnalysisIsContained
<1>5. /\ DOMAIN batch' = DOMAIN batch
      /\ \A j \in DOMAIN batch : j # i => batch'[j] = batch[j]
      /\ batch'[i] = Analysed(batch[i], o.analysis, carved)
  BY <1>1, <1>2
<1>6. /\ batch'[i].path = f /\ batch'[i].at = "done" /\ batch'[i] \in LaunchedFiles
      /\ batch'[i].analysis = o.analysis
  <2>1. o.analysis \in Analyses
    BY <1>4 DEF IsAnalysisOf
  <2> QED
    BY <1>2, <1>5, <2>1 DEF LaunchedFiles, Analysed
<1>7. batch' \in Seq(LaunchedFiles) /\ \A j \in DOMAIN batch' : batch'[j].path = batch[j].path
  <2>1. batch' \in Seq(LaunchedFiles)
    <3>1. batch' = [batch EXCEPT ![i] = batch'[i]]
      BY <1>1, <1>2
    <3> QED
      BY <1>2, <1>6, <3>1, ExceptSeq
  <2> QED
    BY <1>5, <1>6, <2>1
<1>8. /\ disk' = o.disk /\ remade' = remade \cup (o.made \cap seen)
      /\ ~nested' => ~nested /\ Flat(o.made)
  BY <1>1, NestingIsRemembered
<1> HIDE DEF f
<1>9. QueueTypeOK'
  <2>1. \A j \in DOMAIN batch' : IsAnalysisOf(batch'[j].analysis, batch'[j].path)
    BY <1>4, <1>5, <1>6 DEF QueueInv, QueueTypeOK
  <2> QED
    BY <1>4, <1>7, <1>8, <1>0, <2>1 DEF QueueInv, QueueTypeOK
<1>10. Distinct'
  BY <1>5, <1>7, <1>0 DEF QueueInv, Distinct
<1>11. ASSUME NEW j \in DOMAIN batch, j # i
       PROVE  /\ batch[j].path \in FilePaths /\ batch[j].path \in seen /\ batch[j].path # f
              /\ batch[j].analysis.path = batch[j].path
  <2>1. batch[j] \in LaunchedFiles /\ IsAnalysisOf(batch[j].analysis, batch[j].path)
    BY <1>2 DEF QueueInv, QueueTypeOK
  <2>2. Uncounted(seen, counted, batch[j].path)
    BY DEF QueueInv, Once
  <2>3. batch[j].path # f
    BY <1>11 DEF QueueInv, Distinct, f
  <2> QED
    BY <2>1, <2>2, <2>3 DEF LaunchedFiles, Uncounted, IsAnalysisOf
<1>12. \A j \in DOMAIN pending : pending[j] \in seen
  BY DEF QueueInv, Once, Uncounted
<1>13. (nested \/ Kept)'
  <2> SUFFICES ASSUME ~nested' PROVE Kept'
    OBVIOUS
  <2>1. Kept /\ Flat(o.made)
    BY <1>8 DEF QueueInv
  <2>2. Alone(seen, f)
    BY <2>1 DEF Kept, f
  <2>3. \A s \in seen : s \in disk => s \in disk'
    BY <1>4, <1>8, <2>2 DEF Alone
  <2>4. remade' = {}
    BY <1>4, <1>8, <2>1, <2>2 DEF Alone, Kept
  <2>5. \A j \in DOMAIN pending' : pending'[j] \in disk' /\ Alone(seen', pending'[j])
    BY <1>0, <1>12, <2>1, <2>3 DEF Kept
  <2>6. ASSUME NEW j \in DOMAIN batch'
        PROVE  /\ Alone(seen', batch'[j].path)
               /\ batch'[j].at \in {"open", "analyse"} => batch'[j].path \in disk'
               /\ batch'[j].at = "done" => Flat(ToList(disk', batch'[j].analysis))
    <3>1. Alone(seen', batch'[j].path)
      BY <1>0, <1>5, <1>7, <2>1 DEF Kept
    <3>2. CASE j = i
      <4>1. batch'[j].at = "done" /\ ToList(disk', batch'[j].analysis) \subseteq o.made
        BY <1>4, <1>6, <1>8, <3>2
      <4> QED
        BY <2>1, <3>1, <4>1 DEF Flat
    <3>3. CASE j # i
      <4> DEFINE q == batch[j].path
                 a == batch[j].analysis
      <4>1. /\ j \in DOMAIN batch /\ batch'[j] = batch[j] /\ q \in FilePaths /\ q \in seen /\ q # f
            /\ a.path = q
        BY <1>5, <1>11, <3>3
      <4>2. /\ Alone(seen, q)
            /\ batch[j].at \in {"open", "analyse"} => q \in disk
            /\ batch[j].at = "done" => Flat(ToList(disk, a))
        BY <2>1, <4>1 DEF Kept
      <4>3. a.recurse \subseteq Nat
        BY <4>1 DEF QueueInv, QueueTypeOK, IsAnalysisOf, Analyses
      <4> HIDE DEF q, a
      <4>4. ASSUME NEW g \in ToList(disk', a) PROVE g \in ToList(disk, a)
        <5>1. PICK k \in a.recurse : IsPrefix(OutputDirectory(q, k), g)
          BY <4>1, <4>4 DEF ToList
        <5>2. g \in o.disk /\ g \in Paths /\ k \in Nat
          BY <1>4, <1>8, <4>3, <4>4 DEF ToList
        <5>3. Nests(q, g)
          BY <4>1, <5>1, <5>2, OutputIsNested
        <5>4. g \in FilePaths
          BY <4>1, <5>2, <5>3, NestedIsLonger
        <5>5. g \notin o.made
          <6>1. ~Nests(q, f) /\ ~Nests(f, q)
            BY <1>3, <2>2, <4>1, <4>2 DEF Alone
          <6>2. ~Nests(f, g)
            BY <1>3, <4>1, <5>3, <5>4, <6>1, NestsOrder
          <6> QED
            BY <1>4, <6>2
        <5> QED
          BY <1>4, <4>1, <5>1, <5>2, <5>5 DEF ToList
      <4>5. batch[j].at = "done" => Flat(ToList(disk', a))
        BY <4>2, <4>4 DEF Flat
      <4>6. /\ batch'[j].at \in {"open", "analyse"} => q \in disk'
            /\ batch'[j].at = "done" => Flat(ToList(disk', a))
        BY <2>3, <4>1, <4>2, <4>5
      <4>7. batch'[j].path = q /\ batch'[j].analysis = a
        BY <4>1 DEF q, a
      <4> QED
        BY <3>1, <4>6, <4>7
    <3> QED
      BY <3>2, <3>3
  <2>7. stage' \notin {"carve", "process"}
    BY <1>2, <1>0
  <2> QED
    BY <2>4, <2>5, <2>6, <2>7 DEF Kept
<1>14. Once'
  BY <1>5, <1>7, <1>0 DEF QueueInv, Once
<1>15. Idle'
  BY <1>2, <1>0 DEF Idle, Early
<1> QED
  BY <1>9, <1>10, <1>13, <1>14, <1>15 DEF QueueInv

\* What main has of its batch after collecting the first worker.
LEMMA Collected ==
  ASSUME batch \in Seq(LaunchedFiles), batch # << >>, batch' = Tail(batch)
  PROVE  /\ 1 \in DOMAIN batch /\ Head(batch) = batch[1] /\ batch[1] \in LaunchedFiles
         /\ batch' \in Seq(LaunchedFiles)
         /\ \A i \in DOMAIN batch' : /\ i + 1 \in DOMAIN batch /\ batch'[i] = batch[i + 1]
                                     /\ i \in Nat /\ i + 1 # 1
<1>1. batch' \in Seq(LaunchedFiles) /\ Len(batch') = Len(batch) - 1
  BY HeadTailProperties
<1>2. \A i \in 1 .. Len(batch') : batch'[i] = batch[i + 1]
  BY HeadTailProperties
<1>3. DOMAIN batch = 1 .. Len(batch) /\ DOMAIN batch' = 1 .. Len(batch') /\ Len(batch) \in Nat /\ Len(batch) >= 1
  BY <1>1
<1>4. 1 \in DOMAIN batch /\ Head(batch) = batch[1] /\ batch[1] \in LaunchedFiles
  BY <1>3
<1> QED
  BY <1>1, <1>2, <1>3, <1>4

LEMMA CollectedOthers ==
  ASSUME batch \in Seq(LaunchedFiles), batch # << >>, batch' = Tail(batch), NEW i \in DOMAIN batch
  PROVE  batch[i].path = Head(batch).path \/ \E j \in DOMAIN batch' : batch'[j].path = batch[i].path
<1>1. /\ batch' \in Seq(LaunchedFiles) /\ Len(batch') = Len(batch) - 1
      /\ \A j \in 1 .. Len(batch') : batch'[j] = batch[j + 1]
  BY HeadTailProperties
<1>2. DOMAIN batch = 1 .. Len(batch) /\ DOMAIN batch' = 1 .. Len(batch') /\ Len(batch) \in Nat
  BY <1>1
<1>3. CASE i = 1
  BY <1>3
<1>4. CASE i # 1
  <2>1. i - 1 \in DOMAIN batch' /\ (i - 1) + 1 = i
    BY <1>1, <1>2, <1>4
  <2>2. batch'[i - 1] = batch[i]
    BY <1>1, <1>2, <2>1
  <2> QED
    BY <2>1, <2>2
<1> QED
  BY <1>3, <1>4

LEMMA CollectUnreadKeepsQueue ==
  ASSUME QueueInv, CollectUnread
  PROVE  QueueInv'
<1>1. /\ stage = "queue" /\ batch # << >> /\ batch' = Tail(batch) /\ batch \in Seq(LaunchedFiles)
      /\ UNCHANGED <<stage, disk, nested, remade, pending, seen, counted, current>>
  BY DEF CollectUnread, QueueInv, QueueTypeOK, tree
<1>2. /\ batch' \in Seq(LaunchedFiles)
      /\ \A i \in DOMAIN batch' : i + 1 \in DOMAIN batch /\ batch'[i] = batch[i + 1] /\ i \in Nat
  BY <1>1, Collected
<1>3. QueueTypeOK'
  BY <1>1, <1>2 DEF QueueInv, QueueTypeOK
<1>4. Distinct'
  <2>1. \A i, j \in DOMAIN batch' : i # j => i + 1 # j + 1
    BY <1>2
  <2> QED
    BY <1>1, <1>2, <2>1 DEF QueueInv, Distinct
<1>5. (nested \/ Kept)'
  <2>1. Kept => Kept'
    BY <1>1, <1>2 DEF Kept
  <2> QED
    BY <1>1, <2>1 DEF QueueInv
<1>6. Once'
  BY <1>1, <1>2 DEF QueueInv, Once
<1>7. Idle'
  BY <1>1 DEF Idle, Early
<1> QED
  BY <1>3, <1>4, <1>5, <1>6, <1>7 DEF QueueInv

LEMMA CollectKeepsQueue ==
  ASSUME QueueInv, Collect
  PROVE  QueueInv'
<1> DEFINE f == Head(batch).path
           a == Head(batch).analysis
<1>1. /\ stage = "queue" /\ batch # << >> /\ batch' = Tail(batch) /\ batch \in Seq(LaunchedFiles)
      /\ Head(batch).at = "done" /\ ProcessResult(a)
      /\ UNCHANGED <<stage, disk, nested, remade, current>>
  BY DEF Collect, QueueInv, QueueTypeOK, tree
<1>2. /\ 1 \in DOMAIN batch /\ f = batch[1].path /\ a = batch[1].analysis /\ batch[1].at = "done"
      /\ f \in FilePaths
      /\ batch' \in Seq(LaunchedFiles)
      /\ \A i \in DOMAIN batch' : /\ i + 1 \in DOMAIN batch /\ batch'[i] = batch[i + 1]
                                  /\ i \in Nat /\ i + 1 # 1
  <2>1. /\ 1 \in DOMAIN batch /\ Head(batch) = batch[1] /\ batch[1] \in LaunchedFiles
        /\ batch' \in Seq(LaunchedFiles)
        /\ \A i \in DOMAIN batch' : /\ i + 1 \in DOMAIN batch /\ batch'[i] = batch[i + 1]
                                    /\ i \in Nat /\ i + 1 # 1
    BY <1>1, Collected
  <2> QED
    BY <1>1, <2>1 DEF LaunchedFiles
<1> HIDE DEF f, a
<1>3. IsAnalysisOf(a, f) /\ f \in seen /\ f \notin ToSet(counted)
  <2>1. Uncounted(seen, counted, f)
    BY <1>2 DEF QueueInv, Once
  <2> QED
    BY <1>2, <2>1 DEF QueueInv, QueueTypeOK, Uncounted
<1>4. /\ \A i \in DOMAIN pending : f # pending[i] /\ pending[i] \in seen
      /\ \A i \in DOMAIN batch' : f # batch'[i].path /\ batch'[i].path \in seen
  <2>1. \A i \in DOMAIN pending : f # pending[i] /\ pending[i] \in seen
    BY <1>2 DEF QueueInv, Distinct, Once, Uncounted
  <2>2. \A i \in DOMAIN batch' : f # batch[i + 1].path /\ batch[i + 1].path \in seen
    BY <1>2 DEF QueueInv, Distinct, Once, Uncounted
  <2> QED
    BY <1>2, <2>1, <2>2
<1>5. /\ Distinct' /\ Once'
      /\ pending' \in Seq(FilePaths) /\ counted' \in Seq(FilePaths) /\ seen' \subseteq FilePaths
      /\ /\ Kept /\ Alone(seen, f) /\ Flat(ToList(disk, a))
         /\ \A i \in DOMAIN pending : ~Nests(pending[i], f) /\ ~Nests(f, pending[i])
         /\ \A i \in DOMAIN batch' : ~Nests(batch'[i].path, f) /\ ~Nests(f, batch'[i].path)
         => /\ \A i \in DOMAIN pending' : pending'[i] \in disk /\ Alone(seen', pending'[i])
            /\ \A i \in DOMAIN batch' : Alone(seen', batch'[i].path)
  <2>1. 1 \in Nat /\ disk' = disk /\ f \in seen \cup {MainFile}
    BY <1>1, <1>3
  <2> QED
    BY <1>1, <1>2, <1>3, <1>4, <2>1, ProcessingKeepsQueue
<1>6. QueueTypeOK'
  BY <1>1, <1>2, <1>5 DEF QueueInv, QueueTypeOK
<1>7. (nested \/ Kept)'
  <2> SUFFICES ASSUME ~nested' PROVE Kept'
    OBVIOUS
  <2>1. Kept
    BY <1>1 DEF QueueInv
  <2>2. Alone(seen, f) /\ Flat(ToList(disk, a))
    BY <1>2, <2>1 DEF Kept
  <2>3. \A i \in DOMAIN pending : ~Nests(pending[i], f) /\ ~Nests(f, pending[i])
    BY <1>3, <1>4, <2>1, <2>2 DEF Kept, Alone
  <2>4. \A i \in DOMAIN batch' : ~Nests(batch'[i].path, f) /\ ~Nests(f, batch'[i].path)
    BY <1>2, <1>3, <1>4, <2>1, <2>2 DEF Kept, Alone
  <2>5. /\ \A i \in DOMAIN pending' : pending'[i] \in disk /\ Alone(seen', pending'[i])
        /\ \A i \in DOMAIN batch' : Alone(seen', batch'[i].path)
    BY <1>5, <2>1, <2>2, <2>3, <2>4
  <2>6. ASSUME NEW i \in DOMAIN batch'
        PROVE  /\ batch'[i].at \in {"open", "analyse"} => batch'[i].path \in disk'
               /\ batch'[i].at = "done" => Flat(ToList(disk', batch'[i].analysis))
    BY <1>1, <1>2, <2>1 DEF Kept
  <2>7. remade' = {} /\ stage' \notin {"carve", "process"}
    BY <1>1, <2>1 DEF Kept
  <2> QED
    BY <1>1, <2>5, <2>6, <2>7 DEF Kept
<1>8. Idle'
  BY <1>1 DEF Idle, Early
<1> QED
  BY <1>5, <1>6, <1>7, <1>8 DEF QueueInv

LEMMA QueueInvInit ==
  ASSUME Init
  PROVE  QueueInv
<1>1. /\ stage = "open" /\ pending = << >> /\ batch = << >> /\ counted = << >> /\ remade = {}
      /\ seen \subseteq {MainFile} /\ current = Analysis(MainFile, FALSE, {})
      /\ \E r \in Runs : disk = r.left
  BY DEF Init
<1>2. disk \subseteq Paths /\ IsFiniteSet(disk)
  BY <1>1, CommandAssumption DEF CommandAssumption, Paths
<1>3. QueueTypeOK
  BY <1>1, <1>2, MainIsPath DEF QueueTypeOK, Early, IsAnalysisOf, Analyses, Analysis
<1>4. Distinct /\ Kept /\ Once /\ Idle
  BY <1>1 DEF Distinct, Kept, Once, Idle, IsInjective, ToSet
<1> QED
  BY <1>3, <1>4 DEF QueueInv

LEMMA QueueInvStep ==
  ASSUME QueueInv, [Next]_vars
  PROVE  QueueInv'
<1>1. CASE OpenMain
  BY <1>1, StageMoves DEF OpenMain, Early
<1>2. CASE PlotEntropy
  BY <1>2, StageMoves DEF PlotEntropy, QueueInv, QueueTypeOK
<1>3. CASE PlotFails
  BY <1>3, StageMoves DEF PlotFails, Early
<1>4. CASE LogEntropy
  BY <1>4, LogEntropyKeepsQueue
<1>5. CASE AnalyseMain
  BY <1>5, AnalyseMainKeepsQueue
<1>6. CASE CarveMain
  BY <1>6, StageMoves DEF CarveMain, QueueInv, QueueTypeOK
<1>7. CASE MainCarved
  BY <1>7, StageMoves DEF MainCarved, Early
<1>8. CASE ProcessMain
  BY <1>8, ProcessMainKeepsQueue
<1>9. CASE Launch
  BY <1>9, LaunchKeepsQueue
<1>10. CASE \E i \in DOMAIN batch : WorkerOpens(i) \/ WorkerAnalyses(i)
  BY <1>10, WorkerOpensKeepsQueue, WorkerAnalysesKeepsQueue
<1>11. CASE CollectUnread
  BY <1>11, CollectUnreadKeepsQueue
<1>12. CASE Collect
  BY <1>12, CollectKeepsQueue
<1>13. CASE QueueEmpty
  BY <1>13, StageMoves DEF QueueEmpty, Early
<1>14. CASE Close
  BY <1>14, StageMoves DEF Close, Early
<1>15. CASE ExtractorWrites
  BY <1>15, StageMoves DEF ExtractorWrites, QueueInv, QueueTypeOK
<1>16. CASE Exited \/ UNCHANGED vars
  BY <1>16, StageMoves DEF Exited, vars, QueueInv, QueueTypeOK
<1> QED
  BY <1>1, <1>2, <1>3, <1>4, <1>5, <1>6, <1>7, <1>8, <1>9, <1>10, <1>11, <1>12, <1>13, <1>14,
     <1>15, <1>16 DEF Next, Step

\* A file that is queued is there, as it was queued, until its analysis is over,
\* and is analysed once: for any names, any depth, any number of workers and
\* whatever was in the directory, no other file's extraction reaches it, unless one
\* extraction brings out a file and another in the directory of that file's own
\* extractions, which nested then says.
THEOREM QueuedFilesAreKept == Spec => []QueuedFilesStay
<1>1. Init => QueueInv
  BY QueueInvInit
<1>2. QueueInv /\ [Next]_vars => QueueInv'
  BY QueueInvStep
<1>3. QueueInv => QueuedFilesStay
  <2>1. Kept => /\ ToSet(pending) \subseteq disk
                /\ \A i \in DOMAIN batch : batch[i].at \in {"open", "analyse"} => batch[i].path \in disk
    BY DEF Kept, ToSet
  <2> QED
    BY <2>1 DEF QueueInv, Once, QueuedFilesStay
<1> QED
  BY <1>1, <1>2, <1>3, PTL DEF Spec

-----------------------------------------------------------------------------
(* The status: what was seen is counted, unread or waits; what could not be *)
(* carved is remembered; the log is the listing of what is counted so far,  *)
(* behind what earlier runs left in it.                                    *)

Tokens == Seq(Int)

Logs == [started : BOOLEAN, closed : BOOLEAN, stream : {"closed", "open", "bad"}, text : Seq(Tokens),
         earlier : Seq(Tokens)]

\* The log of these records before it is closed.
Listing(records) ==
  [k \in 1 .. 2 * Len(records) |->
     IF k = 1 THEN Opening ELSE IF k % 2 = 1 THEN Comma ELSE records[k \div 2]]

Waits(p) == p \in ToSet(pending) \/ \E i \in DOMAIN batch : batch[i].path = p

Accounted ==
  /\ listed \subseteq seen \ {MainFile}
  /\ \A p \in seen \ {MainFile} : p \in ToSet(counted) \/ p \in unread \/ Waits(p)

Remembered == uncarved # {} => carveFailed

Logged ==
  /\ log \in Logs
  /\ options.log /\ ~logFailed /\ stage # "exited" =>
       /\ log.started <=> counted # << >>
       /\ ~log.closed /\ log.text = log.earlier \o Listing(counted)

Ended ==
  /\ stage \in {"queue", "close"} => counted # << >>
  /\ stage # "exited" => exit = Running
  /\ exit = 0 => uncarved = {} /\ (options.log => log.text = log.earlier \o ArrayOf(counted))

StatusInv == Accounted /\ Remembered /\ Logged /\ Ended

LEMMA TokensAreSequences ==
  /\ Opening \in Tokens /\ Comma \in Tokens /\ Closing \in Tokens
  /\ FilePaths \subseteq Tokens
BY DEF Opening, Comma, Closing, FilePaths, Paths, Tokens

\* One more record, with its separator, makes the listing of one more.
LEMMA ListingGrows ==
  ASSUME NEW s \in Seq(FilePaths), NEW f \in FilePaths
  PROVE  /\ Listing(s) \in Seq(Tokens)
         /\ Listing(Append(s, f)) =
              Append(Append(Listing(s), IF s = << >> THEN Opening ELSE Comma), f)
<1> DEFINE n == Len(s)
           sep == IF s = << >> THEN Opening ELSE Comma
           left == Listing(Append(s, f))
           right == Append(Append(Listing(s), sep), f)
<1>1. /\ n \in Nat /\ DOMAIN s = 1 .. n /\ (s = << >> <=> n = 0)
      /\ sep \in Tokens /\ f \in Tokens /\ \A k \in 1 .. n : s[k] \in Tokens
  <2>1. n \in Nat /\ DOMAIN s = 1 .. n /\ (s = << >> <=> n = 0)
    OBVIOUS
  <2>2. sep \in Tokens /\ f \in Tokens
    BY TokensAreSequences
  <2>3. \A k \in 1 .. n : s[k] \in FilePaths
    OBVIOUS
  <2> QED
    BY <2>1, <2>2, <2>3, TokensAreSequences
<1>2. /\ Append(s, f) \in Seq(FilePaths) /\ Len(Append(s, f)) = n + 1
      /\ \A k \in 1 .. n : Append(s, f)[k] = s[k]
      /\ Append(s, f)[n + 1] = f
  BY Appended
<1> HIDE DEF n, sep
<1>3. \A k \in 1 .. 2 * n : k % 2 # 1 => k \div 2 \in 1 .. n
  BY <1>1
<1>4. Listing(s) \in Seq(Tokens) /\ Len(Listing(s)) = 2 * n
  <2>1. Listing(s) = [k \in 1 .. 2 * n |-> IF k = 1 THEN Opening ELSE IF k % 2 = 1 THEN Comma
                                           ELSE s[k \div 2]]
    BY DEF Listing, n
  <2>2. \A k \in 1 .. 2 * n : Listing(s)[k] \in Tokens
    BY <1>1, <1>3, <2>1, TokensAreSequences
  <2>3. 2 * n \in Nat
    BY <1>1
  <2>4. Listing(s) \in [1 .. 2 * n -> Tokens]
    BY <2>1, <2>2
  <2> QED
    BY <2>3, <2>4
<1>5. /\ right \in Seq(Tokens) /\ Len(right) = 2 * n + 2
      /\ \A k \in 1 .. 2 * n : right[k] = Listing(s)[k]
      /\ right[2 * n + 1] = sep /\ right[2 * n + 2] = f
  <2> DEFINE one == Append(Listing(s), sep)
  <2>1. /\ one \in Seq(Tokens) /\ Len(one) = 2 * n + 1 /\ one[2 * n + 1] = sep
        /\ \A k \in 1 .. 2 * n : one[k] = Listing(s)[k]
    <3>1. /\ one \in Seq(Tokens) /\ Len(one) = Len(Listing(s)) + 1 /\ one[Len(Listing(s)) + 1] = sep
          /\ DOMAIN Listing(s) = 1 .. Len(Listing(s))
          /\ \A k \in DOMAIN Listing(s) : one[k] = Listing(s)[k]
      <4>1. Listing(s) \in Seq(Tokens) /\ sep \in Tokens
        BY <1>1, <1>4
      <4> QED
        BY ONLY <4>1, Appended
    <3> QED
      BY ONLY <1>4, <3>1
  <2> HIDE DEF one
  <2>2. /\ Append(one, f) \in Seq(Tokens) /\ Len(Append(one, f)) = Len(one) + 1
        /\ \A k \in 1 .. Len(one) : Append(one, f)[k] = one[k]
        /\ Append(one, f)[Len(one) + 1] = f
    <3>1. one \in Seq(Tokens) /\ f \in Tokens
      BY <1>1, <2>1
    <3>2. DOMAIN one = 1 .. Len(one)
      BY ONLY <3>1
    <3> QED
      BY ONLY <3>1, <3>2, Appended
  <2>3. /\ Len(one) = 2 * n + 1 /\ Len(one) + 1 = 2 * n + 2 /\ 2 * n + 1 \in 1 .. Len(one)
        /\ \A k \in 1 .. 2 * n : k \in 1 .. Len(one)
    BY <1>1, <2>1
  <2> QED
    BY <2>1, <2>2, <2>3 DEF one
<1>6. left = [k \in 1 .. 2 * n + 2 |-> IF k = 1 THEN Opening ELSE IF k % 2 = 1 THEN Comma
                                       ELSE Append(s, f)[k \div 2]]
  <2>1. 2 * (n + 1) = 2 * n + 2
    BY <1>1
  <2> QED
    BY <1>2, <2>1 DEF Listing
<1>7. ASSUME NEW k \in 1 .. 2 * n + 2 PROVE left[k] = right[k]
  <2>1. CASE k \in 1 .. 2 * n
    <3>1. Listing(s)[k] = IF k = 1 THEN Opening ELSE IF k % 2 = 1 THEN Comma ELSE s[k \div 2]
      BY <2>1 DEF Listing, n
    <3>2. k % 2 # 1 => Append(s, f)[k \div 2] = s[k \div 2]
      BY <1>2, <1>3, <2>1
    <3> QED
      BY <1>5, <1>6, <2>1, <3>1, <3>2
  <2>2. CASE k = 2 * n + 1
    <3>1. k % 2 = 1 /\ (k = 1 <=> n = 0)
      BY <1>1, <2>2
    <3> QED
      BY <1>1, <1>5, <1>6, <2>2, <3>1 DEF sep
  <2>3. CASE k = 2 * n + 2
    <3>1. k % 2 = 0 /\ k # 1 /\ k \div 2 = n + 1
      BY <1>1, <2>3
    <3> QED
      BY <1>2, <1>5, <1>6, <2>3, <3>1
  <2>4. k \in 1 .. 2 * n \/ k = 2 * n + 1 \/ k = 2 * n + 2
    <3>1. 2 * n \in Int
      BY <1>1
    <3>2. ASSUME NEW m \in Int, k \in 1 .. m + 2 PROVE k \in 1 .. m \/ k = m + 1 \/ k = m + 2
      BY <3>2
    <3> QED
      BY ONLY <3>1, <3>2, k \in 1 .. 2 * n + 2
  <2> QED
    BY <2>1, <2>2, <2>3, <2>4
<1>8. left = right
  <2>1. 2 * n + 2 \in Nat
    BY <1>1
  <2>2. left \in Seq(Tokens) /\ Len(left) = 2 * n + 2
    <3>1. \A k \in 1 .. 2 * n + 2 : right[k] \in Tokens
      BY <1>5
    <3>2. left \in [1 .. 2 * n + 2 -> Tokens]
      BY <1>6, <1>7, <3>1
    <3> QED
      BY <2>1, <3>2
  <2> QED
    BY <1>5, <1>7, <2>2, SeqEqual
<1> QED
  BY <1>4, <1>8 DEF sep

\* What goes behind the listing goes behind all of the log.
LEMMA BehindEarlier ==
  ASSUME NEW e \in Seq(Tokens), NEW s \in Seq(Tokens), NEW t \in Tokens
  PROVE  e \o Append(s, t) = Append(e \o s, t) /\ e \o s \in Seq(Tokens)
<1>1. << t >> \in Seq(Tokens) /\ e \o s \in Seq(Tokens)
  BY ConcatProperties
<1>2. Append(s, t) = s \o << t >> /\ Append(e \o s, t) = (e \o s) \o << t >>
  BY <1>1, AppendIsConcat
<1>3. (e \o s) \o << t >> = e \o (s \o << t >>)
  BY <1>1, ConcatAssociative
<1> QED
  BY <1>1, <1>2, <1>3

\* A write that went well appended its token; one that did not changed no text.
LEMMA WriteOutcomes ==
  ASSUME NEW l \in Logs, NEW token \in Tokens, NEW o, o \in Write(l, token)
  PROVE  /\ o.log \in Logs /\ o.ok \in BOOLEAN
         /\ o.log.started = l.started /\ o.log.closed = l.closed /\ o.log.earlier = l.earlier
         /\ o.ok => o.log.text = Append(l.text, token)
<1> DEFINE grown == [l EXCEPT !.stream = "open", !.text = Append(@, token)]
           bad == [l EXCEPT !.stream = "bad"]
<1>1. l.text \in Seq(Tokens) /\ Append(l.text, token) \in Seq(Tokens)
  BY DEF Logs
<1>2. /\ grown \in Logs /\ grown.started = l.started /\ grown.closed = l.closed
      /\ grown.text = Append(l.text, token) /\ grown.earlier = l.earlier
  BY <1>1 DEF Logs
<1>3. bad \in Logs /\ bad.started = l.started /\ bad.closed = l.closed /\ bad.earlier = l.earlier
  BY DEF Logs
<1>4. o = Outcome(grown, TRUE) \/ o = Outcome(bad, FALSE) \/ o = Outcome(l, FALSE)
  BY DEF Write
<1> HIDE DEF grown, bad
<1>5. ASSUME NEW x, NEW ok \in BOOLEAN PROVE Outcome(x, ok).log = x /\ Outcome(x, ok).ok = ok
  BY DEF Outcome
<1>6. CASE o = Outcome(grown, TRUE)
  <2>1. o.log = grown /\ o.ok = TRUE
    BY <1>5, <1>6
  <2> QED
    BY <1>2, <2>1
<1>7. CASE o = Outcome(bad, FALSE)
  <2>1. o.log = bad /\ o.ok = FALSE
    BY <1>5, <1>7
  <2> QED
    BY <1>3, <2>1
<1>8. CASE o = Outcome(l, FALSE)
  <2>1. o.log = l /\ o.ok = FALSE
    BY <1>5, <1>8
  <2> QED
    BY <2>1
<1> QED
  BY <1>4, <1>6, <1>7, <1>8

\* A record that went to the log brought its separator along.
LEMMA RecordOutcomes ==
  ASSUME options.log, NEW l \in Logs, NEW f \in Tokens, NEW o, o \in LogRecord(l, f)
  PROVE  /\ o.log \in Logs /\ o.ok \in BOOLEAN /\ o.log.earlier = l.earlier
         /\ o.ok => /\ o.log.started /\ o.log.closed = l.closed
                    /\ o.log.text = Append(Append(l.text, IF l.started THEN Comma ELSE Opening), f)
<1> DEFINE begun == [l EXCEPT !.started = TRUE]
           sep == IF l.started THEN Comma ELSE Opening
<1>1. /\ begun \in Logs /\ begun.started /\ begun.closed = l.closed /\ begun.text = l.text
      /\ begun.earlier = l.earlier
      /\ sep \in Tokens
  BY TokensAreSequences DEF Logs
<1>2. PICK w : w \in Write(begun, sep) /\ o \in (IF w.ok THEN Write(w.log, f) ELSE {w})
  BY DEF LogRecord
<1> HIDE DEF begun, sep
<1>3. /\ w.log \in Logs /\ w.ok \in BOOLEAN /\ w.log.started /\ w.log.closed = l.closed
      /\ w.log.earlier = l.earlier
      /\ w.ok => w.log.text = Append(l.text, sep)
  BY <1>1, <1>2, WriteOutcomes
<1>4. CASE w.ok
  <2>1. o \in Write(w.log, f)
    BY <1>2, <1>4
  <2>2. /\ o.log \in Logs /\ o.ok \in BOOLEAN /\ o.log.started = w.log.started
        /\ o.log.closed = w.log.closed /\ o.log.earlier = w.log.earlier /\ (o.ok => o.log.text = Append(w.log.text, f))
    BY <1>3, <2>1, WriteOutcomes
  <2> QED
    BY <1>3, <1>4, <2>2 DEF sep
<1>5. CASE ~w.ok
  BY <1>2, <1>3, <1>5
<1> QED
  BY <1>3, <1>4, <1>5

\* What main logs for one more analysis.
LEMMA LoggingKeepsListing ==
  ASSUME QueueInv, StatusInv, stage # "exited", NEW f \in FilePaths,
         LogsTo(LogRecord(log, f)), counted' = Append(counted, f), options' = options,
         stage' # "exited"
  PROVE  Logged' /\ counted' # << >>
<1>1. counted \in Seq(FilePaths) /\ log \in Logs /\ f \in Tokens
  BY TokensAreSequences DEF QueueInv, QueueTypeOK, StatusInv, Logged, Tokens
<1>2. counted' # << >>
  BY <1>1
<1>3. PICK o : o \in LogRecord(log, f) /\ log' = o.log /\ logFailed' = (logFailed \/ ~o.ok)
  BY DEF LogsTo
<1>4. CASE options.log
  <2>1. /\ o.log \in Logs /\ o.log.earlier = log.earlier
        /\ o.ok => /\ o.log.started /\ o.log.closed = log.closed
                   /\ o.log.text = Append(Append(log.text, IF log.started THEN Comma ELSE Opening), f)
    BY <1>1, <1>3, <1>4, RecordOutcomes
  <2>2. ASSUME ~logFailed' 
        PROVE  o.ok /\ log.text = log.earlier \o Listing(counted) /\ ~log.closed /\ (log.started <=> counted # << >>)
    BY <1>3, <1>4, <2>2 DEF StatusInv, Logged
  <2>3. ASSUME ~logFailed' PROVE log'.text = log'.earlier \o Listing(counted')
    <3> DEFINE sep == IF counted = << >> THEN Opening ELSE Comma
    <3>1. log'.text = Append(Append(log.earlier \o Listing(counted), sep), f)
      BY <1>3, <2>1, <2>2, <2>3
    <3>2. /\ log.earlier \in Seq(Tokens) /\ Listing(counted) \in Seq(Tokens) /\ sep \in Tokens
          /\ Listing(counted') = Append(Append(Listing(counted), sep), f)
      BY <1>1, ListingGrows, TokensAreSequences DEF Logs
    <3> HIDE DEF sep
    <3>3. Append(Listing(counted), sep) \in Seq(Tokens)
      BY <3>2
    <3>4. Append(Append(log.earlier \o Listing(counted), sep), f) = log.earlier \o Listing(counted')
      <4> DEFINE e == log.earlier
                 l == Listing(counted)
      <4>1. e \in Seq(Tokens) /\ l \in Seq(Tokens) /\ Append(l, sep) \in Seq(Tokens)
        BY <3>2, <3>3
      <4>2. Listing(counted') = Append(Append(l, sep), f)
        BY <3>2
      <4> HIDE DEF e, l
      <4>3. e \o Append(l, sep) = Append(e \o l, sep)
        BY <3>2, <4>1, BehindEarlier
      <4>4. e \o Append(Append(l, sep), f) = Append(e \o Append(l, sep), f)
        BY <1>1, <4>1, BehindEarlier
      <4> QED
        BY <4>2, <4>3, <4>4 DEF e, l
    <3> QED
      BY <1>3, <2>1, <3>1, <3>4
  <2> QED
    BY <1>2, <1>3, <2>1, <2>2, <2>3 DEF Logged
<1>5. CASE ~options.log
  <2>1. LogRecord(log, f) = {Outcome(log, TRUE)}
    BY <1>5 DEF LogRecord
  <2>2. log' = log
    BY <1>3, <2>1 DEF Outcome
  <2> QED
    BY <1>1, <1>2, <1>5, <2>2 DEF Logged
<1> QED
  BY <1>4, <1>5

\* Steps that leave the queue, the log and the status alone.
LEMMA StatusStays ==
  ASSUME StatusInv, UNCHANGED <<queue, counted, uncarved, carveFailed, output, exit, options>>,
         stage' = "exited" <=> stage = "exited",
         stage' \in {"queue", "close"} => stage \in {"queue", "close"}
  PROVE  StatusInv'
<1>1. Accounted' /\ Remembered'
  BY DEF StatusInv, Accounted, Remembered, Waits, queue
<1>2. Logged' /\ Ended'
  BY DEF StatusInv, Logged, Ended, output
<1> QED
  BY <1>1, <1>2 DEF StatusInv

\* The program gives up.
LEMMA StatusOfFailure ==
  ASSUME StatusInv, UNCHANGED <<queue, counted, uncarved, carveFailed, output, options>>,
         exit' = 1, stage' = "exited"
  PROVE  StatusInv'
<1>1. Accounted' /\ Remembered'
  BY DEF StatusInv, Accounted, Remembered, Waits, queue
<1>2. Logged' /\ Ended'
  BY DEF StatusInv, Logged, Ended, output, Running
<1> QED
  BY <1>1, <1>2 DEF StatusInv

\* Steps that move files of the queue, or report one unread, and no more.
LEMMA StatusOfMove ==
  ASSUME StatusInv, UNCHANGED <<stage, seen, listed, counted, uncarved, carveFailed, output, exit, options>>,
         unread \subseteq unread', \A p : Waits(p) => Waits(p)' \/ p \in unread'
  PROVE  StatusInv'
<1>1. Accounted' /\ Remembered'
  BY DEF StatusInv, Accounted, Remembered
<1>2. Logged' /\ Ended'
  BY DEF StatusInv, Logged, Ended, output
<1> QED
  BY <1>1, <1>2 DEF StatusInv

\* What process_result lists is seen.
LEMMA ProcessingAccounts ==
  ASSUME QueueInv, StatusInv, NEW a, NEW f \in FilePaths, IsAnalysisOf(a, f),
         ProcessResult(a), unread' = unread,
         \A p : (\E i \in DOMAIN batch : batch[i].path = p) =>
                  p = f \/ \E i \in DOMAIN batch' : batch'[i].path = p
  PROVE  Accounted'
<1>1. /\ disk \subseteq Paths /\ IsFiniteSet(disk) /\ pending \in Seq(FilePaths) /\ counted \in Seq(FilePaths)
  BY DEF QueueInv, QueueTypeOK
<1>2. PICK files \in Seq(FilePaths) :
        /\ pending' = pending \o files /\ seen' = seen \cup ToSet(files)
        /\ counted' = Append(counted, f)
        /\ \A i \in DOMAIN files : files[i] \in disk /\ Nests(f, files[i])
        /\ \A p \in listed' \ listed : p \in disk /\ Nests(f, p) /\ p \in seen \cup ToSet(files)
  BY <1>1, ProcessingQueues
<1>3. ASSUME NEW p \in Paths, Nests(f, p) PROVE p # MainFile
  <2>1. Len(p) >= 2 /\ Len(p) \in Nat
    BY <1>3, NestedIsLonger
  <2>2. \A n \in Nat : n >= 2 => n # 1
    OBVIOUS
  <2> QED
    BY <2>1, <2>2, MainIsPath
<1>4. listed' \subseteq seen' \ {MainFile}
  BY <1>1, <1>2, <1>3 DEF StatusInv, Accounted
<1>5. ASSUME NEW p \in seen' \ {MainFile} PROVE p \in ToSet(counted') \/ p \in unread' \/ Waits(p)'
  <2>1. /\ \A i \in DOMAIN pending : i \in DOMAIN pending' /\ pending'[i] = pending[i]
        /\ \A i \in DOMAIN files : Len(pending) + i \in DOMAIN pending' /\ pending'[Len(pending) + i] = files[i]
    BY <1>1, <1>2, Concatenated
  <2>2. ToSet(pending) \subseteq ToSet(pending') /\ ToSet(files) \subseteq ToSet(pending')
    BY <2>1 DEF ToSet
  <2>3. ToSet(counted) \subseteq ToSet(counted') /\ f \in ToSet(counted')
    <3>1. /\ DOMAIN counted' = DOMAIN counted \cup {Len(counted) + 1}
          /\ \A i \in DOMAIN counted : counted'[i] = counted[i]
          /\ counted'[Len(counted) + 1] = f
      BY <1>1, <1>2, Appended
    <3> QED
      BY <3>1 DEF ToSet
  <2>4. CASE p \in ToSet(files)
    BY <2>2, <2>4 DEF Waits
  <2>5. CASE p \in seen
    <3>1. p \in ToSet(counted) \/ p \in unread \/ Waits(p)
      BY <2>5 DEF StatusInv, Accounted
    <3> QED
      BY <2>2, <2>3, <3>1 DEF Waits
  <2> QED
    BY <1>2, <2>4, <2>5
<1> QED
  BY <1>4, <1>5 DEF Accounted

LEMMA LogEntropyKeepsStatus ==
  ASSUME QueueInv, StatusInv, LogEntropy
  PROVE  StatusInv'
<1>1. /\ stage = "entropy" /\ stage' = "close" /\ counted' = << MainFile >>
      /\ LogsTo(LogRecord(log, MainFile))
      /\ UNCHANGED <<queue, uncarved, carveFailed, exit, options>>
  BY DEF LogEntropy
<1>2. /\ counted = << >> /\ seen \subseteq {MainFile} /\ counted' = Append(counted, MainFile)
      /\ stage # "exited" /\ stage' # "exited"
  BY <1>1 DEF QueueInv, Idle, Early
<1>3. Logged' /\ counted' # << >>
  BY <1>1, <1>2, MainIsPath, LoggingKeepsListing
<1>4. Accounted' /\ Remembered'
  BY <1>1, <1>2 DEF StatusInv, Accounted, Remembered, queue
<1>5. Ended'
  BY <1>1, <1>2, <1>3 DEF StatusInv, Ended, Running
<1> QED
  BY <1>3, <1>4, <1>5 DEF StatusInv

LEMMA MainCarvedKeepsStatus ==
  ASSUME QueueInv, StatusInv, MainCarved
  PROVE  StatusInv'
<1>1. /\ stage = "carve" /\ stage' = "process"
      /\ UNCHANGED <<queue, counted, output, exit, options>>
      /\ carveFailed' = (carveFailed \/ PartMissing)
      /\ uncarved' = IF PartMissing THEN uncarved \cup {MainFile} ELSE uncarved
  BY DEF MainCarved
<1>2. Accounted'
  BY <1>1 DEF StatusInv, Accounted, Waits, queue
<1>3. Remembered'
  BY <1>1 DEF StatusInv, Remembered
<1>4. Logged' /\ Ended'
  BY <1>1 DEF StatusInv, Logged, Ended, output, Running
<1> QED
  BY <1>2, <1>3, <1>4 DEF StatusInv

LEMMA ProcessMainKeepsStatus ==
  ASSUME QueueInv, StatusInv, ProcessMain
  PROVE  StatusInv'
<1>1. /\ stage = "process" /\ stage' = "queue" /\ ProcessResult(current)
      /\ UNCHANGED <<batch, unread, uncarved, carveFailed, exit, options>>
  BY DEF ProcessMain
<1>2. IsAnalysisOf(current, MainFile) /\ current.path = MainFile
  BY DEF QueueInv, QueueTypeOK, IsAnalysisOf
<1>3. Accounted'
  <2>1. /\ unread' = unread
        /\ \A p : (\E i \in DOMAIN batch : batch[i].path = p) =>
                 p = MainFile \/ \E i \in DOMAIN batch' : batch'[i].path = p
    BY <1>1, MainIsPath
  <2> QED
    BY <1>1, <1>2, <2>1, MainIsPath, ProcessingAccounts
<1>4. Logged' /\ counted' # << >>
  <2>1. LogsTo(LogRecord(log, MainFile)) /\ counted' = Append(counted, MainFile)
    BY <1>1, <1>2 DEF ProcessResult
  <2>2. stage # "exited" /\ stage' # "exited" /\ options' = options
    BY <1>1
  <2> QED
    BY <2>1, <2>2, MainIsPath, LoggingKeepsListing
<1>5. Remembered' /\ Ended'
  BY <1>1, <1>4 DEF StatusInv, Remembered, Ended, Running
<1> QED
  BY <1>3, <1>4, <1>5 DEF StatusInv

LEMMA CollectKeepsStatus ==
  ASSUME QueueInv, StatusInv, Collect
  PROVE  StatusInv'
<1> DEFINE f == Head(batch).path
           a == Head(batch).analysis
<1>1. /\ stage = "queue" /\ stage' = stage /\ batch # << >> /\ batch' = Tail(batch)
      /\ batch \in Seq(LaunchedFiles)
      /\ ProcessResult(a) /\ carveFailed' = (carveFailed \/ ~Head(batch).carved)
      /\ uncarved' = IF Head(batch).carved THEN uncarved ELSE uncarved \cup {Head(batch).path}
      /\ UNCHANGED <<unread, exit, options>>
  BY DEF Collect, QueueInv, QueueTypeOK
<1>2. /\ 1 \in DOMAIN batch /\ Head(batch) = batch[1] /\ batch[1] \in LaunchedFiles
      /\ batch' \in Seq(LaunchedFiles)
  BY <1>1, Collected
<1>3. f \in FilePaths /\ IsAnalysisOf(a, f) /\ a.path = f
  <2>1. f \in FilePaths /\ f = batch[1].path /\ a = batch[1].analysis
    BY <1>2 DEF LaunchedFiles
  <2> QED
    BY <1>2, <2>1 DEF QueueInv, QueueTypeOK, IsAnalysisOf
<1>4. ASSUME NEW i \in DOMAIN batch
      PROVE  batch[i].path = f \/ \E j \in DOMAIN batch' : batch'[j].path = batch[i].path
  BY <1>1, <1>2, CollectedOthers
<1> HIDE DEF f, a
<1>5. Accounted'
  BY <1>1, <1>3, <1>4, ProcessingAccounts
<1>6. Logged' /\ counted' # << >>
  <2>1. LogsTo(LogRecord(log, f)) /\ counted' = Append(counted, f)
    BY <1>1, <1>3 DEF ProcessResult
  <2>2. stage # "exited" /\ stage' # "exited" /\ options' = options
    BY <1>1
  <2> QED
    BY <1>3, <2>1, <2>2, LoggingKeepsListing
<1>7. Remembered'
  BY <1>1 DEF StatusInv, Remembered
<1>8. Ended'
  BY <1>1, <1>6 DEF StatusInv, Ended, Running
<1> QED
  BY <1>5, <1>6, <1>7, <1>8 DEF StatusInv

LEMMA LaunchKeepsStatus ==
  ASSUME QueueInv, StatusInv, Launch
  PROVE  StatusInv'
<1> DEFINE n == Smaller(Workers, Len(pending))
<1>1. /\ pending \in Seq(FilePaths) /\ batch = << >>
      /\ batch' = [i \in 1 .. n |-> [path |-> pending[i], at |-> "open", carved |-> TRUE,
                                     analysis |-> Analysis(pending[i], FALSE, {})]]
      /\ pending' = SubSeq(pending, n + 1, Len(pending))
      /\ UNCHANGED <<stage, seen, unread, listed, counted, uncarved, carveFailed, output, exit, options>>
  BY DEF Launch, QueueInv, QueueTypeOK
<1>2. n \in 0 .. Len(pending) /\ Len(pending) \in Nat /\ DOMAIN pending = 1 .. Len(pending)
  BY <1>1, CommandAssumption DEF CommandAssumption, Smaller
<1> HIDE DEF n
<1>3. ASSUME NEW p, NEW i \in DOMAIN pending, p = pending[i] PROVE Waits(p)'
  <2>1. CASE i <= n
    <3>1. i \in DOMAIN batch' /\ batch'[i].path = p
      BY <1>1, <1>2, <1>3, <2>1
    <3> QED
      BY <3>1 DEF Waits
  <2>2. CASE i > n
    <3>1. /\ DOMAIN pending' = 1 .. Len(pending) - n
          /\ \A k \in DOMAIN pending' : pending'[k] = pending[n + k]
      BY <1>1, <1>2, Rested
    <3>2. i - n \in 1 .. Len(pending) - n /\ n + (i - n) = i
      BY <1>2, <2>2
    <3>3. i - n \in DOMAIN pending' /\ pending'[i - n] = p
      BY <1>3, <3>1, <3>2
    <3> QED
      BY <3>3 DEF Waits, ToSet
  <2> QED
    BY <1>2, <2>1, <2>2
<1>4. ASSUME NEW p, Waits(p) PROVE Waits(p)'
  <2>1. PICK i \in DOMAIN pending : p = pending[i]
    BY <1>1, <1>4 DEF Waits, ToSet
  <2> QED
    BY <1>3, <2>1
<1> QED
  BY <1>1, <1>4, StatusOfMove

LEMMA WorkersKeepStatus ==
  ASSUME QueueInv, StatusInv, NEW i \in DOMAIN batch, WorkerOpens(i) \/ WorkerAnalyses(i)
  PROVE  StatusInv'
<1>1. UNCHANGED <<stage, pending, seen, unread, listed, counted, uncarved, carveFailed, output, exit, options>>
  BY DEF WorkerOpens, WorkerAnalyses
<1>2. batch \in Seq(LaunchedFiles) /\ batch[i] \in LaunchedFiles
  BY DEF QueueInv, QueueTypeOK
<1>3. PICK w : batch' = [batch EXCEPT ![i] = w] /\ w.path = batch[i].path
  <2>1. CASE WorkerOpens(i)
    <3>1. PICK at : batch' = [batch EXCEPT ![i] = [batch[i] EXCEPT !.at = at]]
      BY <2>1 DEF WorkerOpens
    <3>2. [batch[i] EXCEPT !.at = at].path = batch[i].path
      BY <1>2 DEF LaunchedFiles
    <3> QED
      BY <3>1, <3>2
  <2>2. CASE WorkerAnalyses(i)
    <3>1. PICK a, carved : batch' = [batch EXCEPT ![i] = Analysed(batch[i], a, carved)]
      BY <2>2 DEF WorkerAnalyses
    <3>2. Analysed(batch[i], a, carved).path = batch[i].path
      BY <1>2 DEF LaunchedFiles, Analysed
    <3> QED
      BY <3>1, <3>2
  <2> QED
    BY <2>1, <2>2
<1>4. DOMAIN batch' = DOMAIN batch /\ \A j \in DOMAIN batch : batch'[j].path = batch[j].path
  BY <1>2, <1>3
<1>5. \A p : Waits(p) => Waits(p)' \/ p \in unread'
  BY <1>1, <1>4 DEF Waits
<1> QED
  BY <1>1, <1>5, StatusOfMove

LEMMA CollectUnreadKeepsStatus ==
  ASSUME QueueInv, StatusInv, CollectUnread
  PROVE  StatusInv'
<1>1. /\ batch # << >> /\ batch' = Tail(batch) /\ batch \in Seq(LaunchedFiles)
      /\ unread' = unread \cup {Head(batch).path}
      /\ UNCHANGED <<stage, pending, seen, listed, counted, uncarved, carveFailed, output, exit, options>>
  BY DEF CollectUnread, QueueInv, QueueTypeOK
<1>2. ASSUME NEW i \in DOMAIN batch
      PROVE  batch[i].path = Head(batch).path \/ \E j \in DOMAIN batch' : batch'[j].path = batch[i].path
  BY <1>1, CollectedOthers
<1>3. \A p : Waits(p) => Waits(p)' \/ p \in unread'
  BY <1>1, <1>2 DEF Waits
<1> QED
  BY <1>1, <1>3, StatusOfMove

LEMMA CloseKeepsStatus ==
  ASSUME QueueInv, StatusInv, Close
  PROVE  StatusInv'
<1>1. /\ stage = "close" /\ stage' = "exited" /\ LogsTo(CloseLog(log))
      /\ exit' = IF carveFailed \/ logFailed' THEN 1 ELSE 0
      /\ UNCHANGED <<queue, counted, uncarved, carveFailed, options>>
  BY DEF Close
<1>2. Accounted' /\ Remembered'
  BY <1>1 DEF StatusInv, Accounted, Remembered, Waits, queue
<1>3. PICK o : o \in CloseLog(log) /\ log' = o.log /\ logFailed' = (logFailed \/ ~o.ok)
  BY <1>1 DEF LogsTo
<1>4. log \in Logs /\ counted # << >> /\ counted \in Seq(FilePaths)
  BY <1>1 DEF StatusInv, Logged, Ended, QueueInv, QueueTypeOK
<1>5. o.log \in Logs /\ (options.log /\ ~logFailed' => o.log.text = o.log.earlier \o ArrayOf(counted))
  <2>1. CASE ~options.log \/ ~log.started \/ log.closed
    <3>1. CloseLog(log) = {Outcome(log, TRUE)}
      BY <2>1 DEF CloseLog
    <3>2. o.log = log
      BY <1>3, <3>1 DEF Outcome
    <3> QED
      BY <1>1, <1>3, <1>4, <2>1, <3>2 DEF StatusInv, Logged
  <2>2. CASE ~(~options.log \/ ~log.started \/ log.closed)
    <3> DEFINE l == [log EXCEPT !.closed = TRUE]
    <3>1. l \in Logs /\ l.text = log.text /\ l.earlier = log.earlier
      BY <1>4 DEF Logs
    <3>2. o \in Write(l, Closing)
      BY <1>3, <2>2 DEF CloseLog
    <3> HIDE DEF l
    <3>3. o.log \in Logs /\ o.log.earlier = log.earlier /\ (o.ok => o.log.text = Append(log.text, Closing))
      BY <3>1, <3>2, TokensAreSequences, WriteOutcomes
    <3>4. ASSUME ~logFailed' PROVE o.log.text = o.log.earlier \o ArrayOf(counted)
      <4>1. o.ok /\ log.text = log.earlier \o Listing(counted) /\ log.earlier \in Seq(Tokens)
        BY <1>1, <1>3, <1>4, <2>2, <3>4 DEF StatusInv, Logged, Logs
      <4>2. Listing(counted) \in Seq(Tokens)
        BY <1>4, MainIsPath, ListingGrows
      <4>3. ArrayOf(counted) = Listing(counted) \o << Closing >>
        BY DEF ArrayOf, Listing
      <4>4. Append(Listing(counted), Closing) = Listing(counted) \o << Closing >>
        BY <4>2, TokensAreSequences, AppendIsConcat
      <4> QED
        <5>1. Append(log.earlier \o Listing(counted), Closing) = log.earlier \o Append(Listing(counted), Closing)
          BY <4>1, <4>2, BehindEarlier, TokensAreSequences
        <5>2. o.log.text = Append(log.earlier \o Listing(counted), Closing) /\ o.log.earlier = log.earlier
          BY <3>3, <4>1
        <5> QED
          BY <4>3, <4>4, <5>1, <5>2
    <3> QED
      BY <3>3, <3>4
  <2> QED
    BY <2>1, <2>2
<1>6. Logged'
  BY <1>1, <1>3, <1>5 DEF Logged
<1>7. Ended'
  BY <1>1, <1>3, <1>5 DEF StatusInv, Remembered, Ended
<1> QED
  BY <1>2, <1>6, <1>7 DEF StatusInv

LEMMA StatusInvInit ==
  ASSUME Init
  PROVE  StatusInv
<1>1. /\ stage = "open" /\ seen \subseteq {MainFile} /\ counted = << >> /\ listed = {} /\ uncarved = {}
      /\ exit = Running
      /\ \E r \in Runs : log = [started |-> FALSE, closed |-> FALSE, stream |-> "closed",
                                 text |-> r.earlier, earlier |-> r.earlier]
  BY DEF Init
<1>2. Accounted /\ Remembered
  BY <1>1 DEF Accounted, Remembered
<1>3. log \in Logs /\ log.text = log.earlier /\ ~log.started /\ ~log.closed /\ log.earlier \in Seq(Tokens)
  <2>1. \A r \in Runs : r.earlier \in Seq(Tokens)
    BY CommandAssumption DEF CommandAssumption, Tokens
  <2> QED
    BY <1>1, <2>1 DEF Logs
<1>4. Listing(counted) = << >> /\ log.text = log.earlier \o Listing(counted)
  <2>1. Len(counted) = 0 /\ 1 .. 2 * 0 = {}
    BY <1>1
  <2>2. Listing(counted) \in Seq(Tokens) /\ Len(Listing(counted)) = 0
    BY <2>1 DEF Listing
  <2> QED
    BY <1>3, <2>2, EmptySeq, ConcatEmptySeq
<1>5. Logged
  BY <1>1, <1>3, <1>4 DEF Logged
<1>6. Ended
  BY <1>1 DEF Ended, Running
<1> QED
  BY <1>2, <1>5, <1>6 DEF StatusInv

LEMMA StatusInvStep ==
  ASSUME QueueInv, StatusInv, [Next]_vars
  PROVE  StatusInv'
<1>1. CASE OpenMain
  <2>1. stage = "open" /\ UNCHANGED <<queue, counted, uncarved, carveFailed, output, options>>
    BY <1>1 DEF OpenMain
  <2>2. CASE exit' = 1 /\ stage' = "exited"
    BY <2>1, <2>2, StatusOfFailure
  <2>3. CASE exit' = exit /\ stage' \in {"entropy", "analyse"}
    BY <2>1, <2>3, StatusStays
  <2> QED
    BY <1>1, <2>2, <2>3 DEF OpenMain
<1>2. CASE PlotEntropy
  BY <1>2, StatusStays DEF PlotEntropy
<1>3. CASE PlotFails
  BY <1>3, StatusOfFailure DEF PlotFails
<1>4. CASE LogEntropy
  BY <1>4, LogEntropyKeepsStatus
<1>5. CASE AnalyseMain
  BY <1>5, StatusStays DEF AnalyseMain
<1>6. CASE CarveMain
  BY <1>6, StatusStays DEF CarveMain
<1>7. CASE MainCarved
  BY <1>7, MainCarvedKeepsStatus
<1>8. CASE ProcessMain
  BY <1>8, ProcessMainKeepsStatus
<1>9. CASE Launch
  BY <1>9, LaunchKeepsStatus
<1>10. CASE \E i \in DOMAIN batch : WorkerOpens(i) \/ WorkerAnalyses(i)
  BY <1>10, WorkersKeepStatus
<1>11. CASE CollectUnread
  BY <1>11, CollectUnreadKeepsStatus
<1>12. CASE Collect
  BY <1>12, CollectKeepsStatus
<1>13. CASE QueueEmpty
  BY <1>13, StatusStays DEF QueueEmpty
<1>14. CASE Close
  BY <1>14, CloseKeepsStatus
<1>15. CASE ExtractorWrites
  BY <1>15, StatusStays DEF ExtractorWrites
<1>16. CASE Exited \/ UNCHANGED vars
  BY <1>16, StatusStays DEF Exited, vars
<1> QED
  BY <1>1, <1>2, <1>3, <1>4, <1>5, <1>6, <1>7, <1>8, <1>9, <1>10, <1>11, <1>12, <1>13, <1>14,
     <1>15, <1>16 DEF Next, Step

\* Status 0 is earned: for any run and any outcome of its scans, extractions and
\* writes, it says that what this run logged is one whole array behind what the file
\* had, that nothing was refused a carving, that no path an extraction brought out
\* was forgotten, and, unless files nested, that none was brought out again.
THEOREM StatusIsTrue == Spec => []StatusZeroIsTrue
<1>1. Init => QueueInv /\ StatusInv
  BY QueueInvInit, StatusInvInit
<1>2. QueueInv /\ StatusInv /\ [Next]_vars => (QueueInv /\ StatusInv)'
  BY QueueInvStep, StatusInvStep
<1>3. QueueInv /\ StatusInv => StatusZeroIsTrue
  <2> SUFFICES ASSUME QueueInv, StatusInv, exit = 0
               PROVE  /\ options.log => log.text = log.earlier \o ArrayOf(counted)
                      /\ uncarved = {}
                      /\ listed \subseteq ToSet(counted) \cup unread
                      /\ nested \/ remade = {}
    BY DEF StatusZeroIsTrue
  <2>1. stage = "exited"
    BY DEF StatusInv, Ended, Running
  <2>2. pending = << >> /\ batch = << >>
    BY <2>1 DEF QueueInv, Idle
  <2>3. \A p : ~Waits(p)
    BY <2>2 DEF Waits, ToSet
  <2>4. nested \/ remade = {}
    BY DEF QueueInv, Kept
  <2> QED
    BY <2>3, <2>4 DEF StatusInv, Accounted, Ended
<1> QED
  BY <1>1, <1>2, <1>3, PTL DEF Spec

-----------------------------------------------------------------------------
(* The directory of an extraction: following a path always comes to an end. *)

Places == Seq(Root!Component)

IsEntry(e, depth) ==
  /\ e.kind \in {"directory", "file", "link"}
  /\ e.kind = "file" => e \in [kind : {"file"}, data : Seq({"written"}), exec : BOOLEAN]
  /\ e.kind = "link" => e.up \in Nat /\ e.up < depth /\ e.down \in Places

Prefix(p, k) == SubSeq(p, 1, k)

\* A tree: every entry is in a directory that is there, and no link leads
\* further up than it is deep.
Tree(f) ==
  /\ DOMAIN f \subseteq Places \ {<< >>}
  /\ \A p \in DOMAIN f : /\ IsEntry(f[p], Len(p))
                         /\ \A k \in 1 .. Len(p) - 1 : Root!IsKind(f, Prefix(p, k), "directory")

\* The prefixes of a path.
LEMMA PrefixAt ==
  ASSUME NEW S, NEW p \in Seq(S), NEW k \in 0 .. Len(p)
  PROVE  /\ Prefix(p, k) \in Seq(S) /\ Len(Prefix(p, k)) = k
         /\ \A i \in 1 .. k : Prefix(p, k)[i] = p[i]
         /\ k = Len(p) => Prefix(p, k) = p
<1>1. \A i \in 1 .. k : p[i] \in S
  OBVIOUS
<1>2. k \in Int /\ 1 \in Int /\ k >= 0
  OBVIOUS
<1>3. /\ Prefix(p, k) \in Seq(S) /\ Len(Prefix(p, k)) = IF 1 <= k THEN k - 1 + 1 ELSE 0
      /\ \A i \in 1 .. k - 1 + 1 : Prefix(p, k)[i] = p[1 + i - 1]
  BY <1>1, <1>2, SubSeqProperties DEF Prefix
<1>4. Len(Prefix(p, k)) = k /\ \A i \in 1 .. k : Prefix(p, k)[i] = p[i]
  BY <1>2, <1>3
<1>5. k = Len(p) => Prefix(p, k) = p
  BY SubSeqFull DEF Prefix
<1> QED
  BY <1>3, <1>4, <1>5

\* Two places with the same prefix.
LEMMA SamePrefix ==
  ASSUME NEW S, NEW p \in Seq(S), NEW q \in Seq(S), NEW k \in 0 .. Len(p), k <= Len(q),
         \A i \in 1 .. k : p[i] = q[i]
  PROVE  Prefix(p, k) = Prefix(q, k)
<1>1. k \in 0 .. Len(q)
  OBVIOUS
<1>2. /\ Prefix(p, k) \in Seq(S) /\ Len(Prefix(p, k)) = k /\ \A i \in 1 .. k : Prefix(p, k)[i] = p[i]
  BY PrefixAt
<1>3. /\ Prefix(q, k) \in Seq(S) /\ Len(Prefix(q, k)) = k /\ \A i \in 1 .. k : Prefix(q, k)[i] = q[i]
  BY <1>1, PrefixAt
<1> QED
  BY <1>2, <1>3, SeqEqual

Rest(p, k) == SubSeq(p, k + 1, Len(p))

\* A path in two parts, and the next name moved from the second to the first.
LEMMA PathInParts ==
  ASSUME NEW S, NEW p \in Seq(S)
  PROVE  /\ Prefix(p, 0) = << >> /\ Rest(p, 0) = p
         /\ Rest(p, Len(p)) = << >>
         /\ \A k \in 0 .. Len(p) : Rest(p, k) \in Seq(S)
         /\ \A k \in 0 .. Len(p) - 1 :
              /\ Rest(p, k) # << >> /\ Tail(Rest(p, k)) = Rest(p, k + 1)
              /\ Append(Prefix(p, k), Head(Rest(p, k))) = Prefix(p, k + 1)
<1>1. Prefix(p, 0) = << >> /\ Rest(p, 0) = p /\ Rest(p, Len(p)) = << >>
  <2>1. 0 < 1 /\ Len(p) < Len(p) + 1 /\ Len(p) \in Int /\ 0 + 1 = 1
    OBVIOUS
  <2>2. SubSeq(p, 1, 0) = << >> /\ SubSeq(p, Len(p) + 1, Len(p)) = << >>
    BY <2>1, SubSeqEmpty
  <2> QED
    BY <2>1, <2>2, SubSeqFull DEF Prefix, Rest
<1>2. ASSUME NEW k \in 0 .. Len(p)
      PROVE  /\ Rest(p, k) \in Seq(S) /\ Len(Rest(p, k)) = Len(p) - k
             /\ \A i \in 1 .. Len(p) - k : Rest(p, k)[i] = p[k + i]
  <2>1. \A i \in k + 1 .. Len(p) : p[i] \in S
    OBVIOUS
  <2>2. /\ Rest(p, k) \in Seq(S)
        /\ Len(Rest(p, k)) = IF k + 1 <= Len(p) THEN Len(p) - (k + 1) + 1 ELSE 0
        /\ \A i \in 1 .. Len(p) - (k + 1) + 1 : Rest(p, k)[i] = p[(k + 1) + i - 1]
    BY <2>1, SubSeqProperties DEF Rest
  <2>3. k \in Int /\ Len(p) \in Int /\ k <= Len(p)
    OBVIOUS
  <2>4. Len(Rest(p, k)) = Len(p) - k
    BY <2>2, <2>3
  <2>5. ASSUME NEW i \in 1 .. Len(p) - k PROVE Rest(p, k)[i] = p[k + i]
    <3>1. i \in 1 .. Len(p) - (k + 1) + 1 /\ (k + 1) + i - 1 = k + i
      BY <2>3
    <3>2. Rest(p, k)[i] = p[(k + 1) + i - 1]
      BY <2>2, <3>1
    <3> QED
      BY <3>1, <3>2
  <2> QED
    BY <2>2, <2>4, <2>5
<1>3. ASSUME NEW k \in 0 .. Len(p) - 1
      PROVE  Rest(p, k) # << >> /\ Tail(Rest(p, k)) = Rest(p, k + 1)
  <2>1. k \in 0 .. Len(p) /\ k + 1 \in 0 .. Len(p) /\ Len(p) - k >= 1 /\ Len(p) \in Nat /\ k \in Nat
    OBVIOUS
  <2>2. Rest(p, k) # << >>
    BY <1>2, <2>1
  <2> DEFINE r == Rest(p, k)
             t == Rest(p, k + 1)
  <2>3. /\ r \in Seq(S) /\ Len(r) = Len(p) - k
        /\ \A i \in 1 .. Len(p) - k : r[i] = p[k + i]
        /\ t \in Seq(S) /\ Len(t) = Len(p) - (k + 1)
        /\ \A i \in 1 .. Len(p) - (k + 1) : t[i] = p[(k + 1) + i]
    BY <1>2, <2>1
  <2> HIDE DEF r, t
  <2>4. /\ Tail(r) \in Seq(S) /\ Len(Tail(r)) = Len(r) - 1
        /\ \A i \in 1 .. Len(Tail(r)) : Tail(r)[i] = r[i + 1]
    BY <2>2, <2>3, HeadTailProperties DEF r
  <2>5. ASSUME NEW i \in 1 .. Len(Tail(r)) PROVE Tail(r)[i] = t[i]
    <3>1. i \in 1 .. Len(p) - (k + 1) /\ i + 1 \in 1 .. Len(p) - k /\ k + (i + 1) = (k + 1) + i
      BY <2>1, <2>3, <2>4
    <3> QED
      BY <2>3, <2>4, <3>1
  <2>6. Len(Tail(r)) = Len(t)
    BY <2>1, <2>3, <2>4
  <2>7. Tail(r) = t
    BY <2>3, <2>4, <2>5, <2>6, SeqEqual
  <2> QED
    BY <2>2, <2>7 DEF r, t
<1>4. ASSUME NEW k \in 0 .. Len(p) - 1
      PROVE  Append(Prefix(p, k), Head(Rest(p, k))) = Prefix(p, k + 1)
  <2>1. k \in 0 .. Len(p) /\ k + 1 \in 0 .. Len(p) /\ 1 \in 1 .. Len(p) - k /\ k \in Nat /\ p[k + 1] \in S
    OBVIOUS
  <2>2. Head(Rest(p, k)) = p[k + 1]
    BY <1>2, <1>3, <2>1
  <2> DEFINE a == Prefix(p, k)
             b == Prefix(p, k + 1)
             c == Append(a, p[k + 1])
  <2>3. /\ a \in Seq(S) /\ Len(a) = k /\ \A i \in 1 .. k : a[i] = p[i]
        /\ b \in Seq(S) /\ Len(b) = k + 1 /\ \A i \in 1 .. k + 1 : b[i] = p[i]
    BY <2>1, PrefixAt
  <2> HIDE DEF a, b
  <2>4. /\ c \in Seq(S) /\ Len(c) = k + 1 /\ \A i \in 1 .. k : c[i] = a[i]
        /\ c[k + 1] = p[k + 1]
    BY <2>1, <2>3, AppendProperties
  <2> HIDE DEF c
  <2>5. ASSUME NEW i \in 1 .. Len(c) PROVE c[i] = b[i]
    <3>1. i \in 1 .. k \/ i = k + 1
      BY <2>1, <2>4
    <3> QED
      BY <2>1, <2>3, <2>4, <3>1
  <2>6. c = b
    BY <2>3, <2>4, <2>5, SeqEqual
  <2> QED
    BY <2>2, <2>6 DEF a, b, c
<1> QED
  BY <1>1, <1>2, <1>3, <1>4

-----------------------------------------------------------------------------
(* Following a path: what every step of it keeps, its end has.             *)

\* The system goes on within the tree, with fewer links or names to follow.
LEMMA AdvanceStays ==
  ASSUME NEW f, Tree(f), NEW w \in Root!Positions, ~Root!Ends(f, w)
  PROVE  /\ Root!Advance(f, w) \in Root!Positions
         /\ \/ Root!Advance(f, w).links < w.links
            \/ /\ Root!Advance(f, w).links = w.links
               /\ Len(Root!Advance(f, w).rest) < Len(w.rest)
<1> DEFINE h == Root!Here(w)
           C == Root!Component
<1>1. /\ w.links \in 0 .. Root!MaxLinks /\ w.at \in Seq(C) /\ w.rest \in Seq(C)
      /\ 0 .. Root!MaxLinks \subseteq Nat
  BY DEF Root!Positions, Root!MaxLinks
<1>2. w.rest # << >> /\ h \in DOMAIN f
  BY DEF Root!Ends
<1>3. /\ Head(w.rest) \in C /\ Tail(w.rest) \in Seq(C)
      /\ Len(Tail(w.rest)) = Len(w.rest) - 1 /\ Len(w.rest) \in Nat
      /\ h \in Seq(C) /\ Len(h) = Len(w.at) + 1 /\ Len(w.at) \in Nat
  BY <1>1, <1>2, HeadTailProperties, AppendProperties DEF Root!Here
<1>4. IsEntry(f[h], Len(h))
  BY <1>2 DEF Tree
<1> HIDE DEF h, C
<1>5. CASE f[h].kind = "link"
  <2>1. /\ w.links # 0 /\ f[h].up <= Len(w.at)
        /\ f[h].up \in Nat /\ f[h].down \in Seq(C)
    BY <1>3, <1>4, <1>5 DEF Root!Ends, IsEntry, Places, h, C
  <2>2. Len(w.at) - f[h].up \in 0 .. Len(w.at)
    BY <1>3, <2>1
  <2>3. SubSeq(w.at, 1, Len(w.at) - f[h].up) \in Seq(C)
    BY <1>1, <2>2, PrefixAt DEF Prefix
  <2>4. f[h].down \o Tail(w.rest) \in Seq(C)
    BY <1>3, <2>1, ConcatProperties
  <2>5. w.links - 1 \in 0 .. Root!MaxLinks /\ w.links - 1 < w.links
    BY <1>1, <2>1 DEF Root!MaxLinks
  <2>6. Root!Advance(f, w) = [links |-> w.links - 1, at |-> SubSeq(w.at, 1, Len(w.at) - f[h].up),
                              rest |-> f[h].down \o Tail(w.rest)]
    BY <1>5 DEF Root!Advance, h
  <2> QED
    BY <2>3, <2>4, <2>5, <2>6 DEF Root!Positions, C
<1>6. CASE f[h].kind # "link"
  <2>1. Root!Advance(f, w) = [links |-> w.links, at |-> h, rest |-> Tail(w.rest)]
    BY <1>6 DEF Root!Advance, h
  <2>2. Len(Tail(w.rest)) < Len(w.rest)
    BY <1>3
  <2> QED
    BY <1>1, <1>3, <2>1, <2>2 DEF Root!Positions, C
<1> QED
  BY <1>5, <1>6

\* What holds of a position when it holds of the next one holds of them all:
\* on every way a link or a name is used up.
LEMMA WalkInduction ==
  ASSUME NEW f, Tree(f), NEW Good,
         \A w \in Root!Positions :
           (~Root!Ends(f, w) => Root!Advance(f, w) \in Good) => w \in Good
  PROVE  Root!Positions \subseteq Good
<1> DEFINE Bad == Root!Positions \ Good
<1> SUFFICES ASSUME Bad # {} PROVE FALSE
  OBVIOUS
<1>1. \A w \in Root!Positions : w.links \in Nat /\ Len(w.rest) \in Nat
  BY DEF Root!Positions, Root!MaxLinks
<1> DEFINE L == {w.links : w \in Bad}
<1>2. PICK n \in L : \A m \in L : n <= m
  <2>1. L \subseteq Nat /\ L # {}
    BY <1>1
  <2> HIDE DEF L
  <2> QED
    BY <2>1, LeastNatural
<1> DEFINE M == {Len(w.rest) : w \in {x \in Bad : x.links = n}}
<1>3. PICK k \in M : \A m \in M : k <= m
  <2>1. M \subseteq Nat /\ M # {}
    BY <1>1, <1>2
  <2> HIDE DEF M
  <2> QED
    BY <2>1, LeastNatural
<1>4. PICK w \in Bad : w.links = n /\ Len(w.rest) = k
  BY <1>3
<1>5. ~Root!Ends(f, w) /\ Root!Advance(f, w) \notin Good
  BY <1>4
<1> DEFINE a == Root!Advance(f, w)
<1>6. /\ a \in Bad
      /\ a.links < n \/ (a.links = n /\ Len(a.rest) < k)
  BY <1>4, <1>5, AdvanceStays
<1>7. a.links \in L /\ (a.links = n => Len(a.rest) \in M)
  BY <1>6
<1>8. a.links \in Nat /\ n \in Nat /\ k \in Nat /\ Len(a.rest) \in Nat
  BY <1>1, <1>4, <1>6
<1> HIDE DEF a, L, M
<1> QED
  BY <1>2, <1>3, <1>6, <1>7, <1>8

\* A way from w on which the system goes on n times and then ends with v.
Way(f, w, v, n, t) ==
  /\ t[0] = w /\ Root!Ends(f, t[n]) /\ v = Root!End(f, t[n])
  /\ \A i \in 0 .. n - 1 : ~Root!Ends(f, t[i]) /\ t[i + 1] = Root!Advance(f, t[i])

Leads(f, w, v) == \E n \in Nat : \E t \in [0 .. n -> Root!Positions] : Way(f, w, v, n, t)

LEMMA LeadsFromEnd ==
  ASSUME NEW f, NEW w \in Root!Positions, Root!Ends(f, w), NEW v
  PROVE  Leads(f, w, v) <=> v = Root!End(f, w)
<1>1. ASSUME Leads(f, w, v) PROVE v = Root!End(f, w)
  <2>0. PICK n \in Nat : \E t \in [0 .. n -> Root!Positions] : Way(f, w, v, n, t)
    BY <1>1 DEF Leads
  <2>1. PICK t \in [0 .. n -> Root!Positions] : Way(f, w, v, n, t)
    BY <2>0
  <2>2. n = 0
    <3>1. n # 0 => 0 \in 0 .. n - 1
      OBVIOUS
    <3> QED
      BY <2>1, <3>1 DEF Way
  <2> QED
    BY <2>1, <2>2 DEF Way
<1>2. ASSUME v = Root!End(f, w) PROVE Leads(f, w, v)
  <2> DEFINE t == [i \in 0 .. 0 |-> w]
  <2>1. t \in [0 .. 0 -> Root!Positions] /\ 0 \in Nat /\ t[0] = w /\ 0 .. 0 - 1 = {}
    OBVIOUS
  <2> HIDE DEF t
  <2>2. Way(f, w, v, 0, t)
    BY <1>2, <2>1 DEF Way
  <2> QED
    BY <2>1, <2>2 DEF Leads
<1> QED
  BY <1>1, <1>2

LEMMA LeadsOn ==
  ASSUME NEW f, NEW w \in Root!Positions, ~Root!Ends(f, w), NEW v,
         Root!Advance(f, w) \in Root!Positions
  PROVE  Leads(f, w, v) <=> Leads(f, Root!Advance(f, w), v)
<1> DEFINE a == Root!Advance(f, w)
<1>1. ASSUME Leads(f, w, v) PROVE Leads(f, a, v)
  <2>0. PICK n \in Nat : \E t \in [0 .. n -> Root!Positions] : Way(f, w, v, n, t)
    BY <1>1 DEF Leads
  <2>1. PICK t \in [0 .. n -> Root!Positions] : Way(f, w, v, n, t)
    BY <2>0
  <2>2. n # 0
    BY <2>1 DEF Way
  <2> DEFINE m == n - 1
             u == [i \in 0 .. m |-> t[i + 1]]
  <2>3. m \in Nat /\ n = m + 1 /\ 0 \in 0 .. m
    BY <2>2
  <2>4. u \in [0 .. m -> Root!Positions] /\ \A i \in 0 .. m : u[i] = t[i + 1]
    BY <2>3
  <2>5. t[1] = a
    BY <2>1, <2>3 DEF Way
  <2> HIDE DEF u, m, a
  <2>6. u[0] = a /\ u[m] = t[n]
    BY <2>3, <2>4, <2>5
  <2>7. ASSUME NEW i \in 0 .. m - 1
        PROVE  ~Root!Ends(f, u[i]) /\ u[i + 1] = Root!Advance(f, u[i])
    <3>1. i + 1 \in 0 .. n - 1 /\ i \in 0 .. m /\ i + 1 \in 0 .. m
      BY <2>3
    <3>2. ~Root!Ends(f, t[i + 1]) /\ t[(i + 1) + 1] = Root!Advance(f, t[i + 1])
      BY <2>1, <3>1 DEF Way
    <3> QED
      BY <2>4, <3>1, <3>2
  <2>8. Way(f, a, v, m, u)
    BY <2>1, <2>6, <2>7 DEF Way
  <2> QED
    BY <2>3, <2>4, <2>8 DEF Leads
<1>2. ASSUME Leads(f, a, v) PROVE Leads(f, w, v)
  <2>0. PICK n \in Nat : \E t \in [0 .. n -> Root!Positions] : Way(f, a, v, n, t)
    BY <1>2 DEF Leads
  <2>1. PICK t \in [0 .. n -> Root!Positions] : Way(f, a, v, n, t)
    BY <2>0
  <2> DEFINE m == n + 1
             u == [i \in 0 .. m |-> IF i = 0 THEN w ELSE t[i - 1]]
  <2>2. m \in Nat /\ n = m - 1 /\ m # 0 /\ 0 \in 0 .. m /\ m \in 0 .. m
    OBVIOUS
  <2>3. ASSUME NEW i \in 0 .. m, i # 0 PROVE i - 1 \in 0 .. n
    BY <2>3
  <2>4. u \in [0 .. m -> Root!Positions]
    BY <2>3
  <2>5. u[0] = w /\ \A i \in 0 .. m : i # 0 => u[i] = t[i - 1]
    OBVIOUS
  <2> HIDE DEF u, m, a
  <2>6. u[m] = t[n]
    BY <2>2, <2>5
  <2>7. ASSUME NEW i \in 0 .. m - 1
        PROVE  ~Root!Ends(f, u[i]) /\ u[i + 1] = Root!Advance(f, u[i])
    <3>1. CASE i = 0
      <4>1. u[0 + 1] = t[0] /\ t[0] = a
        <5>1. 1 \in 0 .. m /\ 0 + 1 = 1 /\ 1 - 1 = 0
          BY <2>2
        <5> QED
          BY <2>1, <2>5, <5>1 DEF Way
      <4> QED
        BY <2>5, <3>1, <4>1 DEF a
    <3>2. CASE i # 0
      <4>1. /\ i - 1 \in 0 .. n - 1 /\ i \in 0 .. m /\ i + 1 \in 0 .. m
            /\ i + 1 # 0 /\ (i - 1) + 1 = i /\ (i + 1) - 1 = i
        BY <2>2, <3>2
      <4>2. ~Root!Ends(f, t[i - 1]) /\ t[(i - 1) + 1] = Root!Advance(f, t[i - 1])
        BY <2>1, <4>1 DEF Way
      <4> QED
        BY <2>5, <3>2, <4>1, <4>2
    <3> QED
      BY <3>1, <3>2
  <2>8. Way(f, w, v, m, u)
    BY <2>1, <2>5, <2>6, <2>7 DEF Way
  <2> QED
    BY <2>2, <2>4, <2>8 DEF Leads
<1> QED
  BY <1>1, <1>2

\* Following is what it says: where the system is once it ends, or where it
\* leads from the next position on.
LEMMA FollowSteps ==
  ASSUME NEW f, Tree(f), NEW w \in Root!Positions
  PROVE  Root!Follow(f)[w] =
           IF Root!Ends(f, w) THEN Root!End(f, w) ELSE Root!Follow(f)[Root!Advance(f, w)]
<1> DEFINE P == Root!Positions
           Good == {x \in P : \E v : \A u : Leads(f, x, u) <=> u = v}
<1>1. ASSUME NEW x \in P, ~Root!Ends(f, x) => Root!Advance(f, x) \in Good
      PROVE  x \in Good
  <2>1. CASE Root!Ends(f, x)
    <3>1. \A u : Leads(f, x, u) <=> u = Root!End(f, x)
      BY <2>1, LeadsFromEnd
    <3> QED
      BY <3>1
  <2>2. CASE ~Root!Ends(f, x)
    <3>1. PICK v : \A u : Leads(f, Root!Advance(f, x), u) <=> u = v
      BY <1>1, <2>2
    <3>2. \A u : Leads(f, x, u) <=> Leads(f, Root!Advance(f, x), u)
      BY <2>2, AdvanceStays, LeadsOn
    <3>3. \A u : Leads(f, x, u) <=> u = v
      BY <3>1, <3>2
    <3> QED
      BY <3>3
  <2> QED
    BY <2>1, <2>2
<1>2. P \subseteq Good
  <2> HIDE DEF Good
  <2> QED
    BY <1>1, WalkInduction
<1> DEFINE to == [x \in P |-> CHOOSE v : Leads(f, x, v)]
<1>3. \A x \in P : \A u : Leads(f, x, u) <=> u = to[x]
  <2> SUFFICES ASSUME NEW x \in P PROVE \A u : Leads(f, x, u) <=> u = to[x]
    OBVIOUS
  <2>1. PICK v : \A u : Leads(f, x, u) <=> u = v
    BY <1>2
  <2>2. to[x] = CHOOSE u : Leads(f, x, u)
    OBVIOUS
  <2>3. Leads(f, x, v)
    BY <2>1
  <2>4. Leads(f, x, CHOOSE u : Leads(f, x, u))
    BY <2>3
  <2>5. to[x] = v
    BY <2>1, <2>2, <2>4
  <2> QED
    BY <2>1, <2>5
<1>4. DOMAIN to = P /\ to = [x \in P |-> to[x]]
  OBVIOUS
<1> HIDE DEF to, Good
<1>5. \A x \in P : to[x] = IF Root!Ends(f, x) THEN Root!End(f, x) ELSE to[Root!Advance(f, x)]
  <2> SUFFICES ASSUME NEW x \in P
               PROVE  to[x] = IF Root!Ends(f, x) THEN Root!End(f, x) ELSE to[Root!Advance(f, x)]
    OBVIOUS
  <2>1. CASE Root!Ends(f, x)
    BY <1>3, <2>1, LeadsFromEnd
  <2>2. CASE ~Root!Ends(f, x)
    <3>1. Root!Advance(f, x) \in P
      BY <2>2, AdvanceStays
    <3>2. Leads(f, x, to[x])
      BY <1>3
    <3>3. Leads(f, Root!Advance(f, x), to[x])
      BY <2>2, <3>1, <3>2, LeadsOn
    <3> QED
      BY <1>3, <2>2, <3>1, <3>3
  <2> QED
    BY <2>1, <2>2
<1>6. to = [x \in P |-> IF Root!Ends(f, x) THEN Root!End(f, x) ELSE to[Root!Advance(f, x)]]
  BY <1>4, <1>5
<1>7. Root!Follow(f) =
        [x \in P |-> IF Root!Ends(f, x) THEN Root!End(f, x) ELSE Root!Follow(f)[Root!Advance(f, x)]]
  BY <1>6 DEF Root!Follow
<1> QED
  BY <1>7

\* Where a way can end: at a place of the tree, or nowhere, but never outside.
LEMMA FollowArrives ==
  ASSUME NEW f, Tree(f), NEW w \in Root!Positions
  PROVE  Root!Follow(f)[w] \in Places \cup {Root!Missing}
<1> DEFINE Good == {x \in Root!Positions : Root!Follow(f)[x] \in Places \cup {Root!Missing}}
<1>1. ASSUME NEW x \in Root!Positions, ~Root!Ends(f, x) => Root!Advance(f, x) \in Good
      PROVE  x \in Good
  <2>1. CASE Root!Ends(f, x)
    <3>1. Root!Follow(f)[x] = Root!End(f, x)
      BY <2>1, FollowSteps
    <3>2. CASE x.rest = << >>
      BY <3>1, <3>2 DEF Root!End, Root!Positions, Places
    <3>3. CASE x.rest # << >> /\ Root!Here(x) \in DOMAIN f /\ x.links # 0
      <4> DEFINE h == Root!Here(x)
      <4>1. f[h].kind = "link" /\ f[h].up > Len(x.at)
        BY <2>1, <3>3 DEF Root!Ends
      <4>2. f[h].up \in Nat /\ f[h].up < Len(h)
        BY <3>3, <4>1 DEF Tree, IsEntry
      <4>3. x.at \in Seq(Root!Component) /\ Head(x.rest) \in Root!Component
        BY <3>3 DEF Root!Positions
      <4>4. Len(h) = Len(x.at) + 1 /\ Len(x.at) \in Nat
        BY <4>3, AppendProperties DEF Root!Here
      <4> QED
        BY <4>1, <4>2, <4>4
    <3>4. CASE x.rest # << >> /\ (Root!Here(x) \notin DOMAIN f \/ x.links = 0)
      BY <3>1, <3>4 DEF Root!End
    <3> QED
      BY <3>2, <3>3, <3>4
  <2>2. CASE ~Root!Ends(f, x)
    <3>1. Root!Follow(f)[x] = Root!Follow(f)[Root!Advance(f, x)]
      BY <2>2, FollowSteps
    <3> QED
      BY <1>1, <2>2, <3>1
  <2> QED
    BY <2>1, <2>2
<1>2. Root!Positions \subseteq Good
  <2> HIDE DEF Good
  <2> QED
    BY <1>1, WalkInduction
<1> QED
  BY <1>2

LEMMA NoSuchPlaces ==
  /\ Root!Missing \notin Places /\ Root!Outside \notin Places /\ Root!Escaped \notin Places
  /\ Root!Missing # Root!Outside
  /\ \A x : Append(Root!Missing, x) \notin Places
<1>1. "/" \notin Root!Component
  BY DEF Root!Component
<1>2. ASSUME NEW p, p # << >>, p[1] = "/" PROVE p \notin Places
  BY <1>1, <1>2 DEF Places
<1>3. /\ Root!Missing[1] = "/" /\ Root!Outside[1] = "/" /\ Root!Escaped[1] = "/"
      /\ Root!Missing # << >> /\ Root!Outside # << >> /\ Root!Escaped # << >>
      /\ Len(Root!Missing) = 1 /\ Len(Root!Outside) = 2
  BY DEF Root!Missing, Root!Outside, Root!Escaped
<1>4. ASSUME NEW x PROVE Append(Root!Missing, x)[1] = "/" /\ Append(Root!Missing, x) # << >>
  BY DEF Root!Missing
<1>5. \A x : Append(Root!Missing, x) \notin Places
  BY <1>2, <1>4
<1>6. Root!Missing \notin Places /\ Root!Outside \notin Places /\ Root!Escaped \notin Places
  BY <1>2, <1>3
<1>7. Root!Missing # Root!Outside
  BY <1>3
<1> QED
  BY <1>5, <1>6, <1>7

\* The system part of the way along p.
OnTheWay(p, k) == [links |-> Root!MaxLinks, at |-> Prefix(p, k), rest |-> Rest(p, k)]

AreDirectories(f, p, n) == \A k \in 1 .. n : Root!IsKind(f, Prefix(p, k), "directory")

LEMMA WayAlong ==
  ASSUME NEW f, NEW p \in Places, NEW k \in 0 .. Len(p)
  PROVE  /\ OnTheWay(p, k) \in Root!Positions
         /\ OnTheWay(p, k).at = Prefix(p, k) /\ OnTheWay(p, k).rest = Rest(p, k)
         /\ OnTheWay(p, k).links = Root!MaxLinks
         /\ k < Len(p) => OnTheWay(p, k).rest # << >> /\ Root!Here(OnTheWay(p, k)) = Prefix(p, k + 1)
         /\ k < Len(p) /\ Root!IsKind(f, Prefix(p, k + 1), "directory") =>
              /\ ~Root!Ends(f, OnTheWay(p, k))
              /\ Root!Advance(f, OnTheWay(p, k)) = OnTheWay(p, k + 1)
<1> DEFINE w == OnTheWay(p, k)
<1>1. w.at = Prefix(p, k) /\ w.rest = Rest(p, k) /\ w.links = Root!MaxLinks
  BY DEF OnTheWay
<1>2. p \in Seq(Root!Component)
  BY DEF Places
<1>3. Prefix(p, k) \in Seq(Root!Component) /\ Rest(p, k) \in Seq(Root!Component)
  BY <1>2, PrefixAt, PathInParts
<1>4. w \in Root!Positions
  BY <1>3 DEF Root!Positions, Root!MaxLinks, OnTheWay
<1>5. ASSUME k < Len(p)
      PROVE  /\ w.rest # << >> /\ Root!Here(w) = Prefix(p, k + 1)
             /\ Tail(w.rest) = Rest(p, k + 1)
  <2>1. k \in 0 .. Len(p) - 1
    BY <1>5
  <2>2. /\ Rest(p, k) # << >> /\ Tail(Rest(p, k)) = Rest(p, k + 1)
        /\ Append(Prefix(p, k), Head(Rest(p, k))) = Prefix(p, k + 1)
    BY <1>2, <2>1, PathInParts
  <2> QED
    BY <1>1, <2>2 DEF Root!Here
<1>6. ASSUME k < Len(p), Root!IsKind(f, Prefix(p, k + 1), "directory")
      PROVE  ~Root!Ends(f, w) /\ Root!Advance(f, w) = OnTheWay(p, k + 1)
  <2>1. Root!Here(w) \in DOMAIN f /\ f[Root!Here(w)].kind = "directory"
    BY <1>5, <1>6 DEF Root!IsKind
  <2>2. f[Root!Here(w)].kind # "link"
    BY <2>1
  <2>3. ~Root!Ends(f, w)
    BY <1>5, <1>6, <2>1, <2>2 DEF Root!Ends
  <2>4. Root!Advance(f, w) = [links |-> w.links, at |-> Root!Here(w), rest |-> Tail(w.rest)]
    BY <2>2 DEF Root!Advance
  <2> QED
    BY <1>1, <1>5, <1>6, <2>3, <2>4 DEF OnTheWay
<1> QED
  BY <1>1, <1>4, <1>5, <1>6

\* A way through directories is straight.
LEMMA StraightWay ==
  ASSUME NEW f, Tree(f), NEW p \in Places, NEW n \in 0 .. Len(p), AreDirectories(f, p, n)
  PROVE  Root!Arrives(f, p) = Root!Follow(f)[OnTheWay(p, n)]
<1> DEFINE Good == {x \in Root!Positions :
                      \A k \in 0 .. n : x = OnTheWay(p, k) => Root!Follow(f)[x] = Root!Follow(f)[OnTheWay(p, n)]}
<1>0. n \in Nat /\ Len(p) \in Nat /\ n <= Len(p)
  BY DEF Places
<1>1. ASSUME NEW x \in Root!Positions, ~Root!Ends(f, x) => Root!Advance(f, x) \in Good
      PROVE  x \in Good
  <2> SUFFICES ASSUME NEW k \in 0 .. n, x = OnTheWay(p, k)
               PROVE  Root!Follow(f)[x] = Root!Follow(f)[OnTheWay(p, n)]
    OBVIOUS
  <2>1. CASE k = n
    BY <2>1
  <2>2. CASE k # n
    <3>1. k \in 0 .. Len(p) /\ k < Len(p) /\ k + 1 \in 1 .. n /\ k + 1 \in 0 .. n
      BY <1>0, <2>2
    <3>2. Root!IsKind(f, Prefix(p, k + 1), "directory")
      BY <3>1 DEF AreDirectories
    <3>3. ~Root!Ends(f, x) /\ Root!Advance(f, x) = OnTheWay(p, k + 1)
      BY <3>1, <3>2, WayAlong
    <3>4. Root!Follow(f)[x] = Root!Follow(f)[OnTheWay(p, k + 1)]
      BY <3>3, FollowSteps
    <3> QED
      BY <1>1, <3>1, <3>3, <3>4
  <2> QED
    BY <2>1, <2>2
<1>2. Root!Positions \subseteq Good
  <2> HIDE DEF Good
  <2> QED
    BY <1>1, WalkInduction
<1>3. 0 \in 0 .. Len(p) /\ 0 \in 0 .. n
  BY <1>0
<1>4. OnTheWay(p, 0) \in Root!Positions
  BY <1>3, WayAlong
<1>5. Root!Arrives(f, p) = Root!Follow(f)[OnTheWay(p, 0)]
  BY PathInParts DEF Root!Arrives, OnTheWay, Places
<1> QED
  BY <1>2, <1>3, <1>4, <1>5

LEMMA ArrivesAtDirectory ==
  ASSUME NEW f, Tree(f), NEW p \in Places, AreDirectories(f, p, Len(p))
  PROVE  Root!Arrives(f, p) = p
<1>1. Len(p) \in 0 .. Len(p)
  BY DEF Places
<1> DEFINE w == OnTheWay(p, Len(p))
<1>2. w \in Root!Positions /\ w.at = p /\ w.rest = << >>
  <2>1. p \in Seq(Root!Component)
    BY DEF Places
  <2>2. Prefix(p, Len(p)) = p /\ Rest(p, Len(p)) = << >>
    BY <1>1, <2>1, PrefixAt, PathInParts
  <2> QED
    BY <1>1, <2>2, WayAlong
<1>3. Root!Ends(f, w) /\ Root!End(f, w) = p
  BY <1>2 DEF Root!Ends, Root!End
<1>4. Root!Follow(f)[w] = p
  BY <1>2, <1>3, FollowSteps
<1> QED
  BY <1>1, <1>4, StraightWay

LEMMA ArrivesNowhere ==
  ASSUME NEW f, Tree(f), NEW p \in Places, NEW n \in 0 .. Len(p) - 1, AreDirectories(f, p, n),
         Prefix(p, n + 1) \notin DOMAIN f
  PROVE  Root!Arrives(f, p) = Root!Missing
<1>1. n \in 0 .. Len(p) /\ n < Len(p)
  BY DEF Places
<1> DEFINE w == OnTheWay(p, n)
<1>2. w \in Root!Positions /\ w.rest # << >> /\ Root!Here(w) \notin DOMAIN f
  BY <1>1, WayAlong
<1>3. Root!Ends(f, w) /\ Root!End(f, w) = Root!Missing
  BY <1>2 DEF Root!Ends, Root!End
<1>4. Root!Follow(f)[w] = Root!Missing
  BY <1>2, <1>3, FollowSteps
<1> QED
  BY <1>1, <1>4, StraightWay

\* The same way with one more name to go.
Longer(w, x) == [links |-> w.links, at |-> w.at, rest |-> Append(w.rest, x)]

LEMMA LongerWay ==
  ASSUME NEW f, Tree(f), NEW x \in Root!Component, NEW w \in Root!Positions
  PROVE  /\ Longer(w, x) \in Root!Positions
         /\ ~Root!Ends(f, w) =>
              /\ ~Root!Ends(f, Longer(w, x))
              /\ Root!Advance(f, Longer(w, x)) = Longer(Root!Advance(f, w), x)
<1> DEFINE C == Root!Component
           l == Longer(w, x)
<1>1. w.links \in 0 .. Root!MaxLinks /\ w.at \in Seq(C) /\ w.rest \in Seq(C)
  BY DEF Root!Positions
<1>2. l.links = w.links /\ l.at = w.at /\ l.rest = Append(w.rest, x)
  BY DEF Longer
<1>3. l.rest \in Seq(C) /\ l.rest # << >>
  BY <1>1, <1>2, AppendProperties
<1>4. l \in Root!Positions
  BY <1>1, <1>2, <1>3 DEF Longer, Root!Positions
<1>5. ASSUME ~Root!Ends(f, w)
      PROVE  ~Root!Ends(f, l) /\ Root!Advance(f, l) = Longer(Root!Advance(f, w), x)
  <2> DEFINE h == Root!Here(w)
  <2>1. w.rest # << >> /\ h \in DOMAIN f
    BY <1>5 DEF Root!Ends
  <2>2. Head(l.rest) = Head(w.rest) /\ Tail(l.rest) = Append(Tail(w.rest), x)
    BY <1>1, <1>2, <2>1, HeadTailAppend
  <2>3. Root!Here(l) = h
    BY <1>2, <2>2 DEF Root!Here
  <2>4. ~Root!Ends(f, l)
    BY <1>2, <1>3, <1>5, <2>3 DEF Root!Ends
  <2>5. CASE f[h].kind = "link"
    <3>1. f[h].down \in Seq(C) /\ Tail(w.rest) \in Seq(C)
      <4>1. f[h].down \in Seq(C)
        BY <2>1, <2>5 DEF Tree, IsEntry, Places
      <4> QED
        BY <1>1, <2>1, <4>1, HeadTailProperties
    <3> DEFINE d == f[h].down
               t == Tail(w.rest)
    <3>2. d \in Seq(C) /\ t \in Seq(C)
      BY <3>1
    <3> HIDE DEF d, t
    <3>3. d \o t \in Seq(C) /\ <<x>> \in Seq(C)
      BY <3>2, ConcatProperties
    <3>4. d \o Append(t, x) = Append(d \o t, x)
      <4>1. Append(t, x) = t \o <<x>>
        BY <3>2, AppendIsConcat
      <4>2. Append(d \o t, x) = (d \o t) \o <<x>>
        BY <3>3, AppendIsConcat
      <4>3. (d \o t) \o <<x>> = d \o (t \o <<x>>)
        BY <3>2, <3>3, ConcatAssociative
      <4> QED
        BY <4>1, <4>2, <4>3
    <3> USE DEF d, t
    <3>5. Root!Advance(f, w) = [links |-> w.links - 1, at |-> SubSeq(w.at, 1, Len(w.at) - f[h].up),
                                rest |-> d \o t]
      BY <2>5 DEF Root!Advance
    <3>6. Root!Advance(f, l) = [links |-> w.links - 1, at |-> SubSeq(w.at, 1, Len(w.at) - f[h].up),
                                rest |-> d \o Append(t, x)]
      BY <1>2, <2>2, <2>3, <2>5 DEF Root!Advance
    <3> HIDE DEF d, t, h
    <3> QED
      BY <2>4, <3>4, <3>5, <3>6 DEF Longer
  <2>6. CASE f[h].kind # "link"
    <3>1. Root!Advance(f, w) = [links |-> w.links, at |-> h, rest |-> Tail(w.rest)]
      BY <2>6 DEF Root!Advance
    <3>2. Root!Advance(f, l) = [links |-> w.links, at |-> h, rest |-> Append(Tail(w.rest), x)]
      BY <1>2, <2>2, <2>3, <2>6 DEF Root!Advance
    <3> QED
      BY <2>4, <3>1, <3>2 DEF Longer
  <2> QED
    BY <2>5, <2>6
<1> QED
  BY <1>4, <1>5

\* Before its last name the way is that of the path without it.
LEMMA WayToLast ==
  ASSUME NEW f, Tree(f), NEW x \in Root!Component, NEW w \in Root!Positions,
         Root!Follow(f)[w] \in Places
  PROVE  \E n \in 0 .. Root!MaxLinks :
           Root!Follow(f)[Longer(w, x)] =
             Root!Follow(f)[[links |-> n, at |-> Root!Follow(f)[w], rest |-> <<x>>]]
<1> DEFINE Goes(v) == \E n \in 0 .. Root!MaxLinks :
                        Root!Follow(f)[Longer(v, x)] =
                          Root!Follow(f)[[links |-> n, at |-> Root!Follow(f)[v], rest |-> <<x>>]]
           Good == {v \in Root!Positions : Root!Follow(f)[v] \in Places => Goes(v)}
<1>1. ASSUME NEW v \in Root!Positions, ~Root!Ends(f, v) => Root!Advance(f, v) \in Good
      PROVE  v \in Good
  <2> SUFFICES ASSUME Root!Follow(f)[v] \in Places PROVE Goes(v)
    OBVIOUS
  <2>1. CASE v.rest = << >>
    <3>1. Root!Follow(f)[v] = v.at
      BY <2>1, FollowSteps DEF Root!Ends, Root!End
    <3>2. Longer(v, x) = [links |-> v.links, at |-> v.at, rest |-> <<x>>]
      BY <2>1 DEF Longer
    <3>3. v.links \in 0 .. Root!MaxLinks
      BY DEF Root!Positions
    <3> QED
      BY <3>1, <3>2, <3>3
  <2>2. CASE v.rest # << >> /\ Root!Ends(f, v)
    <3>1. Root!Follow(f)[v] \in {Root!Missing, Root!Outside}
      BY <2>2, FollowSteps DEF Root!End
    <3> QED
      BY <3>1, NoSuchPlaces
  <2>3. CASE ~Root!Ends(f, v)
    <3> DEFINE a == Root!Advance(f, v)
    <3>1. Root!Follow(f)[v] = Root!Follow(f)[a]
      BY <2>3, FollowSteps
    <3>2. Longer(v, x) \in Root!Positions /\ ~Root!Ends(f, Longer(v, x))
          /\ Root!Advance(f, Longer(v, x)) = Longer(a, x)
      BY <2>3, LongerWay
    <3>3. Root!Follow(f)[Longer(v, x)] = Root!Follow(f)[Longer(a, x)]
      BY <3>2, FollowSteps
    <3>4. Goes(a)
      BY <1>1, <2>3, <3>1
    <3> QED
      BY <3>1, <3>3, <3>4
  <2> QED
    BY <2>1, <2>2, <2>3
<1>2. Root!Positions \subseteq Good
  <2> HIDE DEF Good
  <2> QED
    BY <1>1, WalkInduction
<1> QED
  BY <1>2

\* A path that is not empty, as what is before its last name and that name.
LEMMA FrontAndLast ==
  ASSUME NEW S, NEW c \in Seq(S), c # << >>
  PROVE  /\ Front(c) \in Seq(S) /\ Last(c) \in S /\ Append(Front(c), Last(c)) = c
         /\ Len(Front(c)) = Len(c) - 1 /\ Len(c) \in Nat /\ Len(c) - 1 \in Nat
         /\ Front(c) = Prefix(c, Len(c) - 1)
         /\ \A k \in 0 .. Len(c) - 1 : Prefix(Front(c), k) = Prefix(c, k)
<1> DEFINE n == Len(c) - 1
<1>1. n \in 0 .. Len(c) - 1 /\ n \in 0 .. Len(c) /\ n + 1 = Len(c) /\ n \in Nat /\ Len(c) \in Nat
      /\ c[Len(c)] \in S
  OBVIOUS
<1>2. Front(c) = Prefix(c, n) /\ Last(c) = c[Len(c)]
  BY DEF Front, Last, Prefix
<1> HIDE DEF n
<1>3. /\ Prefix(c, n) \in Seq(S) /\ Len(Prefix(c, n)) = n
      /\ \A i \in 1 .. n : Prefix(c, n)[i] = c[i]
  BY <1>1, PrefixAt
<1>4. Append(Prefix(c, n), c[Len(c)]) = c
  <2>1. Append(Prefix(c, n), Head(Rest(c, n))) = Prefix(c, n + 1)
    BY <1>1, PathInParts
  <2>2. Head(Rest(c, n)) = c[Len(c)]
    <3>1. Rest(c, n) = SubSeq(c, Len(c), Len(c))
      BY <1>1 DEF Rest
    <3>2. Len(c) \in Int /\ \A i \in Len(c) .. Len(c) : c[i] \in S
      BY <1>1
    <3>3. \A i \in 1 .. Len(c) - Len(c) + 1 : SubSeq(c, Len(c), Len(c))[i] = c[Len(c) + i - 1]
      BY <3>2, SubSeqProperties
    <3>4. 1 \in 1 .. Len(c) - Len(c) + 1 /\ Len(c) + 1 - 1 = Len(c)
      BY <1>1
    <3>5. SubSeq(c, Len(c), Len(c))[1] = c[Len(c)]
      BY <3>3, <3>4
    <3> QED
      BY <3>1, <3>5
  <2>3. Len(c) \in 0 .. Len(c)
    BY <1>1
  <2>4. Prefix(c, Len(c)) = c
    BY <2>3, PrefixAt
  <2> QED
    BY <1>1, <2>1, <2>2, <2>4
<1>5. ASSUME NEW k \in 0 .. n PROVE Prefix(Front(c), k) = Prefix(c, k)
  <2> DEFINE p == Front(c)
  <2>1. p \in Seq(S) /\ Len(p) = n /\ \A i \in 1 .. n : p[i] = c[i]
    BY <1>2, <1>3
  <2> HIDE DEF p
  <2>2. k \in 0 .. Len(p) /\ k <= Len(c) /\ \A i \in 1 .. k : p[i] = c[i]
    BY <1>1, <2>1
  <2>3. Prefix(p, k) = Prefix(c, k)
    BY <2>1, <2>2, SamePrefix
  <2> QED
    BY <2>3 DEF p
<1> QED
  BY <1>1, <1>2, <1>3, <1>4, <1>5 DEF n

\* What is found by a path, other than a link, is where the path arrives.
LEMMA ArrivesAtEntry ==
  ASSUME NEW f, Tree(f), NEW c \in Places, c # << >>, Root!Place(f, c) \in DOMAIN f,
         f[Root!Place(f, c)].kind # "link"
  PROVE  Root!Arrives(f, c) = Root!Place(f, c)
<1> DEFINE x == Last(c)
           w == [links |-> Root!MaxLinks, at |-> << >>, rest |-> Front(c)]
           q == Root!Follow(f)[w]
           d == Root!Place(f, c)
<1>1. /\ Front(c) \in Seq(Root!Component) /\ x \in Root!Component /\ Append(Front(c), x) = c
  BY FrontAndLast DEF Places
<1>2. w \in Root!Positions
  BY <1>1 DEF Root!Positions, Root!MaxLinks
<1>3. d = Append(q, x)
  BY DEF Root!Place, Root!Arrives, Root!Front, Root!Last, Front, Last
<1>4. q \in Places
  <2>1. q \in Places \cup {Root!Missing}
    BY <1>2, FollowArrives
  <2>2. d \in Places
    BY DEF Tree
  <2> HIDE DEF q, d
  <2> QED
    BY <1>3, <2>1, <2>2, NoSuchPlaces
<1>5. Longer(w, x) = [links |-> Root!MaxLinks, at |-> << >>, rest |-> c]
  BY <1>1 DEF Longer
<1>6. PICK n \in 0 .. Root!MaxLinks :
        Root!Arrives(f, c) = Root!Follow(f)[[links |-> n, at |-> q, rest |-> <<x>>]]
  <2>1. \E n \in 0 .. Root!MaxLinks :
          Root!Follow(f)[Longer(w, x)] = Root!Follow(f)[[links |-> n, at |-> q, rest |-> <<x>>]]
    BY <1>1, <1>2, <1>4, WayToLast
  <2> QED
    BY <1>5, <2>1 DEF Root!Arrives
<1> HIDE DEF q, x, w
<1> DEFINE l == [links |-> n, at |-> q, rest |-> <<x>>]
           e == [links |-> n, at |-> d, rest |-> << >>]
<1>7. /\ l \in Root!Positions /\ l.rest # << >> /\ Root!Here(l) = d /\ Tail(l.rest) = << >>
      /\ l.links = n
  BY <1>1, <1>3, <1>4 DEF Root!Positions, Places, Root!Here
<1>8. e \in Root!Positions /\ e.rest = << >> /\ e.at = d
  <2>1. d \in Seq(Root!Component)
    BY DEF Tree, Places
  <2> QED
    BY <2>1 DEF Root!Positions
<1>9. ~Root!Ends(f, l) /\ Root!Advance(f, l) = e
  BY <1>7 DEF Root!Ends, Root!Advance
<1>10. Root!Ends(f, e) /\ Root!End(f, e) = d
  BY <1>8 DEF Root!Ends, Root!End
<1> QED
  BY <1>6, <1>7, <1>8, <1>9, <1>10, FollowSteps

\* Ways depend on where there is what kind of entry, and on the links.
LEMMA SameWays ==
  ASSUME NEW f, NEW g, Tree(f), Tree(g), DOMAIN f = DOMAIN g,
         \A p \in DOMAIN f : f[p] = g[p] \/ (f[p].kind # "link" /\ g[p].kind # "link")
  PROVE  \A p \in Places : Root!Arrives(f, p) = Root!Arrives(g, p)
<1> DEFINE Good == {w \in Root!Positions : Root!Follow(f)[w] = Root!Follow(g)[w]}
<1>1. ASSUME NEW w \in Root!Positions, ~Root!Ends(f, w) => Root!Advance(f, w) \in Good
      PROVE  w \in Good
  <2>1. Root!Ends(f, w) <=> Root!Ends(g, w)
    BY DEF Root!Ends
  <2>2. Root!End(f, w) = Root!End(g, w)
    BY DEF Root!End
  <2>3. ~Root!Ends(f, w) => Root!Advance(f, w) = Root!Advance(g, w)
    BY DEF Root!Ends, Root!Advance
  <2> QED
    BY <1>1, <2>1, <2>2, <2>3, FollowSteps
<1>2. Root!Positions \subseteq Good
  <2> HIDE DEF Good
  <2> QED
    BY <1>1, WalkInduction
<1>3. \A p \in Places : [links |-> Root!MaxLinks, at |-> << >>, rest |-> p] \in Root!Positions
  BY DEF Places, Root!Positions, Root!MaxLinks
<1> QED
  BY <1>2, <1>3 DEF Root!Arrives

-----------------------------------------------------------------------------
(* What a fold from the left gives, one element after the other.           *)

LEMMA Greatest ==
  ASSUME NEW n \in Nat, NEW t, t \subseteq 1 .. n, t # {}
  PROVE  Max(t) \in t /\ \A y \in t : y <= Max(t)
<1> DEFINE T == {n - y : y \in t}
<1>1. T \subseteq Nat /\ T # {}
  <2>1. \A y \in t : n - y \in Nat
    OBVIOUS
  <2>2. PICK y \in t : TRUE
    OBVIOUS
  <2> QED
    BY <2>1, <2>2
<1>2. PICK x \in T : \A y \in T : x <= y
  <2> HIDE DEF T
  <2> QED
    BY <1>1, LeastNatural
<1>3. PICK m \in t : x = n - m
  BY <1>2
<1>4. \A y \in t : m >= y
  <2> SUFFICES ASSUME NEW y \in t PROVE m >= y
    OBVIOUS
  <2>1. n - y \in T /\ y \in 1 .. n /\ m \in 1 .. n
    OBVIOUS
  <2> HIDE DEF T
  <2> QED
    BY <1>2, <1>3, <2>1
<1>5. Max(t) \in t /\ \A y \in t : Max(t) >= y
  BY <1>4 DEF Max
<1>6. \A y \in t : y \in Int
  OBVIOUS
<1> QED
  BY <1>5, <1>6

\* Without its greatest element a set of numbers ends earlier.
LEMMA WithoutGreatest ==
  ASSUME NEW m \in Nat, m # 0, NEW t, t \subseteq 1 .. m, t # {}
  PROVE  t \ {Max(t)} \subseteq 1 .. m - 1 /\ (m \in t => Max(t) = m)
<1>1. Max(t) \in t /\ \A y \in t : y <= Max(t)
  BY Greatest
<1>2. \A y \in t : y \in 1 .. m
  OBVIOUS
<1>3. ASSUME NEW y \in t, y # Max(t) PROVE y \in 1 .. m - 1
  <2>1. y \in 1 .. m /\ Max(t) \in 1 .. m /\ y <= Max(t)
    BY <1>1, <1>2
  <2> QED
    BY <1>3, <2>1
<1>4. t \ {Max(t)} \subseteq 1 .. m - 1
  BY <1>3
<1>5. m \in t => Max(t) = m
  <2>1. Max(t) \in 1 .. m /\ (m \in t => m <= Max(t))
    BY <1>1, <1>2
  <2> QED
    BY <2>1
<1> QED
  BY <1>4, <1>5

\* The function a fold is the value of.
Folding(iter, G, b, s, S) ==
  \A t \in SUBSET S : iter[t] = IF t = {} THEN b ELSE G[iter[t \ {Max(t)}]][s[Max(t)]]

LEMMA FoldExists ==
  ASSUME NEW V, NEW E, NEW s \in Seq(E), NEW b \in V, NEW G \in [V -> [E -> V]]
  PROVE  \E iter \in [SUBSET DOMAIN s -> V] : Folding(iter, G, b, s, DOMAIN s)
<1> DEFINE Has(m) == \E iter \in [SUBSET (1 .. m) -> V] : Folding(iter, G, b, s, 1 .. m)
           Bad == {m \in 0 .. Len(s) : ~Has(m)}
<1>0. Len(s) \in Nat /\ DOMAIN s = 1 .. Len(s) /\ \A i \in 1 .. Len(s) : s[i] \in E
  OBVIOUS
<1>1. Bad = {}
  <2> SUFFICES ASSUME Bad # {} PROVE FALSE
    OBVIOUS
  <2>1. PICK m \in Bad : \A k \in Bad : m <= k
    <3>1. Bad \subseteq Nat
      BY <1>0
    <3> HIDE DEF Bad
    <3> QED
      BY <3>1, LeastNatural
  <2> HIDE DEF Has
  <2>2. m \in Nat /\ m \in 0 .. Len(s) /\ ~Has(m)
    BY <1>0, <2>1
  <2>3. m # 0
    <3> SUFFICES ASSUME m = 0 PROVE Has(0)
      BY <2>2
    <3> DEFINE it == [t \in SUBSET (1 .. 0) |-> b]
    <3>1. it \in [SUBSET (1 .. 0) -> V] /\ \A t \in SUBSET (1 .. 0) : it[t] = b
      OBVIOUS
    <3>2. \A t \in SUBSET (1 .. 0) : t = {}
      <4>1. 1 .. 0 = {}
        OBVIOUS
      <4> QED
        BY <4>1
    <3> HIDE DEF it
    <3>3. Folding(it, G, b, s, 1 .. 0)
      BY <3>1, <3>2 DEF Folding
    <3> QED
      BY <3>1, <3>3 DEF Has
  <2>4. m - 1 \in 0 .. Len(s) /\ m - 1 < m
    BY <1>0, <2>2, <2>3
  <2>5. Has(m - 1)
    BY <1>0, <2>1, <2>2, <2>4
  <2>6. PICK it \in [SUBSET (1 .. m - 1) -> V] : Folding(it, G, b, s, 1 .. m - 1)
    BY <2>5 DEF Has
  <2> DEFINE next == [t \in SUBSET (1 .. m) |->
                        IF m \in t THEN G[it[t \ {m}]][s[m]] ELSE it[t]]
  <2>7. \A t \in SUBSET (1 .. m) : /\ t \ {m} \in SUBSET (1 .. m - 1)
                                   /\ m \notin t => t \in SUBSET (1 .. m - 1)
    <3>1. (1 .. m) \ {m} = 1 .. m - 1
      BY <2>2
    <3> QED
      BY <3>1
  <2>8. s[m] \in E
    BY <1>0, <2>2, <2>3
  <2>9. next \in [SUBSET (1 .. m) -> V]
    <3> SUFFICES ASSUME NEW t \in SUBSET (1 .. m)
                 PROVE  (IF m \in t THEN G[it[t \ {m}]][s[m]] ELSE it[t]) \in V
      OBVIOUS
    <3>1. it[t \ {m}] \in V
      BY <2>6, <2>7
    <3>2. m \notin t => it[t] \in V
      BY <2>6, <2>7
    <3>3. G[it[t \ {m}]] \in [E -> V]
      BY <3>1
    <3>4. G[it[t \ {m}]][s[m]] \in V
      BY <2>8, <3>3
    <3> QED
      BY <3>2, <3>4
  <2>10. ASSUME NEW t \in SUBSET (1 .. m)
         PROVE  /\ m \in t => next[t] = G[it[t \ {m}]][s[m]]
                /\ m \notin t => next[t] = it[t]
    <3>1. next[t] = IF m \in t THEN G[it[t \ {m}]][s[m]] ELSE it[t]
      OBVIOUS
    <3> HIDE DEF next
    <3> QED
      BY <3>1
  <2> HIDE DEF next
  <2>11. ASSUME NEW t \in SUBSET (1 .. m)
         PROVE  next[t] = IF t = {} THEN b ELSE G[next[t \ {Max(t)}]][s[Max(t)]]
    <3>1. CASE m \in t
      <4>1. Max(t) = m /\ t # {}
        BY <2>2, <2>3, <3>1, WithoutGreatest
      <4>2. t \ {m} \in SUBSET (1 .. m) /\ m \notin t \ {m}
        OBVIOUS
      <4>3. next[t \ {m}] = it[t \ {m}]
        BY <2>10, <4>2
      <4>4. next[t] = G[it[t \ {m}]][s[m]]
        BY <2>10, <3>1
      <4> QED
        BY <4>1, <4>3, <4>4
    <3>2. CASE m \notin t
      <4>1. t \in SUBSET (1 .. m - 1) /\ t \ {Max(t)} \in SUBSET (1 .. m) /\ m \notin t \ {Max(t)}
        BY <2>7, <3>2
      <4>2. it[t] = IF t = {} THEN b ELSE G[it[t \ {Max(t)}]][s[Max(t)]]
        BY <2>6, <4>1 DEF Folding
      <4>3. next[t] = it[t] /\ next[t \ {Max(t)}] = it[t \ {Max(t)}]
        BY <2>10, <3>2, <4>1
      <4> QED
        BY <4>2, <4>3
    <3> QED
      BY <3>1, <3>2
  <2>12. Folding(next, G, b, s, 1 .. m)
    BY ONLY <2>11 DEF Folding
  <2> QED
    BY <2>2, <2>9, <2>12 DEF Has
<1>2. Len(s) \in 0 .. Len(s)
  BY <1>0
<1>3. Has(Len(s))
  BY <1>1, <1>2
<1> QED
  BY <1>0, <1>3

LEMMA FoldStaysIn ==
  ASSUME NEW V, NEW n \in Nat, NEW iter, iter[{}] \in V,
         \A t \in SUBSET (1 .. n) : t # {} /\ iter[t \ {Max(t)}] \in V => iter[t] \in V
  PROVE  iter[1 .. n] \in V
<1> DEFINE Bad == {m \in 0 .. n : \E t \in SUBSET (1 .. m) : iter[t] \notin V}
<1>1. Bad = {}
  <2> SUFFICES ASSUME Bad # {} PROVE FALSE
    OBVIOUS
  <2>1. PICK m \in Bad : \A k \in Bad : m <= k
    <3>1. Bad \subseteq Nat
      OBVIOUS
    <3> HIDE DEF Bad
    <3> QED
      BY <3>1, LeastNatural
  <2>2. PICK t \in SUBSET (1 .. m) : iter[t] \notin V
    BY <2>1
  <2>3. t # {} /\ m \in Nat /\ m # 0 /\ m <= n
    <3>1. m \in Nat /\ m <= n
      OBVIOUS
    <3>2. t # {}
      BY <2>2
    <3>3. m # 0
      <4>1. 1 .. 0 = {}
        OBVIOUS
      <4>2. t \subseteq 1 .. m
        BY <2>2
      <4> HIDE DEF Bad
      <4> QED
        BY ONLY <3>2, <4>1, <4>2
    <3> QED
      BY <3>1, <3>2, <3>3
  <2>4. t \ {Max(t)} \in SUBSET (1 .. m - 1)
    BY <2>3, WithoutGreatest
  <2>5. m - 1 \in 0 .. n /\ m - 1 < m /\ t \in SUBSET (1 .. n)
    <3>1. m - 1 \in 0 .. n /\ m - 1 < m /\ 1 .. m \subseteq 1 .. n
      BY <2>3
    <3> QED
      BY <3>1
  <2>6. m - 1 \notin Bad
    <3> HIDE DEF Bad
    <3> QED
      BY <2>1, <2>3, <2>5
  <2>7. iter[t \ {Max(t)}] \in V
    BY <2>4, <2>5, <2>6
  <2> QED
    BY <2>2, <2>3, <2>5, <2>7
<1> QED
  BY <1>1

-----------------------------------------------------------------------------
(* The paths operations make of what they are asked for.                   *)

RawSteps == RawNames \cup {".", ".."}

LEMMA FrontIsPlace ==
  ASSUME NEW p \in Places, p # << >>
  PROVE  Front(p) \in Places
BY FrontAndLast DEF Places

LEMMA SanitizedIsComponent ==
  ASSUME NEW c \in RawSteps, c # ".", c # ".."
  PROVE  Root!SanitizeComponent(c) \in Root!Component
BY ChrootAssumption DEF RawSteps, Root!SanitizeComponent, Root!Component

LEMMA ClimbedIsPlace ==
  ASSUME NEW p \in Places, NEW c \in RawSteps
  PROVE  Root!Climbed(p, c) \in Places
<1>1. CASE c = "." \/ (c = ".." /\ p = << >>)
  BY <1>1 DEF Root!Climbed, Root!Front, Front, Places
<1>2. CASE c = ".." /\ p # << >>
  BY <1>2, FrontIsPlace DEF Root!Climbed, Root!Front, Front
<1>3. CASE c # "." /\ c # ".."
  <2>1. Append(p, Root!SanitizeComponent(c)) \in Places
    BY <1>3, SanitizedIsComponent, AppendProperties DEF Places
  <2> QED
    BY <1>3, <2>1 DEF Root!Climbed, Root!Front, Front
<1> QED
  BY <1>1, <1>2, <1>3

\* relative_components keeps to names below the root.
LEMMA ComponentsArePlace ==
  ASSUME NEW path \in Seq(RawSteps)
  PROVE  Root!RelativeComponents(path) \in Places
<1> DEFINE G == [p \in Places |-> [c \in RawSteps |-> Root!Climbed(p, c)]]
           S == DOMAIN path
<1>1. S = 1 .. Len(path) /\ Len(path) \in Nat /\ \A i \in S : path[i] \in RawSteps
  OBVIOUS
<1>2. << >> \in Places
  BY DEF Places
<1>3. G \in [Places -> [RawSteps -> Places]]
  BY ClimbedIsPlace
<1>4. \A p \in Places, c \in RawSteps : G[p][c] = Root!Climbed(p, c)
  OBVIOUS
<1> HIDE DEF G
<1>5. PICK iter \in [SUBSET S -> Places] : Folding(iter, G, << >>, path, S)
  BY <1>2, <1>3, FoldExists
<1> DEFINE Fold(it) == [t \in SUBSET S |->
                          IF t = {} THEN << >> ELSE Root!Climbed(it[t \ {Max(t)}], path[Max(t)])]
           chosen == CHOOSE it : it = Fold(it)
<1>6. \A t \in SUBSET S : t # {} => Max(t) \in S /\ t \ {Max(t)} \in SUBSET S
  BY <1>1, Greatest
<1>7. iter = Fold(iter)
  <2>1. ASSUME NEW t \in SUBSET S
        PROVE  iter[t] = IF t = {} THEN << >> ELSE Root!Climbed(iter[t \ {Max(t)}], path[Max(t)])
    <3>0. iter[t] = IF t = {} THEN << >> ELSE G[iter[t \ {Max(t)}]][path[Max(t)]]
      BY <1>5 DEF Folding
    <3>1. CASE t = {}
      BY <3>0, <3>1
    <3>2. CASE t # {}
      <4>1. iter[t \ {Max(t)}] \in Places /\ path[Max(t)] \in RawSteps
        BY <1>1, <1>5, <1>6, <3>2
      <4>2. G[iter[t \ {Max(t)}]][path[Max(t)]] = Root!Climbed(iter[t \ {Max(t)}], path[Max(t)])
        BY <1>4, <4>1
      <4> QED
        BY <3>0, <3>2, <4>2
    <3> QED
      BY <3>1, <3>2
  <2> QED
    BY <1>5, <2>1
<1>8. chosen = Fold(chosen)
  <2> HIDE DEF Fold
  <2> QED
    BY <1>7
<1>9. Root!RelativeComponents(path) = chosen[S]
  BY DEF Root!RelativeComponents, Root!FoldLeft, Root!MapThenFoldSet, Root!Max, Max
<1> HIDE DEF chosen
<1>10. \A t \in SUBSET S :
         chosen[t] = IF t = {} THEN << >> ELSE Root!Climbed(chosen[t \ {Max(t)}], path[Max(t)])
  BY <1>8
<1>11. chosen[{}] \in Places
  BY <1>2, <1>10
<1>12. ASSUME NEW t \in SUBSET (1 .. Len(path)), t # {}, chosen[t \ {Max(t)}] \in Places
       PROVE  chosen[t] \in Places
  <2>1. t \in SUBSET S /\ path[Max(t)] \in RawSteps
    BY <1>1, <1>6, <1>12
  <2>2. chosen[t] = Root!Climbed(chosen[t \ {Max(t)}], path[Max(t)])
    BY <1>10, <1>12, <2>1
  <2> QED
    BY <1>12, <2>1, <2>2, ClimbedIsPlace
<1>13. chosen[1 .. Len(path)] \in Places
  BY <1>1, <1>11, <1>12, FoldStaysIn
<1> QED
  BY <1>1, <1>9, <1>13

Resolved == Places \cup {Root!Escaped}

LEMMA ResolvedStepStays ==
  ASSUME NEW r \in Resolved, NEW c \in RawSteps
  PROVE  Root!ResolvedStep(r, c) \in Resolved
<1>1. CASE r = Root!Escaped \/ c = "."
  BY <1>1 DEF Root!ResolvedStep, Root!Front, Front
<1>2. CASE r # Root!Escaped /\ c = ".."
  <2>1. Root!ResolvedStep(r, c) = IF r = << >> THEN Root!Escaped ELSE Front(r)
    BY <1>2 DEF Root!ResolvedStep, Root!Front, Front
  <2>2. r \in Places
    BY <1>2 DEF Resolved
  <2> QED
    BY <2>1, <2>2, FrontIsPlace DEF Resolved
<1>3. CASE r # Root!Escaped /\ c # "." /\ c # ".."
  <2>1. r \in Places
    BY <1>3 DEF Resolved
  <2>2. Append(r, Root!SanitizeComponent(c)) \in Places
    BY <1>3, <2>1, SanitizedIsComponent, AppendProperties DEF Places
  <2> QED
    BY <1>3, <2>2 DEF Root!ResolvedStep, Root!Front, Front, Resolved
<1> QED
  BY <1>1, <1>2, <1>3

\* A target is seen from the place it is read at, or leaves the root.
LEMMA TargetIsResolved ==
  ASSUME NEW from \in Places, NEW path \in Seq(RawSteps)
  PROVE  Root!ResolvedTarget(from, path) \in Resolved
<1> DEFINE G == [r \in Resolved |-> [c \in RawSteps |-> Root!ResolvedStep(r, c)]]
           S == DOMAIN path
<1>1. S = 1 .. Len(path) /\ Len(path) \in Nat /\ \A i \in S : path[i] \in RawSteps
  OBVIOUS
<1>2. from \in Resolved
  BY DEF Resolved
<1>3. G \in [Resolved -> [RawSteps -> Resolved]]
  BY ResolvedStepStays
<1>4. \A r \in Resolved, c \in RawSteps : G[r][c] = Root!ResolvedStep(r, c)
  OBVIOUS
<1> HIDE DEF G
<1>5. PICK iter \in [SUBSET S -> Resolved] : Folding(iter, G, from, path, S)
  BY <1>2, <1>3, FoldExists
<1> DEFINE Fold(it) == [t \in SUBSET S |->
                          IF t = {} THEN from ELSE Root!ResolvedStep(it[t \ {Max(t)}], path[Max(t)])]
           chosen == CHOOSE it : it = Fold(it)
<1>6. \A t \in SUBSET S : t # {} => Max(t) \in S /\ t \ {Max(t)} \in SUBSET S
  BY <1>1, Greatest
<1>7. iter = Fold(iter)
  <2>1. ASSUME NEW t \in SUBSET S
        PROVE  iter[t] = IF t = {} THEN from ELSE Root!ResolvedStep(iter[t \ {Max(t)}], path[Max(t)])
    <3>0. iter[t] = IF t = {} THEN from ELSE G[iter[t \ {Max(t)}]][path[Max(t)]]
      BY <1>5 DEF Folding
    <3>1. CASE t = {}
      BY <3>0, <3>1
    <3>2. CASE t # {}
      <4>1. iter[t \ {Max(t)}] \in Resolved /\ path[Max(t)] \in RawSteps
        BY <1>1, <1>5, <1>6, <3>2
      <4>2. G[iter[t \ {Max(t)}]][path[Max(t)]] = Root!ResolvedStep(iter[t \ {Max(t)}], path[Max(t)])
        BY <1>4, <4>1
      <4> QED
        BY <3>0, <3>2, <4>2
    <3> QED
      BY <3>1, <3>2
  <2> QED
    BY <1>5, <2>1
<1>8. chosen = Fold(chosen)
  <2> HIDE DEF Fold
  <2> QED
    BY <1>7
<1>9. Root!ResolvedTarget(from, path) = chosen[S]
  BY DEF Root!ResolvedTarget, Root!FoldLeft, Root!MapThenFoldSet, Root!Max, Max
<1> HIDE DEF chosen
<1>10. \A t \in SUBSET S :
         chosen[t] = IF t = {} THEN from ELSE Root!ResolvedStep(chosen[t \ {Max(t)}], path[Max(t)])
  BY <1>8
<1>11. chosen[{}] \in Resolved
  BY <1>2, <1>10
<1>12. ASSUME NEW t \in SUBSET (1 .. Len(path)), t # {}, chosen[t \ {Max(t)}] \in Resolved
       PROVE  chosen[t] \in Resolved
  <2>1. t \in SUBSET S /\ path[Max(t)] \in RawSteps
    BY <1>1, <1>6, <1>12
  <2>2. chosen[t] = Root!ResolvedStep(chosen[t \ {Max(t)}], path[Max(t)])
    BY <1>10, <1>12, <2>1
  <2> QED
    BY <1>12, <2>1, <2>2, ResolvedStepStays
<1>13. chosen[1 .. Len(path)] \in Resolved
  BY <1>1, <1>11, <1>12, FoldStaysIn
<1> QED
  BY <1>1, <1>9, <1>13

\* The steps up of a relative target stay within the directory it is seen from.
LEMMA RelativeStaysInside ==
  ASSUME NEW target \in Places, NEW from \in Places
  PROVE  IsEntry(Root!Relative(target, from), Len(from) + 1)
<1> DEFINE Common(n) == n <= Len(target) /\ SubSeq(target, 1, n) = SubSeq(from, 1, n)
           Longest(n) == /\ Common(n)
                         /\ n = Len(from) \/ n = Len(target) \/ target[n + 1] # from[n + 1]
           common == CHOOSE n \in 0 .. Len(from) :
                       /\ n <= Len(target) /\ SubSeq(target, 1, n) = SubSeq(from, 1, n)
                       /\ n = Len(from) \/ n = Len(target) \/ target[n + 1] # from[n + 1]
<1>0. Len(from) \in Nat /\ Len(target) \in Nat
  BY DEF Places
<1>1. \E n \in 0 .. Len(from) : Longest(n)
  <2> DEFINE T == {k \in 0 .. Len(from) : k <= Len(target) /\ \A i \in 1 .. k : target[i] = from[i]}
             U == {Len(from) - k : k \in T}
  <2>1. 0 \in T
    BY <1>0
  <2>2. U \subseteq Nat /\ U # {}
    BY <1>0, <2>1
  <2>3. PICK u \in U : \A v \in U : u <= v
    <3> HIDE DEF U
    <3> QED
      BY <2>2, LeastNatural
  <2>4. PICK n \in T : u = Len(from) - n
    BY <2>3
  <2>5. n \in 0 .. Len(from) /\ n <= Len(target) /\ \A i \in 1 .. n : target[i] = from[i]
    BY <2>4
  <2>6. \A k \in T : k <= n
    <3> SUFFICES ASSUME NEW k \in T PROVE k <= n
      OBVIOUS
    <3>1. Len(from) - k \in U /\ k \in Int
      OBVIOUS
    <3> HIDE DEF U, T
    <3>2. Len(from) - n <= Len(from) - k
      BY <2>3, <2>4, <3>1
    <3> QED
      BY <1>0, <2>5, <3>1, <3>2
  <2>7. SubSeq(target, 1, n) = SubSeq(from, 1, n)
    <3>1. n \in 0 .. Len(target) /\ n <= Len(from)
      BY <1>0, <2>5
    <3> QED
      BY <2>5, <3>1, SamePrefix DEF Places, Prefix
  <2>8. n = Len(from) \/ n = Len(target) \/ target[n + 1] # from[n + 1]
    <3> SUFFICES ASSUME n # Len(from), n # Len(target), target[n + 1] = from[n + 1] PROVE FALSE
      OBVIOUS
    <3>1. n + 1 \in 0 .. Len(from) /\ n + 1 <= Len(target) /\ n + 1 > n
      BY <1>0, <2>5
    <3>2. \A i \in 1 .. n + 1 : target[i] = from[i]
      <4>1. \A i \in 1 .. n + 1 : i \in 1 .. n \/ i = n + 1
        BY <2>5
      <4> QED
        BY <2>5, <4>1
    <3>3. n + 1 \in T
      BY <3>1, <3>2
    <3> HIDE DEF T
    <3> QED
      BY <2>5, <2>6, <3>1, <3>3
  <2> QED
    BY <2>5, <2>7, <2>8
<1>2. common \in 0 .. Len(from) /\ common <= Len(target)
  BY <1>1
<1>3. Root!Relative(target, from) =
        Root!Link(Len(from) - common, SubSeq(target, common + 1, Len(target)))
  BY DEF Root!Relative
<1> HIDE DEF common
<1>4. Rest(target, common) \in Places
  <2>1. common \in 0 .. Len(target)
    BY <1>0, <1>2
  <2> QED
    BY <2>1, PathInParts DEF Places
<1>5. Len(from) - common \in Nat /\ Len(from) - common < Len(from) + 1
  BY <1>0, <1>2
<1> QED
  BY <1>3, <1>4, <1>5 DEF Root!Link, IsEntry, Rest

-----------------------------------------------------------------------------
(* What changes of the tree leave of it.                                   *)

LEMMA PrefixOfPrefix ==
  ASSUME NEW S, NEW q \in Seq(S), NEW k \in 0 .. Len(q), NEW j \in 0 .. k
  PROVE  Prefix(Prefix(q, k), j) = Prefix(q, j)
<1>1. /\ Prefix(q, k) \in Seq(S) /\ Len(Prefix(q, k)) = k
      /\ \A i \in 1 .. k : Prefix(q, k)[i] = q[i]
  BY PrefixAt
<1> DEFINE p == Prefix(q, k)
<1>2. p \in Seq(S) /\ Len(p) = k /\ \A i \in 1 .. k : p[i] = q[i]
  BY <1>1
<1> HIDE DEF p
<1>3. j \in 0 .. Len(p) /\ j <= Len(q) /\ \A i \in 1 .. j : p[i] = q[i]
  BY <1>2
<1>4. Prefix(p, j) = Prefix(q, j)
  BY <1>2, <1>3, SamePrefix
<1> QED
  BY <1>4 DEF p

LEMMA IsPrefixOf ==
  ASSUME NEW S, NEW p \in Seq(S), NEW q \in Seq(S)
  PROVE  /\ Root!IsPrefix(p, q) <=> Len(p) <= Len(q) /\ Prefix(q, Len(p)) = p
         /\ Len(p) \in Nat /\ Len(q) \in Nat
<1>1. Prefix(p, Len(p)) = p
  <2>1. Len(p) \in 0 .. Len(p)
    OBVIOUS
  <2> QED
    BY <2>1, PrefixAt
<1> QED
  BY <1>1 DEF Root!IsPrefix, Prefix

LEMMA PrefixesOf ==
  ASSUME NEW S, NEW q \in Seq(S), NEW k \in 0 .. Len(q)
  PROVE  /\ Root!IsPrefix(Prefix(q, k), q)
         /\ \A p \in Seq(S) : Root!IsPrefix(p, Prefix(q, k)) => Root!IsPrefix(p, q)
<1>1. Prefix(q, k) \in Seq(S) /\ Len(Prefix(q, k)) = k
  BY PrefixAt
<1>2. Root!IsPrefix(Prefix(q, k), q)
  <2>1. k <= Len(q)
    OBVIOUS
  <2> QED
    BY <1>1, <2>1, IsPrefixOf
<1>3. ASSUME NEW p \in Seq(S), Root!IsPrefix(p, Prefix(q, k)) PROVE Root!IsPrefix(p, q)
  <2>1. Len(p) <= k /\ Prefix(Prefix(q, k), Len(p)) = p /\ Len(p) \in Nat
    BY <1>1, <1>3, IsPrefixOf
  <2>2. Len(p) \in 0 .. k /\ Len(p) <= Len(q)
    BY <2>1
  <2>3. Prefix(q, Len(p)) = p
    BY <2>1, <2>2, PrefixOfPrefix
  <2> QED
    BY <2>2, <2>3, IsPrefixOf
<1> QED
  BY <1>2, <1>3

LEMMA PrefixesAreShorter ==
  ASSUME NEW p \in Places, NEW k \in 1 .. Len(p) - 1
  PROVE  Prefix(p, k) # p /\ Prefix(p, k) \in Places /\ Prefix(p, k) # << >> /\ Len(Prefix(p, k)) = k
<1>1. k \in 0 .. Len(p) /\ k # Len(p) /\ k # 0
  BY DEF Places
<1>2. Prefix(p, k) \in Places /\ Len(Prefix(p, k)) = k
  BY <1>1, PrefixAt DEF Places
<1> QED
  BY <1>1, <1>2

LEMMA TreeWith ==
  ASSUME NEW f, Tree(f), NEW p \in Places, p # << >>, AreDirectories(f, p, Len(p) - 1),
         NEW e, IsEntry(e, Len(p)), Root!IsKind(f, p, "directory") => e.kind = "directory"
  PROVE  /\ Tree(Root!With(f, p, e)) /\ AreDirectories(Root!With(f, p, e), p, Len(p) - 1)
         /\ DOMAIN Root!With(f, p, e) = DOMAIN f \cup {p}
         /\ \A q \in DOMAIN f \cup {p} : Root!With(f, p, e)[q] = IF q = p THEN e ELSE f[q]
<1> DEFINE g == Root!With(f, p, e)
<1>1. /\ DOMAIN g = DOMAIN f \cup {p}
      /\ \A q \in DOMAIN g : g[q] = IF q = p THEN e ELSE f[q]
  BY DEF Root!With
<1> HIDE DEF g
<1>2. DOMAIN g \subseteq Places \ {<< >>}
  BY <1>1 DEF Tree
<1>3. AreDirectories(g, p, Len(p) - 1)
  <2> SUFFICES ASSUME NEW k \in 1 .. Len(p) - 1 PROVE Root!IsKind(g, Prefix(p, k), "directory")
    BY DEF AreDirectories
  <2>1. Root!IsKind(f, Prefix(p, k), "directory") /\ Prefix(p, k) # p
    BY PrefixesAreShorter DEF AreDirectories
  <2> QED
    BY <1>1, <2>1 DEF Root!IsKind
<1>4. ASSUME NEW q \in DOMAIN g
      PROVE  /\ IsEntry(g[q], Len(q))
             /\ \A k \in 1 .. Len(q) - 1 : Root!IsKind(g, Prefix(q, k), "directory")
  <2>1. CASE q = p
    BY <1>1, <1>3, <2>1 DEF AreDirectories
  <2>2. CASE q # p
    <3>1. q \in DOMAIN f /\ g[q] = f[q]
      BY <1>1, <2>2
    <3>2. \A k \in 1 .. Len(q) - 1 : Root!IsKind(f, Prefix(q, k), "directory")
      BY <3>1 DEF Tree
    <3>3. \A r : Root!IsKind(f, r, "directory") => Root!IsKind(g, r, "directory")
      BY <1>1 DEF Root!IsKind
    <3> QED
      BY <3>1, <3>2, <3>3 DEF Tree
  <2> QED
    BY <2>1, <2>2
<1>5. Tree(g)
  BY <1>2, <1>4 DEF Tree
<1> QED
  BY <1>1, <1>3, <1>5 DEF g

LEMMA TreeWithout ==
  ASSUME NEW f, Tree(f), NEW p \in Seq(STRING)
  PROVE  /\ Tree(Root!Without(f, p))
         /\ DOMAIN Root!Without(f, p) = {q \in DOMAIN f : ~Root!IsPrefix(p, q)}
         /\ \A q \in DOMAIN Root!Without(f, p) : Root!Without(f, p)[q] = f[q]
<1> DEFINE g == Root!Without(f, p)
<1>1. /\ DOMAIN g = {q \in DOMAIN f : ~Root!IsPrefix(p, q)}
      /\ \A q \in DOMAIN g : g[q] = f[q]
  BY DEF Root!Without
<1> HIDE DEF g
<1>2. DOMAIN g \subseteq Places \ {<< >>}
  BY <1>1 DEF Tree
<1>3. ASSUME NEW q \in DOMAIN g
      PROVE  /\ IsEntry(g[q], Len(q))
             /\ \A k \in 1 .. Len(q) - 1 : Root!IsKind(g, Prefix(q, k), "directory")
  <2>1. IsEntry(g[q], Len(q))
    BY <1>1 DEF Tree
  <2>2. ASSUME NEW k \in 1 .. Len(q) - 1 PROVE Root!IsKind(g, Prefix(q, k), "directory")
    <3>1. Root!IsKind(f, Prefix(q, k), "directory")
      BY <1>1 DEF Tree
    <3>2. q \in Seq(STRING) /\ k \in 0 .. Len(q)
      <4>1. q \in Seq(Root!Component)
        BY <1>2 DEF Places
      <4>2. Len(q) \in Nat /\ DOMAIN q = 1 .. Len(q) /\ \A i \in 1 .. Len(q) : q[i] \in Root!Component
        BY <4>1
      <4>3. k \in 0 .. Len(q)
        BY <4>2
      <4>4. \A i \in 1 .. Len(q) : q[i] \in STRING
        BY <4>2 DEF Root!Component
      <4> QED
        BY <4>1, <4>3, <4>4
    <3>3. ~Root!IsPrefix(p, Prefix(q, k))
      BY <1>1, <3>2, PrefixesOf
    <3> QED
      BY <1>1, <3>1, <3>3 DEF Root!IsKind
  <2> QED
    BY <2>1, <2>2
<1>4. Tree(g)
  BY <1>2, <1>3 DEF Tree
<1> QED
  BY <1>1, <1>4 DEF g

\* No file or link is on the way.
Clear(f, c, n) ==
  \A k \in 1 .. n : Prefix(c, k) \in DOMAIN f => f[Prefix(c, k)].kind = "directory"

\* What is not on the way to c is as it was, and so are the files.
Keeps(f, g, c) ==
  \A p \in DOMAIN f \cup DOMAIN g :
    \/ p \in DOMAIN f /\ p \in DOMAIN g /\ f[p] = g[p]
    \/ Root!IsPrefix(p, c) /\ ~Root!IsKind(f, p, "file")

LEMMA KeepsTwice ==
  ASSUME NEW f, NEW g, NEW h, NEW c, Keeps(f, g, c), Keeps(g, h, c)
  PROVE  Keeps(f, h, c)
<1> SUFFICES ASSUME NEW p \in DOMAIN f \cup DOMAIN h
             PROVE  \/ p \in DOMAIN f /\ p \in DOMAIN h /\ f[p] = h[p]
                    \/ Root!IsPrefix(p, c) /\ ~Root!IsKind(f, p, "file")
  BY DEF Keeps
<1> QED
  BY DEF Keeps, Root!IsKind

LEMMA TreeWithDirectories ==
  ASSUME NEW f, Tree(f), NEW c \in Places, NEW n \in 0 .. Len(c), Clear(f, c, n)
  PROVE  /\ Tree(Root!WithDirectories(f, c, n))
         /\ AreDirectories(Root!WithDirectories(f, c, n), c, n)
         /\ Keeps(f, Root!WithDirectories(f, c, n), c)
<1> DEFINE g == Root!WithDirectories(f, c, n)
           way == {Prefix(c, k) : k \in 1 .. n}
           D(h, q) == Root!IsKind(h, q, "directory")
<1>0. Len(c) \in Nat /\ n \in Nat /\ n <= Len(c) /\ c \in Seq(Root!Component)
  BY DEF Places
<1>1. /\ DOMAIN g = DOMAIN f \cup way
      /\ \A q \in DOMAIN g : g[q] = IF q \in way \ DOMAIN f THEN Root!Directory ELSE f[q]
  BY DEF Root!WithDirectories, Prefix
<1> HIDE DEF g
<1>2. \A k \in 1 .. n : /\ k \in 0 .. Len(c) /\ Prefix(c, k) \in Seq(Root!Component)
                        /\ Len(Prefix(c, k)) = k /\ Prefix(c, k) # << >>
  <2> SUFFICES ASSUME NEW k \in 1 .. n
               PROVE  /\ k \in 0 .. Len(c) /\ Prefix(c, k) \in Seq(Root!Component)
                      /\ Len(Prefix(c, k)) = k /\ Prefix(c, k) # << >>
    OBVIOUS
  <2>1. k \in 0 .. Len(c) /\ k # 0
    BY <1>0
  <2>2. Prefix(c, k) \in Seq(Root!Component) /\ Len(Prefix(c, k)) = k
    BY <1>0, <2>1, PrefixAt
  <2> QED
    BY <2>1, <2>2
<1>3. \A q \in DOMAIN f : g[q] = f[q]
  BY <1>1
<1>4. AreDirectories(g, c, n)
  <2> SUFFICES ASSUME NEW k \in 1 .. n PROVE D(g, Prefix(c, k))
    BY DEF AreDirectories
  <2>1. Prefix(c, k) \in DOMAIN g
    BY <1>1
  <2>2. CASE Prefix(c, k) \in DOMAIN f
    BY <1>3, <2>1, <2>2 DEF Clear, Root!IsKind
  <2>3. CASE Prefix(c, k) \notin DOMAIN f
    BY <1>1, <2>1, <2>3 DEF Root!IsKind, Root!Directory
  <2> QED
    BY <2>2, <2>3
<1>5. DOMAIN g \subseteq Places \ {<< >>}
  BY <1>1, <1>2 DEF Tree, Places
<1>6. ASSUME NEW q \in DOMAIN g
      PROVE  IsEntry(g[q], Len(q)) /\ \A k \in 1 .. Len(q) - 1 : D(g, Prefix(q, k))
  <2>1. CASE q \in DOMAIN f
    <3>1. \A k \in 1 .. Len(q) - 1 : D(f, Prefix(q, k))
      BY <2>1 DEF Tree
    <3>2. \A r : D(f, r) => D(g, r)
      BY <1>1, <1>3 DEF Root!IsKind
    <3> QED
      BY <1>3, <2>1, <3>1, <3>2 DEF Tree
  <2>2. CASE q \notin DOMAIN f
    <3>1. PICK j \in 1 .. n : q = Prefix(c, j)
      BY <1>1, <2>2
    <3>2. g[q] = Root!Directory
      BY <1>1, <2>2
    <3>3. IsEntry(g[q], Len(q))
      BY <3>2 DEF IsEntry, Root!Directory
    <3>4. ASSUME NEW k \in 1 .. Len(q) - 1 PROVE D(g, Prefix(q, k))
      <4>1. j \in 0 .. Len(c) /\ Len(q) = j
        BY <1>2, <3>1
      <4>2. k \in 0 .. j /\ k \in 1 .. n
        BY <1>0, <4>1
      <4>3. Prefix(q, k) = Prefix(c, k)
        BY <1>0, <3>1, <4>1, <4>2, PrefixOfPrefix
      <4> QED
        BY <1>4, <4>2, <4>3 DEF AreDirectories
    <3> QED
      BY <3>3, <3>4
  <2> QED
    BY <2>1, <2>2
<1>7. Tree(g)
  BY <1>5, <1>6 DEF Tree
<1>8. Keeps(f, g, c)
  <2> SUFFICES ASSUME NEW p \in DOMAIN f \cup DOMAIN g
               PROVE  \/ p \in DOMAIN f /\ p \in DOMAIN g /\ f[p] = g[p]
                      \/ Root!IsPrefix(p, c) /\ ~Root!IsKind(f, p, "file")
    BY DEF Keeps
  <2>1. CASE p \in DOMAIN f
    BY <1>1, <1>3, <2>1
  <2>2. CASE p \notin DOMAIN f
    <3>1. PICK k \in 1 .. n : p = Prefix(c, k)
      BY <1>1, <2>2
    <3>2. Root!IsPrefix(p, c)
      BY <1>0, <1>2, <3>1, PrefixesOf
    <3> QED
      BY <2>2, <3>2 DEF Root!IsKind
  <2> QED
    BY <2>1, <2>2
<1> QED
  BY <1>4, <1>7, <1>8 DEF g

-----------------------------------------------------------------------------
(* What the operations share.                                              *)

\* neutralize_links clears the way, or fails.
LEMMA Neutralized ==
  ASSUME Tree(entries), NEW c \in Places, NEW n \in 0 .. Len(c),
         NEW o \in Root!NeutralizeLinks(c, n)
  PROVE  Tree(o.fs) /\ Keeps(entries, o.fs, c) /\ (o.ok => Clear(o.fs, c, n))
<1> DEFINE others == {k \in 1 .. n : ~Root!IsDirectory(entries, Prefix(c, k))}
           first == CHOOSE k \in others : \A j \in others : k <= j
           p == Prefix(c, first)
<1>0. Len(c) \in Nat /\ n \in Nat /\ n <= Len(c) /\ c \in Seq(Root!Component)
  BY DEF Places
<1>1. o \in IF others = {} \/ ~Root!EntryExists(entries, p) THEN {Root!Outcome(TRUE, entries)}
            ELSE {Root!Outcome(FALSE, entries)}
                 \cup IF Root!IsKind(entries, p, "link")
                      THEN {Root!Outcome(TRUE, Root!Without(entries, p))} ELSE {}
  BY DEF Root!NeutralizeLinks, Prefix
<1>2. \A k \in 1 .. n : /\ k \in 0 .. Len(c) /\ Prefix(c, k) \in Seq(Root!Component)
                        /\ Len(Prefix(c, k)) = k /\ Prefix(c, k) # << >>
  <2> SUFFICES ASSUME NEW k \in 1 .. n
               PROVE  /\ k \in 0 .. Len(c) /\ Prefix(c, k) \in Seq(Root!Component)
                      /\ Len(Prefix(c, k)) = k /\ Prefix(c, k) # << >>
    OBVIOUS
  <2>1. k \in 0 .. Len(c) /\ k # 0
    BY <1>0
  <2>2. Prefix(c, k) \in Seq(Root!Component) /\ Len(Prefix(c, k)) = k
    BY <1>0, <2>1, PrefixAt
  <2> QED
    BY <2>1, <2>2
<1>3. ASSUME others # {}
      PROVE  first \in others /\ \A j \in others : first <= j
  <2>1. others \subseteq Nat
    BY <1>0
  <2> HIDE DEF others
  <2>2. \E k \in others : \A j \in others : k <= j
    BY <1>3, <2>1, LeastNatural
  <2> QED
    BY <2>2
<1>4. \A f : Keeps(f, f, c)
  BY DEF Keeps
<1>5. ASSUME NEW k \in 1 .. n, k \notin others
      PROVE  Root!IsKind(entries, Prefix(c, k), "directory")
  BY <1>2, <1>5 DEF Root!IsDirectory, Root!IsKind
<1>6. CASE others = {}
  <2>1. Clear(entries, c, n)
    BY <1>5, <1>6 DEF Clear, Root!IsKind
  <2>2. o = Root!Outcome(TRUE, entries)
    BY <1>1, <1>6
  <2> HIDE DEF others, first, p
  <2> QED
    BY <1>4, <2>1, <2>2 DEF Root!Outcome
<1>7. CASE others # {}
  <2>1. first \in 1 .. n /\ first \in others /\ \A k \in 1 .. n : k < first => k \notin others
    <3>1. first \in others /\ \A j \in others : first <= j
      BY <1>3, <1>7
    <3>2. first \in 1 .. n
      BY <3>1
    <3> HIDE DEF others, first
    <3> QED
      BY <3>1, <3>2
  <2> HIDE DEF first
  <2>2. ASSUME NEW k \in 1 .. n, Prefix(c, k) \in DOMAIN entries, k > first
        PROVE  Root!IsKind(entries, p, "directory")
    <3>1. k \in 0 .. Len(c) /\ first \in 0 .. k /\ first \in 1 .. Len(Prefix(c, k)) - 1
      BY <1>0, <1>2, <2>1, <2>2
    <3>2. Prefix(Prefix(c, k), first) = p
      BY <1>0, <3>1, PrefixOfPrefix
    <3> QED
      BY <2>2, <3>1, <3>2 DEF Tree
  <2>3. ~Root!IsKind(entries, p, "directory") /\ p \in Seq(Root!Component) /\ p # << >>
    BY <1>2, <2>1 DEF Root!IsDirectory, Root!IsKind
  <2>4. CASE p \notin DOMAIN entries
    <3>1. Clear(entries, c, n)
      <4> SUFFICES ASSUME NEW k \in 1 .. n, Prefix(c, k) \in DOMAIN entries
                   PROVE  entries[Prefix(c, k)].kind = "directory"
        BY DEF Clear
      <4>1. k < first
        <5>1. k # first /\ ~(k > first) /\ k \in Int /\ first \in Int
          BY <2>1, <2>2, <2>3, <2>4
        <5> QED
          BY <5>1
      <4> QED
        BY <1>5, <2>1, <4>1 DEF Root!IsKind
    <3>2. o = Root!Outcome(TRUE, entries)
      BY <1>1, <2>3, <2>4 DEF Root!EntryExists, first
    <3> HIDE DEF others, p
    <3> QED
      BY <1>4, <3>1, <3>2 DEF Root!Outcome
  <2>5. CASE p \in DOMAIN entries
    <3>1. \/ o = Root!Outcome(FALSE, entries)
          \/ Root!IsKind(entries, p, "link") /\ o = Root!Outcome(TRUE, Root!Without(entries, p))
      <4>1. Root!EntryExists(entries, p)
        BY <2>5 DEF Root!EntryExists
      <4> QED
        BY <1>1, <1>7, <4>1 DEF first
    <3>2. CASE o = Root!Outcome(FALSE, entries)
      <4> HIDE DEF others, p
      <4> QED
        BY <1>4, <3>2 DEF Root!Outcome
    <3>3. CASE Root!IsKind(entries, p, "link") /\ o = Root!Outcome(TRUE, Root!Without(entries, p))
      <4> DEFINE g == Root!Without(entries, p)
      <4>1. p \in Seq(STRING)
        <5>1. Len(p) \in Nat /\ DOMAIN p = 1 .. Len(p) /\ \A i \in 1 .. Len(p) : p[i] \in Root!Component
          BY <2>3
        <5>2. \A i \in 1 .. Len(p) : p[i] \in STRING
          BY <5>1 DEF Root!Component
        <5> QED
          BY <2>3, <5>2
      <4>2. /\ Tree(g) /\ DOMAIN g = {q \in DOMAIN entries : ~Root!IsPrefix(p, q)}
            /\ \A q \in DOMAIN g : g[q] = entries[q]
        BY <4>1, TreeWithout
      <4> HIDE DEF g
      <4>3. ASSUME NEW q \in DOMAIN entries, Root!IsPrefix(p, q) PROVE q = p
        <5>1. q \in Seq(Root!Component) /\ Len(p) = first
          BY <1>2, <2>1 DEF Tree, Places
        <5>2. first <= Len(q) /\ Prefix(q, first) = p /\ Len(q) \in Nat
          BY <2>3, <4>3, <5>1, IsPrefixOf
        <5>3. CASE first = Len(q)
          <6>1. Len(q) \in 0 .. Len(q)
            BY <5>2
          <6> QED
            BY <5>1, <5>2, <5>3, <6>1, PrefixAt
        <5>4. CASE first # Len(q)
          <6>1. first \in 1 .. Len(q) - 1
            BY <2>1, <5>2, <5>4
          <6>2. Root!IsKind(entries, Prefix(q, first), "directory")
            BY <6>1 DEF Tree
          <6> QED
            BY <2>3, <5>2, <6>2
        <5> QED
          BY <5>3, <5>4
      <4>4. Root!IsPrefix(p, c) /\ ~Root!IsKind(entries, p, "file")
        BY <1>0, <1>2, <2>1, <3>3, PrefixesOf DEF Root!IsKind
      <4>5. Keeps(entries, g, c)
        BY <4>2, <4>3, <4>4 DEF Keeps
      <4>6. Clear(g, c, n)
        <5> SUFFICES ASSUME NEW k \in 1 .. n, Prefix(c, k) \in DOMAIN g
                     PROVE  g[Prefix(c, k)].kind = "directory"
          BY DEF Clear
        <5>1. Prefix(c, k) \in DOMAIN entries /\ ~Root!IsPrefix(p, Prefix(c, k))
          BY <4>2
        <5>2. ~(k > first)
          BY <2>2, <2>3, <5>1
        <5>3. k # first
          <6>1. Root!IsPrefix(p, p)
            BY DEF Root!IsPrefix
          <6> QED
            BY <5>1, <6>1
        <5>4. k < first
          <6>1. k \in Int /\ first \in Int
            BY <2>1
          <6> QED
            BY <5>2, <5>3, <6>1
        <5>5. Root!IsKind(entries, Prefix(c, k), "directory")
          BY <1>5, <2>1, <5>4
        <5> QED
          BY <4>2, <5>5 DEF Root!IsKind
      <4>7. o.fs = g /\ o.ok = TRUE
        BY <3>3 DEF Root!Outcome, g
      <4> QED
        BY <4>2, <4>5, <4>6, <4>7
    <3> QED
      BY <3>1, <3>2, <3>3
  <2> QED
    BY <2>4, <2>5
<1> QED
  BY <1>6, <1>7

LEMMA Made ==
  ASSUME NEW f, Tree(f), NEW c \in Places, NEW n \in 0 .. Len(c), Clear(f, c, n),
         NEW o \in Root!MadeIn(f, c, n)
  PROVE  Tree(o.fs) /\ Keeps(f, o.fs, c) /\ (o.ok => AreDirectories(o.fs, c, n))
<1> DEFINE made == Root!WithDirectories(f, c, n)
<1>1. \/ o.fs = made
      \/ o.fs = f /\ o.ok = FALSE
  BY DEF Root!MadeIn, Root!Outcome
<1>2. Tree(made) /\ AreDirectories(made, c, n) /\ Keeps(f, made, c)
  BY TreeWithDirectories
<1>3. Keeps(f, f, c)
  BY DEF Keeps
<1> HIDE DEF made
<1> QED
  BY <1>1, <1>2, <1>3

LEMMA Prepared ==
  ASSUME Tree(entries), NEW c \in Places, NEW n \in 0 .. Len(c), NEW o \in Root!Prepare(c, n)
  PROVE  Tree(o.fs) /\ Keeps(entries, o.fs, c) /\ (o.ok => AreDirectories(o.fs, c, n))
<1>1. PICK cleared \in Root!NeutralizeLinks(c, n) :
        o \in IF cleared.ok THEN Root!MadeIn(cleared.fs, c, n) ELSE {cleared}
  BY DEF Root!Prepare
<1>2. Tree(cleared.fs) /\ Keeps(entries, cleared.fs, c) /\ (cleared.ok => Clear(cleared.fs, c, n))
  BY Neutralized
<1>3. CASE cleared.ok
  <2>1. o \in Root!MadeIn(cleared.fs, c, n) /\ Clear(cleared.fs, c, n)
    BY <1>1, <1>2, <1>3
  <2>2. Tree(o.fs) /\ Keeps(cleared.fs, o.fs, c) /\ (o.ok => AreDirectories(o.fs, c, n))
    BY <1>2, <2>1, Made
  <2> QED
    BY <1>2, <2>2, KeepsTwice
<1>4. CASE ~cleared.ok
  BY <1>1, <1>2, <1>4
<1> QED
  BY <1>3, <1>4

LEMMA ParentPrepared ==
  ASSUME Tree(entries), NEW c \in Places, NEW o \in Root!PrepareParent(c)
  PROVE  /\ Tree(o.fs) /\ Keeps(entries, o.fs, c)
         /\ o.ok => c # << >> /\ AreDirectories(o.fs, c, Len(c) - 1)
<1>1. CASE c = << >>
  <2>1. o = Root!Outcome(FALSE, entries)
    BY <1>1 DEF Root!PrepareParent
  <2> QED
    BY <2>1 DEF Root!Outcome, Keeps
<1>2. CASE c # << >>
  <2>1. o \in Root!Prepare(c, Len(c) - 1)
    BY <1>2 DEF Root!PrepareParent
  <2>2. Len(c) - 1 \in 0 .. Len(c)
    BY <1>2 DEF Places
  <2> QED
    BY <1>2, <2>1, <2>2, Prepared
<1> QED
  BY <1>1, <1>2

\* Below directories an entry is found at its own path.
LEMMA PlaceBelowDirectories ==
  ASSUME NEW f, Tree(f), NEW c \in Places, c # << >>, AreDirectories(f, c, Len(c) - 1)
  PROVE  Root!Place(f, c) = c
<1>1. /\ Front(c) \in Places /\ Append(Front(c), Last(c)) = c /\ Len(Front(c)) = Len(c) - 1
      /\ Len(c) - 1 \in Nat /\ \A k \in 0 .. Len(c) - 1 : Prefix(Front(c), k) = Prefix(c, k)
  BY FrontAndLast DEF Places
<1>2. AreDirectories(f, Front(c), Len(Front(c)))
  BY <1>1 DEF AreDirectories
<1>3. Root!Arrives(f, Front(c)) = Front(c)
  BY <1>1, <1>2, ArrivesAtDirectory
<1> QED
  BY <1>1, <1>3 DEF Root!Place, Root!Front, Root!Last, Front, Last

-----------------------------------------------------------------------------
(* The operations, one by one.                                             *)

\* What an operation answers to when it says that it is done.
Found(operation, f, at) ==
  CASE operation \in {"create", "append"} ->
         Root!IsKind(f, at, "file") /\ f[at].data # << >>
    [] operation = "directory" -> Root!IsDirectory(f, at)
    [] operation = "symlink" -> Root!EntryExists(f, at)
    [] operation = "remove" -> \A p \in DOMAIN f : ~Root!IsPrefix(at, p)
    [] operation = "execute" -> Root!Arrives(f, at) # Root!Missing

Same(f, g, p) ==
  /\ p \in DOMAIN f /\ p \in DOMAIN g /\ f[p].kind = g[p].kind
  /\ IF Root!IsKind(f, p, "file") THEN f[p].data = g[p].data ELSE f[p] = g[p]

\* What an operation may change.
Changes(operation, f, g, at) ==
  \A p \in DOMAIN f \cup DOMAIN g :
    ~Same(f, g, p) =>
      /\ Root!IsPrefix(p, at) \/ (operation = "remove" /\ Root!IsPrefix(at, p))
      /\ Root!IsKind(f, p, "file") /\ operation # "remove" =>
           operation = "append" /\ Root!IsPrefix(f[p].data, g[p].data)

TreeInv == Tree(entries) /\ Root!AnswerIsTrue

LEMMA AnswerGiven ==
  ASSUME NEW operation \in {"create", "append", "directory", "symlink", "remove", "execute"},
         NEW c, NEW outcomes, Root!Answers(operation, c, outcomes),
         \A o \in outcomes : /\ Tree(o.fs) /\ (o.ok => Found(operation, o.fs, c))
                             /\ Changes(operation, entries, o.fs, c)
  PROVE  TreeInv' /\ Root!OnlyNamedChange
<1>1. PICK o \in outcomes : entries' = o.fs /\ told' = [operation |-> operation, at |-> c, ok |-> o.ok]
  BY DEF Root!Answers
<1>2. Tree(entries) '
  BY <1>1
<1>3. /\ told'.operation = operation /\ told'.at = c /\ told'.ok = o.ok
      /\ o.ok => Found(operation, entries', c)
      /\ Changes(operation, entries, entries', c)
  BY <1>1
<1>4. Root!AnswerIsTrue'
  BY <1>3 DEF Root!AnswerIsTrue, Found
<1>5. Root!OnlyNamedChange
  BY <1>3 DEF Root!OnlyNamedChange, Root!Unchanged, Changes, Same
<1> QED
  BY <1>2, <1>4, <1>5 DEF TreeInv

LEMMA KeepsChanges ==
  ASSUME NEW f, NEW g, NEW c, NEW operation, Keeps(f, g, c)
  PROVE  Changes(operation, f, g, c)
<1> SUFFICES ASSUME NEW p \in DOMAIN f \cup DOMAIN g, ~Same(f, g, p)
             PROVE  Root!IsPrefix(p, c) /\ ~Root!IsKind(f, p, "file")
  BY DEF Changes
<1>1. ~(p \in DOMAIN f /\ p \in DOMAIN g /\ f[p] = g[p])
  BY DEF Same
<1> QED
  BY <1>1 DEF Keeps

\* What happened on the way to a file before it was changed.
LEMMA ChangesAfterKeeps ==
  ASSUME NEW f, NEW g, NEW h, NEW c, NEW operation, Keeps(f, g, c), Changes(operation, g, h, c)
  PROVE  Changes(operation, f, h, c)
<1> SUFFICES ASSUME NEW p \in DOMAIN f \cup DOMAIN h, ~Same(f, h, p)
             PROVE  /\ Root!IsPrefix(p, c) \/ (operation = "remove" /\ Root!IsPrefix(c, p))
                    /\ Root!IsKind(f, p, "file") /\ operation # "remove" =>
                         operation = "append" /\ Root!IsPrefix(f[p].data, h[p].data)
  BY DEF Changes
<1>1. CASE p \in DOMAIN f /\ p \in DOMAIN g /\ f[p] = g[p]
  <2>1. ~Same(g, h, p)
    BY <1>1 DEF Same, Root!IsKind
  <2>2. Root!IsKind(f, p, "file") <=> Root!IsKind(g, p, "file")
    BY <1>1 DEF Root!IsKind
  <2> QED
    BY <1>1, <2>1, <2>2 DEF Changes
<1>2. CASE ~(p \in DOMAIN f /\ p \in DOMAIN g /\ f[p] = g[p])
  <2>1. CASE p \in DOMAIN f \cup DOMAIN g
    BY <1>2, <2>1 DEF Keeps
  <2>2. CASE p \notin DOMAIN f \cup DOMAIN g
    <3>1. p \in DOMAIN h /\ ~Same(g, h, p) /\ ~Root!IsKind(f, p, "file")
      BY <2>2 DEF Same, Root!IsKind
    <3> QED
      BY <3>1 DEF Changes
  <2> QED
    BY <2>1, <2>2
<1> QED
  BY <1>1, <1>2

Written(file) == file \in [kind : {"file"}, data : Seq({"written"}), exec : BOOLEAN]

\* write_bytes to a file that was just made, or to one that is there.
LEMMA BytesWritten ==
  ASSUME NEW f, Tree(f), NEW c \in Places, c # << >>, AreDirectories(f, c, Len(c) - 1),
         NEW file, Written(file),
         c \in DOMAIN f => f[c] = file, NEW o \in Root!WriteBytes(f, c, file)
  PROVE  /\ Tree(o.fs)
         /\ o.ok => Root!IsKind(o.fs, c, "file") /\ o.fs[c].data # << >>
         /\ Changes(IF c \in DOMAIN f THEN "append" ELSE "create", f, o.fs, c)
<1> DEFINE longer == [file EXCEPT !.data = Append(@, "written")]
           G(e) == Root!With(f, c, e)
           op == IF c \in DOMAIN f THEN "append" ELSE "create"
<1>1. /\ file.kind = "file" /\ file.data \in Seq({"written"}) /\ file.exec \in BOOLEAN
      /\ file = [kind |-> "file", data |-> file.data, exec |-> file.exec]
  BY DEF Written
<1>2. /\ Append(file.data, "written") \in Seq({"written"}) /\ Append(file.data, "written") # << >>
      /\ Root!IsPrefix(file.data, Append(file.data, "written"))
      /\ Root!IsPrefix(file.data, file.data)
  <2> DEFINE d == file.data
             l == Append(d, "written")
  <2>1. /\ d \in Seq({"written"}) /\ "written" \in {"written"}
    BY <1>1
  <2> HIDE DEF d
  <2>2. /\ l \in Seq({"written"}) /\ l # << >> /\ Len(l) = Len(d) + 1
        /\ \A i \in 1 .. Len(d) : l[i] = d[i]
    BY <2>1, AppendProperties
  <2> HIDE DEF l
  <2>3. Len(d) \in 0 .. Len(d) /\ Len(d) <= Len(l) /\ Len(d) \in Nat
    BY <2>1, <2>2
  <2>4. Prefix(d, Len(d)) = Prefix(l, Len(d))
    BY <2>1, <2>2, <2>3, SamePrefix
  <2>5. Root!IsPrefix(d, l) /\ Root!IsPrefix(d, d)
    BY <2>3, <2>4 DEF Root!IsPrefix, Prefix
  <2> QED
    BY <2>2, <2>5 DEF d, l
<1>4. /\ longer.kind = "file" /\ longer.data = Append(file.data, "written")
      /\ Written(longer)
  BY <1>2 DEF Written
<1>5. \/ o.fs = f /\ o.ok = FALSE
      \/ o.fs = G(longer) /\ o.ok = TRUE
      \/ o.fs = G(file) /\ o.ok = FALSE
  <2>1. o \in {Root!Outcome(TRUE, G(longer)), Root!Outcome(FALSE, f), Root!Outcome(FALSE, G(file))}
    BY DEF Root!WriteBytes
  <2> HIDE DEF longer, G
  <2> QED
    BY <2>1 DEF Root!Outcome
<1> HIDE DEF longer
<1>6. ASSUME NEW e, Written(e), e.data \in {file.data, longer.data}
      PROVE  /\ Tree(G(e)) /\ c \in DOMAIN G(e) /\ G(e)[c] = e /\ Changes(op, f, G(e), c)
  <2>1. e.kind = "file" /\ IsEntry(e, Len(c))
    BY <1>6 DEF Written, IsEntry
  <2>2. Root!IsKind(f, c, "directory") => e.kind = "directory"
    BY <1>1 DEF Root!IsKind
  <2>3. /\ Tree(G(e)) /\ DOMAIN G(e) = DOMAIN f \cup {c}
        /\ \A q \in DOMAIN f \cup {c} : G(e)[q] = IF q = c THEN e ELSE f[q]
    <3>1. Tree(G(e))
      BY <2>1, <2>2, TreeWith
    <3> QED
      BY <3>1 DEF Root!With
  <2> HIDE DEF G
  <2>4. ASSUME NEW p \in DOMAIN f \cup DOMAIN G(e), ~Same(f, G(e), p)
        PROVE  /\ Root!IsPrefix(p, c)
               /\ Root!IsKind(f, p, "file") =>
                    op = "append" /\ Root!IsPrefix(f[p].data, G(e)[p].data)
    <3>1. p = c
      BY <2>3, <2>4 DEF Same
    <3>2. Root!IsPrefix(p, c)
      BY <3>1 DEF Root!IsPrefix
    <3>3. Root!IsPrefix(file.data, e.data)
      BY <1>2, <1>4, <1>6
    <3>4. Root!IsKind(f, p, "file") => c \in DOMAIN f /\ f[p] = file /\ G(e)[p] = e
      BY <2>3, <3>1 DEF Root!IsKind
    <3> QED
      BY <3>2, <3>3, <3>4
  <2>5. Changes(op, f, G(e), c)
    BY <2>4 DEF Changes
  <2> QED
    BY <2>3, <2>5
<1>7. Changes(op, f, f, c)
  <2>1. Keeps(f, f, c)
    BY DEF Keeps
  <2> QED
    BY <2>1, KeepsChanges
<1> HIDE DEF G, op
<1>8. CASE o.fs = f /\ o.ok = FALSE
  BY <1>7, <1>8 DEF op
<1>9. CASE o.fs = G(longer) /\ o.ok = TRUE
  <2>1. /\ Tree(G(longer)) /\ c \in DOMAIN G(longer) /\ G(longer)[c] = longer
        /\ Changes(op, f, G(longer), c)
    BY <1>4, <1>6
  <2> QED
    BY <1>2, <1>4, <1>9, <2>1 DEF op, Root!IsKind
<1>10. CASE o.fs = G(file) /\ o.ok = FALSE
  BY <1>6, <1>10 DEF op
<1> QED
  BY <1>5, <1>8, <1>9, <1>10

LEMMA FileMade ==
  ASSUME NEW f, Tree(f), NEW c \in Places, c # << >>, AreDirectories(f, c, Len(c) - 1),
         NEW o \in Root!FileIn(f, c)
  PROVE  /\ Tree(o.fs)
         /\ o.ok => Root!IsKind(o.fs, c, "file") /\ o.fs[c].data # << >>
         /\ Changes("create", f, o.fs, c)
<1>1. CASE Root!EntryExists(f, c)
  <2>1. o = Root!Outcome(FALSE, f)
    BY <1>1 DEF Root!FileIn
  <2>2. Keeps(f, f, c)
    BY DEF Keeps
  <2> QED
    BY <2>1, <2>2, KeepsChanges DEF Root!Outcome
<1>2. CASE ~Root!EntryExists(f, c)
  <2>1. o \in Root!WriteBytes(f, c, Root!NewFile) /\ c \notin DOMAIN f
    BY <1>2 DEF Root!FileIn, Root!EntryExists
  <2>2. Written(Root!NewFile)
    <3>1. << >> \in Seq({"written"})
      OBVIOUS
    <3> QED
      BY <3>1 DEF Written, Root!NewFile
  <2> QED
    BY <2>1, <2>2, BytesWritten
<1> QED
  BY <1>1, <1>2

LEMMA PathTaken ==
  ASSUME NEW path \in RawPaths
  PROVE  Root!RelativeComponents(path) \in Places
<1>1. path \in Seq(RawSteps)
  BY ChrootAssumption DEF RawSteps
<1> QED
  BY <1>1, ComponentsArePlace

LEMMA FileOutcome ==
  ASSUME Tree(entries), NEW c \in Places, NEW o \in Root!FileOutcomes(c)
  PROVE  /\ Tree(o.fs)
         /\ o.ok => Root!IsKind(o.fs, c, "file") /\ o.fs[c].data # << >>
         /\ Changes("create", entries, o.fs, c)
<1>1. PICK q \in Root!PrepareParent(c) :
        o \in IF q.ok THEN Root!FileIn(q.fs, Root!Place(q.fs, c)) ELSE {q}
  BY DEF Root!FileOutcomes, Root!AfterParent
<1>2. /\ Tree(q.fs) /\ Keeps(entries, q.fs, c)
      /\ q.ok => c # << >> /\ AreDirectories(q.fs, c, Len(c) - 1)
  BY ParentPrepared
<1>3. CASE q.ok
  <2>1. Root!Place(q.fs, c) = c
    BY <1>2, <1>3, PlaceBelowDirectories
  <2>2. o \in Root!FileIn(q.fs, c)
    BY <1>1, <1>3, <2>1
  <2>3. /\ Tree(o.fs)
        /\ o.ok => Root!IsKind(o.fs, c, "file") /\ o.fs[c].data # << >>
        /\ Changes("create", q.fs, o.fs, c)
    BY <1>2, <1>3, <2>2, FileMade
  <2> QED
    BY <1>2, <2>3, ChangesAfterKeeps
<1>4. CASE ~q.ok
  <2>1. o = q
    BY <1>1, <1>4
  <2> QED
    BY <1>2, <1>4, <2>1, KeepsChanges
<1> QED
  BY <1>3, <1>4

LEMMA NothingDone ==
  ASSUME Tree(entries), NEW c, NEW operation, NEW o \in {Root!Outcome(FALSE, entries)}
  PROVE  /\ Tree(o.fs) /\ o.ok = FALSE
         /\ Changes(operation, entries, o.fs, c)
<1>1. o.fs = entries /\ o.ok = FALSE
  BY DEF Root!Outcome
<1>2. Keeps(entries, entries, c)
  BY DEF Keeps
<1> QED
  BY <1>1, <1>2, KeepsChanges

LEMMA CreateFileHolds ==
  ASSUME TreeInv, NEW path \in RawPaths, Root!CreateFile(path)
  PROVE  TreeInv' /\ Root!OnlyNamedChange
<1> DEFINE c == Root!RelativeComponents(path)
<1>1. c \in Places
  BY PathTaken
<1>2. ASSUME NEW o \in Root!FileOutcomes(c)
      PROVE  /\ Tree(o.fs) /\ (o.ok => Found("create", o.fs, c))
             /\ Changes("create", entries, o.fs, c)
  BY <1>1, FileOutcome DEF TreeInv, Found
<1>3. Root!Answers("create", c, Root!FileOutcomes(c))
  BY DEF Root!CreateFile
<1> HIDE DEF c
<1> QED
  BY <1>2, <1>3, AnswerGiven

LEMMA CarveFileHolds ==
  ASSUME TreeInv, NEW path \in RawPaths, Root!CarveFile(path)
  PROVE  TreeInv' /\ Root!OnlyNamedChange
<1> DEFINE c == Root!RelativeComponents(path)
<1>1. c \in Places
  BY PathTaken
<1>2. PICK contained \in BOOLEAN :
        Root!Answers("create", c,
                     IF contained THEN Root!FileOutcomes(c) ELSE {Root!Outcome(FALSE, entries)})
  BY DEF Root!CarveFile
<1> HIDE DEF c
<1> DEFINE outcomes == IF contained THEN Root!FileOutcomes(c) ELSE {Root!Outcome(FALSE, entries)}
<1>3. ASSUME NEW o \in outcomes
      PROVE  /\ Tree(o.fs) /\ (o.ok => Found("create", o.fs, c))
             /\ Changes("create", entries, o.fs, c)
  <2>1. CASE contained
    BY <1>1, <1>3, <2>1, FileOutcome DEF TreeInv, Found
  <2>2. CASE ~contained
    BY <1>3, <2>2, NothingDone DEF TreeInv
  <2> QED
    BY <2>1, <2>2
<1> HIDE DEF outcomes
<1>4. Root!Answers("create", c, outcomes)
  BY <1>2 DEF outcomes
<1> QED
  BY <1>3, <1>4, AnswerGiven

LEMMA CreateChangesAreAppends ==
  ASSUME NEW f, NEW g, NEW c, Changes("create", f, g, c)
  PROVE  Changes("append", f, g, c)
BY DEF Changes

LEMMA AppendOutcome ==
  ASSUME NEW f, Tree(f), NEW c \in Places, c # << >>, AreDirectories(f, c, Len(c) - 1),
         NEW o \in Root!AppendedIn(f, c)
  PROVE  /\ Tree(o.fs)
         /\ o.ok => Root!IsKind(o.fs, c, "file") /\ o.fs[c].data # << >>
         /\ Changes("append", f, o.fs, c)
<1>1. CASE Root!IsKind(f, c, "file")
  <2>1. o \in Root!WriteBytes(f, c, f[c])
    BY <1>1 DEF Root!AppendedIn
  <2>2. c \in DOMAIN f /\ Written(f[c])
    BY <1>1 DEF Root!IsKind, Tree, IsEntry, Written
  <2> QED
    BY <2>1, <2>2, BytesWritten
<1>2. CASE ~Root!IsKind(f, c, "file")
  <2>1. o \in Root!FileIn(f, c)
    BY <1>2 DEF Root!AppendedIn
  <2> QED
    BY <2>1, FileMade, CreateChangesAreAppends
<1> QED
  BY <1>1, <1>2

LEMMA AppendToFileHolds ==
  ASSUME TreeInv, NEW path \in RawPaths, Root!AppendToFile(path)
  PROVE  TreeInv' /\ Root!OnlyNamedChange
<1> DEFINE c == Root!RelativeComponents(path)
           outcomes == Root!AfterParent(c, LAMBDA f : Root!AppendedIn(f, Root!Place(f, c)))
<1>1. c \in Places
  BY PathTaken
<1>2. Root!Answers("append", c, outcomes)
  BY DEF Root!AppendToFile
<1> HIDE DEF c
<1>3. ASSUME NEW o \in outcomes
      PROVE  /\ Tree(o.fs) /\ (o.ok => Found("append", o.fs, c))
             /\ Changes("append", entries, o.fs, c)
  <2>1. PICK q \in Root!PrepareParent(c) :
          o \in IF q.ok THEN Root!AppendedIn(q.fs, Root!Place(q.fs, c)) ELSE {q}
    BY DEF Root!AfterParent
  <2>2. /\ Tree(q.fs) /\ Keeps(entries, q.fs, c)
        /\ q.ok => c # << >> /\ AreDirectories(q.fs, c, Len(c) - 1)
    BY <1>1, ParentPrepared DEF TreeInv
  <2>3. CASE q.ok
    <3>1. Root!Place(q.fs, c) = c
      BY <1>1, <2>2, <2>3, PlaceBelowDirectories
    <3>2. o \in Root!AppendedIn(q.fs, c)
      BY <2>1, <2>3, <3>1
    <3>3. /\ Tree(o.fs)
          /\ o.ok => Root!IsKind(o.fs, c, "file") /\ o.fs[c].data # << >>
          /\ Changes("append", q.fs, o.fs, c)
      BY <1>1, <2>2, <2>3, <3>2, AppendOutcome
    <3> QED
      BY <2>2, <3>3, ChangesAfterKeeps DEF Found
  <2>4. CASE ~q.ok
    <3>1. o = q
      BY <2>1, <2>4
    <3> QED
      BY <2>2, <2>4, <3>1, KeepsChanges
  <2> QED
    BY <2>3, <2>4
<1> HIDE DEF outcomes
<1> QED
  BY <1>2, <1>3, AnswerGiven

LEMMA CreateDirectoryHolds ==
  ASSUME TreeInv, NEW path \in RawPaths, Root!CreateDirectory(path)
  PROVE  TreeInv' /\ Root!OnlyNamedChange
<1> DEFINE c == Root!RelativeComponents(path)
           outcomes == IF c = << >> THEN {Root!Outcome(TRUE, entries)} ELSE Root!Prepare(c, Len(c))
<1>1. c \in Places
  BY PathTaken
<1>2. Root!Answers("directory", c, outcomes)
  BY DEF Root!CreateDirectory
<1> HIDE DEF c
<1>3. ASSUME NEW o \in outcomes
      PROVE  /\ Tree(o.fs) /\ (o.ok => Found("directory", o.fs, c))
             /\ Changes("directory", entries, o.fs, c)
  <2>1. CASE c = << >>
    <3>1. o.fs = entries
      BY <2>1 DEF Root!Outcome
    <3>2. Keeps(entries, entries, c)
      BY DEF Keeps
    <3>3. Found("directory", o.fs, c)
      BY <2>1 DEF Found, Root!IsDirectory
    <3> QED
      BY <3>1, <3>2, <3>3, KeepsChanges DEF TreeInv
  <2>2. CASE c # << >>
    <3>1. o \in Root!Prepare(c, Len(c))
      BY <2>2
    <3>2. Len(c) \in 0 .. Len(c) /\ Len(c) \in 1 .. Len(c)
      BY <1>1, <2>2 DEF Places
    <3>3. Tree(o.fs) /\ Keeps(entries, o.fs, c) /\ (o.ok => AreDirectories(o.fs, c, Len(c)))
      BY <1>1, <3>1, <3>2, Prepared DEF TreeInv
    <3>4. Prefix(c, Len(c)) = c
      BY <1>1, <3>2, PrefixAt DEF Places
    <3>5. o.ok => Found("directory", o.fs, c)
      BY <3>2, <3>3, <3>4 DEF AreDirectories, Found, Root!IsDirectory, Root!IsKind
    <3> QED
      BY <3>3, <3>5, KeepsChanges
  <2> QED
    BY <2>1, <2>2
<1> HIDE DEF outcomes
<1> QED
  BY <1>2, <1>3, AnswerGiven

LEMMA PlacesAreStrings ==
  /\ Places \subseteq Seq(STRING)
  /\ \A p \in Places, r \in Seq(STRING) : Root!IsPrefix(r, p) => r \in Places
<1>1. ASSUME NEW p \in Places PROVE p \in Seq(STRING)
  <2>1. Len(p) \in Nat /\ DOMAIN p = 1 .. Len(p) /\ \A i \in 1 .. Len(p) : p[i] \in Root!Component
    BY DEF Places
  <2>2. \A i \in 1 .. Len(p) : p[i] \in STRING
    BY <2>1 DEF Root!Component
  <2>3. p \in Seq(Root!Component)
    BY DEF Places
  <2> QED
    BY <2>2, <2>3
<1>2. ASSUME NEW p \in Places, NEW r \in Seq(STRING), Root!IsPrefix(r, p) PROVE r \in Places
  <2>1. Len(r) <= Len(p) /\ Prefix(p, Len(r)) = r /\ Len(r) \in Nat
    BY <1>1, <1>2, IsPrefixOf
  <2>2. Len(r) \in 0 .. Len(p)
    BY <2>1 DEF Places
  <2> QED
    BY <2>1, <2>2, PrefixAt DEF Places
<1> QED
  BY <1>1, <1>2

\* On a way that is clear either all directories are there, or it ends where
\* one is not, and below that there is nothing.
LEMMA ClearWay ==
  ASSUME NEW f, Tree(f), NEW c \in Places, c # << >>, Clear(f, c, Len(c) - 1),
         ~AreDirectories(f, c, Len(c) - 1)
  PROVE  /\ \E x : Root!Place(f, c) = Append(Root!Missing, x) /\ x \in STRING
         /\ \A p \in DOMAIN f : ~Root!IsPrefix(c, p)
<1> DEFINE absent == {k \in 1 .. Len(c) - 1 : Prefix(c, k) \notin DOMAIN f}
<1>0. /\ Len(c) \in Nat /\ Len(c) - 1 \in Nat /\ c \in Seq(Root!Component)
      /\ Front(c) \in Places /\ Last(c) \in Root!Component /\ Len(Front(c)) = Len(c) - 1
      /\ \A k \in 0 .. Len(c) - 1 : Prefix(Front(c), k) = Prefix(c, k)
  BY FrontAndLast DEF Places
<1>1. absent # {} /\ absent \subseteq Nat
  <2>1. PICK k \in 1 .. Len(c) - 1 : ~Root!IsKind(f, Prefix(c, k), "directory")
    BY DEF AreDirectories
  <2>2. Prefix(c, k) \notin DOMAIN f
    BY <2>1 DEF Clear, Root!IsKind
  <2> QED
    BY <1>0, <2>2
<1>2. PICK j \in absent : \A k \in absent : j <= k
  <2> HIDE DEF absent
  <2> QED
    BY <1>1, LeastNatural
<1>3. j \in 1 .. Len(c) - 1 /\ Prefix(c, j) \notin DOMAIN f
  OBVIOUS
<1>4. \A k \in 1 .. j - 1 : Root!IsKind(f, Prefix(c, k), "directory")
  <2> SUFFICES ASSUME NEW k \in 1 .. j - 1 PROVE Root!IsKind(f, Prefix(c, k), "directory")
    OBVIOUS
  <2>1. k \in 1 .. Len(c) - 1 /\ ~(j <= k)
    BY <1>0, <1>3
  <2>2. Prefix(c, k) \in DOMAIN f
    BY <1>2, <2>1
  <2> QED
    BY <2>1, <2>2 DEF Clear, Root!IsKind
<1> HIDE DEF absent
<1>5. Root!Arrives(f, Front(c)) = Root!Missing
  <2>1. /\ j - 1 \in 0 .. Len(Front(c)) - 1 /\ (j - 1) + 1 = j
        /\ j \in 0 .. Len(c) - 1 /\ \A k \in 1 .. j - 1 : k \in 0 .. Len(c) - 1
    BY <1>0, <1>3
  <2>2. AreDirectories(f, Front(c), j - 1)
    BY <1>0, <1>4, <2>1 DEF AreDirectories
  <2>3. Prefix(Front(c), (j - 1) + 1) \notin DOMAIN f
    BY <1>0, <1>3, <2>1
  <2> QED
    BY <1>0, <2>1, <2>2, <2>3, ArrivesNowhere
<1>6. Root!Place(f, c) = Append(Root!Missing, Last(c)) /\ Last(c) \in STRING
  BY <1>0, <1>5 DEF Root!Place, Root!Front, Root!Last, Front, Last, Root!Component
<1>7. ASSUME NEW p \in DOMAIN f, Root!IsPrefix(c, p) PROVE FALSE
  <2>1. p \in Places
    BY DEF Tree
  <2>2. Len(c) <= Len(p) /\ Prefix(p, Len(c)) = c /\ Len(p) \in Nat
    BY <1>0, <1>7, <2>1, IsPrefixOf DEF Places
  <2>3. j \in 1 .. Len(p) - 1 /\ Len(c) \in 0 .. Len(p) /\ j \in 0 .. Len(c)
    BY <1>0, <1>3, <2>2
  <2>4. Prefix(p, j) = Prefix(c, j)
    BY <2>1, <2>2, <2>3, PrefixOfPrefix DEF Places
  <2>5. Root!IsKind(f, Prefix(p, j), "directory")
    BY <2>3 DEF Tree
  <2> QED
    BY <1>3, <2>4, <2>5 DEF Root!IsKind
<1> QED
  BY <1>6, <1>7

LEMMA RemovedOutcome ==
  ASSUME NEW f, Tree(f), NEW c \in Places, c # << >>, Clear(f, c, Len(c) - 1),
         NEW o \in Root!RemovedIn(f, Root!Place(f, c))
  PROVE  /\ Tree(o.fs) /\ (o.ok => Found("remove", o.fs, c))
         /\ Changes("remove", f, o.fs, c)
<1> DEFINE d == Root!Place(f, c)
           g == Root!Without(f, d)
<1>1. \/ o.fs = g
      \/ o.fs = f /\ o.ok = FALSE
  BY DEF Root!RemovedIn, Root!Outcome
<1>2. \A p \in DOMAIN f : Root!IsPrefix(d, p) <=> Root!IsPrefix(c, p)
  <2>1. CASE AreDirectories(f, c, Len(c) - 1)
    BY <2>1, PlaceBelowDirectories
  <2>2. CASE ~AreDirectories(f, c, Len(c) - 1)
    <3>1. PICK x \in STRING : d = Append(Root!Missing, x)
      BY <2>2, ClearWay
    <3>2. Len(d) = 2 /\ d[1] = "/"
      BY <3>1 DEF Root!Missing
    <3>3. \A p \in DOMAIN f : ~Root!IsPrefix(c, p)
      BY <2>2, ClearWay
    <3> HIDE DEF d
    <3>4. ASSUME NEW p \in DOMAIN f, Root!IsPrefix(d, p) PROVE FALSE
      <4>1. p \in Seq(Root!Component) /\ Len(p) \in Nat
        BY DEF Tree, Places
      <4>2. 2 <= Len(p) /\ SubSeq(d, 1, 2) = SubSeq(p, 1, 2)
        BY <3>2, <3>4 DEF Root!IsPrefix
      <4>3. SubSeq(d, 1, 2)[1] = "/" /\ SubSeq(p, 1, 2)[1] = p[1]
        <5>1. SubSeq(p, 1, 2)[1] = p[1]
          BY <4>1, <4>2
        <5>2. SubSeq(d, 1, 2)[1] = d[1]
          BY <3>2
        <5> QED
          BY <3>2, <5>1, <5>2
      <4>4. p[1] \in Root!Component
        BY <4>1, <4>2
      <4> QED
        BY <4>2, <4>3, <4>4 DEF Root!Component
    <3> QED
      BY <3>3, <3>4
  <2> QED
    BY <2>1, <2>2
<1>3. /\ Tree(g) /\ DOMAIN g = {p \in DOMAIN f : ~Root!IsPrefix(d, p)}
      /\ \A p \in DOMAIN g : g[p] = f[p]
  <2> HIDE DEF d
  <2>1. g = Root!Without(f, c)
    BY <1>2 DEF Root!Without
  <2> HIDE DEF g
  <2>2. c \in Seq(STRING)
    BY PlacesAreStrings
  <2>3. /\ Tree(g) /\ DOMAIN g = {p \in DOMAIN f : ~Root!IsPrefix(c, p)}
        /\ \A p \in DOMAIN g : g[p] = f[p]
    BY <2>1, <2>2, TreeWithout
  <2> QED
    BY <1>2, <2>3
<1> HIDE DEF g, d
<1>4. Found("remove", g, c)
  BY <1>2, <1>3 DEF Found
<1>5. Changes("remove", f, g, c)
  <2> SUFFICES ASSUME NEW p \in DOMAIN f \cup DOMAIN g, ~Same(f, g, p)
               PROVE  Root!IsPrefix(c, p)
    BY DEF Changes
  <2> QED
    BY <1>2, <1>3 DEF Same
<1>6. Changes("remove", f, f, c)
  BY KeepsChanges DEF Keeps
<1> QED
  BY <1>1, <1>3, <1>4, <1>5, <1>6

LEMMA RemoveDirectoryHolds ==
  ASSUME TreeInv, NEW path \in RawPaths, Root!RemoveDirectory(path)
  PROVE  TreeInv' /\ Root!OnlyNamedChange
<1> DEFINE c == Root!RelativeComponents(path)
           outcomes == IF c = << >> THEN {Root!Outcome(FALSE, entries)}
                       ELSE UNION {IF cleared.ok THEN Root!RemovedIn(cleared.fs, Root!Place(cleared.fs, c))
                                   ELSE {cleared} : cleared \in Root!NeutralizeLinks(c, Len(c) - 1)}
<1>1. c \in Places
  BY PathTaken
<1>2. Root!Answers("remove", c, outcomes)
  BY DEF Root!RemoveDirectory
<1> HIDE DEF c
<1>3. ASSUME NEW o \in outcomes
      PROVE  /\ Tree(o.fs) /\ (o.ok => Found("remove", o.fs, c))
             /\ Changes("remove", entries, o.fs, c)
  <2>1. CASE c = << >>
    BY <2>1, NothingDone DEF TreeInv
  <2>2. CASE c # << >>
    <3>1. PICK q \in Root!NeutralizeLinks(c, Len(c) - 1) :
            o \in IF q.ok THEN Root!RemovedIn(q.fs, Root!Place(q.fs, c)) ELSE {q}
      BY <2>2
    <3>2. Len(c) - 1 \in 0 .. Len(c)
      BY <1>1, <2>2 DEF Places
    <3>3. Tree(q.fs) /\ Keeps(entries, q.fs, c) /\ (q.ok => Clear(q.fs, c, Len(c) - 1))
      BY <1>1, <3>2, Neutralized DEF TreeInv
    <3>4. CASE q.ok
      <4>1. o \in Root!RemovedIn(q.fs, Root!Place(q.fs, c))
        BY <3>1, <3>4
      <4>2. /\ Tree(o.fs) /\ (o.ok => Found("remove", o.fs, c))
            /\ Changes("remove", q.fs, o.fs, c)
        BY <1>1, <2>2, <3>3, <3>4, <4>1, RemovedOutcome
      <4> QED
        BY <3>3, <4>2, ChangesAfterKeeps
    <3>5. CASE ~q.ok
      <4>1. o = q
        BY <3>1, <3>5
      <4> QED
        BY <3>3, <3>5, <4>1, KeepsChanges
    <3> QED
      BY <3>4, <3>5
  <2> QED
    BY <2>1, <2>2
<1> HIDE DEF outcomes
<1> QED
  BY <1>2, <1>3, AnswerGiven

\* The link create_symlink may make leads no further up than it is deep.
LEMMA LinkStaysInside ==
  ASSUME NEW path \in RawPaths, NEW target \in LinkTargets,
         Root!RelativeComponents(path) # << >>, Root!RelativeLink(path, target) # << >>
  PROVE  IsEntry(Root!RelativeLink(path, target)[1], Len(Root!RelativeComponents(path)))
<1> DEFINE c == Root!RelativeComponents(path)
           resolved == Root!ResolvedTarget(Front(c), target.path)
<1>1. c \in Places
  BY PathTaken
<1>2. Front(c) \in Places /\ Len(Front(c)) + 1 = Len(c)
  BY <1>1, FrontAndLast DEF Places
<1>3. target.path \in Seq(RawSteps)
  BY ChrootAssumption DEF RawSteps
<1>4. resolved \in Resolved
  BY <1>2, <1>3, TargetIsResolved
<1>5. resolved # Root!Escaped /\ Root!RelativeLink(path, target) = << Root!Relative(resolved, Front(c)) >>
  BY DEF Root!RelativeLink, Root!Front, Front
<1> HIDE DEF resolved, c
<1>6. resolved \in Places
  BY <1>4, <1>5 DEF Resolved
<1>7. IsEntry(Root!Relative(resolved, Front(c)), Len(c))
  BY <1>2, <1>6, RelativeStaysInside
<1> QED
  BY <1>5, <1>7 DEF c

LEMMA LinkedOutcome ==
  ASSUME NEW f, Tree(f), NEW c \in Places, c # << >>, AreDirectories(f, c, Len(c) - 1),
         NEW e, IsEntry(e, Len(c)), NEW o \in Root!LinkedIn(f, c, e)
  PROVE  /\ Tree(o.fs) /\ Found("symlink", o.fs, c) /\ Changes("symlink", f, o.fs, c)
<1> DEFINE g == Root!With(f, c, e)
<1>1. o = Root!Outcome(TRUE, g) /\ c \notin DOMAIN f
  BY DEF Root!LinkedIn, Root!EntryExists
<1>2. Root!IsKind(f, c, "directory") => e.kind = "directory"
  BY <1>1 DEF Root!IsKind
<1>3. Tree(g)
  BY <1>2, TreeWith
<1>4. DOMAIN g = DOMAIN f \cup {c} /\ \A q \in DOMAIN f : g[q] = f[q]
  BY <1>1 DEF Root!With
<1> HIDE DEF g
<1>5. Found("symlink", g, c)
  BY <1>4 DEF Found, Root!EntryExists
<1>6. Root!IsPrefix(c, c)
  BY DEF Root!IsPrefix
<1>7. Keeps(f, g, c)
  BY <1>1, <1>4, <1>6 DEF Keeps, Root!IsKind
<1> QED
  BY <1>1, <1>3, <1>5, <1>7, KeepsChanges DEF Root!Outcome

LEMMA CreateSymlinkHolds ==
  ASSUME TreeInv, NEW path \in RawPaths, NEW target \in LinkTargets,
         Root!CreateSymlink(path, target)
  PROVE  TreeInv' /\ Root!OnlyNamedChange
<1> DEFINE c == Root!RelativeComponents(path)
           link == Root!RelativeLink(path, target)
           linked == UNION {IF o.ok THEN Root!LinkedIn(o.fs, Root!Place(o.fs, c), link[1]) ELSE {} :
                              o \in Root!PrepareParent(c)}
           outcomes == IF c = << >> THEN {Root!Outcome(FALSE, entries)}
                       ELSE Root!FileOutcomes(c) \cup IF link = << >> THEN {} ELSE linked
<1>1. c \in Places
  BY PathTaken
<1>2. Root!Answers("symlink", c, outcomes)
  BY DEF Root!CreateSymlink
<1>3. c # << >> /\ link # << >> => IsEntry(link[1], Len(c))
  BY LinkStaysInside
<1> HIDE DEF c, link
<1>4. ASSUME NEW o \in outcomes
      PROVE  /\ Tree(o.fs) /\ (o.ok => Found("symlink", o.fs, c))
             /\ Changes("symlink", entries, o.fs, c)
  <2>1. CASE c = << >>
    BY <2>1, NothingDone DEF TreeInv
  <2>2. CASE o \in Root!FileOutcomes(c)
    <3>1. /\ Tree(o.fs) /\ (o.ok => Root!IsKind(o.fs, c, "file"))
          /\ Changes("create", entries, o.fs, c)
      BY <1>1, <2>2, FileOutcome DEF TreeInv
    <3>2. Changes("symlink", entries, o.fs, c)
      BY <3>1 DEF Changes
    <3> QED
      BY <3>1, <3>2 DEF Found, Root!EntryExists, Root!IsKind
  <2>3. CASE c # << >> /\ link # << >> /\ o \in linked
    <3>1. PICK q \in Root!PrepareParent(c) :
            o \in IF q.ok THEN Root!LinkedIn(q.fs, Root!Place(q.fs, c), link[1]) ELSE {}
      BY <2>3
    <3>2. q.ok /\ o \in Root!LinkedIn(q.fs, Root!Place(q.fs, c), link[1])
      BY <3>1
    <3>3. Tree(q.fs) /\ Keeps(entries, q.fs, c) /\ AreDirectories(q.fs, c, Len(c) - 1)
      BY <1>1, <3>2, ParentPrepared DEF TreeInv
    <3>4. Root!Place(q.fs, c) = c
      BY <1>1, <2>3, <3>3, PlaceBelowDirectories
    <3>5. o \in Root!LinkedIn(q.fs, c, link[1])
      BY <3>2, <3>4
    <3>6. Tree(o.fs) /\ Found("symlink", o.fs, c) /\ Changes("symlink", q.fs, o.fs, c)
      BY <1>1, <1>3, <2>3, <3>3, <3>5, LinkedOutcome
    <3> QED
      BY <3>3, <3>6, ChangesAfterKeeps
  <2> QED
    BY <2>1, <2>2, <2>3
<1> HIDE DEF outcomes
<1> QED
  BY <1>2, <1>4, AnswerGiven

\* make_executable changes no more than the permission of a file.
LEMMA MadeExecutable ==
  ASSUME Tree(entries), NEW c \in Places, c # << >>,
         Root!IsKind(entries, Root!Place(entries, c), "file"),
         NEW e, e = [entries[Root!Place(entries, c)] EXCEPT !.exec = TRUE]
  PROVE  LET g == Root!With(entries, Root!Place(entries, c), e)
         IN Tree(g) /\ Found("execute", g, c) /\ Changes("execute", entries, g, c)
<1> DEFINE d == Root!Place(entries, c)
           g == Root!With(entries, d, e)
<1>1. d \in DOMAIN entries /\ entries[d].kind = "file" /\ Written(entries[d])
  BY DEF Root!IsKind, Tree, IsEntry, Written
<1>2. Written(e) /\ e.kind = "file" /\ e.data = entries[d].data
  BY <1>1 DEF Written
<1>3. d \in Places /\ d # << >> /\ AreDirectories(entries, d, Len(d) - 1)
  BY <1>1 DEF Tree, AreDirectories
<1>4. Root!Arrives(entries, c) = d
  <2>1. entries[d].kind # "link"
    BY <1>1
  <2> QED
    BY <1>1, <2>1, ArrivesAtEntry
<1> HIDE DEF d
<1>5. Tree(g)
  <2>1. IsEntry(e, Len(d)) /\ (Root!IsKind(entries, d, "directory") => e.kind = "directory")
    BY <1>1, <1>2 DEF IsEntry, Written, Root!IsKind
  <2> QED
    BY <1>3, <2>1, TreeWith
<1>6. DOMAIN g = DOMAIN entries /\ g[d] = e /\ \A q \in DOMAIN entries : q # d => g[q] = entries[q]
  BY <1>1 DEF Root!With
<1> HIDE DEF g
<1>7. Root!Arrives(g, c) = d
  <2>1. \A p \in DOMAIN entries :
          entries[p] = g[p] \/ (entries[p].kind # "link" /\ g[p].kind # "link")
    BY <1>1, <1>2, <1>6
  <2>2. Root!Arrives(entries, c) = Root!Arrives(g, c)
    BY <1>5, <1>6, <2>1, SameWays
  <2> QED
    BY <1>4, <2>2
<1>8. Found("execute", g, c)
  BY <1>3, <1>7, NoSuchPlaces DEF Found
<1>9. Changes("execute", entries, g, c)
  <2>1. ASSUME NEW p \in DOMAIN entries \cup DOMAIN g PROVE Same(entries, g, p)
    BY <1>1, <1>2, <1>6 DEF Same, Root!IsKind
  <2> QED
    BY <2>1 DEF Changes
<1> QED
  BY <1>5, <1>8, <1>9 DEF g, d

LEMMA MakeExecutableHolds ==
  ASSUME TreeInv, NEW path \in RawPaths, Root!MakeExecutable(path)
  PROVE  TreeInv' /\ Root!OnlyNamedChange
<1> DEFINE c == Root!RelativeComponents(path)
           d == Root!Place(entries, c)
           outcomes == IF c = << >> THEN {Root!Outcome(FALSE, entries)} ELSE Root!ExecutableIn(entries, d)
<1>1. c \in Places /\ Tree(entries)
  BY PathTaken DEF TreeInv
<1>2. Root!Answers("execute", c, outcomes)
  BY DEF Root!MakeExecutable
<1> HIDE DEF c
<1>3. Changes("execute", entries, entries, c)
  BY KeepsChanges DEF Keeps
<1>4. ASSUME NEW o \in outcomes
      PROVE  /\ Tree(o.fs) /\ (o.ok => Found("execute", o.fs, c))
             /\ Changes("execute", entries, o.fs, c)
  <2>1. CASE c = << >>
    BY <1>1, <2>1, NothingDone
  <2>2. CASE c # << >> /\ Root!IsKind(entries, d, "file")
    <3> DEFINE e == [entries[d] EXCEPT !.exec = TRUE]
               g == Root!With(entries, d, e)
    <3>1. o \in {Root!Outcome(TRUE, g), Root!Outcome(FALSE, entries)}
      BY <2>2 DEF Root!ExecutableIn
    <3>2. Tree(g) /\ Found("execute", g, c) /\ Changes("execute", entries, g, c)
      <4>1. e = [entries[Root!Place(entries, c)] EXCEPT !.exec = TRUE]
        OBVIOUS
      <4> HIDE DEF e
      <4> QED
        BY <1>1, <2>2, <4>1, MadeExecutable
    <3> HIDE DEF g
    <3> QED
      BY <1>1, <1>3, <3>1, <3>2 DEF Root!Outcome
  <2>3. CASE c # << >> /\ ~Root!IsKind(entries, d, "file")
    <3>1. o \in {Root!Outcome(Root!IsDirectory(entries, d), entries), Root!Outcome(FALSE, entries)}
      BY <2>3 DEF Root!ExecutableIn
    <3>2. o.fs = entries /\ (o.ok => Root!IsDirectory(entries, d))
      BY <3>1 DEF Root!Outcome
    <3>3. ASSUME Root!IsDirectory(entries, d) PROVE Found("execute", entries, c)
      <4>1. d # << >>
        <5> DEFINE w == [links |-> Root!MaxLinks, at |-> << >>, rest |-> Front(c)]
        <5>1. Front(c) \in Places /\ Last(c) \in Root!Component
          BY <1>1, <2>3, FrontAndLast DEF Places
        <5>2. w \in Root!Positions
          BY <5>1 DEF Places, Root!Positions, Root!MaxLinks
        <5>3. Root!Follow(entries)[w] \in Places \cup {Root!Missing}
          BY <1>1, <5>2, FollowArrives
        <5>4. d = Append(Root!Follow(entries)[w], Last(c))
          BY DEF Root!Place, Root!Arrives, Root!Front, Root!Last, Front, Last
        <5> HIDE DEF d, w
        <5>5. CASE Root!Follow(entries)[w] = Root!Missing
          BY <5>4, <5>5 DEF Root!Missing
        <5>6. CASE Root!Follow(entries)[w] \in Places
          BY <5>1, <5>4, <5>6, AppendProperties DEF Places
        <5> QED
          BY <5>3, <5>5, <5>6
      <4>2. d \in DOMAIN entries /\ entries[d].kind = "directory"
        BY <3>3, <4>1 DEF Root!IsDirectory
      <4>3. entries[d].kind # "link"
        BY <4>2
      <4>4. Root!Arrives(entries, c) = d
        BY <1>1, <2>3, <4>2, <4>3, ArrivesAtEntry
      <4>5. d \in Places
        BY <1>1, <4>2 DEF Tree
      <4> QED
        BY <4>4, <4>5, NoSuchPlaces DEF Found
    <3> QED
      BY <1>1, <1>3, <3>2, <3>3
  <2> QED
    BY <2>1, <2>2, <2>3
<1> HIDE DEF outcomes
<1> QED
  BY <1>2, <1>4, AnswerGiven

LEMMA ExtractorKeepsTree ==
  TreeInv /\ Root!Next => TreeInv' /\ Root!OnlyNamedChange
<1> SUFFICES ASSUME TreeInv, Root!Next PROVE TreeInv' /\ Root!OnlyNamedChange
  OBVIOUS
<1>1. PICK path \in RawPaths :
        \/ Root!CreateFile(path) \/ Root!CarveFile(path) \/ Root!AppendToFile(path)
        \/ Root!CreateDirectory(path) \/ Root!RemoveDirectory(path) \/ Root!MakeExecutable(path)
        \/ \E target \in LinkTargets : Root!CreateSymlink(path, target)
  BY DEF Root!Next
<1>2. CASE Root!CreateFile(path)
  BY <1>2, CreateFileHolds
<1>3. CASE Root!CarveFile(path)
  BY <1>3, CarveFileHolds
<1>4. CASE Root!AppendToFile(path)
  BY <1>4, AppendToFileHolds
<1>5. CASE Root!CreateDirectory(path)
  BY <1>5, CreateDirectoryHolds
<1>6. CASE Root!RemoveDirectory(path)
  BY <1>6, RemoveDirectoryHolds
<1>7. CASE Root!MakeExecutable(path)
  BY <1>7, MakeExecutableHolds
<1>8. CASE \E target \in LinkTargets : Root!CreateSymlink(path, target)
  BY <1>8, CreateSymlinkHolds
<1> QED
  BY <1>1, <1>2, <1>3, <1>4, <1>5, <1>6, <1>7, <1>8

LEMMA EmptyTree == Tree(<< >>)
<1>1. DOMAIN << >> = {}
  OBVIOUS
<1> QED
  BY <1>1 DEF Tree

LEMMA TreeStarts == Init => TreeInv
BY EmptyTree DEF Init, Root!Init, TreeInv, Root!AnswerIsTrue

LEMMA TreeStays ==
  ASSUME TreeInv, UNCHANGED root
  PROVE  TreeInv' /\ Root!OnlyNamedChange
<1>1. entries' = entries /\ told' = told
  BY DEF root
<1>2. TreeInv'
  BY <1>1 DEF TreeInv, Root!AnswerIsTrue
<1>3. Root!OnlyNamedChange
  BY <1>1 DEF Root!OnlyNamedChange, Root!Unchanged
<1> QED
  BY <1>2, <1>3

LEMMA TreeStep ==
  ASSUME TreeInv, [Next]_vars
  PROVE  TreeInv' /\ (stage' # "analyse" \/ Root!OnlyNamedChange)
<1>1. CASE ExtractorWrites
  BY <1>1, ExtractorKeepsTree DEF ExtractorWrites
<1>2. CASE AnalyseMain
  <2>1. /\ entries' = << >> /\ told'.ok = FALSE
        /\ stage' # "analyse"
    BY <1>2 DEF AnalyseMain
  <2> QED
    BY <2>1, EmptyTree DEF TreeInv, Root!AnswerIsTrue
<1>3. CASE UNCHANGED root
  BY <1>3, TreeStays
<1>4. ExtractorWrites \/ AnalyseMain \/ UNCHANGED root
  <2>1. CASE \E i \in DOMAIN batch : WorkerOpens(i) \/ WorkerAnalyses(i)
    BY <2>1 DEF WorkerOpens, WorkerAnalyses
  <2>2. CASE OpenMain \/ PlotEntropy \/ PlotFails \/ LogEntropy \/ CarveMain \/ MainCarved
    BY <2>2 DEF OpenMain, PlotEntropy, PlotFails, LogEntropy, CarveMain, MainCarved
  <2>3. CASE ProcessMain \/ Launch \/ CollectUnread \/ Collect \/ QueueEmpty \/ Close
    BY <2>3 DEF ProcessMain, Launch, CollectUnread, Collect, QueueEmpty, Close
  <2>4. CASE UNCHANGED vars
    BY <2>4 DEF vars
  <2> QED
    BY <2>1, <2>2, <2>3, <2>4 DEF Next, Step, Exited
<1> QED
  BY <1>1, <1>2, <1>3, <1>4

LEMMA TreeInRun == Spec => []TreeInv
<1>1. TreeInv /\ [Next]_vars => TreeInv'
  BY TreeStep
<1> QED
  BY <1>1, TreeStarts, PTL DEF Spec

\* However links, directories and removals follow each other, no link leads out
\* of the directory of its extraction (chroot.cpp): none goes up further than
\* it is deep, so that a way of any length stays within the tree.
THEOREM LinksKeepInside == Spec => []LinksStayInside
<1>1. TreeInv => LinksStayInside
  <2> SUFFICES ASSUME TreeInv, NEW p \in DOMAIN entries PROVE Root!Arrives(entries, p) # Root!Outside
    BY DEF LinksStayInside, Root!LinksStayInside
  <2>1. Tree(entries) /\ p \in Places
    BY DEF TreeInv, Tree
  <2> DEFINE w == [links |-> Root!MaxLinks, at |-> << >>, rest |-> p]
  <2>2. w \in Root!Positions
    BY <2>1 DEF Places, Root!Positions, Root!MaxLinks
  <2>3. Root!Follow(entries)[w] \in Places \cup {Root!Missing}
    BY <2>1, <2>2, FollowArrives
  <2> QED
    BY <2>3, NoSuchPlaces DEF Root!Arrives
<1> QED
  BY <1>1, TreeInRun, PTL

\* What an operation of chroot said it did is there, found by its own path: on
\* the way to it there are only directories, whatever was there before.
THEOREM AnswersAreTrue == Spec => []ChrootTellsTruth
<1>1. TreeInv => ChrootTellsTruth
  BY DEF TreeInv, ChrootTellsTruth
<1> QED
  BY <1>1, TreeInRun, PTL

\* An operation of chroot changes no entry but the one its path names and those
\* above it, and no file that is there other than by appending to it.
THEOREM OnlyNamedEntriesChange == Spec => OnlyNamedChanges
<1>1. TreeInv /\ [Next]_vars => [stage' # "analyse" \/ Root!OnlyNamedChange]_vars
  BY TreeStep
<1> QED
  BY <1>1, TreeInRun, PTL DEF Spec, OnlyNamedChanges
=============================================================================
