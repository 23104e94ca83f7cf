------------------------- MODULE LiteralSearchProofs --------------------------
(***************************************************************************)
(* For any literals, texts, sizes of slices and windows and any number of  *)
(* lanes: the search reads only its data, and reports every occurrence     *)
(* once and in order, whatever the windows and lanes it was cut into.      *)
(***************************************************************************)
EXTENDS LiteralSearch, FiniteSetTheorems, SequenceTheorems, TLAPS

-----------------------------------------------------------------------------
(* What a walk over a stretch of the text collects.                        *)

Within(m, low, high) == low <= StartOf(m) /\ StartOf(m) < high

\* The matches that start from low on and before high, each of them once.
Covers(new, low, high) ==
  /\ \A x \in new : x.match \in occurrences /\ Within(x.match, low, high)
  /\ \A m \in occurrences : Within(m, low, high) => \E x \in new : x.match = m
  /\ \A x, y \in new : x.match = y.match => x = y

\* A place in a row of n tiles lies in just one of them.
LEMMA Tile ==
  ASSUME NEW n \in Nat, NEW d \in Nat \ {0}, NEW b \in Nat, NEW s \in Nat
  PROVE  /\ b <= s /\ s < b + n * d =>
              \E w \in 0 .. n - 1 : b + w * d <= s /\ s < b + w * d + d
         /\ \A w \in 0 .. n - 1 : b + w * d <= s /\ s < b + w * d + d => b <= s /\ s < b + n * d
         /\ \A v, w \in 0 .. n - 1 :
              /\ b + v * d <= s /\ s < b + v * d + d
              /\ b + w * d <= s /\ s < b + w * d + d
              => v = w
<1>1. \A k, l \in Nat : k < l => k * d + d <= l * d
  <2> SUFFICES ASSUME NEW k \in Nat, NEW l \in Nat, k < l PROVE k * d + d <= l * d
    OBVIOUS
  <2>1. PICK e \in Nat : l = k + 1 + e
    <3>1. l - k - 1 \in Nat /\ l = k + 1 + (l - k - 1)
      OBVIOUS
    <3> QED
      BY <3>1
  <2>2. l * d = k * d + d + e * d
    BY <2>1
  <2>3. e * d \in Nat /\ k * d \in Nat
    OBVIOUS
  <2> QED
    BY <2>2, <2>3
<1>2. \A k \in Nat : k * d \in Nat
  OBVIOUS
<1>3. ASSUME b <= s, s < b + n * d
      PROVE  \E w \in 0 .. n - 1 : b + w * d <= s /\ s < b + w * d + d
  <2> DEFINE w == (s - b) \div d
  <2>1. w \in Nat /\ w * d <= s - b /\ s - b < w * d + d
    BY <1>3
  <2> HIDE DEF w
  <2>2. w < n
    <3> SUFFICES ASSUME n <= w PROVE FALSE
      BY <2>1
    <3>1. n * d <= w * d
      BY <1>1, <1>2, <2>1
    <3> QED
      BY <1>2, <1>3, <2>1, <3>1
  <2> QED
    BY <1>2, <2>1, <2>2
<1>4. ASSUME NEW w \in 0 .. n - 1, b + w * d <= s, s < b + w * d + d PROVE b <= s /\ s < b + n * d
  BY <1>1, <1>2, <1>4
<1>5. ASSUME NEW v \in 0 .. n - 1, NEW w \in 0 .. n - 1,
             b + v * d <= s, s < b + v * d + d, b + w * d <= s, s < b + w * d + d
      PROVE  v = w
  <2>1. ~(v < w)
    BY <1>1, <1>2, <1>5
  <2>2. ~(w < v)
    BY <1>1, <1>2, <1>5
  <2> QED
    BY <2>1, <2>2
<1> QED
  BY <1>3, <1>4, <1>5

\* Occurrences as the input has them: within the text, and of some pattern's length.
Occurring ==
  /\ size \in Nat
  /\ occurrences \subseteq [end : 0 .. size, length : 1 .. LongestPattern, index : Nat]
  /\ \A m \in occurrences : StartOf(m) \in Nat

LEMMA SliceCovers ==
  ASSUME Occurring, NEW b \in Nat, NEW span \in Nat
  PROVE  Covers(SliceMatches(b, b + span, b + span + Lookahead), b, b + span)
<1> DEFINE new == SliceMatches(b, b + span, b + span + Lookahead)
<1>1. ASSUME NEW m \in occurrences, Within(m, b, b + span) PROVE m.end <= b + span + Lookahead
  BY <1>1, LongestAssumption DEF Occurring, Within, StartOf, Lookahead
<1>2. new = {[match |-> m, slice |-> b] : m \in {m \in occurrences : Within(m, b, b + span)}}
  BY <1>1 DEF SliceMatches, Within
<1> HIDE DEF new
<1>3. /\ \A x \in new : x.match \in occurrences /\ Within(x.match, b, b + span) /\ x.slice = b
      /\ \A x \in new : x = [match |-> x.match, slice |-> x.slice]
  BY <1>2
<1>4. ASSUME NEW m \in occurrences, Within(m, b, b + span) PROVE \E x \in new : x.match = m
  <2>1. [match |-> m, slice |-> b] \in new
    BY <1>2, <1>4
  <2> QED
    BY <2>1
<1>5. Covers(new, b, b + span)
  BY <1>3, <1>4 DEF Covers
<1> QED
  BY <1>5 DEF new

\* The walk over what is left reads to the end of the text.
LEMMA RestCovers ==
  ASSUME Occurring, NEW b \in Nat
  PROVE  Covers(SliceMatches(b, size, size), b, size)
<1> DEFINE new == SliceMatches(b, size, size)
<1>1. \A m \in occurrences : m.end <= size
  BY DEF Occurring
<1>2. new = {[match |-> m, slice |-> b] : m \in {m \in occurrences : Within(m, b, size)}}
  BY <1>1 DEF SliceMatches, Within
<1> HIDE DEF new
<1>3. /\ \A x \in new : x.match \in occurrences /\ Within(x.match, b, size) /\ x.slice = b
      /\ \A x \in new : x = [match |-> x.match, slice |-> x.slice]
  BY <1>2
<1>4. ASSUME NEW m \in occurrences, Within(m, b, size) PROVE \E x \in new : x.match = m
  <2>1. [match |-> m, slice |-> b] \in new
    BY <1>2, <1>4
  <2> QED
    BY <2>1
<1>5. Covers(new, b, size)
  BY <1>3, <1>4 DEF Covers
<1> QED
  BY <1>5 DEF new

\* Stretches side by side make one stretch.
LEMMA TilesCover ==
  ASSUME Occurring, NEW n \in Nat, NEW d \in Nat \ {0}, NEW b \in Nat, NEW new,
         \A w \in 0 .. n - 1 : Covers(new[w], b + w * d, b + w * d + d)
  PROVE  Covers(UNION {new[w] : w \in 0 .. n - 1}, b, b + n * d)
<1> DEFINE all == UNION {new[w] : w \in 0 .. n - 1}
<1>1. \A m \in occurrences :
        /\ Within(m, b, b + n * d) =>
             \E w \in 0 .. n - 1 : Within(m, b + w * d, b + w * d + d)
        /\ \A w \in 0 .. n - 1 : Within(m, b + w * d, b + w * d + d) => Within(m, b, b + n * d)
        /\ \A v, w \in 0 .. n - 1 :
             Within(m, b + v * d, b + v * d + d) /\ Within(m, b + w * d, b + w * d + d) => v = w
  <2> SUFFICES ASSUME NEW m \in occurrences
               PROVE  /\ Within(m, b, b + n * d) =>
                           \E w \in 0 .. n - 1 : Within(m, b + w * d, b + w * d + d)
                      /\ \A w \in 0 .. n - 1 :
                           Within(m, b + w * d, b + w * d + d) => Within(m, b, b + n * d)
                      /\ \A v, w \in 0 .. n - 1 :
                           Within(m, b + v * d, b + v * d + d) /\ Within(m, b + w * d, b + w * d + d)
                           => v = w
    OBVIOUS
  <2>1. StartOf(m) \in Nat
    BY DEF Occurring
  <2> QED
    BY <2>1, Tile DEF Within
<1>2. ASSUME NEW x \in all
      PROVE  x.match \in occurrences /\ Within(x.match, b, b + n * d)
  <2>1. PICK w \in 0 .. n - 1 : x \in new[w]
    OBVIOUS
  <2> QED
    BY <1>1, <2>1 DEF Covers
<1>3. ASSUME NEW m \in occurrences, Within(m, b, b + n * d) PROVE \E x \in all : x.match = m
  <2>1. PICK w \in 0 .. n - 1 : Within(m, b + w * d, b + w * d + d)
    BY <1>1, <1>3
  <2>2. PICK x \in new[w] : x.match = m
    BY <2>1 DEF Covers
  <2> QED
    BY <2>2
<1>4. ASSUME NEW x \in all, NEW y \in all, x.match = y.match PROVE x = y
  <2>1. PICK v \in 0 .. n - 1 : x \in new[v]
    OBVIOUS
  <2>2. PICK w \in 0 .. n - 1 : y \in new[w]
    OBVIOUS
  <2>3. v = w
    BY <1>1, <1>4, <2>1, <2>2 DEF Covers
  <2> QED
    BY <1>4, <2>1, <2>2, <2>3 DEF Covers
<1> HIDE DEF all
<1>5. Covers(all, b, b + n * d)
  BY <1>2, <1>3, <1>4 DEF Covers
<1> QED
  BY <1>5 DEF all

\* A window: its slices side by side.
LEMMA WindowCovers ==
  ASSUME Occurring, NEW b \in Nat, NEW span \in Nat \ {0}
  PROVE  Covers(WindowMatches(b, span), b, b + Walks * span)
<1> DEFINE new == [w \in 0 .. Walks - 1 |->
                     SliceMatches(b + w * span, b + w * span + span, b + w * span + span + Lookahead)]
<1>1. Walks \in Nat
  BY SlicesAssumption
<1>2. \A w \in 0 .. Walks - 1 : Covers(new[w], b + w * span, b + w * span + span)
  <2> SUFFICES ASSUME NEW w \in 0 .. Walks - 1
               PROVE  Covers(new[w], b + w * span, b + w * span + span)
    OBVIOUS
  <2>1. b + w * span \in Nat
    BY <1>1
  <2> QED
    BY <2>1, SliceCovers
<1>3. WindowMatches(b, span) = UNION {new[w] : w \in 0 .. Walks - 1}
  BY DEF WindowMatches
<1> HIDE DEF new
<1>4. Covers(UNION {new[w] : w \in 0 .. Walks - 1}, b, b + Walks * span)
  BY <1>1, <1>2, TilesCover
<1> QED
  BY <1>3, <1>4

\* One lane of a round: its windows side by side.
LaneBegin(l) == cursor + l * stride * WideWindow
LaneMatches(l) ==
  UNION {WindowMatches(LaneBegin(l) + w * WideWindow, WideSlice) : w \in 0 .. stride - 1}

LEMMA Sizes ==
  /\ WideWindow \in Nat \ {0} /\ NarrowWindow \in Nat \ {0} /\ Lookahead \in Nat
  /\ WideWindow = Walks * WideSlice /\ NarrowWindow = Walks * NarrowSlice
<1>1. \A a, b \in Nat \ {0} : a * b \in Nat \ {0}
  OBVIOUS
<1>2. Walks \in Nat \ {0} /\ WideSlice \in Nat \ {0} /\ NarrowSlice \in Nat \ {0}
  BY SlicesAssumption
<1>3. WideWindow \in Nat \ {0} /\ NarrowWindow \in Nat \ {0}
  BY <1>1, <1>2 DEF WideWindow, NarrowWindow
<1> QED
  BY <1>3, LongestAssumption DEF WideWindow, NarrowWindow, Lookahead

LEMMA LaneCovers ==
  ASSUME Occurring, cursor \in Nat, stride \in Nat, NEW l \in Nat
  PROVE  Covers(LaneMatches(l), LaneBegin(l), LaneBegin(l) + stride * WideWindow)
<1> DEFINE b == LaneBegin(l)
           new == [w \in 0 .. stride - 1 |-> WindowMatches(b + w * WideWindow, WideSlice)]
<1>1. WideWindow \in Nat \ {0} /\ WideSlice \in Nat \ {0} /\ WideWindow = Walks * WideSlice
  BY Sizes, SlicesAssumption
<1>2. \A x, y \in Nat : x * y \in Nat /\ x + y \in Nat
  OBVIOUS
<1>3. b \in Nat
  BY <1>1, <1>2 DEF LaneBegin
<1> HIDE DEF b
<1>4. \A w \in 0 .. stride - 1 : Covers(new[w], b + w * WideWindow, b + w * WideWindow + WideWindow)
  <2> SUFFICES ASSUME NEW w \in 0 .. stride - 1
               PROVE  Covers(new[w], b + w * WideWindow, b + w * WideWindow + WideWindow)
    OBVIOUS
  <2>1. b + w * WideWindow \in Nat
    BY <1>1, <1>2, <1>3
  <2> QED
    BY <1>1, <2>1, WindowCovers
<1>5. LaneMatches(l) = UNION {new[w] : w \in 0 .. stride - 1}
  BY DEF LaneMatches, b
<1> HIDE DEF new
<1>6. Covers(UNION {new[w] : w \in 0 .. stride - 1}, b, b + stride * WideWindow)
  BY <1>1, <1>3, <1>4, TilesCover
<1> QED
  BY <1>5, <1>6 DEF b

-----------------------------------------------------------------------------
(* The inductive invariant of the search.                                  *)

\* What the windows, or the walk over the rest, have seen so far.
Seen == {m \in occurrences : resume = "returned" \/ StartOf(m) < cursor}

\* Between rounds and windows everything seen was reported or is pending, once.
Kept ==
  /\ reported \subseteq Seen
  /\ \A x \in pending : x.match \in Seen \ reported
  /\ \A m \in Seen \ reported : \E x \in pending : x.match = m
  /\ \A x, y \in pending : x.match = y.match => x = y

\* A round that was begun stays within the bytes its windows may start at.
RoundFits ==
  phase = "lanes" =>
    /\ stride # 0
    /\ cursor + Lanes * stride * WideWindow + Lookahead <= size
    /\ harvest \in [LaneIds -> {NoMatch} \cup {LaneMatches(l) : l \in LaneIds}]
    /\ \A l \in LaneIds : harvest[l] = NoMatch \/ harvest[l] = LaneMatches(l)

Reading ==
  /\ phase \in {"entry", "pool", "lanes", "wide", "narrow", "tail", "releasing", "returned"}
  /\ phase = "entry" => reach = cursor /\ Seen = {}
  /\ reach <= size \/ (reach = cursor /\ phase \in {"entry", "returned"})
  /\ phase \notin {"entry", "returned"} => cursor <= size

\* Everything is seen when find is about to return, and reported when it
\* returned and the callback did not stop it.
Returning ==
  /\ resume = "returned" => phase \in {"releasing", "returned"}
  /\ phase = "releasing" => resume \in {"pool", "wide", "narrow", "returned"}
  /\ stopped \in BOOLEAN /\ (stopped => phase = "returned")
  /\ phase = "returned" /\ ~stopped => occurrences \subseteq reported

SearchInv ==
  /\ Occurring /\ cursor \in Nat /\ stride \in Nat /\ reach \in Nat
  /\ Kept /\ RoundFits /\ Reading /\ Returning

LEMMA SearchBegins == Init => SearchInv
<1> SUFFICES ASSUME Init PROVE SearchInv
  OBVIOUS
<1>1. PICK text \in Texts, from \in {0, 1} :
        size = Len(text) /\ occurrences = OccurrencesIn(text, from) /\ cursor = from
  BY DEF Init
<1>2. size \in Nat /\ cursor \in Nat
  BY <1>1, TextsAssumption
<1>3. ASSUME NEW m \in occurrences
      PROVE  /\ m \in [end : 0 .. size, length : 1 .. LongestPattern, index : Nat]
             /\ StartOf(m) \in Nat /\ StartOf(m) >= cursor
  <2>1. PICK s \in from .. Len(text), p \in DOMAIN Patterns :
          /\ s + Len(Patterns[p]) <= Len(text)
          /\ m = [end |-> s + Len(Patterns[p]), length |-> Len(Patterns[p]), index |-> p]
    BY <1>1 DEF OccurrencesIn
  <2>2. p \in Nat /\ Len(Patterns[p]) \in 1 .. LongestPattern
    BY LongestAssumption
  <2> QED
    BY <1>1, <1>2, <2>1, <2>2 DEF StartOf
<1>4. Occurring
  BY <1>2, <1>3 DEF Occurring
<1>5. Seen = {}
  BY <1>2, <1>3 DEF Seen, Init
<1>6. Kept
  BY <1>5 DEF Init, Kept
<1>7. RoundFits /\ Reading /\ Returning /\ reach \in Nat /\ stride \in Nat
  BY <1>2, <1>5 DEF Init, RoundFits, Reading, Returning
<1> QED
  BY <1>2, <1>4, <1>6, <1>7 DEF SearchInv

\* What a walk from the cursor on collects is pending from then on.
LEMMA CollectingKeeps ==
  ASSUME Occurring, Kept, cursor \in Nat, resume # "returned", NEW new, NEW c \in Nat, cursor <= c,
         Covers(new, cursor, c), pending' = pending \cup new,
         UNCHANGED <<occurrences, reported>>,
         \/ cursor' = c /\ resume' # "returned"
         \/ c = size /\ resume' = "returned"
  PROVE  Kept'
<1>1. \A m \in occurrences : StartOf(m) \in Nat /\ StartOf(m) < size
  BY DEF Occurring, StartOf
<1>2. Seen' = Seen \cup {m \in occurrences : Within(m, cursor, c)}
  BY <1>1 DEF Seen, Within
<1>3. \A m \in Seen : m \in occurrences /\ ~Within(m, cursor, c)
  BY <1>1 DEF Seen, Within
<1>4. reported' \subseteq Seen'
  BY <1>2 DEF Kept
<1>5. ASSUME NEW x \in pending' PROVE x.match \in Seen' \ reported'
  <2>1. CASE x \in pending
    BY <1>2, <2>1 DEF Kept
  <2>2. CASE x \in new
    BY <1>2, <1>3, <2>2 DEF Kept, Covers
  <2> QED
    BY <2>1, <2>2
<1>6. ASSUME NEW m \in Seen' \ reported' PROVE \E x \in pending' : x.match = m
  <2>1. CASE m \in Seen
    BY <2>1 DEF Kept
  <2>2. CASE m \notin Seen
    BY <1>2, <2>2 DEF Covers
  <2> QED
    BY <2>1, <2>2
<1>7. ASSUME NEW x \in pending', NEW y \in pending', x.match = y.match PROVE x = y
  <2>1. CASE x \in pending /\ y \in pending
    BY <1>7, <2>1 DEF Kept
  <2>2. CASE x \in new /\ y \in new
    BY <1>7, <2>2 DEF Covers
  <2>3. ASSUME NEW p \in pending, NEW n \in new PROVE p.match # n.match
    BY <1>3 DEF Kept, Covers
  <2> QED
    BY <1>7, <2>1, <2>2, <2>3
<1> QED
  BY <1>4, <1>5, <1>6, <1>7 DEF Kept

\* A round of the pool leaves the lookahead of its last window in the text.
LEMMA RoundsFit ==
  ASSUME size \in Nat, cursor \in Nat, WindowsLeft >= Lanes
  PROVE  LET s == Smaller(MaxWindowsPerLane, WindowsLeft \div Lanes)
         IN s \in Nat \ {0} /\ cursor + Lanes * s * WideWindow + Lookahead <= size
<1> DEFINE left == size - Lookahead - cursor
           n == left \div WideWindow
           q == n \div Lanes
           s == Smaller(MaxWindowsPerLane, q)
<1>1. Lanes \in Nat \ {0} /\ Lookahead \in Nat /\ WideWindow \in Nat \ {0} /\ MaxWindowsPerLane \in Nat
  BY Sizes, SlicesAssumption
<1>2. left \in Nat /\ WindowsLeft = n
  BY <1>1 DEF WindowsLeft
<1> HIDE DEF left
<1>3. n \in Nat /\ n * WideWindow <= left
  BY <1>1, <1>2
<1> HIDE DEF n
<1>4. q \in Nat \ {0} /\ q * Lanes <= n
  BY <1>1, <1>2, <1>3
<1> HIDE DEF q
<1>5. s \in Nat \ {0} /\ s <= q
  BY <1>1, <1>4, SlicesAssumption DEF Smaller
<1> HIDE DEF s
<1>6. \A a, b, k \in Nat : a <= b => a * k <= b * k
  OBVIOUS
<1>7. \A a, b \in Nat : a * b \in Nat /\ a * b = b * a
  OBVIOUS
<1>8. Lanes * s <= n /\ Lanes * s \in Nat
  BY <1>1, <1>3, <1>4, <1>5, <1>6, <1>7
<1>9. Lanes * s * WideWindow <= left
  <2>1. Lanes * s * WideWindow <= n * WideWindow
    BY <1>1, <1>3, <1>6, <1>8
  <2>2. Lanes * s * WideWindow \in Nat /\ n * WideWindow \in Nat
    BY <1>1, <1>3, <1>7, <1>8
  <2> QED
    BY <1>2, <1>3, <2>1, <2>2
<1>10. cursor + Lanes * s * WideWindow + Lookahead <= size
  BY <1>1, <1>7, <1>8, <1>9 DEF left
<1> QED
  BY <1>2, <1>5, <1>10 DEF s, q, n

-----------------------------------------------------------------------------
(* Every step keeps the invariant.                                         *)

LEMMA SameSearch == SearchInv /\ UNCHANGED vars => SearchInv'
BY DEF SearchInv, vars, Occurring, Kept, Seen, RoundFits, LaneMatches, LaneBegin, WindowMatches,
       SliceMatches, Reading, Returning, StartOf

LEMMA EnterKeeps == SearchInv /\ Enter => SearchInv'
<1> SUFFICES ASSUME SearchInv, Enter PROVE SearchInv'
  OBVIOUS
<1> USE DEF Enter, input, delivered
<1>1. Occurring' /\ cursor' \in Nat /\ stride' \in Nat /\ reach' \in Nat
  BY DEF SearchInv, Occurring, StartOf
<1>2. Kept' /\ Seen' = Seen
  BY DEF SearchInv, Kept, Seen, StartOf
<1>3. RoundFits'
  BY DEF RoundFits
<1>4. Reading'
  BY DEF SearchInv, Reading, Occurring
<1>5. phase' = "returned" => occurrences \subseteq reported
  <2> SUFFICES ASSUME cursor >= size, NEW m \in occurrences PROVE FALSE
    OBVIOUS
  <2>1. StartOf(m) < cursor
    BY DEF SearchInv, Occurring, StartOf
  <2> QED
    BY <2>1 DEF SearchInv, Seen, Reading
<1>6. Returning'
  BY <1>5 DEF SearchInv, Returning
<1> QED
  BY <1>1, <1>2, <1>3, <1>4, <1>6 DEF SearchInv

LEMMA BeginRoundKeeps == SearchInv /\ BeginRound => SearchInv'
<1> SUFFICES ASSUME SearchInv, BeginRound PROVE SearchInv'
  OBVIOUS
<1> USE DEF BeginRound, input, delivered
<1>1. Occurring' /\ Kept' /\ cursor' \in Nat /\ reach' \in Nat
  BY DEF SearchInv, Occurring, Kept, Seen, StartOf
<1>2. stride' \in Nat \ {0} /\ cursor' + Lanes * stride' * WideWindow + Lookahead <= size'
  BY RoundsFit DEF SearchInv, Occurring
<1>3. RoundFits'
  BY <1>2 DEF RoundFits
<1>4. Reading' /\ Returning'
  BY DEF SearchInv, Reading, Returning
<1> QED
  BY <1>1, <1>2, <1>3, <1>4 DEF SearchInv

\* A lane reads within the round it is part of.
LEMMA LaneFits ==
  ASSUME cursor \in Nat, stride \in Nat, size \in Nat, NEW l \in LaneIds,
         cursor + Lanes * stride * WideWindow + Lookahead <= size
  PROVE  LaneBegin(l) + stride * WideWindow + Lookahead <= size /\ LaneBegin(l) \in Nat
<1> DEFINE d == stride * WideWindow
<1>1. \A a, b, k \in Nat : a * b * k = a * (b * k) /\ a * b \in Nat
  OBVIOUS
<1>2. WideWindow \in Nat /\ Lookahead \in Nat /\ Lanes \in Nat /\ l \in Nat /\ l + 1 <= Lanes
  BY Sizes, SlicesAssumption DEF LaneIds
<1>3. d \in Nat /\ LaneBegin(l) = cursor + l * d /\ Lanes * stride * WideWindow = Lanes * d
  BY <1>1, <1>2 DEF LaneBegin
<1> HIDE DEF d
<1>4. l * d + d = (l + 1) * d /\ l * d \in Nat
  BY <1>2, <1>3
<1>5. \A a, b, k \in Nat : a <= b => a * k <= b * k
  OBVIOUS
<1>6. (l + 1) * d <= Lanes * d
  BY <1>2, <1>3, <1>5
<1>7. LaneBegin(l) + d + Lookahead <= size
  <2>1. Lanes * d \in Nat
    BY <1>1, <1>2, <1>3
  <2> QED
    BY <2>1, <1>2, <1>3, <1>4, <1>6
<1> QED
  BY <1>3, <1>4, <1>7 DEF d

LEMMA WalkLaneKeeps ==
  ASSUME SearchInv, NEW l \in LaneIds, WalkLane(l) PROVE SearchInv'
<1> USE DEF WalkLane, input, delivered
<1>1. Occurring' /\ Kept' /\ cursor' \in Nat /\ stride' \in Nat
  BY DEF SearchInv, Occurring, Kept, Seen, StartOf
<1>2. \A k \in LaneIds : LaneMatches(k)' = LaneMatches(k)
  BY DEF LaneMatches, LaneBegin, WindowMatches, SliceMatches, StartOf
<1>3. RoundFits'
  <2>1. harvest' = [harvest EXCEPT ![l] = LaneMatches(l)]
    BY DEF LaneMatches, LaneBegin
  <2> QED
    BY <1>2, <2>1 DEF SearchInv, RoundFits
<1>4. /\ reach' = Larger(reach, LaneBegin(l) + stride * WideWindow + Lookahead)
      /\ LaneBegin(l) + stride * WideWindow + Lookahead <= size
      /\ LaneBegin(l) \in Nat
  BY LaneFits DEF SearchInv, Occurring, RoundFits, LaneBegin
<1>5. stride * WideWindow \in Nat /\ Lookahead \in Nat
  <2>1. \A a, b \in Nat : a * b \in Nat
    OBVIOUS
  <2> QED
    BY <2>1, Sizes DEF SearchInv
<1>6. reach' \in Nat /\ reach' <= size
  BY <1>4, <1>5 DEF Larger, SearchInv, Reading, Occurring
<1>7. Reading' /\ Returning'
  BY <1>6 DEF SearchInv, Reading, Returning
<1> QED
  BY <1>1, <1>3, <1>6, <1>7 DEF SearchInv

LEMMA JoinRoundKeeps == SearchInv /\ JoinRound => SearchInv'
<1> SUFFICES ASSUME SearchInv, JoinRound PROVE SearchInv'
  OBVIOUS
<1> USE DEF JoinRound, input, delivered
<1> DEFINE d == stride * WideWindow
           c == cursor + Lanes * d
           new == [l \in 0 .. Lanes - 1 |-> LaneMatches(l)]
<1>1. \A a, b, k \in Nat : a * b * k = a * (b * k) /\ a * b \in Nat
  OBVIOUS
<1>2. WideWindow \in Nat \ {0} /\ Lanes \in Nat \ {0} /\ cursor \in Nat /\ stride \in Nat \ {0}
      /\ Lookahead \in Nat
  BY Sizes, SlicesAssumption DEF SearchInv, RoundFits
<1>3. d \in Nat \ {0} /\ c \in Nat /\ cursor <= c /\ cursor' = c
  <2>1. \A a, b \in Nat \ {0} : a * b \in Nat \ {0}
    OBVIOUS
  <2>2. d \in Nat \ {0} /\ cursor' = c
    BY <1>1, <1>2, <2>1
  <2> HIDE DEF d
  <2> QED
    BY <1>1, <1>2, <2>2
<1>4. \A l \in 0 .. Lanes - 1 : Covers(new[l], cursor + l * d, cursor + l * d + d)
  <2> SUFFICES ASSUME NEW l \in 0 .. Lanes - 1
               PROVE  Covers(LaneMatches(l), cursor + l * d, cursor + l * d + d)
    OBVIOUS
  <2>1. LaneBegin(l) = cursor + l * d
    BY <1>1, <1>2 DEF LaneBegin
  <2> QED
    BY <1>2, <2>1, LaneCovers DEF SearchInv
<1>5. UNION {harvest[l] : l \in LaneIds} = UNION {new[l] : l \in 0 .. Lanes - 1}
  BY DEF SearchInv, RoundFits, LaneIds
<1> HIDE DEF new, d
<1>6. Covers(UNION {harvest[l] : l \in LaneIds}, cursor, c)
  BY <1>2, <1>3, <1>4, <1>5, TilesCover DEF SearchInv
<1>7. Kept'
  <2>1. resume # "returned" /\ resume' # "returned"
    BY DEF SearchInv, Returning
  <2> HIDE DEF c
  <2> QED
    BY <1>2, <1>3, <1>6, <2>1, CollectingKeeps DEF SearchInv
<1>8. Occurring'
  BY DEF SearchInv, Occurring, StartOf
<1>9. RoundFits'
  BY DEF RoundFits
<1>10. Reading' /\ Returning' /\ reach' \in Nat
  <2>1. cursor' <= size
    BY <1>2, <1>3 DEF SearchInv, RoundFits, Occurring
  <2> QED
    BY <2>1 DEF SearchInv, Reading, Returning
<1> QED
  BY <1>2, <1>3, <1>7, <1>8, <1>9, <1>10 DEF SearchInv

LEMMA EndsKeep ==
  ASSUME SearchInv,
         \/ EndRounds
         \/ EndWindows("wide", WideWindow, "narrow")
         \/ EndWindows("narrow", NarrowWindow, "tail")
  PROVE  SearchInv'
<1> USE DEF EndRounds, EndWindows, input, delivered
<1>1. Occurring' /\ Kept' /\ cursor' \in Nat /\ stride' \in Nat /\ reach' \in Nat
  BY DEF SearchInv, Occurring, Kept, Seen, StartOf
<1>2. RoundFits' /\ Reading' /\ Returning'
  BY DEF SearchInv, RoundFits, Reading, Returning
<1> QED
  BY <1>1, <1>2 DEF SearchInv

LEMMA WalkWindowKeeps ==
  ASSUME SearchInv, NEW where \in {"wide", "narrow"}, NEW span \in Nat \ {0}, WalkWindow(where, span)
  PROVE  SearchInv'
<1> DEFINE c == cursor + Walks * span
<1> USE DEF WalkWindow, input, delivered
<1>1. c \in Nat /\ cursor <= c /\ c + Lookahead <= size /\ cursor \in Nat /\ Lookahead \in Nat
  <2>1. Walks * span \in Nat
    <3>1. \A a, b \in Nat : a * b \in Nat
      OBVIOUS
    <3> QED
      BY <3>1, SlicesAssumption
  <2> QED
    BY <2>1, Sizes DEF SearchInv, WindowFits
<1>2. Covers(WindowMatches(cursor, span), cursor, c)
  BY <1>1, WindowCovers DEF SearchInv
<1>3. Kept'
  <2>1. resume # "returned" /\ resume' # "returned"
    BY DEF SearchInv, Returning
  <2>2. cursor' = c /\ pending' = pending \cup WindowMatches(cursor, span)
    OBVIOUS
  <2> HIDE DEF c
  <2> QED
    BY <1>1, <1>2, <2>1, <2>2, CollectingKeeps DEF SearchInv
<1>4. Occurring'
  BY DEF SearchInv, Occurring, StartOf
<1>5. RoundFits' /\ Returning'
  BY DEF RoundFits, SearchInv, Returning
<1>6. reach' = Larger(reach, c + Lookahead) /\ cursor' = c
  OBVIOUS
<1> HIDE DEF c
<1>7. reach' \in Nat /\ reach' <= size /\ cursor' <= size
  BY <1>1, <1>6 DEF Larger, SearchInv, Reading, Occurring
<1>8. Reading'
  BY <1>7 DEF Reading
<1> QED
  BY <1>1, <1>3, <1>4, <1>5, <1>6, <1>7, <1>8 DEF SearchInv

LEMMA WalkTailKeeps == SearchInv /\ WalkTail => SearchInv'
<1> SUFFICES ASSUME SearchInv, WalkTail PROVE SearchInv'
  OBVIOUS
<1> USE DEF WalkTail, input, delivered
<1>1. cursor \in Nat /\ size \in Nat /\ cursor <= size
  BY DEF SearchInv, Reading, Occurring
<1>2. Covers(SliceMatches(cursor, size, size), cursor, size)
  BY <1>1, RestCovers DEF SearchInv
<1>3. Kept'
  <2>1. resume # "returned"
    BY DEF SearchInv, Returning
  <2> QED
    BY <1>1, <1>2, <2>1, CollectingKeeps DEF SearchInv
<1>4. Occurring'
  BY DEF SearchInv, Occurring, StartOf
<1>5. RoundFits' /\ Returning'
  BY DEF RoundFits, SearchInv, Returning
<1>6. reach' \in Nat /\ reach' <= size
  BY <1>1 DEF Larger, SearchInv, Reading
<1>7. Reading'
  BY <1>1, <1>6 DEF Reading
<1> QED
  BY <1>3, <1>4, <1>5, <1>6, <1>7 DEF SearchInv

\* One call of the callback: the match is reported and no longer pending.
LEMMA DeliverKeeps == SearchInv /\ Deliver => SearchInv'
<1> SUFFICES ASSUME SearchInv, Deliver PROVE SearchInv'
  OBVIOUS
<1> USE DEF input
<1>1. PICK x \in Releasable : pending' = pending \ {x} /\ reported' = reported \cup {x.match}
  BY DEF Deliver
<1>2. x \in pending /\ x.match \in Seen \ reported
  BY DEF Releasable, SearchInv, Kept
<1>3. UNCHANGED <<input, resume, cursor, stride, harvest, reach>>
  BY DEF Deliver
<1>4. Occurring' /\ cursor' \in Nat /\ stride' \in Nat /\ reach' \in Nat
  BY <1>3 DEF SearchInv, Occurring, StartOf
<1>5. Seen' = Seen
  BY <1>3 DEF Seen, StartOf
<1>6. Kept'
  <2>1. reported' \subseteq Seen'
    BY <1>1, <1>2, <1>5 DEF SearchInv, Kept
  <2>2. \A y \in pending' : y.match \in Seen' \ reported'
    BY <1>1, <1>2, <1>5 DEF SearchInv, Kept
  <2>3. ASSUME NEW m \in Seen' \ reported' PROVE \E y \in pending' : y.match = m
    BY <1>1, <1>5 DEF SearchInv, Kept
  <2>4. \A y, z \in pending' : y.match = z.match => y = z
    BY <1>1 DEF SearchInv, Kept
  <2> QED
    BY <2>1, <2>2, <2>3, <2>4 DEF Kept
<1>7. RoundFits' /\ Reading' /\ Returning'
  BY <1>3 DEF Deliver, SearchInv, RoundFits, Reading, Returning
<1> QED
  BY <1>4, <1>6, <1>7 DEF SearchInv

LEMMA EndReleaseKeeps == SearchInv /\ EndRelease => SearchInv'
<1> SUFFICES ASSUME SearchInv, EndRelease PROVE SearchInv'
  OBVIOUS
<1> USE DEF EndRelease, input, delivered
<1>1. Occurring' /\ Kept' /\ cursor' \in Nat /\ stride' \in Nat /\ reach' \in Nat
  BY DEF SearchInv, Occurring, Kept, Seen, StartOf
<1>2. RoundFits' /\ Reading'
  BY DEF SearchInv, RoundFits, Reading, Returning
<1>3. ASSUME resume = "returned" PROVE occurrences \subseteq reported
  <2> SUFFICES ASSUME NEW m \in occurrences, m \notin reported PROVE FALSE
    OBVIOUS
  <2>1. PICK x \in pending : x.match = m
    BY <1>3 DEF SearchInv, Kept, Seen
  <2>2. m.end <= size
    BY DEF SearchInv, Occurring
  <2> QED
    BY <1>3, <2>1, <2>2 DEF Releasable
<1>4. Returning'
  BY <1>3 DEF SearchInv, Returning
<1> QED
  BY <1>1, <1>2, <1>4 DEF SearchInv

LEMMA SearchStep == SearchInv /\ [Next]_vars => SearchInv'
<1> SUFFICES ASSUME SearchInv, [Next]_vars PROVE SearchInv'
  OBVIOUS
<1>1. CASE Enter
  BY <1>1, EnterKeeps
<1>2. CASE BeginRound
  BY <1>2, BeginRoundKeeps
<1>3. CASE \E l \in LaneIds : WalkLane(l)
  BY <1>3, WalkLaneKeeps
<1>4. CASE JoinRound
  BY <1>4, JoinRoundKeeps
<1>5. CASE \/ EndRounds
           \/ EndWindows("wide", WideWindow, "narrow")
           \/ EndWindows("narrow", NarrowWindow, "tail")
  BY <1>5, EndsKeep
<1>6. CASE WalkWindow("wide", WideSlice) \/ WalkWindow("narrow", NarrowSlice)
  BY <1>6, WalkWindowKeeps, SlicesAssumption
<1>7. CASE WalkTail
  BY <1>7, WalkTailKeeps
<1>8. CASE Deliver
  BY <1>8, DeliverKeeps
<1>9. CASE EndRelease
  BY <1>9, EndReleaseKeeps
<1>10. CASE UNCHANGED vars
  BY <1>10, SameSearch
<1> QED
  BY <1>1, <1>2, <1>3, <1>4, <1>5, <1>6, <1>7, <1>8, <1>9, <1>10 DEF Next, Step, Returned

\* Whatever the constructor does, the search is LiteralMatcher's.
LEMMA SearchIsMatcher ==
  /\ SearchInit => Init
  /\ [SearchNext]_<<vars, automaton>> => [Next]_vars
BY DEF SearchInit, SearchNext, Construct, Search, SearchReturned, Next, vars, automaton

LEMMA SearchInRun == SearchSpec => []SearchInv /\ [][Next]_vars
<1>1. SearchInit => SearchInv
  BY SearchBegins, SearchIsMatcher
<1>2. SearchInv /\ [SearchNext]_<<vars, automaton>> => SearchInv'
  BY SearchStep, SearchIsMatcher
<1> QED
  BY <1>1, <1>2, SearchIsMatcher, PTL DEF SearchSpec

-----------------------------------------------------------------------------
(* Every step is one of MatchReport's, or none.                            *)

LEMMA ReportBegins == Init => M!Init
<1> SUFFICES ASSUME Init PROVE M!Init
  OBVIOUS
<1>1. SearchInv
  BY SearchBegins
<1>2. occurrences \ reported \subseteq [end : Nat, length : Nat, index : Nat]
  <2> SUFFICES ASSUME NEW m \in occurrences PROVE m \in [end : Nat, length : Nat, index : Nat]
    OBVIOUS
  <2>1. m \in [end : 0 .. size, length : 1 .. LongestPattern, index : Nat] /\ size \in Nat
    BY <1>1 DEF SearchInv, Occurring
  <2> QED
    BY <2>1
<1> QED
  BY <1>2 DEF M!Init, Init

\* A match with a later end, or as late but shorter, or as long but of a later
\* pattern, is another match: two are never in neither order.
LEMMA InOneOrder ==
  ASSUME Occurring, NEW m \in occurrences, NEW n \in occurrences, m # n
  PROVE  M!ReportedBefore(m, n) \/ Earlier(n, m)
<1>1. /\ m \in [end : 0 .. size, length : 1 .. LongestPattern, index : Nat]
      /\ n \in [end : 0 .. size, length : 1 .. LongestPattern, index : Nat]
      /\ size \in Nat
  BY DEF Occurring
<1>2. m.end # n.end \/ m.length # n.length \/ m.index # n.index
  BY <1>1
<1>3. m.end \in Nat /\ n.end \in Nat /\ m.length \in Int /\ n.length \in Int
      /\ m.index \in Nat /\ n.index \in Nat
  BY <1>1
<1> QED
  BY <1>2, <1>3 DEF M!ReportedBefore, Earlier

LEMMA DeliverReports ==
  ASSUME SearchInv, Deliver
  PROVE  M!Report
<1> DEFINE e == occurrences \ reported
<1>1. PICK x \in Releasable :
        /\ \A y \in Releasable : ~Earlier(y.match, x.match)
        /\ pending' = pending \ {x} /\ reported' = reported \cup {x.match} /\ latest' = x.match
  BY DEF Deliver
<1>2. x \in pending /\ x.match \in Seen \ reported
  BY <1>1 DEF Releasable, SearchInv, Kept
<1>3. x.match \in e
  BY <1>2 DEF Seen
<1>4. ASSUME NEW n \in e \ {x.match} PROVE M!ReportedBefore(x.match, n)
  <2>1. /\ x.match.end \in Nat /\ n.end \in Nat /\ n.end <= size
        /\ n.length \in Nat \ {0} /\ size \in Nat /\ cursor \in Nat
    BY <1>3 DEF SearchInv, Occurring
  <2>2. CASE n \in Seen
    <3>1. PICK y \in pending : y.match = n
      BY <2>2 DEF SearchInv, Kept
    <3>2. CASE y \in Releasable
      <4>1. ~Earlier(n, x.match)
        BY <1>1, <3>1, <3>2
      <4> QED
        BY <1>3, <4>1, InOneOrder DEF SearchInv
    <3>3. CASE y \notin Releasable
      <4>1. x.match.end < n.end
        BY <1>1, <2>1, <3>1, <3>3 DEF Releasable
      <4> QED
        BY <4>1 DEF M!ReportedBefore
    <3> QED
      BY <3>2, <3>3
  <2>3. CASE n \notin Seen
    <3>1. resume # "returned" /\ ~(n.end - n.length < cursor)
      BY <2>3 DEF Seen, StartOf
    <3>2. x.match.end <= cursor
      BY <1>1, <3>1 DEF Releasable
    <3>3. x.match.end < n.end
      BY <2>1, <3>1, <3>2
    <3> QED
      BY <3>3 DEF M!ReportedBefore
  <2> QED
    BY <2>2, <2>3
<1>5. occurrences' \ reported' = e \ {x.match}
  BY <1>1 DEF Deliver, input
<1>6. stopped = FALSE /\ phase = "releasing"
  BY DEF SearchInv, Returning, Deliver
<1>7. \/ stopped' = FALSE /\ phase' = "releasing"
      \/ stopped' = TRUE
  BY <1>6 DEF Deliver
<1> HIDE DEF e
<1>8. \E m \in e : /\ \A n \in e \ {m} : M!ReportedBefore(m, n)
                   /\ occurrences' \ reported' = e \ {m}
                   /\ latest' = m
  BY <1>1, <1>3, <1>4, <1>5
<1> QED
  BY <1>6, <1>7, <1>8 DEF M!Report, e

LEMMA ReportStep == SearchInv /\ [Next]_vars => [M!Next]_M!vars
<1> SUFFICES ASSUME SearchInv, [Next]_vars PROVE M!Next \/ UNCHANGED M!vars
  OBVIOUS
<1>1. CASE Deliver
  BY <1>1, DeliverReports DEF M!Next
<1>2. CASE Enter \/ EndRelease
  <2>1. UNCHANGED <<occurrences, delivered>> /\ phase # "returned"
    BY <1>2 DEF Enter, EndRelease, input
  <2>2. stopped = FALSE
    BY <2>1 DEF SearchInv, Returning
  <2>3. CASE phase' = "returned"
    <3>1. SearchInv'
      BY SearchStep
    <3>2. occurrences \ reported = {}
      BY <2>1, <2>2, <2>3, <3>1 DEF SearchInv, Returning, delivered
    <3> QED
      BY <2>1, <2>2, <2>3, <3>2 DEF M!Next, M!Finish, delivered
  <2>4. CASE phase' # "returned"
    BY <2>1, <2>2, <2>4 DEF M!vars, delivered
  <2> QED
    BY <2>3, <2>4
<1>3. CASE \/ BeginRound \/ JoinRound \/ EndRounds \/ WalkTail
           \/ \E l \in LaneIds : WalkLane(l)
           \/ WalkWindow("wide", WideSlice) \/ WalkWindow("narrow", NarrowSlice)
           \/ EndWindows("wide", WideWindow, "narrow")
           \/ EndWindows("narrow", NarrowWindow, "tail")
  <2>1. UNCHANGED <<occurrences, delivered>> /\ phase # "returned" /\ phase' # "returned"
    BY <1>3 DEF BeginRound, JoinRound, EndRounds, WalkTail, WalkLane, WalkWindow, EndWindows, input
  <2> QED
    BY <2>1 DEF M!vars, delivered
<1>4. CASE UNCHANGED vars
  BY <1>4 DEF M!vars, vars
<1> QED
  BY <1>1, <1>2, <1>3, <1>4 DEF Next, Step, Returned

-----------------------------------------------------------------------------
(* The theorems.                                                           *)

\* walk_windows_on_this_thread and the lanes take their bytes through raw
\* pointers: whatever the sizes, none reads past the end of the data.
THEOREM NothingIsOverRead == SearchSpec => []NoOverRead
<1>1. SearchInv => NoOverRead
  BY DEF SearchInv, Reading, NoOverRead
<1> QED
  BY <1>1, SearchInRun, PTL

\* find reports every occurrence exactly once and in order, however the search
\* was cut into slices, windows, lanes and rounds.
THEOREM Refinement == SearchSpec => ImplementsMatchReport
<1>1. SearchInit => M!Init
  BY SearchIsMatcher, ReportBegins
<1>2. SearchInv /\ [Next]_vars => [M!Next]_M!vars
  BY ReportStep
<1> QED
  BY <1>1, <1>2, SearchInRun, PTL DEF ImplementsMatchReport, M!Spec, SearchSpec

-----------------------------------------------------------------------------
(* Words and the nodes of the trie that spell them.                        *)

\* s is the end of t.
Ending(s, t) == Len(s) <= Len(t) /\ \A i \in 1 .. Len(s) : s[i] = t[Len(t) - Len(s) + i]

LEMMA EndingIsEndsWith ==
  ASSUME NEW s \in Seq(Bytes), NEW t \in Seq(Bytes)
  PROVE  A!EndsWith(t, s) <=> Ending(s, t)
<1> DEFINE e == SubSeq(t, Len(t) - Len(s) + 1, Len(t))
<1> SUFFICES ASSUME Len(s) <= Len(t) PROVE e = s <=> Ending(s, t)
  BY DEF A!EndsWith, Ending
<1>1. /\ Len(e) = Len(s) /\ e \in Seq(Bytes)
      /\ \A i \in 1 .. Len(s) : e[i] = t[Len(t) - Len(s) + i]
  OBVIOUS
<1> HIDE DEF e
<1>2. e = s <=> \A i \in 1 .. Len(s) : s[i] = e[i]
  <2>1. (\A i \in 1 .. Len(s) : s[i] = e[i]) => e = s
    BY <1>1, SeqEqual
  <2> QED
    BY <2>1, Zenon
<1> QED
  BY <1>1, <1>2 DEF Ending

LEMMA EndingTransitive ==
  ASSUME NEW r \in Seq(Bytes), NEW s \in Seq(Bytes), NEW t \in Seq(Bytes), Ending(r, s), Ending(s, t)
  PROVE  Ending(r, t)
<1> SUFFICES ASSUME NEW i \in 1 .. Len(r) PROVE r[i] = t[Len(t) - Len(r) + i]
  BY DEF Ending
<1>1. r[i] = s[Len(s) - Len(r) + i] /\ Len(s) - Len(r) + i \in 1 .. Len(s)
  BY DEF Ending
<1>2. s[Len(s) - Len(r) + i] = t[Len(t) - Len(s) + (Len(s) - Len(r) + i)]
  BY <1>1 DEF Ending
<1> QED
  BY <1>1, <1>2

\* Of two ends of one word the shorter is an end of the longer.
LEMMA EndsAreNested ==
  ASSUME NEW r \in Seq(Bytes), NEW s \in Seq(Bytes), NEW t \in Seq(Bytes),
         Ending(r, t), Ending(s, t), Len(r) <= Len(s)
  PROVE  Ending(r, s)
<1> SUFFICES ASSUME NEW i \in 1 .. Len(r) PROVE r[i] = s[Len(s) - Len(r) + i]
  BY DEF Ending
<1>1. r[i] = t[Len(t) - Len(r) + i]
  BY DEF Ending
<1>2. s[Len(s) - Len(r) + i] = t[Len(t) - Len(s) + (Len(s) - Len(r) + i)]
  BY DEF Ending
<1> QED
  BY <1>1, <1>2

LEMMA EqualEnds ==
  ASSUME NEW s \in Seq(Bytes), NEW t \in Seq(Bytes), Ending(s, t), Len(t) <= Len(s)
  PROVE  s = t
<1>1. Len(s) = Len(t) /\ \A i \in 1 .. Len(s) : s[i] = t[i]
  BY DEF Ending
<1> QED
  BY <1>1

LEMMA SameAppend ==
  ASSUME NEW s \in Seq(Bytes), NEW t \in Seq(Bytes), NEW b \in Bytes, NEW c \in Bytes,
         Append(s, b) = Append(t, c)
  PROVE  s = t /\ b = c
<1>1. Len(s) = Len(t) /\ b = c
  <2>1. Len(Append(s, b)) = Len(s) + 1 /\ Len(Append(t, c)) = Len(t) + 1
    OBVIOUS
  <2>2. Append(s, b)[Len(s) + 1] = b /\ Append(t, c)[Len(t) + 1] = c
    OBVIOUS
  <2> QED
    BY <2>1, <2>2
<1>2. \A i \in 1 .. Len(s) : s[i] = t[i]
  <2> SUFFICES ASSUME NEW i \in 1 .. Len(s) PROVE s[i] = t[i]
    OBVIOUS
  <2>1. Append(s, b)[i] = s[i] /\ Append(t, c)[i] = t[i]
    BY <1>1
  <2> QED
    BY <2>1
<1> QED
  BY <1>1, <1>2

\* A byte more at both ends changes nothing.
LEMMA EndingAppend ==
  ASSUME NEW s \in Seq(Bytes), NEW t \in Seq(Bytes), NEW b \in Bytes, NEW c \in Bytes
  PROVE  Ending(Append(s, b), Append(t, c)) <=> b = c /\ Ending(s, t)
<1>1. /\ Len(Append(s, b)) = Len(s) + 1 /\ Len(Append(t, c)) = Len(t) + 1
      /\ Append(s, b)[Len(s) + 1] = b /\ Append(t, c)[Len(t) + 1] = c
      /\ \A i \in 1 .. Len(s) : Append(s, b)[i] = s[i]
      /\ \A i \in 1 .. Len(t) : Append(t, c)[i] = t[i]
      /\ Len(s) \in Nat /\ Len(t) \in Nat
  OBVIOUS
<1>2. ASSUME Ending(Append(s, b), Append(t, c)) PROVE b = c /\ Ending(s, t)
  <2>1. /\ Len(s) <= Len(t)
        /\ \A i \in 1 .. Len(s) + 1 : Append(s, b)[i] = Append(t, c)[Len(t) - Len(s) + i]
    <3> DEFINE p == Append(s, b)
               q == Append(t, c)
    <3>1. Len(p) = Len(s) + 1 /\ Len(q) = Len(t) + 1 /\ Ending(p, q)
      BY <1>1, <1>2
    <3> HIDE DEF p, q
    <3>2. Len(s) <= Len(t)
      BY <1>1, <3>1 DEF Ending
    <3>3. ASSUME NEW i \in 1 .. Len(s) + 1 PROVE p[i] = q[Len(t) - Len(s) + i]
      <4>1. Len(q) - Len(p) + i = Len(t) - Len(s) + i
        BY <1>1, <3>1
      <4> QED
        BY <3>1, <4>1 DEF Ending
    <3> QED
      BY <3>2, <3>3 DEF p, q
  <2>2. b = c
    <3>1. Len(s) + 1 \in 1 .. Len(s) + 1 /\ Len(t) - Len(s) + (Len(s) + 1) = Len(t) + 1
      BY <1>1
    <3> QED
      BY <1>1, <2>1, <3>1
  <2>3. ASSUME NEW i \in 1 .. Len(s) PROVE s[i] = t[Len(t) - Len(s) + i]
    <3>1. i \in 1 .. Len(s) + 1 /\ Len(t) - Len(s) + i \in 1 .. Len(t)
      BY <1>1, <2>1
    <3> QED
      BY <1>1, <2>1, <3>1
  <2> QED
    BY <2>1, <2>2, <2>3 DEF Ending
<1>3. ASSUME b = c, Ending(s, t) PROVE Ending(Append(s, b), Append(t, c))
  <2> SUFFICES ASSUME NEW i \in 1 .. Len(s) + 1
               PROVE  Append(s, b)[i] = Append(t, c)[Len(t) - Len(s) + i]
    BY <1>1, <1>3 DEF Ending
  <2>1. CASE i = Len(s) + 1
    <3>1. Len(t) - Len(s) + i = Len(t) + 1
      BY <1>1, <2>1
    <3> QED
      BY <1>1, <1>3, <2>1, <3>1
  <2>2. CASE i # Len(s) + 1
    <3>1. i \in 1 .. Len(s) /\ Len(t) - Len(s) + i \in 1 .. Len(t)
      BY <1>1, <1>3, <2>2 DEF Ending
    <3>2. s[i] = t[Len(t) - Len(s) + i]
      BY <1>3, <3>1 DEF Ending
    <3> QED
      BY <1>1, <3>1, <3>2
  <2> QED
    BY <2>1, <2>2
<1> QED
  BY <1>2, <1>3

\* A proper end of a word is an end of its tail.
LEMMA EndingTail ==
  ASSUME NEW s \in Seq(Bytes), NEW t \in Seq(Bytes), t # << >>
  PROVE  /\ Tail(t) \in Seq(Bytes) /\ Len(Tail(t)) = Len(t) - 1 /\ Len(t) > 0
         /\ Ending(s, t) <=> s = t \/ Ending(s, Tail(t))
<1>1. /\ Tail(t) \in Seq(Bytes) /\ Len(Tail(t)) = Len(t) - 1 /\ Len(t) > 0
      /\ \A i \in 1 .. Len(t) - 1 : Tail(t)[i] = t[i + 1]
      /\ Len(t) \in Nat /\ Len(s) \in Nat
  OBVIOUS
<1>2. Ending(t, t)
  BY <1>1 DEF Ending
<1>3. ASSUME Ending(s, t), s # t PROVE Ending(s, Tail(t))
  <2>1. Len(s) <= Len(t) - 1
    BY <1>1, <1>3, EqualEnds DEF Ending
  <2>2. ASSUME NEW i \in 1 .. Len(s) PROVE s[i] = Tail(t)[Len(t) - 1 - Len(s) + i]
    <3>1. Len(t) - 1 - Len(s) + i \in 1 .. Len(t) - 1
      BY <1>1, <2>1
    <3>2. Tail(t)[Len(t) - 1 - Len(s) + i] = t[(Len(t) - 1 - Len(s) + i) + 1]
      BY <1>1, <3>1
    <3>3. (Len(t) - 1 - Len(s) + i) + 1 = Len(t) - Len(s) + i
      BY <1>1
    <3> QED
      BY <1>3, <3>2, <3>3 DEF Ending
  <2> QED
    BY <1>1, <2>1, <2>2 DEF Ending
<1>4. ASSUME Ending(s, Tail(t)) PROVE Ending(s, t)
  <2>1. Len(s) <= Len(t) - 1
    BY <1>1, <1>4 DEF Ending
  <2>2. ASSUME NEW i \in 1 .. Len(s) PROVE s[i] = t[Len(t) - Len(s) + i]
    <3>1. Len(t) - 1 - Len(s) + i \in 1 .. Len(t) - 1
      BY <1>1, <2>1
    <3>2. Tail(t)[Len(t) - 1 - Len(s) + i] = t[(Len(t) - 1 - Len(s) + i) + 1]
      BY <1>1, <3>1
    <3>3. (Len(t) - 1 - Len(s) + i) + 1 = Len(t) - Len(s) + i
      BY <1>1
    <3> QED
      BY <1>1, <1>4, <3>2, <3>3 DEF Ending
  <2> QED
    BY <1>1, <2>1, <2>2 DEF Ending
<1> QED
  BY <1>1, <1>2, <1>3, <1>4

LEMMA TailOfAppend ==
  ASSUME NEW t \in Seq(Bytes), t # << >>, NEW b \in Bytes
  PROVE  Tail(Append(t, b)) = Append(Tail(t), b)
<1>0. Len(t) \in Nat
  OBVIOUS
<1>1. /\ Tail(t) \in Seq(Bytes) /\ Len(Tail(t)) = Len(t) - 1
      /\ Append(t, b) \in Seq(Bytes) /\ Len(Append(t, b)) = Len(t) + 1
      /\ Len(t) \in Nat /\ Len(t) > 0
  OBVIOUS
<1>2. /\ Tail(Append(t, b)) \in Seq(Bytes) /\ Len(Tail(Append(t, b))) = Len(t)
      /\ Append(Tail(t), b) \in Seq(Bytes) /\ Len(Append(Tail(t), b)) = Len(t)
  BY <1>1
<1>3. \A i \in 1 .. Len(t) : Tail(Append(t, b))[i] = Append(t, b)[i + 1]
  BY <1>1
<1>4. \A i \in 1 .. Len(t) - 1 : Append(Tail(t), b)[i] = t[i + 1] /\ Append(t, b)[i + 1] = t[i + 1]
  BY <1>1
<1>5. Append(Tail(t), b)[Len(t)] = b /\ Append(t, b)[Len(t) + 1] = b
  BY <1>1
<1> DEFINE p == Tail(Append(t, b))
           q == Append(Tail(t), b)
<1>6. \A i \in 1 .. Len(t) : i = Len(t) \/ i \in 1 .. Len(t) - 1
  BY <1>0
<1>7. \A i \in 1 .. Len(t) : p[i] = q[i]
  BY <1>3, <1>4, <1>5, <1>6
<1>8. p \in Seq(Bytes) /\ q \in Seq(Bytes) /\ Len(p) = Len(t) /\ Len(q) = Len(t)
  BY <1>2
<1> HIDE DEF p, q
<1>9. p = q
  BY <1>0, <1>7, <1>8
<1> QED
  BY <1>9 DEF p, q

\* The word each node spells: the nodes are numbered from zero, the root spells
\* the empty word, no two nodes spell one word, and every other node spells one
\* byte more than some node.
Words(w) ==
  /\ \E k \in Nat \ {0} : DOMAIN w = 0 .. k - 1
  /\ w \in [DOMAIN w -> Seq(Bytes)]
  /\ w[0] = << >>
  /\ \A m, n \in DOMAIN w : w[m] = w[n] => m = n
  /\ \A m \in DOMAIN w : m # 0 => \E n \in DOMAIN w, b \in Bytes : w[m] = Append(w[n], b)

\* Of the words that t ends with, m spells the longest.
Longest(w, m, t) ==
  /\ m \in DOMAIN w
  /\ Ending(w[m], t)
  /\ \A n \in DOMAIN w : Ending(w[n], t) => Len(w[n]) <= Len(w[m])

LEMMA AppendIsLonger ==
  ASSUME NEW s \in Seq(Bytes), NEW b \in Bytes
  PROVE  /\ Append(s, b) \in Seq(Bytes) /\ Append(s, b) # << >>
         /\ Len(Append(s, b)) = Len(s) + 1 /\ Len(s) \in Nat
OBVIOUS

\* A row of the trie: the edges, and 0 where there is none.
EdgeRow(w, n, row) ==
  \A b \in Bytes :
    /\ row[b] \in DOMAIN w
    /\ row[b] # 0 => w[row[b]] = Append(w[n], b)
    /\ \A m \in DOMAIN w : w[m] = Append(w[n], b) => row[b] = m

\* A row of the automaton: where each byte leads.
GotoRow(w, n, row) == \A b \in Bytes : Longest(w, row[b], Append(w[n], b))

\* The longest word that ends t with b after it is found from the longest that ends t.
LEMMA LongestAppend ==
  ASSUME NEW w, Words(w), NEW t \in Seq(Bytes), NEW b \in Bytes, NEW f, NEW g,
         Longest(w, f, t), Longest(w, g, Append(w[f], b))
  PROVE  Longest(w, g, Append(t, b))
<1>1. /\ f \in DOMAIN w /\ g \in DOMAIN w /\ w[f] \in Seq(Bytes) /\ w[g] \in Seq(Bytes)
      /\ Ending(w[f], t) /\ Ending(w[g], Append(w[f], b))
  BY DEF Words, Longest
<1>2. Append(t, b) \in Seq(Bytes) /\ Append(w[f], b) \in Seq(Bytes)
  BY <1>1
<1>3. Ending(Append(w[f], b), Append(t, b))
  BY <1>1, EndingAppend
<1>4. Ending(w[g], Append(t, b))
  BY <1>1, <1>2, <1>3, EndingTransitive
<1>5. ASSUME NEW n \in DOMAIN w, Ending(w[n], Append(t, b)) PROVE Len(w[n]) <= Len(w[g])
  <2>1. CASE n = 0
    <3>1. Len(w[n]) = 0 /\ Len(w[g]) \in Nat
      BY <1>1, <2>1 DEF Words
    <3> QED
      BY <3>1
  <2>2. CASE n # 0
    <3>1. PICK p \in DOMAIN w, c \in Bytes : w[n] = Append(w[p], c)
      BY <2>2 DEF Words
    <3>2. w[p] \in Seq(Bytes) /\ w[n] \in Seq(Bytes)
      BY DEF Words
    <3>3. c = b /\ Ending(w[p], t)
      BY <1>5, <3>1, <3>2, EndingAppend
    <3>4. Len(w[p]) <= Len(w[f])
      BY <3>3 DEF Longest
    <3>5. Ending(w[p], w[f])
      BY <1>1, <3>2, <3>3, <3>4, EndsAreNested
    <3>6. Ending(w[n], Append(w[f], b))
      BY <1>1, <3>1, <3>2, <3>3, <3>5, EndingAppend
    <3> QED
      BY <3>6 DEF Longest
  <2> QED
    BY <2>1, <2>2
<1> QED
  BY <1>1, <1>4, <1>5 DEF Longest

\* The root ends every word, and its words are the shortest there are.
LEMMA RootEnds ==
  ASSUME NEW w, Words(w)
  PROVE  /\ 0 \in DOMAIN w /\ w[0] = << >> /\ Longest(w, 0, << >>)
         /\ \A t \in Seq(Bytes) : Ending(w[0], t)
         /\ \A m \in DOMAIN w : w[m] \in Seq(Bytes) /\ (m # 0 => w[m] # << >> /\ Len(w[m]) > 0)
<1>1. 0 \in DOMAIN w /\ w[0] = << >>
  BY DEF Words
<1>2. \A m \in DOMAIN w : w[m] \in Seq(Bytes) /\ (m # 0 => w[m] # << >> /\ Len(w[m]) > 0)
  <2> SUFFICES ASSUME NEW m \in DOMAIN w
               PROVE  w[m] \in Seq(Bytes) /\ (m # 0 => w[m] # << >> /\ Len(w[m]) > 0)
    OBVIOUS
  <2>1. w[m] \in Seq(Bytes) /\ (w[m] = w[0] => m = 0)
    BY <1>1 DEF Words
  <2> QED
    BY <1>1, <2>1
<1>3. \A t \in Seq(Bytes) : Ending(w[0], t)
  BY <1>1 DEF Ending
<1>4. Longest(w, 0, << >>)
  BY <1>1, <1>2, <1>3 DEF Longest, Ending
<1> QED
  BY <1>1, <1>2, <1>3, <1>4

LEMMA OneParent ==
  ASSUME NEW w, Words(w), NEW m \in DOMAIN w, NEW n \in DOMAIN w, NEW a \in Bytes, NEW b \in Bytes,
         Append(w[m], a) = Append(w[n], b)
  PROVE  m = n /\ a = b
<1>1. w[m] \in Seq(Bytes) /\ w[n] \in Seq(Bytes)
  BY RootEnds
<1>2. w[m] = w[n] /\ a = b
  BY <1>1, SameAppend
<1> QED
  BY <1>2 DEF Words

\* The edges of the root lead where its bytes lead.
LEMMA RootRow ==
  ASSUME NEW w, Words(w), NEW row, EdgeRow(w, 0, row)
  PROVE  GotoRow(w, 0, row)
<1> SUFFICES ASSUME NEW b \in Bytes PROVE Longest(w, row[b], Append(<< >>, b))
  BY RootEnds DEF GotoRow
<1> DEFINE one == Append(<< >>, b)
<1>1. /\ row[b] \in DOMAIN w /\ (row[b] # 0 => w[row[b]] = one)
      /\ \A m \in DOMAIN w : w[m] = one => row[b] = m
  BY RootEnds DEF EdgeRow
<1>2. one \in Seq(Bytes) /\ Len(one) = 1 /\ Tail(one) = << >>
      /\ << >> \in Seq(Bytes) /\ one # << >> /\ Len(<< >>) = 0
  OBVIOUS
<1> HIDE DEF one
<1>3. \A m \in DOMAIN w : Ending(w[m], one) => w[m] = one \/ m = 0
  <2> SUFFICES ASSUME NEW m \in DOMAIN w, Ending(w[m], one), w[m] # one
               PROVE  m = 0
    OBVIOUS
  <2>1. w[m] \in Seq(Bytes) /\ (m # 0 => Len(w[m]) > 0)
    BY RootEnds
  <2>2. Ending(w[m], << >>)
    <3>1. PICK s \in Seq(Bytes) : s = w[m]
      BY <2>1
    <3>2. Ending(s, one) => s = one \/ Ending(s, Tail(one))
      BY <1>2, EndingTail
    <3> QED
      BY <1>2, <3>1, <3>2, Zenon
  <2>3. Len(w[m]) <= 0
    BY <2>2 DEF Ending
  <2> QED
    BY <2>1, <2>3
<1>4. CASE row[b] = 0
  <2>1. \A m \in DOMAIN w : Ending(w[m], one) => m = 0
    BY <1>1, <1>3, <1>4, <1>2, RootEnds
  <2>2. Ending(w[0], one) /\ Len(w[0]) = 0
    BY <1>2, RootEnds
  <2> QED
    BY <1>1, <1>4, <2>1, <2>2 DEF Longest, one
<1>5. CASE row[b] # 0
  <2>1. Ending(w[row[b]], one)
    BY <1>1, <1>2, <1>5, EndingTail
  <2>2. \A m \in DOMAIN w : Ending(w[m], one) => Len(w[m]) <= Len(w[row[b]])
    BY <1>1, <1>2, <1>5 DEF Ending
  <2> QED
    BY <1>1, <2>1, <2>2 DEF Longest, one
<1> QED
  BY <1>4, <1>5

\* A row is completed from the row its failure leads to, and that row holds the
\* failures of the children.
LEMMA RowIsCompleted ==
  ASSUME NEW w, Words(w), NEW n \in DOMAIN w, n # 0, NEW row, EdgeRow(w, n, row),
         NEW f, Longest(w, f, Tail(w[n])), NEW failed, GotoRow(w, f, failed),
         NEW completed, \A b \in Bytes : completed[b] = IF row[b] = 0 THEN failed[b] ELSE row[b]
  PROVE  /\ GotoRow(w, n, completed)
         /\ \A b \in Bytes : row[b] # 0 => Longest(w, failed[b], Tail(w[row[b]]))
<1>1. w[n] \in Seq(Bytes) /\ w[n] # << >> /\ Tail(w[n]) \in Seq(Bytes)
  BY RootEnds, EndingTail
<1>2. ASSUME NEW b \in Bytes PROVE Longest(w, failed[b], Tail(Append(w[n], b)))
  <2>1. Longest(w, failed[b], Append(w[f], b))
    BY DEF GotoRow
  <2>2. Longest(w, failed[b], Append(Tail(w[n]), b))
    BY <1>1, <2>1, LongestAppend
  <2> QED
    BY <1>1, <2>2, TailOfAppend
<1>3. ASSUME NEW b \in Bytes, row[b] # 0
      PROVE  Longest(w, failed[b], Tail(w[row[b]])) /\ Longest(w, row[b], Append(w[n], b))
  <2>1. row[b] \in DOMAIN w /\ w[row[b]] = Append(w[n], b)
    BY <1>3 DEF EdgeRow
  <2>2. Append(w[n], b) \in Seq(Bytes) /\ Append(w[n], b) # << >>
    BY <1>1
  <2>3. Ending(w[row[b]], Append(w[n], b))
    BY <2>1, <2>2, EndingTail
  <2>4. \A m \in DOMAIN w : Ending(w[m], Append(w[n], b)) => Len(w[m]) <= Len(w[row[b]])
    BY <2>1 DEF Ending
  <2> QED
    BY <1>2, <2>1, <2>3, <2>4 DEF Longest
<1>4. ASSUME NEW b \in Bytes, row[b] = 0 PROVE Longest(w, failed[b], Append(w[n], b))
  <2>1. Append(w[n], b) \in Seq(Bytes) /\ Append(w[n], b) # << >>
    BY <1>1
  <2>2. ASSUME NEW m \in DOMAIN w
        PROVE  Ending(w[m], Append(w[n], b)) <=> Ending(w[m], Tail(Append(w[n], b)))
    <3>1. w[m] # Append(w[n], b)
      <4> SUFFICES ASSUME w[m] = Append(w[n], b) PROVE FALSE
        OBVIOUS
      <4>1. m = 0
        BY <1>4 DEF EdgeRow
      <4> QED
        BY <2>1, <4>1, RootEnds
    <3> QED
      BY <2>1, <3>1, RootEnds, EndingTail
  <2> QED
    BY <1>2, <2>2 DEF Longest
<1>5. ASSUME NEW b \in Bytes PROVE Longest(w, completed[b], Append(w[n], b))
  <2>1. CASE row[b] = 0
    <3>1. completed[b] = failed[b]
      BY <2>1
    <3> QED
      BY <1>4, <2>1, <3>1
  <2>2. CASE row[b] # 0
    <3>1. completed[b] = row[b]
      BY <2>2
    <3> QED
      BY <1>3, <2>2, <3>1
  <2> QED
    BY <2>1, <2>2
<1>6. GotoRow(w, n, completed)
  BY <1>5 DEF GotoRow
<1> QED
  BY <1>3, <1>6

-----------------------------------------------------------------------------
(* What the nodes report.                                                  *)

\* The sequence o holds the members of S, each of them once.
Reports(o, S) == A!Range(o) = S /\ A!IsInjective(o)

\* Of the first k patterns of a list: those that are this word.
Own(list, word, k) == {p \in DOMAIN list : p <= k /\ list[p] # << >> /\ list[p] = word}

\* The patterns of a list that this word ends with.
Ends(list, word) == {p \in DOMAIN list : list[p] # << >> /\ Ending(list[p], word)}

\* The first k patterns are spelled by nodes.
Known(w, list, k) ==
  \A p \in DOMAIN list : p <= k /\ list[p] # << >> => \E n \in DOMAIN w : w[n] = list[p]

LEMMA ReportsNothing == << >> \in Seq(Nat) /\ Reports(<< >>, {})
BY DEF Reports, A!Range, A!IsInjective

LEMMA ReportsEmpty ==
  ASSUME NEW o \in Seq(Nat), Reports(o, {})
  PROVE  o = << >>
<1>1. ASSUME NEW i \in DOMAIN o PROVE FALSE
  BY DEF Reports, A!Range
<1>2. Len(o) \in Nat /\ DOMAIN o = 1 .. Len(o)
  OBVIOUS
<1>3. Len(o) = 0
  <2> SUFFICES ASSUME Len(o) > 0 PROVE FALSE
    BY <1>2
  <2>1. 1 \in DOMAIN o
    BY <1>2
  <2> QED
    BY <1>1, <2>1
<1> QED
  BY <1>3

LEMMA ReportsBoth ==
  ASSUME NEW o \in Seq(Nat), NEW S, Reports(o, S), NEW q \in Seq(Nat), NEW T, Reports(q, T),
         S \cap T = {}
  PROVE  o \o q \in Seq(Nat) /\ Reports(o \o q, S \cup T)
<1> DEFINE r == o \o q
<1>1. /\ r \in Seq(Nat) /\ Len(r) = Len(o) + Len(q) /\ DOMAIN r = 1 .. Len(r)
      /\ \A i \in 1 .. Len(o) : r[i] = o[i]
      /\ \A i \in 1 .. Len(q) : r[Len(o) + i] = q[i]
      /\ DOMAIN o = 1 .. Len(o) /\ DOMAIN q = 1 .. Len(q)
  OBVIOUS
<1>2. Len(o) \in Nat /\ Len(q) \in Nat
  OBVIOUS
<1> HIDE DEF r
<1>3. /\ \A i \in 1 .. Len(o) : o[i] \in S
      /\ \A x \in S : \E i \in 1 .. Len(o) : o[i] = x
      /\ \A i, j \in 1 .. Len(o) : o[i] = o[j] => i = j
  BY <1>1 DEF Reports, A!Range, A!IsInjective
<1>4. /\ \A i \in 1 .. Len(q) : q[i] \in T
      /\ \A x \in T : \E i \in 1 .. Len(q) : q[i] = x
      /\ \A i, j \in 1 .. Len(q) : q[i] = q[j] => i = j
  BY <1>1 DEF Reports, A!Range, A!IsInjective
<1>5. \A i \in 1 .. Len(r) : \/ i \in 1 .. Len(o) /\ r[i] = o[i]
                             \/ i - Len(o) \in 1 .. Len(q) /\ r[i] = q[i - Len(o)] /\ i \notin 1 .. Len(o)
  <2> SUFFICES ASSUME NEW i \in 1 .. Len(r), i \notin 1 .. Len(o)
               PROVE  i - Len(o) \in 1 .. Len(q) /\ r[i] = q[i - Len(o)]
    BY <1>1
  <2>1. i - Len(o) \in 1 .. Len(q) /\ i = Len(o) + (i - Len(o))
    BY <1>1, <1>2
  <2>2. PICK x \in 1 .. Len(q) : i = Len(o) + x /\ i - Len(o) = x
    BY <2>1
  <2> QED
    BY <1>1, <2>2
<1>6. A!Range(r) = S \cup T
  <2>1. \A i \in DOMAIN r : r[i] \in S \cup T
    BY <1>1, <1>3, <1>4, <1>5
  <2>2. ASSUME NEW x \in S PROVE \E i \in DOMAIN r : r[i] = x
    <3>1. PICK i \in 1 .. Len(o) : o[i] = x
      BY <1>3
    <3>2. i \in DOMAIN r /\ r[i] = x
      BY <1>1, <1>2, <3>1
    <3> QED
      BY <3>2
  <2>3. ASSUME NEW x \in T PROVE \E i \in DOMAIN r : r[i] = x
    <3>1. PICK i \in 1 .. Len(q) : q[i] = x
      BY <1>4
    <3>2. Len(o) + i \in DOMAIN r /\ r[Len(o) + i] = x
      BY <1>1, <1>2, <3>1
    <3> QED
      BY <3>2
  <2> QED
    BY <2>1, <2>2, <2>3 DEF A!Range
<1>7. A!IsInjective(r)
  <2> SUFFICES ASSUME NEW i \in 1 .. Len(r), NEW j \in 1 .. Len(r), r[i] = r[j]
               PROVE  i = j
    BY <1>1 DEF A!IsInjective
  <2>1. CASE i \in 1 .. Len(o) /\ j \in 1 .. Len(o)
    BY <1>3, <1>1, <2>1
  <2>2. CASE i \notin 1 .. Len(o) /\ j \notin 1 .. Len(o)
    <3>1. i - Len(o) = j - Len(o)
      BY <1>4, <1>5, <2>2
    <3> QED
      BY <1>2, <3>1
  <2>3. ~(i \in 1 .. Len(o) /\ j \notin 1 .. Len(o))
    BY <1>3, <1>4, <1>5
  <2>4. ~(i \notin 1 .. Len(o) /\ j \in 1 .. Len(o))
    BY <1>3, <1>4, <1>5
  <2> QED
    BY <2>1, <2>2, <2>3, <2>4
<1> QED
  BY <1>1, <1>6, <1>7 DEF Reports, r

LEMMA ReportsOneMore ==
  ASSUME NEW o \in Seq(Nat), NEW S, Reports(o, S), NEW k \in Nat, k \notin S
  PROVE  Append(o, k) \in Seq(Nat) /\ Reports(Append(o, k), S \cup {k})
<1>1. <<k>> \in Seq(Nat) /\ Append(o, k) = o \o <<k>> /\ DOMAIN <<k>> = {1} /\ <<k>>[1] = k
  OBVIOUS
<1> DEFINE one == <<k>>
<1>2. one \in Seq(Nat) /\ Reports(one, {k}) /\ Append(o, k) = o \o one /\ S \cap {k} = {}
  BY <1>1 DEF Reports, A!Range, A!IsInjective
<1> HIDE DEF one
<1>3. o \o one \in Seq(Nat) /\ Reports(o \o one, S \cup {k})
  BY <1>2, ReportsBoth
<1> QED
  BY <1>2, <1>3

\* What a node is to report: its own patterns, and what the node that spells the
\* longest end of its tail is to report.
LEMMA WhatIsInherited ==
  ASSUME NEW w, Words(w), NEW list \in Seq(Seq(Bytes)), Known(w, list, Len(list)),
         NEW m \in DOMAIN w, m # 0, NEW g, Longest(w, g, Tail(w[m]))
  PROVE  /\ Ends(list, w[m]) = Own(list, w[m], Len(list)) \cup Ends(list, w[g])
         /\ Own(list, w[m], Len(list)) \cap Ends(list, w[g]) = {}
<1>1. /\ w[m] \in Seq(Bytes) /\ w[m] # << >> /\ Tail(w[m]) \in Seq(Bytes)
      /\ Len(Tail(w[m])) = Len(w[m]) - 1 /\ Len(w[m]) \in Nat
  BY RootEnds, EndingTail
<1>2. g \in DOMAIN w /\ w[g] \in Seq(Bytes) /\ Ending(w[g], Tail(w[m]))
  BY RootEnds DEF Longest
<1>3. ASSUME NEW p \in DOMAIN list, list[p] # << >>
      PROVE  /\ list[p] \in Seq(Bytes) /\ p <= Len(list)
             /\ Ending(list[p], w[m]) <=> list[p] = w[m] \/ Ending(list[p], w[g])
             /\ ~(list[p] = w[m] /\ Ending(list[p], w[g]))
  <2>1. list[p] \in Seq(Bytes) /\ p <= Len(list)
    OBVIOUS
  <2>2. Ending(list[p], w[m]) <=> list[p] = w[m] \/ Ending(list[p], Tail(w[m]))
    BY <1>1, <2>1, EndingTail
  <2>3. ASSUME Ending(list[p], Tail(w[m])) PROVE Ending(list[p], w[g])
    <3>1. PICK n \in DOMAIN w : w[n] = list[p]
      BY <1>3, <2>1 DEF Known
    <3>2. Len(list[p]) <= Len(w[g])
      BY <2>3, <3>1 DEF Longest
    <3> QED
      BY <1>1, <1>2, <2>1, <2>3, <3>2, EndsAreNested
  <2>4. ASSUME Ending(list[p], w[g]) PROVE Ending(list[p], Tail(w[m]))
    BY <1>1, <1>2, <2>1, <2>4, EndingTransitive
  <2>5. ~(list[p] = w[m] /\ Ending(list[p], Tail(w[m])))
    BY <1>1 DEF Ending
  <2> QED
    BY <2>1, <2>2, <2>3, <2>4, <2>5
<1> QED
  BY <1>3 DEF Ends, Own

\* A walk at the node of the longest end of a text knows every pattern that ends there.
LEMMA WhatEndsIsKnown ==
  ASSUME NEW w, Words(w), NEW list \in Seq(Seq(Bytes)), Known(w, list, Len(list)),
         NEW t \in Seq(Bytes), NEW m, Longest(w, m, t)
  PROVE  Ends(list, w[m]) = {p \in DOMAIN list : list[p] # << >> /\ A!EndsWith(t, list[p])}
<1>1. m \in DOMAIN w /\ w[m] \in Seq(Bytes) /\ Ending(w[m], t)
  BY RootEnds DEF Longest
<1>2. ASSUME NEW p \in DOMAIN list, list[p] # << >>
      PROVE  Ending(list[p], w[m]) <=> A!EndsWith(t, list[p])
  <2>1. list[p] \in Seq(Bytes) /\ p <= Len(list)
    OBVIOUS
  <2>2. A!EndsWith(t, list[p]) <=> Ending(list[p], t)
    BY <2>1, EndingIsEndsWith
  <2>3. ASSUME Ending(list[p], t) PROVE Ending(list[p], w[m])
    <3>1. PICK n \in DOMAIN w : w[n] = list[p]
      BY <1>2, <2>1 DEF Known
    <3>2. Len(list[p]) <= Len(w[m])
      BY <2>3, <3>1 DEF Longest
    <3> QED
      BY <1>1, <2>1, <2>3, <3>2, EndsAreNested
  <2>4. ASSUME Ending(list[p], w[m]) PROVE Ending(list[p], t)
    BY <1>1, <2>1, <2>4, EndingTransitive
  <2> QED
    BY <2>2, <2>3, <2>4
<1> QED
  BY <1>2 DEF Ends

-----------------------------------------------------------------------------
(* The trie while it grows.                                                *)

\* rows holds the edges between the nodes that w spells.
Trie(w, rows) ==
  /\ Words(w)
  /\ rows \in [DOMAIN w -> [Bytes -> DOMAIN w]]
  /\ \A n \in DOMAIN w : EdgeRow(w, n, rows[n])

LEMMA FirstTrie == Trie([n \in {0} |-> << >>], [n \in {0} |-> A!NoRow])
<1> DEFINE w == [n \in {0} |-> << >>]
           rows == [n \in {0} |-> A!NoRow]
<1>1. DOMAIN w = {0} /\ w[0] = << >> /\ << >> \in Seq(Bytes)
  OBVIOUS
<1>2. 0 .. 1 - 1 = {0} /\ 1 \in Nat \ {0}
  OBVIOUS
<1>3. Words(w)
  <2>1. \E k \in Nat \ {0} : DOMAIN w = 0 .. k - 1
    BY <1>1, <1>2
  <2>2. w \in [DOMAIN w -> Seq(Bytes)]
    BY <1>1
  <2> HIDE DEF w
  <2> QED
    BY <1>1, <2>1, <2>2 DEF Words
<1>4. \A b \in Bytes : Append(<< >>, b) # << >>
  OBVIOUS
<1>5. rows \in [{0} -> [Bytes -> {0}]] /\ \A b \in Bytes : rows[0][b] = 0
  BY DEF A!NoRow
<1> HIDE DEF w, rows
<1>6. EdgeRow(w, 0, rows[0])
  BY <1>1, <1>4, <1>5 DEF EdgeRow
<1>7. Trie(w, rows)
  BY <1>1, <1>3, <1>5, <1>6 DEF Trie
<1> QED
  BY <1>7 DEF w, rows

\* The next node has a number of its own.
LEMMA NodeIsFresh ==
  ASSUME NEW w, Words(w)
  PROVE  /\ Cardinality(DOMAIN w) \notin DOMAIN w
         /\ \E k \in Nat \ {0} : DOMAIN w = 0 .. k - 1 /\ Cardinality(DOMAIN w) = k
<1>1. PICK k \in Nat \ {0} : DOMAIN w = 0 .. k - 1
  BY DEF Words
<1>2. Cardinality(0 .. k - 1) = k
  BY FS_Interval
<1> QED
  BY <1>1, <1>2

\* v and grown are w and rows with one node more, to which b leads from n.
OneNodeMore(w, rows, n, b, c, v, grown) ==
  /\ v \in [DOMAIN w \cup {c} -> Seq(Bytes)]
  /\ v[c] = Append(w[n], b) /\ \A m \in DOMAIN w : v[m] = w[m]
  /\ grown \in [DOMAIN w \cup {c} -> [Bytes -> DOMAIN w \cup {c}]]
  /\ \A a \in Bytes : grown[c][a] = 0
  /\ \A m \in DOMAIN w, a \in Bytes :
       grown[m][a] = IF m = n /\ a = b THEN c ELSE rows[m][a]

\* A node made for a byte that has no edge spells a word that no node did.
LEMMA NodeIsMade ==
  ASSUME NEW w, NEW rows, Trie(w, rows), NEW n \in DOMAIN w, NEW b \in Bytes, rows[n][b] = 0,
         NEW c, c = Cardinality(DOMAIN w),
         NEW v, NEW grown, OneNodeMore(w, rows, n, b, c, v, grown)
  PROVE  (\A m \in DOMAIN w : w[m] # v[c]) /\ Trie(v, grown)
<1>3. Words(w)
  BY DEF Trie
<1>1. PICK k \in Nat \ {0} : DOMAIN w = 0 .. k - 1 /\ c = k
  BY <1>3, NodeIsFresh
<1>2. c \notin DOMAIN w /\ c # 0 /\ c \in Nat
  BY <1>1
<1>4. w[n] \in Seq(Bytes) /\ Append(w[n], b) \in Seq(Bytes) /\ Append(w[n], b) # << >>
      /\ Len(Append(w[n], b)) = Len(w[n]) + 1 /\ Len(w[n]) \in Nat
  BY <1>3, RootEnds
<1>5. /\ DOMAIN v = DOMAIN w \cup {c} /\ v[c] = Append(w[n], b)
      /\ \A m \in DOMAIN w : v[m] = w[m]
      /\ v \in [DOMAIN v -> Seq(Bytes)]
  BY DEF OneNodeMore
<1>6. /\ \A a \in Bytes : grown[c][a] = 0
      /\ \A m \in DOMAIN w, a \in Bytes :
           grown[m][a] = IF m = n /\ a = b THEN c ELSE rows[m][a]
  BY DEF OneNodeMore
<1>7. \A m \in DOMAIN w : w[m] # v[c]
  <2> SUFFICES ASSUME NEW m \in DOMAIN w, w[m] = Append(w[n], b) PROVE FALSE
    BY <1>5
  <2>1. m = 0
    BY DEF Trie, EdgeRow
  <2> QED
    BY <1>3, <1>4, <2>1 DEF Words
<1>8. Words(v)
  <2>1. \E l \in Nat \ {0} : DOMAIN v = 0 .. l - 1
    <3>1. k + 1 \in Nat \ {0} /\ DOMAIN v = 0 .. (k + 1) - 1
      BY <1>1, <1>2, <1>5
    <3> QED
      BY <3>1
  <2>3. v \in [DOMAIN v -> Seq(Bytes)]
    BY <1>5
  <2>4. v[0] = << >>
    BY <1>3, <1>5, RootEnds
  <2>5. \A m, l \in DOMAIN v : v[m] = v[l] => m = l
    BY <1>3, <1>5, <1>7 DEF Words
  <2>6. \A m \in DOMAIN v : m # 0 => \E l \in DOMAIN v, a \in Bytes : v[m] = Append(v[l], a)
    <3> SUFFICES ASSUME NEW m \in DOMAIN v, m # 0
                 PROVE  \E l \in DOMAIN v, a \in Bytes : v[m] = Append(v[l], a)
      OBVIOUS
    <3>1. CASE m = c
      BY <1>5, <3>1
    <3>2. CASE m \in DOMAIN w
      <4>1. PICK l \in DOMAIN w, a \in Bytes : w[m] = Append(w[l], a)
        BY <1>3, <3>2 DEF Words
      <4> QED
        BY <1>5, <3>2, <4>1
    <3> QED
      BY <1>5, <3>1, <3>2
  <2> QED
    BY <2>1, <2>3, <2>4, <2>5, <2>6 DEF Words
<1>9. grown \in [DOMAIN v -> [Bytes -> DOMAIN v]]
  BY <1>5 DEF OneNodeMore
<1>10. ASSUME NEW m \in DOMAIN v PROVE EdgeRow(v, m, grown[m])
  <2> SUFFICES ASSUME NEW a \in Bytes
               PROVE  /\ grown[m][a] # 0 => v[grown[m][a]] = Append(v[m], a)
                      /\ \A l \in DOMAIN v : v[l] = Append(v[m], a) => grown[m][a] = l
    BY <1>9, <1>10 DEF EdgeRow
  <2>1. CASE m = c
    <3>1. grown[m][a] = 0
      BY <1>6, <2>1
    <3>2. ASSUME NEW l \in DOMAIN v, v[l] = Append(v[c], a) PROVE FALSE
      <4>1. v[l] \in Seq(Bytes) /\ v[c] \in Seq(Bytes) /\ Len(v[l]) = Len(v[c]) + 1 /\ Len(v[c]) \in Nat
        BY <1>5, <1>8, <3>2 DEF Words
      <4>2. l # c
        BY <4>1
      <4>3. l \in DOMAIN w /\ l # 0
        <5>1. Len(v[l]) # 0 /\ Len(v[0]) = 0
          BY <1>8, <4>1 DEF Words
        <5> QED
          BY <1>5, <4>2, <5>1
      <4>4. PICK p \in DOMAIN w, d \in Bytes : w[l] = Append(w[p], d)
        BY <1>3, <4>3 DEF Words
      <4>5. w[p] \in Seq(Bytes)
        BY <1>3 DEF Words
      <4>6. Append(w[p], d) = Append(v[c], a)
        BY <1>5, <3>2, <4>3, <4>4
      <4>7. w[p] = v[c]
        BY <4>1, <4>5, <4>6, SameAppend
      <4> QED
        BY <1>7, <4>7
    <3> QED
      BY <2>1, <3>1, <3>2
  <2>2. CASE m \in DOMAIN w
    <3>1. v[m] = w[m] /\ w[m] \in Seq(Bytes)
      BY <1>3, <1>5, <2>2 DEF Words
    <3>2. /\ rows[m][a] \in DOMAIN w /\ (rows[m][a] # 0 => w[rows[m][a]] = Append(w[m], a))
          /\ \A l \in DOMAIN w : w[l] = Append(w[m], a) => rows[m][a] = l
      BY <2>2 DEF Trie, EdgeRow
    <3>3. Append(w[n], b) = Append(w[m], a) <=> m = n /\ a = b
      <4> SUFFICES ASSUME Append(w[n], b) = Append(w[m], a) PROVE m = n /\ a = b
        OBVIOUS
      <4>1. w[n] = w[m] /\ a = b
        BY <1>4, <3>1, SameAppend
      <4> QED
        BY <1>3, <2>2, <4>1 DEF Words
    <3>4. CASE m = n /\ a = b
      <4>1. grown[m][a] = c
        BY <1>6, <2>2, <3>4
      <4>2. \A l \in DOMAIN v : v[l] = Append(v[m], a) => l = c
        BY <1>5, <1>7, <3>1, <3>4
      <4> QED
        BY <1>5, <3>1, <3>4, <4>1, <4>2
    <3>5. CASE ~(m = n /\ a = b)
      <4>1. grown[m][a] = rows[m][a]
        BY <1>6, <2>2, <3>5
      <4> QED
        BY <1>5, <3>1, <3>2, <3>3, <3>5, <4>1
    <3> QED
      BY <3>4, <3>5
  <2> QED
    BY <1>5, <2>1, <2>2
<1>11. Trie(v, grown)
  BY <1>8, <1>9, <1>10 DEF Trie
<1> QED
  BY <1>7, <1>11

\* The patterns before `index` are in the trie, and `node` spells what was read
\* of the next one.
Inserted(w) ==
  /\ Trie(w, transitions)
  /\ nodeOutputs \in [DOMAIN w -> Seq(Nat)]
  /\ index \in 1 .. Len(patterns) + 1
  /\ Known(w, patterns, index - 1)
  /\ \A n \in DOMAIN w : Reports(nodeOutputs[n], Own(patterns, w[n], index - 1))
  /\ index <= Len(patterns) =>
       /\ read \in 0 .. Len(patterns[index])
       /\ node \in DOMAIN w /\ w[node] = SubSeq(patterns[index], 1, read)

LEMMA SameCardinality == \A S : A!Cardinality(S) = Cardinality(S)
BY DEF A!Cardinality, Cardinality

LEMMA OneByteMore ==
  ASSUME NEW p \in Seq(Bytes), NEW k \in 0 .. Len(p) - 1
  PROVE  SubSeq(p, 1, k + 1) = Append(SubSeq(p, 1, k), p[k + 1])
<1> DEFINE l == SubSeq(p, 1, k + 1)
           s == SubSeq(p, 1, k)
           r == Append(s, p[k + 1])
<1>1. k \in Nat /\ k + 1 <= Len(p) /\ p[k + 1] \in Bytes
  OBVIOUS
<1>2. l \in Seq(Bytes) /\ Len(l) = k + 1 /\ \A i \in 1 .. k + 1 : l[i] = p[i]
  BY <1>1
<1>3. s \in Seq(Bytes) /\ Len(s) = k /\ \A i \in 1 .. k : s[i] = p[i]
  BY <1>1
<1> HIDE DEF l, s
<1>4. r \in Seq(Bytes) /\ Len(r) = k + 1 /\ (\A i \in 1 .. k : r[i] = p[i]) /\ r[k + 1] = p[k + 1]
  BY <1>1, <1>3
<1> HIDE DEF r
<1>5. \A i \in 1 .. k + 1 : l[i] = r[i]
  <2>1. \A i \in 1 .. k + 1 : i \in 1 .. k \/ i = k + 1
    BY <1>1
  <2> QED
    BY <1>2, <1>4, <2>1
<1>6. l = r
  BY <1>1, <1>2, <1>4, <1>5
<1> QED
  BY <1>6 DEF l, r, s

LEMMA InsertionStarts ==
  ASSUME A!Init
  PROVE  patterns \in Seq(Seq(Bytes)) /\ built = "inserting" /\ \E w : Inserted(w)
<1> DEFINE w == [n \in {0} |-> << >>]
<1>1. /\ patterns \in Seq(Seq(Bytes)) /\ built = "inserting" /\ index = 1 /\ read = 0 /\ node = 0
      /\ transitions = [n \in {0} |-> A!NoRow] /\ nodeOutputs = [n \in {0} |-> << >>]
  BY PatternsAssumption DEF A!Init
<1>2. Trie(w, transitions)
  BY <1>1, FirstTrie
<1>3. DOMAIN w = {0} /\ w[0] = << >>
  OBVIOUS
<1> HIDE DEF w
<1>4. nodeOutputs \in [DOMAIN w -> Seq(Nat)] /\ nodeOutputs[0] = << >>
  BY <1>1, <1>3
<1>5. index \in 1 .. Len(patterns) + 1 /\ index - 1 = 0 /\ Len(patterns) \in Nat
      /\ \A p \in DOMAIN patterns : ~(p <= index - 1)
  BY <1>1
<1>6. Known(w, patterns, index - 1)
  BY <1>5 DEF Known
<1>7. \A n \in DOMAIN w : Reports(nodeOutputs[n], Own(patterns, w[n], index - 1))
  <2>1. \A n \in DOMAIN w : Own(patterns, w[n], index - 1) = {}
    BY <1>5 DEF Own
  <2> QED
    BY <1>3, <1>4, <2>1, ReportsNothing
<1>8. index <= Len(patterns) =>
        /\ read \in 0 .. Len(patterns[index])
        /\ node \in DOMAIN w /\ w[node] = SubSeq(patterns[index], 1, read)
  <2> SUFFICES ASSUME index <= Len(patterns)
               PROVE  0 \in 0 .. Len(patterns[1]) /\ SubSeq(patterns[1], 1, 0) = << >>
    BY <1>1, <1>3
  <2>1. patterns[1] \in Seq(Bytes)
    BY <1>1, <1>5
  <2> QED
    BY <2>1
<1>9. Inserted(w)
  BY <1>2, <1>4, <1>5, <1>6, <1>7, <1>8 DEF Inserted
<1> QED
  BY <1>1, <1>9

LEMMA InsertByteKeeps ==
  ASSUME patterns \in Seq(Seq(Bytes)), NEW w, Inserted(w), A!InsertByte
  PROVE  \E v : Inserted(v)'
<1> DEFINE p == patterns[index]
           byte == p[read + 1]
<1>1. index \in 1 .. Len(patterns) /\ index <= Len(patterns) /\ p \in Seq(Bytes) /\ UNCHANGED <<patterns, index>>
  BY DEF A!InsertByte, A!Inserting, Inserted
<1>2. /\ read \in 0 .. Len(p) - 1 /\ read' = read + 1 /\ byte \in Bytes
      /\ read' \in 0 .. Len(p)
  BY <1>1 DEF A!InsertByte, Inserted
<1>3. node \in DOMAIN w /\ w[node] = SubSeq(p, 1, read)
  BY <1>1 DEF Inserted
<1>4. SubSeq(p, 1, read') = Append(w[node], byte)
  BY <1>1, <1>2, <1>3, OneByteMore
<1>5. Trie(w, transitions) /\ A!Nodes = DOMAIN w
  BY DEF Inserted, Trie, A!Nodes
<1> DEFINE c == A!Cardinality(A!Nodes)
<1>6. IF transitions[node][byte] # 0
      THEN node' = transitions[node][byte] /\ UNCHANGED <<transitions, nodeOutputs>>
      ELSE /\ transitions' = A!With([transitions EXCEPT ![node][byte] = c], c, A!NoRow)
           /\ nodeOutputs' = A!With(nodeOutputs, c, << >>)
           /\ node' = c
  BY DEF A!InsertByte, A!trie
<1>7. index' \in 1 .. Len(patterns') + 1 /\ Known(w, patterns, index - 1)
  BY <1>1 DEF Inserted
<1> HIDE DEF p, byte
<1>8. CASE transitions[node][byte] # 0
  <2>1. node' = transitions[node][byte] /\ UNCHANGED <<transitions, nodeOutputs>>
    BY <1>6, <1>8
  <2>2. node' \in DOMAIN w /\ w[node'] = Append(w[node], byte)
    BY <1>2, <1>3, <1>5, <1>8, <2>1 DEF Trie, EdgeRow
  <2>3. Inserted(w)'
    BY <1>1, <1>2, <1>4, <1>7, <2>1, <2>2 DEF Inserted, p
  <2> QED
    BY <2>3
<1>9. CASE transitions[node][byte] = 0
  <2> HIDE DEF c
  <2>1. /\ transitions' = A!With([transitions EXCEPT ![node][byte] = c], c, A!NoRow)
        /\ nodeOutputs' = A!With(nodeOutputs, c, << >>) /\ node' = c
    BY <1>6, <1>9
  <2>9. c = Cardinality(DOMAIN w) /\ c \notin DOMAIN w
    BY <1>5, SameCardinality, NodeIsFresh DEF c, Trie
  <2>10. PICK v : v = [m \in DOMAIN w \cup {c} |-> IF m = c THEN Append(w[node], byte) ELSE w[m]]
    OBVIOUS
  <2>11. /\ v \in [DOMAIN w \cup {c} -> Seq(Bytes)]
         /\ v[c] = Append(w[node], byte) /\ \A m \in DOMAIN w : v[m] = w[m]
    <3>1. \A m \in DOMAIN w : w[m] \in Seq(Bytes)
      BY <1>5, RootEnds DEF Trie
    <3>2. Append(w[node], byte) \in Seq(Bytes)
      BY <1>2, <1>3, <3>1
    <3> QED
      BY <2>9, <2>10, <3>1, <3>2
  <2>12. /\ transitions' \in [DOMAIN w \cup {c} -> [Bytes -> DOMAIN w \cup {c}]]
         /\ \A a \in Bytes : transitions'[c][a] = 0
         /\ \A m \in DOMAIN w, a \in Bytes :
              transitions'[m][a] = IF m = node /\ a = byte THEN c ELSE transitions[m][a]
    <3>1. transitions \in [DOMAIN w -> [Bytes -> DOMAIN w]] /\ 0 \in DOMAIN w
      BY <1>5, RootEnds DEF Trie
    <3> DEFINE changed == [transitions EXCEPT ![node][byte] = c]
    <3>2. /\ changed \in [DOMAIN w -> [Bytes -> DOMAIN w \cup {c}]]
          /\ \A m \in DOMAIN w, a \in Bytes :
               changed[m][a] = IF m = node /\ a = byte THEN c ELSE transitions[m][a]
      BY <1>2, <1>3, <3>1
    <3> HIDE DEF changed
    <3>3. transitions' = [n \in DOMAIN w \cup {c} |-> IF n = c THEN A!NoRow ELSE changed[n]]
      BY <2>1, <3>2 DEF changed, A!With
    <3> QED
      BY <2>9, <3>1, <3>2, <3>3 DEF A!NoRow
  <2>2. /\ c \notin DOMAIN w /\ DOMAIN v = DOMAIN w \cup {c}
        /\ v[c] = Append(w[node], byte) /\ (\A m \in DOMAIN w : v[m] = w[m] /\ w[m] # v[c])
        /\ Trie(v, transitions')
    <3>1. OneNodeMore(w, transitions, node, byte, c, v, transitions')
      BY <2>11, <2>12 DEF OneNodeMore
    <3>2. (\A m \in DOMAIN w : w[m] # v[c]) /\ Trie(v, transitions')
      BY <1>2, <1>3, <1>5, <1>9, <2>9, <3>1, NodeIsMade
    <3> QED
      BY <2>9, <2>11, <3>2
  <2>3. /\ DOMAIN nodeOutputs = DOMAIN w /\ \A n \in DOMAIN w : nodeOutputs[n] \in Seq(Nat)
    BY DEF Inserted
  <2>4. /\ nodeOutputs' \in [DOMAIN v -> Seq(Nat)] /\ nodeOutputs'[c] = << >>
        /\ \A n \in DOMAIN w : nodeOutputs'[n] = nodeOutputs[n]
    BY <2>1, <2>2, <2>3, ReportsNothing DEF A!With
  <2>5. Known(v, patterns, index - 1)
    BY <1>7, <2>2 DEF Known
  <2>6. ASSUME NEW n \in DOMAIN v PROVE Reports(nodeOutputs'[n], Own(patterns, v[n], index - 1))
    <3>1. CASE n = c
      <4>1. Own(patterns, v[c], index - 1) = {}
        BY <1>7, <2>2 DEF Known, Own
      <4> QED
        BY <2>4, <3>1, <4>1, ReportsNothing
    <3>2. CASE n \in DOMAIN w
      BY <2>2, <2>4, <3>2 DEF Inserted
    <3> QED
      BY <2>2, <3>1, <3>2
  <2>7. node' \in DOMAIN v /\ v[node'] = SubSeq(p, 1, read')
    BY <1>4, <2>1, <2>2
  <2>8. Inserted(v)'
    BY <1>1, <1>2, <1>7, <2>2, <2>4, <2>5, <2>6, <2>7 DEF Inserted, p
  <2> QED
    BY <2>8
<1> QED
  BY <1>8, <1>9

LEMMA EndPatternKeeps ==
  ASSUME patterns \in Seq(Seq(Bytes)), NEW w, Inserted(w), A!EndPattern
  PROVE  Inserted(w)'
<1> DEFINE p == patterns[index]
<1>1. /\ index \in 1 .. Len(patterns) /\ index <= Len(patterns) /\ p \in Seq(Bytes) /\ index \in DOMAIN patterns
      /\ UNCHANGED <<patterns, transitions>> /\ read = Len(p) /\ index' = index + 1 /\ read' = 0 /\ node' = 0
      /\ Len(patterns) \in Nat
  BY DEF A!EndPattern, A!Inserting, Inserted
<1>2. node \in DOMAIN w /\ w[node] = p
  <2>1. SubSeq(p, 1, Len(p)) = p
    BY <1>1
  <2> QED
    BY <1>1, <2>1 DEF Inserted
<1>3. nodeOutputs' = IF p = << >> THEN nodeOutputs
                     ELSE [nodeOutputs EXCEPT ![node] = Append(nodeOutputs[node], index)]
  <2>1. p = << >> <=> read = 0
    BY <1>1
  <2> QED
    BY <2>1 DEF A!EndPattern
<1>4. Words(w) /\ nodeOutputs \in [DOMAIN w -> Seq(Nat)] /\ Trie(w, transitions)
      /\ \A n \in DOMAIN w : nodeOutputs[n] \in Seq(Nat) /\ Reports(nodeOutputs[n], Own(patterns, w[n], index - 1))
  BY DEF Inserted, Trie
<1> HIDE DEF p
<1>5. \A q \in DOMAIN patterns : q \in Nat /\ (q <= index <=> q <= index - 1 \/ q = index)
  BY <1>1
<1>6. Known(w, patterns, index)
  BY <1>2, <1>5 DEF Known, Inserted, p
<1>7. ASSUME NEW n \in DOMAIN w
      PROVE  nodeOutputs'[n] \in Seq(Nat) /\ Reports(nodeOutputs'[n], Own(patterns, w[n], index))
  <2>1. Own(patterns, w[n], index) =
          Own(patterns, w[n], index - 1) \cup (IF p # << >> /\ p = w[n] THEN {index} ELSE {})
    BY <1>1, <1>5 DEF Own, p
  <2>2. index \notin Own(patterns, w[n], index - 1) /\ index \in Nat
    BY <1>1 DEF Own
  <2>3. p = w[n] <=> n = node
    BY <1>2, <1>4 DEF Words
  <2>4. CASE p # << >> /\ n = node
    <3>1. nodeOutputs'[n] = Append(nodeOutputs[n], index)
      BY <1>2, <1>3, <1>4, <2>4
    <3>2. Own(patterns, w[n], index) = Own(patterns, w[n], index - 1) \cup {index}
      BY <2>1, <2>3, <2>4
    <3>3. PICK o, S, k : o = nodeOutputs[n] /\ S = Own(patterns, w[n], index - 1) /\ k = index
      OBVIOUS
    <3>4. o \in Seq(Nat) /\ k \in Nat /\ Reports(o, S) /\ k \notin S
      BY <1>4, <2>2, <3>3, Zenon
    <3>5. Append(o, k) \in Seq(Nat) /\ Reports(Append(o, k), S \cup {k})
      BY <3>4, ReportsOneMore
    <3> QED
      BY <3>1, <3>2, <3>3, <3>5, Zenon
  <2>5. CASE ~(p # << >> /\ n = node)
    <3>1. nodeOutputs'[n] = nodeOutputs[n]
      BY <1>2, <1>3, <1>4, <2>5
    <3>2. Own(patterns, w[n], index) = Own(patterns, w[n], index - 1)
      BY <2>1, <2>3, <2>5
    <3> QED
      BY <1>4, <3>1, <3>2
  <2> QED
    BY <2>4, <2>5
<1>8. nodeOutputs' \in [DOMAIN w -> Seq(Nat)]
  <2>1. DOMAIN nodeOutputs' = DOMAIN w /\ nodeOutputs' = [n \in DOMAIN w |-> nodeOutputs'[n]]
    BY <1>2, <1>3, <1>4
  <2> QED
    BY <1>7, <2>1
<1>9. index' <= Len(patterns) =>
        /\ 0 \in 0 .. Len(patterns[index']) /\ 0 \in DOMAIN w
        /\ w[0] = SubSeq(patterns[index'], 1, 0)
  <2> SUFFICES ASSUME index' <= Len(patterns)
               PROVE  0 \in 0 .. Len(patterns[index']) /\ << >> = SubSeq(patterns[index'], 1, 0)
    BY <1>4, RootEnds
  <2>1. patterns[index'] \in Seq(Bytes)
    BY <1>1
  <2> QED
    BY <2>1
<1>10. index' - 1 = index /\ index' \in 1 .. Len(patterns) + 1
  BY <1>1
<1> QED
  BY <1>1, <1>4, <1>6, <1>7, <1>8, <1>9, <1>10 DEF Inserted

-----------------------------------------------------------------------------
(* The queue: nodes are completed in the order of the lengths of their words. *)

\* A non-empty set of natural numbers has a least element.
LEMMA LeastNatural ==
  ASSUME NEW T, T \subseteq Nat, T # {}
  PROVE  \E x \in T : \A y \in T : x <= y
<1> DEFINE U == {0 .. x : x \in T}
<1>1. U \subseteq FiniteSubsetsOf(Nat)
  <2> SUFFICES ASSUME NEW x \in T PROVE 0 .. x \in FiniteSubsetsOf(Nat)
    OBVIOUS
  <2>1. IsFiniteSet(0 .. x)
    BY FS_Interval
  <2> QED BY <2>1 DEF FiniteSubsetsOf
<1>2. PICK u \in U : \A v \in U : <<v, u>> \notin StrictSubsetOrdering(Nat)
  <2>1. U # {}
    OBVIOUS
  <2> HIDE DEF U
  <2> QED BY <1>1, <2>1, FS_StrictSubsetOrderingWellFounded, WFMin
<1>3. PICK x \in T : u = 0 .. x
  OBVIOUS
<1>4. ASSUME NEW y \in T, y < x PROVE FALSE
  <2>1. 0 .. y \subseteq 0 .. x
    BY <1>4
  <2>2. x \in 0 .. x /\ x \notin 0 .. y
    BY <1>4
  <2>3. <<0 .. y, 0 .. x>> \in StrictSubsetOrdering(Nat)
    BY <2>1, <2>2 DEF StrictSubsetOrdering
  <2> QED BY <2>3, <1>2, <1>3
<1> QED BY <1>4

\* c holds the children of n, each of them once.
IsChildren(w, n, c) ==
  /\ c \in Seq(DOMAIN w)
  /\ \A i, j \in DOMAIN c : c[i] = c[j] => i = j
  /\ \A m \in DOMAIN w :
       (\E i \in DOMAIN c : c[i] = m) <=> (\E b \in Bytes : w[m] = Append(w[n], b))

LEMMA ChildrenAreListed ==
  ASSUME NEW w, Words(w), NEW n \in DOMAIN w, NEW row \in [Bytes -> DOMAIN w], EdgeRow(w, n, row),
         NEW c \in A!Children(row)
  PROVE  /\ IsChildren(w, n, c)
         /\ \A i \in DOMAIN c : \E b \in Bytes : row[b] # 0 /\ c[i] = row[b]
         /\ \A b \in Bytes : row[b] # 0 => \E i \in DOMAIN c : c[i] = row[b]
<1> DEFINE S == {b \in Bytes : row[b] # 0}
<1>1. PICK bytes \in A!Ascending(S) : c = [i \in DOMAIN bytes |-> row[bytes[i]]]
  BY DEF A!Children
<1>2. Cardinality(S) \in Nat /\ A!Cardinality(S) = Cardinality(S)
  <2>1. IsFiniteSet(S)
    <3>1. S \subseteq Bytes /\ IsFiniteSet(Bytes)
      BY BytesAssumption
    <3> QED
      BY <3>1, FS_Subset
  <2> QED
    BY <2>1, FS_CardinalityType, SameCardinality
<1>3. PICK k \in Nat : k = Cardinality(S)
  BY <1>2
<1>4. /\ bytes \in [1 .. k -> S]
      /\ \A b \in S : \E i \in 1 .. k : bytes[i] = b
      /\ \A i, j \in 1 .. k : i < j => bytes[i] < bytes[j]
  BY <1>2, <1>3 DEF A!Ascending, A!Range
<1>5. \A b \in S : b \in Bytes /\ b \in Nat /\ row[b] # 0 /\ row[b] \in DOMAIN w
  BY BytesAssumption
<1>6. DOMAIN c = 1 .. k /\ \A i \in 1 .. k : c[i] = row[bytes[i]] /\ bytes[i] \in S
  BY <1>1, <1>4
<1> HIDE DEF S
<1>7. c \in Seq(DOMAIN w)
  <2>1. c \in [1 .. k -> DOMAIN w]
    BY <1>1, <1>4, <1>5, <1>6
  <2> QED
    BY <2>1, <1>3
<1>8. \A b \in Bytes : (row[b] # 0 => w[row[b]] = Append(w[n], b))
  BY DEF EdgeRow
<1>9. \A a, b \in S : row[a] = row[b] => a = b
  <2> SUFFICES ASSUME NEW a \in S, NEW b \in S, row[a] = row[b] PROVE a = b
    OBVIOUS
  <2>1. Append(w[n], a) = Append(w[n], b) /\ w[n] \in Seq(Bytes)
    BY <1>5, <1>8, RootEnds
  <2> QED
    BY <1>5, <2>1, SameAppend
<1>10. \A i, j \in DOMAIN c : c[i] = c[j] => i = j
  <2> SUFFICES ASSUME NEW i \in 1 .. k, NEW j \in 1 .. k, c[i] = c[j] PROVE i = j
    BY <1>6
  <2>1. bytes[i] = bytes[j] /\ bytes[i] \in Nat
    BY <1>5, <1>6, <1>9
  <2>2. ~(i < j) /\ ~(j < i)
    BY <1>4, <2>1
  <2> QED
    BY <2>2
<1>11. /\ \A i \in DOMAIN c : \E b \in Bytes : row[b] # 0 /\ c[i] = row[b]
       /\ \A b \in Bytes : row[b] # 0 => \E i \in DOMAIN c : c[i] = row[b]
  <2>1. \A i \in DOMAIN c : \E b \in Bytes : row[b] # 0 /\ c[i] = row[b]
    BY <1>5, <1>6
  <2>2. ASSUME NEW b \in Bytes, row[b] # 0 PROVE \E i \in DOMAIN c : c[i] = row[b]
    <3>1. b \in S
      BY <2>2 DEF S
    <3>2. PICK i \in 1 .. k : bytes[i] = b
      BY <1>4, <3>1
    <3> QED
      BY <1>6, <3>2
  <2> QED
    BY <2>1, <2>2
<1>12. ASSUME NEW m \in DOMAIN w
       PROVE  (\E i \in DOMAIN c : c[i] = m) <=> (\E b \in Bytes : w[m] = Append(w[n], b))
  <2>1. ASSUME NEW i \in DOMAIN c, c[i] = m PROVE \E b \in Bytes : w[m] = Append(w[n], b)
    BY <1>8, <1>11, <2>1
  <2>2. ASSUME NEW b \in Bytes, w[m] = Append(w[n], b) PROVE \E i \in DOMAIN c : c[i] = m
    <3>1. row[b] = m
      BY <2>2 DEF EdgeRow
    <3>2. m # 0
      <4>1. w[n] \in Seq(Bytes) /\ w[0] = << >>
        BY RootEnds
      <4>2. Append(w[n], b) # << >>
        BY <4>1, AppendIsLonger
      <4> QED
        BY <2>2, <4>1, <4>2
    <3> QED
      BY <1>11, <3>1, <3>2
  <2> QED
    BY <2>1, <2>2
<1> QED
  BY <1>7, <1>10, <1>11, <1>12 DEF IsChildren

\* The rows of the nodes in done are completed, and their children are in done or
\* in the queue, which is in the order of the lengths of the words.
BreadthFirst(w, q, done) ==
  /\ q \in Seq(DOMAIN w) /\ done \subseteq DOMAIN w /\ 0 \in done
  /\ \A i \in DOMAIN q : q[i] \notin done
  /\ \A i, j \in DOMAIN q : q[i] = q[j] => i = j
  /\ \A i, j \in DOMAIN q : i <= j => /\ Len(w[q[i]]) <= Len(w[q[j]])
                                      /\ Len(w[q[j]]) <= Len(w[q[i]]) + 1
  /\ \A m, n \in DOMAIN w, b \in Bytes :
       w[m] = Append(w[n], b) => (n \in done <=> m \in done \/ \E i \in DOMAIN q : q[i] = m)

\* Of the nodes that are not completed, one with a shortest word is in the queue.
LEMMA ShortestIsQueued ==
  ASSUME NEW w, Words(w), NEW q, NEW done, BreadthFirst(w, q, done), NEW u \in DOMAIN w, u \notin done
  PROVE  \E i \in DOMAIN q : Len(w[q[i]]) <= Len(w[u])
<1> DEFINE T == {Len(w[n]) : n \in DOMAIN w \ done}
<1>1. \A n \in DOMAIN w : w[n] \in Seq(Bytes) /\ Len(w[n]) \in Nat
  BY RootEnds
<1>2. T \subseteq Nat /\ Len(w[u]) \in T
  BY <1>1
<1> HIDE DEF T
<1>3. PICK x \in T : \A y \in T : x <= y
  BY <1>2, LeastNatural
<1>4. PICK n \in DOMAIN w : n \notin done /\ Len(w[n]) = x
  BY DEF T
<1>5. n # 0
  BY <1>4 DEF BreadthFirst
<1>6. PICK p \in DOMAIN w, b \in Bytes : w[n] = Append(w[p], b)
  BY <1>5 DEF Words
<1>7. Len(w[p]) < x
  BY <1>1, <1>4, <1>6
<1>8. p \in done
  <2> SUFFICES ASSUME p \notin done PROVE FALSE
    OBVIOUS
  <2>1. Len(w[p]) \in T
    BY DEF T
  <2> QED
    BY <1>1, <1>2, <1>3, <1>7, <2>1
<1>9. \E i \in DOMAIN q : q[i] = n
  BY <1>4, <1>6, <1>8 DEF BreadthFirst
<1> QED
  BY <1>2, <1>3, <1>4, <1>9

\* Every node of a shorter word than the next one's is completed, and every node
\* of a word that is not longer was reached.
LEMMA ShorterAreDone ==
  ASSUME NEW w, Words(w), NEW q, NEW done, BreadthFirst(w, q, done), q # << >>
  PROVE  \A n \in DOMAIN w :
           /\ Len(w[n]) < Len(w[Head(q)]) => n \in done
           /\ Len(w[n]) <= Len(w[Head(q)]) => n \in done \/ \E i \in DOMAIN q : q[i] = n
<1>1. q \in Seq(DOMAIN w) /\ 1 \in DOMAIN q /\ Head(q) = q[1] /\ DOMAIN q = 1 .. Len(q) /\ Head(q) \in DOMAIN w
  BY DEF BreadthFirst
<1>2. \A n \in DOMAIN w : w[n] \in Seq(Bytes) /\ Len(w[n]) \in Nat
  BY RootEnds
<1>3. ASSUME NEW n \in DOMAIN w, n \notin done PROVE Len(w[Head(q)]) <= Len(w[n])
  <2>1. PICK i \in DOMAIN q : Len(w[q[i]]) <= Len(w[n])
    BY <1>3, ShortestIsQueued
  <2>2. Len(w[q[1]]) <= Len(w[q[i]]) /\ q[i] \in DOMAIN w
    <3>1. 1 <= i /\ q[i] \in DOMAIN w
      BY <1>1
    <3> QED
      BY <1>1, <3>1 DEF BreadthFirst
  <2> QED
    BY <1>1, <1>2, <2>1, <2>2
<1>4. ASSUME NEW n \in DOMAIN w, Len(w[n]) < Len(w[Head(q)]) PROVE n \in done
  BY <1>1, <1>2, <1>3, <1>4
<1>5. ASSUME NEW n \in DOMAIN w, Len(w[n]) <= Len(w[Head(q)])
      PROVE  n \in done \/ \E i \in DOMAIN q : q[i] = n
  <2>1. CASE n = 0
    BY <2>1 DEF BreadthFirst
  <2>2. CASE n # 0
    <3>1. PICK p \in DOMAIN w, b \in Bytes : w[n] = Append(w[p], b)
      BY <2>2 DEF Words
    <3>2. Len(w[p]) < Len(w[Head(q)])
      BY <1>1, <1>2, <1>5, <3>1
    <3>3. p \in done
      BY <1>4, <3>2
    <3> QED
      BY <3>1, <3>3 DEF BreadthFirst
  <2> QED
    BY <2>1, <2>2
<1> QED
  BY <1>4, <1>5

\* When the queue is empty, every node is completed.
LEMMA EmptyQueueIsDone ==
  ASSUME NEW w, Words(w), NEW done, BreadthFirst(w, << >>, done)
  PROVE  done = DOMAIN w
<1> SUFFICES ASSUME NEW u \in DOMAIN w, u \notin done PROVE FALSE
  BY DEF BreadthFirst
<1>1. \E i \in DOMAIN << >> : Len(w[<< >>[i]]) <= Len(w[u])
  BY ShortestIsQueued
<1> QED
  BY <1>1

LEMMA QueueStarts ==
  ASSUME NEW w, Words(w), NEW c, IsChildren(w, 0, c)
  PROVE  BreadthFirst(w, c, {0})
<1>1. /\ 0 \in DOMAIN w /\ w[0] = << >> /\ Len(<< >>) = 0
      /\ \A n \in DOMAIN w : w[n] \in Seq(Bytes) /\ (n # 0 => w[n] # << >>)
  BY RootEnds
<1>2. \A b \in Bytes : Append(<< >>, b) # << >> /\ Len(Append(<< >>, b)) = 1
  OBVIOUS
<1>3. c \in Seq(DOMAIN w) /\ \A i \in DOMAIN c : c[i] \in DOMAIN w
  BY DEF IsChildren
<1>4. \A i \in DOMAIN c : c[i] # 0 /\ Len(w[c[i]]) = 1
  BY <1>1, <1>2, <1>3 DEF IsChildren
<1>5. ASSUME NEW m \in DOMAIN w, NEW n \in DOMAIN w, NEW b \in Bytes, w[m] = Append(w[n], b)
      PROVE  n \in {0} <=> m \in {0} \/ \E i \in DOMAIN c : c[i] = m
  <2>1. w[n] \in Seq(Bytes) /\ Append(w[n], b) # << >>
    BY <1>1
  <2>2. m # 0
    BY <1>1, <1>5, <2>1
  <2>3. ASSUME n = 0 PROVE \E i \in DOMAIN c : c[i] = m
    BY <1>5, <2>3 DEF IsChildren
  <2>4. ASSUME NEW i \in DOMAIN c, c[i] = m PROVE n = 0
    <3>1. PICK a \in Bytes : w[m] = Append(w[0], a)
      BY <2>4 DEF IsChildren
    <3>2. Append(w[n], b) = Append(w[0], a) /\ 0 \in DOMAIN w
      BY <1>1, <1>5, <3>1
    <3> QED
      BY <3>2, OneParent
  <2> QED
    BY <2>2, <2>3, <2>4
<1>6. \A i, j \in DOMAIN c : i <= j => /\ Len(w[c[i]]) <= Len(w[c[j]])
                                       /\ Len(w[c[j]]) <= Len(w[c[i]]) + 1
  BY <1>4
<1>7. \A i, j \in DOMAIN c : c[i] = c[j] => i = j
  BY DEF IsChildren
<1> QED
  BY <1>1, <1>3, <1>4, <1>5, <1>6, <1>7 DEF BreadthFirst

LEMMA Joined ==
  ASSUME NEW S, NEW s \in Seq(S), NEW t \in Seq(S)
  PROVE  /\ s \o t \in Seq(S) /\ Len(s \o t) = Len(s) + Len(t) /\ DOMAIN (s \o t) = 1 .. Len(s) + Len(t)
         /\ \A i \in 1 .. Len(s) : (s \o t)[i] = s[i]
         /\ \A i \in 1 .. Len(t) : (s \o t)[Len(s) + i] = t[i]
OBVIOUS

LEMMA TailAndMore ==
  ASSUME NEW S, NEW q \in Seq(S), q # << >>, NEW c \in Seq(S)
  PROVE  \E a, l \in Nat :
           /\ DOMAIN q = 1 .. a + 1 /\ DOMAIN c = 1 .. l
           /\ Tail(q) \o c \in Seq(S) /\ DOMAIN (Tail(q) \o c) = 1 .. a + l
           /\ \A i \in 1 .. a : (Tail(q) \o c)[i] = q[i + 1]
           /\ \A i \in 1 .. l : (Tail(q) \o c)[a + i] = c[i]
           /\ Head(q) = q[1] /\ Head(q) \in S
<1> DEFINE t == Tail(q)
           r == t \o c
           a == Len(q) - 1
<1>1. /\ Len(q) \in Nat /\ Len(q) > 0 /\ DOMAIN q = 1 .. Len(q) /\ Head(q) = q[1] /\ Head(q) \in S
      /\ t \in Seq(S) /\ Len(t) = Len(q) - 1
      /\ \A i \in 1 .. Len(q) - 1 : t[i] = q[i + 1]
  OBVIOUS
<1>2. a \in Nat /\ Len(q) = a + 1
  BY <1>1
<1>3. Len(c) \in Nat /\ DOMAIN c = 1 .. Len(c)
  OBVIOUS
<1> HIDE DEF t
<1> HIDE DEF r
<1>4. /\ r \in Seq(S) /\ Len(r) = Len(t) + Len(c) /\ DOMAIN r = 1 .. Len(t) + Len(c)
      /\ \A i \in 1 .. Len(t) : r[i] = t[i]
      /\ \A i \in 1 .. Len(c) : r[Len(t) + i] = c[i]
  <2>1. t \in Seq(S) /\ c \in Seq(S)
    BY <1>1
  <2>2. /\ t \o c \in Seq(S) /\ Len(t \o c) = Len(t) + Len(c) /\ DOMAIN (t \o c) = 1 .. Len(t) + Len(c)
        /\ \A i \in 1 .. Len(t) : (t \o c)[i] = t[i]
        /\ \A i \in 1 .. Len(c) : (t \o c)[Len(t) + i] = c[i]
    BY <2>1
  <2> QED
    BY <2>2, Zenon DEF r
<1>5. /\ DOMAIN q = 1 .. a + 1 /\ r \in Seq(S) /\ DOMAIN r = 1 .. a + Len(c)
      /\ \A i \in 1 .. a : r[i] = q[i + 1]
      /\ \A i \in 1 .. Len(c) : r[a + i] = c[i]
  BY <1>1, <1>2, <1>3, <1>4
<1> HIDE DEF a
<1>6. \E l \in Nat :
        /\ DOMAIN q = 1 .. a + 1 /\ DOMAIN c = 1 .. l /\ r \in Seq(S) /\ DOMAIN r = 1 .. a + l
        /\ \A i \in 1 .. a : r[i] = q[i + 1]
        /\ \A i \in 1 .. l : r[a + i] = c[i]
  <2>1. Len(c) \in Nat
    BY <1>3
  <2>2. DOMAIN c = 1 .. Len(c)
    BY <1>3
  <2> QED
    BY <1>5, <2>1, <2>2, Zenon
<1> QED
  BY <1>1, <1>2, <1>6 DEF r, t

\* The head is completed and its children are put at the end.
LEMMA QueueMoves ==
  ASSUME NEW w, Words(w), NEW q, NEW done, BreadthFirst(w, q, done), q # << >>,
         NEW c, IsChildren(w, Head(q), c)
  PROVE  BreadthFirst(w, Tail(q) \o c, done \cup {Head(q)})
<1> DEFINE h == Head(q)
           r == Tail(q) \o c
           more == done \cup {h}
<1>0. q \in Seq(DOMAIN w) /\ c \in Seq(DOMAIN w)
  BY DEF BreadthFirst, IsChildren
<1>1. PICK a \in Nat, l \in Nat :
        /\ DOMAIN q = 1 .. a + 1 /\ DOMAIN c = 1 .. l
        /\ r \in Seq(DOMAIN w) /\ DOMAIN r = 1 .. a + l
        /\ \A i \in 1 .. a : r[i] = q[i + 1]
        /\ \A i \in 1 .. l : r[a + i] = c[i]
        /\ h = q[1] /\ h \in DOMAIN w
  BY <1>0, TailAndMore
<1>5. \A i \in DOMAIN r : r[i] \in DOMAIN w
  BY <1>1
<1>2. /\ \A i \in DOMAIN q : q[i] \notin done
      /\ \A i, j \in DOMAIN q : q[i] = q[j] => i = j
      /\ \A i, j \in DOMAIN q : i <= j => /\ Len(w[q[i]]) <= Len(w[q[j]])
                                          /\ Len(w[q[j]]) <= Len(w[q[i]]) + 1
      /\ \A m, n \in DOMAIN w, b \in Bytes :
           w[m] = Append(w[n], b) => (n \in done <=> m \in done \/ \E i \in DOMAIN q : q[i] = m)
      /\ done \subseteq DOMAIN w /\ 0 \in done
  BY DEF BreadthFirst
<1>3. /\ \A i \in DOMAIN c : c[i] \in DOMAIN w
      /\ \A i, j \in DOMAIN c : c[i] = c[j] => i = j
      /\ \A m \in DOMAIN w :
           (\E i \in DOMAIN c : c[i] = m) <=> (\E b \in Bytes : w[m] = Append(w[h], b))
  BY DEF IsChildren
<1>4. \A n \in DOMAIN w : w[n] \in Seq(Bytes) /\ Len(w[n]) \in Nat
  BY RootEnds
<1> HIDE DEF h, r
<1> DEFINE Old(i) == i \in 1 .. a /\ i + 1 \in DOMAIN q /\ r[i] = q[i + 1]
           New(i) == i > a /\ i - a \in DOMAIN c /\ r[i] = c[i - a]
<1>6. \A i \in DOMAIN r : i \in Nat /\ (Old(i) \/ New(i))
  <2> SUFFICES ASSUME NEW i \in 1 .. a + l PROVE Old(i) \/ New(i)
    BY <1>1
  <2>1. CASE i <= a
    BY <1>1, <2>1
  <2>2. CASE ~(i <= a)
    <3>1. i > a /\ i - a \in 1 .. l /\ a + (i - a) = i
      BY <2>2
    <3> QED
      BY <1>1, <3>1
  <2> QED
    BY <2>1, <2>2
<1>7. /\ \A i \in 1 .. a : i \in DOMAIN r /\ r[i] = q[i + 1]
      /\ \A i \in DOMAIN c : a + i \in DOMAIN r /\ r[a + i] = c[i]
  BY <1>1
<1>8. ASSUME NEW i \in DOMAIN c
      PROVE  c[i] \notin done /\ c[i] # h /\ Len(w[c[i]]) = Len(w[h]) + 1 /\ \A j \in DOMAIN q : c[i] # q[j]
  <2>1. PICK b \in Bytes : w[c[i]] = Append(w[h], b)
    BY <1>3
  <2>2. Len(w[c[i]]) = Len(w[h]) + 1
    BY <1>1, <1>4, <2>1, AppendIsLonger
  <2>3. h \notin done /\ c[i] \in DOMAIN w
    <3>1. 1 \in DOMAIN q
      BY <1>1
    <3> QED
      BY <1>1, <1>2, <1>3, <3>1
  <2>4. ~(c[i] \in done \/ \E j \in DOMAIN q : q[j] = c[i])
    BY <1>1, <1>2, <2>1, <2>3
  <2>5. c[i] # h
    BY <1>1, <1>4, <2>2
  <2> QED
    BY <2>2, <2>4, <2>5
<1>9. \A i \in DOMAIN r : r[i] \notin more
  <2> SUFFICES ASSUME NEW i \in DOMAIN r PROVE r[i] \notin done /\ r[i] # h
    OBVIOUS
  <2>1. CASE Old(i)
    <3>1. r[i] = q[i + 1] /\ i + 1 \in DOMAIN q /\ 1 \in DOMAIN q /\ i + 1 # 1
      BY <1>1, <2>1
    <3> QED
      BY <1>1, <1>2, <3>1
  <2>2. CASE New(i)
    BY <1>8, <2>2
  <2> QED
    BY <1>6, <2>1, <2>2
<1>10. \A i, j \in DOMAIN r : r[i] = r[j] => i = j
  <2> SUFFICES ASSUME NEW i \in DOMAIN r, NEW j \in DOMAIN r, r[i] = r[j] PROVE i = j
    OBVIOUS
  <2>0. i \in Nat /\ j \in Nat
    BY <1>6
  <2>1. CASE Old(i) /\ Old(j)
    <3>1. i + 1 = j + 1
      BY <1>2, <2>1
    <3> QED
      BY <2>0, <3>1
  <2>2. CASE New(i) /\ New(j)
    <3>1. i - a = j - a
      <4>1. c[i - a] = c[j - a]
        BY <2>2
      <4> QED
        BY <1>3, <2>2, <4>1
    <3> QED
      BY <1>1, <2>0, <3>1
  <2>3. ~(Old(i) /\ New(j)) /\ ~(New(i) /\ Old(j))
    BY <1>8
  <2> QED
    BY <1>6, <2>1, <2>2, <2>3
<1>11. ASSUME NEW i \in DOMAIN r, NEW j \in DOMAIN r, i <= j
       PROVE  Len(w[r[i]]) <= Len(w[r[j]]) /\ Len(w[r[j]]) <= Len(w[r[i]]) + 1
  <2>0. i \in Nat /\ j \in Nat /\ r[i] \in DOMAIN w /\ r[j] \in DOMAIN w
    BY <1>5, <1>6
  <2>1. CASE Old(i) /\ Old(j)
    <3>1. i + 1 <= j + 1
      BY <1>11, <2>0
    <3> QED
      BY <1>2, <2>1, <3>1
  <2>2. CASE New(i) /\ New(j)
    <3>1. Len(w[r[i]]) = Len(w[h]) + 1 /\ Len(w[r[j]]) = Len(w[h]) + 1 /\ Len(w[h]) \in Nat
      BY <1>1, <1>4, <1>8, <2>2
    <3> QED
      BY <3>1
  <2>3. CASE Old(i) /\ New(j)
    <3>1. Len(w[r[j]]) = Len(w[h]) + 1
      BY <1>8, <2>3
    <3>2. 1 \in DOMAIN q /\ 1 <= i + 1
      BY <1>1, <2>0
    <3>3. Len(w[h]) <= Len(w[r[i]]) /\ Len(w[r[i]]) <= Len(w[h]) + 1
      <4>1. r[i] = q[i + 1] /\ h = q[1] /\ i + 1 \in DOMAIN q
        BY <1>1, <2>3
      <4> QED
        BY <1>2, <3>2, <4>1
    <3>4. Len(w[h]) \in Nat /\ Len(w[r[i]]) \in Nat
      BY <1>1, <1>4, <2>0
    <3> QED
      BY <3>1, <3>3, <3>4
  <2>4. CASE New(i) /\ Old(j)
    <3>1. i > a /\ j <= a
      BY <1>1, <2>4
    <3> QED
      BY <1>1, <1>11, <2>0, <3>1
  <2> QED
    BY <1>6, <2>1, <2>2, <2>3, <2>4
<1>12. ASSUME NEW m \in DOMAIN w, NEW n \in DOMAIN w, NEW b \in Bytes, w[m] = Append(w[n], b)
       PROVE  n \in more <=> m \in more \/ \E i \in DOMAIN r : r[i] = m
  <2>1. n \in done <=> m \in done \/ \E i \in DOMAIN q : q[i] = m
    BY <1>2, <1>12
  <2>2. (\E i \in DOMAIN c : c[i] = m) <=> n = h
    <3>1. ASSUME NEW i \in DOMAIN c, c[i] = m PROVE n = h
      <4>1. PICK d \in Bytes : w[m] = Append(w[h], d)
        BY <1>3, <3>1
      <4>2. Append(w[n], b) = Append(w[h], d) /\ h \in DOMAIN w
        BY <1>1, <1>12, <4>1
      <4> QED
        BY <4>2, OneParent
    <3> QED
      BY <1>3, <1>12, <3>1
  <2>3. (\E i \in DOMAIN q : q[i] = m) <=> m = h \/ \E i \in 1 .. a : r[i] = m
    <3>1. ASSUME NEW i \in DOMAIN q, q[i] = m, m # h PROVE \E j \in 1 .. a : r[j] = m
      <4>1. i - 1 \in 1 .. a /\ (i - 1) + 1 = i
        BY <1>1, <3>1
      <4>2. r[i - 1] = m
        BY <1>7, <3>1, <4>1
      <4> QED
        BY <4>1, <4>2
    <3>2. ASSUME NEW i \in 1 .. a, r[i] = m PROVE \E j \in DOMAIN q : q[j] = m
      <4>1. i + 1 \in DOMAIN q /\ q[i + 1] = m
        BY <1>1, <1>7, <3>2
      <4> QED
        BY <4>1
    <3>3. 1 \in DOMAIN q /\ q[1] = h
      BY <1>1
    <3> QED
      BY <3>1, <3>2, <3>3
  <2>4. (\E i \in DOMAIN r : r[i] = m) <=>
          (\E i \in 1 .. a : r[i] = m) \/ \E i \in DOMAIN c : c[i] = m
    <3>1. ASSUME NEW i \in DOMAIN r, r[i] = m
          PROVE  (\E j \in 1 .. a : r[j] = m) \/ \E j \in DOMAIN c : c[j] = m
      BY <1>6, <3>1
    <3> QED
      BY <1>7, <3>1
  <2> QED
    BY <2>1, <2>2, <2>3, <2>4
<1>13. BreadthFirst(w, r, more)
  BY <1>1, <1>2, <1>9, <1>10, <1>11, <1>12 DEF BreadthFirst
<1> QED
  BY <1>13 DEF r, h

-----------------------------------------------------------------------------
(* The completion of the rows, node by node.                               *)

\* A node has failure and outputs of its own once its parent is completed.
Reached(q, done, n) == n \in done \/ \E i \in DOMAIN q : q[i] = n

\* The rows of done are completed; a reached node fails to the longest end of its
\* tail and reports what its word ends with, another one its own patterns only.
Completion(w, list, rows, outs, fails, q, done) ==
  /\ Words(w) /\ list \in Seq(Seq(Bytes)) /\ Known(w, list, Len(list))
  /\ rows \in [DOMAIN w -> [Bytes -> DOMAIN w]]
  /\ outs \in [DOMAIN w -> Seq(Nat)]
  /\ fails \in [DOMAIN w -> DOMAIN w]
  /\ BreadthFirst(w, q, done)
  /\ \A n \in done : GotoRow(w, n, rows[n])
  /\ \A n \in DOMAIN w \ done : EdgeRow(w, n, rows[n])
  /\ \A n \in DOMAIN w :
       /\ n # 0 /\ Reached(q, done, n) => Longest(w, fails[n], Tail(w[n]))
       /\ Reached(q, done, n) => Reports(outs[n], Ends(list, w[n]))
       /\ ~Reached(q, done, n) => Reports(outs[n], Own(list, w[n], Len(list)))

LEMMA RootReportsNothing ==
  ASSUME NEW list \in Seq(Seq(Bytes)), NEW k
  PROVE  Own(list, << >>, k) = {} /\ Ends(list, << >>) = {}
<1>1. \A p \in DOMAIN list : list[p] \in Seq(Bytes)
  OBVIOUS
<1>2. \A s \in Seq(Bytes) : Len(s) <= Len(<< >>) => s = << >>
  OBVIOUS
<1> QED
  BY <1>1, <1>2 DEF Own, Ends, Ending

\* A node that fails to the root has nothing to inherit.
LEMMA NothingInherited ==
  ASSUME NEW w, Words(w), NEW list \in Seq(Seq(Bytes)), Known(w, list, Len(list)),
         NEW m \in DOMAIN w, m # 0, NEW g, Longest(w, g, Tail(w[m])), w[g] = << >>
  PROVE  Ends(list, w[m]) = Own(list, w[m], Len(list))
<1>1. Ends(list, w[m]) = Own(list, w[m], Len(list)) \cup Ends(list, w[g])
  BY WhatIsInherited
<1>2. Ends(list, w[g]) = {}
  BY RootReportsNothing
<1> QED
  BY <1>1, <1>2

\* A word of one byte ends with itself and with the empty word only.
LEMMA ChildOfRoot ==
  ASSUME NEW w, Words(w), NEW list \in Seq(Seq(Bytes)), Known(w, list, Len(list)),
         NEW m \in DOMAIN w, NEW b \in Bytes, w[m] = Append(<< >>, b)
  PROVE  m # 0 /\ Longest(w, 0, Tail(w[m])) /\ Ends(list, w[m]) = Own(list, w[m], Len(list))
<1>1. Append(<< >>, b) # << >> /\ Tail(Append(<< >>, b)) = << >>
  OBVIOUS
<1>2. m # 0
  BY <1>1, RootEnds
<1>3. Longest(w, 0, Tail(w[m])) /\ w[0] = << >>
  BY <1>1, RootEnds
<1>4. PICK g : g = 0
  OBVIOUS
<1>5. Longest(w, g, Tail(w[m])) /\ w[g] = << >>
  BY <1>3, <1>4
<1> QED
  BY <1>2, <1>3, <1>5, NothingInherited

\* The nodes of one byte start the queue.
LEMMA CompletionStarts ==
  ASSUME NEW w, NEW rows, Trie(w, rows), NEW list \in Seq(Seq(Bytes)), Known(w, list, Len(list)),
         NEW outs \in [DOMAIN w -> Seq(Nat)],
         \A n \in DOMAIN w : Reports(outs[n], Own(list, w[n], Len(list))),
         NEW c \in A!Children(rows[0]),
         NEW fails \in [DOMAIN w -> DOMAIN w], \A n \in DOMAIN w : fails[n] = 0
  PROVE  Completion(w, list, rows, outs, fails, c, {0})
<1>1. /\ Words(w) /\ rows \in [DOMAIN w -> [Bytes -> DOMAIN w]]
      /\ \A n \in DOMAIN w : EdgeRow(w, n, rows[n])
  BY DEF Trie
<1>2. 0 \in DOMAIN w /\ w[0] = << >> /\ rows[0] \in [Bytes -> DOMAIN w]
  BY <1>1, RootEnds
<1>3. IsChildren(w, 0, c)
  BY <1>1, <1>2, ChildrenAreListed
<1>4. BreadthFirst(w, c, {0})
  BY <1>1, <1>3, QueueStarts
<1>6. GotoRow(w, 0, rows[0])
  BY <1>1, <1>2, RootRow
<1>7. ASSUME NEW n \in DOMAIN w, n # 0, Reached(c, {0}, n)
      PROVE  Longest(w, 0, Tail(w[n])) /\ Ends(list, w[n]) = Own(list, w[n], Len(list))
  <2>1. \E i \in DOMAIN c : c[i] = n
    BY <1>7 DEF Reached
  <2>2. PICK b \in Bytes : w[n] = Append(<< >>, b)
    BY <1>2, <1>3, <2>1 DEF IsChildren
  <2> QED
    BY <1>1, <2>2, ChildOfRoot
<1>8. Own(list, w[0], Len(list)) = Ends(list, w[0])
  BY <1>2, RootReportsNothing
<1>9. \A n \in DOMAIN w :
       /\ n # 0 /\ Reached(c, {0}, n) => Longest(w, fails[n], Tail(w[n]))
       /\ Reached(c, {0}, n) => Reports(outs[n], Ends(list, w[n]))
       /\ ~Reached(c, {0}, n) => Reports(outs[n], Own(list, w[n], Len(list)))
  BY <1>7, <1>8
<1> QED
  BY <1>1, <1>4, <1>6, <1>9 DEF Completion

\* The step reaches the children of the node it completes, and no other node.
LEMMA ChildrenAreReached ==
  ASSUME NEW w, Words(w), NEW q, NEW done, BreadthFirst(w, q, done), q # << >>,
         NEW c, IsChildren(w, Head(q), c)
  PROVE  /\ \A n \in DOMAIN w :
              Reached(Tail(q) \o c, done \cup {Head(q)}, n) <=>
                Reached(q, done, n) \/ \E i \in DOMAIN c : c[i] = n
         /\ \A i \in DOMAIN c : ~Reached(q, done, c[i])
<1> DEFINE r == Tail(q) \o c
           more == done \cup {Head(q)}
<1>1. BreadthFirst(w, r, more)
  BY QueueMoves
<1>2. Head(q) \in DOMAIN w /\ Head(q) \notin done
  <2>1. q \in Seq(DOMAIN w) /\ \A i \in DOMAIN q : q[i] \notin done
    BY DEF BreadthFirst
  <2>2. 1 \in DOMAIN q /\ Head(q) = q[1] /\ q[1] \in DOMAIN w
    BY <2>1
  <2> QED
    BY <2>1, <2>2
<1>3. PICK h \in DOMAIN w : h = Head(q)
  BY <1>2
<1>4. h \notin done /\ IsChildren(w, h, c) /\ more = done \cup {h}
  BY <1>2, <1>3
<1> HIDE DEF r, more
<1>5. ASSUME NEW n \in DOMAIN w
      PROVE  Reached(r, more, n) <=> Reached(q, done, n) \/ \E i \in DOMAIN c : c[i] = n
  <2>1. CASE n = 0
    BY <1>1, <2>1 DEF BreadthFirst, Reached
  <2>2. CASE n # 0
    <3>1. PICK p \in DOMAIN w, b \in Bytes : w[n] = Append(w[p], b)
      BY <2>2 DEF Words
    <3>2. Reached(r, more, n) <=> p \in more
      BY <1>1, <3>1 DEF BreadthFirst, Reached
    <3>3. Reached(q, done, n) <=> p \in done
      BY <3>1 DEF BreadthFirst, Reached
    <3>4. (\E i \in DOMAIN c : c[i] = n) <=> p = h
      <4>1. ASSUME NEW i \in DOMAIN c, c[i] = n PROVE p = h
        <5>1. PICK d \in Bytes : w[n] = Append(w[h], d)
          BY <1>4, <4>1 DEF IsChildren
        <5>2. Append(w[p], b) = Append(w[h], d)
          BY <3>1, <5>1
        <5> QED
          BY <5>2, OneParent
      <4>2. p = h => \E i \in DOMAIN c : c[i] = n
        BY <1>4, <3>1 DEF IsChildren
      <4> QED
        BY <4>1, <4>2
    <3> QED
      BY <1>4, <3>2, <3>3, <3>4
  <2> QED
    BY <2>1, <2>2
<1>6. ASSUME NEW i \in DOMAIN c PROVE ~Reached(q, done, c[i])
  <2>1. c[i] \in DOMAIN w
    BY DEF IsChildren
  <2>2. PICK b \in Bytes : w[c[i]] = Append(w[h], b)
    BY <1>4, <2>1 DEF IsChildren
  <2> QED
    BY <1>4, <2>1, <2>2 DEF BreadthFirst, Reached
<1> QED
  BY <1>5, <1>6 DEF r, more

\* What the completion of the head of the queue makes of the rows, the outputs and
\* the failures, with f the failure of the head and c its children.
HeadCompleted(w, h, f, c, rows, outs, fails, rows2, outs2, fails2) ==
  /\ rows2 \in [DOMAIN w -> [Bytes -> DOMAIN w]]
  /\ \A b \in Bytes : rows2[h][b] = IF rows[h][b] = 0 THEN rows[f][b] ELSE rows[h][b]
  /\ \A n \in DOMAIN w : n # h => rows2[n] = rows[n]
  /\ outs2 \in [DOMAIN w -> Seq(Nat)] /\ fails2 \in [DOMAIN w -> DOMAIN w]
  /\ \A n \in DOMAIN w : (\A i \in DOMAIN c : c[i] # n) => outs2[n] = outs[n] /\ fails2[n] = fails[n]
  /\ \A b \in Bytes : rows[h][b] # 0 =>
       /\ fails2[rows[h][b]] = rows[f][b]
       /\ outs2[rows[h][b]] = outs[rows[h][b]] \o outs[rows[f][b]]

\* The head of the queue is not completed, and the node it fails to is.
LEMMA HeadFails ==
  ASSUME NEW w, NEW list, NEW rows, NEW outs, NEW fails, NEW q, NEW done,
         Completion(w, list, rows, outs, fails, q, done), q # << >>
  PROVE  /\ Head(q) \in DOMAIN w /\ Head(q) # 0 /\ Head(q) \notin done
         /\ fails[Head(q)] \in done /\ Longest(w, fails[Head(q)], Tail(w[Head(q)]))
<1>1. Words(w) /\ BreadthFirst(w, q, done)
  BY DEF Completion
<1>2. PICK h : h = Head(q)
  OBVIOUS
<1>3. h \in DOMAIN w /\ h \notin done /\ h # 0 /\ Reached(q, done, h)
  <2>1. q \in Seq(DOMAIN w) /\ 0 \in done /\ \A i \in DOMAIN q : q[i] \notin done
    BY <1>1 DEF BreadthFirst
  <2>2. 1 \in DOMAIN q /\ h = q[1] /\ q[1] \in DOMAIN w
    BY <1>2, <2>1
  <2> QED
    BY <2>1, <2>2 DEF Reached
<1>4. PICK f : f = fails[h]
  OBVIOUS
<1>5. Longest(w, f, Tail(w[h]))
  BY <1>3, <1>4 DEF Completion
<1>6. f \in DOMAIN w /\ Len(w[f]) < Len(w[h])
  <2>1. w[h] \in Seq(Bytes) /\ w[h] # << >> /\ Tail(w[h]) \in Seq(Bytes) /\ Len(Tail(w[h])) = Len(w[h]) - 1
    BY <1>1, <1>3, RootEnds, EndingTail
  <2>2. f \in DOMAIN w /\ w[f] \in Seq(Bytes) /\ Len(w[f]) <= Len(Tail(w[h]))
    BY <1>1, <1>5, RootEnds DEF Longest, Ending
  <2> QED
    BY <2>1, <2>2
<1>7. f \in done
  BY <1>1, <1>2, <1>6, ShorterAreDone
<1> QED
  BY <1>2, <1>3, <1>4, <1>5, <1>7

\* The head's row is completed and its children come to report what they end with.
LEMMA NodeIsCompleted ==
  ASSUME NEW w, NEW list, NEW rows, NEW outs, NEW fails, NEW q, NEW done,
         Completion(w, list, rows, outs, fails, q, done), q # << >>,
         NEW h, h = Head(q), NEW f, f = fails[h], NEW c \in A!Children(rows[h]),
         NEW rows2, NEW outs2, NEW fails2,
         HeadCompleted(w, h, f, c, rows, outs, fails, rows2, outs2, fails2)
  PROVE  Completion(w, list, rows2, outs2, fails2, Tail(q) \o c, done \cup {h})
<1> DEFINE r == Tail(q) \o c
           more == done \cup {h}
<1>1. /\ Words(w) /\ list \in Seq(Seq(Bytes)) /\ Known(w, list, Len(list)) /\ BreadthFirst(w, q, done)
      /\ rows \in [DOMAIN w -> [Bytes -> DOMAIN w]] /\ outs \in [DOMAIN w -> Seq(Nat)]
      /\ done \subseteq DOMAIN w
  BY DEF Completion, BreadthFirst
<1>2. h \in DOMAIN w /\ h # 0 /\ h \notin done /\ f \in done /\ f \in DOMAIN w /\ Longest(w, f, Tail(w[h]))
  BY <1>1, HeadFails
<1>3. rows[h] \in [Bytes -> DOMAIN w] /\ EdgeRow(w, h, rows[h]) /\ GotoRow(w, f, rows[f])
  BY <1>1, <1>2 DEF Completion
<1>4. /\ IsChildren(w, h, c)
      /\ \A i \in DOMAIN c : \E b \in Bytes : rows[h][b] # 0 /\ c[i] = rows[h][b]
      /\ \A b \in Bytes : rows[h][b] # 0 => \E i \in DOMAIN c : c[i] = rows[h][b]
  <2>1. PICK row : row = rows[h]
    OBVIOUS
  <2>2. row \in [Bytes -> DOMAIN w] /\ EdgeRow(w, h, row) /\ c \in A!Children(row)
    BY <1>3, <2>1
  <2>3. /\ IsChildren(w, h, c)
        /\ \A i \in DOMAIN c : \E b \in Bytes : row[b] # 0 /\ c[i] = row[b]
        /\ \A b \in Bytes : row[b] # 0 => \E i \in DOMAIN c : c[i] = row[b]
    <3>1. Words(w)
      BY <1>1
    <3>2. h \in DOMAIN w
      BY <1>2
    <3> QED
      BY <2>2, <3>1, <3>2, ChildrenAreListed, Zenon
  <2> QED
    BY <2>1, <2>3
<1>5. BreadthFirst(w, r, more)
  BY <1>1, <1>4, QueueMoves
<1>6. /\ \A n \in DOMAIN w : Reached(r, more, n) <=> Reached(q, done, n) \/ \E i \in DOMAIN c : c[i] = n
      /\ \A i \in DOMAIN c : ~Reached(q, done, c[i])
  <2>1. IsChildren(w, Head(q), c) /\ more = done \cup {Head(q)}
    BY <1>4
  <2> HIDE DEF more
  <2>2. /\ \A n \in DOMAIN w :
             Reached(Tail(q) \o c, done \cup {Head(q)}, n) <=>
               Reached(q, done, n) \/ \E i \in DOMAIN c : c[i] = n
        /\ \A i \in DOMAIN c : ~Reached(q, done, c[i])
    BY <1>1, <2>1, ChildrenAreReached
  <2> QED
    BY <2>1, <2>2
<1> HIDE DEF r, more
<1>7. /\ GotoRow(w, h, rows2[h])
      /\ \A b \in Bytes : rows[h][b] # 0 => Longest(w, rows[f][b], Tail(w[rows[h][b]]))
  <2>1. PICK row, failed, completed : row = rows[h] /\ failed = rows[f] /\ completed = rows2[h]
    OBVIOUS
  <2>2. \A b \in Bytes : completed[b] = IF row[b] = 0 THEN failed[b] ELSE row[b]
    BY <2>1 DEF HeadCompleted
  <2>3. EdgeRow(w, h, row) /\ GotoRow(w, f, failed)
    BY <1>3, <2>1
  <2>4. /\ GotoRow(w, h, completed)
        /\ \A b \in Bytes : row[b] # 0 => Longest(w, failed[b], Tail(w[row[b]]))
    BY <1>1, <1>2, <2>2, <2>3, RowIsCompleted
  <2> QED
    BY <2>1, <2>4
<1>8. \A n \in more : GotoRow(w, n, rows2[n])
  <2>1. GotoRow(w, h, rows2[h])
    BY <1>7
  <2>2. \A n \in done : n # h /\ rows2[n] = rows[n] /\ GotoRow(w, n, rows[n])
    BY <1>1, <1>2 DEF HeadCompleted, Completion
  <2> QED
    BY <2>1, <2>2 DEF more
<1>9. \A n \in DOMAIN w \ more : EdgeRow(w, n, rows2[n])
  <2>1. \A n \in DOMAIN w \ more : n # h /\ n \notin done /\ rows2[n] = rows[n]
    BY DEF more, HeadCompleted
  <2> QED
    BY <2>1 DEF Completion
<1>10. ASSUME NEW b \in Bytes, rows[h][b] # 0
       PROVE  /\ Longest(w, fails2[rows[h][b]], Tail(w[rows[h][b]]))
              /\ Reports(outs2[rows[h][b]], Ends(list, w[rows[h][b]]))
  <2>1. PICK n \in DOMAIN w, g \in DOMAIN w : n = rows[h][b] /\ g = rows[f][b]
    BY <1>1, <1>2
  <2>2. n # 0 /\ fails2[n] = g /\ outs2[n] = outs[n] \o outs[g] /\ Longest(w, g, Tail(w[n]))
    <3>1. rows[h][b] # 0 => /\ fails2[rows[h][b]] = rows[f][b]
                            /\ outs2[rows[h][b]] = outs[rows[h][b]] \o outs[rows[f][b]]
      BY DEF HeadCompleted
    <3>2. rows[h][b] # 0 => Longest(w, rows[f][b], Tail(w[rows[h][b]]))
      BY <1>7
    <3>3. rows[h][b] = n /\ rows[f][b] = g /\ n # 0
      BY <1>10, <2>1
    <3> QED
      BY <3>1, <3>2, <3>3, Zenon
  <2>3. w[n] = Append(w[h], b)
    BY <1>3, <1>10, <2>1 DEF EdgeRow
  <2>4. Reached(q, done, g)
    <3>1. w[n] \in Seq(Bytes) /\ w[n] # << >> /\ w[h] \in Seq(Bytes) /\ w[g] \in Seq(Bytes)
      BY <1>1, <1>2, <2>2, RootEnds
    <3>2. Len(Tail(w[n])) = Len(w[n]) - 1 /\ Len(w[n]) = Len(w[h]) + 1
      BY <1>1, <2>3, <3>1, EndingTail, AppendIsLonger
    <3>3. Len(w[g]) <= Len(Tail(w[n]))
      BY <2>2 DEF Longest, Ending
    <3>4. Len(w[g]) <= Len(w[h])
      BY <3>1, <3>2, <3>3
    <3>5. \A m \in DOMAIN w : Len(w[m]) <= Len(w[Head(q)]) => m \in done \/ \E i \in DOMAIN q : q[i] = m
      BY <1>1, ShorterAreDone
    <3> QED
      BY <3>4, <3>5 DEF Reached
  <2>5. ~Reached(q, done, n)
    BY <1>4, <1>6, <1>10, <2>1
  <2>6. outs[g] \in Seq(Nat) /\ Reports(outs[g], Ends(list, w[g]))
    BY <1>1, <2>4 DEF Completion
  <2>7. outs[n] \in Seq(Nat) /\ Reports(outs[n], Own(list, w[n], Len(list)))
    BY <1>1, <2>5 DEF Completion
  <2>8. /\ Ends(list, w[n]) = Own(list, w[n], Len(list)) \cup Ends(list, w[g])
        /\ Own(list, w[n], Len(list)) \cap Ends(list, w[g]) = {}
    BY <1>1, <2>2, WhatIsInherited
  <2>9. Reports(outs[n] \o outs[g], Ends(list, w[n]))
    <3>1. PICK S, T : S = Own(list, w[n], Len(list)) /\ T = Ends(list, w[g])
      OBVIOUS
    <3>2. Reports(outs[n], S) /\ Reports(outs[g], T) /\ S \cap T = {} /\ Ends(list, w[n]) = S \cup T
      BY <2>6, <2>7, <2>8, <3>1
    <3>3. Reports(outs[n] \o outs[g], S \cup T)
      BY <2>6, <2>7, <3>2, ReportsBoth
    <3> QED
      BY <3>2, <3>3
  <2>10. Longest(w, fails2[n], Tail(w[n])) /\ Reports(outs2[n], Ends(list, w[n]))
    BY <2>2, <2>9
  <2> QED
    BY <2>1, <2>10
<1>11. ASSUME NEW n \in DOMAIN w
       PROVE  /\ n # 0 /\ Reached(r, more, n) => Longest(w, fails2[n], Tail(w[n]))
              /\ Reached(r, more, n) => Reports(outs2[n], Ends(list, w[n]))
              /\ ~Reached(r, more, n) => Reports(outs2[n], Own(list, w[n], Len(list)))
  <2>1. CASE \E i \in DOMAIN c : c[i] = n
    <3>1. PICK b \in Bytes : rows[h][b] # 0 /\ n = rows[h][b]
      BY <1>4, <2>1
    <3> QED
      BY <1>6, <1>10, <2>1, <3>1
  <2>2. CASE \A i \in DOMAIN c : c[i] # n
    <3>1. outs2[n] = outs[n] /\ fails2[n] = fails[n]
      BY <2>2 DEF HeadCompleted
    <3>2. Reached(r, more, n) <=> Reached(q, done, n)
      BY <1>6, <2>2
    <3> QED
      BY <3>1, <3>2 DEF Completion
  <2> QED
    BY <2>1, <2>2
<1>12. /\ rows2 \in [DOMAIN w -> [Bytes -> DOMAIN w]]
       /\ outs2 \in [DOMAIN w -> Seq(Nat)] /\ fails2 \in [DOMAIN w -> DOMAIN w]
  BY DEF HeadCompleted
<1>13. Completion(w, list, rows2, outs2, fails2, r, more)
  BY <1>1, <1>5, <1>8, <1>9, <1>11, <1>12 DEF Completion
<1> QED
  BY <1>13 DEF r, more

\* The automaton's variables are in the middle of a completion.
Completing(w, done) == Completion(w, patterns, transitions, nodeOutputs, failure, queue, done)

LEMMA BeginCompletionKeeps ==
  ASSUME patterns \in Seq(Seq(Bytes)), NEW w, Inserted(w), A!BeginCompletion
  PROVE  Completing(w, {0})'
<1>1. /\ patterns \in Seq(Seq(Bytes)) /\ Trie(w, transitions) /\ A!Nodes = DOMAIN w
      /\ nodeOutputs \in [DOMAIN w -> Seq(Nat)]
  BY DEF Inserted, Trie, A!Nodes
<1>2. index - 1 = Len(patterns)
  BY DEF Inserted, A!BeginCompletion
<1>3. /\ Known(w, patterns, Len(patterns))
      /\ \A n \in DOMAIN w : Reports(nodeOutputs[n], Own(patterns, w[n], Len(patterns)))
  BY <1>2 DEF Inserted
<1>4. /\ queue' \in A!Children(transitions[0]) /\ failure' = [n \in DOMAIN w |-> 0]
      /\ UNCHANGED <<patterns, transitions, nodeOutputs>>
  BY <1>1 DEF A!BeginCompletion, A!trie
<1>5. PICK c, fails : c = queue' /\ fails = failure'
  OBVIOUS
<1>6. /\ c \in A!Children(transitions[0])
      /\ fails \in [DOMAIN w -> DOMAIN w] /\ \A n \in DOMAIN w : fails[n] = 0
  BY <1>1, <1>4, <1>5, RootEnds DEF Trie
<1>7. Completion(w, patterns, transitions, nodeOutputs, fails, c, {0})
  BY <1>1, <1>3, <1>6, CompletionStarts
<1> QED
  BY <1>4, <1>5, <1>7 DEF Completing

LEMMA CompleteNodeKeeps ==
  ASSUME NEW w, NEW done, Completing(w, done), A!CompleteNode
  PROVE  \E more : Completing(w, more)'
<1> DEFINE h == Head(queue)
           row == transitions[h]
           g == transitions[failure[h]]
           ByteOf(n) == CHOOSE b \in Bytes : row[b] = n
<1>1. queue # << >> /\ UNCHANGED patterns
  BY Zenon DEF A!CompleteNode
<1>2. /\ Words(w) /\ transitions \in [DOMAIN w -> [Bytes -> DOMAIN w]]
      /\ nodeOutputs \in [DOMAIN w -> Seq(Nat)] /\ failure \in [DOMAIN w -> DOMAIN w]
      /\ A!Nodes = DOMAIN w
  BY DEF Completing, Completion, A!Nodes
<1>3. /\ h \in DOMAIN w /\ h \notin done /\ failure[h] \in DOMAIN w
      /\ row \in [Bytes -> DOMAIN w] /\ g \in [Bytes -> DOMAIN w]
  BY <1>1, <1>2, HeadFails DEF Completing
<1>4. EdgeRow(w, h, row)
  BY <1>3 DEF Completing, Completion
<1>5. PICK c \in A!Children(row) :
        /\ transitions' = [transitions EXCEPT ![h] = [b \in Bytes |-> IF row[b] = 0 THEN g[b] ELSE row[b]]]
        /\ failure' = [n \in DOMAIN w |-> IF n \in A!Range(c) THEN g[ByteOf(n)] ELSE failure[n]]
        /\ nodeOutputs' = [n \in DOMAIN w |-> IF n \in A!Range(c)
                                              THEN nodeOutputs[n] \o nodeOutputs[g[ByteOf(n)]]
                                              ELSE nodeOutputs[n]]
        /\ queue' = Tail(queue) \o c
  <2>1. \E c \in A!Children(row) :
          /\ transitions' = [transitions EXCEPT ![h] = [b \in Bytes |-> IF row[b] = 0 THEN g[b] ELSE row[b]]]
          /\ failure' = [n \in A!Nodes |-> IF n \in A!Range(c) THEN g[ByteOf(n)] ELSE failure[n]]
          /\ nodeOutputs' = [n \in A!Nodes |-> IF n \in A!Range(c)
                                                THEN nodeOutputs[n] \o nodeOutputs[g[ByteOf(n)]]
                                                ELSE nodeOutputs[n]]
          /\ queue' = Tail(queue) \o c
    BY Zenon DEF A!CompleteNode
  <2>2. A!Nodes = DOMAIN w
    BY <1>2
  <2> QED
    BY <2>1, <2>2, Zenon
<1>6. PICK rows2, outs2, fails2 : rows2 = transitions' /\ outs2 = nodeOutputs' /\ fails2 = failure'
  OBVIOUS
<1> HIDE DEF row, g, h
<1>7. /\ IsChildren(w, h, c)
      /\ \A i \in DOMAIN c : \E b \in Bytes : row[b] # 0 /\ c[i] = row[b]
      /\ \A b \in Bytes : row[b] # 0 => \E i \in DOMAIN c : c[i] = row[b]
  <2>1. Words(w) /\ h \in DOMAIN w /\ row \in [Bytes -> DOMAIN w]
    BY <1>2, <1>3
  <2> QED
    BY <2>1, <1>4, ChildrenAreListed, Zenon
<1>8. /\ rows2 \in [DOMAIN w -> [Bytes -> DOMAIN w]]
      /\ \A b \in Bytes : rows2[h][b] = IF row[b] = 0 THEN g[b] ELSE row[b]
      /\ \A n \in DOMAIN w : n # h => rows2[n] = transitions[n]
  <2>1. PICK filled : filled = [b \in Bytes |-> IF row[b] = 0 THEN g[b] ELSE row[b]]
    OBVIOUS
  <2>2. filled \in [Bytes -> DOMAIN w] /\ \A b \in Bytes : filled[b] = IF row[b] = 0 THEN g[b] ELSE row[b]
    BY <1>3, <2>1
  <2>3. rows2 = [transitions EXCEPT ![h] = filled]
    BY <1>5, <1>6, <2>1
  <2>4. rows2 \in [DOMAIN w -> [Bytes -> DOMAIN w]] /\ rows2[h] = filled
        /\ \A n \in DOMAIN w : n # h => rows2[n] = transitions[n]
    BY <1>2, <1>3, <2>2, <2>3
  <2> QED
    BY <2>2, <2>4
<1>9. \A b \in Bytes : row[b] # 0 => ByteOf(row[b]) = b
  <2> SUFFICES ASSUME NEW b \in Bytes, row[b] # 0, NEW a \in Bytes, row[a] = row[b] PROVE a = b
    OBVIOUS
  <2>1. Append(w[h], a) = Append(w[h], b) /\ w[h] \in Seq(Bytes)
    BY <1>2, <1>3, <1>4, RootEnds DEF EdgeRow
  <2> QED
    BY <2>1, SameAppend
<1>10. \A n : n \in A!Range(c) <=> \E i \in DOMAIN c : c[i] = n
  BY DEF A!Range
<1> HIDE DEF ByteOf
<1>11. \A n \in DOMAIN w : (\A i \in DOMAIN c : c[i] # n) => outs2[n] = nodeOutputs[n] /\ fails2[n] = failure[n]
  BY <1>5, <1>6, <1>10
<1>12. ASSUME NEW b \in Bytes, row[b] # 0
       PROVE  fails2[row[b]] = g[b] /\ outs2[row[b]] = nodeOutputs[row[b]] \o nodeOutputs[g[b]]
  <2>1. PICK n \in DOMAIN w : n = row[b]
    BY <1>3
  <2>2. n \in A!Range(c) /\ ByteOf(n) = b
    BY <1>7, <1>9, <1>10, <1>12, <2>1
  <2>3. fails2[n] = g[b]
    BY <1>5, <1>6, <2>2
  <2>4. outs2[n] = nodeOutputs[n] \o nodeOutputs[g[b]]
    BY <1>5, <1>6, <2>2
  <2> QED
    BY <2>1, <2>3, <2>4
<1>13. outs2 \in [DOMAIN w -> Seq(Nat)] /\ fails2 \in [DOMAIN w -> DOMAIN w]
  <2>1. ASSUME NEW n \in DOMAIN w PROVE outs2[n] \in Seq(Nat) /\ fails2[n] \in DOMAIN w
    <3>1. CASE n \in A!Range(c)
      <4>1. PICK b \in Bytes : row[b] # 0 /\ n = row[b]
        BY <1>7, <1>10, <3>1
      <4>2. PICK m \in DOMAIN w : m = g[b]
        BY <1>3
      <4>3. fails2[n] = m /\ outs2[n] = nodeOutputs[n] \o nodeOutputs[m]
        BY <1>12, <4>1, <4>2
      <4>4. nodeOutputs[n] \in Seq(Nat) /\ nodeOutputs[m] \in Seq(Nat)
        BY <1>2
      <4>5. nodeOutputs[n] \o nodeOutputs[m] \in Seq(Nat)
        BY <4>4
      <4> QED
        BY <4>3, <4>5
    <3>2. CASE n \notin A!Range(c)
      BY <1>2, <1>10, <1>11, <3>2
    <3> QED
      BY <3>1, <3>2
  <2>2. outs2 = [n \in DOMAIN w |-> outs2[n]]
    BY <1>5, <1>6
  <2>3. fails2 = [n \in DOMAIN w |-> fails2[n]]
    BY <1>5, <1>6
  <2> QED
    BY <2>1, <2>2, <2>3
<1>14. PICK f : f = failure[h]
  OBVIOUS
<1>15. HeadCompleted(w, h, f, c, transitions, nodeOutputs, failure, rows2, outs2, fails2)
  <2>1. row = transitions[h] /\ g = transitions[f]
    BY <1>14 DEF row, g
  <2> QED
    BY <1>8, <1>11, <1>12, <1>13, <2>1 DEF HeadCompleted
<1>16. h = Head(queue) /\ c \in A!Children(transitions[h])
       /\ Completion(w, patterns, transitions, nodeOutputs, failure, queue, done)
  BY DEF h, row, Completing
<1>17. Completion(w, patterns, rows2, outs2, fails2, Tail(queue) \o c, done \cup {h})
  BY <1>1, <1>14, <1>15, <1>16, NodeIsCompleted
<1>18. PICK more : more = done \cup {h}
  OBVIOUS
<1>19. Completing(w, more)'
  BY <1>1, <1>5, <1>6, <1>17, <1>18 DEF Completing
<1> QED
  BY <1>19

\* Every row leads to the longest word, and every node reports what its word ends with.
Exact(w) ==
  /\ Words(w) /\ Known(w, patterns, Len(patterns))
  /\ transitions \in [DOMAIN w -> [Bytes -> DOMAIN w]]
  /\ nodeOutputs \in [DOMAIN w -> Seq(Nat)]
  /\ \A n \in DOMAIN w : GotoRow(w, n, transitions[n]) /\ Reports(nodeOutputs[n], Ends(patterns, w[n]))

LEMMA CompletionEnds ==
  ASSUME NEW w, NEW done, Completing(w, done), queue = << >>
  PROVE  Exact(w)
<1>1. Completion(w, patterns, transitions, nodeOutputs, failure, << >>, done)
  BY DEF Completing
<1>2. Words(w) /\ BreadthFirst(w, << >>, done)
  BY <1>1 DEF Completion
<1>3. done = DOMAIN w
  BY <1>2, EmptyQueueIsDone
<1> QED
  BY <1>1, <1>3 DEF Completion, Exact, Reached

-----------------------------------------------------------------------------
(* The numbers of the states and the layout of what they report.           *)

\* The ranks of a set of natural numbers grow by one at each of its members.
RanksOf(S, below, total) ==
  /\ total = A!Cardinality(S) /\ \A n \in Nat : A!Rank(S, n) = below[n]
  /\ below[0] = 0
  /\ \A n \in Nat : below[n + 1] = IF n \in S THEN below[n] + 1 ELSE below[n]
  /\ \A m, n \in Nat : m \in S /\ m < n => below[m] < below[n]
  /\ \A n \in S : below[n] < total

LEMMA Ranks ==
  ASSUME NEW S, S \subseteq Nat, IsFiniteSet(S)
  PROVE  \E below \in [Nat -> Nat], total \in Nat : RanksOf(S, below, total)
<1> DEFINE Before(n) == {m \in S : m < n}
<1>1. \A n : A!Rank(S, n) = Cardinality(Before(n))
  BY SameCardinality DEF A!Rank
<1>2. A!Cardinality(S) = Cardinality(S) /\ Cardinality(S) \in Nat
  BY SameCardinality, FS_CardinalityType
<1>3. \A n : Before(n) \subseteq S /\ IsFiniteSet(Before(n)) /\ Cardinality(Before(n)) \in Nat
  BY FS_Subset, FS_CardinalityType
<1>4. Cardinality(Before(0)) = 0
  <2>1. \A m \in S : ~(m < 0)
    OBVIOUS
  <2>2. Before(0) = {}
    BY <2>1
  <2> QED
    BY <2>2, FS_EmptySet
<1>5. ASSUME NEW n \in Nat
      PROVE  Before(n + 1) = IF n \in S THEN Before(n) \cup {n} ELSE Before(n)
  <2>1. \A m \in S : m < n + 1 <=> m < n \/ m = n
    OBVIOUS
  <2> QED
    BY <2>1
<1>6. \A n \in Nat : n \notin Before(n)
  OBVIOUS
<1>7. ASSUME NEW m \in S, NEW n \in Nat, m < n PROVE Before(m) \cup {m} \subseteq Before(n)
  <2>1. \A x \in S : x < m => x < n
    BY <1>7
  <2> QED
    BY <1>7, <2>1
<1>8. \A m \in S : Before(m) \cup {m} \subseteq S
  OBVIOUS
<1> HIDE DEF Before
<1>9. PICK below, total, more :
        /\ below = [n \in Nat |-> Cardinality(Before(n))] /\ total = Cardinality(S)
        /\ more = [n \in Nat |-> Cardinality(Before(n) \cup {n})]
  OBVIOUS
<1>10. below \in [Nat -> Nat] /\ total \in Nat /\ \A n \in Nat : below[n] = Cardinality(Before(n))
  BY <1>2, <1>3, <1>9
<1>11. \A n \in Nat : Cardinality(Before(n) \cup {n}) = below[n] + 1
  <2>1. \A n \in Nat : Cardinality(Before(n) \cup {n}) = Cardinality(Before(n)) + 1
    BY <1>3, <1>6, FS_AddElement
  <2> QED
    BY <1>10, <2>1
<1>12. ASSUME NEW m \in Nat, NEW n \in Nat, m \in S, m < n PROVE below[m] < below[n]
  <2>1. Cardinality(Before(m) \cup {m}) <= Cardinality(Before(n))
    BY <1>3, <1>7, <1>12, FS_Subset
  <2>2. below[m] + 1 <= below[n]
    BY <1>10, <1>11, <2>1
  <2>3. below[m] \in Nat /\ below[n] \in Nat
    BY <1>10
  <2> QED
    BY <2>2, <2>3
<1>13. ASSUME NEW n \in S PROVE below[n] < total
  <2>1. Cardinality(Before(n) \cup {n}) <= Cardinality(S) /\ n \in Nat
    BY <1>8, FS_Subset
  <2>2. below[n] + 1 <= total
    BY <1>9, <1>11, <2>1
  <2>3. below[n] \in Nat
    BY <1>10, <2>1
  <2> QED
    BY <1>10, <2>2, <2>3
<1>14. ASSUME NEW n \in Nat PROVE below[n + 1] = IF n \in S THEN below[n] + 1 ELSE below[n]
  <2>1. below[n + 1] = Cardinality(Before(n + 1))
    BY <1>10
  <2> QED
    BY <1>5, <1>10, <1>11, <2>1
<1>15. RanksOf(S, below, total)
  BY <1>1, <1>2, <1>4, <1>9, <1>10, <1>12, <1>13, <1>14 DEF RanksOf
<1> QED
  BY <1>10, <1>15

\* num numbers the nodes, those that report nothing first; rank counts the nodes
\* that report something before one.
Numbering(w, num, rank) ==
  /\ num \in [DOMAIN w -> Nat] /\ rank \in [Nat -> Nat] /\ firstReporting \in Nat
  /\ \A m, n \in DOMAIN w : num[m] = num[n] => m = n
  /\ num[0] = 0
  /\ \A n \in DOMAIN w : num[n] < firstReporting <=> nodeOutputs[n] = << >>
  /\ \A n \in DOMAIN w : nodeOutputs[n] # << >> => num[n] = firstReporting + rank[n]
  /\ \A n \in DOMAIN w, b \in Bytes : table[num[n]][b] = num[transitions[n][b]]
  /\ rank[0] = 0
  /\ \A n \in DOMAIN w : rank[n + 1] = IF nodeOutputs[n] = << >> THEN rank[n] ELSE rank[n] + 1
  /\ \A m, n \in DOMAIN w : nodeOutputs[m] # << >> /\ m < n => rank[m] < rank[n]

\* The slots of the nodes before this one hold what they report.
LaidOut(w, rank, limit) ==
  /\ limit \in Nat /\ limit <= Cardinality(DOMAIN w)
  /\ begins \in Seq(Nat) /\ flat \in Seq(Nat)
  /\ Len(begins) = rank[limit] + 1 /\ begins[rank[limit] + 1] = Len(flat)
  /\ \A n \in DOMAIN w : n < limit /\ nodeOutputs[n] # << >> =>
       /\ rank[n] + 2 <= Len(begins) /\ begins[rank[n] + 1] <= begins[rank[n] + 2]
       /\ begins[rank[n] + 2] <= Len(flat)
       /\ SubSeq(flat, begins[rank[n] + 1] + 1, begins[rank[n] + 2]) = nodeOutputs[n]

\* Num numbers the nodes as Renumbered does, and rank as Rank does.
LEMMA RenumberedIsNumbering ==
  ASSUME patterns \in Seq(Seq(Bytes)), NEW w, Exact(w)
  PROVE  \E num \in [DOMAIN w -> Nat], rank \in [Nat -> Nat], silent \in Nat :
           /\ silent = A!Cardinality(A!Silent) /\ \A n \in DOMAIN w : A!Renumbered(n) = num[n]
           /\ \A m, n \in DOMAIN w : num[m] = num[n] => m = n
           /\ num[0] = 0
           /\ \A n \in DOMAIN w : num[n] < silent <=> nodeOutputs[n] = << >>
           /\ \A n \in DOMAIN w : nodeOutputs[n] # << >> => num[n] = silent + rank[n]
           /\ rank[0] = 0
           /\ \A n \in DOMAIN w : rank[n + 1] = IF nodeOutputs[n] = << >> THEN rank[n] ELSE rank[n] + 1
           /\ \A m, n \in DOMAIN w : nodeOutputs[m] # << >> /\ m < n => rank[m] < rank[n]
<1> DEFINE S == A!Silent
           R == A!Reporting
<1>1. Words(w) /\ A!Nodes = DOMAIN w
  BY DEF Exact, A!Nodes
<1>2. PICK k \in Nat \ {0} : DOMAIN w = 0 .. k - 1
  BY <1>1 DEF Words
<1>3. DOMAIN w \subseteq Nat /\ IsFiniteSet(DOMAIN w)
  BY <1>2, FS_Interval
<1>4. /\ S \subseteq DOMAIN w /\ R \subseteq DOMAIN w
      /\ \A n \in DOMAIN w : (n \in S <=> nodeOutputs[n] = << >>) /\ (n \in R <=> nodeOutputs[n] # << >>)
  BY <1>1 DEF A!Silent, A!Reporting
<1>5. S \subseteq Nat /\ IsFiniteSet(S) /\ R \subseteq Nat /\ IsFiniteSet(R)
  BY <1>3, <1>4, FS_Subset
<1> HIDE DEF S, R
<1>6. PICK before \in [Nat -> Nat], silent \in Nat : RanksOf(S, before, silent)
  BY <1>5, Ranks
<1>7. PICK rank \in [Nat -> Nat], total \in Nat : RanksOf(R, rank, total)
  BY <1>5, Ranks
<1>8. \A n \in DOMAIN w : n \in Nat /\ (n \in S \/ n \in R) /\ ~(n \in S /\ n \in R)
  BY <1>3, <1>4
<1>9. PICK num : num = [n \in DOMAIN w |-> IF n \in S THEN before[n] ELSE silent + rank[n]]
  OBVIOUS
<1>10. /\ num \in [DOMAIN w -> Nat]
       /\ \A n \in DOMAIN w : num[n] = IF n \in S THEN before[n] ELSE silent + rank[n]
  <2>1. ASSUME NEW n \in DOMAIN w PROVE (IF n \in S THEN before[n] ELSE silent + rank[n]) \in Nat
    <3>1. before[n] \in Nat /\ rank[n] \in Nat
      BY <1>8
    <3>2. PICK x \in Nat : x = rank[n]
      BY <3>1
    <3>3. silent + x \in Nat
      OBVIOUS
    <3> QED
      BY <3>1, <3>2, <3>3, Zenon
  <2> QED
    BY <1>9, <2>1, Zenon
<1>11. silent = A!Cardinality(A!Silent) /\ \A n \in DOMAIN w : A!Renumbered(n) = num[n]
  <2>1. \A n : A!Renumbered(n) = IF n \in S THEN A!Rank(S, n) ELSE A!Cardinality(S) + A!Rank(R, n)
    BY DEF A!Renumbered, S, R
  <2> QED
    BY <1>6, <1>7, <1>8, <1>10, <2>1 DEF RanksOf, S
<1>12. \A n \in DOMAIN w : before[n] \in Nat /\ rank[n] \in Nat /\ (n \in S => before[n] < silent)
  BY <1>6, <1>8 DEF RanksOf
<1>13. 0 \in S /\ 0 \in DOMAIN w
  <2>1. 0 \in DOMAIN w /\ w[0] = << >>
    BY <1>1, RootEnds
  <2>2. Ends(patterns, w[0]) = {}
    BY <2>1, RootReportsNothing
  <2>3. nodeOutputs[0] \in Seq(Nat) /\ Reports(nodeOutputs[0], {})
    BY <2>1, <2>2 DEF Exact
  <2> QED
    BY <1>4, <2>1, <2>3, ReportsEmpty
<1>14. num[0] = 0 /\ rank[0] = 0
  BY <1>6, <1>7, <1>10, <1>13 DEF RanksOf
<1>15. ASSUME NEW n \in DOMAIN w PROVE num[n] < silent <=> n \in S
  <2>1. before[n] \in Nat /\ rank[n] \in Nat /\ (n \in S => before[n] < silent)
    BY <1>12
  <2>2. PICK x \in Nat : x = rank[n]
    BY <2>1
  <2>5. ~(silent + x < silent)
    OBVIOUS
  <2>3. CASE n \in S
    BY <1>10, <2>1, <2>3
  <2>4. CASE n \notin S
    <3>1. num[n] = silent + rank[n]
      BY <1>10, <2>4
    <3>2. ~(num[n] < silent)
      BY <2>2, <2>5, <3>1, Zenon
    <3> QED
      BY <2>4, <3>2
  <2> QED
    BY <2>3, <2>4
<1>16. ASSUME NEW m \in DOMAIN w, NEW n \in DOMAIN w, num[m] = num[n] PROVE m = n
  <2>1. (m \in S <=> n \in S) /\ m \in Nat /\ n \in Nat
    BY <1>8, <1>15, <1>16
  <2>2. CASE m \in S
    <3>1. before[m] = before[n] /\ before[m] \in Nat
      BY <1>10, <1>12, <1>16, <2>1, <2>2
    <3>2. (m < n => before[m] < before[n]) /\ (n < m => before[n] < before[m])
      BY <1>6, <2>1, <2>2 DEF RanksOf
    <3>3. PICK x \in Nat : x = before[m] /\ x = before[n]
      BY <3>1
    <3>4. ~(x < x)
      OBVIOUS
    <3>5. ~(m < n) /\ ~(n < m)
      BY <3>2, <3>3, <3>4, Zenon
    <3> QED
      BY <2>1, <3>5
  <2>3. CASE m \notin S
    <3>1. rank[m] = rank[n] /\ rank[m] \in Nat /\ m \in R /\ n \in R
      <4>1. PICK x \in Nat, y \in Nat : x = rank[m] /\ y = rank[n]
        BY <1>12
      <4>2. silent + x = silent + y
        BY <1>10, <1>16, <2>1, <2>3, <4>1, Zenon
      <4>3. x = y
        BY <4>2
      <4> QED
        BY <1>8, <2>1, <2>3, <4>1, <4>3, Zenon
    <3>2. (m < n => rank[m] < rank[n]) /\ (n < m => rank[n] < rank[m])
      BY <1>7, <2>1, <3>1 DEF RanksOf
    <3>3. PICK x \in Nat : x = rank[m] /\ x = rank[n]
      BY <3>1
    <3>4. ~(x < x)
      OBVIOUS
    <3>5. ~(m < n) /\ ~(n < m)
      BY <3>2, <3>3, <3>4, Zenon
    <3> QED
      BY <2>1, <3>5
  <2> QED
    BY <2>2, <2>3
<1>17. \A n \in DOMAIN w : rank[n + 1] = IF nodeOutputs[n] = << >> THEN rank[n] ELSE rank[n] + 1
  BY <1>4, <1>7, <1>8 DEF RanksOf
<1>18. \A m, n \in DOMAIN w : nodeOutputs[m] # << >> /\ m < n => rank[m] < rank[n]
  BY <1>4, <1>7, <1>8 DEF RanksOf
<1>19. /\ \A n \in DOMAIN w : num[n] < silent <=> nodeOutputs[n] = << >>
       /\ \A n \in DOMAIN w : nodeOutputs[n] # << >> => num[n] = silent + rank[n]
  BY <1>4, <1>10, <1>15
<1> QED
  BY <1>10, <1>11, <1>14, <1>16, <1>17, <1>18, <1>19, Zenon

LEMMA NumberStatesKeeps ==
  ASSUME patterns \in Seq(Seq(Bytes)), NEW w, Exact(w), A!NumberStates
  PROVE  /\ Exact(w)'
         /\ \E num, rank : Numbering(w, num, rank)' /\ LaidOut(w, rank, node)'
<1>1. /\ Words(w) /\ A!Nodes = DOMAIN w /\ transitions \in [DOMAIN w -> [Bytes -> DOMAIN w]]
  BY DEF Exact, A!Nodes
<1>2. /\ UNCHANGED <<patterns, transitions, nodeOutputs>> /\ node' = 0
      /\ firstReporting' = A!Cardinality(A!Silent) /\ begins' = <<0>> /\ flat' = << >>
  BY Zenon DEF A!NumberStates, A!trie
<1>3. PICK num \in [DOMAIN w -> Nat], rank \in [Nat -> Nat], silent \in Nat :
        /\ silent = A!Cardinality(A!Silent) /\ \A n \in DOMAIN w : A!Renumbered(n) = num[n]
        /\ \A m, n \in DOMAIN w : num[m] = num[n] => m = n
        /\ num[0] = 0
        /\ \A n \in DOMAIN w : num[n] < silent <=> nodeOutputs[n] = << >>
        /\ \A n \in DOMAIN w : nodeOutputs[n] # << >> => num[n] = silent + rank[n]
        /\ rank[0] = 0
        /\ \A n \in DOMAIN w : rank[n + 1] = IF nodeOutputs[n] = << >> THEN rank[n] ELSE rank[n] + 1
        /\ \A m, n \in DOMAIN w : nodeOutputs[m] # << >> /\ m < n => rank[m] < rank[n]
  BY RenumberedIsNumbering
<1>4. ASSUME NEW n \in DOMAIN w, NEW b \in Bytes
      PROVE  table'[num[n]][b] = num[transitions[n][b]]
  <2>1. table' = [s \in {A!Renumbered(m) : m \in A!Nodes} |->
                    [a \in Bytes |-> A!Renumbered(transitions[CHOOSE m \in A!Nodes : A!Renumbered(m) = s][a])]]
    BY Zenon DEF A!NumberStates
  <2>2. num[n] \in {A!Renumbered(m) : m \in A!Nodes}
    BY <1>1, <1>3
  <2>3. (CHOOSE m \in A!Nodes : A!Renumbered(m) = num[n]) = n
    BY <1>1, <1>3
  <2>4. table'[num[n]] = [a \in Bytes |->
          A!Renumbered(transitions[CHOOSE m \in A!Nodes : A!Renumbered(m) = num[n]][a])]
    BY <2>1, <2>2, Zenon
  <2>5. table'[num[n]] = [a \in Bytes |-> A!Renumbered(transitions[n][a])]
    BY <2>3, <2>4, Zenon
  <2>6. table'[num[n]][b] = A!Renumbered(transitions[n][b])
    BY <2>5, Zenon
  <2>7. transitions[n][b] \in DOMAIN w
    BY <1>1
  <2> QED
    BY <1>3, <2>6, <2>7, Zenon
<1>5. Exact(w)'
  BY <1>2 DEF Exact
<1>6. Numbering(w, num, rank)'
  BY <1>2, <1>3, <1>4 DEF Numbering
<1>7. LaidOut(w, rank, node)'
  <2>1. /\ begins' \in Seq(Nat) /\ Len(begins') = 1 /\ begins'[1] = 0
        /\ flat' \in Seq(Nat) /\ Len(flat') = 0
    BY <1>2
  <2>2. \A n \in DOMAIN w : ~(n < 0)
    BY <1>1 DEF Words
  <2>3. Cardinality(DOMAIN w) \in Nat
    BY <1>1, NodeIsFresh
  <2>4. rank[0] = 0
    BY <1>3
  <2> QED
    BY <1>2, <2>1, <2>2, <2>3, <2>4 DEF LaidOut
<1> QED
  BY <1>5, <1>6, <1>7

LEMMA Part ==
  ASSUME NEW s \in Seq(Nat), NEW i \in Nat, NEW d \in Nat, i + d <= Len(s)
  PROVE  /\ SubSeq(s, i + 1, i + d) \in Seq(Nat) /\ Len(SubSeq(s, i + 1, i + d)) = d
         /\ \A x \in 1 .. d : SubSeq(s, i + 1, i + d)[x] = s[i + x]
<1>1. SubSeq(s, i + 1, i + d) \in Seq(Nat)
  OBVIOUS
<1>2. Len(SubSeq(s, i + 1, i + d)) = d
  OBVIOUS
<1>3. ASSUME NEW x \in 1 .. d PROVE SubSeq(s, i + 1, i + d)[x] = s[i + x]
  <2>1. /\ i + 1 \in Int /\ i + d \in Int /\ (i + 1) + x - 1 = i + x
        /\ x \in 1 .. (i + d) - (i + 1) + 1
    OBVIOUS
  <2>2. \A y \in (i + 1) .. (i + d) : s[y] \in Nat
    OBVIOUS
  <2>3. \A y \in 1 .. (i + d) - (i + 1) + 1 : SubSeq(s, i + 1, i + d)[y] = s[(i + 1) + y - 1]
    BY <2>1, <2>2, SubSeqProperties
  <2>4. SubSeq(s, i + 1, i + d)[x] = s[(i + 1) + x - 1]
    BY <2>1, <2>3
  <2> QED
    BY <2>1, <2>4
<1> QED
  BY <1>1, <1>2, <1>3

LEMMA SameParts ==
  ASSUME NEW S, NEW s \in Seq(S), NEW t \in Seq(S), NEW d \in Nat, Len(s) = d, Len(t) = d,
         \A i \in 1 .. d : s[i] = t[i]
  PROVE  s = t
OBVIOUS

\* Sequences put together keep the parts of the first and end with the second.
LEMMA PartsStay ==
  ASSUME NEW s \in Seq(Nat), NEW t \in Seq(Nat)
  PROVE  /\ s \o t \in Seq(Nat) /\ Len(s \o t) = Len(s) + Len(t)
         /\ \A i, d \in Nat : i + d <= Len(s) => SubSeq(s \o t, i + 1, i + d) = SubSeq(s, i + 1, i + d)
         /\ SubSeq(s \o t, Len(s) + 1, Len(s) + Len(t)) = t
<1> DEFINE r == s \o t
<1>1. PICK a \in Nat, l \in Nat : a = Len(s) /\ l = Len(t)
  OBVIOUS
<1>2. /\ r \in Seq(Nat) /\ Len(r) = a + l
      /\ \A i \in 1 .. a : r[i] = s[i]
      /\ \A i \in 1 .. l : r[a + i] = t[i]
  BY <1>1
<1> HIDE DEF r
<1>3. ASSUME NEW i \in Nat, NEW d \in Nat, i + d <= a
      PROVE  SubSeq(r, i + 1, i + d) = SubSeq(s, i + 1, i + d)
  <2>1. i + d <= a + l
    BY <1>3
  <2>2. /\ SubSeq(r, i + 1, i + d) \in Seq(Nat) /\ Len(SubSeq(r, i + 1, i + d)) = d
        /\ \A x \in 1 .. d : SubSeq(r, i + 1, i + d)[x] = r[i + x]
    BY <1>2, <2>1, Part
  <2>3. /\ SubSeq(s, i + 1, i + d) \in Seq(Nat) /\ Len(SubSeq(s, i + 1, i + d)) = d
        /\ \A x \in 1 .. d : SubSeq(s, i + 1, i + d)[x] = s[i + x]
    BY <1>1, <1>3, Part
  <2>4. \A x \in 1 .. d : i + x \in 1 .. a
    BY <1>3
  <2>5. \A x \in 1 .. d : SubSeq(r, i + 1, i + d)[x] = SubSeq(s, i + 1, i + d)[x]
    BY <1>2, <2>2, <2>3, <2>4
  <2> QED
    BY <2>2, <2>3, <2>5, SameParts
<1>4. SubSeq(r, a + 1, a + l) = t
  <2>1. /\ SubSeq(r, a + 1, a + l) \in Seq(Nat) /\ Len(SubSeq(r, a + 1, a + l)) = l
        /\ \A x \in 1 .. l : SubSeq(r, a + 1, a + l)[x] = r[a + x]
    BY <1>2, Part
  <2>2. \A x \in 1 .. l : SubSeq(r, a + 1, a + l)[x] = t[x]
    BY <1>2, <2>1
  <2> QED
    BY <1>1, <2>1, <2>2, SameParts
<1> QED
  BY <1>1, <1>2, <1>3, <1>4 DEF r

\* The next slot takes what its node reports, and the slots before it stay.
LEMMA LayOutNodeKeeps ==
  ASSUME NEW w, Exact(w), NEW num, NEW rank, Numbering(w, num, rank), LaidOut(w, rank, node),
         A!LayOutNode
  PROVE  /\ Exact(w)' /\ Numbering(w, num, rank)' /\ LaidOut(w, rank, node)'
<1>1. /\ UNCHANGED <<patterns, transitions, nodeOutputs, table, firstReporting>>
      /\ node \in A!Nodes /\ node' = node + 1
  BY Zenon DEF A!LayOutNode, A!trie, A!numbered
<1>2. Words(w) /\ A!Nodes = DOMAIN w /\ \A n \in DOMAIN w : nodeOutputs[n] \in Seq(Nat)
  BY DEF Exact, A!Nodes
<1>3. Exact(w)' /\ Numbering(w, num, rank)'
  BY <1>1 DEF Exact, Numbering
<1>4. PICK k \in Nat \ {0} : DOMAIN w = 0 .. k - 1 /\ Cardinality(DOMAIN w) = k
  BY <1>2, NodeIsFresh
<1>5. node \in DOMAIN w /\ node \in Nat /\ node + 1 \in Nat /\ node + 1 <= k
  BY <1>1, <1>2, <1>4
<1>6. PICK j \in Nat : j = node /\ j + 1 = node'
  BY <1>1, <1>5
<1>7. /\ rank \in [Nat -> Nat]
      /\ rank[j + 1] = IF nodeOutputs[j] = << >> THEN rank[j] ELSE rank[j] + 1
      /\ \A n \in DOMAIN w : nodeOutputs[n] # << >> /\ n < j => rank[n] < rank[j]
  BY <1>5, <1>6 DEF Numbering
<1>8. /\ begins \in Seq(Nat) /\ flat \in Seq(Nat)
      /\ Len(begins) = rank[j] + 1 /\ begins[rank[j] + 1] = Len(flat)
      /\ \A n \in DOMAIN w : n < j /\ nodeOutputs[n] # << >> =>
           /\ rank[n] + 2 <= Len(begins) /\ begins[rank[n] + 1] <= begins[rank[n] + 2]
           /\ begins[rank[n] + 2] <= Len(flat)
           /\ SubSeq(flat, begins[rank[n] + 1] + 1, begins[rank[n] + 2]) = nodeOutputs[n]
  BY <1>6 DEF LaidOut
<1>9. \A n \in DOMAIN w : n \in Nat /\ rank[n] \in Nat /\ (n < j + 1 <=> n < j \/ n = j)
  <2>1. \A n \in DOMAIN w : n \in Nat
    BY <1>4
  <2>2. \A n \in Nat : rank[n] \in Nat /\ (n < j + 1 <=> n < j \/ n = j)
    <3>1. rank \in [Nat -> Nat]
      BY <1>7
    <3>2. \A n \in Nat : n < j + 1 <=> n < j \/ n = j
      OBVIOUS
    <3> QED
      BY <3>1, <3>2
  <2> QED
    BY <2>1, <2>2, Zenon
<1>10. CASE nodeOutputs[j] = << >>
  <2>1. node \in A!Silent
    BY <1>5, <1>2, <1>6, <1>10 DEF A!Silent
  <2>2. UNCHANGED <<begins, flat>>
    BY <2>1, Zenon DEF A!LayOutNode, A!laidOut
  <2>3. rank[j + 1] = rank[j]
    BY <1>7, <1>10
  <2>4. \A n \in DOMAIN w : n < j + 1 /\ nodeOutputs[n] # << >> => n < j
    BY <1>9, <1>10
  <2>5. LaidOut(w, rank, j + 1)'
    BY <1>1, <1>4, <1>5, <1>6, <1>8, <2>2, <2>3, <2>4 DEF LaidOut
  <2> QED
    BY <1>3, <1>6, <2>5
<1>11. CASE nodeOutputs[j] # << >>
  <2>1. node \notin A!Silent
    BY <1>5, <1>6, <1>11 DEF A!Silent
  <2>2. begins' = Append(begins, Len(flat) + Len(nodeOutputs[node])) /\ flat' = flat \o nodeOutputs[node]
    BY <2>1, Zenon DEF A!LayOutNode
  <2>3. PICK r \in Nat, f \in Nat, l \in Nat :
          r = rank[j] /\ f = Len(flat) /\ l = Len(nodeOutputs[j]) /\ nodeOutputs[j] \in Seq(Nat)
    <3>1. nodeOutputs[j] \in Seq(Nat) /\ flat \in Seq(Nat) /\ rank[j] \in Nat
      BY <1>2, <1>5, <1>6, <1>8, <1>9
    <3>2. Len(nodeOutputs[j]) \in Nat /\ Len(flat) \in Nat
      BY <3>1
    <3> QED
      BY <3>1, <3>2, Zenon
  <2>4. /\ begins' \in Seq(Nat) /\ Len(begins') = r + 2 /\ begins'[r + 2] = f + l
        /\ \A x \in 1 .. r + 1 : begins'[x] = begins[x]
    <3>1. begins' = Append(begins, f + l) /\ Len(begins) = r + 1 /\ f + l \in Nat
      BY <1>6, <1>8, <2>2, <2>3
    <3> QED
      BY <1>8, <3>1
  <2>5. /\ flat' \in Seq(Nat) /\ Len(flat') = f + l
        /\ \A x, d \in Nat : x + d <= f => SubSeq(flat', x + 1, x + d) = SubSeq(flat, x + 1, x + d)
        /\ SubSeq(flat', f + 1, f + l) = nodeOutputs[j]
    <3>1. flat' = flat \o nodeOutputs[j]
      BY <1>6, <2>2
    <3>2. flat \in Seq(Nat) /\ nodeOutputs[j] \in Seq(Nat)
      BY <1>8, <2>3
    <3> QED
      BY <2>3, <3>1, <3>2, PartsStay
  <2>6. rank[j + 1] = r + 1
    BY <1>7, <1>11, <2>3
  <2>7. ASSUME NEW n \in DOMAIN w, n < j + 1, nodeOutputs[n] # << >>
        PROVE  /\ rank[n] + 2 <= Len(begins') /\ begins'[rank[n] + 1] <= begins'[rank[n] + 2]
               /\ begins'[rank[n] + 2] <= Len(flat')
               /\ SubSeq(flat', begins'[rank[n] + 1] + 1, begins'[rank[n] + 2]) = nodeOutputs[n]
    <3>1. CASE n = j
      <4>1. rank[n] = r /\ begins[r + 1] = f
        BY <1>8, <2>3, <3>1, Zenon
      <4>2. f <= f + l /\ r + 2 <= r + 2 /\ f + l <= f + l /\ r + 1 \in 1 .. r + 1
        OBVIOUS
      <4>3. begins'[r + 1] = f
        BY <2>4, <4>1, <4>2, Zenon
      <4> QED
        BY <2>4, <2>5, <3>1, <4>1, <4>2, <4>3, Zenon
    <3>2. CASE n < j
      <4>1. PICK q \in Nat : q = rank[n] /\ q < r
        BY <1>7, <1>9, <2>3, <2>7, <3>2
      <4>2. q + 1 \in 1 .. r + 1 /\ q + 2 \in 1 .. r + 1 /\ q + 2 <= r + 2
        BY <4>1
      <4>3. begins'[q + 1] = begins[q + 1] /\ begins'[q + 2] = begins[q + 2]
        BY <2>4, <4>2
      <4>4. /\ begins[q + 1] <= begins[q + 2] /\ begins[q + 2] <= f
            /\ SubSeq(flat, begins[q + 1] + 1, begins[q + 2]) = nodeOutputs[n]
        BY <1>8, <2>3, <2>7, <3>2, <4>1
      <4>5. begins[q + 1] \in Nat /\ begins[q + 2] \in Nat
        <5>1. Len(begins) = r + 1 /\ begins \in Seq(Nat)
          BY <1>8, <2>3
        <5> QED
          BY <4>2, <5>1
      <4>6. PICK x \in Nat, y \in Nat : x = begins[q + 1] /\ y = begins[q + 2]
        BY <4>5
      <4>7. PICK d \in Nat : x + d = y
        <5>1. x <= y
          BY <4>4, <4>6, Zenon
        <5>2. y - x \in Nat /\ x + (y - x) = y
          BY <5>1
        <5> QED
          BY <5>2
      <4>8. SubSeq(flat', x + 1, y) = SubSeq(flat, x + 1, y)
        <5>1. x + d <= f
          BY <4>4, <4>6, <4>7, Zenon
        <5> QED
          BY <2>5, <4>7, <5>1, Zenon
      <4>9. y <= f + l
        <5>1. y <= f
          BY <4>4, <4>6, Zenon
        <5> QED
          BY <5>1
      <4> QED
        BY <2>4, <2>5, <4>1, <4>2, <4>3, <4>4, <4>6, <4>8, <4>9
    <3> QED
      BY <1>9, <2>7, <3>1, <3>2
  <2>8. Len(begins') = rank[j + 1] + 1 /\ begins'[rank[j + 1] + 1] = Len(flat')
    <3>1. (r + 1) + 1 = r + 2
      OBVIOUS
    <3> QED
      BY <2>4, <2>5, <2>6, <3>1
  <2>9. LaidOut(w, rank, j + 1)'
    BY <1>1, <1>4, <1>5, <1>6, <2>4, <2>5, <2>7, <2>8 DEF LaidOut
  <2> QED
    BY <1>3, <1>6, <2>9
<1> QED
  BY <1>10, <1>11

-----------------------------------------------------------------------------
(* The walk, and what it reports.                                          *)

\* Every node is laid out.
AllLaidOut(w, num, rank) ==
  Exact(w) /\ Numbering(w, num, rank) /\ LaidOut(w, rank, Cardinality(DOMAIN w))

\* The walk is at the longest word that ends what it read.
At(w, num) == consumed \in Seq(Bytes) /\ \E n \in DOMAIN w : state = num[n] /\ Longest(w, n, consumed)

LEMMA LayoutEnds ==
  ASSUME NEW w, Words(w), NEW rank, LaidOut(w, rank, node), node \notin DOMAIN w
  PROVE  LaidOut(w, rank, Cardinality(DOMAIN w))
<1>1. PICK k \in Nat \ {0} : DOMAIN w = 0 .. k - 1 /\ Cardinality(DOMAIN w) = k
  BY NodeIsFresh
<1>2. node \in Nat /\ node <= k
  BY <1>1 DEF LaidOut
<1>3. node = k
  BY <1>1, <1>2
<1> QED
  BY <1>1, <1>3

LEMMA WalkByteKeeps ==
  ASSUME NEW w, NEW num, NEW rank, AllLaidOut(w, num, rank), At(w, num), A!WalkByte
  PROVE  AllLaidOut(w, num, rank)' /\ At(w, num)'
<1>1. UNCHANGED <<patterns, transitions, nodeOutputs, table, firstReporting, begins, flat>>
  BY Zenon DEF A!WalkByte, A!trie, A!numbered, A!laidOut
<1>2. AllLaidOut(w, num, rank)'
  BY <1>1 DEF AllLaidOut, Exact, Numbering, LaidOut
<1>3. Words(w) /\ transitions \in [DOMAIN w -> [Bytes -> DOMAIN w]]
      /\ \A n \in DOMAIN w : GotoRow(w, n, transitions[n])
  BY DEF AllLaidOut, Exact
<1>4. PICK n \in DOMAIN w : state = num[n] /\ Longest(w, n, consumed) /\ consumed \in Seq(Bytes)
  BY DEF At
<1>5. PICK b \in Bytes : state' = table[state][b] /\ consumed' = Append(consumed, b)
  BY Zenon DEF A!WalkByte
<1>6. PICK m \in DOMAIN w : m = transitions[n][b]
  BY <1>3
<1>7. state' = num[m]
  BY <1>4, <1>5, <1>6 DEF AllLaidOut, Numbering
<1>8. Longest(w, m, Append(w[n], b))
  BY <1>3, <1>6 DEF GotoRow
<1>9. PICK t \in Seq(Bytes) : t = consumed
  BY <1>4
<1>10. Longest(w, n, t)
  BY <1>4, <1>9
<1>11. Longest(w, m, Append(t, b)) /\ Append(t, b) \in Seq(Bytes)
  BY <1>3, <1>8, <1>10, LongestAppend
<1>12. At(w, num)'
  BY <1>5, <1>7, <1>9, <1>11 DEF At
<1> QED
  BY <1>2, <1>12

\* What is collected is what the node reports.
LEMMA CollectedIsReported ==
  ASSUME NEW w, NEW num, NEW rank, AllLaidOut(w, num, rank), NEW n \in DOMAIN w, state = num[n]
  PROVE  A!Collected = nodeOutputs[n]
<1>1. PICK k \in Nat \ {0} : DOMAIN w = 0 .. k - 1 /\ Cardinality(DOMAIN w) = k
  BY NodeIsFresh DEF AllLaidOut, Exact
<1>2. n \in Nat /\ n < k /\ num[n] \in Nat /\ firstReporting \in Nat /\ rank[n] \in Nat
  <2>1. n \in Nat /\ n < k
    BY <1>1
  <2> QED
    BY <2>1 DEF AllLaidOut, Numbering
<1>3. num[n] < firstReporting <=> nodeOutputs[n] = << >>
  BY DEF AllLaidOut, Numbering
<1>4. CASE state < firstReporting
  BY <1>3, <1>4 DEF A!Collected
<1>5. CASE ~(state < firstReporting)
  <2>1. nodeOutputs[n] # << >>
    BY <1>3, <1>5
  <2>2. num[n] = firstReporting + rank[n]
    BY <2>1 DEF AllLaidOut, Numbering
  <2>3. PICK r \in Nat, x \in Nat : r = rank[n] /\ x = firstReporting
    BY <1>2
  <2>4. (x + r) - x = r
    OBVIOUS
  <2>5. state - firstReporting = r
    BY <2>2, <2>3, <2>4, Zenon
  <2>6. A!Collected = SubSeq(flat, begins[(state - firstReporting) + 1] + 1,
                                   begins[(state - firstReporting) + 2])
    BY <1>5, Zenon DEF A!Collected
  <2>7. A!Collected = SubSeq(flat, begins[rank[n] + 1] + 1, begins[rank[n] + 2])
    BY <2>3, <2>5, <2>6, Zenon
  <2>8. SubSeq(flat, begins[rank[n] + 1] + 1, begins[rank[n] + 2]) = nodeOutputs[n]
    BY <1>1, <1>2, <2>1, Zenon DEF AllLaidOut, LaidOut
  <2> QED
    BY <2>7, <2>8
<1> QED
  BY <1>4, <1>5

LEMMA WalkReports ==
  ASSUME patterns \in Seq(Seq(Bytes)), NEW w, NEW num, NEW rank, AllLaidOut(w, num, rank), At(w, num)
  PROVE  A!ReportsExactly
<1>1. PICK n \in DOMAIN w : state = num[n] /\ Longest(w, n, consumed) /\ consumed \in Seq(Bytes)
  BY DEF At
<1>2. A!Collected = nodeOutputs[n]
  BY <1>1, CollectedIsReported
<1>3. Words(w) /\ Known(w, patterns, Len(patterns)) /\ Reports(nodeOutputs[n], Ends(patterns, w[n]))
  BY DEF AllLaidOut, Exact
<1>4. PICK t \in Seq(Bytes), list \in Seq(Seq(Bytes)) : t = consumed /\ list = patterns
  BY <1>1
<1>5. Known(w, list, Len(list)) /\ Longest(w, n, t)
  BY <1>1, <1>3, <1>4
<1>6. Ends(list, w[n]) = {p \in DOMAIN list : list[p] # << >> /\ A!EndsWith(t, list[p])}
  BY <1>3, <1>5, WhatEndsIsKnown
<1> QED
  BY <1>2, <1>3, <1>4, <1>6 DEF A!ReportsExactly, Reports

-----------------------------------------------------------------------------
(* The automaton in the phases of its construction.                        *)

AutomatonInv ==
  /\ patterns \in Seq(Seq(Bytes))
  /\ built \in {"inserting", "completing", "numbering", "layout", "walking"}
  /\ built # "walking" => state = 0 /\ consumed = << >>
  /\ built = "inserting" => \E w : Inserted(w)
  /\ built = "completing" => \E w, done : Completing(w, done)
  /\ built = "numbering" => \E w : Exact(w)
  /\ built = "layout" =>
       \E w, num, rank : Exact(w) /\ Numbering(w, num, rank) /\ LaidOut(w, rank, node)
  /\ built = "walking" => \E w, num, rank : AllLaidOut(w, num, rank) /\ At(w, num)

LEMMA ConstructionStarts == A!Init => AutomatonInv
<1> SUFFICES ASSUME A!Init PROVE AutomatonInv
  OBVIOUS
<1>1. patterns \in Seq(Seq(Bytes)) /\ built = "inserting" /\ \E w : Inserted(w)
  BY InsertionStarts
<1>2. state = 0 /\ consumed = << >>
  BY DEF A!Init
<1> QED
  BY <1>1, <1>2 DEF AutomatonInv

\* The automaton the search starts with, when it is not constructed first, has one node.
LEMMA GivenIsExact == AutomatonGiven => AutomatonInv
<1> SUFFICES ASSUME AutomatonGiven PROVE AutomatonInv
  OBVIOUS
<1> DEFINE w == [n \in {0} |-> << >>]
           num == [n \in {0} |-> 0]
           rank == [n \in Nat |-> 0]
<1>1. /\ patterns = << >> /\ built = "walking" /\ firstReporting = 1 /\ begins = <<0>> /\ flat = << >>
      /\ transitions = [n \in {0} |-> A!NoRow] /\ nodeOutputs = [n \in {0} |-> << >>]
      /\ table = transitions /\ state = 0
  BY DEF AutomatonGiven
<1>2. consumed \in Seq(Bytes)
  <2>1. PICK b \in Bytes : b = CHOOSE x \in Bytes : TRUE
    BY BytesAssumption
  <2>2. consumed \in [1 .. MaxText -> {b}]
    BY <2>1 DEF AutomatonGiven
  <2>3. consumed \in [1 .. MaxText -> Bytes] /\ MaxText \in Nat
    BY <2>2, WalkAssumption
  <2> QED
    BY <2>3
<1>3. Trie(w, transitions)
  BY <1>1, FirstTrie
<1>4. DOMAIN w = {0} /\ w[0] = << >> /\ Words(w) /\ 0 \in DOMAIN w
  BY <1>3 DEF Trie
<1>5. num \in [{0} -> Nat] /\ num[0] = 0 /\ rank \in [Nat -> Nat] /\ \A n \in Nat : rank[n] = 0
  OBVIOUS
<1> HIDE DEF w, num, rank
<1>6. nodeOutputs \in [DOMAIN w -> Seq(Nat)] /\ nodeOutputs[0] = << >>
  BY <1>1, <1>4
<1>7. Exact(w)
  <2>1. GotoRow(w, 0, transitions[0])
    BY <1>3, <1>4, RootRow DEF Trie
  <2>2. patterns \in Seq(Seq(Bytes)) /\ Known(w, patterns, Len(patterns)) /\ Ends(patterns, w[0]) = {}
    BY <1>1 DEF Known, Ends
  <2>3. Reports(nodeOutputs[0], Ends(patterns, w[0]))
    BY <1>6, <2>2, ReportsNothing
  <2> QED
    BY <1>3, <1>4, <1>6, <2>1, <2>2, <2>3 DEF Exact, Trie
<1>8. \A b \in Bytes : transitions[0][b] = 0
  BY <1>1 DEF A!NoRow
<1>9. Numbering(w, num, rank)
  <2>1. \A n \in DOMAIN w : n = 0
    BY <1>4
  <2>2. firstReporting \in Nat /\ 0 < firstReporting
    BY <1>1
  <2>3. \A b \in Bytes : table[num[0]][b] = num[transitions[0][b]]
    BY <1>1, <1>5, <1>8
  <2>4. rank[0 + 1] = 0
    BY <1>5
  <2> QED
    BY <1>4, <1>5, <1>6, <2>1, <2>2, <2>3, <2>4 DEF Numbering
<1>10. LaidOut(w, rank, 1)
  <2>1. begins \in Seq(Nat) /\ flat \in Seq(Nat) /\ Len(begins) = 1 /\ begins[1] = 0 /\ Len(flat) = 0
    BY <1>1
  <2>2. Cardinality(DOMAIN w) = 1
    BY <1>4, FS_Singleton
  <2> QED
    BY <1>4, <1>5, <1>6, <2>1, <2>2 DEF LaidOut
<1>11. AllLaidOut(w, num, rank)
  <2>1. Cardinality(DOMAIN w) = 1
    BY <1>4, FS_Singleton
  <2> QED
    BY <1>7, <1>9, <1>10, <2>1 DEF AllLaidOut
<1>12. At(w, num)
  <2>1. Longest(w, 0, consumed)
    BY <1>2, <1>4, RootEnds DEF Longest
  <2> QED
    BY <1>1, <1>2, <1>4, <1>5, <2>1 DEF At
<1> QED
  BY <1>1, <1>11, <1>12 DEF AutomatonInv

LEMMA SameAutomaton == AutomatonInv /\ UNCHANGED automaton => AutomatonInv'
<1> SUFFICES ASSUME AutomatonInv, UNCHANGED automaton PROVE AutomatonInv'
  OBVIOUS
<1>1. UNCHANGED <<patterns, built, index, read, node, transitions, nodeOutputs, failure, queue,
                  table, firstReporting, begins, flat, state, consumed>>
  BY DEF automaton
<1>2. ASSUME NEW w, Inserted(w) PROVE Inserted(w)'
  BY <1>1, <1>2 DEF Inserted
<1>3. ASSUME NEW w, NEW done, Completing(w, done) PROVE Completing(w, done)'
  BY <1>1, <1>3 DEF Completing
<1>4. ASSUME NEW w, Exact(w) PROVE Exact(w)'
  BY <1>1, <1>4 DEF Exact
<1>5. ASSUME NEW w, NEW num, NEW rank, Numbering(w, num, rank) PROVE Numbering(w, num, rank)'
  BY <1>1, <1>5 DEF Numbering
<1>6. ASSUME NEW w, NEW rank, LaidOut(w, rank, node) PROVE LaidOut(w, rank, node)'
  BY <1>1, <1>6 DEF LaidOut
<1>7. ASSUME NEW w, NEW rank, LaidOut(w, rank, Cardinality(DOMAIN w))
      PROVE  LaidOut(w, rank, Cardinality(DOMAIN w))'
  BY <1>1, <1>7 DEF LaidOut
<1>8. ASSUME NEW w, NEW num, At(w, num) PROVE At(w, num)'
  BY <1>1, <1>8 DEF At
<1>9. ASSUME NEW w, NEW num, NEW rank, AllLaidOut(w, num, rank) PROVE AllLaidOut(w, num, rank)'
  BY <1>4, <1>5, <1>7, <1>9 DEF AllLaidOut
<1> QED
  BY <1>1, <1>2, <1>3, <1>4, <1>5, <1>6, <1>8, <1>9 DEF AutomatonInv

LEMMA ConstructionStep == AutomatonInv /\ A!Next => AutomatonInv'
<1> SUFFICES ASSUME AutomatonInv, A!Next PROVE AutomatonInv'
  OBVIOUS
<1>0. patterns \in Seq(Seq(Bytes))
  BY DEF AutomatonInv
<1>1. CASE A!InsertByte
  <2>1. built = "inserting" /\ UNCHANGED <<patterns, built, state, consumed>>
    BY <1>1, Zenon DEF A!InsertByte, A!Inserting, A!walk
  <2>2. PICK w : Inserted(w)
    BY <2>1 DEF AutomatonInv
  <2>3. \E v : Inserted(v)'
    BY <1>0, <1>1, <2>2, InsertByteKeeps
  <2> QED
    BY <2>1, <2>3 DEF AutomatonInv
<1>2. CASE A!EndPattern
  <2>1. built = "inserting" /\ UNCHANGED <<patterns, built, state, consumed>>
    BY <1>2, Zenon DEF A!EndPattern, A!Inserting, A!walk
  <2>2. PICK w : Inserted(w)
    BY <2>1 DEF AutomatonInv
  <2>3. Inserted(w)'
    BY <1>0, <1>2, <2>2, EndPatternKeeps
  <2> QED
    BY <2>1, <2>3 DEF AutomatonInv
<1>3. CASE A!BeginCompletion
  <2>1. built = "inserting" /\ built' = "completing" /\ UNCHANGED <<patterns, state, consumed>>
    BY <1>3, Zenon DEF A!BeginCompletion, A!walk
  <2>2. PICK w : Inserted(w)
    BY <2>1 DEF AutomatonInv
  <2>3. PICK done : done = {0}
    OBVIOUS
  <2>4. Completing(w, done)'
    BY <1>0, <1>3, <2>2, <2>3, BeginCompletionKeeps
  <2> QED
    BY <2>1, <2>4 DEF AutomatonInv
<1>4. CASE A!CompleteNode
  <2>1. built = "completing" /\ UNCHANGED <<patterns, built, state, consumed>>
    BY <1>4, Zenon DEF A!CompleteNode, A!walk
  <2>2. PICK w, done : Completing(w, done)
    BY <2>1 DEF AutomatonInv
  <2>3. \E more : Completing(w, more)'
    BY <1>4, <2>2, CompleteNodeKeeps
  <2> QED
    BY <2>1, <2>3 DEF AutomatonInv
<1>5. CASE A!EndCompletion
  <2>1. /\ built = "completing" /\ queue = << >> /\ built' = "numbering"
        /\ UNCHANGED <<patterns, transitions, nodeOutputs, state, consumed>>
    BY <1>5, Zenon DEF A!EndCompletion, A!walk, A!trie
  <2>2. PICK w, done : Completing(w, done)
    BY <2>1 DEF AutomatonInv
  <2>3. Exact(w)
    BY <2>1, <2>2, CompletionEnds
  <2>4. Exact(w)'
    BY <2>1, <2>3 DEF Exact
  <2> QED
    BY <2>1, <2>4 DEF AutomatonInv
<1>6. CASE A!NumberStates
  <2>1. built = "numbering" /\ built' = "layout" /\ UNCHANGED <<patterns, state, consumed>>
    BY <1>6, Zenon DEF A!NumberStates, A!walk
  <2>2. PICK w : Exact(w)
    BY <2>1 DEF AutomatonInv
  <2>3. Exact(w)' /\ \E num, rank : Numbering(w, num, rank)' /\ LaidOut(w, rank, node)'
    BY <1>0, <1>6, <2>2, NumberStatesKeeps
  <2> QED
    BY <2>1, <2>3 DEF AutomatonInv
<1>7. CASE A!LayOutNode
  <2>1. built = "layout" /\ UNCHANGED <<patterns, built, state, consumed>>
    BY <1>7, Zenon DEF A!LayOutNode, A!walk
  <2>2. PICK w, num, rank : Exact(w) /\ Numbering(w, num, rank) /\ LaidOut(w, rank, node)
    BY <2>1 DEF AutomatonInv
  <2>3. Exact(w)' /\ Numbering(w, num, rank)' /\ LaidOut(w, rank, node)'
    BY <1>7, <2>2, LayOutNodeKeeps
  <2> QED
    BY <2>1, <2>3 DEF AutomatonInv
<1>8. CASE A!EndLayout
  <2>1. /\ built = "layout" /\ built' = "walking" /\ node \notin A!Nodes
        /\ UNCHANGED <<patterns, transitions, nodeOutputs, table, firstReporting, begins, flat,
                       state, consumed>>
    BY <1>8, Zenon DEF A!EndLayout, A!walk, A!trie, A!numbered, A!laidOut
  <2>2. PICK w, num, rank : Exact(w) /\ Numbering(w, num, rank) /\ LaidOut(w, rank, node)
    BY <2>1 DEF AutomatonInv
  <2>3. Words(w) /\ A!Nodes = DOMAIN w
    BY <2>2 DEF Exact, A!Nodes
  <2>4. AllLaidOut(w, num, rank)
    BY <2>1, <2>2, <2>3, LayoutEnds DEF AllLaidOut
  <2>5. AllLaidOut(w, num, rank)'
    <3>1. Exact(w)'
      BY <2>1, <2>2 DEF Exact
    <3>2. Numbering(w, num, rank)'
      BY <2>1, <2>2 DEF Numbering
    <3>3. LaidOut(w, rank, Cardinality(DOMAIN w))'
      BY <2>1, <2>4 DEF AllLaidOut, LaidOut
    <3> QED
      BY <3>1, <3>2, <3>3 DEF AllLaidOut
  <2>6. At(w, num)
    <3>1. state = 0 /\ consumed = << >> /\ consumed \in Seq(Bytes)
      BY <2>1 DEF AutomatonInv
    <3>2. 0 \in DOMAIN w /\ Longest(w, 0, consumed)
      BY <2>3, <3>1, RootEnds
    <3>3. num[0] = 0
      BY <2>2 DEF Numbering
    <3> QED
      BY <3>1, <3>2, <3>3 DEF At
  <2>7. At(w, num)'
    BY <2>1, <2>6 DEF At
  <2> QED
    BY <1>0, <2>1, <2>5, <2>7 DEF AutomatonInv
<1>9. CASE A!WalkByte
  <2>1. built = "walking" /\ UNCHANGED <<patterns, built>>
    BY <1>9, Zenon DEF A!WalkByte
  <2>2. PICK w, num, rank : AllLaidOut(w, num, rank) /\ At(w, num)
    BY <2>1 DEF AutomatonInv
  <2>3. AllLaidOut(w, num, rank)' /\ At(w, num)'
    BY <1>9, <2>2, WalkByteKeeps
  <2> QED
    BY <1>0, <2>1, <2>3 DEF AutomatonInv
<1>10. CASE A!Walked
  <2>1. UNCHANGED automaton
    BY <1>10 DEF A!Walked, A!vars, A!inserted, A!trie, A!numbered, A!laidOut, A!walk, automaton
  <2> QED
    BY <2>1, SameAutomaton
<1> QED
  BY <1>1, <1>2, <1>3, <1>4, <1>5, <1>6, <1>7, <1>8, <1>9, <1>10 DEF A!Next

\* The table built from any list of patterns, over any bytes, reports after any
\* bytes the patterns that end there, each of them once: what build_automaton
\* makes is what collect_matches needs.
THEOREM TableIsExact == SearchSpec => []ReportsExactly
<1>1. SearchInit => AutomatonInv
  BY ConstructionStarts, GivenIsExact DEF SearchInit
<1>2. AutomatonInv /\ [SearchNext]_<<vars, automaton>> => AutomatonInv'
  BY ConstructionStep, SameAutomaton DEF SearchNext, Construct, Search, SearchReturned
<1>3. AutomatonInv => ReportsExactly
  <2> SUFFICES ASSUME AutomatonInv, built = "walking" PROVE A!ReportsExactly
    BY DEF ReportsExactly, A!ReportsExactly
  <2>1. PICK w, num, rank : AllLaidOut(w, num, rank) /\ At(w, num)
    BY DEF AutomatonInv
  <2>2. patterns \in Seq(Seq(Bytes))
    BY DEF AutomatonInv
  <2> QED
    BY <2>1, <2>2, WalkReports
<1> QED
  BY <1>1, <1>2, <1>3, PTL DEF SearchSpec
=============================================================================
