-------------------------------- MODULE Parsing --------------------------------
(***************************************************************************)
(* What the parsers of the formats share: the data and the offset they are *)
(* given, the checked reads of byte_view and binary_reader, the arithmetic *)
(* of common.cpp and the result they answer with.  What a field of the     *)
(* data holds is any value of its width.  Offsets and sizes are added on   *)
(* W64 values, as the code adds them.                                      *)
(***************************************************************************)
EXTENDS Integers, Sequences, FiniteSets

CONSTANTS
  DataSizes, Offsets,   \* the data's sizes and the offsets parsed at
  W32, W64,             \* the values of 32 and of 64 bits
  U8, U16, U32, U64,    \* the values tried in a field of each width
  MaxEntries            \* bound: as many of the smallest entries fit where entries are walked

\* Sixteen bits fit into a field of 32, a sum of some fields of 32 bits and the
\* size of any data, which is signed where the system counts it, into one of 64.
ASSUME WidthAssumption ==
  /\ W32 \in Nat /\ W64 \in Nat /\ 65536 <= W32 /\ 1024 * W32 <= W64
  /\ \A n \in U8 : n \in Nat /\ n <= 255
  /\ \A n \in U16 : n \in Nat /\ n <= 65535
  /\ \A n \in U32 : n \in Nat /\ n < W32
  /\ \A n \in U64 : n \in Nat /\ n < W64
  /\ \A n \in DataSizes : n \in Nat /\ 2 * n <= W64
  /\ Offsets \subseteq Nat /\ MaxEntries \in Nat

VARIABLES
  size,     \* data.size()
  offset,   \* where the result would begin
  walk,     \* the loop over a format's entries that is under way, or Nowhere
  answer    \* the parser's answer, or Unanswered

parsing == <<size, offset, walk, answer>>

Nowhere == [format |-> "none"]
Unanswered == [format |-> "none"]

ParsingInit ==
  /\ size \in DataSizes /\ offset \in {o \in Offsets : o <= size}
  /\ walk = Nowhere /\ answer = Unanswered

-----------------------------------------------------------------------------
(* byte_view, binary_reader and common.cpp                                 *)

Wrap(n) == n % W64
Wrap32(n) == n % W32
Contains(from, n) == from <= size /\ n <= size - from
available == size - offset

None == -1
\* A fault: the last offset is left out of the comparison.
IsOffsetSafeLoosely(limit, next, last) == next < limit

IsOffsetSafe(limit, next, last) == ~(last # None /\ last >= next) /\ next < limit
IsRangeSafe(limit, from, n) == from + n < W64 /\ from + n <= limit
CheckedAdd(a, b) == IF a + b < W64 THEN a + b ELSE None

\* A fault: the end wraps around before it is compared.
RangeInBoundsWrapping(from, n) == Wrap(from + n) <= size

RangeInBounds(from, n) == CheckedAdd(from, n) # None /\ from + n <= size
CheckedMultiply(a, b) == IF a # 0 /\ b > (W64 - 1) \div a THEN None ELSE a * b

\* Where a search from an offset on may find something or end.
Positions(from) == {p \in {from, from + 3, size - 8, size - 1, size} : from <= p /\ p <= size}

\* get_cstring: the length of the string at an offset, of at most the given bytes.
Strings(from, most) ==
  {n \in {0, 1, most, size - from} : 0 <= n /\ n <= most /\ (n = 0 \/ Contains(from, n))}

Aligned(n, unit) == ((n + unit - 1) \div unit) * unit
AtMost(n, m) == IF n < m THEN n ELSE m

-----------------------------------------------------------------------------
(* A parser is called where its magic bytes were found.                    *)

Asked(magic_offset, magic_size) ==
  /\ walk = Nowhere /\ answer = Unanswered
  /\ Contains(offset + magic_offset, magic_size)

\* The answer: a result that begins at from, or none; the sum or product its size
\* was computed as; and the end of the bytes that were read without a check of
\* their own.
Answered(format, found, from, total, confidence, read) ==
  /\ answer' =
       IF found
       THEN [format |-> format, found |-> TRUE, from |-> from, size |-> Wrap(total), total |-> total,
             confidence |-> confidence, read |-> read]
       ELSE [format |-> format, found |-> FALSE, from |-> 0, size |-> 0, total |-> 0,
             confidence |-> "none", read |-> read]
  /\ walk' = Nowhere
  /\ UNCHANGED <<size, offset>>

Answer(format, found, total, confidence) == Answered(format, found, offset, total, confidence, 0)
Reject(format) == Answer(format, FALSE, 0, "none")
Found(format, total, confidence) == Answer(format, TRUE, total, confidence)

\* A loop over entries: it is begun at an offset and goes on from entry to entry,
\* in n bytes, where the smallest entry has unit bytes.
BeginWithin(n, unit, entries) ==
  n <= MaxEntries * unit /\ walk' = entries /\ UNCHANGED <<size, offset, answer>>
Begin(unit, entries) == BeginWithin(available, unit, entries)
Walking(format) == walk.format = format
GoOn(entries) == walk' = entries /\ UNCHANGED <<size, offset, answer>>
Safe == IsOffsetSafe(size, walk.at, walk.last)
Next2(n) == AtMost(n + 1, 2)

\* The scanner has the answer and asks again elsewhere.
Return ==
  /\ answer # Unanswered /\ answer' = Unanswered
  /\ UNCHANGED <<size, offset, walk>>

\* A dry run of a built-in extractor: the bytes of input it used up, or None.
DryRuns(from) == {None} \cup {n \in {1, size - from} : n > 0 /\ Contains(from, n)}
=============================================================================
