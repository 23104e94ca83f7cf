----------------------------- MODULE CStringMemo -----------------------------
(***************************************************************************)
(* cstring_length and the memo scanner::scan arms around it                *)
(* (lib/src/common.cpp, lib/src/detail/cstring_length_memo.hpp), on one    *)
(* thread.  Memory is a range of addresses; a view is a pair of them.  A   *)
(* scope pins the buffer it was opened for; any other byte may be freed    *)
(* and come back with another value between two calls, so a memo that      *)
(* outlived its scope, or answered for a buffer it does not cover, would   *)
(* answer from bytes that are gone.                                        *)
(***************************************************************************)
EXTENDS Integers, Sequences

CONSTANTS LastAddress,   \* the addresses are 0 .. LastAddress - 1
          MaxDepth       \* bound: scopes open at once

ASSUME BoundsAssumption == LastAddress \in Nat \ {0} /\ MaxDepth \in Nat

Addresses == 0 .. LastAddress - 1
Limits == 0 .. LastAddress
Null == -1
NoAnswer == [begin |-> Null, limit |-> Null, length |-> Null]

VARIABLES
  memory,     \* address -> 0 for a NUL, 1 for any other byte
  run,        \* memoised_run of this thread
  seen,       \* history: what was read under the present scope
  frames,     \* what each open scope will restore
  lastCall    \* history: the last call of cstring_length

vars == <<memory, run, seen, frames, lastCall>>

Views == {v \in Limits \X Limits : v[1] <= v[2]}

NoRun == [low |-> Null, high |-> Null, begin |-> Null, end |-> Null,
          terminator |-> Null]
NothingSeen == [bytes |-> {}, last |-> Null, ascending |-> TRUE, twice |-> FALSE]

Init == /\ memory \in [Addresses -> {0, 1}]
        /\ run = NoRun
        /\ seen = NothingSeen
        /\ frames = << >>
        /\ lastCall = NoAnswer

-----------------------------------------------------------------------------
(* cstring_length_memo                                                     *)

\* The constructor: the run in use is put aside and a new one begins.
Enter(view) ==
  /\ Len(frames) < MaxDepth
  /\ frames' = Append(frames, [run |-> run, seen |-> seen])
  /\ run' = [NoRun EXCEPT !.low = view[1], !.high = view[2]]
  /\ seen' = NothingSeen
  /\ UNCHANGED <<memory, lastCall>>

Top == frames[Len(frames)]
Below == SubSeq(frames, 1, Len(frames) - 1)

\* The destructor.
Leave ==
  /\ frames # << >>
  /\ run' = Top.run
  /\ seen' = Top.seen
  /\ frames' = Below
  /\ UNCHANGED <<memory, lastCall>>

\* The bytes some open scope relies on.
PinnedBy(r, a) == r.low # Null /\ r.low <= a /\ a < r.high
Pinned(a) == PinnedBy(run, a) \/ \E k \in DOMAIN frames : PinnedBy(frames[k].run, a)

\* A buffer nobody pinned is freed, reused or written.
Rewrite(a) ==
  /\ ~Pinned(a)
  /\ memory' = [memory EXCEPT ![a] = 1 - @]
  /\ UNCHANGED <<run, seen, frames, lastCall>>

-----------------------------------------------------------------------------
(* cstring_length                                                          *)

\* find_terminator: where the first NUL of the bytes from `from` is, or limit.
\* It reads them up to and including the NUL.
FirstNul(from, limit) ==
  CHOOSE t \in from .. limit : /\ \A a \in from .. t - 1 : memory[a] # 0
                               /\ t < limit => memory[t] = 0

Covers(begin, limit) == run.low # Null /\ begin >= run.low /\ limit <= run.high

StartsInsideVerifiedRun(begin) == begin >= run.begin /\ begin < run.end

Answers(begin, limit, length) ==
  lastCall' = [begin |-> begin, limit |-> limit, length |-> length]

\* What the history keeps of a call that read the bytes from .. upto - 1 and
\* the NUL after them, if any.
Saw(begin, from, upto) ==
  seen' = [bytes |-> seen.bytes \cup from .. upto - 1,
           last |-> begin,
           ascending |-> seen.ascending /\ begin >= seen.last,
           twice |-> seen.twice \/ seen.bytes \cap from .. upto - 1 # {}]

\* A view that is not covered is read as if there were no memo.
ReadOutside(begin, limit) ==
  /\ begin < limit /\ ~Covers(begin, limit)
  /\ Answers(begin, limit, FirstNul(begin, limit) - begin)
  /\ UNCHANGED <<memory, run, seen, frames>>

\* The run reaches as far as the view, or its terminator is known: no byte is
\* read.
AnswerFromRun(begin, limit) ==
  /\ begin < limit /\ Covers(begin, limit) /\ StartsInsideVerifiedRun(begin)
  /\ limit <= run.end \/ run.terminator # Null
  /\ Answers(begin, limit, IF limit <= run.end THEN limit - begin
                           ELSE run.terminator - begin)
  /\ Saw(begin, begin, begin)
  /\ UNCHANGED <<memory, run, frames>>

\* Fault: the extension starts one byte late.
ExtendRunPastEnd(begin, limit) ==
  /\ begin < limit /\ Covers(begin, limit) /\ StartsInsideVerifiedRun(begin)
  /\ limit > run.end /\ run.terminator = Null
  /\ LET found == FirstNul(IF run.end + 1 < limit THEN run.end + 1 ELSE run.end, limit)
     IN /\ run' = [run EXCEPT !.end = found,
                              !.terminator = IF found < limit THEN found ELSE Null]
        /\ Answers(begin, limit, found - begin)
        /\ Saw(begin, run.end, found)
  /\ UNCHANGED <<memory, frames>>

\* The verified run is continued up to the view's limit.
ExtendRun(begin, limit) ==
  /\ begin < limit /\ Covers(begin, limit) /\ StartsInsideVerifiedRun(begin)
  /\ limit > run.end /\ run.terminator = Null
  /\ LET found == FirstNul(run.end, limit)
     IN /\ run' = [run EXCEPT !.end = found,
                              !.terminator = IF found < limit THEN found ELSE Null]
        /\ Answers(begin, limit, found - begin)
        /\ Saw(begin, run.end, found)
  /\ UNCHANGED <<memory, frames>>

\* Fault: the end of the run is not recorded, so every call reads again.
StartRunWithoutEnd(begin, limit) ==
  /\ begin < limit /\ Covers(begin, limit) /\ ~StartsInsideVerifiedRun(begin)
  /\ LET found == FirstNul(begin, limit)
     IN /\ run' = [run EXCEPT !.begin = begin, !.end = begin]
        /\ Answers(begin, limit, found - begin)
        /\ Saw(begin, begin, found)
  /\ UNCHANGED <<memory, frames>>

\* A new run begins.
StartRun(begin, limit) ==
  /\ begin < limit /\ Covers(begin, limit) /\ ~StartsInsideVerifiedRun(begin)
  /\ LET found == FirstNul(begin, limit)
     IN /\ run' = [run EXCEPT !.begin = begin, !.end = found,
                              !.terminator = IF found < limit THEN found ELSE Null]
        /\ Answers(begin, limit, found - begin)
        /\ Saw(begin, begin, found)
  /\ UNCHANGED <<memory, frames>>

CstringLength(begin, limit) ==
  \/ ReadOutside(begin, limit) \/ AnswerFromRun(begin, limit)
  \/ ExtendRun(begin, limit) \/ StartRun(begin, limit)

-----------------------------------------------------------------------------
Next == \/ \E v \in Views : Enter(v)
        \/ Leave
        \/ \E a \in Addresses : Rewrite(a)
        \/ \E v \in Views : CstringLength(v[1], v[2])

Spec == Init /\ [][Next]_vars

-----------------------------------------------------------------------------
(* Properties.                                                             *)

Runs == [low : Limits \cup {Null}, high : Limits \cup {Null},
         begin : Limits \cup {Null}, end : Limits \cup {Null},
         terminator : Addresses \cup {Null}]
Histories == [bytes : SUBSET Addresses, last : Limits \cup {Null},
              ascending : BOOLEAN, twice : BOOLEAN]

TypeOK ==
  /\ memory \in [Addresses -> {0, 1}]
  /\ run \in Runs /\ seen \in Histories
  /\ frames \in Seq([run : Runs, seen : Histories])
  /\ lastCall = NoAnswer \/ lastCall.length \in 0 .. lastCall.limit - lastCall.begin

\* What the cached pointers of a run claim of the bytes.
Verified(r) ==
  /\ r.low = Null => r.begin = Null
  /\ r.begin = Null => r.end = Null /\ r.terminator = Null
  /\ r.begin # Null =>
       /\ r.low <= r.begin /\ r.begin <= r.end /\ r.end <= r.high
       /\ \A a \in r.begin .. r.end - 1 : memory[a] # 0
       /\ r.terminator # Null =>
            r.terminator = r.end /\ r.end < r.high /\ memory[r.end] = 0

\* The run in use and every run an open scope will restore are true of the
\* memory as it is now: the scope pins the bytes its pointers refer to.
MemoIsSound ==
  Verified(run) /\ \A k \in DOMAIN frames : Verified(frames[k].run)

IsLength(begin, limit, n) ==
  /\ n \in 0 .. limit - begin
  /\ \A a \in begin .. begin + n - 1 : memory[a] # 0
  /\ begin + n < limit => memory[begin + n] = 0

\* Every answer is the one a scan of the view gives: the memo changes none,
\* whatever views were asked for before, opened, closed or overwritten.
AnswersUnchanged ==
  [][lastCall' # lastCall => IsLength(lastCall'.begin, lastCall'.limit, lastCall'.length)]_vars

\* "The work across a whole scan is linear": as long as the views asked for
\* start further and further on, no byte of a string is read twice.
LinearWork == seen.ascending => ~seen.twice
=============================================================================
