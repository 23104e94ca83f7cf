------------------------------ MODULE TaskPool -------------------------------
(***************************************************************************)
(* detail::task_pool (lib/src/detail/task_pool.cpp): one caller and a set  *)
(* of helper threads that drain an atomic counter together.  Every step is *)
(* what one thread does without giving another the chance to act: a        *)
(* critical section of state->mutex, one fetch_add, one comparison, one    *)
(* call of body, one notification made outside the mutex.                  *)
(***************************************************************************)
EXTENDS Integers, FiniteSets

CONSTANTS Helpers,      \* the threads the constructor starts
          Caller,       \* the thread that calls run and the destructor
          MaxCount,     \* bound: the largest count of a call
          MaxBatches    \* bound: the number of calls of run

ASSUME HelpersAssumption ==
  /\ IsFiniteSet(Helpers) /\ Helpers # {} /\ Caller \notin Helpers
ASSUME BoundsAssumption == MaxCount \in Nat /\ MaxBatches \in Nat

Threads == Helpers \cup {Caller}
None == -1

VARIABLES
  \* shared_state, written under the mutex and read outside it
  body,            \* the batch whose function body points at, or None
  count,
  nextIndex,       \* the atomic counter next_index
  batchNumber,
  workersStillRunning,
  shuttingDown,
  firstFailure,    \* the index whose call threw first on a helper, or None
  \* the threads
  pc,              \* where each thread is
  index,           \* the index each thread last drew from the counter
  work,            \* the batch whose function each thread is calling
  lastBatchJoined, \* by each helper
  callerFailure,   \* the index whose call threw on the caller, or None
  \* history
  failedAt,        \* the index that ended each thread's part of this batch
  outcome          \* what the last call of run rethrew, or None

shared == <<body, count, batchNumber, shuttingDown>>
history == <<failedAt, outcome>>
vars == <<body, count, nextIndex, batchNumber, workersStillRunning,
          shuttingDown, firstFailure, pc, index, work, lastBatchJoined,
          callerFailure, failedAt, outcome>>

\* A thread in the loop of run_until_no_indices_remain, and a helper that
\* joined a batch and did not sign off from it yet.
InLoop == {"entering", "claiming", "comparing", "working"}
Joined == InLoop \cup {"failing", "finishing"}
HelperPlaces == {"waiting", "asleep", "exited"} \cup Joined
CallerPlaces == {"idle", "posted", "draining", "blocked",
                 "closing", "joining", "gone"} \cup InLoop

Init == /\ body = None
        /\ count = 0
        /\ nextIndex = 0
        /\ batchNumber = 0
        /\ workersStillRunning = 0
        /\ shuttingDown = FALSE
        /\ firstFailure = None
        /\ pc = [t \in Threads |-> IF t = Caller THEN "idle" ELSE "waiting"]
        /\ index = [t \in Threads |-> None]
        /\ work = [t \in Threads |-> None]
        /\ lastBatchJoined = [h \in Helpers |-> 0]
        /\ callerFailure = None
        /\ failedAt = [t \in Threads |-> None]
        /\ outcome = None

MoveTo(t, place) == pc' = [pc EXCEPT ![t] = place]

\* Everyone asleep in batch_posted is made to look at the predicate again.
WakeHelpers ==
  [t \in Threads |-> IF pc[t] = "asleep" THEN "waiting" ELSE pc[t]]

-----------------------------------------------------------------------------
(* The caller's part of run, up to the loop.                               *)

Post ==
  /\ pc[Caller] = "idle" /\ batchNumber < MaxBatches
  /\ \E n \in 1 .. MaxCount : count' = n
  /\ body' = batchNumber + 1
  /\ batchNumber' = batchNumber + 1
  /\ nextIndex' = 0
  /\ workersStillRunning' = Cardinality(Helpers)
  /\ firstFailure' = None
  /\ MoveTo(Caller, "posted")
  /\ failedAt' = [t \in Threads |-> None] /\ outcome' = None
  /\ callerFailure' = None
  /\ UNCHANGED <<shuttingDown, index, work, lastBatchJoined>>

\* Fault: the batch is posted without a notification.
AnnounceNothing ==
  /\ pc[Caller] = "posted"
  /\ MoveTo(Caller, "entering")
  /\ UNCHANGED <<shared, nextIndex, workersStillRunning, firstFailure, index,
                 work, lastBatchJoined, callerFailure, history>>

\* batch_posted.notify_all(), after the mutex was given back.
Announce ==
  /\ pc[Caller] = "posted"
  /\ pc' = [WakeHelpers EXCEPT ![Caller] = "entering"]
  /\ UNCHANGED <<shared, nextIndex, workersStillRunning, firstFailure, index,
                 work, lastBatchJoined, callerFailure, history>>

-----------------------------------------------------------------------------
(* run_until_no_indices_remain, by any thread, without the mutex.          *)

\* const auto& work = *body
Enter(t) ==
  /\ pc[t] = "entering"
  /\ work' = [work EXCEPT ![t] = body]
  /\ MoveTo(t, "claiming")
  /\ UNCHANGED <<shared, nextIndex, workersStillRunning, firstFailure, index,
                 lastBatchJoined, callerFailure, history>>

Claim(t) ==
  /\ pc[t] = "claiming"
  /\ index' = [index EXCEPT ![t] = nextIndex]
  /\ nextIndex' = nextIndex + 1
  /\ MoveTo(t, "comparing")
  /\ UNCHANGED <<shared, workersStillRunning, firstFailure, work,
                 lastBatchJoined, callerFailure, history>>

\* Where a thread goes when its loop returned.
AfterLoop(t) == IF t = Caller THEN "draining" ELSE "finishing"

Compare(t) ==
  /\ pc[t] = "comparing"
  /\ MoveTo(t, IF index[t] >= count THEN AfterLoop(t) ELSE "working")
  /\ UNCHANGED <<shared, nextIndex, workersStillRunning, firstFailure, index,
                 work, lastBatchJoined, callerFailure, history>>

BodyReturns(t) ==
  /\ pc[t] = "working"
  /\ MoveTo(t, "claiming")
  /\ UNCHANGED <<shared, nextIndex, workersStillRunning, firstFailure, index,
                 work, lastBatchJoined, callerFailure, history>>

\* The exception leaves the loop; the caller keeps it in caller_failure, a
\* helper goes to remember_current_failure.
BodyThrows(t) ==
  /\ pc[t] = "working"
  /\ MoveTo(t, IF t = Caller THEN "draining" ELSE "failing")
  /\ callerFailure' = IF t = Caller THEN index[t] ELSE callerFailure
  /\ failedAt' = [failedAt EXCEPT ![t] = index[t]]
  /\ UNCHANGED <<shared, nextIndex, workersStillRunning, firstFailure, index,
                 work, lastBatchJoined, outcome>>

-----------------------------------------------------------------------------
(* A helper around the loop; each is one critical section of the mutex.    *)

BatchWanted(h) == batchNumber # lastBatchJoined[h]

Look(h) ==
  /\ pc[h] = "waiting"
  /\ \/ /\ shuttingDown
        /\ MoveTo(h, "exited")
        /\ UNCHANGED lastBatchJoined
     \/ /\ ~shuttingDown /\ BatchWanted(h)
        /\ lastBatchJoined' = [lastBatchJoined EXCEPT ![h] = batchNumber]
        /\ MoveTo(h, "entering")
     \/ /\ ~shuttingDown /\ ~BatchWanted(h)
        /\ MoveTo(h, "asleep")
        /\ UNCHANGED lastBatchJoined
  /\ UNCHANGED <<shared, nextIndex, workersStillRunning, firstFailure, index,
                 work, callerFailure, history>>

\* Fault: the exception of a helper is dropped.
RememberNothing(h) ==
  /\ pc[h] = "failing"
  /\ MoveTo(h, "finishing")
  /\ UNCHANGED <<shared, nextIndex, workersStillRunning, firstFailure, index,
                 work, lastBatchJoined, callerFailure, history>>

RememberCurrentFailure(h) ==
  /\ pc[h] = "failing"
  /\ firstFailure' = IF firstFailure = None THEN index[h] ELSE firstFailure
  /\ MoveTo(h, "finishing")
  /\ UNCHANGED <<shared, nextIndex, workersStillRunning, index, work,
                 lastBatchJoined, callerFailure, history>>

\* batch_drained.notify_one() reaches the caller only if it is in the wait.
SignOff(h) ==
  /\ pc[h] = "finishing"
  /\ workersStillRunning' = workersStillRunning - 1
  /\ pc' = [pc EXCEPT ![h] = "waiting",
                      ![Caller] = IF workersStillRunning = 1 /\ @ = "blocked"
                                  THEN "draining" ELSE @]
  /\ UNCHANGED <<shared, nextIndex, firstFailure, index, work,
                 lastBatchJoined, callerFailure, history>>

\* condition_variable::wait may return without a notification.
SpuriousWake(t) ==
  /\ \/ pc[t] = "asleep" /\ MoveTo(t, "waiting")
     \/ pc[t] = "blocked" /\ MoveTo(t, "draining")
  /\ UNCHANGED <<shared, nextIndex, workersStillRunning, firstFailure, index,
                 work, lastBatchJoined, callerFailure, history>>

-----------------------------------------------------------------------------
(* The end of run.                                                         *)

WaitForHelpers ==
  /\ pc[Caller] = "draining" /\ workersStillRunning # 0
  /\ MoveTo(Caller, "blocked")
  /\ UNCHANGED <<shared, nextIndex, workersStillRunning, firstFailure, index,
                 work, lastBatchJoined, callerFailure, history>>

\* Fault: the caller takes an empty counter of indices for a drained batch.
ReturnWhenClaimed ==
  /\ pc[Caller] = "draining" /\ nextIndex >= count
  /\ outcome' = IF callerFailure # None THEN callerFailure ELSE firstFailure
  /\ firstFailure' = None
  /\ body' = None
  /\ MoveTo(Caller, "idle")
  /\ UNCHANGED <<count, nextIndex, batchNumber, workersStillRunning,
                 shuttingDown, index, work, lastBatchJoined, callerFailure,
                 failedAt>>

Return ==
  /\ pc[Caller] = "draining" /\ workersStillRunning = 0
  /\ outcome' = IF callerFailure # None THEN callerFailure ELSE firstFailure
  /\ firstFailure' = None
  /\ body' = None
  /\ MoveTo(Caller, "idle")
  /\ UNCHANGED <<count, nextIndex, batchNumber, workersStillRunning,
                 shuttingDown, index, work, lastBatchJoined, callerFailure,
                 failedAt>>

-----------------------------------------------------------------------------
(* ~task_pool, called when no call of run is in progress.                  *)

ShutDown ==
  /\ pc[Caller] = "idle"
  /\ shuttingDown' = TRUE
  /\ MoveTo(Caller, "closing")
  /\ UNCHANGED <<body, count, batchNumber, nextIndex, workersStillRunning,
                 firstFailure, index, work, lastBatchJoined, callerFailure,
                 history>>

\* Fault: one helper is woken instead of all of them.
WakeOneToExit ==
  /\ pc[Caller] = "closing"
  /\ \/ /\ \A h \in Helpers : pc[h] # "asleep"
        /\ MoveTo(Caller, "joining")
     \/ \E h \in Helpers : /\ pc[h] = "asleep"
                           /\ pc' = [pc EXCEPT ![h] = "waiting",
                                               ![Caller] = "joining"]
  /\ UNCHANGED <<shared, nextIndex, workersStillRunning, firstFailure, index,
                 work, lastBatchJoined, callerFailure, history>>

WakeToExit ==
  /\ pc[Caller] = "closing"
  /\ pc' = [WakeHelpers EXCEPT ![Caller] = "joining"]
  /\ UNCHANGED <<shared, nextIndex, workersStillRunning, firstFailure, index,
                 work, lastBatchJoined, callerFailure, history>>

JoinWorkers ==
  /\ pc[Caller] = "joining" /\ \A h \in Helpers : pc[h] = "exited"
  /\ MoveTo(Caller, "gone")
  /\ UNCHANGED <<shared, nextIndex, workersStillRunning, firstFailure, index,
                 work, lastBatchJoined, callerFailure, history>>

\* Nothing is left to do; TLC reports any other state without a step.
Gone == pc[Caller] = "gone" /\ UNCHANGED vars

-----------------------------------------------------------------------------
LoopStep(t) == \/ Enter(t) \/ Claim(t) \/ Compare(t)
               \/ BodyReturns(t) \/ BodyThrows(t)
HelperStep(h) == Look(h) \/ RememberCurrentFailure(h) \/ SignOff(h)
CallerStep == \/ Announce \/ WaitForHelpers \/ Return
              \/ WakeToExit \/ JoinWorkers

Next == \/ Post \/ ShutDown \/ Gone
        \/ CallerStep
        \/ \E h \in Helpers : HelperStep(h)
        \/ \E t \in Threads : LoopStep(t) \/ SpuriousWake(t)

Spec == Init /\ [][Next]_vars

\* Threads that can run do, body returns or throws, and a mutex that is given
\* back again and again is obtained.  The caller owes no further batch.
FairSpec == /\ Spec
            /\ WF_vars(CallerStep)
            /\ \A h \in Helpers : WF_vars(HelperStep(h))
            /\ \A t \in Threads : WF_vars(LoopStep(t))

-----------------------------------------------------------------------------
(* Properties.                                                             *)

TypeOK ==
  /\ body \in Nat \cup {None}
  /\ count \in 0 .. MaxCount
  /\ nextIndex \in Nat
  /\ batchNumber \in 0 .. MaxBatches
  /\ workersStillRunning \in Nat
  /\ shuttingDown \in BOOLEAN
  /\ firstFailure \in Nat \cup {None}
  /\ pc \in [Threads -> HelperPlaces \cup CallerPlaces]
  /\ pc[Caller] \in CallerPlaces
  /\ \A h \in Helpers : pc[h] \in HelperPlaces
  /\ index \in [Threads -> Nat \cup {None}]
  /\ work \in [Threads -> Nat \cup {None}]
  /\ lastBatchJoined \in [Helpers -> Nat]
  /\ callerFailure \in Nat \cup {None}
  /\ failedAt \in [Threads -> Nat \cup {None}]
  /\ outcome \in Nat \cup {None}

\* The helpers that did not sign off from the batch posted last: those that
\* have still to join it and those that are in it.
Owing == {h \in Helpers : BatchWanted(h) \/ pc[h] \in Joined}

\* A call of run is in progress.
InRun == pc[Caller] \in {"posted", "draining", "blocked"} \cup InLoop

\* A helper that wakes late must not meet the next batch, or the destructor,
\* still owing the previous one: outside run every helper joined the last
\* batch and signed off from it, so the reference to body that run was given
\* is held by no thread once run returned.
NoStraggler == ~InRun => Owing = {}

\* A thread calls the function of the batch that is in progress, never one
\* whose std::function the caller has already destroyed, and no two threads
\* are inside body with one index.
WorkIsCurrent ==
  /\ \A t \in Threads : pc[t] \in {"claiming", "comparing", "working"} =>
       InRun /\ work[t] = batchNumber
  /\ \A t, u \in Threads :
       t # u /\ pc[t] = "working" /\ pc[u] = "working" => index[t] # index[u]

\* body and count are read without the mutex by every thread in the loop, so
\* nothing may write them while one is there.
BatchIsStable ==
  [][(\E h \in Helpers : pc[h] \in InLoop) => UNCHANGED <<body, count>>]_vars

\* The pool as a ParallelFor: the indices not drawn yet, and the index each
\* thread was given below count.
Todo == IF InRun THEN nextIndex .. count - 1 ELSE {}
Doing == [t \in Threads |->
            IF pc[t] = "working" \/ (pc[t] = "comparing" /\ index[t] < count)
            THEN index[t] ELSE None]
P == INSTANCE ParallelFor WITH inRun <- InRun, todo <- Todo, doing <- Doing

\* Every index is handed to exactly one thread, run returns only when no call
\* of body is in progress, and an exception is rethrown if one was thrown.
ImplementsParallelFor == P!Spec

\* run comes back, whichever calls of body throw and whoever sleeps when the
\* batch is posted.
RunReturns == InRun ~> ~InRun

\* The destructor joins every helper.
DestructorReturns == pc[Caller] = "closing" ~> pc[Caller] = "gone"
=============================================================================
