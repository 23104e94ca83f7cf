--------------------------- MODULE TaskPoolProofs ----------------------------
(***************************************************************************)
(* For any number of helpers, indices and batches: no helper is left over  *)
(* from a batch, the function a thread calls is the one in progress, and   *)
(* what the threads read without the mutex is not written meanwhile.       *)
(***************************************************************************)
EXTENDS TaskPool, FiniteSetTheorems, TLAPS

Drew == {"comparing", "working"}

\* A helper is in a batch only while that batch is the one in progress.
JoinedIsCurrent ==
  \A h \in Helpers :
    /\ lastBatchJoined[h] <= batchNumber
    /\ pc[h] \in Joined => InRun /\ lastBatchJoined[h] = batchNumber

\* workers_still_running counts the helpers that owe an answer.
CountsOwing == workersStillRunning = Cardinality(Owing)

BodyIsCurrent ==
  /\ InRun => body = batchNumber
  /\ \A t \in Threads : pc[t] \in {"claiming"} \cup Drew => work[t] = batchNumber

DistinctIndices ==
  \A t \in Threads : pc[t] \in Drew =>
    /\ index[t] \in Nat /\ index[t] < nextIndex
    /\ \A u \in Threads \ {t} : pc[u] \in Drew => index[t] # index[u]

IInv == /\ TypeOK
        /\ JoinedIsCurrent
        /\ CountsOwing
        /\ NoStraggler
        /\ BodyIsCurrent
        /\ DistinctIndices

\* The helpers that owe an answer can be counted.
LEMMA OwingIsFinite == IsFiniteSet(Owing) /\ Cardinality(Owing) \in Nat
BY HelpersAssumption, FS_Subset, FS_CardinalityType DEF HelpersAssumption, Owing

\* The initial states satisfy the invariant.
LEMMA InitIInv == Init => IInv
<1> SUFFICES ASSUME Init PROVE IInv
  OBVIOUS
<1> USE HelpersAssumption, BoundsAssumption
    DEF HelpersAssumption, BoundsAssumption, Init, Threads, None
<1>1. TypeOK
  <2>1. /\ pc \in [Threads -> HelperPlaces \cup CallerPlaces]
        /\ pc[Caller] \in CallerPlaces
        /\ \A h \in Helpers : pc[h] \in HelperPlaces
    BY DEF CallerPlaces, HelperPlaces
  <2>2. /\ index \in [Threads -> Nat \cup {None}]
        /\ work \in [Threads -> Nat \cup {None}]
        /\ lastBatchJoined \in [Helpers -> Nat]
        /\ failedAt \in [Threads -> Nat \cup {None}]
    OBVIOUS
  <2>3. /\ body \in Nat \cup {None} /\ firstFailure \in Nat \cup {None}
        /\ callerFailure \in Nat \cup {None} /\ outcome \in Nat \cup {None}
    OBVIOUS
  <2>4. /\ count \in 0 .. MaxCount /\ nextIndex \in Nat
        /\ batchNumber \in 0 .. MaxBatches /\ workersStillRunning \in Nat
    OBVIOUS
  <2>5. shuttingDown \in BOOLEAN
    OBVIOUS
  <2> HIDE DEF Init, None
  <2> QED BY <2>1, <2>2, <2>3, <2>4, <2>5 DEF TypeOK
<1>2. Owing = {}
  BY DEF Owing, BatchWanted, Joined, InLoop
<1>3. CountsOwing
  BY <1>2, FS_EmptySet DEF CountsOwing
<1>4. JoinedIsCurrent /\ NoStraggler /\ BodyIsCurrent /\ DistinctIndices
  BY <1>2 DEF JoinedIsCurrent, NoStraggler, BodyIsCurrent, DistinctIndices,
              InRun, Joined, InLoop, Drew
<1> QED BY <1>1, <1>3, <1>4 DEF IInv

\* A notification moves the sleepers, and the caller, and nothing else.
LEMMA Woken ==
  ASSUME TypeOK, Announce \/ WakeToExit
  PROVE  /\ DOMAIN pc' = Threads
         /\ \A h \in Helpers : pc'[h] = IF pc[h] = "asleep" THEN "waiting" ELSE pc[h]
         /\ \/ pc[Caller] = "posted" /\ pc'[Caller] = "entering"
            \/ pc[Caller] = "closing" /\ pc'[Caller] = "joining"
         /\ UNCHANGED <<shared, nextIndex, workersStillRunning, firstFailure, index,
                        work, lastBatchJoined, callerFailure, history>>
<1>1. /\ pc \in [Threads -> HelperPlaces \cup CallerPlaces]
      /\ Caller \in Threads /\ \A h \in Helpers : h \in Threads /\ h # Caller
  BY HelpersAssumption DEF HelpersAssumption, TypeOK, Threads
<1>2. CASE Announce
  <2>1. pc' = [WakeHelpers EXCEPT ![Caller] = "entering"] /\ pc[Caller] = "posted"
    BY <1>2 DEF Announce
  <2>2. /\ DOMAIN pc' = Threads /\ pc'[Caller] = "entering"
        /\ \A h \in Helpers : pc'[h] = WakeHelpers[h]
    BY <1>1, <2>1 DEF WakeHelpers
  <2>3. \A h \in Helpers : WakeHelpers[h] = IF pc[h] = "asleep" THEN "waiting" ELSE pc[h]
    BY <1>1 DEF WakeHelpers
  <2> QED BY <1>2, <2>1, <2>2, <2>3 DEF Announce
<1>3. CASE WakeToExit
  <2>1. pc' = [WakeHelpers EXCEPT ![Caller] = "joining"] /\ pc[Caller] = "closing"
    BY <1>3 DEF WakeToExit
  <2>2. /\ DOMAIN pc' = Threads /\ pc'[Caller] = "joining"
        /\ \A h \in Helpers : pc'[h] = WakeHelpers[h]
    BY <1>1, <2>1 DEF WakeHelpers
  <2>3. \A h \in Helpers : WakeHelpers[h] = IF pc[h] = "asleep" THEN "waiting" ELSE pc[h]
    BY <1>1 DEF WakeHelpers
  <2> QED BY <1>3, <2>1, <2>2, <2>3 DEF WakeToExit
<1> QED BY <1>2, <1>3

\* Every step but Post and SignOff leaves the set of owing helpers alone.
LEMMA SameOwing ==
  ASSUME IInv, [Next]_vars,
         ~Post, \A h \in Helpers : ~SignOff(h)
  PROVE  Owing' = Owing
<1> USE HelpersAssumption DEF HelpersAssumption, IInv, TypeOK, Threads, Owing, BatchWanted,
        Joined, InLoop, HelperPlaces, CallerPlaces, MoveTo
<1>1. CASE UNCHANGED vars
  BY <1>1 DEF vars
<1>2. CASE ShutDown
  BY <1>2 DEF ShutDown
<1>3. CASE CallerStep
  BY <1>3 DEF CallerStep, Announce, WaitForHelpers, Return, WakeToExit,
              JoinWorkers, WakeHelpers, shared
<1>4. ASSUME NEW h \in Helpers, Look(h) \/ RememberCurrentFailure(h)
      PROVE  Owing' = Owing
  BY <1>4 DEF Look, RememberCurrentFailure, shared, JoinedIsCurrent
<1>5. ASSUME NEW t \in Threads, LoopStep(t) PROVE Owing' = Owing
  BY <1>5 DEF LoopStep, Enter, Claim, Compare, BodyReturns, BodyThrows,
              AfterLoop, shared
<1>6. ASSUME NEW t \in Threads, SpuriousWake(t) PROVE Owing' = Owing
  BY <1>6 DEF SpuriousWake, shared
<1> QED BY <1>1, <1>2, <1>3, <1>4, <1>5, <1>6 DEF Next, Gone, HelperStep

\* A helper that signs off owes an answer, so the count it lowers is positive.
LEMMA SignOffOwes ==
  ASSUME IInv, NEW h \in Helpers, SignOff(h)
  PROVE  /\ h \in Owing
         /\ workersStillRunning > 0
         /\ Owing' = Owing \ {h}
         /\ Cardinality(Owing') = workersStillRunning'
<1> USE HelpersAssumption DEF HelpersAssumption, IInv, Joined, InLoop
<1>1. h \in Owing
  BY DEF SignOff, Owing
<1>2. Owing' = Owing \ {h}
  BY DEF SignOff, Owing, BatchWanted, TypeOK, Threads, HelperPlaces,
         CallerPlaces, JoinedIsCurrent, shared
<1>3. Cardinality(Owing \ {h}) = Cardinality(Owing) - 1
  BY <1>1, OwingIsFinite, FS_RemoveElement
<1>4. Cardinality(Owing) \in Nat /\ Cardinality(Owing) # 0
  BY <1>1, OwingIsFinite, FS_EmptySet
<1> QED BY <1>1, <1>2, <1>3, <1>4 DEF SignOff, CountsOwing, TypeOK

\* Every step keeps each variable in its type; SignOff needs that the count it
\* lowers is positive (task_pool.cpp:75).
LEMMA TypeStep == IInv /\ [Next]_vars => TypeOK'
<1> SUFFICES ASSUME IInv, [Next]_vars PROVE TypeOK'
  OBVIOUS
<1> USE HelpersAssumption, BoundsAssumption
    DEF HelpersAssumption, BoundsAssumption, IInv, TypeOK, Threads, MoveTo,
        HelperPlaces, CallerPlaces, Joined, InLoop, shared, history
<1>1. CASE UNCHANGED vars
  BY <1>1 DEF vars
<1>2. CASE Post
  <2>1. Cardinality(Helpers) \in Nat
    BY FS_CardinalityType
  <2> QED BY <1>2, <2>1 DEF Post, None
<1>3. CASE ShutDown
  BY <1>3 DEF ShutDown
<1>4. CASE CallerStep
  <2>1. CASE Announce \/ WakeToExit
    BY <2>1 DEF Announce, WakeToExit, WakeHelpers
  <2>2. CASE WaitForHelpers \/ JoinWorkers
    BY <2>2 DEF WaitForHelpers, JoinWorkers
  <2>3. CASE Return
    BY <2>3 DEF Return, None
  <2> QED BY <1>4, <2>1, <2>2, <2>3 DEF CallerStep
<1>5. ASSUME NEW h \in Helpers, Look(h) PROVE TypeOK'
  BY <1>5 DEF Look
<1>6. ASSUME NEW h \in Helpers, RememberCurrentFailure(h) PROVE TypeOK'
  BY <1>6 DEF RememberCurrentFailure
<1>7. ASSUME NEW h \in Helpers, SignOff(h) PROVE TypeOK'
  <2>1. workersStillRunning > 0
    BY <1>7, SignOffOwes
  <2> QED BY <1>7, <2>1 DEF SignOff
<1>8. ASSUME NEW t \in Threads, LoopStep(t) PROVE TypeOK'
  <2>1. CASE Enter(t)
    BY <2>1 DEF Enter
  <2>2. CASE Claim(t)
    BY <2>2 DEF Claim
  <2>3. CASE Compare(t) \/ BodyReturns(t)
    BY <2>3 DEF Compare, BodyReturns, AfterLoop
  <2>4. CASE BodyThrows(t)
    BY <2>4 DEF BodyThrows
  <2> QED BY <1>8, <2>1, <2>2, <2>3, <2>4 DEF LoopStep
<1>9. ASSUME NEW t \in Threads, SpuriousWake(t) PROVE TypeOK'
  BY <1>9 DEF SpuriousWake
<1> QED
  BY <1>1, <1>2, <1>3, <1>4, <1>5, <1>6, <1>7, <1>8, <1>9
  DEF Next, Gone, HelperStep

\* The count stays exact, and the call of run ends only when it is zero.
LEMMA CountStep == IInv /\ [Next]_vars => CountsOwing' /\ NoStraggler'
<1> SUFFICES ASSUME IInv, [Next]_vars PROVE CountsOwing' /\ NoStraggler'
  OBVIOUS
<1> USE HelpersAssumption
    DEF HelpersAssumption, IInv, TypeOK, CountsOwing, NoStraggler, InRun,
        InLoop, MoveTo, Threads, CallerPlaces, HelperPlaces, Joined
<1>1. CASE Post
  <2>1. Owing' = Helpers
    BY <1>1 DEF Post, Owing, BatchWanted, JoinedIsCurrent
  <2> QED BY <1>1, <2>1 DEF Post
<1>2. ASSUME NEW h \in Helpers, SignOff(h)
      PROVE  CountsOwing' /\ NoStraggler'
  <2>1. InRun'
    BY <1>2 DEF SignOff, JoinedIsCurrent
  <2> QED BY <1>2, <2>1, SignOffOwes
<1>3. CASE ~Post /\ \A h \in Helpers : ~SignOff(h)
  <2>1. Owing' = Owing
    BY <1>3, SameOwing
  <2>2. workersStillRunning' = workersStillRunning
    BY <1>3 DEF Next, Gone, vars, ShutDown, CallerStep, Announce,
       WaitForHelpers, Return, WakeToExit, JoinWorkers, HelperStep, Look,
       RememberCurrentFailure, LoopStep, Enter, Claim, Compare, BodyReturns,
       BodyThrows, SpuriousWake
  <2>3. CASE Return
    <3>1. Owing = {}
      BY <2>3, OwingIsFinite, FS_EmptySet DEF Return
    <3> QED BY <2>1, <2>2, <3>1
  <2>4. CASE ~Return
    <3>1. InRun => InRun'
      BY <1>3, <2>4 DEF Next, Gone, vars, ShutDown, CallerStep, Announce,
         WaitForHelpers, WakeToExit, JoinWorkers, HelperStep, Look,
         RememberCurrentFailure, LoopStep, Enter, Claim, Compare, BodyReturns,
         BodyThrows, SpuriousWake, WakeHelpers, AfterLoop
    <3> QED BY <2>1, <2>2, <3>1
  <2> QED BY <2>3, <2>4
<1> QED BY <1>1, <1>2, <1>3

\* No helper joins a batch that is not in progress, and a batch is not ended,
\* nor the next one posted, while a helper is in it.
LEMMA JoinedStep == IInv /\ [Next]_vars => JoinedIsCurrent'
<1> SUFFICES ASSUME IInv, [Next]_vars PROVE JoinedIsCurrent'
  OBVIOUS
<1> USE HelpersAssumption
    DEF HelpersAssumption, IInv, TypeOK, JoinedIsCurrent, InRun, InLoop,
        MoveTo, Threads, CallerPlaces, HelperPlaces, Joined, shared
<1>1. CASE UNCHANGED vars
  BY <1>1 DEF vars
<1>2. CASE Post \/ ShutDown
  <2>1. Owing = {}
    BY <1>2 DEF Post, ShutDown, NoStraggler
  <2> QED BY <1>2, <2>1 DEF Post, ShutDown, Owing
<1>3. CASE Return
  <2>1. Owing = {}
    BY <1>3, OwingIsFinite, FS_EmptySet DEF Return, CountsOwing
  <2> QED BY <1>3, <2>1 DEF Return, Owing
<1>4. CASE Announce \/ WakeToExit
  BY <1>4, Woken
<1>5. CASE WaitForHelpers \/ JoinWorkers
  BY <1>5 DEF WaitForHelpers, JoinWorkers
<1>6. ASSUME NEW h \in Helpers, Look(h) PROVE JoinedIsCurrent'
  <2>1. BatchWanted(h) => InRun
    BY DEF NoStraggler, Owing
  <2> QED BY <1>6, <2>1 DEF Look, BatchWanted
<1>7. ASSUME NEW h \in Helpers, RememberCurrentFailure(h) \/ SignOff(h)
      PROVE  JoinedIsCurrent'
  BY <1>7 DEF RememberCurrentFailure, SignOff
<1>8. ASSUME NEW t \in Threads, LoopStep(t) PROVE JoinedIsCurrent'
  BY <1>8 DEF LoopStep, Enter, Claim, Compare, BodyReturns, BodyThrows, AfterLoop
<1>9. ASSUME NEW t \in Threads, SpuriousWake(t) PROVE JoinedIsCurrent'
  BY <1>9 DEF SpuriousWake
<1> QED
  BY <1>1, <1>2, <1>3, <1>4, <1>5, <1>6, <1>7, <1>8, <1>9
  DEF Next, Gone, CallerStep, HelperStep

\* A thread in the loop belongs to the call of run in progress.
LEMMA LoopIsInRun ==
  ASSUME IInv, NEW t \in Threads, pc[t] \in InLoop PROVE InRun
BY HelpersAssumption
DEF HelpersAssumption, IInv, TypeOK, JoinedIsCurrent, Joined, InRun, Threads

\* body is written only when no thread can call it (task_pool.cpp:31, 113, 134).
LEMMA BodyStep == IInv /\ [Next]_vars => BodyIsCurrent'
<1> SUFFICES ASSUME IInv, [Next]_vars PROVE BodyIsCurrent'
  OBVIOUS
<1> USE HelpersAssumption
    DEF HelpersAssumption, IInv, TypeOK, BodyIsCurrent, InRun, InLoop, MoveTo,
        Threads, CallerPlaces, HelperPlaces, Joined, Drew, shared
<1>1. CASE UNCHANGED vars
  BY <1>1 DEF vars
<1>2. CASE Post
  <2>1. ~InRun
    BY <1>2 DEF Post
  <2>2. \A t \in Threads : pc[t] \notin InLoop
    BY <2>1, LoopIsInRun
  <2> QED BY <1>2, <2>2 DEF Post
<1>3. CASE Return
  BY <1>3 DEF Return
<1>4. CASE ShutDown \/ WaitForHelpers \/ JoinWorkers
  BY <1>4 DEF ShutDown, WaitForHelpers, JoinWorkers
<1>5. CASE Announce \/ WakeToExit
  BY <1>5, Woken
<1>6. ASSUME NEW h \in Helpers, Look(h) \/ RememberCurrentFailure(h) \/ SignOff(h)
      PROVE  BodyIsCurrent'
  BY <1>6 DEF Look, RememberCurrentFailure, SignOff
<1>7. ASSUME NEW t \in Threads, Enter(t) PROVE BodyIsCurrent'
  <2>1. InRun
    BY <1>7, LoopIsInRun DEF Enter
  <2> QED BY <1>7, <2>1 DEF Enter
<1>8. ASSUME NEW t \in Threads,
             Claim(t) \/ Compare(t) \/ BodyReturns(t) \/ BodyThrows(t)
      PROVE  BodyIsCurrent'
  BY <1>8 DEF Claim, Compare, BodyReturns, BodyThrows, AfterLoop
<1>9. ASSUME NEW t \in Threads, SpuriousWake(t) PROVE BodyIsCurrent'
  BY <1>9 DEF SpuriousWake
<1> QED
  BY <1>1, <1>2, <1>3, <1>4, <1>5, <1>6, <1>7, <1>8, <1>9
  DEF Next, Gone, CallerStep, HelperStep, LoopStep

\* fetch_add gives no index twice in one batch (task_pool.cpp:33).
LEMMA IndexStep == IInv /\ [Next]_vars => DistinctIndices'
<1> SUFFICES ASSUME IInv, [Next]_vars PROVE DistinctIndices'
  OBVIOUS
<1> USE HelpersAssumption
    DEF HelpersAssumption, IInv, TypeOK, DistinctIndices, InLoop, MoveTo,
        Threads, CallerPlaces, HelperPlaces, Joined, Drew, shared
<1>1. CASE UNCHANGED vars
  BY <1>1 DEF vars
<1>2. CASE Post
  <2>1. ~InRun
    BY <1>2 DEF Post, InRun
  <2>2. \A t \in Threads : pc[t] \notin InLoop
    BY <2>1, LoopIsInRun
  <2> QED BY <1>2, <2>2 DEF Post
<1>3. CASE ShutDown \/ WaitForHelpers \/ JoinWorkers \/ Return
  BY <1>3 DEF ShutDown, WaitForHelpers, JoinWorkers, Return
<1>4. CASE Announce \/ WakeToExit
  BY <1>4, Woken
<1>5. ASSUME NEW h \in Helpers, Look(h) \/ RememberCurrentFailure(h) \/ SignOff(h)
      PROVE  DistinctIndices'
  BY <1>5 DEF Look, RememberCurrentFailure, SignOff
<1>6. ASSUME NEW t \in Threads, Claim(t) PROVE DistinctIndices'
  BY <1>6 DEF Claim
<1>7. ASSUME NEW t \in Threads,
             Enter(t) \/ Compare(t) \/ BodyReturns(t) \/ BodyThrows(t)
      PROVE  DistinctIndices'
  BY <1>7 DEF Enter, Compare, BodyReturns, BodyThrows, AfterLoop
<1>8. ASSUME NEW t \in Threads, SpuriousWake(t) PROVE DistinctIndices'
  BY <1>8 DEF SpuriousWake
<1> QED
  BY <1>1, <1>2, <1>3, <1>4, <1>5, <1>6, <1>7, <1>8
  DEF Next, Gone, CallerStep, HelperStep, LoopStep

\* The inductive invariant holds of every reachable state, for any number of
\* helpers, indices and batches.
THEOREM Invariance == Spec => []IInv
<1>1. IInv /\ [Next]_vars => IInv'
  BY TypeStep, CountStep, JoinedStep, BodyStep, IndexStep DEF IInv
<1> QED BY InitIInv, <1>1, PTL DEF Spec

\* Every variable of the pool stays in its type; above all the count of helpers
\* that owe an answer, an unsigned number, never goes below zero
\* (task_pool.cpp:14-28, 75).
THEOREM TypeCorrect == Spec => []TypeOK
<1>1. IInv => TypeOK
  BY DEF IInv
<1> QED BY Invariance, <1>1, PTL

\* Outside a call of run every helper has signed off from the last batch, for
\* any number of helpers, indices and batches (task_pool.cpp:129-135).
THEOREM NoStragglerLeft == Spec => []NoStraggler
<1>1. IInv => NoStraggler
  BY DEF IInv
<1> QED BY Invariance, <1>1, PTL

\* The function a thread calls is that of the call in progress, and no two
\* threads are in body with the same index (task_pool.cpp:30-39).
THEOREM WorkStaysCurrent == Spec => []WorkIsCurrent
<1>1. IInv => WorkIsCurrent
  BY LoopIsInRun DEF IInv, BodyIsCurrent, DistinctIndices, Drew,
     WorkIsCurrent, InLoop
<1> QED BY Invariance, <1>1, PTL

\* While a helper is in the loop, which reads body and count without the
\* mutex, no step writes them (task_pool.cpp:31, 34, 113-114, 134).
THEOREM StableBatch == Spec => BatchIsStable
<1>1. ASSUME IInv, [Next]_vars, \E h \in Helpers : pc[h] \in InLoop
      PROVE  UNCHANGED <<body, count>>
  <2>1. PICK h \in Helpers : pc[h] \in InLoop
    BY <1>1
  <2>2. InRun
    BY <1>1, <2>1, LoopIsInRun DEF Threads
  <2>3. h \in Owing
    BY <2>1 DEF Owing, Joined
  <2>4. ~Return
    BY <1>1, <2>3, OwingIsFinite, FS_EmptySet DEF Return, IInv, CountsOwing
  <2>5. ~Post
    BY <2>2 DEF Post, InRun, InLoop
  <2> QED
    BY <1>1, <2>4, <2>5 DEF Next, Gone, vars, shared, ShutDown, CallerStep,
       Announce, WaitForHelpers, WakeToExit, JoinWorkers, HelperStep, Look,
       RememberCurrentFailure, SignOff, LoopStep, Enter, Claim, Compare,
       BodyReturns, BodyThrows, SpuriousWake
<1>2. IInv /\ [Next]_vars =>
        [(\E h \in Helpers : pc[h] \in InLoop) => UNCHANGED <<body, count>>]_vars
  BY <1>1
<1> QED BY Invariance, <1>2, PTL DEF Spec, BatchIsStable

-----------------------------------------------------------------------------
(* TaskPool implements ParallelFor.                                        *)

\* A thread's part of the batch in progress is over.
PartOver(t) == IF t = Caller THEN pc[t] \in {"draining", "blocked"}
               ELSE pc[t] = "finishing" \/ t \notin Owing

\* A thread that failed is out of the loop.
FailedIsOut ==
  /\ \A t \in Threads : pc[t] \in InLoop \cup {"posted"} => failedAt[t] = None
  /\ \A h \in Helpers : InRun /\ BatchWanted(h) => failedAt[h] = None
  /\ \A h \in Helpers : pc[h] = "failing" =>
       failedAt[h] = index[h] /\ index[h] \in Nat

\* What run will rethrow is the failure of some thread, and no failure is
\* forgotten once its thread signed off.
FailureIsKept ==
  InRun =>
    /\ callerFailure = failedAt[Caller]
    /\ firstFailure = None =>
         \A h \in Helpers : failedAt[h] # None => pc[h] = "failing"
    /\ firstFailure # None => \E h \in Helpers : failedAt[h] = firstFailure

\* A thread that left the loop without a failure found no index left.
NoneLeftOver ==
  /\ \A t \in Threads : pc[t] = "working" => index[t] < count
  /\ \A t \in Threads :
       InRun /\ PartOver(t) /\ failedAt[t] = None => nextIndex >= count

RInv == FailedIsOut /\ FailureIsKept /\ NoneLeftOver

\* The initial states satisfy the invariant the refinement needs.
LEMMA InitRInv == Init => RInv
BY HelpersAssumption
DEF HelpersAssumption, Init, RInv, FailedIsOut, FailureIsKept, NoneLeftOver,
    InRun, InLoop, Threads

\* A thread whose call of body threw draws no further index of the batch
\* (task_pool.cpp:68-72, 122-127).
LEMMA FailedStep == IInv /\ RInv /\ [Next]_vars => FailedIsOut'
<1> SUFFICES ASSUME IInv, RInv, [Next]_vars PROVE FailedIsOut'
  OBVIOUS
<1> USE HelpersAssumption
    DEF HelpersAssumption, IInv, TypeOK, RInv, FailedIsOut, InRun, InLoop,
        MoveTo, Threads, CallerPlaces, HelperPlaces, Joined, BatchWanted,
        shared, history
<1>1. CASE UNCHANGED vars
  BY <1>1 DEF vars
<1>2. CASE Post
  <2>1. \A h \in Helpers : pc[h] \notin Joined
    BY <1>2 DEF Post, JoinedIsCurrent
  <2> QED BY <1>2, <2>1 DEF Post
<1>3. CASE ShutDown \/ WaitForHelpers \/ JoinWorkers \/ Return
  BY <1>3 DEF ShutDown, WaitForHelpers, JoinWorkers, Return
<1>4. CASE Announce \/ WakeToExit
  BY <1>4, Woken
<1>5. ASSUME NEW h \in Helpers, Look(h) PROVE FailedIsOut'
  <2>1. BatchWanted(h) => InRun
    BY DEF NoStraggler, Owing
  <2> QED BY <1>5, <2>1 DEF Look
<1>6. ASSUME NEW h \in Helpers, RememberCurrentFailure(h) \/ SignOff(h)
      PROVE  FailedIsOut'
  BY <1>6 DEF RememberCurrentFailure, SignOff
<1>7. ASSUME NEW t \in Threads, Enter(t) \/ Compare(t) \/ BodyReturns(t)
      PROVE  FailedIsOut'
  BY <1>7 DEF Enter, Compare, BodyReturns, AfterLoop
<1>8. ASSUME NEW t \in Threads, Claim(t) PROVE FailedIsOut'
  BY <1>8 DEF Claim
<1>9. ASSUME NEW t \in Threads, BodyThrows(t) PROVE FailedIsOut'
  BY <1>9 DEF BodyThrows, DistinctIndices, Drew, JoinedIsCurrent
<1>10. ASSUME NEW t \in Threads, SpuriousWake(t) PROVE FailedIsOut'
  BY <1>10 DEF SpuriousWake
<1> QED
  BY <1>1, <1>2, <1>3, <1>4, <1>5, <1>6, <1>7, <1>8, <1>9, <1>10
  DEF Next, Gone, CallerStep, HelperStep, LoopStep

\* The failure run will rethrow is one of this batch, and none is lost
\* (task_pool.cpp:43-45, 117).
LEMMA KeptStep == IInv /\ RInv /\ [Next]_vars => FailureIsKept'
<1> SUFFICES ASSUME IInv, RInv, [Next]_vars PROVE FailureIsKept'
  OBVIOUS
<1> USE HelpersAssumption
    DEF HelpersAssumption, IInv, TypeOK, RInv, FailureIsKept, InRun, InLoop,
        MoveTo, Threads, CallerPlaces, HelperPlaces, Joined, shared, history
<1>1. CASE UNCHANGED vars
  BY <1>1 DEF vars
<1>2. CASE Post
  BY <1>2 DEF Post
<1>3. CASE ShutDown \/ WaitForHelpers \/ JoinWorkers \/ Return
  BY <1>3 DEF ShutDown, WaitForHelpers, JoinWorkers, Return
<1>4. CASE Announce \/ WakeToExit
  BY <1>4, Woken
<1>5. ASSUME NEW h \in Helpers, Look(h) \/ SignOff(h) PROVE FailureIsKept'
  BY <1>5 DEF Look, SignOff
<1>6. ASSUME NEW h \in Helpers, RememberCurrentFailure(h) PROVE FailureIsKept'
  BY <1>6 DEF RememberCurrentFailure, FailedIsOut
<1>7. ASSUME NEW t \in Threads,
             Enter(t) \/ Claim(t) \/ Compare(t) \/ BodyReturns(t)
      PROVE  FailureIsKept'
  BY <1>7 DEF Enter, Claim, Compare, BodyReturns, AfterLoop
<1>8. ASSUME NEW t \in Threads, BodyThrows(t) PROVE FailureIsKept'
  <2>1. failedAt[t] = None
    BY <1>8 DEF BodyThrows, FailedIsOut
  <2> QED BY <1>8, <2>1 DEF BodyThrows
<1>9. ASSUME NEW t \in Threads, SpuriousWake(t) PROVE FailureIsKept'
  BY <1>9 DEF SpuriousWake
<1> QED
  BY <1>1, <1>2, <1>3, <1>4, <1>5, <1>6, <1>7, <1>8, <1>9
  DEF Next, Gone, CallerStep, HelperStep, LoopStep

\* A thread leaves the loop without a failure only when the indices are used up
\* (task_pool.cpp:34-36).
LEMMA LeftOverStep == IInv /\ RInv /\ [Next]_vars => NoneLeftOver'
<1> SUFFICES ASSUME IInv, RInv, [Next]_vars PROVE NoneLeftOver'
  OBVIOUS
<1> USE HelpersAssumption
    DEF HelpersAssumption, IInv, TypeOK, RInv, NoneLeftOver, PartOver, InRun,
        InLoop, MoveTo, Threads, CallerPlaces, HelperPlaces, Joined, shared,
        history
<1>1. CASE Post
  <2>1. Owing' = Helpers
    BY <1>1 DEF Post, Owing, BatchWanted, JoinedIsCurrent
  <2>2. \A t \in Threads : pc[t] \notin InLoop
    BY <1>1, LoopIsInRun DEF Post
  <2>3. \A h \in Helpers : pc[h] # "finishing"
    BY <1>1 DEF Post, JoinedIsCurrent
  <2> QED BY <1>1, <2>1, <2>2, <2>3 DEF Post
<1>2. ASSUME NEW h \in Helpers, SignOff(h) PROVE NoneLeftOver'
  <2>1. Owing' = Owing \ {h} /\ pc[h] = "finishing"
    BY <1>2, SignOffOwes DEF SignOff
  <2> QED BY <1>2, <2>1 DEF SignOff
<1>3. CASE ~Post /\ \A h \in Helpers : ~SignOff(h)
  <2>1. Owing' = Owing
    BY <1>3, SameOwing
  <2> USE <2>1
  <2>2. CASE UNCHANGED vars
    BY <2>2 DEF vars
  <2>3. CASE ShutDown \/ WaitForHelpers \/ JoinWorkers \/ Return
    BY <2>3 DEF ShutDown, WaitForHelpers, JoinWorkers, Return
  <2>4. CASE Announce \/ WakeToExit
    <3>1. \A t \in Threads : PartOver(t)' => PartOver(t)
      BY <2>1, <2>4 DEF Announce, WakeToExit, WakeHelpers
    <3>2. InRun' => InRun
      BY <2>4 DEF Announce, WakeToExit, WakeHelpers
    <3>3. \A t \in Threads : pc'[t] = "working" => pc[t] = "working"
      BY <2>4 DEF Announce, WakeToExit, WakeHelpers
    <3>4. UNCHANGED <<index, count, nextIndex, failedAt>>
      BY <2>4 DEF Announce, WakeToExit
    <3> HIDE DEF PartOver, InRun, TypeOK, IInv
    <3> QED BY <3>1, <3>2, <3>3, <3>4
  <2>5. ASSUME NEW h \in Helpers, Look(h) PROVE NoneLeftOver'
    BY <2>5 DEF Look
  <2>6. ASSUME NEW h \in Helpers, RememberCurrentFailure(h)
        PROVE  NoneLeftOver'
    BY <2>6 DEF RememberCurrentFailure, FailedIsOut, None
  <2>7. ASSUME NEW t \in Threads, Enter(t) \/ BodyReturns(t)
        PROVE  NoneLeftOver'
    BY <2>7 DEF Enter, BodyReturns
  <2>8. ASSUME NEW t \in Threads, Claim(t) PROVE NoneLeftOver'
    BY <2>8 DEF Claim
  <2>9. ASSUME NEW t \in Threads, Compare(t) PROVE NoneLeftOver'
    <3>1. index[t] \in Nat /\ index[t] < nextIndex
      BY <2>9 DEF Compare, DistinctIndices, Drew
    <3> QED BY <2>9, <3>1 DEF Compare, AfterLoop
  <2>10. ASSUME NEW t \in Threads, BodyThrows(t) PROVE NoneLeftOver'
    <3>1. index[t] \in Nat
      BY <2>10 DEF BodyThrows, DistinctIndices, Drew
    <3>2. \A u \in Threads \ {t} : pc'[u] = pc[u] /\ failedAt'[u] = failedAt[u]
      BY <2>10 DEF BodyThrows
    <3>3. failedAt'[t] # None /\ pc'[t] # "working"
      BY <2>10, <3>1 DEF BodyThrows, None
    <3>4. UNCHANGED <<index, count, nextIndex>> /\ (InRun' => InRun)
      BY <2>10, LoopIsInRun DEF BodyThrows
    <3>5. \A u \in Threads \ {t} : PartOver(u)' = PartOver(u)
      BY <2>1, <3>2
    <3> HIDE DEF PartOver, InRun, TypeOK, IInv
    <3> QED BY <3>2, <3>3, <3>4, <3>5
  <2>11. ASSUME NEW t \in Threads, SpuriousWake(t) PROVE NoneLeftOver'
    BY <2>11 DEF SpuriousWake
  <2> QED
    BY <1>3, <2>2, <2>3, <2>4, <2>5, <2>6, <2>7, <2>8, <2>9, <2>10, <2>11
    DEF Next, Gone, CallerStep, HelperStep, LoopStep
<1> QED BY <1>1, <1>2, <1>3

\* Both invariants hold of every reachable state.
LEMMA RefinementInvariance == Spec => [](IInv /\ RInv)
<1>1. Init => IInv /\ RInv
  BY InitIInv, InitRInv
<1>2. IInv /\ RInv /\ [Next]_vars => (IInv /\ RInv)'
  <2>1. IInv /\ [Next]_vars => IInv'
    BY TypeStep, CountStep, JoinedStep, BodyStep, IndexStep DEF IInv
  <2> QED BY <2>1, FailedStep, KeptStep, LeftOverStep DEF RInv
<1> QED BY <1>1, <1>2, PTL DEF Spec

\* A step that leaves the mapped variables alone is a stutter of ParallelFor.
LEMMA MappingIs ==
  UNCHANGED <<InRun, Todo, Doing, failedAt, outcome>> => UNCHANGED P!vars
BY DEF P!vars

\* The initial states of the pool are initial states of ParallelFor.
LEMMA InitMapped == Init => P!Init
<1> SUFFICES ASSUME Init PROVE P!Init
  OBVIOUS
<1>1. ~InRun /\ \A t \in Threads : pc[t] \notin {"working", "comparing"}
  BY HelpersAssumption DEF HelpersAssumption, Init, InRun, InLoop, Threads
<1>2. Todo = {} /\ Doing = [t \in Threads |-> None]
  BY <1>1 DEF Todo, Doing
<1>3. None = P!None
  BY DEF None, P!None
<1> QED BY <1>1, <1>2, <1>3 DEF P!Init, Init

\* Every step of the pool is a step of ParallelFor or a stutter.
LEMMA StepMapped == IInv /\ RInv /\ [Next]_vars => [P!Next]_(P!vars)
<1> SUFFICES ASSUME IInv, RInv, [Next]_vars PROVE P!Next \/ P!vars' = P!vars
  OBVIOUS
<1> USE HelpersAssumption
    DEF HelpersAssumption, IInv, TypeOK, InRun, InLoop, MoveTo, Threads,
        CallerPlaces, HelperPlaces, Joined, shared, history
<1>1. CASE UNCHANGED vars
  BY <1>1, MappingIs DEF vars, Todo, Doing
<1>2. CASE Post
  <2>1. \A t \in Threads : pc[t] \notin InLoop
    BY <1>2, LoopIsInRun DEF Post
  <2>2. ~InRun /\ InRun'
    BY <1>2 DEF Post
  <2>3. \A t \in Threads : Doing[t] = None /\ Doing'[t] = None
    BY <1>2, <2>1 DEF Post, Doing
  <2>4. \E n \in 1 .. MaxCount : Todo' = 0 .. n - 1
    BY <1>2, <2>2 DEF Post, Todo
  <2>5. P!Begin
    BY <1>2, <2>2, <2>3, <2>4
    DEF Post, P!Begin, Todo, Doing, None, P!None
  <2> QED BY <2>5 DEF P!Next
<1>3. CASE Return
  <2>1. Owing = {}
    BY <1>3, OwingIsFinite, FS_EmptySet DEF Return, CountsOwing
  <2>2. \A h \in Helpers : pc[h] \notin Joined
    BY <2>1 DEF Owing
  <2>3. InRun /\ ~InRun'
    BY <1>3 DEF Return
  <2>4. \A t \in Threads : Doing[t] = None /\ Doing'[t] = None
    BY <1>3, <2>2 DEF Return, Doing
  <2>5. Todo = {} \/ \A t \in Threads : failedAt[t] # None
    <3>1. \A t \in Threads : failedAt[t] = None => nextIndex >= count
      BY <1>3, <2>1, <2>3 DEF Return, RInv, NoneLeftOver, PartOver
    <3>2. nextIndex >= count => Todo = {}
      BY DEF Todo
    <3> QED BY <3>1, <3>2
  <2>6. Todo' = {}
    BY <2>3 DEF Todo
  <2>7. /\ callerFailure = failedAt[Caller]
        /\ firstFailure = None => \A h \in Helpers : failedAt[h] = None
        /\ firstFailure # None => \E h \in Helpers : failedAt[h] = firstFailure
    BY <2>2, <2>3 DEF RInv, FailureIsKept
  <2>8. IF \A t \in Threads : failedAt[t] = None
        THEN outcome' = None
        ELSE \E t \in Threads : failedAt[t] # None /\ outcome' = failedAt[t]
    BY <1>3, <2>7 DEF Return
  <2>9. P!Return
    <3>1. Doing' = Doing
      BY <2>4 DEF Doing
    <3>2. None = P!None /\ UNCHANGED failedAt
      BY <1>3 DEF Return, None, P!None
    <3> HIDE DEF InRun
    <3> QED BY <2>3, <2>4, <2>5, <2>6, <2>8, <3>1, <3>2 DEF P!Return
  <2> QED BY <2>9 DEF P!Next
<1>4. ASSUME NEW t \in Threads, Claim(t), nextIndex < count PROVE P!Next
  <2>1. InRun /\ InRun'
    BY <1>4, LoopIsInRun DEF Claim
  <2>2. nextIndex \in Todo /\ Todo' = Todo \ {nextIndex}
    BY <1>4, <2>1 DEF Claim, Todo
  <2>3. Doing[t] = None /\ failedAt[t] = None
    BY <1>4 DEF Claim, Doing, RInv, FailedIsOut
  <2>4. Doing' = [Doing EXCEPT ![t] = nextIndex]
    BY <1>4 DEF Claim, Doing
  <2>5. P!Start(t)
    BY <1>4, <2>1, <2>2, <2>3, <2>4
    DEF Claim, P!Start, Todo, Doing, None, P!None
  <2> QED BY <2>5 DEF P!Next
<1>5. ASSUME NEW t \in Threads, BodyReturns(t) \/ BodyThrows(t) PROVE P!Next
  <2>1. InRun /\ InRun'
    BY <1>5, LoopIsInRun DEF BodyReturns, BodyThrows
  <2>2. Todo' = Todo
    BY <1>5, <2>1 DEF BodyReturns, BodyThrows, Todo
  <2>3. Doing[t] = index[t] /\ index[t] # None
    <3>1. pc[t] = "working"
      BY <1>5 DEF BodyReturns, BodyThrows
    <3>2. index[t] \in Nat
      BY <3>1 DEF DistinctIndices, Drew
    <3>3. Doing[t] = index[t]
      BY <3>1 DEF Doing
    <3>4. \A n \in Nat : n # None
      BY DEF None
    <3> QED BY <3>2, <3>3, <3>4
  <2>4. Doing' = [Doing EXCEPT ![t] = None]
    <3>1. /\ UNCHANGED <<index, count>> /\ \A u \in Threads \ {t} : pc'[u] = pc[u]
          /\ pc'[t] \notin {"working", "comparing"}
      BY <1>5 DEF BodyReturns, BodyThrows
    <3>2. \A u \in Threads \ {t} : Doing'[u] = Doing[u]
      BY <3>1 DEF Doing
    <3>3. Doing'[t] = None
      BY <3>1 DEF Doing
    <3> QED BY <3>2, <3>3 DEF Doing
  <2>5. BodyReturns(t) => P!Finish(t)
    BY <2>1, <2>2, <2>3, <2>4
    DEF BodyReturns, P!Finish, Todo, Doing, None, P!None
  <2>6. BodyThrows(t) => P!Fail(t)
    BY <2>1, <2>2, <2>3, <2>4
    DEF BodyThrows, P!Fail, Todo, Doing, None, P!None
  <2> QED BY <1>5, <2>5, <2>6 DEF P!Next
<1>6. ASSUME NEW t \in Threads, Claim(t), nextIndex >= count
      PROVE  P!vars' = P!vars
  <2>1. InRun /\ InRun'
    BY <1>6, LoopIsInRun DEF Claim
  <2>2. Todo' = Todo
    BY <1>6, <2>1 DEF Claim, Todo
  <2>3. Doing' = Doing
    BY <1>6 DEF Claim, Doing
  <2> QED BY <1>6, <2>1, <2>2, <2>3, MappingIs DEF Claim
<1>7. ASSUME NEW t \in Threads, Enter(t) \/ Compare(t) PROVE P!vars' = P!vars
  <2>1. InRun /\ InRun'
    BY <1>7, LoopIsInRun DEF Enter, Compare, AfterLoop
  <2>2. Todo' = Todo
    BY <1>7, <2>1 DEF Enter, Compare, Todo
  <2>3. Doing' = Doing
    BY <1>7 DEF Enter, Compare, AfterLoop, Doing, DistinctIndices, Drew
  <2> QED BY <1>7, <2>1, <2>2, <2>3, MappingIs DEF Enter, Compare
<1>8. CASE \/ ShutDown \/ Announce \/ WaitForHelpers \/ WakeToExit
           \/ JoinWorkers
  <2>1. InRun' = InRun
    BY <1>8 DEF ShutDown, Announce, WaitForHelpers, WakeToExit, JoinWorkers,
                WakeHelpers
  <2>2. Todo' = Todo
    BY <1>8, <2>1 DEF ShutDown, Announce, WaitForHelpers, WakeToExit,
                      JoinWorkers, Todo
  <2>3. Doing' = Doing
    <3>1. CASE Announce \/ WakeToExit
      BY <3>1, Woken DEF Doing
    <3>2. CASE ShutDown \/ WaitForHelpers \/ JoinWorkers
      BY <3>2 DEF ShutDown, WaitForHelpers, JoinWorkers, Doing
    <3> QED BY <1>8, <3>1, <3>2
  <2> QED BY <1>8, <2>1, <2>2, <2>3, MappingIs
          DEF ShutDown, Announce, WaitForHelpers, WakeToExit, JoinWorkers
<1>9. ASSUME NEW h \in Helpers, HelperStep(h) PROVE P!vars' = P!vars
  <2>1. InRun' = InRun
    BY <1>9 DEF HelperStep, Look, RememberCurrentFailure, SignOff
  <2>2. Todo' = Todo
    BY <1>9, <2>1 DEF HelperStep, Look, RememberCurrentFailure, SignOff, Todo
  <2>3. Doing' = Doing
    BY <1>9 DEF HelperStep, Look, RememberCurrentFailure, SignOff, Doing
  <2> QED BY <1>9, <2>1, <2>2, <2>3, MappingIs
          DEF HelperStep, Look, RememberCurrentFailure, SignOff
<1>10. ASSUME NEW t \in Threads, SpuriousWake(t) PROVE P!vars' = P!vars
  <2>1. InRun' = InRun
    BY <1>10 DEF SpuriousWake
  <2>2. Todo' = Todo
    BY <1>10, <2>1 DEF SpuriousWake, Todo
  <2>3. Doing' = Doing
    BY <1>10 DEF SpuriousWake, Doing
  <2> QED BY <1>10, <2>1, <2>2, <2>3, MappingIs DEF SpuriousWake
<1> QED
  BY <1>1, <1>2, <1>3, <1>4, <1>5, <1>6, <1>7, <1>8, <1>9, <1>10
  DEF Next, Gone, CallerStep, LoopStep

\* Every index goes to exactly one thread, run returns only when no thread is
\* in body and none is left over unless every thread failed, and it rethrows
\* exactly when a call of body threw (task_pool.cpp:100-143).
THEOREM Refinement == Spec => ImplementsParallelFor
<1>1. IInv /\ RInv /\ [Next]_vars => [P!Next]_(P!vars)
  BY StepMapped
<1> QED BY RefinementInvariance, InitMapped, <1>1, PTL
        DEF Spec, ImplementsParallelFor, P!Spec
=============================================================================
