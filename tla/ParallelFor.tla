----------------------------- MODULE ParallelFor -----------------------------
(***************************************************************************)
(* What task_pool::run(count, body) promises its caller, whatever helpers  *)
(* it uses: every index below count is handed to exactly one thread, the   *)
(* call returns only when no thread is inside body, a thread whose body    *)
(* threw takes no further index, the other threads take the rest, and a    *)
(* failure is reported if and only if some call of body failed.            *)
(*                                                                         *)
(* TaskPool is shown to implement this specification.                      *)
(***************************************************************************)
EXTENDS Integers

CONSTANTS Threads,    \* the caller and the helper threads
          MaxCount    \* the largest count a call is made with

None == -1            \* no index
Indices == 0 .. MaxCount - 1

VARIABLES inRun,      \* a call of run is in progress
          todo,       \* the indices no thread was given yet
          doing,      \* the index each thread is running body on, or None
          failedAt,   \* the index whose call ended each thread's part, or None
          outcome     \* the failure the last call reported, or None

vars == <<inRun, todo, doing, failedAt, outcome>>

Init == /\ inRun = FALSE
        /\ todo = {}
        /\ doing = [t \in Threads |-> None]
        /\ failedAt = [t \in Threads |-> None]
        /\ outcome = None

Begin == /\ ~inRun
         /\ inRun' = TRUE
         /\ \E n \in 1 .. MaxCount : todo' = 0 .. n - 1
         /\ failedAt' = [t \in Threads |-> None]
         /\ outcome' = None
         /\ UNCHANGED doing

Start(t) == /\ inRun
            /\ doing[t] = None /\ failedAt[t] = None
            /\ \E i \in todo : /\ todo' = todo \ {i}
                               /\ doing' = [doing EXCEPT ![t] = i]
            /\ UNCHANGED <<inRun, failedAt, outcome>>

Finish(t) == /\ doing[t] # None
             /\ doing' = [doing EXCEPT ![t] = None]
             /\ UNCHANGED <<inRun, todo, failedAt, outcome>>

Fail(t) == /\ doing[t] # None
           /\ doing' = [doing EXCEPT ![t] = None]
           /\ failedAt' = [failedAt EXCEPT ![t] = doing[t]]
           /\ UNCHANGED <<inRun, todo, outcome>>

\* Indices are left over only when every thread failed.
Return == /\ inRun
          /\ \A t \in Threads : doing[t] = None
          /\ todo = {} \/ \A t \in Threads : failedAt[t] # None
          /\ inRun' = FALSE
          /\ todo' = {}
          /\ IF \A t \in Threads : failedAt[t] = None
             THEN outcome' = None
             ELSE \E t \in Threads : /\ failedAt[t] # None
                                     /\ outcome' = failedAt[t]
          /\ UNCHANGED <<doing, failedAt>>

Next == \/ Begin
        \/ Return
        \/ \E t \in Threads : Start(t) \/ Finish(t) \/ Fail(t)

Spec == Init /\ [][Next]_vars
=============================================================================
