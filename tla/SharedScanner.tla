---------------------------- MODULE SharedScanner -----------------------------
(***************************************************************************)
(* The implementation that copies of a scanner share                       *)
(* (lib/src/scanner.cpp): its reference count, and the worker threads it   *)
(* lends to one scan at a time.  scanner's operations are const or work on *)
(* one object; as for any C++ object, the callers do not write a scanner   *)
(* (construct, assign, destroy) while another thread uses that very one.   *)
(* Different scanners that share an implementation need no such care, and  *)
(* neither do two scans of one scanner.                                    *)
(***************************************************************************)
EXTENDS Integers, FiniteSets

CONSTANTS Threads,
          Scanners,          \* the scanner objects, constructed or not
          Implementations,   \* storage for implementations, used again after delete
          None

ASSUME NoneAssumption == None \notin Threads \cup Scanners \cup Implementations
ASSUME ActorsAssumption ==
  IsFiniteSet(Threads) /\ IsFiniteSet(Scanners) /\ Threads \cap Scanners = {}

VARIABLES
  implementation,   \* scanner -> what its implementation_ points to
  references,       \* implementation -> the reference count
  alive,            \* the implementations constructed and not deleted
  workers,          \* the implementations that made their task_pool
  workersInUse,     \* implementation -> the thread that holds the mutex
  running,          \* implementation -> the threads inside run of its task_pool
  call              \* thread -> the scanner operation it is in

vars == <<implementation, references, alive, workers, workersInUse, running, call>>

Idle == [at |-> "idle", this |-> None, other |-> None]

Init == /\ implementation = [s \in Scanners |-> None]
        /\ references = [i \in Implementations |-> 0]
        /\ alive = {}
        /\ workers = {}
        /\ workersInUse = [i \in Implementations |-> None]
        /\ running = [i \in Implementations |-> {}]
        /\ call = [t \in Threads |-> Idle]

Scanning == {"lease", "lend", "walk", "run", "return"}

\* The callers' part: a scanner is written by one thread, and read only while
\* nobody writes it.
Writing(t, s) == call[t].this = s /\ call[t].at \notin Scanning
Readable(s) == implementation[s] # None /\ \A t \in Threads : ~Writing(t, s)
Unused(s) == \A t \in Threads : call[t].this # s /\ call[t].other # s

Goes(t, at, this, other) ==
  call' = [call EXCEPT ![t] = [at |-> at, this |-> this, other |-> other]]
On(t) == implementation[call[t].this]
From(t) == implementation[call[t].other]

-----------------------------------------------------------------------------
(* Constructing, copying, assigning and destroying.                        *)

Construct(t, s) ==
  /\ call[t] = Idle /\ implementation[s] = None /\ Unused(s)
  /\ \E i \in Implementations \ alive :
       /\ implementation' = [implementation EXCEPT ![s] = i]
       /\ references' = [references EXCEPT ![i] = 1]
       /\ alive' = alive \cup {i}
       /\ workers' = workers \ {i}
       /\ workersInUse' = [workersInUse EXCEPT ![i] = None]
       /\ running' = [running EXCEPT ![i] = {}]
  /\ UNCHANGED call

\* The copy constructor reads the pointer, then counts itself.
CopyPointer(t, s, other) ==
  /\ call[t] = Idle /\ implementation[s] = None /\ Unused(s) /\ Readable(other)
  /\ implementation' = [implementation EXCEPT ![s] = implementation[other]]
  /\ Goes(t, "retain", s, other)
  /\ UNCHANGED <<references, alive, workers, workersInUse, running>>

Retain(t) ==
  /\ call[t].at = "retain"
  /\ references' = [references EXCEPT ![On(t)] = @ + 1]
  /\ Goes(t, "idle", None, None)
  /\ UNCHANGED <<implementation, alive, workers, workersInUse, running>>

\* Fault: the new implementation is counted after the old one is let go.
AssignWithoutRetain(t, s, other) ==
  /\ call[t] = Idle /\ s # other /\ implementation[s] # None /\ Unused(s) /\ Readable(other)
  /\ Goes(t, "assign_release", s, other)
  /\ UNCHANGED <<implementation, references, alive, workers, workersInUse, running>>

\* operator= counts the other's implementation before it lets go of its own,
\* which may be the same one.  Assigning a scanner to itself does nothing.
Assign(t, s, other) ==
  /\ call[t] = Idle /\ s # other /\ implementation[s] # None /\ Unused(s) /\ Readable(other)
  /\ references' = [references EXCEPT ![implementation[other]] = @ + 1]
  /\ Goes(t, "assign_release", s, other)
  /\ UNCHANGED <<implementation, alive, workers, workersInUse, running>>

\* release: whoever takes the count to 0 deletes, in a later step.
AssignRelease(t) ==
  /\ call[t].at = "assign_release"
  /\ references' = [references EXCEPT ![On(t)] = @ - 1]
  /\ Goes(t, IF references[On(t)] = 1 THEN "assign_delete" ELSE "assign_store",
          call[t].this, call[t].other)
  /\ UNCHANGED <<implementation, alive, workers, workersInUse, running>>

\* delete destroys the task_pool with the rest.
Delete(i) ==
  /\ alive' = alive \ {i}
  /\ workers' = workers \ {i}
  /\ UNCHANGED <<references, workersInUse, running>>

AssignDelete(t) ==
  /\ call[t].at = "assign_delete"
  /\ Delete(On(t))
  /\ Goes(t, "assign_store", call[t].this, call[t].other)
  /\ UNCHANGED implementation

AssignStore(t) ==
  /\ call[t].at = "assign_store"
  /\ implementation' = [implementation EXCEPT ![call[t].this] = From(t)]
  /\ Goes(t, "idle", None, None)
  /\ UNCHANGED <<references, alive, workers, workersInUse, running>>

\* Fault: the last one to go does not delete.
DestroyLeaking(t, s) ==
  /\ call[t] = Idle /\ implementation[s] # None /\ Unused(s)
  /\ references' = [references EXCEPT ![implementation[s]] = @ - 1]
  /\ implementation' = [implementation EXCEPT ![s] = None]
  /\ UNCHANGED <<alive, workers, workersInUse, running, call>>

\* The destructor.
Destroy(t, s) ==
  /\ call[t] = Idle /\ implementation[s] # None /\ Unused(s)
  /\ references' = [references EXCEPT ![implementation[s]] = @ - 1]
  /\ IF references[implementation[s]] = 1
     THEN Goes(t, "delete", s, None) /\ UNCHANGED implementation
     ELSE UNCHANGED call /\ implementation' = [implementation EXCEPT ![s] = None]
  /\ UNCHANGED <<alive, workers, workersInUse, running>>

DestroyDelete(t) ==
  /\ call[t].at = "delete"
  /\ Delete(On(t))
  /\ implementation' = [implementation EXCEPT ![call[t].this] = None]
  /\ Goes(t, "idle", None, None)

-----------------------------------------------------------------------------
(* Scanning.                                                               *)

Scan(t, s) ==
  /\ call[t] = Idle /\ Readable(s)
  /\ Goes(t, "lease", s, None)
  /\ UNCHANGED <<implementation, references, alive, workers, workersInUse, running>>

\* try_to_lock.  It may fail with nobody holding the mutex; a scan that does
\* not get the workers goes on without.
TakeLease(t) ==
  /\ call[t].at = "lease"
  /\ workersInUse[On(t)] = None
  /\ workersInUse' = [workersInUse EXCEPT ![On(t)] = t]
  /\ Goes(t, "lend", call[t].this, None)
  /\ UNCHANGED <<implementation, references, alive, workers, running>>

GoWithoutLease(t) ==
  /\ call[t].at = "lease"
  /\ Goes(t, "return", call[t].this, None)
  /\ UNCHANGED <<implementation, references, alive, workers, workersInUse, running>>

\* lend_workers: a large enough buffer gets the task_pool, made by the first;
\* a small one does not, and keeps the mutex all the same.
LendWorkers(t) ==
  /\ call[t].at = "lend"
  /\ workers' = workers \cup {On(t)}
  /\ Goes(t, "walk", call[t].this, None)
  /\ UNCHANGED <<implementation, references, alive, workersInUse, running>>

LendNobody(t) ==
  /\ call[t].at = "lend"
  /\ Goes(t, "return", call[t].this, None)
  /\ UNCHANGED <<implementation, references, alive, workers, workersInUse, running>>

\* literal_matcher::find calls run of the task_pool once for each round.
BeginRun(t) ==
  /\ call[t].at = "walk"
  /\ running' = [running EXCEPT ![On(t)] = @ \cup {t}]
  /\ Goes(t, "run", call[t].this, None)
  /\ UNCHANGED <<implementation, references, alive, workers, workersInUse>>

EndRun(t) ==
  /\ call[t].at = "run"
  /\ running' = [running EXCEPT ![On(t)] = @ \ {t}]
  /\ \E next \in {"walk", "return"} : Goes(t, next, call[t].this, None)
  /\ UNCHANGED <<implementation, references, alive, workers, workersInUse>>

\* Fault: a scan that never held the mutex gives it back.
ReturnUnlocking(t) ==
  /\ call[t].at = "return"
  /\ workersInUse' = [workersInUse EXCEPT ![On(t)] = None]
  /\ Goes(t, "idle", None, None)
  /\ UNCHANGED <<implementation, references, alive, workers, running>>

\* Every way out of scan gives the mutex back, if it was had.
Return(t) ==
  /\ call[t].at = "return"
  /\ workersInUse' = [workersInUse EXCEPT ![On(t)] = IF @ = t THEN None ELSE @]
  /\ Goes(t, "idle", None, None)
  /\ UNCHANGED <<implementation, references, alive, workers, running>>

-----------------------------------------------------------------------------
Own(t) ==
  \/ \E s \in Scanners : Construct(t, s) \/ Destroy(t, s)
  \/ \E s, other \in Scanners : CopyPointer(t, s, other) \/ Assign(t, s, other)
  \/ Retain(t) \/ AssignRelease(t) \/ AssignDelete(t) \/ AssignStore(t) \/ DestroyDelete(t)

Search(t) ==
  \/ \E s \in Scanners : Scan(t, s)
  \/ TakeLease(t) \/ GoWithoutLease(t) \/ LendWorkers(t) \/ LendNobody(t)
  \/ BeginRun(t) \/ EndRun(t) \/ Return(t)

Next == \E t \in Threads : Own(t) \/ Search(t)

Spec == Init /\ [][Next]_vars

-----------------------------------------------------------------------------
(* Properties.                                                             *)

Places == Scanning \cup {"idle", "retain", "assign_release", "assign_delete",
                         "assign_store", "delete"}

TypeOK ==
  /\ implementation \in [Scanners -> Implementations \cup {None}]
  /\ references \in [Implementations -> Nat]
  /\ alive \subseteq Implementations /\ workers \subseteq alive
  /\ workersInUse \in [Implementations -> Threads \cup {None}]
  /\ running \in [Implementations -> SUBSET Threads]
  /\ call \in [Threads -> [at : Places, this : Scanners \cup {None},
                           other : Scanners \cup {None}]]

\* A scanner not counted yet, or no longer.
Uncounted(s) ==
  \E t \in Threads :
    call[t].this = s /\ call[t].at \in {"retain", "assign_delete", "assign_store", "delete"}

\* An assignment that counted itself and does not point there yet.
Assigning(t) == call[t].at \in {"assign_release", "assign_delete", "assign_store"}

\* Who counts on i.
Owners(i) == {s \in Scanners : implementation[s] = i /\ ~Uncounted(s)}
             \cup {t \in Threads : Assigning(t) /\ From(t) = i}

Deletes(t, i) == call[t].at \in {"delete", "assign_delete"} /\ On(t) = i

\* The count is the number of owners, at every moment of every copy.
ReferencesAreExact ==
  \A i \in alive : references[i] = Cardinality(Owners(i))

\* What a thread is about to touch exists: no step of any operation works on
\* an implementation another one deleted.
NothingDeletedIsUsed ==
  /\ \A t \in Threads :
       /\ call[t].at \notin {"idle", "assign_store"} => On(t) \in alive
       /\ call[t].other # None => From(t) \in alive
  /\ \A s \in Scanners : Readable(s) => implementation[s] \in alive

\* An implementation nobody owns is being deleted, by one thread: none leaks,
\* none is deleted twice.
DeletedByTheLast ==
  \A i \in alive : Owners(i) = {} <=> Cardinality({t \in Threads : Deletes(t, i)}) = 1

\* A task_pool serves one run at a time, of a thread that holds the lease, and
\* is not destroyed under it.  That is what ParallelFor and TaskPool assume.
WorkersServeOne ==
  \A i \in Implementations : \A t \in running[i] :
    running[i] = {t} /\ workersInUse[i] = t /\ i \in workers
=============================================================================
