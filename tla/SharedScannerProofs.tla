------------------------- MODULE SharedScannerProofs --------------------------
(***************************************************************************)
(* For any number of threads, scanners and implementations: the reference  *)
(* count is exact, the last owner and nobody else deletes, and the workers *)
(* serve one run at a time.                                                *)
(***************************************************************************)
EXTENDS SharedScanner, FiniteSetTheorems, TLAPS

Writers == {"retain", "assign_release", "assign_delete", "assign_store", "delete"}

\* What an operation in progress works on.
Shape ==
  \A t \in Threads :
    LET c == call[t]
    IN /\ c.at = "idle" => c = Idle
       /\ c.at # "idle" => c.this \in Scanners /\ implementation[c.this] # None
       /\ c.at \in {"retain", "assign_release", "assign_delete", "assign_store"} =>
            c.other \in Scanners /\ c.other # c.this /\ implementation[c.other] # None
       /\ c.at = "retain" => implementation[c.this] = implementation[c.other]
       /\ c.at \in Scanning \cup {"delete"} => c.other = None

\* The callers keep their part: who writes a scanner is alone with it.
Exclusive ==
  \A t, u \in Threads :
    t # u /\ call[t].at \in Writers =>
      call[u].this # call[t].this /\ call[u].other # call[t].this

\* The count of an implementation is that of its owners, what is owned exists,
\* and what is not is being deleted by one thread.
Accounted(i) ==
  /\ i \in alive => references[i] = Cardinality(Owners(i))
  /\ Owners(i) # {} => i \in alive
  /\ \A t \in Threads :
       Deletes(t, i) => /\ i \in alive /\ Owners(i) = {}
                        /\ \A u \in Threads : Deletes(u, i) => u = t
  /\ i \in alive /\ Owners(i) = {} => \E t \in Threads : Deletes(t, i)

\* A scan that was lent the workers holds the mutex.
Leased ==
  /\ \A t \in Threads :
       /\ call[t].at \in {"lend", "walk", "run"} => workersInUse[On(t)] = t
       /\ call[t].at \in {"walk", "run"} => On(t) \in workers
  /\ \A i \in Implementations : \A t \in running[i] : call[t].at = "run" /\ On(t) = i

Ownership == \A i \in Implementations : Accounted(i)

IInv == TypeOK /\ Shape /\ Exclusive /\ Ownership /\ Leased

\* The sets counted are finite.
LEMMA OwnersFinite == \A i : IsFiniteSet(Owners(i))
<1> SUFFICES ASSUME NEW i PROVE IsFiniteSet(Owners(i))
  OBVIOUS
<1> DEFINE S == {s \in Scanners : implementation[s] = i /\ ~Uncounted(s)}
           T == {t \in Threads : Assigning(t) /\ From(t) = i}
<1>1. IsFiniteSet(S) /\ IsFiniteSet(T)
  <2>1. S \subseteq Scanners /\ T \subseteq Threads
    OBVIOUS
  <2> HIDE DEF S, T
  <2> QED BY <2>1, ActorsAssumption, FS_Subset DEF ActorsAssumption
<1>2. IsFiniteSet(S \cup T)
  <2> HIDE DEF S, T
  <2> QED BY <1>1, FS_Union
<1> QED BY <1>2 DEF Owners

\* An implementation whose owners, count and deleters are the same is accounted
\* for as before.
LEMMA AccountStays ==
  ASSUME NEW i, Accounted(i),
         Owners(i)' = Owners(i), references'[i] = references[i], i \in alive' <=> i \in alive,
         \A u \in Threads : Deletes(u, i)' <=> Deletes(u, i)
  PROVE  Accounted(i)'
BY DEF Accounted

\* The initial states satisfy the invariant.
LEMMA InitIInv == Init => IInv
<1> SUFFICES ASSUME Init PROVE IInv
  OBVIOUS
<1> USE NoneAssumption DEF NoneAssumption, Init, Idle
<1>1. TypeOK
  BY DEF TypeOK, Places
<1>2. \A i \in Implementations : Owners(i) = {}
  BY DEF Owners, Assigning
<1>3. Shape /\ Exclusive /\ Leased
  BY DEF Shape, Exclusive, Leased, Writers, Scanning
<1>4. Ownership
  BY <1>2 DEF Ownership, Accounted, Deletes, TypeOK
<1> QED BY <1>1, <1>3, <1>4 DEF IInv

\* A scanner nobody writes owns what it points to, so that exists.
LEMMA SettledIsOwner ==
  ASSUME IInv, NEW s \in Scanners, implementation[s] # None,
         \A t \in Threads : call[t].this = s => call[t].at \notin Writers
  PROVE  /\ implementation[s] \in alive
         /\ s \in Owners(implementation[s])
<1>1. implementation[s] \in Implementations
  BY DEF IInv, TypeOK
<1>2. ~Uncounted(s)
  BY DEF Uncounted, Writers
<1>3. s \in Owners(implementation[s])
  BY <1>2 DEF Owners
<1> QED BY <1>1, <1>3 DEF IInv, Ownership, Accounted

\* What an operation reads through is such a scanner.
LEMMA ReadIsAlive ==
  ASSUME IInv, NEW t \in Threads
  PROVE  /\ call[t].at \in Scanning =>
              On(t) \in alive /\ call[t].this \in Owners(On(t))
         /\ call[t].other # None =>
              From(t) \in alive /\ call[t].other \in Owners(From(t))
<1> DEFINE c == call[t]
<1>1. CASE c.at \in Scanning
  <2>1. c.this \in Scanners /\ implementation[c.this] # None /\ c.other = None
    BY <1>1 DEF IInv, Shape, Scanning
  <2>2. \A u \in Threads : call[u].this = c.this => call[u].at \notin Writers
    BY <1>1 DEF IInv, Exclusive, Writers, Scanning
  <2> QED BY <2>1, <2>2, SettledIsOwner DEF On
<1>2. CASE c.other # None
  <2>0. c \in [at : Places, this : Scanners \cup {None}, other : Scanners \cup {None}]
    BY DEF IInv, TypeOK
  <2>1. /\ c.at \in {"retain", "assign_release", "assign_delete", "assign_store"}
        /\ c.other \in Scanners /\ implementation[c.other] # None /\ c.other # c.this
    BY <1>2, <2>0 DEF IInv, Shape, Places, Scanning, Idle
  <2>2. \A u \in Threads : call[u].this = c.other => call[u].at \notin Writers
    BY <2>1 DEF IInv, Exclusive
  <2> QED BY <2>1, <2>2, SettledIsOwner DEF From, Scanning
<1> QED BY <1>1, <1>2

\* Goes changes the call of one thread.
LEMMA OnlyOneGoes ==
  ASSUME TypeOK, NEW t \in Threads, NEW at, NEW this, NEW other, Goes(t, at, this, other)
  PROVE  /\ call'[t] = [at |-> at, this |-> this, other |-> other]
         /\ \A u \in Threads : u # t => call'[u] = call[u]
         /\ at \in Places /\ this \in Scanners \cup {None} /\ other \in Scanners \cup {None} =>
              call' \in [Threads -> [at : Places, this : Scanners \cup {None},
                                     other : Scanners \cup {None}]]
BY DEF TypeOK, Goes

-----------------------------------------------------------------------------
(* Scanning.                                                               *)

\* What every step of a scan does with its own call.
LEMMA SearchMoves ==
  ASSUME IInv, NEW t \in Threads, Search(t)
  PROVE  /\ implementation' = implementation /\ references' = references /\ alive' = alive
         /\ call[t].at \in Scanning \cup {"idle"}
         /\ \E at \in Scanning \cup {"idle"}, this \in Scanners \cup {None} :
              /\ Goes(t, at, this, None)
              /\ at = "idle" => this = None
              /\ at # "idle" => \/ this \in Scanners /\ Readable(this)
                                \/ this = call[t].this /\ call[t].at \in Scanning
<1> USE DEF Scanning, Idle
<1>1. call[t].this \in Scanners \cup {None}
  BY DEF IInv, TypeOK
<1>2. ASSUME NEW s \in Scanners, Scan(t, s)
      PROVE  /\ Goes(t, "lease", s, None) /\ call[t].at = "idle" /\ Readable(s)
             /\ UNCHANGED <<implementation, references, alive>>
  BY <1>2 DEF Scan
<1>3. CASE \E s \in Scanners : Scan(t, s)
  BY <1>2, <1>3
<1>4. CASE TakeLease(t)
  BY <1>1, <1>4 DEF TakeLease
<1>5. CASE GoWithoutLease(t)
  BY <1>1, <1>5 DEF GoWithoutLease
<1>6. CASE LendWorkers(t)
  BY <1>1, <1>6 DEF LendWorkers
<1>7. CASE LendNobody(t)
  BY <1>1, <1>7 DEF LendNobody
<1>8. CASE BeginRun(t)
  BY <1>1, <1>8 DEF BeginRun
<1>9. CASE EndRun(t)
  <2>1. PICK next \in {"walk", "return"} : Goes(t, next, call[t].this, None)
    BY <1>9 DEF EndRun
  <2> QED BY <1>1, <1>9, <2>1 DEF EndRun
<1>10. CASE Return(t)
  BY <1>1, <1>10 DEF Return
<1> QED BY <1>3, <1>4, <1>5, <1>6, <1>7, <1>8, <1>9, <1>10 DEF Search

\* A scan changes no owner.
LEMMA SearchKeepsOwners ==
  ASSUME IInv, NEW t \in Threads, Search(t)
  PROVE  Shape' /\ Exclusive' /\ Ownership'
<1>1. PICK at \in Scanning \cup {"idle"}, this \in Scanners \cup {None} :
        /\ Goes(t, at, this, None)
        /\ at = "idle" => this = None
        /\ at # "idle" => \/ this \in Scanners /\ Readable(this)
                          \/ this = call[t].this /\ call[t].at \in Scanning
  BY SearchMoves
<1>2. /\ implementation' = implementation /\ references' = references /\ alive' = alive
      /\ call[t].at \in Scanning \cup {"idle"}
  BY SearchMoves
<1>3. /\ call'[t] = [at |-> at, this |-> this, other |-> None]
      /\ \A u \in Threads : u # t => call'[u] = call[u]
  BY <1>1, OnlyOneGoes DEF IInv
<1>4. /\ this # None => this \in Scanners /\ implementation[this] # None
      /\ \A u \in Threads : u # t /\ call[u].at \in Writers => this = None \/ call[u].this # this
  <2>1. CASE at = "idle"
    BY <1>1, <2>1
  <2>2. CASE this \in Scanners /\ Readable(this)
    BY <2>2 DEF Readable, Writing, Writers, Scanning
  <2>3. CASE this = call[t].this /\ call[t].at \in Scanning
    BY <2>3 DEF IInv, Shape, Exclusive, Scanning
  <2> QED BY <1>1, <2>1, <2>2, <2>3
<1>5. \A u \in Threads : call[u].at \in Writers => call[u].this # None
  BY NoneAssumption DEF NoneAssumption, IInv, Shape, Writers
<1>6. Shape'
  <2>1. ASSUME NEW u \in Threads, u = t
        PROVE  /\ call'[t].at = "idle" => call'[t] = Idle
               /\ call'[t].at # "idle" => call'[t].this \in Scanners /\ implementation[call'[t].this] # None
               /\ call'[t].at \notin {"retain", "assign_release", "assign_delete", "assign_store", "delete"}
               /\ call'[t].other = None
    BY <1>1, <1>3, <1>4, NoneAssumption DEF NoneAssumption, Idle, Scanning, IInv, Shape
  <2> QED BY <1>2, <1>3, <2>1 DEF IInv, Shape
<1>7. Exclusive'
  <2>1. call'[t].at \notin Writers /\ call[t].at \notin Writers
    BY <1>2, <1>3 DEF Scanning, Writers
  <2> QED BY <1>3, <1>4, <1>5, <2>1 DEF IInv, Exclusive
<1>8. \A i \in Implementations :
        /\ Owners(i)' = Owners(i)
        /\ \A u \in Threads : Deletes(u, i)' <=> Deletes(u, i)
  <2> SUFFICES ASSUME NEW i \in Implementations
               PROVE  /\ Owners(i)' = Owners(i)
                      /\ \A u \in Threads : Deletes(u, i)' <=> Deletes(u, i)
    OBVIOUS
  <2>1. \A s \in Scanners : Uncounted(s)' <=> Uncounted(s)
    BY <1>2, <1>3 DEF Uncounted, Scanning
  <2>2. \A u \in Threads : /\ Assigning(u)' <=> Assigning(u)
                           /\ Assigning(u) => From(u)' = From(u)
    BY <1>2, <1>3 DEF Assigning, Scanning, From
  <2>3. \A u \in Threads : Deletes(u, i)' <=> Deletes(u, i)
    BY <1>2, <1>3 DEF Deletes, Scanning, On
  <2> QED BY <1>2, <2>1, <2>2, <2>3 DEF Owners
<1>9. Ownership'
  <2>1. ASSUME NEW i \in Implementations PROVE Accounted(i)'
    BY <1>2, <1>8, AccountStays DEF IInv, Ownership
  <2> QED BY <2>1 DEF Ownership
<1> QED BY <1>6, <1>7, <1>9

\* A scan takes, uses and gives back the mutex as it should.
LEMMA SearchKeepsLease ==
  ASSUME IInv, NEW t \in Threads, Search(t)
  PROVE  TypeOK' /\ Leased'
<1>1. PICK at \in Scanning \cup {"idle"}, this \in Scanners \cup {None} :
        Goes(t, at, this, None)
  BY SearchMoves
<1>2. implementation' = implementation /\ references' = references /\ alive' = alive
  BY SearchMoves
<1>3. TypeOK /\ Leased /\ at \in Places
  BY DEF IInv, Places
<1>4. /\ \A u \in Threads : u # t => call'[u] = call[u]
      /\ call' \in [Threads -> [at : Places, this : Scanners \cup {None},
                                other : Scanners \cup {None}]]
  <2> HIDE DEF Goes
  <2> QED BY <1>1, <1>3, OnlyOneGoes
<1>5. \A u \in Threads : u # t => On(u)' = On(u)
  BY <1>2, <1>4 DEF On
<1>6. call[t].at \in Scanning => /\ On(t) \in alive /\ On(t) \in Implementations
  BY <1>3, ReadIsAlive DEF TypeOK
<1>7. \A u \in Threads : \A i \in Implementations :
        u \in running[i] => call[u].at = "run" /\ On(u) = i
  BY <1>3 DEF Leased
<1>8. ASSUME NEW next, NEW here, call[t].at = here, here \in Scanning, next \in Scanning,
             Goes(t, next, call[t].this, None)
      PROVE  call'[t].at = next /\ On(t)' = On(t)
  BY <1>2, <1>3, <1>8 DEF Goes, On, TypeOK
<1> USE DEF Scanning
<1>10. CASE \E s \in Scanners : Scan(t, s)
  <2>1. PICK s \in Scanners : Scan(t, s)
    BY <1>10
  <2>2. call'[t].at = "lease" /\ call[t].at = "idle"
    BY <1>3, <2>1, NoneAssumption DEF Scan, Goes, TypeOK, Idle
  <2>3. workers' = workers /\ workersInUse' = workersInUse /\ running' = running
    BY <2>1 DEF Scan
  <2> QED BY <1>2, <1>3, <1>4, <1>5, <2>2, <2>3 DEF TypeOK, Leased
<1>11. CASE TakeLease(t)
  <2>1. /\ call'[t].at = "lend" /\ On(t)' = On(t) /\ call[t].at = "lease"
        /\ workersInUse[On(t)] = None
        /\ workersInUse' = [workersInUse EXCEPT ![On(t)] = t]
        /\ workers' = workers /\ running' = running
    BY <1>8, <1>11 DEF TakeLease
  <2>2. \A u \in Threads : workersInUse[On(u)] = u => On(u) # On(t)
    BY <2>1, NoneAssumption DEF NoneAssumption
  <2>3. TypeOK'
    BY <1>2, <1>3, <1>4, <1>6, <2>1 DEF TypeOK
  <2>4. ASSUME NEW u \in Threads
        PROVE  /\ call'[u].at \in {"lend", "walk", "run"} => workersInUse'[On(u)'] = u
               /\ call'[u].at \in {"walk", "run"} => On(u)' \in workers'
    <3>1. CASE u = t
      BY <1>3, <1>6, <2>1, <3>1 DEF TypeOK
    <3>2. CASE u # t
      <4>1. call'[u] = call[u] /\ On(u)' = On(u)
        BY <1>4, <1>5, <3>2
      <4>2. workersInUse[On(u)] = u => workersInUse'[On(u)] = u
        BY <2>1, <2>2
      <4> QED BY <1>3, <2>1, <4>1, <4>2 DEF Leased
    <3> QED BY <3>1, <3>2
  <2>5. \A i \in Implementations : \A u \in running'[i] : call'[u].at = "run" /\ On(u)' = i
    BY <1>3, <1>4, <1>5, <2>1, SMTT(30) DEF TypeOK, Leased
  <2> QED BY <2>3, <2>4, <2>5 DEF Leased
<1>12. CASE GoWithoutLease(t) \/ LendNobody(t)
  <2>1. /\ call'[t].at = "return" /\ On(t)' = On(t) /\ call[t].at \in {"lease", "lend"}
        /\ workersInUse' = workersInUse /\ workers' = workers /\ running' = running
    BY <1>8, <1>12 DEF GoWithoutLease, LendNobody
  <2>2. TypeOK'
    BY <1>2, <1>3, <1>4, <2>1 DEF TypeOK
  <2>3. \A u \in Threads :
          /\ call'[u].at \in {"lend", "walk", "run"} => workersInUse'[On(u)'] = u
          /\ call'[u].at \in {"walk", "run"} => On(u)' \in workers'
    BY <1>3, <1>4, <1>5, <2>1 DEF Leased
  <2>4. \A i \in Implementations : running[i] \subseteq Threads /\ t \notin running[i]
    BY <1>3, <1>7, <2>1 DEF TypeOK
  <2>5. \A i \in Implementations : \A u \in running'[i] : call'[u].at = "run" /\ On(u)' = i
    BY <1>4, <1>5, <1>7, <2>1, <2>4
  <2> QED BY <2>2, <2>3, <2>5 DEF Leased
<1>13. CASE LendWorkers(t)
  <2>1. /\ call'[t].at = "walk" /\ On(t)' = On(t) /\ call[t].at = "lend"
        /\ workersInUse' = workersInUse /\ workers' = workers \cup {On(t)}
        /\ running' = running
    BY <1>8, <1>13 DEF LendWorkers
  <2> QED BY <1>2, <1>3, <1>4, <1>5, <1>6, <2>1 DEF TypeOK, Leased
<1>14. CASE BeginRun(t)
  <2>1. /\ call'[t].at = "run" /\ On(t)' = On(t) /\ call[t].at = "walk"
        /\ workersInUse' = workersInUse /\ workers' = workers
        /\ running' = [running EXCEPT ![On(t)] = @ \cup {t}]
    BY <1>8, <1>14 DEF BeginRun
  <2> QED BY <1>2, <1>3, <1>4, <1>5, <1>6, <2>1 DEF TypeOK, Leased
<1>15. CASE EndRun(t)
  <2>1. PICK next \in {"walk", "return"} : Goes(t, next, call[t].this, None)
    BY <1>15 DEF EndRun
  <2>2. /\ call'[t].at = next /\ On(t)' = On(t) /\ call[t].at = "run"
        /\ workersInUse' = workersInUse /\ workers' = workers
        /\ running' = [running EXCEPT ![On(t)] = @ \ {t}]
    BY <1>8, <1>15, <2>1 DEF EndRun
  <2>3. \A i \in Implementations : t \notin running'[i]
    BY <1>3, <1>6, <1>7, <2>2 DEF TypeOK
  <2> QED BY <1>2, <1>3, <1>4, <1>5, <1>6, <2>2, <2>3 DEF TypeOK, Leased
<1>16. CASE Return(t)
  <2>1. /\ call'[t].at = "idle" /\ call[t].at = "return"
        /\ workersInUse' = [workersInUse EXCEPT ![On(t)] = IF @ = t THEN None ELSE @]
        /\ workers' = workers /\ running' = running
    BY <1>3, <1>16 DEF Return, Goes, TypeOK
  <2>2. \A i \in Implementations : t \notin running[i]
    BY <1>7, <2>1
  <2>3. \A u \in Threads : u # t /\ workersInUse[On(u)] = u /\ On(u) \in Implementations
                             => workersInUse'[On(u)] = u
    BY <1>3, <1>6, <2>1 DEF TypeOK
  <2>4. \A u \in Threads : call[u].at \in Scanning => On(u) \in Implementations
    BY <1>3, ReadIsAlive DEF TypeOK
  <2> QED BY <1>2, <1>3, <1>4, <1>5, <1>6, <2>1, <2>2, <2>3, <2>4 DEF TypeOK, Leased
<1> QED BY <1>10, <1>11, <1>12, <1>13, <1>14, <1>15, <1>16 DEF Search

-----------------------------------------------------------------------------
(* Constructing, copying, assigning and destroying.                        *)

Discounted == {"retain", "assign_delete", "assign_store", "delete"}
Counting == {"assign_release", "assign_delete", "assign_store"}

\* A step of thread t in an operation that writes s, and reads other: nobody
\* else works on s, and only s and the thread's own call change.
Writes(t, s, at, other) ==
  /\ call[t].at \in Writers \cup {"idle"}
  /\ call[t].at \in Writers => call[t].this = s
  /\ \A u \in Threads : u # t => call[u].this # s /\ call[u].other # s
  /\ \A u \in Threads : u # t /\ call[u].at \in Writers => call[u].this # other
  /\ implementation' \in [Scanners -> Implementations \cup {None}]
  /\ \A r \in Scanners : r # s => implementation'[r] = implementation[r]
  /\ call' = [call EXCEPT ![t] = IF at = "idle" THEN Idle
                                 ELSE [at |-> at, this |-> s, other |-> other]]
  /\ at # "idle" => implementation'[s] # None
  /\ at \in Writers \ {"delete"} =>
       other \in Scanners /\ other # s /\ implementation[other] # None
  /\ at = "retain" => implementation'[s] = implementation[other]
  /\ at = "delete" => other = None

\* The other threads' operations are not disturbed.
LEMMA WritesFrame ==
  ASSUME IInv, NEW t \in Threads, NEW s \in Scanners, NEW at \in Writers \cup {"idle"},
         NEW other \in Scanners \cup {None}, Writes(t, s, at, other)
  PROVE  /\ Shape' /\ Exclusive'
         /\ call' \in [Threads -> [at : Places, this : Scanners \cup {None},
                                   other : Scanners \cup {None}]]
         /\ \A u \in Threads : u # t =>
              /\ call'[u] = call[u]
              /\ call[u].this \in Scanners => On(u)' = On(u)
              /\ call[u].other \in Scanners => From(u)' = From(u)
<1> USE NoneAssumption DEF NoneAssumption, Writers
<1>1. call \in [Threads -> [at : Places, this : Scanners \cup {None},
                            other : Scanners \cup {None}]]
  BY DEF IInv, TypeOK
<1>2. /\ \A u \in Threads : u # t => call'[u] = call[u]
      /\ call'[t] = IF at = "idle" THEN Idle ELSE [at |-> at, this |-> s, other |-> other]
  BY <1>1 DEF Writes
<1>3. call' \in [Threads -> [at : Places, this : Scanners \cup {None},
                             other : Scanners \cup {None}]]
  BY <1>1 DEF Writes, Places, Idle
<1>4. \A u \in Threads : u # t =>
        /\ call'[u] = call[u]
        /\ call[u].this \in Scanners => implementation'[call[u].this] = implementation[call[u].this]
        /\ call[u].other \in Scanners => implementation'[call[u].other] = implementation[call[u].other]
  BY <1>2 DEF Writes
<1>5. Shape'
  <2>1. /\ call'[t].at = "idle" => call'[t] = Idle
        /\ call'[t].at # "idle" =>
             call'[t].this \in Scanners /\ implementation'[call'[t].this] # None
        /\ call'[t].at \in {"retain", "assign_release", "assign_delete", "assign_store"} =>
             /\ call'[t].other \in Scanners /\ call'[t].other # call'[t].this
             /\ implementation'[call'[t].other] # None
        /\ call'[t].at = "retain" =>
             implementation'[call'[t].this] = implementation'[call'[t].other]
        /\ call'[t].at \in Scanning \cup {"delete"} => call'[t].other = None
    BY <1>2 DEF Writes, Idle, Scanning
  <2>2. \A u \in Threads : u # t =>
          /\ call'[u].at = "idle" => call'[u] = Idle
          /\ call'[u].at # "idle" =>
               call'[u].this \in Scanners /\ implementation'[call'[u].this] # None
          /\ call'[u].at \in {"retain", "assign_release", "assign_delete", "assign_store"} =>
               /\ call'[u].other \in Scanners /\ call'[u].other # call'[u].this
               /\ implementation'[call'[u].other] # None
          /\ call'[u].at = "retain" =>
               implementation'[call'[u].this] = implementation'[call'[u].other]
          /\ call'[u].at \in Scanning \cup {"delete"} => call'[u].other = None
    BY <1>4 DEF IInv, Shape
  <2> QED BY <2>1, <2>2 DEF Shape
<1>6. Exclusive'
  <2>1. \A u \in Threads : u # t /\ call[u].at \in Writers => call[u].this # s /\ call[u].this # None
    BY DEF Writes, IInv, Shape
  <2> QED BY <1>2, <2>1 DEF IInv, Exclusive, Writes, Idle
<1> QED BY <1>3, <1>4, <1>5, <1>6 DEF On, From

\* Who owns what after it.
LEMMA WritesOwners ==
  ASSUME IInv, NEW t \in Threads, NEW s \in Scanners, NEW at \in Writers \cup {"idle"},
         NEW other \in Scanners \cup {None}, Writes(t, s, at, other),
         NEW i \in Implementations
  PROVE  /\ Owners(i)' = (Owners(i) \ {s, t})
                         \cup (IF implementation'[s] = i /\ at \notin Discounted THEN {s} ELSE {})
                         \cup (IF at \in Counting /\ implementation[other] = i THEN {t} ELSE {})
         /\ s \in Owners(i) <=> implementation[s] = i /\ call[t].at \notin Discounted
         /\ t \in Owners(i) <=> call[t].at \in Counting /\ From(t) = i
         /\ \A u \in Threads : u # t => (Deletes(u, i)' <=> Deletes(u, i))
         /\ Deletes(t, i)' <=> at \in {"delete", "assign_delete"} /\ implementation'[s] = i
<1> USE NoneAssumption DEF NoneAssumption
<1>1. \A u \in Threads : u # t =>
        /\ call'[u] = call[u]
        /\ call[u].this \in Scanners => On(u)' = On(u)
        /\ call[u].other \in Scanners => From(u)' = From(u)
  BY WritesFrame
<1>2. call'[t] = IF at = "idle" THEN Idle ELSE [at |-> at, this |-> s, other |-> other]
  BY DEF Writes, IInv, TypeOK
<1>3. Threads \cap Scanners = {} /\ s # t
  BY ActorsAssumption DEF ActorsAssumption
<1>4. \A r \in Scanners : r # s => (Uncounted(r)' <=> Uncounted(r))
  <2>1. call[t].at \in Discounted => call[t].this = s
    BY DEF Writes, Discounted, Writers
  <2> QED BY <1>1, <1>2, <2>1 DEF Uncounted, Discounted, Idle
<1>5. Uncounted(s)' <=> at \in Discounted
  BY <1>1, <1>2 DEF Uncounted, Discounted, Idle, Writes
<1>6. Uncounted(s) <=> call[t].at \in Discounted
  BY DEF Uncounted, Discounted, Writes, Writers
<1>7. \A u \in Threads : u # t =>
        /\ Assigning(u)' <=> Assigning(u)
        /\ Assigning(u) => From(u)' = From(u)
  BY <1>1 DEF Assigning, IInv, Shape
<1>8. /\ Assigning(t)' <=> at \in Counting
      /\ at \in Counting => From(t)' = implementation[other]
  BY <1>2 DEF Assigning, Counting, From, Writes, Writers, Idle
<1>9. Assigning(t) <=> call[t].at \in Counting
  BY DEF Assigning, Counting
<1>10. \A r \in Scanners : r # s => (r \in Owners(i)' <=> r \in Owners(i))
  BY <1>3, <1>4 DEF Owners, Writes
<1>11. \A u \in Threads : u # t => (u \in Owners(i)' <=> u \in Owners(i))
  BY <1>3, <1>7 DEF Owners
<1>12. s \in Owners(i)' <=> implementation'[s] = i /\ at \notin Discounted
  BY <1>3, <1>5 DEF Owners
<1>13. t \in Owners(i)' <=> at \in Counting /\ implementation[other] = i
  BY <1>3, <1>8 DEF Owners
<1>14. Owners(i) \subseteq Scanners \cup Threads /\ Owners(i)' \subseteq Scanners \cup Threads
  BY DEF Owners
<1>15. /\ s \in Owners(i) <=> implementation[s] = i /\ call[t].at \notin Discounted
       /\ t \in Owners(i) <=> call[t].at \in Counting /\ From(t) = i
  BY <1>3, <1>6, <1>9 DEF Owners
<1>16. \A u \in Threads : u # t => (Deletes(u, i)' <=> Deletes(u, i))
  BY <1>1 DEF Deletes, IInv, Shape
<1>17. Deletes(t, i)' <=> at \in {"delete", "assign_delete"} /\ implementation'[s] = i
  BY <1>2 DEF Deletes, On, Idle
<1>18. Owners(i)' = (Owners(i) \ {s, t})
                    \cup (IF implementation'[s] = i /\ at \notin Discounted THEN {s} ELSE {})
                    \cup (IF at \in Counting /\ implementation[other] = i THEN {t} ELSE {})
  BY <1>3, <1>10, <1>11, <1>12, <1>13, <1>14
<1> QED BY <1>15, <1>16, <1>17, <1>18

\* Scans under way keep their lease: what they scan with has an owner.
LEMMA WritesLeased ==
  ASSUME IInv, NEW t \in Threads, NEW s \in Scanners, NEW at \in Writers \cup {"idle"},
         NEW other \in Scanners \cup {None}, Writes(t, s, at, other),
         \A i \in Implementations : /\ running'[i] \subseteq running[i]
                                    /\ Owners(i) # {} => /\ i \in workers => i \in workers'
                                                         /\ workersInUse'[i] = workersInUse[i]
  PROVE  Leased'
<1>1. \A u \in Threads : u # t =>
        /\ call'[u] = call[u]
        /\ call[u].this \in Scanners => On(u)' = On(u)
  BY WritesFrame
<1>2. call[t].at \notin Scanning /\ call'[t].at \notin Scanning
  BY DEF Writes, Writers, Scanning, Idle, IInv, TypeOK
<1>3. \A u \in Threads : call[u].at \in Scanning =>
        On(u) \in Implementations /\ Owners(On(u)) # {} /\ call[u].this \in Scanners
  BY ReadIsAlive DEF IInv, TypeOK, Shape, Scanning
<1> QED BY <1>1, <1>2, <1>3 DEF IInv, Leased, Scanning, TypeOK

\* Counting one more and one less.
LEMMA OneMore ==
  ASSUME NEW S, IsFiniteSet(S), NEW x, x \notin S
  PROVE  Cardinality(S \cup {x}) = Cardinality(S) + 1
BY FS_AddElement

LEMMA OneLess ==
  ASSUME NEW S, IsFiniteSet(S), NEW x \in S
  PROVE  /\ Cardinality(S \ {x}) = Cardinality(S) - 1
         /\ Cardinality(S) = 1 <=> S \ {x} = {}
         /\ Cardinality(S) \in Nat
<1>1. /\ Cardinality(S \ {x}) = Cardinality(S) - 1 /\ IsFiniteSet(S \ {x})
      /\ Cardinality(S) \in Nat /\ Cardinality(S \ {x}) \in Nat
  BY FS_RemoveElement, FS_CardinalityType
<1>2. Cardinality(S \ {x}) = 0 <=> S \ {x} = {}
  BY <1>1, FS_EmptySet
<1> QED BY <1>1, <1>2

\* A new implementation has one owner.
LEMMA ConstructKeeps ==
  ASSUME IInv, NEW t \in Threads, NEW s \in Scanners, Construct(t, s)
  PROVE  IInv'
<1> USE NoneAssumption DEF NoneAssumption
<1>1. PICK n \in Implementations \ alive :
        /\ implementation' = [implementation EXCEPT ![s] = n]
        /\ references' = [references EXCEPT ![n] = 1]
        /\ alive' = alive \cup {n}
        /\ workers' = workers \ {n}
        /\ workersInUse' = [workersInUse EXCEPT ![n] = None]
        /\ running' = [running EXCEPT ![n] = {}]
  BY DEF Construct
<1>2. TypeOK /\ call[t] = Idle /\ call' = call /\ Unused(s) /\ implementation[s] = None
  BY DEF IInv, Construct
<1>3. Writes(t, s, "idle", None)
  <2>1. call' = [call EXCEPT ![t] = Idle] /\ call[t].at = "idle"
    BY <1>2 DEF TypeOK, Idle
  <2>2. \A u \in Threads : call[u].at \in Writers => call[u].this # None
    BY DEF IInv, Shape, Writers
  <2>3. /\ implementation' \in [Scanners -> Implementations \cup {None}]
        /\ \A r \in Scanners : r # s => implementation'[r] = implementation[r]
    BY <1>1, <1>2 DEF TypeOK
  <2>4. \A u \in Threads : call[u].this # s /\ call[u].other # s
    BY <1>2 DEF Unused
  <2> QED BY <2>1, <2>2, <2>3, <2>4 DEF Writes, Writers
<1>4. \A i \in Implementations :
        /\ Owners(i)' = IF i = n THEN {s} ELSE Owners(i)
        /\ \A u \in Threads : Deletes(u, i)' <=> Deletes(u, i)
  <2> SUFFICES ASSUME NEW i \in Implementations
               PROVE  /\ Owners(i)' = IF i = n THEN {s} ELSE Owners(i)
                      /\ \A u \in Threads : Deletes(u, i)' <=> Deletes(u, i)
    OBVIOUS
  <2>1. /\ Owners(i)' = (Owners(i) \ {s, t}) \cup (IF implementation'[s] = i THEN {s} ELSE {})
        /\ s \notin Owners(i) /\ t \notin Owners(i)
        /\ \A u \in Threads : u # t => (Deletes(u, i)' <=> Deletes(u, i))
        /\ ~Deletes(t, i)'
    BY <1>2, <1>3, WritesOwners DEF Writers, Counting, Discounted, Idle
  <2>2. ~Deletes(t, i)
    BY <1>2 DEF Deletes, Idle
  <2>3. implementation'[s] = n
    BY <1>1, <1>2 DEF TypeOK
  <2>4. Owners(n) = {}
    BY <1>1 DEF IInv, Ownership, Accounted
  <2> QED BY <2>1, <2>2, <2>3, <2>4
<1>5. TypeOK'
  BY <1>1, <1>2 DEF TypeOK
<1>6. Shape' /\ Exclusive'
  BY <1>3, WritesFrame DEF Writers
<1>7. ASSUME NEW i \in Implementations PROVE Accounted(i)'
  <2>1. CASE i # n
    <3>1. Owners(i)' = Owners(i) /\ references'[i] = references[i] /\ (i \in alive' <=> i \in alive)
      BY <1>1, <1>2, <1>4, <2>1 DEF TypeOK
    <3> QED BY <1>4, <3>1, AccountStays DEF IInv, Ownership
  <2>2. CASE i = n
    <3>1. Owners(i)' = {s} /\ references'[i] = 1 /\ i \in alive'
      BY <1>1, <1>2, <1>4, <2>2 DEF TypeOK
    <3>2. \A u \in Threads : ~Deletes(u, i)'
      BY <1>1, <1>4, <2>2 DEF IInv, Ownership, Accounted
    <3>3. Cardinality({s}) = 1
      BY FS_Singleton
    <3> QED BY <3>1, <3>2, <3>3 DEF Accounted
  <2> QED BY <2>1, <2>2
<1>8. Leased'
  <2>1. \A i \in Implementations : Owners(i) # {} => i # n
    BY <1>1 DEF IInv, Ownership, Accounted
  <2>2. \A i \in Implementations :
          /\ running'[i] \subseteq running[i]
          /\ Owners(i) # {} => /\ i \in workers => i \in workers'
                               /\ workersInUse'[i] = workersInUse[i]
    BY <1>1, <1>2, <2>1 DEF TypeOK
  <2> QED BY <1>3, <2>2, WritesLeased DEF Writers
<1> QED BY <1>5, <1>6, <1>7, <1>8 DEF IInv, Ownership

\* What makes a step that keeps workers, workersInUse and running keep IInv.
LEMMA QuietWrite ==
  ASSUME IInv, NEW t \in Threads, NEW s \in Scanners, NEW at \in Writers \cup {"idle"},
         NEW other \in Scanners \cup {None}, Writes(t, s, at, other),
         UNCHANGED <<alive, workers, workersInUse, running>>,
         references' \in [Implementations -> Nat],
         Ownership'
  PROVE  IInv'
<1>1. /\ Shape' /\ Exclusive'
      /\ call' \in [Threads -> [at : Places, this : Scanners \cup {None},
                                other : Scanners \cup {None}]]
  BY WritesFrame
<1>2. implementation' \in [Scanners -> Implementations \cup {None}]
  BY DEF Writes
<1>3. TypeOK'
  BY <1>1, <1>2 DEF IInv, TypeOK
<1>4. Leased'
  BY WritesLeased
<1> QED BY <1>1, <1>3, <1>4 DEF IInv

\* A copy points to the implementation and is not counted yet.
LEMMA CopyPointerKeeps ==
  ASSUME IInv, NEW t \in Threads, NEW s \in Scanners, NEW other \in Scanners,
         CopyPointer(t, s, other)
  PROVE  IInv'
<1> USE NoneAssumption DEF NoneAssumption
<1>1. /\ call[t] = Idle /\ Unused(s) /\ implementation[s] = None /\ Readable(other)
      /\ implementation' = [implementation EXCEPT ![s] = implementation[other]]
      /\ call' = [call EXCEPT ![t] = [at |-> "retain", this |-> s, other |-> other]]
      /\ UNCHANGED <<references, alive, workers, workersInUse, running>>
  BY DEF CopyPointer, Goes
<1>2. Writes(t, s, "retain", other)
  <2>1. \A u \in Threads : call[u].this # s /\ call[u].other # s
    BY <1>1 DEF Unused
  <2>2. implementation[other] # None /\ \A u \in Threads : call[u].at \in Writers => call[u].this # other
    BY <1>1 DEF Readable, Writing, Writers, Scanning
  <2>3. /\ implementation' \in [Scanners -> Implementations \cup {None}]
        /\ \A r \in Scanners : r # s => implementation'[r] = implementation[r]
        /\ implementation'[s] = implementation[other] /\ other # s
    BY <1>1, <2>2 DEF IInv, TypeOK
  <2> QED BY <1>1, <2>1, <2>2, <2>3 DEF Writes, Writers, Idle
<1>3. ASSUME NEW i \in Implementations PROVE Accounted(i)'
  <2>1. /\ Owners(i)' = (Owners(i) \ {s, t})
        /\ s \notin Owners(i) /\ t \notin Owners(i)
        /\ \A u \in Threads : u # t => (Deletes(u, i)' <=> Deletes(u, i))
        /\ ~Deletes(t, i)'
    BY <1>1, <1>2, WritesOwners DEF Writers, Counting, Discounted, Idle
  <2>2. ~Deletes(t, i)
    BY <1>1 DEF Deletes, Idle
  <2>3. Owners(i)' = Owners(i) /\ \A u \in Threads : Deletes(u, i)' <=> Deletes(u, i)
    BY <2>1, <2>2
  <2> QED BY <1>1, <2>3, AccountStays DEF IInv, Ownership
<1> QED BY <1>1, <1>2, <1>3, QuietWrite DEF Writers, Ownership, IInv, TypeOK

\* It is counted while the scanner copied keeps the implementation.
LEMMA RetainKeeps ==
  ASSUME IInv, NEW t \in Threads, Retain(t)
  PROVE  IInv'
<1> USE NoneAssumption DEF NoneAssumption
<1> DEFINE s == call[t].this
           n == implementation[s]
<1>1. /\ call[t].at = "retain" /\ s \in Scanners /\ n # None /\ n = From(t)
      /\ call[t].other \in Scanners
      /\ references' = [references EXCEPT ![n] = @ + 1]
      /\ UNCHANGED <<implementation, alive, workers, workersInUse, running>>
  BY DEF Retain, IInv, Shape, On, From
<1>2. call' = [call EXCEPT ![t] = Idle]
  BY DEF Retain, Goes, Idle
<1>3. n \in Implementations /\ n \in alive /\ references \in [Implementations -> Nat]
  BY <1>1, ReadIsAlive DEF IInv, TypeOK
<1>4. Writes(t, s, "idle", None)
  <2>1. \A u \in Threads : u # t => call[u].this # s /\ call[u].other # s
    BY <1>1 DEF IInv, Exclusive, Writers
  <2>2. \A u \in Threads : call[u].at \in Writers => call[u].this # None
    BY DEF IInv, Shape, Writers
  <2>3. implementation \in [Scanners -> Implementations \cup {None}]
    BY DEF IInv, TypeOK
  <2> QED BY <1>1, <1>2, <2>1, <2>2, <2>3 DEF Writes, Writers
<1> HIDE DEF s
<1>5. ASSUME NEW i \in Implementations PROVE Accounted(i)'
  <2>1. /\ Owners(i)' = (Owners(i) \ {s, t}) \cup (IF implementation'[s] = i THEN {s} ELSE {})
        /\ s \notin Owners(i) /\ t \notin Owners(i)
        /\ \A u \in Threads : u # t => (Deletes(u, i)' <=> Deletes(u, i))
        /\ ~Deletes(t, i)'
    BY <1>1, <1>4, WritesOwners DEF Writers, Counting, Discounted
  <2>2. ~Deletes(t, i)
    BY <1>1 DEF Deletes
  <2>3. \A u \in Threads : Deletes(u, i)' <=> Deletes(u, i)
    BY <2>1, <2>2
  <2>4. CASE i # n
    <3>1. Owners(i)' = Owners(i) /\ references'[i] = references[i]
      BY <1>1, <1>3, <2>1, <2>4
    <3> QED BY <1>1, <2>3, <3>1, AccountStays DEF IInv, Ownership
  <2>5. CASE i = n
    <3>1. Owners(i)' = Owners(i) \cup {s} /\ references'[i] = references[i] + 1
      BY <1>1, <1>3, <2>1, <2>5
    <3>2. Cardinality(Owners(i) \cup {s}) = Cardinality(Owners(i)) + 1
      BY <2>1, OwnersFinite, OneMore
    <3>3. Accounted(i) /\ i \in alive /\ Owners(i) # {}
      BY <1>1, <1>3, <2>5, ReadIsAlive DEF IInv, Ownership
    <3> QED BY <1>1, <2>3, <3>1, <3>2, <3>3 DEF Accounted
  <2> QED BY <2>4, <2>5
<1>6. references' \in [Implementations -> Nat]
  BY <1>1, <1>3
<1> QED BY <1>1, <1>4, <1>5, <1>6, QuietWrite DEF Writers, Ownership

\* An assignment counts the implementation it will take.
LEMMA AssignKeeps ==
  ASSUME IInv, NEW t \in Threads, NEW s \in Scanners, NEW other \in Scanners,
         Assign(t, s, other)
  PROVE  IInv'
<1> USE NoneAssumption DEF NoneAssumption
<1> DEFINE n == implementation[other]
<1>1. /\ call[t] = Idle /\ Unused(s) /\ implementation[s] # None /\ Readable(other) /\ s # other
      /\ references' = [references EXCEPT ![n] = @ + 1]
      /\ call' = [call EXCEPT ![t] = [at |-> "assign_release", this |-> s, other |-> other]]
      /\ UNCHANGED <<implementation, alive, workers, workersInUse, running>>
  BY DEF Assign, Goes
<1>2. /\ n # None
      /\ \A u \in Threads : call[u].at \in Writers => call[u].this # other
      /\ \A u \in Threads : call[u].this = other => call[u].at \notin Writers
  BY <1>1 DEF Readable, Writing, Writers, Scanning
<1>3. /\ n \in Implementations /\ n \in alive /\ other \in Owners(n)
      /\ references \in [Implementations -> Nat]
  BY <1>2, SettledIsOwner DEF IInv, TypeOK
<1>4. Writes(t, s, "assign_release", other)
  <2>1. \A u \in Threads : call[u].this # s /\ call[u].other # s
    BY <1>1 DEF Unused
  <2>2. implementation \in [Scanners -> Implementations \cup {None}]
    BY DEF IInv, TypeOK
  <2> QED BY <1>1, <1>2, <2>1, <2>2 DEF Writes, Writers, Idle
<1>5. ASSUME NEW i \in Implementations PROVE Accounted(i)'
  <2>1. /\ Owners(i)' = (Owners(i) \ {s, t})
                        \cup (IF implementation'[s] = i THEN {s} ELSE {})
                        \cup (IF n = i THEN {t} ELSE {})
        /\ s \in Owners(i) <=> implementation[s] = i
        /\ t \notin Owners(i)
        /\ \A u \in Threads : u # t => (Deletes(u, i)' <=> Deletes(u, i))
        /\ ~Deletes(t, i)'
    BY <1>1, <1>4, WritesOwners DEF Writers, Counting, Discounted, Idle
  <2>2. ~Deletes(t, i)
    BY <1>1 DEF Deletes, Idle
  <2>3. \A u \in Threads : Deletes(u, i)' <=> Deletes(u, i)
    BY <2>1, <2>2
  <2>4. CASE i # n
    <3>1. Owners(i)' = Owners(i) /\ references'[i] = references[i]
      BY <1>1, <1>3, <2>1, <2>4
    <3> QED BY <1>1, <2>3, <3>1, AccountStays DEF IInv, Ownership
  <2>5. CASE i = n
    <3>1. Owners(i)' = Owners(i) \cup {t} /\ references'[i] = references[i] + 1
      BY <1>1, <1>3, <2>1, <2>5
    <3>2. Cardinality(Owners(i) \cup {t}) = Cardinality(Owners(i)) + 1
      BY <2>1, OwnersFinite, OneMore
    <3>3. Accounted(i) /\ i \in alive /\ Owners(i) # {}
      BY <1>3, <2>5 DEF IInv, Ownership
    <3> QED BY <1>1, <2>3, <3>1, <3>2, <3>3 DEF Accounted
  <2> QED BY <2>4, <2>5
<1>6. references' \in [Implementations -> Nat]
  BY <1>1, <1>3
<1> QED BY <1>1, <1>4, <1>5, <1>6, QuietWrite DEF Writers, Ownership

\* The scanner lets go of what it had; if it was the last, the thread deletes.
LEMMA AssignReleaseKeeps ==
  ASSUME IInv, NEW t \in Threads, AssignRelease(t)
  PROVE  IInv'
<1> USE NoneAssumption DEF NoneAssumption
<1> DEFINE s == call[t].this
           other == call[t].other
           n == implementation[s]
           at == IF references[n] = 1 THEN "assign_delete" ELSE "assign_store"
<1>1. /\ call[t].at = "assign_release" /\ s \in Scanners /\ n # None
      /\ other \in Scanners /\ other # s /\ implementation[other] # None
      /\ references' = [references EXCEPT ![n] = @ - 1]
      /\ call' = [call EXCEPT ![t] = [at |-> at, this |-> s, other |-> other]]
      /\ UNCHANGED <<implementation, alive, workers, workersInUse, running>>
  BY DEF AssignRelease, Goes, IInv, Shape, On
<1>2. \A u \in Threads : u # t /\ call[u].at \in Writers => call[u].this # other
  BY <1>1 DEF IInv, Exclusive
<1>3. Writes(t, s, at, other)
  <2>1. \A u \in Threads : u # t => call[u].this # s /\ call[u].other # s
    BY <1>1 DEF IInv, Exclusive, Writers
  <2>2. implementation \in [Scanners -> Implementations \cup {None}]
    BY DEF IInv, TypeOK
  <2> QED BY <1>1, <1>2, <2>1, <2>2 DEF Writes, Writers
<1>4. n \in Implementations /\ references \in [Implementations -> Nat]
  BY <1>1 DEF IInv, TypeOK
<1>5. at \in {"assign_delete", "assign_store"}
  OBVIOUS
<1>6. ASSUME NEW i \in Implementations
      PROVE  /\ Owners(i)' = Owners(i) \ {s}
             /\ s \in Owners(i) <=> n = i
             /\ \A u \in Threads : u # t => (Deletes(u, i)' <=> Deletes(u, i))
             /\ ~Deletes(t, i)
             /\ Deletes(t, i)' <=> at = "assign_delete" /\ n = i
  <2> HIDE DEF at, s, other
  <2>1. /\ Owners(i)' = (Owners(i) \ {s, t}) \cup (IF implementation[other] = i THEN {t} ELSE {})
        /\ s \in Owners(i) <=> implementation[s] = i
        /\ t \in Owners(i) <=> From(t) = i
        /\ \A u \in Threads : u # t => (Deletes(u, i)' <=> Deletes(u, i))
        /\ Deletes(t, i)' <=> at = "assign_delete" /\ implementation'[s] = i
    BY <1>1, <1>3, <1>5, WritesOwners DEF Writers, Counting, Discounted
  <2>2. From(t) = implementation[other]
    BY DEF From, other
  <2>3. ~Deletes(t, i)
    BY <1>1 DEF Deletes
  <2>4. s # t
    BY <1>1, ActorsAssumption DEF ActorsAssumption
  <2> QED BY <1>1, <2>1, <2>2, <2>3, <2>4
<1>7. s \in Owners(n) /\ n \in alive /\ references[n] = Cardinality(Owners(n))
  BY <1>4, <1>6 DEF IInv, Ownership, Accounted
<1>8. /\ Cardinality(Owners(n) \ {s}) = references[n] - 1
      /\ references[n] = 1 <=> Owners(n) \ {s} = {}
      /\ references[n] - 1 \in Nat
  <2>1. references[n] = Cardinality(Owners(n)) /\ s \in Owners(n) /\ IsFiniteSet(Owners(n))
    BY <1>7, OwnersFinite
  <2>2. /\ Cardinality(Owners(n) \ {s}) = Cardinality(Owners(n)) - 1
        /\ Cardinality(Owners(n)) = 1 <=> Owners(n) \ {s} = {}
    BY <2>1, OneLess
  <2>3. Cardinality(Owners(n) \ {s}) \in Nat
    BY <2>1, FS_RemoveElement, FS_CardinalityType
  <2> QED BY <2>1, <2>2, <2>3
<1>9. ASSUME NEW i \in Implementations PROVE Accounted(i)'
  <2>1. CASE i # n
    <3>1. Owners(i)' = Owners(i)
      <4> HIDE DEF at, s, n
      <4> QED BY <1>6, <2>1
    <3>2. references'[i] = references[i]
      <4> HIDE DEF at, n
      <4> QED BY <1>1, <1>4, <2>1
    <3>3. \A u \in Threads : Deletes(u, i)' <=> Deletes(u, i)
      BY <1>6, <2>1
    <3> QED BY <1>1, <3>1, <3>2, <3>3, AccountStays DEF IInv, Ownership
  <2>2. CASE i = n
    <3>1. Owners(i)' = Owners(n) \ {s} /\ references'[i] = references[n] - 1 /\ i \in alive'
      BY <1>1, <1>4, <1>6, <1>7, <2>2
    <3>2. \A u \in Threads : u # t => ~Deletes(u, i)'
      BY <1>6, <1>7, <2>2 DEF IInv, Ownership, Accounted
    <3>3. Deletes(t, i)' <=> Owners(n) \ {s} = {}
      BY <1>6, <1>8, <2>2
    <3> QED BY <1>8, <3>1, <3>2, <3>3 DEF Accounted
  <2> QED BY <2>1, <2>2
<1>10. references' \in [Implementations -> Nat]
  BY <1>1, <1>4, <1>8
<1> QED BY <1>1, <1>3, <1>9, <1>10, QuietWrite DEF Writers, Ownership

\* What makes a step that deletes n keep IInv.
LEMMA DeletingWrite ==
  ASSUME IInv, NEW t \in Threads, NEW s \in Scanners, NEW at \in Writers \cup {"idle"},
         NEW other \in Scanners \cup {None}, Writes(t, s, at, other),
         NEW n \in Implementations, Deletes(t, n), Delete(n),
         \A i \in Implementations : Owners(i)' = Owners(i),
         \A i \in Implementations : ~Deletes(t, i)',
         \A i \in Implementations : \A u \in Threads :
           u # t => (Deletes(u, i)' <=> Deletes(u, i))
  PROVE  IInv'
<1>1. /\ Shape' /\ Exclusive'
      /\ call' \in [Threads -> [at : Places, this : Scanners \cup {None},
                                other : Scanners \cup {None}]]
  BY WritesFrame
<1>2. /\ alive' = alive \ {n} /\ workers' = workers \ {n}
      /\ UNCHANGED <<references, workersInUse, running>>
  BY DEF Delete
<1>3. implementation' \in [Scanners -> Implementations \cup {None}]
  BY DEF Writes
<1>4. TypeOK'
  BY <1>1, <1>2, <1>3 DEF IInv, TypeOK
<1>5. Owners(n) = {} /\ \A u \in Threads : Deletes(u, n) => u = t
  BY DEF IInv, Ownership, Accounted
<1>6. Leased'
  <2>1. \A i \in Implementations :
          /\ running'[i] \subseteq running[i]
          /\ Owners(i) # {} => /\ i \in workers => i \in workers'
                               /\ workersInUse'[i] = workersInUse[i]
    BY <1>2, <1>5
  <2> QED BY <2>1, WritesLeased
<1>7. ASSUME NEW i \in Implementations PROVE Accounted(i)'
  <2>1. CASE i # n
    <3>1. ~Deletes(t, i)
      BY <2>1 DEF Deletes
    <3> QED BY <1>2, <2>1, <3>1, AccountStays DEF IInv, Ownership
  <2>2. CASE i = n
    <3>1. \A u \in Threads : ~Deletes(u, i)'
      BY <1>5, <2>2
    <3> QED BY <1>2, <1>5, <2>2, <3>1 DEF Accounted
  <2> QED BY <2>1, <2>2
<1> QED BY <1>1, <1>4, <1>6, <1>7 DEF IInv, Ownership

\* Nobody owned what is deleted.
LEMMA AssignDeleteKeeps ==
  ASSUME IInv, NEW t \in Threads, AssignDelete(t)
  PROVE  IInv'
<1> USE NoneAssumption DEF NoneAssumption
<1> DEFINE s == call[t].this
           other == call[t].other
           n == implementation[s]
<1>1. /\ call[t].at = "assign_delete" /\ s \in Scanners /\ n # None
      /\ other \in Scanners /\ other # s /\ implementation[other] # None
      /\ call' = [call EXCEPT ![t] = [at |-> "assign_store", this |-> s, other |-> other]]
      /\ implementation' = implementation /\ Delete(n)
  BY DEF AssignDelete, Goes, IInv, Shape, On
<1>2. n \in Implementations /\ Deletes(t, n)
  BY <1>1 DEF IInv, TypeOK, Deletes, On
<1>3. Writes(t, s, "assign_store", other)
  <2>1. \A u \in Threads : u # t => call[u].this # s /\ call[u].other # s
    BY <1>1 DEF IInv, Exclusive, Writers
  <2>2. implementation \in [Scanners -> Implementations \cup {None}]
    BY DEF IInv, TypeOK
  <2>3. \A u \in Threads : u # t /\ call[u].at \in Writers => call[u].this # other
    BY <1>1 DEF IInv, Exclusive
  <2> QED BY <1>1, <2>1, <2>2, <2>3 DEF Writes, Writers
<1>4. From(t) = implementation[other]
  BY DEF From
<1> HIDE DEF s, other
<1>5. ASSUME NEW i \in Implementations
      PROVE  /\ Owners(i)' = Owners(i) /\ ~Deletes(t, i)'
             /\ \A u \in Threads : u # t => (Deletes(u, i)' <=> Deletes(u, i))
  <2>1. /\ Owners(i)' = (Owners(i) \ {s, t}) \cup (IF implementation[other] = i THEN {t} ELSE {})
        /\ s \notin Owners(i)
        /\ t \in Owners(i) <=> From(t) = i
        /\ \A u \in Threads : u # t => (Deletes(u, i)' <=> Deletes(u, i))
        /\ ~Deletes(t, i)'
    BY <1>1, <1>3, WritesOwners DEF Writers, Counting, Discounted
  <2> QED BY <1>4, <2>1
<1> QED BY <1>1, <1>2, <1>3, <1>5, DeletingWrite DEF Writers

\* The scanner takes the place of the assignment among the owners.
LEMMA AssignStoreKeeps ==
  ASSUME IInv, NEW t \in Threads, AssignStore(t)
  PROVE  IInv'
<1> USE NoneAssumption DEF NoneAssumption
<1> DEFINE s == call[t].this
           m == From(t)
<1>1. /\ call[t].at = "assign_store" /\ s \in Scanners /\ m # None
      /\ call[t].other \in Scanners
      /\ implementation' = [implementation EXCEPT ![s] = m]
      /\ call' = [call EXCEPT ![t] = Idle]
      /\ UNCHANGED <<references, alive, workers, workersInUse, running>>
  BY DEF AssignStore, Goes, IInv, Shape, From, Idle
<1>2. m \in Implementations /\ references \in [Implementations -> Nat]
  BY <1>1 DEF IInv, TypeOK, From
<1>3. /\ implementation' \in [Scanners -> Implementations \cup {None}]
      /\ \A r \in Scanners : r # s => implementation'[r] = implementation[r]
      /\ implementation'[s] = m
  BY <1>1, <1>2 DEF IInv, TypeOK
<1>4. Writes(t, s, "idle", None)
  <2>1. \A u \in Threads : u # t => call[u].this # s /\ call[u].other # s
    BY <1>1 DEF IInv, Exclusive, Writers
  <2>2. \A u \in Threads : call[u].at \in Writers => call[u].this # None
    BY DEF IInv, Shape, Writers
  <2> QED BY <1>1, <1>3, <2>1, <2>2 DEF Writes, Writers
<1> HIDE DEF s
<1>5. s # t
  BY <1>1, ActorsAssumption DEF ActorsAssumption
<1>6. ASSUME NEW i \in Implementations PROVE Accounted(i)'
  <2>1. /\ Owners(i)' = (Owners(i) \ {s, t}) \cup (IF m = i THEN {s} ELSE {})
        /\ s \notin Owners(i)
        /\ t \in Owners(i) <=> m = i
        /\ \A u \in Threads : u # t => (Deletes(u, i)' <=> Deletes(u, i))
        /\ ~Deletes(t, i)'
    BY <1>1, <1>3, <1>4, WritesOwners DEF Writers, Counting, Discounted
  <2>2. ~Deletes(t, i)
    BY <1>1 DEF Deletes
  <2>3. \A u \in Threads : Deletes(u, i)' <=> Deletes(u, i)
    BY <2>1, <2>2
  <2>4. CASE i # m
    <3>1. Owners(i)' = Owners(i)
      BY <2>1, <2>4
    <3> QED BY <1>1, <2>3, <3>1, AccountStays DEF IInv, Ownership
  <2>5. CASE i = m
    <3> DEFINE S == Owners(i) \ {t}
    <3>1. Owners(i)' = S \cup {s} /\ t \in Owners(i)
      BY <2>1, <2>5
    <3>2. Cardinality(S) = Cardinality(Owners(i)) - 1 /\ Cardinality(Owners(i)) \in Nat
      BY <3>1, OwnersFinite, OneLess
    <3>3. Cardinality(S \cup {s}) = Cardinality(S) + 1
      <4>1. IsFiniteSet(S) /\ s \notin S
        BY <2>1, OwnersFinite, FS_Subset
      <4> QED BY <4>1, OneMore
    <3>4. Accounted(i)
      BY DEF IInv, Ownership
    <3>5. Cardinality(Owners(i)') = Cardinality(Owners(i))
      BY <3>1, <3>2, <3>3
    <3>6. Owners(i)' # {} /\ Owners(i) # {}
      BY <3>1
    <3> QED BY <1>1, <2>3, <3>4, <3>5, <3>6 DEF Accounted
  <2> QED BY <2>4, <2>5
<1> QED BY <1>1, <1>2, <1>4, <1>6, QuietWrite DEF Writers, Ownership

\* A scanner destroyed lets go of what it had; if it was the last, the thread
\* deletes.
LEMMA DestroyKeeps ==
  ASSUME IInv, NEW t \in Threads, NEW s \in Scanners, Destroy(t, s)
  PROVE  IInv'
<1> USE NoneAssumption DEF NoneAssumption
<1> DEFINE n == implementation[s]
           at == IF references[n] = 1 THEN "delete" ELSE "idle"
<1>1. /\ call[t] = Idle /\ n # None /\ Unused(s)
      /\ references' = [references EXCEPT ![n] = @ - 1]
      /\ UNCHANGED <<alive, workers, workersInUse, running>>
  BY DEF Destroy
<1>2. n \in Implementations /\ references \in [Implementations -> Nat] /\ TypeOK
  BY <1>1 DEF IInv, TypeOK
<1>3. /\ implementation' = [implementation EXCEPT ![s] = IF at = "delete" THEN n ELSE None]
      /\ call' = [call EXCEPT ![t] = IF at = "idle" THEN Idle
                                     ELSE [at |-> at, this |-> s, other |-> None]]
  <2>1. CASE references[n] = 1
    <3>1. implementation' = implementation
          /\ call' = [call EXCEPT ![t] = [at |-> "delete", this |-> s, other |-> None]]
      BY <2>1 DEF Destroy, Goes
    <3> QED BY <1>2, <2>1, <3>1 DEF TypeOK
  <2>2. CASE references[n] # 1
    <3>1. implementation' = [implementation EXCEPT ![s] = None] /\ call' = call
      BY <2>2 DEF Destroy
    <3>2. call = [call EXCEPT ![t] = Idle]
      BY <1>1, <1>2 DEF TypeOK
    <3> QED BY <2>2, <3>1, <3>2
  <2> QED BY <2>1, <2>2
<1>4. at \in {"delete", "idle"} /\ (at = "delete" <=> references[n] = 1)
  OBVIOUS
<1> HIDE DEF at
<1>5. /\ implementation' \in [Scanners -> Implementations \cup {None}]
      /\ \A r \in Scanners : r # s => implementation'[r] = implementation[r]
      /\ implementation'[s] = IF at = "delete" THEN n ELSE None
  BY <1>2, <1>3 DEF TypeOK
<1>6. Writes(t, s, at, None)
  <2>1. \A u \in Threads : call[u].this # s /\ call[u].other # s
    BY <1>1 DEF Unused
  <2>2. \A u \in Threads : call[u].at \in Writers => call[u].this # None
    BY DEF IInv, Shape, Writers
  <2> QED BY <1>1, <1>3, <1>4, <1>5, <2>1, <2>2 DEF Writes, Writers, Idle
<1>7. ASSUME NEW i \in Implementations
      PROVE  /\ Owners(i)' = Owners(i) \ {s}
             /\ s \in Owners(i) <=> n = i
             /\ \A u \in Threads : u # t => (Deletes(u, i)' <=> Deletes(u, i))
             /\ ~Deletes(t, i)
             /\ Deletes(t, i)' <=> at = "delete" /\ n = i
  <2>1. /\ Owners(i)' = (Owners(i) \ {s, t})
                        \cup (IF implementation'[s] = i /\ at \notin Discounted THEN {s} ELSE {})
        /\ s \in Owners(i) <=> n = i
        /\ t \notin Owners(i)
        /\ \A u \in Threads : u # t => (Deletes(u, i)' <=> Deletes(u, i))
        /\ Deletes(t, i)' <=> at = "delete" /\ implementation'[s] = i
    BY <1>1, <1>4, <1>6, WritesOwners DEF Writers, Counting, Discounted, Idle
  <2>2. ~Deletes(t, i)
    BY <1>1 DEF Deletes, Idle
  <2>3. ~(implementation'[s] = i /\ at \notin Discounted)
    BY <1>4, <1>5 DEF Discounted
  <2> QED BY <1>4, <1>5, <2>1, <2>2, <2>3
<1>8. s \in Owners(n) /\ n \in alive /\ references[n] = Cardinality(Owners(n))
  BY <1>2, <1>7 DEF IInv, Ownership, Accounted
<1>9. /\ Cardinality(Owners(n) \ {s}) = references[n] - 1
      /\ references[n] = 1 <=> Owners(n) \ {s} = {}
      /\ references[n] - 1 \in Nat
  <2>1. references[n] = Cardinality(Owners(n)) /\ s \in Owners(n) /\ IsFiniteSet(Owners(n))
    BY <1>8, OwnersFinite
  <2>2. /\ Cardinality(Owners(n) \ {s}) = Cardinality(Owners(n)) - 1
        /\ Cardinality(Owners(n)) = 1 <=> Owners(n) \ {s} = {}
    BY <2>1, OneLess
  <2>3. Cardinality(Owners(n) \ {s}) \in Nat
    BY <2>1, FS_RemoveElement, FS_CardinalityType
  <2> QED BY <2>1, <2>2, <2>3
<1>10. ASSUME NEW i \in Implementations PROVE Accounted(i)'
  <2>1. CASE i # n
    <3>1. Owners(i)' = Owners(i)
      BY <1>7, <2>1
    <3>2. references'[i] = references[i]
      BY <1>1, <1>2, <2>1
    <3>3. \A u \in Threads : Deletes(u, i)' <=> Deletes(u, i)
      BY <1>7, <2>1
    <3> QED BY <1>1, <3>1, <3>2, <3>3, AccountStays DEF IInv, Ownership
  <2>2. CASE i = n
    <3>1. Owners(i)' = Owners(n) \ {s} /\ references'[i] = references[n] - 1 /\ i \in alive'
      BY <1>1, <1>2, <1>7, <1>8, <2>2
    <3>2. \A u \in Threads : u # t => ~Deletes(u, i)'
      BY <1>7, <1>8, <2>2 DEF IInv, Ownership, Accounted
    <3>3. Deletes(t, i)' <=> Owners(n) \ {s} = {}
      BY <1>4, <1>7, <1>9, <2>2
    <3> QED BY <1>9, <3>1, <3>2, <3>3 DEF Accounted
  <2> QED BY <2>1, <2>2
<1>11. references' \in [Implementations -> Nat]
  BY <1>1, <1>2, <1>9
<1> QED BY <1>1, <1>4, <1>6, <1>10, <1>11, QuietWrite DEF Writers, Ownership

\* Nobody owned what a destructor deletes either.
LEMMA DestroyDeleteKeeps ==
  ASSUME IInv, NEW t \in Threads, DestroyDelete(t)
  PROVE  IInv'
<1> USE NoneAssumption DEF NoneAssumption
<1> DEFINE s == call[t].this
           n == implementation[s]
<1>1. /\ call[t].at = "delete" /\ s \in Scanners /\ n # None
      /\ call' = [call EXCEPT ![t] = Idle]
      /\ implementation' = [implementation EXCEPT ![s] = None] /\ Delete(n)
  BY DEF DestroyDelete, Goes, IInv, Shape, On, Idle
<1>2. n \in Implementations /\ Deletes(t, n)
  BY <1>1 DEF IInv, TypeOK, Deletes, On
<1>3. /\ implementation' \in [Scanners -> Implementations \cup {None}]
      /\ \A r \in Scanners : r # s => implementation'[r] = implementation[r]
      /\ implementation'[s] = None
  BY <1>1 DEF IInv, TypeOK
<1>4. Writes(t, s, "idle", None)
  <2>1. \A u \in Threads : u # t => call[u].this # s /\ call[u].other # s
    BY <1>1 DEF IInv, Exclusive, Writers
  <2>2. \A u \in Threads : call[u].at \in Writers => call[u].this # None
    BY DEF IInv, Shape, Writers
  <2> QED BY <1>1, <1>3, <2>1, <2>2 DEF Writes, Writers
<1> HIDE DEF s
<1>5. ASSUME NEW i \in Implementations
      PROVE  /\ Owners(i)' = Owners(i) /\ ~Deletes(t, i)'
             /\ \A u \in Threads : u # t => (Deletes(u, i)' <=> Deletes(u, i))
  <2>1. /\ Owners(i)' = (Owners(i) \ {s, t}) \cup (IF implementation'[s] = i THEN {s} ELSE {})
        /\ s \notin Owners(i) /\ t \notin Owners(i)
        /\ \A u \in Threads : u # t => (Deletes(u, i)' <=> Deletes(u, i))
        /\ ~Deletes(t, i)'
    BY <1>1, <1>4, WritesOwners DEF Writers, Counting, Discounted
  <2> QED BY <1>3, <2>1
<1> QED BY <1>1, <1>2, <1>4, <1>5, DeletingWrite DEF Writers

-----------------------------------------------------------------------------
\* No step of any thread breaks it.
LEMMA StepKeeps == IInv /\ [Next]_vars => IInv'
<1> SUFFICES ASSUME IInv, [Next]_vars PROVE IInv'
  OBVIOUS
<1>1. ASSUME NEW t \in Threads, Own(t) PROVE IInv'
  BY <1>1, ConstructKeeps, CopyPointerKeeps, RetainKeeps, AssignKeeps, AssignReleaseKeeps,
     AssignDeleteKeeps, AssignStoreKeeps, DestroyKeeps, DestroyDeleteKeeps DEF Own
<1>2. ASSUME NEW t \in Threads, Search(t) PROVE IInv'
  BY <1>2, SearchKeepsOwners, SearchKeepsLease DEF IInv
<1>3. CASE UNCHANGED vars
  <2>1. \A i : Owners(i)' = Owners(i) /\ \A u \in Threads : Deletes(u, i)' <=> Deletes(u, i)
    BY <1>3 DEF vars, Owners, Uncounted, Assigning, From, Deletes, On
  <2>2. Ownership'
    BY <1>3, <2>1, AccountStays DEF vars, IInv, Ownership
  <2> QED BY <1>3, <2>2 DEF vars, IInv, TypeOK, Shape, Exclusive, Leased, On
<1> QED BY <1>1, <1>2, <1>3 DEF Next

\* The invariant holds of every history of the scanners.
THEOREM Invariance == Spec => []IInv
<1> QED BY InitIInv, StepKeeps, PTL DEF Spec

\* Counts stay natural numbers and workers die with their implementation.
THEOREM TypeCorrect == Spec => []TypeOK
<1>1. IInv => TypeOK
  BY DEF IInv
<1> QED BY <1>1, Invariance, PTL

\* The reference count of implementation is exact.
THEOREM CountsAreExact == Spec => []ReferencesAreExact
<1>1. IInv => ReferencesAreExact
  BY DEF IInv, TypeOK, Ownership, Accounted, ReferencesAreExact
<1> QED BY <1>1, Invariance, PTL

\* No operation touches an implementation that was deleted.
THEOREM NoUseAfterDelete == Spec => []NothingDeletedIsUsed
<1> USE NoneAssumption DEF NoneAssumption
<1>1. ASSUME IInv, NEW t \in Threads
      PROVE  /\ call[t].at \notin {"idle", "assign_store"} => On(t) \in alive
             /\ call[t].other # None => From(t) \in alive
  <2>1. call[t].at \in Places
    BY <1>1 DEF IInv, TypeOK
  <2>2. call[t].at \in {"assign_delete", "delete"} => On(t) \in alive
    <3>1. call[t].at \in {"assign_delete", "delete"} => On(t) \in Implementations
      BY <1>1 DEF IInv, Shape, TypeOK, On
    <3> QED BY <1>1, <3>1 DEF IInv, Ownership, Accounted, Deletes
  <2>3. call[t].at = "retain" => On(t) = From(t) /\ call[t].other # None
    BY <1>1 DEF IInv, Shape, On, From
  <2>4. call[t].at = "assign_release" => On(t) \in alive
    <3>1. CASE call[t].at = "assign_release"
      <4>1. call[t].this \in Scanners /\ On(t) \in Implementations
        BY <1>1, <3>1 DEF IInv, Shape, TypeOK, On
      <4>2. ~Uncounted(call[t].this)
        BY <1>1, <3>1 DEF IInv, Exclusive, Uncounted, Writers
      <4>3. call[t].this \in Owners(On(t))
        BY <4>1, <4>2 DEF Owners, On
      <4> QED BY <1>1, <4>1, <4>3 DEF IInv, Ownership, Accounted
    <3> QED BY <3>1
  <2> QED BY <1>1, <2>1, <2>2, <2>3, <2>4, ReadIsAlive DEF Places
<1>2. ASSUME IInv, NEW s \in Scanners, Readable(s)
      PROVE  implementation[s] \in alive
  BY <1>2, SettledIsOwner DEF Readable, Writing, Writers, Scanning
<1>3. IInv => NothingDeletedIsUsed
  BY <1>1, <1>2 DEF NothingDeletedIsUsed
<1> QED BY <1>3, Invariance, PTL

\* An implementation is being deleted by one thread exactly when it has no
\* owner left: none leaks and none is deleted twice.
THEOREM LastOneDeletes == Spec => []DeletedByTheLast
<1>1. ASSUME IInv, NEW i \in alive
      PROVE  Owners(i) = {} <=> Cardinality({t \in Threads : Deletes(t, i)}) = 1
  <2> DEFINE D == {t \in Threads : Deletes(t, i)}
  <2>1. Accounted(i)
    BY <1>1 DEF IInv, TypeOK, Ownership
  <2>2. CASE Owners(i) = {}
    <3>1. PICK t \in Threads : D = {t}
      BY <2>1, <2>2 DEF Accounted
    <3>2. Cardinality(D) = 1
      BY <3>1, FS_Singleton
    <3> QED BY <2>2, <3>2
  <2>3. CASE Owners(i) # {}
    <3>1. D = {}
      BY <2>1, <2>3 DEF Accounted
    <3>2. Cardinality(D) = 0
      BY <3>1, FS_EmptySet
    <3> QED BY <2>3, <3>2
  <2> QED BY <2>2, <2>3
<1>2. IInv => DeletedByTheLast
  BY <1>1 DEF DeletedByTheLast
<1> QED BY <1>2, Invariance, PTL

\* The task_pool of an implementation serves one run at a time.
THEOREM OneRunAtATime == Spec => []WorkersServeOne
<1>1. ASSUME IInv, NEW i \in Implementations, NEW t \in running[i]
      PROVE  running[i] = {t} /\ workersInUse[i] = t /\ i \in workers
  <2>1. running[i] \subseteq Threads
    BY <1>1 DEF IInv, TypeOK
  <2>2. \A u \in running[i] : workersInUse[i] = u /\ i \in workers
    BY <1>1, <2>1 DEF IInv, Leased
  <2> QED BY <2>1, <2>2
<1>2. IInv => WorkersServeOne
  BY <1>1 DEF WorkersServeOne
<1> QED BY <1>2, Invariance, PTL
=============================================================================
