----------------------------- MODULE SemMapProof -----------------------------
(***************************************************************************)
(* Mutual exclusion, no abort and no lost wake-up of the futex mutex, for  *)
(* any set of threads; and the table of semaphore sets uses its mutex as   *)
(* the mutex is meant to be used: every step of SemMap is a step of Futex  *)
(* or leaves the futex word and the threads' places alone.  What is shown  *)
(* of the mutex therefore holds of the table, and with it the types of the *)
(* table and that its ids name their sets until it grows, for any number   *)
(* of threads and sets and any first length.                               *)
(***************************************************************************)
EXTENDS SemMap, FiniteSetTheorems, TLAPS

-----------------------------------------------------------------------------
(* The mutex.                                                              *)

\* Why the swapped compare-and-exchange does no harm: the word is never
\* LOCKED, so the fast path never succeeds; and the word is CONTENDED for as
\* long as a thread is in.  A thread that sleeps or is about to is one that
\* found the lock taken.
FutexInv ==
  /\ FutexTypeOK
  /\ mtx # LOCKED
  /\ \A t \in Threads : at[t] = "in" => mtx = CONTENDED
  /\ MutualExclusion
  /\ NeverAborts
  /\ NoLostWakeup

LEMMA FutexInitInv == FutexInit => FutexInv
  BY DEF FutexInit, FutexInv, FutexTypeOK, MutualExclusion, NeverAborts, NoLostWakeup,
         Places, UNLOCKED, LOCKED, CONTENDED

LEMMA FutexStepInv == FutexInv /\ [FutexNext]_futexVars => FutexInv'
<1> SUFFICES ASSUME FutexInv, [FutexNext]_futexVars PROVE FutexInv'
  OBVIOUS
<1> USE DEF FutexInv, FutexTypeOK, MutualExclusion, NeverAborts, NoLostWakeup, Places,
            UNLOCKED, LOCKED, CONTENDED, Move
<1>1. ASSUME NEW t \in Threads, Enter(t) PROVE FutexInv'
  BY <1>1 DEF Enter
<1>2. ASSUME NEW t \in Threads, Cas(t) PROVE FutexInv'
  BY <1>2 DEF Cas
<1>3. ASSUME NEW t \in Threads, Exchange(t) PROVE FutexInv'
  BY <1>3 DEF Exchange
<1>4. ASSUME NEW t \in Threads, Wait(t) PROVE FutexInv'
  BY <1>4 DEF Wait
<1>5. ASSUME NEW t \in Threads, Interrupt(t) PROVE FutexInv'
  BY <1>5 DEF Interrupt
<1>6. ASSUME NEW t \in Threads, Unlock(t) PROVE FutexInv'
  BY <1>6 DEF Unlock
<1>7. ASSUME NEW t \in Threads, Wake(t) PROVE FutexInv'
  BY <1>7 DEF Wake
<1>8. CASE UNCHANGED futexVars
  BY <1>8 DEF futexVars
<1>9. QED
  BY <1>1, <1>2, <1>3, <1>4, <1>5, <1>6, <1>7, <1>8 DEF FutexNext, Locking, Unlocking

LEMMA FutexInvariance == FutexSpec => []FutexInv
  BY FutexInitInv, FutexStepInv, PTL DEF FutexSpec

\* FutexLockCore (sysvsem.c:55-71) admits one thread at a time.
THEOREM FutexMutualExclusion == FutexSpec => []MutualExclusion
<1>1. FutexInv => MutualExclusion
  BY DEF FutexInv
<1>2. QED
  BY FutexInvariance, <1>1, PTL

\* FutexUnlockCore (sysvsem.c:81-92) never reaches its abort().
THEOREM FutexNeverAborts == FutexSpec => []NeverAborts
<1>1. FutexInv => NeverAborts
  BY DEF FutexInv
<1>2. QED
  BY FutexInvariance, <1>1, PTL

\* No sleeper is forgotten: waking one thread per unlock is enough.
THEOREM FutexNoLostWakeup == FutexSpec => []NoLostWakeup
<1>1. FutexInv => NoLostWakeup
  BY DEF FutexInv
<1>2. QED
  BY FutexInvariance, <1>1, PTL

-----------------------------------------------------------------------------
(* The table.                                                              *)

LEMMA StepIsFutexStep == [Next]_vars => [FutexNext]_futexVars
<1> SUFFICES ASSUME [Next]_vars PROVE [FutexNext]_futexVars
  OBVIOUS
<1>1. CASE UNCHANGED vars
  BY <1>1 DEF vars, futexVars
<1>2. ASSUME NEW t \in Threads,
             Semget(t) \/ Semop(t) \/ Lock(t) \/ Inside(t) \/ Return(t)
      PROVE  [FutexNext]_futexVars
  <2>1. CASE Semget(t) \/ Semop(t)
    BY <2>1 DEF Semget, Semop, FutexNext
  <2>2. CASE Lock(t)
    BY <2>2 DEF Lock, FutexNext, Unlocking
  <2>3. CASE Leave(t)
    BY <2>3 DEF Leave, FutexNext, Unlocking
  <2>4. CASE Alloc(t) \/ Scan(t) \/ Grow(t) \/ Store(t) \/ Retrieve(t) \/ Return(t)
    BY <2>4 DEF Alloc, Scan, Grow, Store, Retrieve, Return, futexVars
  <2> QED
    BY <1>2, <2>1, <2>2, <2>3, <2>4 DEF Inside
<1> QED
  BY <1>1, <1>2 DEF Next

\* Every behaviour of the table is one of the mutex.
THEOREM TableUsesFutex == Spec => FutexSpec
<1>1. Init => FutexInit
  BY DEF Init
<1> QED
  BY <1>1, StepIsFutexStep, PTL DEF Spec, FutexSpec

\* One thread at a time is between FutexLock(&SetMap.lock) and its release, so
\* AddSetToMap and RetrieveSetFromMap exclude each other.
THEOREM TableMutualExclusion == Spec => []MutualExclusion
  BY TableUsesFutex, FutexMutualExclusion, PTL

-----------------------------------------------------------------------------
Cells == Sets \cup {NULL, Garbage}
Pcs   == {"idle", "alloc", "scan", "grow", "store", "retrieve", "done"}
Slots == 0 .. Len - 1

TableShape ==
  /\ Len \in Nat /\ (Len = 0 \/ Len >= Len0)
  /\ sets \in [Slots -> Cells]
  /\ id \in [Sets -> {None} \cup Slots]

\* What a thread has in hand at each step of its call.
Adding(t)  == call[t].op = "add" /\ call[t].set \in Sets
Getting(t) == call[t].op = "get" /\ call[t].idx \in Slots

InHand(t) ==
  /\ call[t].pc = "idle"     => call[t] = Idle
  /\ call[t].pc = "alloc"    => Adding(t) /\ call[t].idx = None
  /\ call[t].pc = "scan"     => Adding(t) /\ call[t].idx = None /\ Len > 0
  /\ call[t].pc = "grow"     => Adding(t) /\ call[t].idx \in 0 .. Len /\ Len > 0
  /\ call[t].pc = "store"    => Adding(t) /\ call[t].idx \in Slots
  /\ call[t].pc = "retrieve" => Getting(t)
  /\ call[t].pc = "done"     => Getting(t) \/ (Adding(t) /\ call[t].idx \in {None} \cup Slots)

Calls ==
  /\ call \in [Threads -> [pc : Pcs, op : {"none", "add", "get"}, set : Cells, idx : Int]]
  /\ \A t \in Threads : InHand(t)

Table == TableShape /\ Calls

LEMMA LengthIs ==
  ASSUME NEW n \in Nat, NEW f, DOMAIN f = 0 .. n - 1
  PROVE  Cardinality(DOMAIN f) = n
<1>1. Cardinality(0 .. n - 1) = IF 0 > n - 1 THEN 0 ELSE (n - 1) - 0 + 1
  BY FS_Interval
<1> QED
  BY <1>1

LEMMA TableAtFirst == Init => Table
<1> SUFFICES ASSUME Init PROVE Table
  OBVIOUS
<1>1. Len = 0
  BY LengthIs, DOMAIN sets = 0 .. 0 - 1 DEF Init, Len
<1> QED
  BY <1>1, TableAssumption
  DEF Init, Table, TableShape, Slots, Cells, Calls, InHand, Idle, None, Pcs

\* A step of t that leaves the table alone is right when t's own call is.
LEMMA OwnStep ==
  ASSUME Table, NEW t \in Threads, UNCHANGED <<sets, id>>,
         NEW c \in [pc : Pcs, op : {"none", "add", "get"}, set : Cells, idx : Int],
         call' = [call EXCEPT ![t] = c], InHand(t)'
  PROVE  Table'
<1>1. Len' = Len /\ TableShape'
  BY DEF Len, Table, TableShape, Slots
<1>2. \A u \in Threads : u # t => InHand(u)'
  BY <1>1 DEF Table, Calls, InHand, Adding, Getting, Slots
<1> QED
  BY <1>1, <1>2 DEF Table, Calls

\* A table that only gets longer.
LEMMA Longer ==
  ASSUME Table, Len' \in Nat, Len' >= Len,
         NEW u \in Threads, call'[u] = call[u]
  PROVE  InHand(u)'
  BY DEF Table, TableShape, Calls, InHand, Adding, Getting, Slots

LEMMA TableKept == Table /\ [Next]_vars => Table'
<1> SUFFICES ASSUME Table, [Next]_vars PROVE Table'
  OBVIOUS
<1>0. Len0 \in Nat /\ Len0 > 0 /\ W \in Nat /\ None = -1 /\ NULL \in Cells
        /\ Cells = Cells' /\ Sets \subseteq Cells
  BY TableAssumption DEF None, Cells
<1>1. ASSUME NEW t \in Threads, Semget(t) PROVE Table'
  <2> PICK s \in Sets \ Mapped :
         call' = [call EXCEPT ![t] = [pc |-> "alloc", op |-> "add", set |-> s, idx |-> None]]
    BY <1>1 DEF Semget
  <2> DEFINE c == [pc |-> "alloc", op |-> "add", set |-> s, idx |-> None]
  <2>1. InHand(t)'
    BY DEF InHand, Adding, Table, Calls
  <2>2. c \in [pc : Pcs, op : {"none", "add", "get"}, set : Cells, idx : Int]
    BY <1>0 DEF Pcs
  <2>3. UNCHANGED <<sets, id>>
    BY <1>1 DEF Semget, tableVars
  <2> QED
    BY <2>1, <2>2, <2>3, OwnStep
<1>2. ASSUME NEW t \in Threads, Semop(t) PROVE Table'
  <2> PICK s \in Sets :
         /\ id[s] # None
         /\ call' = [call EXCEPT ![t] = [pc |-> "retrieve", op |-> "get", set |-> NULL, idx |-> id[s]]]
    BY <1>2 DEF Semop
  <2>1. UNCHANGED <<sets, id>> /\ Len' = Len /\ id[s] \in Slots
    BY <1>2 DEF Semop, tableVars, Len, Table, TableShape
  <2>2. InHand(t)'
    BY <2>1 DEF InHand, Getting, Table, Calls, Slots
  <2> DEFINE c == [pc |-> "retrieve", op |-> "get", set |-> NULL, idx |-> id[s]]
  <2>3. c \in [pc : Pcs, op : {"none", "add", "get"}, set : Cells, idx : Int]
    BY <1>0, <2>1 DEF Pcs, Slots
  <2> QED
    BY <2>1, <2>2, <2>3, OwnStep
<1>3. ASSUME NEW t \in Threads, Lock(t) \/ Leave(t) PROVE Table'
  <2>1. UNCHANGED <<call, sets, id>>
    BY <1>3 DEF Lock, Leave, tableVars
  <2> QED
    BY <2>1 DEF Table, TableShape, Calls, InHand, Adding, Getting, Slots, Len
<1>4. ASSUME NEW t \in Threads, Alloc(t) PROVE Table'
  <2> DEFINE c(pc2) == [call[t] EXCEPT !.pc = pc2]
  <2>1. Adding(t) /\ call[t].idx = None /\ call[t].pc = "alloc" /\ id' = id
    BY <1>4 DEF Alloc, InLock, Table, Calls, InHand
  <2>2. CASE UNCHANGED sets
    <3>1. Len' = Len
      BY <2>2 DEF Len
    <3>2. PICK pc2 \in {"scan", "done"} :
            call' = [call EXCEPT ![t] = c(pc2)] /\ (pc2 = "scan" => Len > 0)
      <4>1. CASE Len > 0 /\ Then(t, "scan")
        BY <4>1 DEF Then
      <4>2. CASE Len = 0 /\ Then(t, "done")
        BY <4>2 DEF Then
      <4>3. CASE Len = 0 /\ sets' = Zeros
        <5>1. DOMAIN sets = {} /\ 0 \in DOMAIN Zeros
          BY <1>0, <4>3 DEF Table, TableShape, Slots, Zeros
        <5> QED
          BY <2>2, <4>3, <5>1
      <4> QED
        BY <1>4, <4>1, <4>2, <4>3 DEF Alloc
    <3>3. c(pc2) \in [pc : Pcs, op : {"none", "add", "get"}, set : Cells, idx : Int]
      BY DEF Table, Calls, Pcs
    <3>4. InHand(t)'
      BY <2>1, <3>1, <3>2 DEF InHand, Adding, Table, Calls
    <3> QED
      BY <2>1, <2>2, <3>2, <3>3, <3>4, OwnStep
  <2>3. CASE Len = 0 /\ Then(t, "scan") /\ sets' = Zeros
    <3>1. Len' = Len0
      BY <1>0, <2>3, LengthIs, DOMAIN Zeros = 0 .. Len0 - 1 DEF Len, Zeros
    <3>2. TableShape'
      BY <1>0, <2>1, <2>3, <3>1 DEF Table, TableShape, Slots, Zeros
    <3>3. \A u \in Threads : u # t => call'[u] = call[u]
      BY <2>3 DEF Then, Table, Calls
    <3>4. InHand(t)'
      BY <1>0, <2>1, <2>3, <3>1 DEF Then, InHand, Adding, Table, Calls
    <3>5. \A u \in Threads : InHand(u)'
      BY <1>0, <2>3, <3>1, <3>3, <3>4, Longer
    <3>6. call' \in [Threads -> [pc : Pcs, op : {"none", "add", "get"}, set : Cells, idx : Int]]
      BY <2>3 DEF Then, Table, Calls, Pcs
    <3> QED
      BY <3>2, <3>5, <3>6 DEF Table, Calls
  <2> QED
    BY <1>4, <2>2, <2>3 DEF Alloc
<1>5. ASSUME NEW t \in Threads, Scan(t) PROVE Table'
  <2> PICK n \in 0 .. Len :
         /\ FreeSlot(n)
         /\ call' = [call EXCEPT ![t].idx = n, ![t].pc = IF n = Len THEN "grow" ELSE "store"]
    BY <1>5 DEF Scan
  <2> DEFINE c == [call[t] EXCEPT !.idx = n, !.pc = IF n = Len THEN "grow" ELSE "store"]
  <2>1. call' = [call EXCEPT ![t] = c] /\ UNCHANGED <<sets, id>> /\ Len' = Len
    BY <1>5 DEF Scan, tableVars, Len
  <2>2. Adding(t) /\ Len > 0 /\ Len \in Nat
    BY <1>5 DEF Scan, InLock, Table, TableShape, Calls, InHand
  <2>3. c \in [pc : Pcs, op : {"none", "add", "get"}, set : Cells, idx : Int]
    <3>1. n \in Int /\ (IF n = Len THEN "grow" ELSE "store") \in Pcs
      BY <2>2 DEF Pcs
    <3>2. call[t] \in [pc : Pcs, op : {"none", "add", "get"}, set : Cells, idx : Int]
      BY DEF Table, Calls
    <3> QED
      BY <3>1, <3>2
  <2>4. InHand(t)'
    BY <2>1, <2>2 DEF InHand, Adding, Table, Calls, Slots
  <2> QED
    BY <2>1, <2>3, <2>4, OwnStep
<1>6. ASSUME NEW t \in Threads, Grow(t) PROVE Table'
  <2>1. Adding(t) /\ Len > 0 /\ Len \in Nat /\ Len >= Len0 /\ call[t].idx \in 0 .. Len
    BY <1>6 DEF Grow, InLock, Table, TableShape, Calls, InHand
  <2>2. CASE call' = [call EXCEPT ![t].idx = None, ![t].pc = "done"] /\ UNCHANGED sets
    <3> DEFINE c == [call[t] EXCEPT !.idx = None, !.pc = "done"]
    <3>1. call' = [call EXCEPT ![t] = c] /\ UNCHANGED <<sets, id>>
      BY <1>6, <2>2 DEF Grow
    <3>2. c \in [pc : Pcs, op : {"none", "add", "get"}, set : Cells, idx : Int]
      <4>1. None \in Int /\ "done" \in Pcs
        BY <1>0 DEF Pcs
      <4>2. call[t] \in [pc : Pcs, op : {"none", "add", "get"}, set : Cells, idx : Int]
        BY DEF Table, Calls
      <4> QED
        BY <4>1, <4>2
    <3>3. InHand(t)'
      BY <2>1, <3>1 DEF InHand, Adding, Table, Calls
    <3> QED
      BY <3>1, <3>2, <3>3, OwnStep
  <2>3. ASSUME NEW junk \in [Len \div W + Len .. 2 * Len - 1 -> {NULL, Garbage}],
               sets' = [n \in 0 .. 2 * Len - 1 |-> Doubled(n, junk)],
               Then(t, "store")
        PROVE  Table'
    <3>1. Len' = 2 * Len
      BY <2>1, <2>3, LengthIs, DOMAIN sets' = 0 .. 2 * Len - 1, 2 * Len \in Nat DEF Len
    <3>2. Len \div W \in 0 .. Len
      BY <1>0, <2>1, TableAssumption
    <3>3. \A n \in 0 .. 2 * Len - 1 : Doubled(n, junk) \in Cells
      BY <2>1, <3>2 DEF Doubled, Table, TableShape, Slots, Cells
    <3>4. TableShape'
      <4>1. id' = id /\ Slots' = 0 .. 2 * Len - 1
        BY <1>6, <3>1 DEF Grow, Slots
      <4>2. sets' \in [Slots' -> Cells]
        BY <2>3, <3>3, <4>1
      <4>3. id' \in [Sets -> {None} \cup Slots']
        <5>1. Slots \subseteq 0 .. 2 * Len - 1
          BY <2>1 DEF Slots
        <5> QED
          BY <4>1, <5>1 DEF Table, TableShape
      <4> QED
        BY <1>0, <2>1, <3>1, <4>2, <4>3 DEF TableShape
    <3>5. \A u \in Threads : u # t => call'[u] = call[u]
      BY <2>3 DEF Then, Table, Calls
    <3>6. InHand(t)'
      BY <2>1, <2>3, <3>1 DEF Then, InHand, Adding, Table, Calls, Slots
    <3>7. \A u \in Threads : InHand(u)'
      BY <2>1, <3>1, <3>5, <3>6, Longer
    <3>8. call' \in [Threads -> [pc : Pcs, op : {"none", "add", "get"}, set : Cells, idx : Int]]
      BY <2>3 DEF Then, Table, Calls, Pcs
    <3> QED
      BY <3>4, <3>7, <3>8 DEF Table, Calls
  <2> QED
    BY <1>6, <2>2, <2>3 DEF Grow
<1>7. ASSUME NEW t \in Threads, Store(t) PROVE Table'
  <2>1. Adding(t) /\ call[t].idx \in Slots /\ sets' = [sets EXCEPT ![call[t].idx] = call[t].set]
          /\ id' = id /\ call' = [call EXCEPT ![t].pc = "done"]
    BY <1>7 DEF Store, Then, InLock, Table, Calls, InHand
  <2>2. Len' = Len
    BY <2>1 DEF Len
  <2>3. TableShape'
    BY <1>0, <2>1, <2>2 DEF Table, TableShape, Slots, Adding
  <2>4. call' \in [Threads -> [pc : Pcs, op : {"none", "add", "get"}, set : Cells, idx : Int]]
    BY <2>1 DEF Table, Calls, Pcs
  <2>5. \A u \in Threads : u # t => InHand(u)'
    BY <2>1, <2>2 DEF Table, TableShape, Calls, InHand, Adding, Getting, Slots
  <2>6. InHand(t)'
    BY <2>1, <2>2 DEF InHand, Adding, Table, Calls, Slots
  <2> QED
    BY <2>3, <2>4, <2>5, <2>6 DEF Table, Calls
<1>8. ASSUME NEW t \in Threads, Retrieve(t) PROVE Table'
  <2> DEFINE s == IF call[t].idx >= Len THEN NULL ELSE sets[call[t].idx]
             c == [call[t] EXCEPT !.pc = "done", !.set = s]
  <2>1. Getting(t) /\ call' = [call EXCEPT ![t] = c] /\ UNCHANGED <<sets, id>>
    BY <1>8 DEF Retrieve, InLock, Table, Calls, InHand, tableVars
  <2>2. s \in Cells /\ Len' = Len
    BY <1>0, <2>1 DEF Getting, Table, TableShape, Slots, Len
  <2>3. c \in [pc : Pcs, op : {"none", "add", "get"}, set : Cells, idx : Int]
    BY <2>2 DEF Table, Calls, Pcs
  <2>4. InHand(t)'
    BY <2>1, <2>2 DEF InHand, Getting, Table, Calls, Slots
  <2> QED
    BY <2>1, <2>3, <2>4, OwnStep
<1>9. ASSUME NEW t \in Threads, Return(t) PROVE Table'
  <2>1. call' = [call EXCEPT ![t] = Idle] /\ sets' = sets /\ Len' = Len
    BY <1>9 DEF Return, Len
  <2>2. call[t].pc = "done" /\ InHand(t) /\ call[t].op \in {"none", "add", "get"}
    BY <1>9 DEF Return, Table, Calls
  <2>3. id' \in [Sets -> {None} \cup Slots]
    <3>1. CASE call[t].op = "add"
      BY <1>9, <2>2, <3>1 DEF Return, InHand, Adding, Getting, Table, TableShape
    <3>2. CASE call[t].op # "add"
      BY <1>9, <3>2 DEF Return, Table, TableShape
    <3> QED
      BY <3>1, <3>2
  <2>4. TableShape'
    BY <2>1, <2>3 DEF Table, TableShape, Slots
  <2>5. Idle \in [pc : Pcs, op : {"none", "add", "get"}, set : Cells, idx : Int]
    BY <1>0 DEF Idle, Pcs
  <2>6. \A u \in Threads : u # t => InHand(u)'
    BY <2>1 DEF Table, Calls, InHand, Adding, Getting, Slots
  <2>7. InHand(t)'
    BY <2>1 DEF InHand, Idle, Table, Calls
  <2> QED
    BY <2>1, <2>4, <2>5, <2>6, <2>7 DEF Table, Calls
<1>10. CASE UNCHANGED vars
  BY <1>10 DEF vars, Table, TableShape, Calls, InHand, Adding, Getting, Slots, Len
<1> QED
  BY <1>1, <1>2, <1>3, <1>4, <1>5, <1>6, <1>7, <1>8, <1>9, <1>10 DEF Next, Inside

LEMMA TableAlways == Spec => []Table
  BY TableAtFirst, TableKept, PTL DEF Spec

\* Through every growth, failed or not, the table, the ids and what the
\* threads carry keep their types: no index leads outside the table.
THEOREM TableTypes == Spec => []TableTypeOK
<1>1. Table /\ FutexTypeOK => TableTypeOK
  <2> SUFFICES ASSUME Table, FutexTypeOK PROVE TableTypeOK
    OBVIOUS
  <2>1. sets \in UNION {[0 .. n - 1 -> Sets \cup {NULL, Garbage}] : n \in {0, Len}}
    BY DEF Table, TableShape, Slots, Cells
  <2>2. id \in [Sets -> {None} \cup DOMAIN sets]
    BY DEF Table, TableShape
  <2>3. ASSUME NEW t \in Threads
        PROVE  /\ call[t].pc \in {"idle", "alloc", "scan", "grow", "store", "retrieve", "done"}
               /\ call[t].set \in Sets \cup {NULL, Garbage}
               /\ call[t].idx \in None .. Len
    <3>1. InHand(t) /\ call[t].pc \in Pcs /\ call[t].set \in Cells /\ Len \in Nat
      BY DEF Table, TableShape, Calls
    <3> QED
      BY <3>1 DEF InHand, Adding, Getting, Slots, Pcs, Cells, None, Idle
  <2> QED
    BY <2>1, <2>2, <2>3 DEF TableTypeOK
<1>2. FutexInv => FutexTypeOK
  BY DEF FutexInv
<1> QED
  BY <1>1, <1>2, TableAlways, TableUsesFutex, FutexInvariance, PTL

-----------------------------------------------------------------------------
\* What keeps ids and sets together until the table grows: a set belongs to
\* one call of semget and gets its id when that returns; the thread that looks
\* for a slot has the lock, so the slot it found stays free until it stores
\* its set there.
OneOwner ==
  \A t \in Threads : call[t].op = "add" =>
    /\ id[call[t].set] = None
    /\ \A u \in Threads : call[u].op = "add" /\ call[u].set = call[t].set => u = t

HasLock == \A t \in Threads : call[t].pc \in {"scan", "grow", "store"} => at[t] = "in"

NamesKept == \A s \in Sets : id[s] # None => sets[id[s]] = s

CallNames(t) ==
  /\ call[t].pc = "store" => sets[call[t].idx] = NULL
  /\ call[t].pc = "done" /\ call[t].op = "add" /\ call[t].idx # None
       => sets[call[t].idx] = call[t].set
  /\ call[t].pc = "retrieve" => \E s \in Sets : id[s] = call[t].idx
  /\ call[t].pc = "done" /\ call[t].op = "get"
       => call[t].set \in Sets /\ id[call[t].set] = call[t].idx

FirstTable == Len <= Len0 => NamesKept /\ \A t \in Threads : CallNames(t)

Named == OneOwner /\ HasLock /\ FirstTable

LEMMA NamedAtFirst == Init => Named
  BY DEF Init, Named, OneOwner, HasLock, FirstTable, NamesKept, CallNames, Idle, None

\* Steps of the mutex that no call takes part in leave its holder inside.
LEMMA LockSteps ==
  ASSUME at \in [Threads -> Places], NEW t \in Threads, Lock(t)
  PROVE  \A u \in Threads : at[u] = "in" => at'[u] = "in"
  BY DEF Lock, Locking, Interrupt, Wake, Cas, Exchange, Wait, Move, Places

LEMMA NamedKept ==
  ASSUME Table, FutexInv, Named, [Next]_vars
  PROVE  Named'
<1>0. Len0 \in Nat /\ Len0 > 0 /\ None = -1 /\ NULL \notin Sets /\ Len \in Nat
  BY TableAssumption DEF None, Table, TableShape
<1>a. at \in [Threads -> Places]
  BY DEF FutexInv, FutexTypeOK
<1>b. call \in [Threads -> [pc : Pcs, op : {"none", "add", "get"}, set : Cells, idx : Int]]
  BY DEF Table, Calls
<1>1. ASSUME NEW t \in Threads, Semget(t) PROVE Named'
  <2> PICK s \in Sets \ Mapped :
         call' = [call EXCEPT ![t] = [pc |-> "alloc", op |-> "add", set |-> s, idx |-> None]]
    BY <1>1 DEF Semget
  <2>1. UNCHANGED <<sets, id>> /\ Len' = Len /\ call[t].pc = "idle"
    BY <1>1 DEF Semget, tableVars, Len
  <2>2. id[s] = None /\ \A u \in Threads : call[u].set # s
    BY DEF Mapped
  <2>3. OneOwner'
    BY <1>b, <2>1, <2>2 DEF Named, OneOwner
  <2>4. HasLock'
    BY <1>1, <1>a, <1>b DEF Semget, Enter, Move, Named, HasLock
  <2>5. FirstTable'
    BY <1>b, <2>1 DEF Named, FirstTable, NamesKept, CallNames
  <2> QED
    BY <2>3, <2>4, <2>5 DEF Named
<1>2. ASSUME NEW t \in Threads, Semop(t) PROVE Named'
  <2> PICK s \in Sets :
         /\ id[s] # None
         /\ call' = [call EXCEPT ![t] = [pc |-> "retrieve", op |-> "get", set |-> NULL, idx |-> id[s]]]
    BY <1>2 DEF Semop
  <2>1. UNCHANGED <<sets, id>> /\ Len' = Len /\ call[t].pc = "idle"
    BY <1>2 DEF Semop, tableVars, Len
  <2>3. OneOwner'
    BY <1>b, <2>1 DEF Named, OneOwner
  <2>4. HasLock'
    BY <1>2, <1>a, <1>b DEF Semop, Enter, Move, Named, HasLock
  <2>5. FirstTable'
    BY <1>b, <2>1 DEF Named, FirstTable, NamesKept, CallNames
  <2> QED
    BY <2>3, <2>4, <2>5 DEF Named
<1>3. ASSUME NEW t \in Threads, Lock(t) \/ Leave(t) PROVE Named'
  <2>1. UNCHANGED <<call, sets, id>> /\ Len' = Len
    BY <1>3 DEF Lock, Leave, tableVars, Len
  <2>2. HasLock'
    <3>1. CASE Lock(t)
      BY <1>a, <2>1, <3>1, LockSteps DEF Named, HasLock
    <3>2. CASE Leave(t)
      BY <1>a, <2>1, <3>2 DEF Leave, Unlock, Move, Named, HasLock
    <3> QED
      BY <1>3, <3>1, <3>2
  <2> QED
    BY <2>1, <2>2 DEF Named, OneOwner, FirstTable, NamesKept, CallNames
<1>4. ASSUME NEW t \in Threads, Alloc(t) PROVE Named'
  <2>1. id' = id /\ at' = at /\ at[t] = "in" /\ call[t].pc = "alloc" /\ InHand(t)
    BY <1>4 DEF Alloc, InLock, Table, Calls
  <2>2. PICK pc2 \in {"scan", "done"} : Then(t, pc2)
    BY <1>4 DEF Alloc
  <2>3. call' = [call EXCEPT ![t].pc = pc2]
    BY <2>2 DEF Then
  <2>4. OneOwner' /\ HasLock'
    BY <1>b, <2>1, <2>3 DEF Named, OneOwner, HasLock
  <2>5. CASE UNCHANGED sets
    <3>1. Len' = Len
      BY <2>5 DEF Len
    <3>2. call[t].op = "add" /\ call[t].idx = None
      BY <2>1 DEF InHand, Adding
    <3> QED
      BY <1>b, <2>1, <2>3, <2>4, <2>5, <3>1, <3>2 DEF Named, FirstTable, NamesKept, CallNames
  <2>6. CASE Len = 0 /\ sets' = Zeros
    <3>1. NamesKept'
      BY <1>0, <2>1, <2>6 DEF NamesKept, Table, TableShape, Slots
    <3>2. ASSUME NEW u \in Threads PROVE CallNames(u)'
      <4>1. InHand(u) /\ Slots = {}
        BY <1>0, <2>6 DEF Table, Calls, Slots
      <4>2. call[t].idx = None /\ call[t].op = "add"
        BY <2>1 DEF InHand, Adding
      <4>3. CASE u = t
        BY <1>b, <2>3, <4>2, <4>3 DEF CallNames
      <4>4. CASE u # t
        <5>1. call'[u] = call[u]
          BY <1>b, <2>3, <4>4
        <5>2. call[u].pc # "store" /\ call[u].pc # "retrieve"
          BY <4>1 DEF InHand, Getting
        <5>3. call[u].pc = "done" => call[u].op = "add" /\ call[u].idx = None
          BY <4>1 DEF InHand, Getting, Adding
        <5> QED
          BY <5>1, <5>2, <5>3 DEF CallNames
      <4> QED
        BY <4>3, <4>4
    <3> QED
      BY <2>4, <3>1, <3>2 DEF Named, FirstTable
  <2> QED
    BY <1>4, <2>5, <2>6 DEF Alloc
<1>5. ASSUME NEW t \in Threads, Scan(t) PROVE Named'
  <2> PICK n \in 0 .. Len :
         /\ FreeSlot(n)
         /\ call' = [call EXCEPT ![t].idx = n, ![t].pc = IF n = Len THEN "grow" ELSE "store"]
    BY <1>5 DEF Scan
  <2>1. UNCHANGED <<sets, id, at>> /\ Len' = Len /\ call[t].pc = "scan" /\ at[t] = "in"
    BY <1>5 DEF Scan, InLock, tableVars, Len
  <2>2. OneOwner' /\ HasLock'
    BY <1>b, <2>1 DEF Named, OneOwner, HasLock
  <2>3. n # Len => sets[n] = NULL
    BY <1>0 DEF FreeSlot
  <2>4. FirstTable'
    BY <1>b, <2>1, <2>3 DEF Named, FirstTable, NamesKept, CallNames
  <2> QED
    BY <2>2, <2>4 DEF Named
<1>6. ASSUME NEW t \in Threads, Grow(t) PROVE Named'
  <2>1. id' = id /\ at' = at /\ at[t] = "in" /\ call[t].pc = "grow" /\ InHand(t)
    BY <1>6 DEF Grow, InLock, Table, Calls
  <2>2. call[t].op = "add" /\ Len > 0 /\ Len >= Len0
    BY <1>0, <2>1 DEF InHand, Adding, Table, TableShape
  <2>3. CASE call' = [call EXCEPT ![t].idx = None, ![t].pc = "done"] /\ UNCHANGED sets
    <3>1. OneOwner' /\ HasLock'
      BY <1>b, <2>1, <2>3 DEF Named, OneOwner, HasLock
    <3>2. Len' = Len
      BY <2>3 DEF Len
    <3>3. FirstTable'
      BY <1>b, <2>1, <2>2, <2>3, <3>2 DEF Named, FirstTable, NamesKept, CallNames
    <3> QED
      BY <3>1, <3>3 DEF Named
  <2>4. ASSUME NEW junk \in [Len \div W + Len .. 2 * Len - 1 -> {NULL, Garbage}],
               sets' = [n \in 0 .. 2 * Len - 1 |-> Doubled(n, junk)],
               Then(t, "store")
        PROVE  Named'
    <3>1. Len' = 2 * Len
      BY <1>0, <2>4, LengthIs, DOMAIN sets' = 0 .. 2 * Len - 1, 2 * Len \in Nat DEF Len
    <3>2. FirstTable'
      BY <1>0, <2>2, <3>1 DEF FirstTable
    <3>3. OneOwner' /\ HasLock'
      BY <1>b, <2>1, <2>4 DEF Then, Named, OneOwner, HasLock
    <3> QED
      BY <3>2, <3>3 DEF Named
  <2> QED
    BY <1>6, <2>3, <2>4 DEF Grow
<1>7. ASSUME NEW t \in Threads, Store(t) PROVE Named'
  <2> DEFINE i == call[t].idx
             s == call[t].set
  <2>1. /\ id' = id /\ at' = at /\ at[t] = "in" /\ call[t].pc = "store" /\ InHand(t)
        /\ sets' = [sets EXCEPT ![i] = s] /\ call' = [call EXCEPT ![t].pc = "done"]
    BY <1>7 DEF Store, Then, InLock, Table, Calls
  <2>2. call[t].op = "add" /\ s \in Sets /\ i \in Slots /\ DOMAIN sets = Slots /\ Len' = Len
    BY <2>1 DEF InHand, Adding, Table, TableShape, Len
  <2>3. OneOwner' /\ HasLock'
    BY <1>b, <2>1 DEF Named, OneOwner, HasLock
  <2>4. \A u \in Threads : u # t => call[u].pc # "store"
    BY <2>1 DEF Named, HasLock, FutexInv, MutualExclusion
  <2>5. ASSUME Len <= Len0 PROVE NamesKept' /\ \A u \in Threads : CallNames(u)'
    <3>1. NamesKept /\ sets[i] = NULL /\ \A u \in Threads : CallNames(u)
      BY <2>1, <2>5 DEF Named, FirstTable, CallNames
    <3>2. NamesKept'
      BY <1>0, <2>1, <2>2, <3>1 DEF NamesKept, Table, TableShape
    <3>3. CallNames(t)'
      BY <1>b, <2>1, <2>2 DEF CallNames
    <3>4. ASSUME NEW u \in Threads, u # t PROVE CallNames(u)'
      <4>1. call'[u] = call[u] /\ InHand(u)
        BY <1>b, <2>1, <3>4 DEF Table, Calls
      <4>2. ASSUME call[u].pc = "done", call[u].op = "add", call[u].idx # None
            PROVE  sets'[call[u].idx] = call[u].set
        <5>1. call[u].idx \in Slots /\ call[u].set \in Sets /\ sets[call[u].idx] = call[u].set
          BY <3>1, <4>1, <4>2 DEF InHand, Adding, Getting, CallNames
        <5> QED
          BY <1>0, <2>1, <2>2, <3>1, <5>1
      <4> QED
        BY <2>1, <2>4, <3>1, <3>4, <4>1, <4>2 DEF CallNames
    <3> QED
      BY <3>2, <3>3, <3>4
  <2> QED
    BY <2>2, <2>3, <2>5 DEF Named, FirstTable
<1>8. ASSUME NEW t \in Threads, Retrieve(t) PROVE Named'
  <2> DEFINE s == IF call[t].idx >= Len THEN NULL ELSE sets[call[t].idx]
  <2>1. /\ UNCHANGED <<sets, id, at>> /\ Len' = Len /\ call[t].pc = "retrieve" /\ InHand(t)
        /\ call' = [call EXCEPT ![t].pc = "done", ![t].set = s]
    BY <1>8 DEF Retrieve, InLock, Table, Calls, tableVars, Len
  <2>2. call[t].op = "get" /\ call[t].idx \in Slots /\ s = sets[call[t].idx]
    BY <1>0, <2>1 DEF InHand, Getting, Slots
  <2>3. OneOwner' /\ HasLock'
    BY <1>b, <2>1, <2>2 DEF Named, OneOwner, HasLock
  <2>4. ASSUME Len <= Len0 PROVE NamesKept' /\ \A u \in Threads : CallNames(u)'
    <3>1. NamesKept /\ \A u \in Threads : CallNames(u)
      BY <2>4 DEF Named, FirstTable
    <3>2. s \in Sets /\ id[s] = call[t].idx
      BY <1>0, <2>1, <2>2, <3>1 DEF CallNames, NamesKept, Slots
    <3>3. CallNames(t)'
      BY <1>b, <2>1, <2>2, <3>2 DEF CallNames
    <3> QED
      BY <1>b, <2>1, <3>1, <3>3 DEF CallNames, NamesKept
  <2> QED
    BY <2>1, <2>3, <2>4 DEF Named, FirstTable
<1>9. ASSUME NEW t \in Threads, Return(t) PROVE Named'
  <2>1. /\ call' = [call EXCEPT ![t] = Idle] /\ sets' = sets /\ Len' = Len /\ at' = at
        /\ call[t].pc = "done" /\ InHand(t)
    BY <1>9 DEF Return, Len, Table, Calls
  <2>2. HasLock'
    BY <1>b, <2>1 DEF Named, HasLock, Idle
  <2>3. CASE call[t].op # "add"
    <3>1. id' = id
      BY <1>9, <2>3 DEF Return
    <3> QED
      BY <1>b, <2>1, <2>2, <3>1 DEF Named, OneOwner, FirstTable, NamesKept, CallNames, Idle
  <2>4. CASE call[t].op = "add"
    <3> DEFINE s == call[t].set
    <3>1. id' = [id EXCEPT ![s] = call[t].idx] /\ s \in Sets /\ id[s] = None
            /\ call[t].idx \in {None} \cup Slots /\ id \in [Sets -> {None} \cup Slots]
      BY <1>9, <2>1, <2>4 DEF Return, InHand, Adding, Getting, Table, TableShape, Named, OneOwner
    <3>2. OneOwner'
      BY <1>b, <2>1, <2>4, <3>1 DEF Named, OneOwner, Idle, Table, Calls, InHand, Adding, Getting
    <3>3. ASSUME Len <= Len0 PROVE NamesKept' /\ \A u \in Threads : CallNames(u)'
      <4>1. NamesKept /\ \A u \in Threads : CallNames(u)
        BY <3>3 DEF Named, FirstTable
      <4>2. NamesKept'
        BY <2>1, <2>4, <3>1, <4>1 DEF NamesKept, CallNames
      <4>3. CallNames(t)'
        BY <1>b, <2>1 DEF CallNames, Idle
      <4>4. ASSUME NEW u \in Threads, u # t PROVE CallNames(u)'
        <5>1. call'[u] = call[u] /\ InHand(u)
          BY <1>b, <2>1, <4>4 DEF Table, Calls
        <5>2. \A r \in Sets : id[r] # None => id'[r] = id[r]
          BY <3>1
        <5>3. call[u].op = "get" => call[u].idx # None
          BY <1>0, <1>b, <5>1 DEF InHand, Getting, Adding, Slots, Idle, Pcs
        <5>4. call[u].pc = "retrieve" => call[u].op = "get"
          BY <5>1 DEF InHand, Getting
        <5> QED
          BY <2>1, <4>1, <5>1, <5>2, <5>3, <5>4 DEF CallNames
      <4> QED
        BY <4>2, <4>3, <4>4
    <3> QED
      BY <2>1, <2>2, <3>2, <3>3 DEF Named, FirstTable
  <2> QED
    BY <2>3, <2>4
<1>10. CASE UNCHANGED vars
  BY <1>10 DEF vars, Named, OneOwner, HasLock, FirstTable, NamesKept, CallNames, Len
<1> QED
  BY <1>1, <1>2, <1>3, <1>4, <1>5, <1>6, <1>7, <1>8, <1>9, <1>10 DEF Next, Inside

\* Until the table grows, each id semget returned leads to its set and to no
\* other, however threads interleave in AddSetToMap and RetrieveSetFromMap.
THEOREM IdsNameSetsAtFirst == Spec => []IdsNameSetsUntilGrowth
<1>1. Table /\ Named => IdsNameSetsUntilGrowth
  BY TableAssumption
  DEF Named, FirstTable, NamesKept, CallNames, IdsNameSetsUntilGrowth, IdsNameSets
<1>2. Table /\ FutexInv /\ Named /\ [Next]_vars => Named'
  BY NamedKept
<1> QED
  BY <1>1, <1>2, NamedAtFirst, TableAlways, TableUsesFutex, FutexInvariance, PTL DEF Spec
=============================================================================
