------------------------------- MODULE SemMap -------------------------------
(***************************************************************************)
(* The emulation of System V semaphores in sysvsem.c: the process-wide     *)
(* table SetMap from semaphore ids to mapped sets, shared by the threads   *)
(* of a process under SetMap.lock.  semget maps a set and adds it to the   *)
(* table; semop and semctl look their id up.                               *)
(*                                                                         *)
(* The lock is the one of module Futex, and the steps of AddSetToMap under *)
(* it are separate actions, so that the table is right because the lock    *)
(* works.  nsems is never assigned in a set: it stays 0 and every operation*)
(* on a semaphore fails without touching the set, so a set is only its     *)
(* address here.                                                           *)
(***************************************************************************)
EXTENDS Futex, Integers, FiniteSets

CONSTANTS
  Sets,       \* the addresses mmap returns, one for each semget
  NULL,       \* the null pointer
  Garbage,    \* what uninitialised memory of the table holds
  Len0,       \* the first length of the table (128)
  W           \* sizeof(void*)

ASSUME TableAssumption ==
  /\ Len0 \in Nat \ {0} /\ W \in Nat \ {0, 1} /\ Len0 % W = 0
  /\ NULL \notin Sets /\ Garbage \notin Sets /\ NULL # Garbage

VARIABLES
  sets,       \* SetMap.sets and SetMap.len: a function on 0 .. len - 1
  call,       \* what each thread is calling
  id          \* the id semget returned for each set, -1 before that

tableVars == <<sets, id>>
vars == <<mtx, at, sets, call, id>>

None == -1
Idle == [pc |-> "idle", op |-> "none", set |-> NULL, idx |-> None]

Len    == Cardinality(DOMAIN sets)
Zeros  == [n \in 0 .. Len0 - 1 |-> NULL]
Mapped == {s \in Sets : id[s] # None} \cup {call[t].set : t \in Threads}

\* A thread inside the lock at pc goes on to pc2.
InLock(t, pc) == at[t] = "in" /\ call[t].pc = pc
Then(t, pc2)  == call' = [call EXCEPT ![t].pc = pc2]

-----------------------------------------------------------------------------
\* semget maps a set and calls AddSetToMap, which locks the table.  The set of
\* a call that fails stays mapped, of no further use: one more would stand for it.
Semget(t) ==
  /\ call[t].pc = "idle"
  /\ \E s \in Sets \ Mapped :
       call' = [call EXCEPT ![t] = [pc |-> "alloc", op |-> "add", set |-> s, idx |-> None]]
  /\ Enter(t)
  /\ UNCHANGED tableVars

\* The first call allocates the table; it may get no memory.
Alloc(t) ==
  /\ InLock(t, "alloc")
  /\ \/ Len > 0 /\ Then(t, "scan") /\ UNCHANGED sets
     \/ Len = 0 /\ Then(t, "scan") /\ sets' = Zeros
     \/ Len = 0 /\ Then(t, "done") /\ UNCHANGED sets
  /\ UNCHANGED <<mtx, at, id>>

\* The first NULL slot, or the length of the table.  (The loop reads the slot
\* before it compares the index: one word past a full table, and ignored.)
FreeSlot(n) ==
  (\A m \in 0 .. n - 1 : sets[m] # NULL) /\ (n < Len => sets[n] = NULL)

Scan(t) ==
  /\ InLock(t, "scan")
  /\ \E n \in 0 .. Len :
       /\ FreeSlot(n)
       /\ call' = [call EXCEPT ![t].idx = n, ![t].pc = IF n = Len THEN "grow" ELSE "store"]
  /\ UNCHANGED <<mtx, at, tableVars>>

\* The doubled table.  memset starts Len bytes, not Len entries, after the
\* table's beginning, and clears Len entries: those before it are kept, those
\* after it hold what reallocarray left there.
Doubled(n, junk) ==
  CASE n < Len \div W                           -> sets[n]
    [] n \in Len \div W .. Len \div W + Len - 1 -> NULL
    [] OTHER                                    -> junk[n]

\* Mutant: a failed growth returns the index it looked for.
GrowFailsIdx(t) ==
  /\ InLock(t, "grow")
  /\ Then(t, "done")
  /\ UNCHANGED <<mtx, at, tableVars>>

Grow(t) ==
  /\ InLock(t, "grow")
  /\ \/ /\ \E junk \in [Len \div W + Len .. 2 * Len - 1 -> {NULL, Garbage}] :
             sets' = [n \in 0 .. 2 * Len - 1 |-> Doubled(n, junk)]
        /\ Then(t, "store")
     \/ call' = [call EXCEPT ![t].idx = None, ![t].pc = "done"] /\ UNCHANGED sets
  /\ UNCHANGED <<mtx, at, id>>

Store(t) ==
  /\ InLock(t, "store")
  /\ sets' = [sets EXCEPT ![call[t].idx] = call[t].set]
  /\ Then(t, "done")
  /\ UNCHANGED <<mtx, at, id>>

\* semop or semctl with an id that semget returned: RetrieveSetFromMap.
Semop(t) ==
  /\ call[t].pc = "idle"
  /\ \E s \in Sets :
       /\ id[s] # None
       /\ call' = [call EXCEPT ![t] = [pc |-> "retrieve", op |-> "get", set |-> NULL, idx |-> id[s]]]
  /\ Enter(t)
  /\ UNCHANGED tableVars

\* Mutant: the lookup takes the slot after the one it is asked for.
RetrieveNext(t) ==
  /\ InLock(t, "retrieve")
  /\ call' = [call EXCEPT ![t].pc  = "done",
                          ![t].set = IF @ + 1 >= Len THEN NULL ELSE sets[call[t].idx + 1]]
  /\ UNCHANGED <<mtx, at, tableVars>>

Retrieve(t) ==
  /\ InLock(t, "retrieve")
  /\ call' = [call EXCEPT ![t].pc  = "done",
                          ![t].set = IF call[t].idx >= Len THEN NULL ELSE sets[call[t].idx]]
  /\ UNCHANGED <<mtx, at, tableVars>>

\* The guard's cleanup unlocks the table after the return value is read.
Leave(t) == call[t].pc = "done" /\ Unlock(t) /\ UNCHANGED <<call, tableVars>>

\* The call returns: semget with its id or -1, semop and semctl with EINVAL
\* when there is no set and with EFBIG or EINVAL because nsems is 0.
Return(t) ==
  /\ at[t] = "out" /\ call[t].pc = "done"
  /\ id' = IF call[t].op = "add" THEN [id EXCEPT ![call[t].set] = call[t].idx] ELSE id
  /\ call' = [call EXCEPT ![t] = Idle]
  /\ UNCHANGED <<mtx, at, sets>>

-----------------------------------------------------------------------------
Init ==
  /\ FutexInit
  /\ sets = [n \in {} |-> NULL]
  /\ call = [t \in Threads |-> Idle]
  /\ id = [s \in Sets |-> None]

Lock(t)   == (Locking(t) \/ Interrupt(t) \/ Wake(t)) /\ UNCHANGED <<call, tableVars>>
Inside(t) == Alloc(t) \/ Scan(t) \/ Grow(t) \/ Store(t) \/ Retrieve(t) \/ Leave(t)

Next == \E t \in Threads : Semget(t) \/ Semop(t) \/ Lock(t) \/ Inside(t) \/ Return(t)

Spec == Init /\ [][Next]_vars

\* A thread that can run is scheduled, and the kernel completes its system
\* calls.  No thread has to make a call, and no signal has to come.
FairSpec ==
  Spec /\ \A t \in Threads :
            /\ WF_vars((Locking(t) \/ Wake(t)) /\ UNCHANGED <<call, tableVars>>)
            /\ WF_vars(Inside(t))

-----------------------------------------------------------------------------
\* The table's cells, the calls and the ids have their types.
TableTypeOK ==
  /\ FutexTypeOK
  /\ sets \in UNION {[0 .. n - 1 -> Sets \cup {NULL, Garbage}] : n \in {0, Len}}
  /\ id \in [Sets -> {None} \cup DOMAIN sets]
  /\ \A t \in Threads :
       /\ call[t].pc \in {"idle", "alloc", "scan", "grow", "store", "retrieve", "done"}
       /\ call[t].set \in Sets \cup {NULL, Garbage}
       /\ call[t].idx \in None .. Len

\* The id that semget returned names its set: the table holds the set there, so
\* that no other set has the id, and a finished look-up has found the set.
IdsNameSets ==
  /\ \A s \in Sets : id[s] # None => sets[id[s]] = s
  /\ \A t \in Threads : call[t].op = "get" /\ call[t].pc = "done" =>
       call[t].set \in Sets /\ id[call[t].set] = call[t].idx

\* As long as the table has its first length the ids name their sets, whatever
\* calls run at the same time, up to and including the one that fills it.
IdsNameSetsUntilGrowth == Len = Len0 => IdsNameSets

\* Threads that wait for the lock do not wait for ever: one of them gets it.
LockProgress ==
  (\E t \in Threads : at[t] \in {"cas", "exchange", "wait", "asleep"})
     ~> (\E t \in Threads : at[t] = "in")
=============================================================================
