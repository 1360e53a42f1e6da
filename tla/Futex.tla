-------------------------------- MODULE Futex --------------------------------
(***************************************************************************)
(* The mutex of sysvsem.c: FutexLockCore and FutexUnlockCore over a futex  *)
(* word, by threads that share it.  One word is modelled: SetMap.lock, or  *)
(* the lock of one semaphore set.                                          *)
(*                                                                         *)
(* Each atomic operation and each futex() system call is one action.  The  *)
(* kernel compares the word and puts the caller to sleep in one step.      *)
(***************************************************************************)
CONSTANT Threads

UNLOCKED  == 0
LOCKED    == 1
CONTENDED == 2

VARIABLES
  mtx,    \* the futex word
  at      \* where each thread is

futexVars == <<mtx, at>>

Move(t, from, to) == at[t] = from /\ at' = [at EXCEPT ![t] = to]

\* A thread calls FutexLock.
Enter(t) == Move(t, "out", "cas") /\ UNCHANGED mtx

\* The "fast" path expects LOCKED and stores UNLOCKED: the arguments of the
\* compare-and-exchange are the wrong way round.
Cas(t) ==
  IF mtx = LOCKED
  THEN Move(t, "cas", "in") /\ mtx' = UNLOCKED
  ELSE Move(t, "cas", "exchange") /\ UNCHANGED mtx

\* Mutant: the slow path stores LOCKED, as an uncontended lock would.
ExchangeLocked(t) ==
  /\ Move(t, "exchange", IF mtx = UNLOCKED THEN "in" ELSE "wait")
  /\ mtx' = LOCKED

Exchange(t) ==
  /\ Move(t, "exchange", IF mtx = UNLOCKED THEN "in" ELSE "wait")
  /\ mtx' = CONTENDED

\* futex_wait(mtx, CONTENDED): sleep, or EAGAIN when the word has changed.
Wait(t) ==
  /\ Move(t, "wait", IF mtx = CONTENDED THEN "asleep" ELSE "exchange")
  /\ UNCHANGED mtx

\* futex_wait is interrupted by a signal (EINTR), and the loop goes on.
Interrupt(t) == Move(t, "asleep", "exchange") /\ UNCHANGED mtx

\* Mutant: unlocking wakes nobody.
UnlockNoWake(t) ==
  /\ Move(t, "in", IF mtx = UNLOCKED THEN "aborted" ELSE "out")
  /\ mtx' = UNLOCKED

\* FutexUnlockCore aborts on an unlocked word.
Unlock(t) ==
  /\ Move(t, "in", CASE mtx = UNLOCKED  -> "aborted"
                     [] mtx = LOCKED    -> "out"
                     [] mtx = CONTENDED -> "wake")
  /\ mtx' = UNLOCKED

\* futex_wake wakes one sleeper, if there is one.
Wake(t) ==
  /\ at[t] = "wake"
  /\ \/ /\ \A u \in Threads : at[u] # "asleep"
        /\ at' = [at EXCEPT ![t] = "out"]
     \/ \E u \in Threads : /\ at[u] = "asleep"
                           /\ at' = [at EXCEPT ![t] = "out", ![u] = "exchange"]
  /\ UNCHANGED mtx

\* The steps of a thread inside FutexLock and FutexUnlock.
Locking(t)   == Cas(t) \/ Exchange(t) \/ Wait(t)
Unlocking(t) == Unlock(t) \/ Wake(t)

FutexInit == mtx = UNLOCKED /\ at = [t \in Threads |-> "out"]

FutexNext == \E t \in Threads : Enter(t) \/ Locking(t) \/ Interrupt(t) \/ Unlocking(t)

FutexSpec == FutexInit /\ [][FutexNext]_futexVars

-----------------------------------------------------------------------------
Places == {"out", "cas", "exchange", "wait", "asleep", "in", "wake", "aborted"}

\* The word and the threads' places have their types.
FutexTypeOK == mtx \in {UNLOCKED, LOCKED, CONTENDED} /\ at \in [Threads -> Places]

\* One thread at a time is between FutexLock and FutexUnlock, although the
\* fast path of FutexLockCore would let two in: it never sees LOCKED.
MutualExclusion ==
  \A t, u \in Threads : at[t] = "in" /\ at[u] = "in" => t = u

\* A thread never unlocks an unlocked word, so FutexUnlockCore never aborts.
NeverAborts == \A t \in Threads : at[t] # "aborted"

\* No wake-up is lost: while threads sleep, the word makes its holder wake
\* one of them, or a thread is on its way to do so or to store CONTENDED.
NoLostWakeup ==
  (\E t \in Threads : at[t] = "asleep") =>
     mtx = CONTENDED \/ \E t \in Threads : at[t] \in {"exchange", "wake"}
=============================================================================
