--------------------------------- MODULE Lock ---------------------------------
(* util/lock.c: a readers-writer lock made of one counter, one mutex and one   *)
(* condition variable.  Every thread may ask for the lock in either mode, wait *)
(* on the condition variable, hold the lock and release it.                    *)
(*                                                                             *)
(* A thread takes the mutex in one step, and runs the code it protects in the  *)
(* next, up to pthread_mutex_unlock or pthread_cond_wait: no other thread can  *)
(* see the counter in between, because all its accesses are under the mutex.   *)
EXTENDS Integers, FiniteSets

CONSTANTS Threads,      \* the threads that share the lock
          MAX_READERS,  \* lock.c:9, INT_MAX - 1 in the code
          NoThread      \* the owner of a free mutex

ASSUME LockAssumption ==
    /\ IsFiniteSet(Threads)
    /\ MAX_READERS \in Nat \ {0}
    /\ NoThread \notin Threads

VARIABLES
    use_state,  \* -1: one writer, 0: free, n > 0: n readers
    mutex,      \* the owner of use_state_mutex, or NoThread
    mode,       \* the mode each thread last asked for
    pc          \* where each thread is

vars == <<use_state, mutex, mode, pc>>

(* "idle"    outside the lock, owning nothing                                  *)
(* "enter"   in acquire_*, before it owns the mutex (also after a wake-up)     *)
(* "test"    in acquire_*, owning the mutex, about to test use_state           *)
(* "waiting" inside pthread_cond_wait, not yet woken                           *)
(* "holding" between acquire_* and release_*                                   *)
(* "leave"   in release_*, before it owns the mutex                            *)
(* "release" in release_*, owning the mutex                                    *)
PCs == {"idle", "enter", "test", "waiting", "holding", "leave", "release"}

Holding(t) == pc[t] \in {"holding", "leave", "release"}
Readers == {t \in Threads : Holding(t) /\ mode[t] = "read"}
Writers == {t \in Threads : Holding(t) /\ mode[t] = "write"}

init_lock ==
    /\ use_state = 0
    /\ mutex = NoThread

Init ==
    /\ init_lock
    /\ mode = [t \in Threads |-> "read"]
    /\ pc = [t \in Threads |-> "idle"]

-------------------------------------------------------------------------------
(* The callers.                                                                *)

CallAcquire(t) ==
    /\ pc[t] = "idle"
    /\ \E m \in {"read", "write"} : mode' = [mode EXCEPT ![t] = m]
    /\ pc' = [pc EXCEPT ![t] = "enter"]
    /\ UNCHANGED <<use_state, mutex>>

CallRelease(t) ==
    /\ pc[t] = "holding"
    /\ pc' = [pc EXCEPT ![t] = "leave"]
    /\ UNCHANGED <<use_state, mutex, mode>>

-------------------------------------------------------------------------------
(* The mutex and the condition variable.                                       *)

pthread_mutex_lock(t) ==
    /\ mutex = NoThread
    /\ mutex' = t
    /\ \/ pc[t] = "enter" /\ pc' = [pc EXCEPT ![t] = "test"]
       \/ pc[t] = "leave" /\ pc' = [pc EXCEPT ![t] = "release"]
    /\ UNCHANGED <<use_state, mode>>

(* Release the mutex and wait, in one step.                                    *)
pthread_cond_wait(t) ==
    /\ mutex' = NoThread
    /\ pc' = [pc EXCEPT ![t] = "waiting"]

(* POSIX lets a wait return with no signal sent.                               *)
SpuriousWakeup(t) ==
    /\ pc[t] = "waiting"
    /\ pc' = [pc EXCEPT ![t] = "enter"]
    /\ UNCHANGED <<use_state, mutex, mode>>

(* pthread_cond_broadcast, then pthread_mutex_unlock, by t as it leaves.       *)
BroadcastAndUnlock(t) ==
    /\ pc' = [u \in Threads |-> IF u = t THEN "idle"
                                ELSE IF pc[u] = "waiting" THEN "enter" ELSE pc[u]]
    /\ mutex' = NoThread

-------------------------------------------------------------------------------
(* lock.c                                                                      *)

(* Variants that a wrong edit of lock.c could produce.  No specification uses  *)
(* them: each shows which property would notice that edit.                     *)
ReadBlocked_OnlyWhenFull == use_state = MAX_READERS
WriteBlocked_OnlyByWriter == use_state < 0

ReadBlocked == use_state < 0 \/ use_state = MAX_READERS
WriteBlocked == use_state # 0

acquire_readlock(t) ==
    /\ pc[t] = "test" /\ mode[t] = "read"
    /\ \/ ReadBlocked /\ pthread_cond_wait(t) /\ UNCHANGED use_state
       \/ /\ ~ReadBlocked
          /\ use_state' = use_state + 1
          /\ pc' = [pc EXCEPT ![t] = "holding"]
          /\ mutex' = NoThread
    /\ UNCHANGED mode

acquire_writelock(t) ==
    /\ pc[t] = "test" /\ mode[t] = "write"
    /\ \/ WriteBlocked /\ pthread_cond_wait(t) /\ UNCHANGED use_state
       \/ /\ ~WriteBlocked
          /\ use_state' = use_state - 1
          /\ pc' = [pc EXCEPT ![t] = "holding"]
          /\ mutex' = NoThread
    /\ UNCHANGED mode

(* Variants: wake the waiters only when the lock is free; wake nobody.         *)
release_readlock_WakesWhenFree(t) ==
    /\ pc[t] = "release" /\ mode[t] = "read"
    /\ use_state > 0
    /\ use_state' = use_state - 1
    /\ IF use_state = 1
       THEN BroadcastAndUnlock(t)
       ELSE pc' = [pc EXCEPT ![t] = "idle"] /\ mutex' = NoThread
    /\ UNCHANGED mode

release_writelock_Silent(t) ==
    /\ pc[t] = "release" /\ mode[t] = "write"
    /\ use_state = -1
    /\ use_state' = use_state + 1
    /\ pc' = [pc EXCEPT ![t] = "idle"]
    /\ mutex' = NoThread
    /\ UNCHANGED mode

(* The assertion of line 23 stops the program when it fails: then no step.     *)
release_readlock(t) ==
    /\ pc[t] = "release" /\ mode[t] = "read"
    /\ use_state > 0
    /\ use_state' = use_state - 1
    /\ BroadcastAndUnlock(t)
    /\ UNCHANGED mode

release_writelock(t) ==
    /\ pc[t] = "release" /\ mode[t] = "write"
    /\ use_state = -1
    /\ use_state' = use_state + 1
    /\ BroadcastAndUnlock(t)
    /\ UNCHANGED mode

-------------------------------------------------------------------------------
(* What a thread does once it is inside the lock's code; the other two actions *)
(* of a thread are its own choice.                                             *)
LockStep(t) ==
    \/ pthread_mutex_lock(t)
    \/ acquire_readlock(t) \/ acquire_writelock(t)
    \/ release_readlock(t) \/ release_writelock(t)

Next == \E t \in Threads :
           \/ CallAcquire(t) \/ CallRelease(t)
           \/ SpuriousWakeup(t)
           \/ LockStep(t)

Spec == Init /\ [][Next]_vars

(* The scheduler runs every thread that can run, and a caller that was granted *)
(* the lock calls the matching release: that is the contract of lock.h, and    *)
(* the callers that break it are not this module's subject.  Nothing forces a  *)
(* thread to ask for the lock, and no spurious wake-up has to happen.          *)
FairSpec ==
    /\ Spec
    /\ \A t \in Threads : WF_vars(LockStep(t)) /\ WF_vars(CallRelease(t))

-------------------------------------------------------------------------------
TypeOK ==
    /\ use_state \in -1 .. MAX_READERS
    /\ mutex \in Threads \cup {NoThread}
    /\ mode \in [Threads -> {"read", "write"}]
    /\ pc \in [Threads -> PCs]

(* The mutex is owned by the thread that is between lock and unlock.           *)
MutexOwner == \A t \in Threads : pc[t] \in {"test", "release"} <=> mutex = t

(* The counter says who holds the lock: this is what makes the assertions of   *)
(* lock.c:23 and lock.c:41 true whenever they are evaluated.                   *)
CounterAgrees ==
    \/ use_state = -1 /\ Readers = {} /\ \E t \in Threads : Writers = {t}
    \/ use_state = Cardinality(Readers) /\ Writers = {}

(* "allowing for multiple readers or a single writer at any given point in     *)
(* time" (lock.c:1-2), and no more readers than the counter can count.         *)
Exclusion ==
    /\ \A t, u \in Threads : t \in Writers /\ t # u => u \notin Readers \cup Writers
    /\ Cardinality(Readers) <= MAX_READERS

(* Nobody sleeps through a wake-up: a thread inside pthread_cond_wait has a    *)
(* reason to be there that still holds, so that a later release_* wakes it.    *)
NoLostWakeup ==
    \A t \in Threads : pc[t] = "waiting" =>
        IF mode[t] = "read" THEN ReadBlocked ELSE WriteBlocked

(* The inductive invariant.                                                    *)
LockInv == TypeOK /\ MutexOwner /\ CounterAgrees /\ NoLostWakeup

(* The lock serves everybody: once no new request arrives and waits return     *)
(* only when signalled, every thread that asked gets the lock and gets out.    *)
(* (While requests keep arriving a writer can starve: readers overtake it for  *)
(* ever; and a mutex that is free only from time to time may be missed.)       *)
EveryoneServed ==
    <>[][\A t \in Threads : ~CallAcquire(t) /\ ~SpuriousWakeup(t)]_vars
        => \A t \in Threads : (pc[t] # "idle") ~> (pc[t] = "idle")

(* lock.c implements the abstract readers-writer lock.                         *)
Abstract == INSTANCE RWLock WITH readers <- Readers, writers <- Writers
ImplementsRWLock == Abstract!Spec
===============================================================================
