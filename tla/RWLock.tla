-------------------------------- MODULE RWLock --------------------------------
(* What util/lock.c promises, in the words of its first comment: "a            *)
(* thread-safe lock allowing for multiple readers or a single writer at any    *)
(* given point in time".  This is the abstract specification that module Lock  *)
(* implements: acquiring and releasing are single steps, and nothing is said   *)
(* of the mutex, the counter or the condition variable.                        *)
EXTENDS FiniteSets, Integers

CONSTANTS Threads,     \* the threads that use one lock
          MAX_READERS  \* the most readers the counter can hold

VARIABLES readers,     \* the threads that hold the lock for reading
          writers      \* the threads that hold it for writing

lockVars == <<readers, writers>>

Init == readers = {} /\ writers = {}

AcquireRead(t) ==
    /\ t \notin readers \cup writers
    /\ writers = {}
    /\ Cardinality(readers) < MAX_READERS
    /\ readers' = readers \cup {t}
    /\ UNCHANGED writers

ReleaseRead(t) ==
    /\ t \in readers
    /\ readers' = readers \ {t}
    /\ UNCHANGED writers

AcquireWrite(t) ==
    /\ t \notin readers \cup writers
    /\ readers = {} /\ writers = {}
    /\ writers' = {t}
    /\ UNCHANGED readers

ReleaseWrite(t) ==
    /\ t \in writers
    /\ writers' = writers \ {t}
    /\ UNCHANGED readers

Next == \E t \in Threads :
           \/ AcquireRead(t)  \/ ReleaseRead(t)
           \/ AcquireWrite(t) \/ ReleaseWrite(t)

Spec == Init /\ [][Next]_lockVars
===============================================================================
