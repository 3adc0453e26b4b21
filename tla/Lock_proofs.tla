----------------------------- MODULE Lock_proofs ------------------------------
(* Proofs about what threads share: Lock (util/lock.c), for any number of      *)
(* threads and any MAX_READERS; SendMessage (crypto/crypto_layer.c): when one  *)
(* thread sends with a keyset, however many messages, no nonce is used twice   *)
(* and the other end reads what was sent; and UserDb (server/user_db.c), the   *)
(* table that such a lock guards, for any users, hashes and sessions.          *)
EXTENDS Lock, SendMessage, UserDb, FiniteSetTheorems, SequenceTheorems,
        WellFoundedInduction, TLAPS

(* The readers and the writers are finite sets of threads.                     *)
LEMMA HoldersFinite ==
    /\ IsFiniteSet(Readers) /\ Cardinality(Readers) \in Nat
    /\ (Cardinality(Readers) = 0 <=> Readers = {})
  <1>1. Readers \in SUBSET Threads
    BY DEF Readers
  <1>2. IsFiniteSet(Readers)
    BY <1>1, FS_Subset, LockAssumption
  <1> QED
    BY <1>2, FS_CardinalityType, FS_EmptySet

(* The counter, the mutex and the waiters agree in every reachable state; with *)
(* it the assertions of lock.c:23 and lock.c:41 never fail, and no wake-up is  *)
(* lost.                                                                       *)
THEOREM LockInvariant == Spec => []LockInv
  <1> USE DEF LockInv
  <1>1. Init => LockInv
    <2> SUFFICES ASSUME Init PROVE LockInv
      OBVIOUS
    <2>1. Readers = {} /\ Writers = {}
      BY DEF Init, Readers, Writers, Holding
    <2>2. CounterAgrees
      BY <2>1, FS_EmptySet DEF Init, init_lock, CounterAgrees
    <2> QED
      BY <2>2, LockAssumption
         DEF Init, init_lock, TypeOK, PCs, MutexOwner, NoLostWakeup
  <1>2. LockInv /\ [Next]_vars => LockInv'
    <2> SUFFICES ASSUME LockInv, [Next]_vars PROVE LockInv'
      OBVIOUS
    <2> USE LockAssumption
    <2>1. CASE UNCHANGED vars
      <3>1. Readers' = Readers /\ Writers' = Writers
        BY <2>1 DEF vars, Readers, Writers, Holding
      <3> QED
        BY <2>1, <3>1 DEF vars, TypeOK, MutexOwner, CounterAgrees, NoLostWakeup,
                          ReadBlocked, WriteBlocked
    <2>2. ASSUME NEW t \in Threads, CallAcquire(t) PROVE LockInv'
      <3>1. Readers' = Readers /\ Writers' = Writers
        BY <2>2 DEF CallAcquire, Readers, Writers, Holding, TypeOK
      <3>2. TypeOK' /\ MutexOwner' /\ NoLostWakeup'
        BY <2>2 DEF CallAcquire, TypeOK, PCs, MutexOwner, NoLostWakeup,
                    ReadBlocked, WriteBlocked
      <3>3. CounterAgrees'
        BY <2>2, <3>1 DEF CallAcquire, CounterAgrees
      <3> QED
        BY <3>2, <3>3
    <2>3. ASSUME NEW t \in Threads, CallRelease(t) PROVE LockInv'
      <3>1. Readers' = Readers /\ Writers' = Writers
        BY <2>3 DEF CallRelease, Readers, Writers, Holding, TypeOK
      <3>2. TypeOK' /\ MutexOwner' /\ NoLostWakeup'
        BY <2>3 DEF CallRelease, TypeOK, PCs, MutexOwner, NoLostWakeup,
                    ReadBlocked, WriteBlocked
      <3>3. CounterAgrees'
        BY <2>3, <3>1 DEF CallRelease, CounterAgrees
      <3> QED
        BY <3>2, <3>3
    <2>4. ASSUME NEW t \in Threads, SpuriousWakeup(t) PROVE LockInv'
      <3>1. Readers' = Readers /\ Writers' = Writers
        BY <2>4 DEF SpuriousWakeup, Readers, Writers, Holding, TypeOK
      <3>2. TypeOK' /\ MutexOwner' /\ NoLostWakeup'
        BY <2>4 DEF SpuriousWakeup, TypeOK, PCs, MutexOwner, NoLostWakeup,
                    ReadBlocked, WriteBlocked
      <3>3. CounterAgrees'
        BY <2>4, <3>1 DEF SpuriousWakeup, CounterAgrees
      <3> QED
        BY <3>2, <3>3
    <2>5. ASSUME NEW t \in Threads, pthread_mutex_lock(t) PROVE LockInv'
      <3>1. Readers' = Readers /\ Writers' = Writers
        BY <2>5 DEF pthread_mutex_lock, Readers, Writers, Holding, TypeOK
      <3>2. TypeOK' /\ MutexOwner' /\ NoLostWakeup'
        BY <2>5 DEF pthread_mutex_lock, TypeOK, PCs, MutexOwner, NoLostWakeup,
                    ReadBlocked, WriteBlocked
      <3>3. CounterAgrees'
        BY <2>5, <3>1 DEF pthread_mutex_lock, CounterAgrees
      <3> QED
        BY <3>2, <3>3
    <2>6. ASSUME NEW t \in Threads, acquire_readlock(t) PROVE LockInv'
      <3>1. CASE ReadBlocked
        <4>1. /\ mutex' = NoThread /\ pc' = [pc EXCEPT ![t] = "waiting"]
              /\ UNCHANGED <<use_state, mode>>
          BY <2>6, <3>1 DEF acquire_readlock, pthread_cond_wait
        <4>2. Readers' = Readers /\ Writers' = Writers
          BY <2>6, <4>1 DEF acquire_readlock, Readers, Writers, Holding, TypeOK
        <4>3. TypeOK' /\ MutexOwner' /\ NoLostWakeup'
          BY <2>6, <3>1, <4>1
             DEF acquire_readlock, TypeOK, PCs, MutexOwner, NoLostWakeup,
                 ReadBlocked, WriteBlocked
        <4>4. CounterAgrees'
          BY <4>1, <4>2 DEF CounterAgrees
        <4> QED
          BY <4>3, <4>4
      <3>2. CASE ~ReadBlocked
        <4>1. /\ use_state' = use_state + 1 /\ use_state >= 0
              /\ use_state # MAX_READERS
              /\ mutex' = NoThread /\ pc' = [pc EXCEPT ![t] = "holding"]
              /\ UNCHANGED mode
          BY <2>6, <3>2 DEF acquire_readlock, ReadBlocked, TypeOK
        <4>2. /\ Readers' = Readers \cup {t} /\ t \notin Readers
              /\ Writers' = Writers
          BY <2>6, <4>1 DEF acquire_readlock, Readers, Writers, Holding, TypeOK
        <4>3. Cardinality(Readers') = Cardinality(Readers) + 1
          BY <4>2, HoldersFinite, FS_AddElement
        <4>4. CounterAgrees'
          BY <4>1, <4>2, <4>3 DEF CounterAgrees
        <4>5. TypeOK' /\ MutexOwner'
          BY <2>6, <4>1 DEF acquire_readlock, TypeOK, PCs, MutexOwner
        <4>6. NoLostWakeup'
          <5>1. ASSUME NEW u \in Threads, pc[u] = "waiting" PROVE mode[u] = "write"
            BY <3>2, <5>1 DEF NoLostWakeup, TypeOK
          <5> QED
            BY <2>6, <4>1, <5>1
               DEF acquire_readlock, NoLostWakeup, TypeOK, WriteBlocked
        <4> QED
          BY <4>4, <4>5, <4>6
      <3> QED
        BY <3>1, <3>2
    <2>7. ASSUME NEW t \in Threads, acquire_writelock(t) PROVE LockInv'
      <3>1. CASE WriteBlocked
        <4>1. /\ mutex' = NoThread /\ pc' = [pc EXCEPT ![t] = "waiting"]
              /\ UNCHANGED <<use_state, mode>>
          BY <2>7, <3>1 DEF acquire_writelock, pthread_cond_wait
        <4>2. Readers' = Readers /\ Writers' = Writers
          BY <2>7, <4>1 DEF acquire_writelock, Readers, Writers, Holding, TypeOK
        <4>3. TypeOK' /\ MutexOwner' /\ NoLostWakeup'
          BY <2>7, <3>1, <4>1
             DEF acquire_writelock, TypeOK, PCs, MutexOwner, NoLostWakeup,
                 ReadBlocked, WriteBlocked
        <4>4. CounterAgrees'
          BY <4>1, <4>2 DEF CounterAgrees
        <4> QED
          BY <4>3, <4>4
      <3>2. CASE ~WriteBlocked
        <4>1. /\ use_state = 0 /\ use_state' = -1
              /\ mutex' = NoThread /\ pc' = [pc EXCEPT ![t] = "holding"]
              /\ UNCHANGED mode
          BY <2>7, <3>2 DEF acquire_writelock, WriteBlocked
        <4>2. Readers = {} /\ Writers = {}
          BY <4>1, HoldersFinite DEF CounterAgrees
        <4>3. Readers' = {} /\ Writers' = {t}
          BY <2>7, <4>1, <4>2
             DEF acquire_writelock, Readers, Writers, Holding, TypeOK
        <4>4. CounterAgrees'
          BY <4>1, <4>3 DEF CounterAgrees
        <4>5. TypeOK' /\ MutexOwner'
          BY <2>7, <4>1 DEF acquire_writelock, TypeOK, PCs, MutexOwner
        <4>6. NoLostWakeup'
          BY <2>7, <4>1 DEF acquire_writelock, NoLostWakeup, TypeOK,
                            ReadBlocked, WriteBlocked
        <4> QED
          BY <4>4, <4>5, <4>6
      <3> QED
        BY <3>1, <3>2
    <2>8. ASSUME NEW t \in Threads, release_readlock(t) PROVE LockInv'
      <3>1. /\ use_state > 0 /\ use_state' = use_state - 1
            /\ mutex' = NoThread /\ UNCHANGED mode
            /\ pc[t] = "release" /\ mode[t] = "read"
            /\ pc' = [u \in Threads |-> IF u = t THEN "idle"
                         ELSE IF pc[u] = "waiting" THEN "enter" ELSE pc[u]]
        BY <2>8 DEF release_readlock, BroadcastAndUnlock
      <3>2. /\ Readers' = Readers \ {t} /\ t \in Readers
            /\ Writers' = Writers
        BY <3>1 DEF Readers, Writers, Holding, TypeOK
      <3>3. Cardinality(Readers') = Cardinality(Readers) - 1
        BY <3>2, HoldersFinite, FS_RemoveElement
      <3>4. CounterAgrees'
        BY <3>1, <3>2, <3>3 DEF CounterAgrees
      <3>5. TypeOK' /\ MutexOwner' /\ NoLostWakeup'
        BY <3>1 DEF TypeOK, PCs, MutexOwner, NoLostWakeup
      <3> QED
        BY <3>4, <3>5
    <2>9. ASSUME NEW t \in Threads, release_writelock(t) PROVE LockInv'
      <3>1. /\ use_state = -1 /\ use_state' = 0
            /\ mutex' = NoThread /\ UNCHANGED mode
            /\ pc[t] = "release" /\ mode[t] = "write"
            /\ pc' = [u \in Threads |-> IF u = t THEN "idle"
                         ELSE IF pc[u] = "waiting" THEN "enter" ELSE pc[u]]
        BY <2>9 DEF release_writelock, BroadcastAndUnlock
      <3>2. Readers = {} /\ Writers = {t}
        <4>1. t \in Writers
          BY <3>1 DEF Writers, Holding
        <4> QED
          BY <3>1, <4>1, HoldersFinite DEF CounterAgrees
      <3>3. Readers' = {} /\ Writers' = {}
        BY <3>1, <3>2 DEF Readers, Writers, Holding, TypeOK
      <3>4. CounterAgrees'
        BY <3>1, <3>3, FS_EmptySet DEF CounterAgrees
      <3>5. TypeOK' /\ MutexOwner' /\ NoLostWakeup'
        BY <3>1 DEF TypeOK, PCs, MutexOwner, NoLostWakeup
      <3> QED
        BY <3>4, <3>5
    <2> QED
      BY <2>1, <2>2, <2>3, <2>4, <2>5, <2>6, <2>7, <2>8, <2>9 DEF Next, LockStep
  <1> QED
    BY <1>1, <1>2, PTL DEF Spec

(* Never a writer together with anybody else (lock.c:1-2), and never more than *)
(* MAX_READERS readers, for any number of threads.                             *)
THEOREM MutualExclusion == Spec => []Exclusion
  <1>1. LockInv => Exclusion
    <2> SUFFICES ASSUME LockInv PROVE Exclusion
      OBVIOUS
    <2>1. \A t, u \in Threads :
              t \in Writers /\ t # u => u \notin Readers \cup Writers
      BY DEF LockInv, CounterAgrees
    <2>2. Cardinality(Readers) <= MAX_READERS
      <3>1. CASE use_state = Cardinality(Readers)
        BY <3>1, LockAssumption DEF LockInv, TypeOK
      <3>2. CASE Readers = {}
        BY <3>2, FS_EmptySet, LockAssumption
      <3> QED
        BY <3>1, <3>2 DEF LockInv, CounterAgrees
    <2> QED
      BY <2>1, <2>2 DEF Exclusion
  <1> QED
    BY <1>1, LockInvariant, PTL

(* lock.c implements the abstract lock: taking the mutex, waiting and waking   *)
(* are stutters; the four functions' counter updates are the abstract steps.   *)
THEOREM Implementation == Spec => ImplementsRWLock
  <1> USE LockAssumption DEF Abstract!lockVars
  <1>1. Init => Abstract!Init
    BY DEF Init, Abstract!Init, Readers, Writers, Holding
  <1>2. LockInv /\ [Next]_vars => [Abstract!Next]_(Abstract!lockVars)
    <2> SUFFICES ASSUME LockInv, [Next]_vars
                 PROVE  [Abstract!Next]_(Abstract!lockVars)
      OBVIOUS
    <2> USE DEF LockInv, TypeOK
    <2>1. CASE UNCHANGED vars
      BY <2>1 DEF vars, Readers, Writers, Holding
    <2>2. ASSUME NEW t \in Threads,
                 CallAcquire(t) \/ CallRelease(t) \/ SpuriousWakeup(t)
                     \/ pthread_mutex_lock(t)
          PROVE  UNCHANGED <<Readers, Writers>>
      BY <2>2 DEF CallAcquire, CallRelease, SpuriousWakeup, pthread_mutex_lock,
                  Readers, Writers, Holding
    <2>3. ASSUME NEW t \in Threads, acquire_readlock(t)
          PROVE  [Abstract!Next]_(Abstract!lockVars)
      <3>1. CASE ReadBlocked
        BY <2>3, <3>1 DEF acquire_readlock, pthread_cond_wait,
                          Readers, Writers, Holding
      <3>2. CASE ~ReadBlocked
        <4>1. /\ use_state >= 0 /\ use_state < MAX_READERS
              /\ pc[t] = "test" /\ pc' = [pc EXCEPT ![t] = "holding"]
              /\ mode[t] = "read" /\ UNCHANGED mode
          BY <2>3, <3>2 DEF acquire_readlock, ReadBlocked
        <4>2. /\ t \notin Readers \cup Writers
              /\ Readers' = Readers \cup {t} /\ UNCHANGED Writers
          BY <4>1 DEF Readers, Writers, Holding
        <4>3. Writers = {} /\ Cardinality(Readers) < MAX_READERS
          BY <4>1 DEF CounterAgrees
        <4> QED
          BY <4>2, <4>3 DEF Abstract!Next, Abstract!AcquireRead,
                              Abstract!Cardinality, Cardinality
      <3> QED
        BY <3>1, <3>2
    <2>4. ASSUME NEW t \in Threads, acquire_writelock(t)
          PROVE  [Abstract!Next]_(Abstract!lockVars)
      <3>1. CASE WriteBlocked
        BY <2>4, <3>1 DEF acquire_writelock, pthread_cond_wait,
                          Readers, Writers, Holding
      <3>2. CASE ~WriteBlocked
        <4>1. /\ use_state = 0
              /\ pc[t] = "test" /\ pc' = [pc EXCEPT ![t] = "holding"]
              /\ mode[t] = "write" /\ UNCHANGED mode
          BY <2>4, <3>2 DEF acquire_writelock, WriteBlocked
        <4>2. Readers = {} /\ Writers = {}
          BY <4>1, HoldersFinite DEF CounterAgrees
        <4>3. UNCHANGED Readers /\ Writers' = {t}
          BY <4>1, <4>2 DEF Readers, Writers, Holding
        <4> QED
          BY <4>2, <4>3 DEF Abstract!Next, Abstract!AcquireWrite
      <3> QED
        BY <3>1, <3>2
    <2>5. ASSUME NEW t \in Threads, release_readlock(t)
          PROVE  Abstract!ReleaseRead(t)
      BY <2>5 DEF release_readlock, BroadcastAndUnlock, Abstract!ReleaseRead,
                  Readers, Writers, Holding
    <2>6. ASSUME NEW t \in Threads, release_writelock(t)
          PROVE  Abstract!ReleaseWrite(t)
      BY <2>6 DEF release_writelock, BroadcastAndUnlock, Abstract!ReleaseWrite,
                  Readers, Writers, Holding
    <2> QED
      BY <2>1, <2>2, <2>3, <2>4, <2>5, <2>6 DEF Next, LockStep, Abstract!Next
  <1> QED
    BY <1>1, <1>2, LockInvariant, PTL DEF Spec, ImplementsRWLock, Abstract!Spec
-------------------------------------------------------------------------------
(* send_message and recv_message.                                              *)
LEMMA NonceInit ==
    ASSUME SendAssumption, SendInit
    PROVE  NonceInv
  <1> USE DEF SendAssumption, SendInit
  <1>1. SendTypes
    BY EmptySeq DEF SendTypes
  <1>2. NoncesPast /\ NoncesRise /\ ReadsWhatWasSent
    BY DEF NoncesPast, NoncesRise, ReadsWhatWasSent
  <1> QED
    BY <1>1, <1>2 DEF NonceInv

(* The nonces on the wire are numbers.                                         *)
LEMMA WireType ==
    ASSUME SendTypes, NEW i \in 1 .. Len(wire)
    PROVE  wire[i] \in Messages /\ wire[i].key \in Nat /\ wire[i].text \in Text
  <1>1. wire \in Seq(Messages)
    BY DEF SendTypes
  <1>2. wire[i] \in Messages
    BY <1>1, ElementOfSeq
  <1> QED
    BY <1>2 DEF Messages

(* Each step, when the sending thread is the only one.                         *)
LEMMA NonceStep ==
    ASSUME SendAssumption, \A t, u \in Sender : t = u,
           NonceInv, [SendNext]_sendvars
    PROVE  NonceInv'
  <1> USE DEF SendAssumption, NonceInv, goto
  <1>1. ASSUME NEW t \in Sender, encrypt_header(t) PROVE NonceInv'
    <2>1. Cipher(nonce, nonce, nonce, <<t, nsent[t] + 1>>) \in Messages
      BY <1>1 DEF encrypt_header, SendTypes, Cipher, Messages, Text
    <2>2. SendTypes'
      <3>1. /\ nsent' \in [Sender -> 0 .. MaxMsgs]
            /\ at' \in [Sender -> {"idle", "cipher", "load", "store", "add"}]
        BY <1>1 DEF encrypt_header, SendTypes
      <3>2. /\ m' \in [Sender -> Messages \cup {NoMessage}]
            /\ m'[t] \in Messages
            /\ \A u \in Sender \ {t} : m'[u] = m[u] /\ at'[u] = at[u]
        BY <1>1, <2>1 DEF encrypt_header, SendTypes
      <3> QED
        BY <1>1, <3>1, <3>2 DEF encrypt_header, SendTypes
    <2>3. NoncesPast'
      BY <1>1 DEF encrypt_header, SendTypes, NoncesPast, Cipher
    <2>4. NoncesRise' /\ ReadsWhatWasSent'
      BY <1>1 DEF encrypt_header, NoncesRise, ReadsWhatWasSent
    <2> QED
      BY <2>2, <2>3, <2>4
  <1>2. ASSUME NEW t \in Sender, encrypt_text(t) PROVE NonceInv'
    <2>1. m[t] \in Messages /\ [m[t] EXCEPT !.key = nonce] \in Messages
      BY <1>2 DEF encrypt_text, SendTypes, Messages
    <2>2. SendTypes'
      BY <1>2, <2>1 DEF encrypt_text, SendTypes
    <2>3. m'[t] = [m[t] EXCEPT !.key = nonce]
      BY <1>2 DEF encrypt_text, SendTypes
    <2>4. NoncesPast'
      BY <1>2, <2>1, <2>3 DEF encrypt_text, SendTypes, NoncesPast, Messages
    <2>5. NoncesRise' /\ ReadsWhatWasSent'
      BY <1>2 DEF encrypt_text, NoncesRise, ReadsWhatWasSent
    <2> QED
      BY <2>2, <2>4, <2>5
  <1>3. ASSUME NEW t \in Sender, nonce_load(t) PROVE NonceInv'
    BY <1>3 DEF nonce_load, SendTypes, NoncesPast, NoncesRise, ReadsWhatWasSent
  <1>4. ASSUME NEW t \in Sender, nonce_store(t) PROVE NonceInv'
    <2>1. SendTypes'
      BY <1>4 DEF nonce_store, SendTypes
    <2>2. /\ nonce' = nonce + 1 /\ m[t].key = nonce
          /\ \A i \in 1 .. Len(wire) : wire[i].key \in Nat
      BY <1>4, WireType DEF nonce_store, NoncesPast
    <2>3. NoncesPast'
      BY <1>4, <2>2 DEF nonce_store, SendTypes, NoncesPast
    <2>4. NoncesRise' /\ ReadsWhatWasSent'
      BY <1>4 DEF nonce_store, NoncesRise, ReadsWhatWasSent
    <2> QED
      BY <2>1, <2>3, <2>4
  <1>5. ASSUME NEW t \in Sender, add_message(t) PROVE NonceInv'
    <2>1. /\ m[t] \in Messages /\ wire \in Seq(Messages) /\ Len(wire) \in Nat
          /\ at[t] = "add" /\ at'[t] = "idle" /\ UNCHANGED <<nonce, m, received>>
      BY <1>5, LenProperties DEF add_message, SendTypes
    <2>2. /\ Len(wire') = Len(wire) + 1
          /\ \A i \in 1 .. Len(wire) : wire'[i] = wire[i]
          /\ wire'[Len(wire) + 1] = m[t]
          /\ wire' \in Seq(Messages)
      BY <1>5, <2>1, AppendProperties DEF add_message
    <2>3. SendTypes'
      BY <1>5, <2>2 DEF add_message, SendTypes
    <2>4. NoncesPast'
      BY <2>1, <2>2 DEF NoncesPast
    <2>5. NoncesRise'
      BY SMTT(30), <2>1, <2>2 DEF NoncesPast, NoncesRise
    <2>6. ReadsWhatWasSent'
      <3>1. Len(received) \in Nat
        BY LenProperties DEF SendTypes
      <3> QED
        BY <2>1, <2>2, <3>1 DEF ReadsWhatWasSent
    <2> QED
      BY <2>3, <2>4, <2>5, <2>6
  <1>6. ASSUME recv_message PROVE NonceInv'
    <2> DEFINE c == wire[Len(received) + 1]
    <2>1. /\ received \in Seq(Text \cup {Garbage}) /\ Len(received) \in Nat
          /\ wire \in Seq(Messages) /\ Len(wire) \in Nat
          /\ Len(received) + 1 \in 1 .. Len(wire)
      BY <1>6, LenProperties DEF recv_message, SendTypes
    <2>2. c \in Messages /\ c.key = c.head /\ c.text \in Text
      BY <2>1, WireType DEF NoncesRise
    <2>3. received' = Append(received, c.text)
      BY <1>6, <2>2 DEF recv_message
    <2>4. /\ received' \in Seq(Text \cup {Garbage})
          /\ Len(received') = Len(received) + 1
          /\ \A i \in 1 .. Len(received) : received'[i] = received[i]
          /\ received'[Len(received) + 1] = c.text
      BY <2>1, <2>2, <2>3, AppendProperties
    <2>5. SendTypes' /\ NoncesPast' /\ NoncesRise'
      BY <1>6, <2>4 DEF recv_message, SendTypes, NoncesPast, NoncesRise
    <2>6. ReadsWhatWasSent'
      BY <1>6, <2>1, <2>4 DEF recv_message, ReadsWhatWasSent
    <2> QED
      BY <2>5, <2>6
  <1>7. CASE UNCHANGED sendvars
    BY <1>7 DEF sendvars, SendTypes, NoncesPast, NoncesRise, ReadsWhatWasSent
  <1> QED
    BY <1>1, <1>2, <1>3, <1>4, <1>5, <1>6, <1>7 DEF SendNext, send_message

(* A keyset that one thread sends with uses its nonces once, in rising order,  *)
(* and the receiver reads the texts that were sent, in order.                  *)
THEOREM OneSenderNonces ==
    ASSUME SendAssumption, \A t, u \in Sender : t = u
    PROVE  SendSpec => []NonceInv
  <1>1. SendInit => NonceInv
    BY NonceInit
  <1>2. NonceInv /\ [SendNext]_sendvars => NonceInv'
    BY NonceStep
  <1> QED
    BY <1>1, <1>2, PTL DEF SendSpec

(* The nonces of such a keyset are all different (inet/message.h:6).           *)
COROLLARY OneSenderUnique ==
    ASSUME SendAssumption, \A t, u \in Sender : t = u
    PROVE  SendSpec => []NonceUnique
  <1>1. NonceInv => NonceUnique
    <2> SUFFICES ASSUME NonceInv, NEW i \in 1 .. Len(wire), NEW j \in 1 .. Len(wire),
                        wire[i].key = wire[j].key
                 PROVE  i = j
      BY DEF NonceUnique
    <2>1. wire[i].key \in Nat /\ wire[j].key \in Nat
      BY WireType DEF NonceInv
    <2>2. Len(wire) \in Nat
      BY LenProperties DEF NonceInv, SendTypes
    <2>3. ~(wire[i].key < wire[j].key) /\ ~(wire[j].key < wire[i].key)
      BY <2>1
    <2>4. ~(i < j) /\ ~(j < i)
      BY <2>3, Zenon DEF NonceInv, NoncesRise
    <2> QED
      BY <2>2, <2>4
  <1> QED
    BY <1>1, OneSenderNonces, PTL

-------------------------------------------------------------------------------
(* Induction over a set of numbers: the least number not in it does not exist. *)
LEMMA Least ==
    ASSUME NEW T \in SUBSET Nat, T # {}
    PROVE  \E n \in T : \A l \in T : n <= l
  <1> DEFINE R == {p \in Nat \X Nat : p[1] < p[2]}
  <1>1. IsWellFoundedOn(R, Nat)
    BY NatLessThanWellFounded DEF OpToRel
  <1>2. PICK n \in T : \A l \in T : <<l, n>> \notin R
    <2> HIDE DEF R
    <2> QED
      BY <1>1, WFMin
  <1>3. \A l \in T : n <= l
    <2> SUFFICES ASSUME NEW l \in T PROVE n <= l
      OBVIOUS
    <2>1. l \in Nat /\ n \in Nat
      OBVIOUS
    <2>2. <<l, n>> \notin R
      BY <1>2
    <2> QED
      BY <2>1, <2>2
  <1> QED
    BY <1>3

(* Induction over 0 .. N.                                                       *)
LEMMA UpTo ==
    ASSUME NEW N \in Nat, NEW T, 0 \in T,
           \A k \in 1 .. N : k - 1 \in T => k \in T
    PROVE  0 .. N \subseteq T
  <1> DEFINE Bad == {k \in 0 .. N : k \notin T}
  <1>1. ASSUME Bad # {} PROVE FALSE
    <2>1. PICK n \in Bad : \A l \in Bad : n <= l
      <3>1. Bad \in SUBSET Nat
        OBVIOUS
      <3> HIDE DEF Bad
      <3> QED
        BY <1>1, <3>1, Least
    <2>2. n \in 1 .. N /\ n - 1 \in 0 .. N
      OBVIOUS
    <2>3. n - 1 \in T
      <3>1. n - 1 \notin Bad
        BY <2>1, <2>2
      <3> QED
        BY <2>2, <3>1
    <2> QED
      BY <2>2, <2>3
  <1> QED
    BY <1>1

(* A value that a loop of N turns changes: there is the function of its values.*)
Trace(g, V, base, N, f) ==
    /\ g \in [0 .. N -> V]
    /\ g[0] = base
    /\ \A k \in 1 .. N : g[k] = f[k][g[k - 1]]

LEMMA Iterate ==
    ASSUME NEW V, NEW base \in V, NEW N \in Nat,
           NEW f \in [1 .. N -> [V -> V]]
    PROVE  \E g : Trace(g, V, base, N, f)
  <1> DEFINE T == {n \in 0 .. N : \E g : Trace(g, V, base, n, f)}
  <1>1. 0 \in T
    <2>1. Trace([k \in 0 .. 0 |-> base], V, base, 0, f)
      BY DEF Trace
    <2> QED
      BY <2>1
  <1>2. ASSUME NEW n \in 1 .. N, n - 1 \in T PROVE n \in T
    <2>1. PICK g : Trace(g, V, base, n - 1, f)
      BY <1>2
    <2> DEFINE h == [k \in 0 .. n |-> IF k = n THEN f[n][g[n - 1]] ELSE g[k]]
    <2>2. n - 1 \in 0 .. n - 1 /\ g[n - 1] \in V
      BY <2>1 DEF Trace
    <2>3. f[n][g[n - 1]] \in V
      BY <2>2
    <2>4. h \in [0 .. n -> V]
      BY <2>1, <2>3 DEF Trace
    <2>5. h[0] = base
      BY <2>1 DEF Trace
    <2>6. ASSUME NEW k \in 1 .. n PROVE h[k] = f[k][h[k - 1]]
      <3>1. CASE k = n
        BY <3>1
      <3>2. CASE k # n
        <4>1. k \in 1 .. n - 1 /\ k - 1 \in 0 .. n - 1 /\ k - 1 # n /\ k \in 0 .. n
          BY <3>2
        <4>2. h[k] = g[k] /\ h[k - 1] = g[k - 1]
          BY <3>2, <4>1
        <4> QED
          BY <4>1, <4>2, <2>1 DEF Trace
      <3> QED
        BY <3>1, <3>2
    <2>7. Trace(h, V, base, n, f)
      <3> HIDE DEF h
      <3> QED
        BY <2>4, <2>5, <2>6 DEF Trace
    <2> QED
      BY <2>7
  <1>3. N \in T
    <2> HIDE DEF T
    <2>1. 0 .. N \subseteq T
      BY <1>1, <1>2, UpTo
    <2> QED
      BY <2>1
  <1> QED
    BY <1>3

-------------------------------------------------------------------------------
(* The user database, whose table db.l guards.  A table that has, in the chain *)
(* where user_db_get looks, the entries of E and no others.                    *)
Ent == [uid : Uid, und_auth : Key]
Idx(e) == Hash[e.uid] % size
Tables == [0 .. size - 1 -> Seq(Ent)]
Has(b, E) ==
    /\ b \in Tables
    /\ \A i \in 0 .. size - 1 : \A j \in 1 .. Len(b[i]) :
          b[i][j] \in E /\ Idx(b[i][j]) = i
    /\ \A e \in E : \E j \in 1 .. Len(b[Idx(e)]) : b[Idx(e)][j] = e

(* The table: its entries are those of user files.                             *)
InTable(u) == \E e \in Entries : e.uid = u
TableI ==
    /\ size = MIN_SIZE
    /\ Has(buckets, Entries) /\ Entries \subseteq Ent
    /\ IsFiniteSet(Entries) /\ elements = Cardinality(Entries)
    /\ \A e \in Entries : user_file[e.uid] = e.und_auth

(* The threads: who registers a user holds the lock, and has a key.            *)
Registering == {"open", "write", "insert"}
ThreadI ==
    /\ place \in [Session -> {"idle", "register", "header", "add", "open", "write",
                              "insert"}]
    /\ uid \in [Session -> Uid] /\ und_auth \in [Session -> Key \cup {NoFile}]
    /\ nkeys \in 0 .. MaxKeys
    /\ writer \in Session \cup {Nobody}
    /\ \A t \in Session : place[t] \in Registering <=> writer = t
    /\ \A t \in Session :
          place[t] \in Registering \cup {"header", "add"} => und_auth[t] \in Key
    /\ main # "running" => \A t \in Session : place[t] = "idle"
    /\ \A t \in Session : writer = t => ~InTable(uid[t])
    /\ \A t \in Session : place[t] = "insert" => user_file[uid[t]] = und_auth[t]

(* The files: one that is complete is in the table, is yet to be read or is    *)
(* that of the registration in hand.                                           *)
FileI ==
    /\ user_file \in [Uid -> Key \cup {NoFile, Empty}]
    /\ undel_file \in [Uid -> Key \cup {NoFile, Empty}]
    /\ main \in {"running", "down", "loading"}
    /\ unread \subseteq {u \in Uid : user_file[u] # NoFile}
    /\ main = "down" => Entries = {}
    /\ main # "loading" => unread = {}
    /\ \A u \in unread : ~InTable(u)
    /\ main = "loading" =>
          \A u \in Uid : user_file[u] \in Key => InTable(u) \/ u \in unread
    /\ main = "running" =>
          \A u \in Uid : user_file[u] \in Key =>
              InTable(u) \/ \E t \in Session : writer = t /\ uid[t] = u

(* The keys, if no two sessions register a user at once.                       *)
Active(t) == place[t] # "idle"
LeftEmpty(u) == undel_file[u] = Empty /\ u \in cut \cup Emptied
KeyI ==
    /\ overlap \in BOOLEAN
    /\ ~overlap =>
          /\ \A s, t \in Session : Active(s) /\ Active(t) /\ uid[s] = uid[t] => s = t
          /\ \A t \in Session : Active(t) => ~InTable(uid[t])
          /\ \A t \in Session : place[t] \in Registering \cup {"add"} =>
                undel_file[uid[t]] = und_auth[t]
          /\ \A u \in Uid : user_file[u] \in Key =>
                undel_file[u] = user_file[u] \/ LeftEmpty(u)

(* The calls on undelivered files: of users in the table.                      *)
CallI ==
    /\ calls \subseteq [step : {"truncate", "reinit", "rewrite"}, user : Entries]
    /\ cut \subseteq Uid
    /\ main # "running" => calls = {}

DbInv == TableI /\ ThreadI /\ FileI /\ KeyI /\ CallI

-------------------------------------------------------------------------------
(* What the lemmas on the table need to know of db.size.                       *)
Sized == size \in Nat \ {0}

LEMMA IdxType == ASSUME Sized, NEW e \in Ent PROVE Idx(e) \in 0 .. size - 1
  <1>1. Hash[e.uid] \in Nat
    BY UserDbAssumption DEF Ent
  <1> QED
    BY <1>1 DEF Idx, Sized

LEMMA HasNone == ASSUME Sized PROVE Has([j \in 0 .. size - 1 |-> <<>>], {})
  BY DEF Has, Tables

LEMMA PrependTable ==
    ASSUME Sized, NEW b \in Tables, NEW e \in Ent
    PROVE  Prepend(b, e) \in Tables
  <1>1. b[Idx(e)] \in Seq(Ent) /\ <<e>> \in Seq(Ent)
    BY IdxType DEF Tables
  <1>2. <<e>> \o b[Idx(e)] \in Seq(Ent)
    BY <1>1, ConcatProperties
  <1> QED
    BY <1>2 DEF Prepend, Tables, Idx

LEMMA HasPrepend ==
    ASSUME Sized, NEW E \in SUBSET Ent, NEW b, Has(b, E), NEW e \in Ent
    PROVE  Has(Prepend(b, e), E \cup {e})
  <1> DEFINE p == Prepend(b, e)
             q == b[Idx(e)]
             r == <<e>> \o q
  <1>1. b \in Tables /\ p \in Tables /\ Idx(e) \in 0 .. size - 1
    BY IdxType, PrependTable DEF Has
  <1>2. p[Idx(e)] = r /\ \A i \in 0 .. size - 1 : i # Idx(e) => p[i] = b[i]
    BY <1>1 DEF Prepend, Tables, Idx
  <1>3. q \in Seq(Ent) /\ Len(q) \in Nat
    BY <1>1 DEF Tables
  <1>4. Len(r) = Len(q) + 1 /\ r[1] = e /\ \A j \in 1 .. Len(q) : r[j + 1] = q[j]
    BY <1>3
  <1>5. \A j \in 1 .. Len(r) : j = 1 \/ (j - 1 \in 1 .. Len(q) /\ r[j] = q[j - 1])
    BY <1>3, <1>4
  <1> HIDE DEF p, r
  <1>6. ASSUME NEW i \in 0 .. size - 1, NEW j \in 1 .. Len(p[i])
        PROVE  p[i][j] \in E \cup {e} /\ Idx(p[i][j]) = i
    <2>1. CASE i # Idx(e)
      BY <1>2, <2>1 DEF Has
    <2>2. CASE i = Idx(e) /\ j = 1
      BY <1>2, <1>4, <2>2
    <2>3. CASE i = Idx(e) /\ j # 1
      <3>1. j - 1 \in 1 .. Len(b[i]) /\ p[i][j] = b[i][j - 1]
        BY <1>2, <1>5, <2>3
      <3> QED
        BY <3>1 DEF Has
    <2> QED
      BY <2>1, <2>2, <2>3
  <1>7. ASSUME NEW f \in E \cup {e}
        PROVE  \E j \in 1 .. Len(p[Idx(f)]) : p[Idx(f)][j] = f
    <2>1. CASE f = e
      <3>1. 1 \in 1 .. Len(r)
        BY <1>3, <1>4
      <3> QED
        BY <1>2, <1>4, <2>1, <3>1
    <2>2. CASE f \in E
      <3>1. PICK j \in 1 .. Len(b[Idx(f)]) : b[Idx(f)][j] = f
        BY <2>2 DEF Has
      <3>2. CASE Idx(f) = Idx(e)
        <4>1. j + 1 \in 1 .. Len(r) /\ r[j + 1] = f
          BY <1>3, <1>4, <3>1, <3>2
        <4> QED
          BY <1>2, <3>2, <4>1
      <3>3. CASE Idx(f) # Idx(e)
        <4>1. Idx(f) \in 0 .. size - 1
          BY <2>2, IdxType
        <4> QED
          BY <1>2, <3>1, <3>3, <4>1
      <3> QED
        BY <3>2, <3>3
    <2> QED
      BY <2>1, <2>2
  <1> QED
    BY <1>1, <1>6, <1>7 DEF Has, p

(* The recursive function of MoveChain has the values the loop goes through.   *)
Moved(mv, q, b) ==
    mv = [k \in 0 .. Len(q) |-> IF k = 0 THEN b ELSE Prepend(mv[k - 1], q[k])]

LEMMA MoveChainTrace ==
    ASSUME Sized, NEW b \in Tables, NEW q \in Seq(Ent)
    PROVE  \E mv : /\ mv[0] = b
                   /\ \A k \in 1 .. Len(q) : mv[k] = Prepend(mv[k - 1], q[k])
                   /\ MoveChain(q, b) = mv[Len(q)]
  <1> DEFINE f == [k \in 1 .. Len(q) |-> [v \in Tables |-> Prepend(v, q[k])]]
  <1>1. Len(q) \in Nat /\ \A k \in 1 .. Len(q) : q[k] \in Ent
    OBVIOUS
  <1>2. f \in [1 .. Len(q) -> [Tables -> Tables]]
    BY <1>1, PrependTable
  <1>3. PICK g : Trace(g, Tables, b, Len(q), f)
    <2> HIDE DEF f
    <2> QED
      BY <1>1, <1>2, Iterate
  <1>4. g \in [0 .. Len(q) -> Tables] /\ g[0] = b
    BY <1>3 DEF Trace
  <1>5. \A k \in 1 .. Len(q) : g[k] = Prepend(g[k - 1], q[k])
    <2> SUFFICES ASSUME NEW k \in 1 .. Len(q) PROVE g[k] = Prepend(g[k - 1], q[k])
      OBVIOUS
    <2>1. g[k] = f[k][g[k - 1]] /\ g[k - 1] \in Tables
      BY SMTT(30), <1>1, <1>3, <1>4 DEF Trace
    <2> QED
      BY <2>1
  <1>6. Moved(g, q, b)
    BY <1>1, <1>4, <1>5 DEF Moved
  <1> DEFINE mv == CHOOSE moved : Moved(moved, q, b)
  <1>7. Moved(mv, q, b) /\ MoveChain(q, b) = mv[Len(q)]
    BY <1>6 DEF MoveChain, Moved
  <1> HIDE DEF mv
  <1>8. mv[0] = b /\ \A k \in 1 .. Len(q) : mv[k] = Prepend(mv[k - 1], q[k])
    BY SMTT(30), <1>1, <1>7 DEF Moved
  <1> QED
    BY <1>7, <1>8

LEMMA HasMoveChain ==
    ASSUME Sized, NEW E \in SUBSET Ent, NEW b, Has(b, E), NEW q \in Seq(Ent)
    PROVE  Has(MoveChain(q, b), E \cup {q[k] : k \in 1 .. Len(q)})
  <1>1. PICK mv : /\ mv[0] = b
                  /\ \A k \in 1 .. Len(q) : mv[k] = Prepend(mv[k - 1], q[k])
                  /\ MoveChain(q, b) = mv[Len(q)]
    BY MoveChainTrace DEF Has
  <1> DEFINE Before(k) == {q[i] : i \in 1 .. k}
             K == {k \in 0 .. Len(q) : Has(mv[k], E \cup Before(k))}
  <1>2. Len(q) \in Nat /\ \A k \in 1 .. Len(q) : q[k] \in Ent
    OBVIOUS
  <1>3. 0 \in K
    <2>1. E \cup Before(0) = E
      OBVIOUS
    <2> HIDE DEF Before
    <2>2. Has(mv[0], E \cup Before(0))
      BY <1>1, <2>1, Zenon
    <2> QED
      BY <1>2, <2>2
  <1>4. ASSUME NEW k \in 1 .. Len(q), k - 1 \in K PROVE k \in K
    <2>1. E \cup Before(k) = (E \cup Before(k - 1)) \cup {q[k]}
      BY <1>2
    <2>2. E \cup Before(k - 1) \in SUBSET Ent /\ Has(mv[k - 1], E \cup Before(k - 1))
      BY <1>2, <1>4
    <2> HIDE DEF Before
    <2> QED
      BY <1>1, <1>2, <2>1, <2>2, HasPrepend
  <1>5. Len(q) \in K
    <2> HIDE DEF K
    <2>1. 0 .. Len(q) \subseteq K
      BY <1>2, <1>3, <1>4, UpTo
    <2> QED
      BY <1>2, <2>1
  <1> QED
    BY <1>1, <1>5

(* The same of Rehash.                                                         *)
LEMMA MoveChainTable ==
    ASSUME Sized, NEW b \in Tables, NEW q \in Seq(Ent)
    PROVE  MoveChain(q, b) \in Tables
  <1>1. PICK mv : /\ mv[0] = b
                  /\ \A k \in 1 .. Len(q) : mv[k] = Prepend(mv[k - 1], q[k])
                  /\ MoveChain(q, b) = mv[Len(q)]
    BY MoveChainTrace
  <1> DEFINE K == {k \in 0 .. Len(q) : mv[k] \in Tables}
  <1>2. Len(q) \in Nat /\ \A k \in 1 .. Len(q) : q[k] \in Ent
    OBVIOUS
  <1>3. 0 \in K /\ \A k \in 1 .. Len(q) : k - 1 \in K => k \in K
    BY <1>1, <1>2, PrependTable
  <1> HIDE DEF K
  <1>4. 0 .. Len(q) \subseteq K
    BY <1>2, <1>3, UpTo
  <1> QED
    BY <1>1, <1>2, <1>4 DEF K

Empties == [j \in 0 .. size - 1 |-> <<>>]
Turn(b, v, i) == IF i <= size THEN MoveChain(b[i - 1], v) ELSE v
Rehashed(mv, b, to) ==
    mv = [i \in 0 .. to |->
             IF i = 0 THEN [j \in 0 .. size - 1 |-> <<>>]
             ELSE IF i <= size THEN MoveChain(b[i - 1], mv[i - 1])
             ELSE mv[i - 1]]

LEMMA TurnTable ==
    ASSUME Sized, NEW b \in Tables, NEW v \in Tables, NEW i \in Nat \ {0}
    PROVE  Turn(b, v, i) \in Tables
  <1>1. ASSUME i <= size PROVE b[i - 1] \in Seq(Ent)
    BY <1>1 DEF Tables, Sized
  <1> QED
    BY <1>1, MoveChainTable DEF Turn

LEMMA RehashTrace ==
    ASSUME Sized, NEW b \in Tables, NEW to \in Nat
    PROVE  \E mv : /\ mv[0] = Empties
                   /\ \A i \in 1 .. to : mv[i] = Turn(b, mv[i - 1], i)
                   /\ Rehash(b, to) = mv[to]
  <1> DEFINE f == [i \in 1 .. to |-> [v \in Tables |-> Turn(b, v, i)]]
  <1>1. Empties \in Tables /\ 0 \in 0 .. to /\ to \in 0 .. to
    BY DEF Empties, Tables
  <1>2. f \in [1 .. to -> [Tables -> Tables]]
    BY TurnTable
  <1>3. PICK g : Trace(g, Tables, Empties, to, f)
    <2> HIDE DEF f
    <2> QED
      BY <1>1, <1>2, Iterate
  <1>4. g \in [0 .. to -> Tables] /\ g[0] = Empties
    BY <1>3 DEF Trace
  <1>5. \A i \in 1 .. to : g[i] = Turn(b, g[i - 1], i)
    <2> SUFFICES ASSUME NEW i \in 1 .. to PROVE g[i] = Turn(b, g[i - 1], i)
      OBVIOUS
    <2>1. g[i] = f[i][g[i - 1]] /\ g[i - 1] \in Tables
      BY <1>3, <1>4 DEF Trace
    <2> QED
      BY <2>1
  <1>6. Rehashed(g, b, to)
    BY <1>4, <1>5 DEF Rehashed, Turn, Empties
  <1> DEFINE mv == CHOOSE moved : Rehashed(moved, b, to)
  <1>7. Rehashed(mv, b, to) /\ Rehash(b, to) = mv[to]
    BY <1>6 DEF Rehash, Rehashed
  <1> HIDE DEF mv
  <1>8. mv[0] = Empties
    BY <1>1, <1>7 DEF Rehashed, Empties
  <1>9. \A i \in 1 .. to : mv[i] = Turn(b, mv[i - 1], i)
    <2>1. \A i \in 1 .. to : i \in 0 .. to /\ i # 0
      OBVIOUS
    <2> QED
      BY <1>7, <2>1, Zenon DEF Rehashed, Turn
  <1> QED
    BY <1>7, <1>8, <1>9

(* A rehash of the whole table keeps its entries.                              *)
LEMMA HasRehash ==
    ASSUME Sized, NEW E \in SUBSET Ent, NEW b, Has(b, E), NEW to \in Nat, to >= size
    PROVE  Has(Rehash(b, to), E)
  <1>1. b \in Tables
    BY DEF Has
  <1>2. PICK mv : /\ mv[0] = Empties
                  /\ \A i \in 1 .. to : mv[i] = Turn(b, mv[i - 1], i)
                  /\ Rehash(b, to) = mv[to]
    BY <1>1, RehashTrace
  <1> DEFINE Below(k) == {e \in E : Idx(e) < k}
             K == {k \in 0 .. to : Has(mv[k], Below(k))}
  <1>3. \A e \in E : Idx(e) \in 0 .. size - 1
    BY IdxType
  <1>4. 0 \in K
    <2>1. Below(0) = {}
      BY <1>3
    <2> HIDE DEF Below
    <2>2. Has(mv[0], Below(0))
      BY <1>2, <2>1, HasNone, Zenon DEF Empties
    <2> QED
      BY <2>2
  <1>5. ASSUME NEW k \in 1 .. to, k - 1 \in K PROVE k \in K
    <2>1. mv[k] = Turn(b, mv[k - 1], k) /\ Has(mv[k - 1], Below(k - 1))
      BY <1>2, <1>5
    <2>2. CASE k <= size
      <3> DEFINE q == b[k - 1]
      <3>1. k - 1 \in 0 .. size - 1 /\ q \in Seq(Ent)
        BY <1>1, <2>2 DEF Tables, Sized
      <3>2. Below(k) = Below(k - 1) \cup {q[j] : j \in 1 .. Len(q)}
        <4>1. ASSUME NEW e \in E PROVE Idx(e) < k <=> Idx(e) < k - 1 \/ Idx(e) = k - 1
          BY <1>3 DEF Sized
        <4>2. \A j \in 1 .. Len(q) : q[j] \in E /\ Idx(q[j]) = k - 1
          BY <3>1 DEF Has
        <4>3. \A e \in E : Idx(e) = k - 1 => \E j \in 1 .. Len(q) : q[j] = e
          BY DEF Has
        <4> HIDE DEF q
        <4> QED
          BY <4>1, <4>2, <4>3
      <3>3. Below(k - 1) \in SUBSET Ent
        OBVIOUS
      <3> HIDE DEF Below
      <3>4. Has(MoveChain(q, mv[k - 1]), Below(k - 1) \cup {q[j] : j \in 1 .. Len(q)})
        BY <2>1, <3>1, <3>3, HasMoveChain
      <3>5. mv[k] = MoveChain(q, mv[k - 1])
        BY <2>1, <2>2 DEF Turn
      <3> HIDE DEF q
      <3>6. Has(mv[k], Below(k))
        BY <3>2, <3>4, <3>5, Zenon
      <3> QED
        BY <3>6
    <2>3. CASE ~(k <= size)
      <3>1. Below(k) = Below(k - 1)
        BY <1>3, <2>3 DEF Sized
      <3> HIDE DEF Below
      <3>2. mv[k] = mv[k - 1]
        BY <2>1, <2>3 DEF Turn
      <3>3. Has(mv[k], Below(k))
        BY <2>1, <3>1, <3>2, Zenon
      <3> QED
        BY <3>3
    <2> QED
      BY <2>2, <2>3
  <1>6. to \in K
    <2> HIDE DEF K
    <2>1. 0 .. to \subseteq K
      BY <1>4, <1>5, UpTo
    <2> QED
      BY <2>1
  <1>7. Below(to) = E
    BY <1>3 DEF Sized
  <1> QED
    BY <1>2, <1>6, <1>7

-------------------------------------------------------------------------------
(* The members of a table's chains.                                            *)
Members(b) == UNION {{b[i][j] : j \in DOMAIN b[i]} : i \in DOMAIN b}
LEMMA HasEntries ==
    ASSUME Sized, NEW E \in SUBSET Ent, NEW b, Has(b, E)
    PROVE  Members(b) = E
  <1> DEFINE In(i) == {b[i][j] : j \in DOMAIN b[i]}
  <1>1. /\ DOMAIN b = 0 .. size - 1
        /\ \A i \in 0 .. size - 1 : DOMAIN b[i] = 1 .. Len(b[i])
    BY DEF Has, Tables
  <1>2. ASSUME NEW i \in 0 .. size - 1 PROVE In(i) \subseteq E
    BY <1>1 DEF Has
  <1>3. ASSUME NEW e \in E PROVE \E i \in 0 .. size - 1 : e \in In(i)
    <2>1. PICK j \in 1 .. Len(b[Idx(e)]) : b[Idx(e)][j] = e
      BY DEF Has
    <2>2. Idx(e) \in 0 .. size - 1
      BY IdxType
    <2> QED
      BY <1>1, <2>1, <2>2
  <1> HIDE DEF In
  <1>4. E = UNION {In(i) : i \in DOMAIN b}
    BY <1>1, <1>2, <1>3
  <1> QED
    BY <1>4 DEF In, Members

LEMMA SizeFacts == ASSUME size = MIN_SIZE PROVE Sized
  BY UserDbAssumption DEF Sized

(* A user is known if the table has an entry of theirs.                        *)
LEMMA Lookup ==
    ASSUME TableI, NEW u \in Uid
    PROVE  Known(u) <=> InTable(u)
  <1> DEFINE x == Hash[u] % size
  <1>1. Sized /\ Has(buckets, Entries) /\ Entries \subseteq Ent
    BY SizeFacts DEF TableI
  <1>2. x \in 0 .. size - 1
    BY <1>1, UserDbAssumption DEF Sized
  <1>3. DOMAIN buckets[x] = 1 .. Len(buckets[x])
    BY <1>1, <1>2 DEF Has, Tables
  <1>4. Known(u) <=> \E j \in 1 .. Len(buckets[x]) : buckets[x][j].uid = u
    BY <1>3 DEF Known, user_db_get, Chain
  <1>5. \A e \in Entries : e.uid = u => Idx(e) = x
    BY DEF Idx
  <1> HIDE DEF x
  <1>6. ASSUME Known(u) PROVE InTable(u)
    BY <1>1, <1>2, <1>4, <1>6 DEF Has, InTable
  <1>7. ASSUME InTable(u) PROVE Known(u)
    BY <1>1, <1>4, <1>5, <1>7 DEF Has, InTable
  <1> QED
    BY <1>6, <1>7

(* The table keeps the size it was made with, since resize sets the old one    *)
(* back; the new one, up to which it walks the buckets, is never below it.     *)
LEMMA NeverSmaller ==
    ASSUME size = MIN_SIZE, NEW n \in Nat
    PROVE  NewSize(n) \in Nat /\ NewSize(n) >= size
  <1>1. MIN_SIZE \in Nat /\ MIN_SIZE >= 1
    BY UserDbAssumption
  <1> DEFINE grows == size < MAX_SIZE /\ (n * 4) \div 3 > size
  <1>2. CASE ~grows
    BY <1>1, <1>2 DEF NewSize
  <1>3. CASE grows
    <2>1. (size * 2) \div 2 = size /\ size * 2 \in Nat /\ size * 2 >= size
      BY <1>1
    <2> QED
      BY <1>1, <1>3, <2>1 DEF NewSize
  <1> QED
    BY <1>2, <1>3

LEMMA InsertTable ==
    ASSUME TableI, NEW e \in Ent, ~InTable(e.uid), user_db_add_no_write(e),
           user_file[e.uid] = e.und_auth, UNCHANGED user_file
    PROVE  TableI' /\ Entries' = Entries \cup {e}
  <1> DEFINE b == Prepend(buckets, e)
  <1>1. Sized /\ size = MIN_SIZE /\ Has(buckets, Entries) /\ Entries \in SUBSET Ent
    BY SizeFacts DEF TableI
  <1>2. elements' = elements + 1 /\ size' = size /\ resize(b, elements + 1)
    BY DEF user_db_add_no_write
  <1>3. IsFiniteSet(Entries) /\ elements = Cardinality(Entries) /\ elements + 1 \in Nat
    BY FS_CardinalityType DEF TableI
  <1>4. Has(b, Entries \cup {e}) /\ Entries \cup {e} \in SUBSET Ent
    BY <1>1, HasPrepend
  <1>5. Has(buckets', Entries \cup {e})
    <2> HIDE DEF b
    <2>1. Has(Rehash(b, NewSize(elements + 1)), Entries \cup {e})
      BY <1>1, <1>3, <1>4, NeverSmaller, HasRehash
    <2>2. buckets' = b \/ buckets' = Rehash(b, NewSize(elements + 1))
      BY <1>2 DEF resize
    <2> QED
      BY <1>4, <2>1, <2>2
  <1>6. Entries' = Entries \cup {e}
    <2>1. Members(buckets') = Entries \cup {e}
      BY <1>1, <1>4, <1>5, HasEntries
    <2> QED
      BY <2>1 DEF Entries, Members
  <1>7. Has(buckets, Entries)'
    BY <1>2, <1>5, <1>6 DEF Has, Tables, Idx
  <1>8. e \notin Entries
    BY DEF InTable
  <1>9. IsFiniteSet(Entries') /\ elements' = Cardinality(Entries')
    BY <1>2, <1>3, <1>6, <1>8, FS_AddElement
  <1>10. \A f \in Entries' : user_file'[f.uid] = f.und_auth
    BY <1>6 DEF TableI
  <1> QED
    BY <1>1, <1>2, <1>4, <1>6, <1>7, <1>9, <1>10 DEF TableI, Ent, Key

LEMMA SameEntries == UNCHANGED buckets => Entries' = Entries
  BY DEF Entries

LEMMA SameTable ==
    ASSUME TableI, UNCHANGED db,
           \A e \in Entries : user_file'[e.uid] = user_file[e.uid]
    PROVE  TableI' /\ Entries' = Entries
  <1>1. Entries' = Entries
    BY SameEntries DEF db
  <1>2. Has(buckets, Entries)'
    BY <1>1 DEF TableI, db, Has, Tables, Idx
  <1> QED
    BY <1>1, <1>2 DEF TableI, db, Ent, Key

(* An empty table, as init_user_db_st makes it.                                *)
EmptyTable == init_user_db_st => TableI /\ Entries = {}
LEMMA NoEntries == EmptyTable
  <1> SUFFICES ASSUME init_user_db_st PROVE TableI /\ Entries = {}
    BY DEF EmptyTable
  <1>1. size = MIN_SIZE /\ elements = 0 /\ Sized /\ Has(buckets, {})
    BY SizeFacts, HasNone DEF init_user_db_st, NoBuckets
  <1>2. Entries = {}
    <2>1. Members(buckets) = {}
      BY <1>1, HasEntries
    <2> QED
      BY <2>1 DEF Entries, Members
  <1> QED
    BY <1>1, <1>2, FS_EmptySet DEF TableI

LEMMA StopTable == Stop => TableI' /\ Entries' = {}
  <1>1. Stop => init_user_db_st'
    BY DEF Stop, init_user_db_st, NoBuckets
  <1>2. EmptyTable'
    BY NoEntries, PTL
  <1> QED
    BY <1>1, <1>2 DEF EmptyTable

-------------------------------------------------------------------------------
LEMMA KeyFacts == NoFile \notin Key /\ Empty \notin Key
  BY DEF NoFile, Empty, Key

(* A step that takes no part in the calls.                                     *)
LEMMA SameCalls ==
    ASSUME CallI, UNCHANGED undel, Entries \subseteq Entries',
           main' # "running" => main # "running"
    PROVE  CallI' /\ Emptied' = Emptied /\ cut' = cut
  BY DEF CallI, Emptied, undel

LEMMA StopCalls ==
    ASSUME CallI, TableI, Stop
    PROVE  CallI' /\ cut' = cut \cup Emptied /\ Emptied' = {}
  <1>1. \A e \in Entries : e.uid \in Uid
    BY DEF TableI, Ent
  <1>2. Emptied \subseteq Uid
    BY <1>1 DEF CallI, Emptied
  <1> QED
    BY <1>2 DEF CallI, Emptied, Stop

LEMMA DbInitially == DbInit => DbInv
  <1> SUFFICES ASSUME DbInit PROVE DbInv
    OBVIOUS
  <1>1. TableI /\ Entries = {}
    BY NoEntries DEF DbInit, EmptyTable
  <1>2. ThreadI
    BY UserDbAssumption DEF DbInit, ThreadI, Registering, NoFile
  <1>3. FileI
    BY <1>1, KeyFacts DEF DbInit, FileI, InTable
  <1>4. KeyI
    BY KeyFacts DEF DbInit, KeyI, Active, Registering
  <1>5. CallI
    BY DEF DbInit, CallI
  <1> QED
    BY <1>1, <1>2, <1>3, <1>4, <1>5 DEF DbInv

(* One step of a session, or of the process, at a time.                        *)
LEMMA CheckUserStep ==
    ASSUME DbInv, NEW t \in Session, check_user(t) PROVE DbInv'
  <1> USE DEF check_user, process, db, files
  <1>1. TableI' /\ Entries' = Entries
    BY SameTable DEF DbInv
  <1>2. PICK u \in Uid :
          /\ uid' = [uid EXCEPT ![t] = u] /\ ~InTable(u)
          /\ overlap \/ \A s \in Session \ {t} : place[s] = "idle" \/ uid[s] # u
    BY Lookup DEF DbInv
  <1>3. /\ place[t] = "idle" /\ place' = [place EXCEPT ![t] = "register"]
        /\ main = "running"
    BY DEF advance
  <1>4. ThreadI'
    BY <1>1, <1>2, <1>3, UserDbAssumption DEF DbInv, ThreadI, Registering, InTable
  <1>5. FileI'
    BY <1>1, <1>2, <1>3, UserDbAssumption
       DEF DbInv, FileI, ThreadI, Registering, InTable
  <1>c. CallI' /\ Emptied' = Emptied /\ cut' = cut
    BY <1>1, SameCalls DEF DbInv, process, undel
  <1>6. KeyI'
    BY <1>c, <1>1, <1>2, <1>3 DEF DbInv, KeyI, LeftEmpty, ThreadI, Active, Registering, InTable
  <1> QED
    BY <1>1, <1>4, <1>5, <1>6, <1>c DEF DbInv

LEMMA PromptFailsStep ==
    ASSUME DbInv, NEW t \in Session, prompt_fails(t) PROVE DbInv'
  <1> USE DEF prompt_fails, process, db, files, advance
  <1>1. TableI' /\ Entries' = Entries
    BY SameTable DEF DbInv
  <1>2. ThreadI'
    BY <1>1 DEF DbInv, ThreadI, Registering, InTable
  <1>3. FileI'
    BY <1>1 DEF DbInv, FileI, InTable
  <1>c. CallI' /\ Emptied' = Emptied /\ cut' = cut
    BY <1>1, SameCalls DEF DbInv, process, undel
  <1>4. KeyI'
    BY <1>c, <1>1 DEF DbInv, KeyI, LeftEmpty, ThreadI, Active, Registering, InTable
  <1> QED
    BY <1>1, <1>2, <1>3, <1>4, <1>c DEF DbInv

(* A session that has begun to register a user, when no two may do so at once, *)
(* finds no complete file of the user, unless it holds the lock.               *)
LEMMA NoFileYet ==
    ASSUME DbInv, ~overlap, NEW t \in Session, Active(t), place[t] \notin Registering
    PROVE  user_file[uid[t]] \notin Key
  <1>1. main = "running" /\ uid[t] \in Uid
    BY DEF DbInv, ThreadI, Active
  <1>2. ~InTable(uid[t])
    BY DEF DbInv, KeyI
  <1>3. ASSUME NEW s \in Session, writer = s, uid[s] = uid[t] PROVE FALSE
    <2>1. Active(s) /\ s # t
      BY <1>3 DEF DbInv, ThreadI, Active, Registering
    <2> QED
      BY <1>3, <2>1 DEF DbInv, KeyI
  <1> QED
    BY <1>1, <1>2, <1>3 DEF DbInv, FileI

LEMMA UserInitStep ==
    ASSUME DbInv, NEW t \in Session, user_init(t) PROVE DbInv'
  <1> USE DEF user_init, process, db, advance
  <1>1. TableI' /\ Entries' = Entries
    BY SameTable DEF DbInv
  <1>2. nkeys + 1 \in Key /\ nkeys + 1 \in 0 .. MaxKeys
    BY UserDbAssumption DEF DbInv, ThreadI, Key
  <1>3. ThreadI'
    BY <1>1, <1>2 DEF DbInv, ThreadI, Registering, InTable
  <1>4. FileI'
    BY <1>1 DEF DbInv, FileI, InTable
  <1>5. ~overlap => user_file[uid[t]] \notin Key
    BY NoFileYet DEF Active, Registering
  <1>c. CallI' /\ Emptied' = Emptied /\ cut' = cut
    BY <1>1, SameCalls DEF DbInv, process, undel
  <1>6. KeyI'
    BY <1>c, <1>1, <1>5 DEF DbInv, KeyI, LeftEmpty, ThreadI, FileI, Active, Registering, InTable
  <1> QED
    BY <1>1, <1>3, <1>4, <1>6, <1>c DEF DbInv

LEMMA UndelInitFileStep ==
    ASSUME DbInv, NEW t \in Session, undel_init_file(t) PROVE DbInv'
  <1> USE DEF undel_init_file, process, db, advance
  <1>1. TableI' /\ Entries' = Entries
    BY SameTable DEF DbInv
  <1>2. ThreadI'
    BY <1>1 DEF DbInv, ThreadI, Registering, InTable
  <1>3. FileI'
    BY <1>1 DEF DbInv, FileI, ThreadI, Registering, InTable
  <1>4. ~overlap => user_file[uid[t]] \notin Key
    BY NoFileYet DEF Active, Registering
  <1>c. CallI' /\ Emptied' = Emptied /\ cut' = cut
    BY <1>1, SameCalls DEF DbInv, process, undel
  <1>5. KeyI'
    BY <1>c, <1>1, <1>4 DEF DbInv, KeyI, LeftEmpty, ThreadI, FileI, Active, Registering, InTable
  <1> QED
    BY <1>1, <1>2, <1>3, <1>5, <1>c DEF DbInv

LEMMA AddStep ==
    ASSUME DbInv, NEW t \in Session, user_db_add(t) PROVE DbInv'
  <1> USE DEF user_db_add, db, files, advance
  <1>1. TableI' /\ Entries' = Entries
    BY SameTable DEF DbInv
  <1>2. uid[t] \in Uid /\ (Known(uid[t]) <=> InTable(uid[t]))
    BY Lookup DEF DbInv, ThreadI
  <1>3. ThreadI'
    BY <1>1, <1>2, UserDbAssumption DEF DbInv, ThreadI, Registering, InTable
  <1>4. FileI'
    BY <1>1, UserDbAssumption DEF DbInv, FileI, InTable
  <1>c. CallI' /\ Emptied' = Emptied /\ cut' = cut
    BY <1>1, SameCalls DEF DbInv, process, undel
  <1>5. KeyI'
    BY <1>c, <1>1 DEF DbInv, KeyI, LeftEmpty, ThreadI, Active, Registering, InTable
  <1> QED
    BY <1>1, <1>3, <1>4, <1>5, <1>c DEF DbInv

LEMMA OpenFileStep ==
    ASSUME DbInv, NEW t \in Session, open_user_file(t) PROVE DbInv'
  <1> USE DEF open_user_file, process, db, advance
  <1>1. writer = t /\ main = "running" /\ uid[t] \in Uid /\ ~InTable(uid[t])
    BY DEF DbInv, ThreadI, Registering
  <1>2. TableI' /\ Entries' = Entries
    BY <1>1, SameTable DEF DbInv, InTable
  <1>3. ThreadI'
    BY <1>1, <1>2 DEF DbInv, ThreadI, Registering, InTable
  <1>4. FileI'
    BY <1>1, <1>2, KeyFacts DEF DbInv, FileI, InTable
  <1>c. CallI' /\ Emptied' = Emptied /\ cut' = cut
    BY <1>1, <1>2, SameCalls DEF DbInv, process, undel
  <1>5. KeyI'
    BY <1>c, <1>1, <1>2, KeyFacts
       DEF DbInv, KeyI, LeftEmpty, ThreadI, FileI, Active, Registering, InTable
  <1> QED
    BY <1>2, <1>3, <1>4, <1>5, <1>c DEF DbInv

LEMMA WriteFileStep ==
    ASSUME DbInv, NEW t \in Session, write_user_file(t) PROVE DbInv'
  <1> USE DEF write_user_file, process, db, advance
  <1>1. /\ writer = t /\ main = "running" /\ uid[t] \in Uid /\ ~InTable(uid[t])
        /\ und_auth[t] \in Key
    BY DEF DbInv, ThreadI, Registering
  <1>2. TableI' /\ Entries' = Entries
    BY <1>1, SameTable DEF DbInv, InTable
  <1>3. ThreadI'
    BY <1>1, <1>2 DEF DbInv, ThreadI, FileI, Registering, InTable
  <1>4. FileI'
    BY <1>1, <1>2 DEF DbInv, FileI, InTable
  <1>c. CallI' /\ Emptied' = Emptied /\ cut' = cut
    BY <1>1, <1>2, SameCalls DEF DbInv, process, undel
  <1>5. KeyI'
    BY <1>c, <1>1, <1>2 DEF DbInv, KeyI, LeftEmpty, ThreadI, FileI, Active, Registering, InTable
  <1> QED
    BY <1>2, <1>3, <1>4, <1>5, <1>c DEF DbInv

LEMMA StopStep ==
    ASSUME DbInv, Stop, UNCHANGED <<files, uid, und_auth, nkeys>> PROVE DbInv'
  <1> USE DEF Stop, files
  <1>1. TableI' /\ Entries' = {}
    BY StopTable
  <1>2. ThreadI'
    BY <1>1, UserDbAssumption DEF DbInv, ThreadI, Registering, InTable
  <1>3. FileI'
    BY <1>1 DEF DbInv, FileI, InTable
  <1>4. CallI' /\ cut' = cut \cup Emptied /\ Emptied' = {}
    BY StopCalls DEF DbInv
  <1>5. KeyI'
    BY <1>1, <1>4 DEF DbInv, KeyI, LeftEmpty, Active, Registering, InTable
  <1> QED
    BY <1>1, <1>2, <1>3, <1>4, <1>5 DEF DbInv

(* The calls on the undelivered file of a user of the table: only that file,   *)
(* and at no user that a session registers, unless two may register one user.  *)
LEMMA CallKeeps ==
    ASSUME DbInv, NEW e \in Entries, CallI', cut' = cut,
           undel_file' = [undel_file EXCEPT ![e.uid] = undel_file'[e.uid]],
           undel_file'[e.uid] \in {e.und_auth, Empty},
           undel_file'[e.uid] = Empty => e.uid \in Emptied',
           Emptied \subseteq Emptied' \cup {e.uid},
           UNCHANGED <<db, writer, main, unread, user_file, own, ncrashes>>
    PROVE  DbInv'
  <1> USE DEF own, db
  <1>1. TableI' /\ Entries' = Entries
    BY SameTable DEF DbInv
  <1>2. e.uid \in Uid /\ e.und_auth \in Key /\ InTable(e.uid)
        /\ user_file[e.uid] = e.und_auth
    BY DEF DbInv, TableI, Ent, InTable
  <1>3. ThreadI'
    BY <1>1, UserDbAssumption DEF DbInv, ThreadI, Registering, InTable
  <1>4. FileI'
    BY <1>1, <1>2 DEF DbInv, FileI, InTable
  <1>5. \A u \in Uid : u # e.uid => undel_file'[u] = undel_file[u]
    BY DEF DbInv, FileI
  <1>6. \A u \in Uid : InTable(u)' <=> InTable(u)
    BY <1>1 DEF InTable
  <1>7. ASSUME ~overlap PROVE \A u \in Uid : user_file[u] \in Key =>
            undel_file'[u] = user_file[u] \/ LeftEmpty(u)'
    BY <1>2, <1>5, <1>7 DEF DbInv, KeyI, LeftEmpty
  <1>8. ASSUME ~overlap, NEW t \in Session, place[t] \in Registering \cup {"add"}
        PROVE  undel_file'[uid[t]] = und_auth[t]
    <2>1. Active(t) /\ uid[t] \in Uid
      BY <1>8 DEF Active, Registering, DbInv, ThreadI
    <2>2. uid[t] # e.uid
      BY <1>2, <1>8, <2>1 DEF DbInv, KeyI
    <2> QED
      BY <1>5, <1>8, <2>1, <2>2 DEF DbInv, KeyI
  <1>9. KeyI'
    BY <1>6, <1>7, <1>8 DEF DbInv, KeyI, ThreadI, Active, Registering
  <1> QED
    BY <1>1, <1>3, <1>4, <1>9 DEF DbInv

LEMMA UndelOpenStep ==
    ASSUME DbInv, NEW e \in Entries, undel_open(e) PROVE DbInv'
  <1>1. /\ main = "running" /\ undel_file[e.uid] = e.und_auth
        /\ \/ calls' = calls \cup {Call("truncate", e)}
           \/ calls' = calls \cup {Call("rewrite", e)}
        /\ UNCHANGED <<db, writer, main, unread, cut, files, own, ncrashes>>
    BY DEF undel_open
  <1>2. Entries' = Entries /\ Emptied' = Emptied
    BY <1>1 DEF Entries, db, Emptied, Call
  <1>3. CallI'
    BY <1>1, <1>2 DEF DbInv, CallI, Call
  <1>4. e.und_auth \in Key /\ e.uid \in Uid /\ undel_file \in [Uid -> Key \cup {NoFile, Empty}]
    BY DEF DbInv, TableI, Ent, FileI
  <1>5. /\ undel_file' = [undel_file EXCEPT ![e.uid] = undel_file'[e.uid]]
        /\ undel_file'[e.uid] = e.und_auth /\ e.und_auth # Empty
    BY <1>1, <1>4, KeyFacts DEF files
  <1> QED
    BY <1>1, <1>2, <1>3, <1>5, CallKeeps DEF files

LEMMA UndelTruncateStep ==
    ASSUME DbInv, NEW e \in Entries, undel_truncate(e) PROVE DbInv'
  <1>1. /\ main = "running"
        /\ calls' = (calls \ {Call("truncate", e)}) \cup {Call("reinit", e)}
        /\ undel_file' = [undel_file EXCEPT ![e.uid] = Empty]
        /\ UNCHANGED <<db, writer, main, unread, cut, user_file, own, ncrashes>>
    BY DEF undel_truncate, DbInv, CallI
  <1>2. Entries' = Entries
    BY <1>1 DEF Entries, db
  <1>3. CallI'
    BY <1>1, <1>2 DEF DbInv, CallI, Call
  <1>4. Emptied \subseteq Emptied' /\ e.uid \in Emptied'
    <2>1. Call("reinit", e).step = "reinit" /\ Call("reinit", e).user = e
          /\ Call("truncate", e).step # "reinit"
      BY DEF Call
    <2>2. Call("reinit", e) \in calls'
          /\ \A c \in calls : c.step = "reinit" => c \in calls'
      BY <1>1, <2>1
    <2> QED
      BY <2>1, <2>2 DEF Emptied
  <1>5. e.und_auth \in Key /\ e.uid \in Uid /\ undel_file \in [Uid -> Key \cup {NoFile, Empty}]
    BY DEF DbInv, TableI, Ent, FileI
  <1>6. /\ undel_file' = [undel_file EXCEPT ![e.uid] = undel_file'[e.uid]]
        /\ undel_file'[e.uid] = Empty
    BY <1>1, <1>5
  <1> QED
    BY <1>1, <1>3, <1>4, <1>6, CallKeeps

LEMMA UndelWriteStep ==
    ASSUME DbInv, NEW e \in Entries, NEW step, undel_write(step, e) PROVE DbInv'
  <1>1. /\ main = "running"
        /\ calls' = calls \ {Call(step, e)}
        /\ undel_file' = [undel_file EXCEPT ![e.uid] = e.und_auth]
        /\ UNCHANGED <<db, writer, main, unread, cut, user_file, own, ncrashes>>
    BY DEF undel_write, DbInv, CallI
  <1>2. Entries' = Entries
    BY <1>1 DEF Entries, db
  <1>3. CallI'
    BY <1>1, <1>2 DEF DbInv, CallI
  <1>4. Emptied \subseteq Emptied' \cup {e.uid}
    BY <1>1 DEF Emptied, Call
  <1>5. e.und_auth \in Key /\ e.uid \in Uid /\ undel_file \in [Uid -> Key \cup {NoFile, Empty}]
    BY DEF DbInv, TableI, Ent, FileI
  <1>6. /\ undel_file' = [undel_file EXCEPT ![e.uid] = undel_file'[e.uid]]
        /\ undel_file'[e.uid] = e.und_auth /\ e.und_auth # Empty
    BY <1>1, <1>5, KeyFacts
  <1> QED
    BY <1>1, <1>3, <1>4, <1>6, CallKeeps

(* What insert adds to the table.                                              *)
Inserts(t) ==
    /\ user_db_add_no_write(Entry(uid[t], und_auth[t]))
    /\ advance(t, "insert", "idle")
    /\ writer' = Nobody
    /\ UNCHANGED <<main, unread, undel, files, uid, und_auth, nkeys, ncrashes>>
LEMMA InsertTableStep ==
    ASSUME DbInv, NEW t \in Session, Inserts(t)
    PROVE  TableI' /\ Entries' = Entries \cup {Entry(uid[t], und_auth[t])}
  <1> DEFINE e == Entry(uid[t], und_auth[t])
  <1>1. /\ writer = t /\ uid[t] \in Uid /\ ~InTable(uid[t])
        /\ und_auth[t] \in Key /\ user_file[uid[t]] = und_auth[t]
    BY DEF DbInv, ThreadI, Registering, Inserts, advance
  <1>2. e \in Ent /\ e.uid = uid[t] /\ e.und_auth = und_auth[t]
    BY <1>1 DEF Entry, Ent
  <1> HIDE DEF e
  <1>3. user_db_add_no_write(e) /\ UNCHANGED user_file
    BY DEF Inserts, files, e
  <1>4. TableI' /\ Entries' = Entries \cup {e}
    BY <1>1, <1>2, <1>3, InsertTable DEF DbInv
  <1> QED
    BY <1>4 DEF e

LEMMA InsertStep ==
    ASSUME DbInv, NEW t \in Session, Inserts(t) PROVE DbInv'
  <1>1. writer = t /\ main = "running" /\ uid[t] \in Uid /\ place[t] = "insert"
    BY DEF DbInv, ThreadI, Registering, Inserts, advance
  <1>2. TableI' /\ \A u \in Uid : InTable(u)' <=> InTable(u) \/ u = uid[t]
    <2> DEFINE e == Entry(uid[t], und_auth[t])
    <2>1. TableI' /\ Entries' = Entries \cup {e}
      BY InsertTableStep
    <2>2. e.uid = uid[t]
      BY DEF Entry
    <2> HIDE DEF e
    <2> QED
      BY <2>1, <2>2 DEF InTable
  <1>3. ThreadI'
    BY <1>1, <1>2, UserDbAssumption
       DEF DbInv, ThreadI, Registering, Inserts, advance, files
  <1>4. FileI'
    BY <1>1, <1>2, UserDbAssumption DEF DbInv, FileI, Inserts, advance, files
  <1>c. CallI' /\ Emptied' = Emptied /\ cut' = cut
    <2>1. Entries \subseteq Entries'
      BY InsertTableStep
    <2> QED
      BY <2>1, SameCalls DEF DbInv, Inserts
  <1>5. KeyI'
    BY <1>c, <1>1, <1>2 DEF DbInv, KeyI, LeftEmpty, ThreadI, Active, Registering, Inserts, advance,
                      files, user_db_add_no_write
  <1> QED
    BY <1>2, <1>3, <1>4, <1>5, <1>c DEF DbInv


LEMMA DbInitStep == ASSUME DbInv, user_db_init PROVE DbInv'
  <1> USE DEF user_db_init, own, db, files
  <1>1. TableI' /\ Entries' = Entries
    BY SameTable DEF DbInv
  <1>2. ThreadI'
    BY <1>1, UserDbAssumption DEF DbInv, ThreadI, Registering, InTable
  <1>3. FileI'
    BY <1>1, KeyFacts DEF DbInv, FileI, InTable
  <1>c. CallI' /\ Emptied' = Emptied /\ cut' = cut
    BY <1>1, SameCalls DEF DbInv, process, undel
  <1>4. KeyI'
    BY <1>c, <1>1 DEF DbInv, KeyI, LeftEmpty, Active, Registering, InTable
  <1> QED
    BY <1>1, <1>2, <1>3, <1>4, <1>c DEF DbInv

LEMMA RunServerStep == ASSUME DbInv, run_server PROVE DbInv'
  <1> USE DEF run_server, own, db, files
  <1>1. TableI' /\ Entries' = Entries
    BY SameTable DEF DbInv
  <1>2. ThreadI'
    BY <1>1, UserDbAssumption DEF DbInv, ThreadI, Registering, InTable
  <1>3. FileI'
    BY <1>1 DEF DbInv, FileI, InTable
  <1>c. CallI' /\ Emptied' = Emptied /\ cut' = cut
    BY <1>1, SameCalls DEF DbInv, process, undel
  <1>4. KeyI'
    BY <1>c, <1>1 DEF DbInv, KeyI, LeftEmpty, Active, Registering, InTable
  <1> QED
    BY <1>1, <1>2, <1>3, <1>4, <1>c DEF DbInv

(* load_user_file, for a file that it passes over and one that it takes.       *)
LEMMA PassOverStep ==
    ASSUME DbInv, NEW u \in Uid, main = "loading", u \in unread,
           user_file[u] = Empty, unread' = unread \ {u},
           UNCHANGED <<db, main, writer, undel, files, own>>
    PROVE  DbInv'
  <1> USE DEF own, db, files
  <1>1. TableI' /\ Entries' = Entries
    BY SameTable DEF DbInv
  <1>2. ThreadI'
    BY <1>1, UserDbAssumption DEF DbInv, ThreadI, Registering, InTable
  <1>3. FileI'
    BY <1>1, KeyFacts DEF DbInv, FileI, InTable
  <1>c. CallI' /\ Emptied' = Emptied /\ cut' = cut
    BY <1>1, SameCalls DEF DbInv, process, undel
  <1>4. KeyI'
    BY <1>c, <1>1 DEF DbInv, KeyI, LeftEmpty, Active, Registering, InTable
  <1> QED
    BY <1>1, <1>2, <1>3, <1>4, <1>c DEF DbInv

LEMMA TakeStep ==
    ASSUME DbInv, NEW u \in Uid, main = "loading", u \in unread, user_file[u] # Empty,
           user_db_add_no_write(Entry(u, user_file[u])), unread' = unread \ {u},
           UNCHANGED <<main, writer, undel, files, own>>
    PROVE  DbInv'
  <1> USE DEF own, files
  <1>1. user_file[u] \in Key /\ ~InTable(u)
    BY DEF DbInv, FileI
  <1>2. /\ TableI' /\ Entries \subseteq Entries'
        /\ \A v \in Uid : InTable(v)' <=> InTable(v) \/ v = u
    <2> DEFINE e == Entry(u, user_file[u])
    <2>1. e \in Ent /\ e.uid = u /\ e.und_auth = user_file[u]
      BY <1>1 DEF Entry, Ent
    <2> HIDE DEF e
    <2>2. user_db_add_no_write(e) /\ UNCHANGED user_file
      BY DEF e
    <2>3. TableI' /\ Entries' = Entries \cup {e}
      BY <1>1, <2>1, <2>2, InsertTable DEF DbInv
    <2> QED
      BY <2>1, <2>3 DEF InTable
  <1>3. ThreadI'
    BY <1>2, UserDbAssumption DEF DbInv, ThreadI, Registering
  <1>4. FileI'
    BY <1>2 DEF DbInv, FileI
  <1>c. CallI' /\ Emptied' = Emptied /\ cut' = cut
    BY <1>2, SameCalls DEF DbInv
  <1>5. KeyI'
    BY <1>c, <1>2 DEF DbInv, KeyI, LeftEmpty, ThreadI, Active, Registering, user_db_add_no_write
  <1> QED
    BY <1>2, <1>3, <1>4, <1>5, <1>c DEF DbInv

LEMMA LoadStep == ASSUME DbInv, NEW u \in Uid, load_user_file(u) PROVE DbInv'
  <1>1. CASE Stop
    BY <1>1, StopStep DEF load_user_file
  <1>2. CASE ~Stop
    <2>1. /\ main = "loading" /\ u \in unread /\ unread' = unread \ {u}
          /\ UNCHANGED <<main, writer, undel, files, own>>
          /\ \/ user_file[u] = Empty /\ UNCHANGED db
             \/ user_file[u] # Empty /\ user_db_add_no_write(Entry(u, user_file[u]))
      BY <1>2 DEF load_user_file, own
    <2> QED
      BY <2>1, PassOverStep, TakeStep
  <1> QED
    BY <1>1, <1>2

LEMMA InsertCases ==
    ASSUME NEW t \in Session, insert(t)
    PROVE  Inserts(t) \/ (Stop /\ UNCHANGED <<files, uid, und_auth, nkeys>>)
  BY DEF insert, Inserts

LEMMA DbStutter == ASSUME DbInv, UNCHANGED dbvars PROVE DbInv'
  <1> USE DEF dbvars, process, own, db, files
  <1>1. TableI' /\ Entries' = Entries
    BY SameTable DEF DbInv
  <1>2. ThreadI'
    BY <1>1, UserDbAssumption DEF DbInv, ThreadI, Registering, InTable
  <1>3. FileI'
    BY <1>1 DEF DbInv, FileI, InTable
  <1>c. CallI' /\ Emptied' = Emptied /\ cut' = cut
    BY <1>1, SameCalls DEF DbInv, process, undel
  <1>4. KeyI'
    BY <1>c, <1>1 DEF DbInv, KeyI, LeftEmpty, Active, Registering, InTable
  <1> QED
    BY <1>1, <1>2, <1>3, <1>4, <1>c DEF DbInv

LEMMA DbInductive == DbSpec => []DbInv
  <1>1. DbInv /\ [DbNext]_dbvars => DbInv'
    <2> SUFFICES ASSUME DbInv, [DbNext]_dbvars PROVE DbInv'
      OBVIOUS
    <2>1. ASSUME NEW t \in Session, check_user(t) \/ user_register(t) PROVE DbInv'
      <3>1. CASE check_user(t)
        BY <3>1, CheckUserStep
      <3>2. CASE prompt_fails(t)
        BY <3>2, PromptFailsStep
      <3>3. CASE user_init(t)
        BY <3>3, UserInitStep
      <3>4. CASE undel_init_file(t)
        BY <3>4, UndelInitFileStep
      <3>5. CASE user_db_add(t)
        BY <3>5, AddStep
      <3>6. CASE open_user_file(t)
        BY <3>6, OpenFileStep
      <3>7. CASE write_user_file(t)
        BY <3>7, WriteFileStep
      <3>8. CASE insert(t)
        BY <3>8, InsertCases, InsertStep, StopStep
      <3> QED
        BY <2>1, <3>1, <3>2, <3>3, <3>4, <3>5, <3>6, <3>7, <3>8 DEF user_register
    <2>2. CASE Crash
      BY <2>2, StopStep DEF Crash
    <2>3. CASE user_db_init
      BY <2>3, DbInitStep
    <2>4. ASSUME NEW u \in Uid, load_user_file(u) PROVE DbInv'
      BY <2>4, LoadStep
    <2>5. CASE run_server
      BY <2>5, RunServerStep
    <2>6. CASE UNCHANGED dbvars
      BY <2>6, DbStutter
    <2>7. ASSUME NEW e \in Entries, undel_step(e) PROVE DbInv'
      BY <2>7, UndelOpenStep, UndelTruncateStep, UndelWriteStep DEF undel_step
    <2> QED
      BY <2>1, <2>2, <2>3, <2>4, <2>5, <2>6, <2>7 DEF DbNext, start
  <1> QED
    BY <1>1, DbInitially, PTL DEF DbSpec

(* The table is what the user files say, whatever the sessions that register   *)
(* users and the server's stops do between the file and the table: each entry  *)
(* is found where user_db_get looks, once, with the key of the user's file,    *)
(* and while the server runs no complete file is left out but the one of the   *)
(* registration in hand.                                                       *)
THEOREM TableIsFiles == DbSpec => []UserDbInv
  <1>1. DbInv => UserDbInv
    <2> SUFFICES ASSUME DbInv PROVE UserDbInv
      OBVIOUS
    <2>1. /\ Entries \subseteq Ent /\ IsFiniteSet(Entries)
          /\ \A e \in Entries : user_file[e.uid] = e.und_auth
          /\ \A u \in Uid : Known(u) <=> InTable(u)
          /\ \A e \in Entries : e.uid \in Uid /\ InTable(e.uid)
      BY Lookup DEF DbInv, TableI, InTable, Ent
    <2>2. \A e, f \in Entries : e.uid = f.uid => e = f
      BY <2>1 DEF Ent
    <2>3. Cardinality(Entries) \in Nat /\ Cardinality(Entries) <= Cardinality(Uid)
          /\ Cardinality(Uid) \in Nat
      <3> DEFINE f == [e \in Entries |-> e.uid]
      <3>1. f \in Injection(Entries, Uid)
        BY <2>1, <2>2 DEF Injection, IsInjective
      <3> QED
        BY <2>1, <3>1, FS_Injection, FS_CardinalityType, UserDbAssumption
    <2>4. DbTypes
      <3>1. size \in MIN_SIZE .. MAX_SIZE /\ elements \in 0 .. Cardinality(Uid)
        BY <2>3, UserDbAssumption DEF DbInv, TableI
      <3>2. buckets \in [0 .. size - 1 -> Seq([uid : Uid, und_auth : Key])]
        BY DEF DbInv, TableI, Has, Tables, Ent
      <3> QED
        BY <3>1, <3>2 DEF DbInv, DbTypes, ThreadI, FileI, KeyI, CallI
    <2>5. TableMatchesFiles
      BY <2>1, <2>2 DEF TableMatchesFiles, DbInv, TableI, FileI
    <2> QED
      BY <2>4, <2>5 DEF UserDbInv
  <1> QED
    BY <1>1, DbInductive, PTL

(* The undelivered file of a user of the table is signed by the key in the     *)
(* table, whatever the sessions that register users and those that load, empty *)
(* and add to the file do and whenever the server stops, or it is empty: while *)
(* an undel_load is between fopen and fclose, or since a stop at that place.   *)
(* This if no two sessions register the same user at once.                     *)
THEOREM UndelStaysReadable == DbSpec => []UndelReadable
  <1>1. DbInv => UndelReadable
    BY DEF DbInv, TableI, FileI, KeyI, LeftEmpty, UndelReadable, Ent
  <1> QED
    BY <1>1, DbInductive, PTL

-------------------------------------------------------------------------------
(* The users of the abstract specification: those of the table, or of the      *)
(* files while the server is down or loads them.                               *)
InFiles == {u \in Uid : user_file[u] \in Key}
Users == IF main = "running" THEN {e.uid : e \in Entries} ELSE InFiles
Up == main = "running"

LEMMA UsersAre ==
    ASSUME DbInv
    PROVE  /\ {e.uid : e \in Entries} = {u \in Uid : InTable(u)}
           /\ \A u \in Uid : InTable(u) => user_file[u] \in Key
  BY DEF DbInv, TableI, InTable, Ent

LEMMA StopUsers ==
    ASSUME DbInv, Stop, UNCHANGED user_file
    PROVE  [Registered!Next]_<<Users, Up>>
  <1>1. main' = "down" /\ Users' = InFiles
    BY DEF Stop, Users, InFiles, Key
  <1>2. CASE main = "running"
    <2>1. Users = {u \in Uid : InTable(u)}
      BY <1>2, UsersAre DEF Users
    <2>2. \A u \in Uid : user_file[u] \in Key =>
              InTable(u) \/ \E t \in Session : writer = t /\ uid[t] = u
      BY <1>2 DEF DbInv, FileI
    <2>3. InFiles = Users \/ \E u \in Uid : InFiles = Users \cup {u}
      <3>1. CASE writer \in Session
        BY <2>1, <2>2, <3>1, UsersAre DEF InFiles, DbInv, ThreadI
      <3>2. CASE writer \notin Session
        BY <2>1, <2>2, <3>2, UsersAre DEF InFiles
      <3> QED
        BY <3>1, <3>2
    <2>4. /\ Up /\ Up' = FALSE
          /\ Users' = Users \/ \E u \in Uid : Users' = Users \cup {u}
      BY <1>1, <1>2, <2>3 DEF Up
    <2>5. Registered!Stop
      BY <2>4, Zenon DEF Registered!Stop, Users, Up, InFiles
    <2> QED
      BY <2>5 DEF Registered!Next
  <1>3. CASE main # "running"
    BY <1>1, <1>3 DEF Users, Up
  <1> QED
    BY <1>2, <1>3

LEMMA SameUsers ==
    ASSUME UNCHANGED main,
           \/ main = "running" /\ Entries' = Entries
           \/ main # "running" /\ UNCHANGED user_file
    PROVE  [Registered!Next]_<<Users, Up>>
  BY DEF Users, Up, InFiles, Key

LEMMA InsertUsers ==
    ASSUME DbInv, NEW t \in Session, Inserts(t)
    PROVE  [Registered!Next]_<<Users, Up>>
  <1> DEFINE e == Entry(uid[t], und_auth[t])
  <1>1. writer = t /\ main = "running" /\ main' = "running" /\ uid[t] \in Uid
        /\ ~InTable(uid[t])
    BY DEF DbInv, ThreadI, Registering, Inserts, advance
  <1>2. Entries' = Entries \cup {e} /\ e.uid = uid[t]
    BY InsertTableStep DEF Entry
  <1> HIDE DEF e
  <1>3. Users' = Users \cup {uid[t]} /\ uid[t] \notin Users
    BY <1>1, <1>2 DEF Users, InTable
  <1> QED
    BY <1>1, <1>3 DEF Registered!Next, Registered!Register, Users, Up

LEMMA UsersStep ==
    ASSUME DbInv, [DbNext]_dbvars PROVE [Registered!Next]_<<Users, Up>>
  <1>1. ASSUME NEW t \in Session, check_user(t) \/ user_register(t)
        PROVE  [Registered!Next]_<<Users, Up>>
    <2>1. CASE insert(t)
      BY <2>1, InsertCases, InsertUsers, StopUsers DEF files
    <2>2. CASE ~insert(t)
      <3>1. place[t] # "idle" \/ check_user(t)
        BY <1>1, <2>2 DEF user_register, prompt_fails, user_init, undel_init_file,
                          user_db_add, open_user_file, write_user_file, advance
      <3>2. main = "running" /\ UNCHANGED <<main, buckets>>
        BY <1>1, <2>2, <3>1
           DEF check_user, user_register, prompt_fails, user_init, undel_init_file,
               user_db_add, open_user_file, write_user_file, process, db, DbInv, ThreadI
      <3> QED
        BY <3>2, SameEntries, SameUsers
    <2> QED
      BY <2>1, <2>2
  <1>2. CASE Crash
    BY <1>2, StopUsers DEF Crash, files
  <1>3. CASE user_db_init
    BY <1>3 DEF user_db_init, files, Users, Up, InFiles, Key
  <1>4. ASSUME NEW u \in Uid, load_user_file(u) PROVE [Registered!Next]_<<Users, Up>>
    <2>1. CASE Stop
      BY <1>4, <2>1, StopUsers DEF load_user_file, files
    <2>2. CASE ~Stop
      <3>1. main = "loading" /\ UNCHANGED <<main, user_file>>
        BY <1>4, <2>2 DEF load_user_file, files
      <3> QED
        BY <3>1, SameUsers
    <2> QED
      BY <2>1, <2>2
  <1>5. CASE run_server
    <2>1. /\ main = "loading" /\ unread = {}
          /\ main' = "running" /\ UNCHANGED <<buckets, user_file>>
      BY <1>5 DEF run_server, db, files
    <2>2. \A u \in Uid : user_file[u] \in Key <=> InTable(u)
      BY <2>1, UsersAre DEF DbInv, FileI
    <2>3. Users = {e.uid : e \in Entries} /\ Users' = {e.uid : e \in Entries}
      BY <2>1, <2>2, UsersAre, SameEntries DEF Users, InFiles
    <2>4. ~Up /\ Up' = TRUE /\ Users' = Users
      BY <2>1, <2>3 DEF Up
    <2>5. Registered!Start
      BY <2>4, Zenon DEF Registered!Start, Users, Up, InFiles
    <2> QED
      BY <2>5 DEF Registered!Next
  <1>6. CASE UNCHANGED dbvars
    BY <1>6 DEF dbvars, process, db, files, Users, Up, InFiles, Entries, Key
  <1>7. ASSUME NEW e \in Entries, undel_step(e)
        PROVE  [Registered!Next]_<<Users, Up>>
    <2>1. UNCHANGED <<db, main, user_file>>
      BY <1>7 DEF undel_step, undel_open, undel_truncate, undel_write, files
    <2> QED
      BY <2>1, SameEntries, SameUsers DEF db
  <1> QED
    BY <1>1, <1>2, <1>3, <1>4, <1>5, <1>6, <1>7 DEF DbNext, start

(* A user once registered is found whenever the server runs: each step of the  *)
(* database, a stop in the middle of a registration and the reading of the     *)
(* files afterwards among them, is a step of UserSet or none.                  *)
THEOREM UsersStayRegistered == DbSpec => ImplementsUserSet
  <1>1. DbInit => Registered!Init
    BY NoEntries DEF DbInit, EmptyTable, Registered!Init
  <1>2. DbInv /\ [DbNext]_dbvars => [Registered!Next]_<<Users, Up>>
    BY UsersStep
  <1> QED
    BY <1>1, <1>2, DbInductive, PTL
       DEF DbSpec, ImplementsUserSet, Registered!Spec, Registered!vars, Users, Up, InFiles
===============================================================================
