----------------------------- MODULE HandshakeGate ----------------------------
(* client_handler_handshake in server/client_handler.c: the handler threads of *)
(* new connections take one of MAX_HANDSHAKES places before server_handshake.  *)
(* The count of places taken is raised after hs_mutex is unlocked; ++ and --   *)
(* load the count and store it, and the race between them is as written.       *)
EXTENDS Integers, FiniteSets

CONSTANTS
    Conn,             \* the handler threads, one per connection
    MAX_HANDSHAKES,
    Free              \* nobody owns hs_mutex

ASSUME GateAssumption ==
    /\ MAX_HANDSHAKES \in Nat \ {0}
    /\ Free \notin Conn

VARIABLES
    handshake_sem,
    hs_mutex,         \* the thread that owns it, or Free
    waiting,          \* the threads asleep on hs_cond
    pc,
    tmp               \* what each thread loaded from handshake_sem

vars == <<handshake_sem, hs_mutex, waiting, pc, tmp>>

Init ==
    /\ handshake_sem = 0
    /\ hs_mutex = Free
    /\ waiting = {}
    /\ pc = [t \in Conn |-> "new"]
    /\ tmp = [t \in Conn |-> 0]

goto(t, from, to) == pc[t] = from /\ pc' = [pc EXCEPT ![t] = to]

load(t) == tmp' = [tmp EXCEPT ![t] = handshake_sem]

(* pthread_mutex_lock, at the first step and when pthread_cond_wait returns.   *)
Lock(t, from, to) ==
    /\ goto(t, from, to)
    /\ hs_mutex = Free /\ hs_mutex' = t
    /\ UNCHANGED <<handshake_sem, waiting, tmp>>

Enter(t) == Lock(t, "new", "test")
Reenter(t) == t \notin waiting /\ Lock(t, "waiting", "test")

(* while(handshake_sem == MAX_HANDSHAKES) pthread_cond_wait(...)               *)
Wait(t) ==
    /\ handshake_sem = MAX_HANDSHAKES
    /\ goto(t, "test", "waiting")
    /\ waiting' = waiting \cup {t}
    /\ hs_mutex' = Free
    /\ UNCHANGED <<handshake_sem, tmp>>

(* The wait may return without a broadcast (POSIX).                            *)
SpuriousWakeup(t) ==
    /\ t \in waiting
    /\ waiting' = waiting \ {t}
    /\ UNCHANGED <<handshake_sem, hs_mutex, pc, tmp>>

Pass(t) ==
    /\ handshake_sem # MAX_HANDSHAKES
    /\ goto(t, "test", "passed")
    /\ hs_mutex' = Free
    /\ UNCHANGED <<handshake_sem, waiting, tmp>>

(* handshake_sem++, with no mutex.                                             *)
IncLoad(t) ==
    /\ goto(t, "passed", "raising")
    /\ load(t)
    /\ UNCHANGED <<handshake_sem, hs_mutex, waiting>>

IncStore(t) ==
    /\ goto(t, "raising", "handshake")
    /\ handshake_sem' = tmp[t] + 1
    /\ UNCHANGED <<hs_mutex, waiting, tmp>>

(* server_handshake has returned, with whatever result.                        *)
LockRelease(t) == Lock(t, "handshake", "leaving")

DecLoad(t) ==
    /\ goto(t, "leaving", "lowering")
    /\ load(t)
    /\ UNCHANGED <<handshake_sem, hs_mutex, waiting>>

DecStore(t) ==
    /\ goto(t, "lowering", "lowered")
    /\ handshake_sem' = tmp[t] - 1
    /\ UNCHANGED <<hs_mutex, waiting, tmp>>

(* Variant: the broadcast is missing.                                          *)
Release_Silent(t) ==
    /\ goto(t, "lowered", "done")
    /\ hs_mutex' = Free
    /\ UNCHANGED <<handshake_sem, waiting, tmp>>

(* pthread_cond_broadcast and the unlock.                                      *)
Release(t) ==
    /\ goto(t, "lowered", "done")
    /\ waiting' = {}
    /\ hs_mutex' = Free
    /\ UNCHANGED <<handshake_sem, tmp>>

client_handler_handshake(t) ==
    \/ Enter(t) \/ Reenter(t) \/ Wait(t) \/ Pass(t)
    \/ IncLoad(t) \/ IncStore(t)
    \/ LockRelease(t) \/ DecLoad(t) \/ DecStore(t) \/ Release(t)

Next == \E t \in Conn : client_handler_handshake(t) \/ SpuriousWakeup(t)

Spec == Init /\ [][Next]_vars

-------------------------------------------------------------------------------
Locked == {"test", "leaving", "lowering", "lowered"}
PC == {"new", "waiting", "passed", "raising", "handshake", "done"} \cup Locked

TypeOK ==
    /\ handshake_sem \in Int
    /\ hs_mutex \in Conn \cup {Free}
    /\ waiting \in SUBSET Conn
    /\ pc \in [Conn -> PC]
    /\ tmp \in [Conn -> Int]

MutexOwner == \A t \in Conn : pc[t] \in Locked <=> hs_mutex = t

WaitersWait == \A t \in waiting : pc[t] = "waiting"

(* A thread is past the gate and has yet to broadcast.                         *)
Inside == {t \in Conn : pc[t] \in {"passed", "raising", "handshake", "leaving",
                                   "lowering", "lowered"}}

(* Nobody sleeps for want of a broadcast: while a thread sleeps the count says *)
(* that no place is free, or a thread is still to leave and wake all sleepers. *)
(* Holds although the count is raised outside the mutex that a sleeper tests   *)
(* it under.                                                                   *)
NoSleeperForgotten ==
    waiting # {} => handshake_sem = MAX_HANDSHAKES \/ Inside # {}

(* The inductive invariant.                                                    *)
GateInv == TypeOK /\ MutexOwner /\ WaitersWait /\ NoSleeperForgotten
===============================================================================
