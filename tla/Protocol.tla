------------------------------- MODULE Protocol -------------------------------
(* inet/protocol.c and the queue of inet/message.c: the two ends of one        *)
(* connection.  Each end has a connection thread (handle_connection), which    *)
(* owns the socket, sender threads that call add_message, one thread that      *)
(* calls get_message, and shares out_queue, the wake-up pipe out_cond,         *)
(* in_queue and the kill flag with them.                                       *)
(*                                                                             *)
(* A frame is read or written in one step: the connection thread is the only   *)
(* one to use its socket.  A frame that could not be written whole in time is  *)
(* a "PART".  Clocks are not modelled: where the code compares times, either   *)
(* outcome the comparison can have is a step (see Slow).                       *)
EXTENDS Integers, Sequences, SequencesExt

CONSTANTS
    Senders,     \* Senders[s]: the threads that call add_message at side s
    MaxMsgs,     \* bound: messages each sender adds
    PIPE_CAP,    \* bytes the wake-up pipe holds
    SOCK_CAP,    \* frames the network and the socket buffers hold, each way
    MaxKA,       \* bound: MaxKA[s]: keep-alives side s sends
    Slow,        \* TRUE: the network and the scheduler can exceed any timeout
    MayKill      \* the sides at which end_handler may be called

Side == {"client", "server"}
Peer(s) == IF s = "client" THEN "server" ELSE "client"

Thread == Senders["client"] \cup Senders["server"]

Handler == "handler"
Reader == "reader"
Free == "free"

ASSUME ProtocolAssumption ==
    /\ Senders["client"] \cap Senders["server"] = {}
    /\ {Handler, Reader, Free} \cap Thread = {}
    /\ MaxMsgs \in Nat /\ MaxKA \in [Side -> Nat]
    /\ PIPE_CAP \in Nat \ {0} /\ SOCK_CAP \in Nat \ {0}
    /\ Slow \in BOOLEAN
    /\ MayKill \subseteq Side

(* A message is its sender and its rank there.  The rank is also its seq_num:  *)
(* two threads of a side can use one number, as the callers of send_message do.*)
Message == Thread \X (1 .. MaxMsgs)
SeqNum(m) == m[2]

VARIABLES
    out_queue, out_mutex, pipe,   \* messages to send, their mutex, out_cond
    in_queue, in_mutex,           \* messages received, their mutex
    kill, freed,                  \* the kill flag; TRUE after destroy_handler
    sock,                         \* sock[s]: the frames on their way to s
    fd_open,                      \* the socket of s is not closed
    ack_map,                      \* seq_nums written and not acknowledged
    wake, to_ack,                 \* out_cond was readable; the message to acknowledge
    cause,                        \* why handle_connection ended
    hpc, wpc, rpc,                \* where each thread is
    nsent, nka                    \* for the bounds MaxMsgs and MaxKA

queues == <<out_queue, out_mutex, pipe>>
inbox == <<in_queue, in_mutex>>
life == <<kill, freed, fd_open, cause>>
conn == <<ack_map, wake, to_ack, nka>>
vars == <<queues, inbox, life, conn, sock, hpc, wpc, rpc, nsent>>

(* launch_handler and init_handler on both sides of a fresh connection.        *)
init_handler ==
    /\ out_queue = [s \in Side |-> <<>>]
    /\ in_queue = [s \in Side |-> <<>>]
    /\ out_mutex = [s \in Side |-> Free]
    /\ in_mutex = [s \in Side |-> Free]
    /\ pipe = [s \in Side |-> 0]
    /\ kill = [s \in Side |-> FALSE]

Init ==
    /\ init_handler
    /\ freed = [s \in Side |-> FALSE]
    /\ sock = [s \in Side |-> <<>>]
    /\ fd_open = [s \in Side |-> TRUE]
    /\ ack_map = [s \in Side |-> <<>>]
    /\ wake = [s \in Side |-> FALSE]
    /\ to_ack = [s \in Side |-> 0]
    /\ cause = [s \in Side |-> "none"]
    /\ hpc = [s \in Side |-> "select"]
    /\ wpc = [t \in Thread |-> "idle"]
    /\ rpc = [s \in Side |-> "ready"]
    /\ nsent = [t \in Thread |-> 0]
    /\ nka = [s \in Side |-> 0]

-------------------------------------------------------------------------------
(* The threads that send.                                                      *)

(* add_message up to the push ...                                              *)
add_message(s, t) ==
    /\ wpc[t] = "idle" /\ nsent[t] < MaxMsgs
    /\ ~freed[s]
    /\ out_mutex[s] = Free
    /\ out_mutex' = [out_mutex EXCEPT ![s] = t]
    /\ out_queue' = [out_queue EXCEPT ![s] = Append(@, <<t, nsent[t] + 1>>)]
    /\ nsent' = [nsent EXCEPT ![t] = @ + 1]
    /\ wpc' = [wpc EXCEPT ![t] = "signal"]
    /\ UNCHANGED <<pipe, inbox, life, conn, sock, hpc, rpc>>

(* ... and the write to the pipe, which blocks while the pipe is full.         *)
add_message_signal(s, t) ==
    /\ wpc[t] = "signal"
    /\ ~freed[s]
    /\ pipe[s] < PIPE_CAP
    /\ pipe' = [pipe EXCEPT ![s] = @ + 1]
    /\ out_mutex' = [out_mutex EXCEPT ![s] = Free]
    /\ wpc' = [wpc EXCEPT ![t] = "idle"]
    /\ UNCHANGED <<out_queue, inbox, life, conn, sock, hpc, rpc, nsent>>

end_handler(s) ==
    /\ s \in MayKill
    /\ ~freed[s] /\ ~kill[s]
    /\ kill' = [kill EXCEPT ![s] = TRUE]
    /\ UNCHANGED <<queues, inbox, freed, fd_open, cause, conn, sock,
                   hpc, wpc, rpc, nsent>>

-------------------------------------------------------------------------------
(* The thread that receives: get_message, called again each time it returns.   *)
(* After destroy_handler its accesses are to freed memory, which C does not    *)
(* define: the thread makes no step then.                                      *)

(* The loop's test, and the lock when it goes on.                              *)
get_message_lock(s) ==
    /\ rpc[s] = "ready" /\ ~freed[s]
    /\ \/ kill[s] /\ rpc' = [rpc EXCEPT ![s] = "ended"] /\ UNCHANGED in_mutex
       \/ /\ ~kill[s]
          /\ in_mutex[s] = Free
          /\ in_mutex' = [in_mutex EXCEPT ![s] = Reader]
          /\ rpc' = [rpc EXCEPT ![s] = "locked"]
    /\ UNCHANGED <<queues, in_queue, life, conn, sock, hpc, wpc, nsent>>

get_message_pop(s) ==
    /\ rpc[s] = "locked" /\ ~freed[s]
    /\ in_queue[s] # <<>>
    /\ in_queue' = [in_queue EXCEPT ![s] = Tail(@)]
    /\ in_mutex' = [in_mutex EXCEPT ![s] = Free]
    /\ rpc' = [rpc EXCEPT ![s] = "ready"]
    /\ UNCHANGED <<queues, life, conn, sock, hpc, wpc, nsent>>

get_message_wait(s) ==
    /\ rpc[s] = "locked" /\ ~freed[s]
    /\ in_queue[s] = <<>>
    /\ in_mutex' = [in_mutex EXCEPT ![s] = Free]
    /\ rpc' = [rpc EXCEPT ![s] = "waiting"]
    /\ UNCHANGED <<queues, in_queue, life, conn, sock, hpc, wpc, nsent>>

(* pthread_cond_timedwait gives up, at the latest after WAIT_TIMEOUT; the loop *)
(* takes the mutex again only to unlock it.                                    *)
get_message_timeout(s) ==
    /\ rpc[s] = "waiting" /\ ~freed[s]
    /\ rpc' = [rpc EXCEPT ![s] = "ready"]
    /\ UNCHANGED <<queues, inbox, life, conn, sock, hpc, wpc, nsent>>

get_message(s) == get_message_lock(s) \/ get_message_pop(s) \/ get_message_wait(s)

-------------------------------------------------------------------------------
(* The connection thread: handle_connection.                                   *)

goto(s, where) == hpc' = [hpc EXCEPT ![s] = where]

Frame(type, body) == [type |-> type, body |-> body]

(* send_bytes wrote the whole frame.                                           *)
SendAll(s, f) ==
    /\ Len(sock[Peer(s)]) < SOCK_CAP
    /\ sock' = [sock EXCEPT ![Peer(s)] = Append(@, f)]

(* send_bytes wrote none of the frame, or a part: the socket stayed full until *)
(* the timeout, or the peer has closed its socket.                             *)
SendShort(s) ==
    /\ Len(sock[Peer(s)]) >= SOCK_CAP \/ ~fd_open[Peer(s)] \/ Slow
    /\ \/ UNCHANGED sock
       \/ sock' = [sock EXCEPT ![Peer(s)] = Append(@, Frame("PART", 0))]

(* goto error: the mutexes the thread owns are unlocked first.                 *)
Fail(s, why) ==
    /\ cause' = [cause EXCEPT ![s] = why]
    /\ goto(s, "cleanup")

(* After the part of the loop that reads: the part that writes, if select said *)
(* that the pipe is readable.                                                  *)
EndRead(s) == goto(s, IF wake[s] THEN "wake" ELSE "check")

(* Variant: the peer's close goes unnoticed.                                   *)
Select_IgnoresClose(s) ==
    /\ hpc[s] = "select"
    /\ wake' = [wake EXCEPT ![s] = pipe[s] > 0]
    /\ goto(s, IF sock[s] # <<>> THEN "read"
               ELSE IF pipe[s] > 0 THEN "wake" ELSE "check")
    /\ UNCHANGED <<queues, inbox, life, ack_map, to_ack, nka, sock,
                   wpc, rpc, nsent>>

(* select: until the socket or the pipe is readable, or WAIT_TIMEOUT (then     *)
(* both sets are empty).  The peer's close makes the socket readable too.      *)
Select(s) ==
    /\ hpc[s] = "select"
    /\ wake' = [wake EXCEPT ![s] = pipe[s] > 0]
    /\ goto(s, IF sock[s] # <<>> \/ ~fd_open[Peer(s)] THEN "read"
               ELSE IF pipe[s] > 0 THEN "wake" ELSE "check")
    /\ UNCHANGED <<queues, inbox, life, ack_map, to_ack, nka, sock,
                   wpc, rpc, nsent>>

(* pthread_mutex_trylock says EBUSY.                                           *)
SkipRead(s) ==
    /\ hpc[s] = "read"
    /\ in_mutex[s] # Free
    /\ EndRead(s)
    /\ UNCHANGED <<queues, inbox, life, conn, sock, wpc, rpc, nsent>>

Arrived(s, type) == sock[s] # <<>> /\ Head(sock[s]).type = type

ReadFrame(s, type) ==
    /\ hpc[s] = "read"
    /\ in_mutex[s] = Free
    /\ Arrived(s, type)
    /\ sock' = [sock EXCEPT ![s] = Tail(@)]

(* The first entry with the number goes.                                       *)
ack_map_rm(s, n) ==
    \E i \in 1 .. Len(ack_map[s]) :
        /\ ack_map[s][i] = n
        /\ \A j \in 1 .. i - 1 : ack_map[s][j] # n
        /\ ack_map' = [ack_map EXCEPT ![s] = RemoveAt(@, i)]

(* Variant: every entry with the number goes, as if numbers were unique.       *)
ReadAck_RemovesAll(s) ==
    /\ ReadFrame(s, "ACK")
    /\ LET n == Head(sock[s]).body
       IN  \/ /\ Contains(ack_map[s], n)
              /\ ack_map' = [ack_map EXCEPT ![s] = Remove(@, n)]
              /\ EndRead(s)
              /\ UNCHANGED cause
           \/ /\ ~Contains(ack_map[s], n)
              /\ Fail(s, "EINVAL")
              /\ UNCHANGED ack_map
    /\ UNCHANGED <<queues, inbox, kill, freed, fd_open, wake, to_ack, nka,
                   wpc, rpc, nsent>>

ReadAck(s) ==
    /\ ReadFrame(s, "ACK")
    /\ LET n == Head(sock[s]).body
       IN  \/ /\ ack_map_rm(s, n)
              /\ EndRead(s)
              /\ UNCHANGED cause
           \/ /\ ~Contains(ack_map[s], n)
              /\ Fail(s, "EINVAL")
              /\ UNCHANGED ack_map
    /\ UNCHANGED <<queues, inbox, kill, freed, fd_open, wake, to_ack, nka,
                   wpc, rpc, nsent>>

ReadKeepAlive(s) ==
    /\ ReadFrame(s, "KA")
    /\ EndRead(s)
    /\ UNCHANGED <<queues, inbox, life, conn, wpc, rpc, nsent>>

(* Push and broadcast; the acknowledgement follows, still under in_mutex.      *)
ReadMessage(s) ==
    /\ ReadFrame(s, "MSG")
    /\ in_mutex' = [in_mutex EXCEPT ![s] = Handler]
    /\ in_queue' = [in_queue EXCEPT ![s] = Append(@, Head(sock[s]).body)]
    /\ to_ack' = [to_ack EXCEPT ![s] = SeqNum(Head(sock[s]).body)]
    /\ rpc' = [rpc EXCEPT ![s] = IF @ = "waiting" THEN "ready" ELSE @]
    /\ goto(s, "ack")
    /\ UNCHANGED <<queues, life, ack_map, wake, nka, wpc, nsent>>

(* Nothing to read (the peer closed), half a frame, or a frame that does not   *)
(* arrive within READWRITE_WAIT.                                               *)
ReadShort(s) ==
    /\ hpc[s] = "read"
    /\ in_mutex[s] = Free
    /\ sock[s] = <<>> \/ Arrived(s, "PART") \/ Slow
    /\ Fail(s, "EIO")
    /\ UNCHANGED <<queues, inbox, kill, freed, fd_open, conn, sock,
                   wpc, rpc, nsent>>

read_message(s) ==
    ReadAck(s) \/ ReadKeepAlive(s) \/ ReadMessage(s) \/ ReadShort(s)

write_acknowledge(s) ==
    /\ hpc[s] = "ack"
    /\ in_mutex' = [in_mutex EXCEPT ![s] = Free]
    /\ \/ SendAll(s, Frame("ACK", to_ack[s])) /\ EndRead(s) /\ UNCHANGED cause
       \/ SendShort(s) /\ Fail(s, "EIO")
    /\ to_ack' = [to_ack EXCEPT ![s] = 0]
    /\ UNCHANGED <<queues, in_queue, kill, freed, fd_open, ack_map, wake, nka,
                   wpc, rpc, nsent>>

(* Variant: the byte is read under out_mutex.                                  *)
ReadWakeup_UnderMutex(s) ==
    /\ hpc[s] = "wake"
    /\ pipe[s] > 0 /\ out_mutex[s] = Free
    /\ pipe' = [pipe EXCEPT ![s] = @ - 1]
    /\ wake' = [wake EXCEPT ![s] = FALSE]
    /\ goto(s, "lock_out")
    /\ UNCHANGED <<out_queue, out_mutex, inbox, life, ack_map, to_ack, nka, sock,
                   wpc, rpc, nsent>>

(* The pipe is readable: one byte is read before out_mutex is taken.           *)
ReadWakeup(s) ==
    /\ hpc[s] = "wake"
    /\ pipe[s] > 0
    /\ pipe' = [pipe EXCEPT ![s] = @ - 1]
    /\ wake' = [wake EXCEPT ![s] = FALSE]
    /\ goto(s, "lock_out")
    /\ UNCHANGED <<out_queue, out_mutex, inbox, life, ack_map, to_ack, nka, sock,
                   wpc, rpc, nsent>>

LockOut(s) ==
    /\ hpc[s] = "lock_out"
    /\ out_mutex[s] = Free
    /\ out_mutex' = [out_mutex EXCEPT ![s] = Handler]
    /\ goto(s, "write")
    /\ UNCHANGED <<out_queue, pipe, inbox, life, conn, sock, wpc, rpc, nsent>>

(* Variant: the message leaves the queue before it is known to be written.     *)
WriteMessage_PopsFirst(s) ==
    /\ hpc[s] \in {"write", "more"}
    /\ out_queue[s] # <<>>
    /\ out_queue' = [out_queue EXCEPT ![s] = Tail(@)]
    /\ LET m == Head(out_queue[s])
       IN  \/ /\ SendAll(s, Frame("MSG", m))
              /\ ack_map' = [ack_map EXCEPT ![s] = Append(@, SeqNum(m))]
              /\ goto(s, "more")
              /\ UNCHANGED <<cause, out_mutex>>
           \/ /\ SendShort(s)
              /\ Fail(s, "EIO")
              /\ out_mutex' = [out_mutex EXCEPT ![s] = Free]
              /\ UNCHANGED ack_map
    /\ UNCHANGED <<pipe, inbox, kill, freed, fd_open, wake, to_ack, nka,
                   wpc, rpc, nsent>>

(* One turn of the loop of write_messages: write, note the acknowledgement to  *)
(* expect, pop.  All by the thread that alone reads the socket, so that the    *)
(* acknowledgement cannot be read in between.                                  *)
WriteMessage(s) ==
    /\ hpc[s] \in {"write", "more"}
    /\ out_queue[s] # <<>>
    /\ LET m == Head(out_queue[s])
       IN  \/ /\ SendAll(s, Frame("MSG", m))
              /\ ack_map' = [ack_map EXCEPT ![s] = Append(@, SeqNum(m))]
              /\ out_queue' = [out_queue EXCEPT ![s] = Tail(@)]
              /\ goto(s, "more")
              /\ UNCHANGED <<cause, out_mutex>>
           \/ /\ SendShort(s)
              /\ Fail(s, "EIO")
              /\ out_mutex' = [out_mutex EXCEPT ![s] = Free]
              /\ UNCHANGED <<ack_map, out_queue>>
    /\ UNCHANGED <<pipe, inbox, kill, freed, fd_open, wake, to_ack, nka,
                   wpc, rpc, nsent>>

(* Variant: the time is looked at before the first turn too.                   *)
EndWrite_BeforeFirst(s) ==
    /\ hpc[s] \in {"write", "more"}
    /\ out_mutex' = [out_mutex EXCEPT ![s] = Free]
    /\ goto(s, "check")
    /\ UNCHANGED <<out_queue, pipe, inbox, life, conn, sock, wpc, rpc, nsent>>

(* The queue is empty, or ACK_WAITTIME / 2 has passed since the loop began: in *)
(* its first turn no time has.                                                 *)
EndWrite(s) ==
    /\ \/ hpc[s] \in {"write", "more"} /\ out_queue[s] = <<>>
       \/ hpc[s] = "more"
    /\ out_mutex' = [out_mutex EXCEPT ![s] = Free]
    /\ goto(s, "check")
    /\ UNCHANGED <<out_queue, pipe, inbox, life, conn, sock, wpc, rpc, nsent>>

write_messages(s) == WriteMessage(s) \/ EndWrite(s)

(* ACK_WAITTIME has passed with an acknowledgement or a keep-alive missing.    *)
(* Without Slow it does only when the peer's thread is no more.                *)
Expire(s) ==
    /\ hpc[s] = "check"
    /\ freed[Peer(s)] \/ Slow
    /\ Fail(s, "ETIME")
    /\ UNCHANGED <<queues, inbox, kill, freed, fd_open, conn, sock,
                   wpc, rpc, nsent>>

(* write_keepalive when ACK_WAITTIME / 2 has passed since the last one; then   *)
(* the kill flag.                                                              *)
TestKill(s) ==
    \/ kill[s] /\ Fail(s, "killed")
    \/ ~kill[s] /\ goto(s, "select") /\ UNCHANGED cause

EndTurn(s) ==
    /\ hpc[s] = "check"
    /\ \/ TestKill(s) /\ UNCHANGED <<sock, nka>>
       \/ /\ nka[s] < MaxKA[s]
          /\ nka' = [nka EXCEPT ![s] = @ + 1]
          /\ \/ SendAll(s, Frame("KA", 0)) /\ TestKill(s)
             \/ SendShort(s) /\ Fail(s, "EIO")
    /\ UNCHANGED <<queues, inbox, kill, freed, fd_open, ack_map, wake, to_ack,
                   wpc, rpc, nsent>>

(* end_handler and destroy_handler, whoever still uses the connection.         *)
handler_cleanup(s) ==
    /\ hpc[s] = "cleanup"
    /\ kill' = [kill EXCEPT ![s] = TRUE]
    /\ freed' = [freed EXCEPT ![s] = TRUE]
    /\ goto(s, "dead")
    /\ UNCHANGED <<queues, inbox, fd_open, cause, conn, sock, wpc, rpc, nsent>>

(* The program closes the socket when it has joined the thread (server/        *)
(* client_handler.c ch_cleanup_end_handler, client/login_server.c).            *)
close_fd(s) ==
    /\ hpc[s] = "dead" /\ fd_open[s]
    /\ fd_open' = [fd_open EXCEPT ![s] = FALSE]
    /\ UNCHANGED <<queues, inbox, kill, freed, cause, conn, sock,
                   hpc, wpc, rpc, nsent>>

handle_connection(s) ==
    \/ Select(s) \/ SkipRead(s) \/ read_message(s) \/ write_acknowledge(s)
    \/ ReadWakeup(s) \/ LockOut(s) \/ write_messages(s)
    \/ Expire(s) \/ EndTurn(s) \/ handler_cleanup(s)

-------------------------------------------------------------------------------
add_message_step(s, t) == add_message(s, t) \/ add_message_signal(s, t)

Next == \E s \in Side :
           \/ \E t \in Senders[s] : add_message_step(s, t)
           \/ get_message(s) \/ get_message_timeout(s)
           \/ handle_connection(s)
           \/ end_handler(s) \/ close_fd(s)

Spec == Init /\ [][Next]_vars

(* Threads that can run do, and a program that has lost its connection closes  *)
(* the socket.                                                                 *)
FairSpec ==
    /\ Spec
    /\ \A s \in Side :
          /\ WF_vars(handle_connection(s))
          /\ WF_vars(get_message(s))
          /\ WF_vars(close_fd(s))
          /\ \A t \in Senders[s] : WF_vars(add_message_signal(s, t))

-------------------------------------------------------------------------------
Frames == [type : {"MSG"}, body : Message]
              \cup [type : {"ACK"}, body : 0 .. MaxMsgs]
              \cup [type : {"KA", "PART"}, body : {0}]

Causes == {"none", "EINVAL", "EIO", "ETIME", "killed"}
PC == {"select", "read", "ack", "wake", "lock_out", "write", "more", "check",
       "cleanup", "dead"}

TypeOK ==
    /\ out_queue \in [Side -> Seq(Message)] /\ in_queue \in [Side -> Seq(Message)]
    /\ out_mutex \in [Side -> Thread \cup {Handler, Free}]
    /\ in_mutex \in [Side -> {Handler, Reader, Free}]
    /\ pipe \in [Side -> 0 .. PIPE_CAP]
    /\ kill \in [Side -> BOOLEAN] /\ freed \in [Side -> BOOLEAN]
    /\ sock \in [Side -> Seq(Frames)]
    /\ fd_open \in [Side -> BOOLEAN]
    /\ ack_map \in [Side -> Seq(1 .. MaxMsgs)]
    /\ wake \in [Side -> BOOLEAN] /\ to_ack \in [Side -> 0 .. MaxMsgs]
    /\ cause \in [Side -> Causes]
    /\ hpc \in [Side -> PC]
    /\ rpc \in [Side -> {"ready", "locked", "waiting", "ended"}]
    /\ nka \in [Side -> Nat]
    /\ wpc \in [Thread -> {"idle", "signal"}]
    /\ nsent \in [Thread -> 0 .. MaxMsgs]

(* Each mutex is owned by the thread that is between its lock and unlock.      *)
MutexOwners ==
    \A s \in Side :
        /\ out_mutex[s] \in Senders[s] \cup {Handler, Free}
        /\ \A t \in Senders[s] : wpc[t] = "signal" <=> out_mutex[s] = t
        /\ hpc[s] \in {"write", "more"} <=> out_mutex[s] = Handler
        /\ hpc[s] = "ack" <=> in_mutex[s] = Handler
        /\ rpc[s] = "locked" <=> in_mutex[s] = Reader

(* Wake-ups the connection thread has yet to act upon: bytes in the pipe, the  *)
(* byte a sender is about to write, and the one the thread has just read.      *)
PendingWakeups(s) ==
    pipe[s] + (IF out_mutex[s] \in Senders[s] THEN 1 ELSE 0)
            + (IF hpc[s] \in {"lock_out", "write"} THEN 1 ELSE 0)

(* No message is left behind in out_queue with nothing to make select return:  *)
(* the #ifdef at protocol.c:305 removes the code that would pick it up, because*)
(* "we can't rely on the out_cond being set".  Holds although one wake-up may  *)
(* send many messages, and may stop early (EndWrite).                          *)
NoMessageLeftBehind ==
    \A s \in Side :
        cause[s] = "none" => Len(out_queue[s]) <= PendingWakeups(s)

(* The inductive invariant.                                                    *)
WakeupInv == TypeOK /\ MutexOwners /\ NoMessageLeftBehind

(* The bodies of the frames of one type, in order.                             *)
Bodies(frames, type) ==
    LET upTo[i \in 0 .. Len(frames)] ==
            IF i = 0 THEN <<>>
            ELSE IF frames[i].type = type
                 THEN Append(upTo[i - 1], frames[i].body)
                 ELSE upTo[i - 1]
    IN  upTo[Len(frames)]
Data(frames) == Bodies(frames, "MSG")
Acks(frames) == Bodies(frames, "ACK")

(* What s waits to have acknowledged is what is on its way to the peer, what   *)
(* the peer is about to acknowledge and the acknowledgements on their way back,*)
(* counted with repetitions: two messages may have one sequence number.        *)
AcksMatch ==
    \A s \in Side : cause[Peer(s)] = "none" =>
        LET coming == [i \in DOMAIN Data(sock[Peer(s)]) |->
                          SeqNum(Data(sock[Peer(s)])[i])]
            now == IF hpc[Peer(s)] = "ack" THEN <<to_ack[Peer(s)]>> ELSE <<>>
        IN  ToBag(ack_map[s]) = ToBag(coming \o now \o Acks(sock[s]))

(* With room on the network for all that is in flight, and nobody slow,        *)
(* nothing that the two ends do to each other ends a connection, as long as    *)
(* neither program calls end_handler; in particular no acknowledgement is      *)
(* unexpected (protocol.c:481-487).                                            *)
StaysUp == (\A s \in Side : ~kill[s]) => \A s \in Side : cause[s] = "none"

(* protocol.c implements a pair of FIFO channels.                              *)
Abstract == INSTANCE Channel WITH
    taken <- [s \in Side |->
        {m \in Senders[s] \X (1 .. MaxMsgs) : m[2] <= nsent[m[1]]}],
    undelivered <- [s \in Side |->
        in_queue[Peer(s)] \o Data(sock[Peer(s)]) \o out_queue[s]],
    up <- [s \in Side |-> ~freed[s]]
ImplementsChannel == Abstract!Spec

(* The reader sleeps a second or more between two short visits to in_mutex, so *)
(* pthread_mutex_trylock does not fail for ever.  No fairness of single steps  *)
(* says this; the liveness properties assume it.                               *)
TrylockSucceeds == <>[][\A s \in Side : ~SkipRead(s)]_vars

(* While both ends live, whatever was added is received and acknowledged.      *)
Pending(s) == out_queue[s] # <<>> \/ ack_map[s] # <<>> \/ in_queue[Peer(s)] # <<>>
Ended == \E s \in Side : kill[s] \/ freed[s]
EverythingDelivered ==
    TrylockSucceeds => \A s \in Side : Pending(s) ~> (~Pending(s) \/ Ended)

(* When one end is gone the other does not go on for ever.                     *)
PeerLossNoticed ==
    TrylockSucceeds => \A s \in Side : freed[s] ~> freed[Peer(s)]
===============================================================================
