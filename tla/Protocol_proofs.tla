---------------------------- MODULE Protocol_proofs ---------------------------
(* Proofs about inet/protocol.c: for any senders, any numbers of messages and  *)
(* keep-alives, any capacity of the pipe and of the network, with or without   *)
(* exceeded timeouts, no message stays in out_queue without a wake-up pending, *)
(* messages arrive in order and once, and ack_map is what is under way; and    *)
(* the connection stays up while there is room.                                *)
EXTENDS Protocol, SequenceTheorems, FiniteSetTheorems, WellFoundedInduction,
        TLAPS

(* What pop does to a queue.                                                   *)
LEMMA TailType ==
    ASSUME NEW S, NEW q \in Seq(S), q # <<>>
    PROVE  Head(q) \in S /\ Tail(q) \in Seq(S) /\ Len(Tail(q)) = Len(q) - 1
  BY HeadTailProperties

LEMMA AppendType ==
    ASSUME NEW S, NEW q \in Seq(S), NEW e \in S
    PROVE  Append(q, e) \in Seq(S) /\ Len(Append(q, e)) = Len(q) + 1
  BY AppendProperties

(* ack_map_rm leaves a list of sequence numbers.                               *)
LEMMA RemoveAtType ==
    ASSUME NEW S, NEW q \in Seq(S), NEW i \in 1 .. Len(q)
    PROVE  RemoveAt(q, i) \in Seq(S)
  <1>1. Len(q) \in Nat /\ \A j \in 1 .. Len(q) : q[j] \in S
    BY LenProperties, ElementOfSeq
  <1>2. /\ i - 1 \in Int /\ i + 1 \in Int
        /\ \A j \in 1 .. i - 1 : q[j] \in S
        /\ \A j \in i + 1 .. Len(q) : q[j] \in S
    BY <1>1
  <1>3. SubSeq(q, 1, i - 1) \in Seq(S) /\ SubSeq(q, i + 1, Len(q)) \in Seq(S)
    BY <1>1, <1>2, SubSeqProperties
  <1> QED
    BY <1>3, ConcatProperties DEF RemoveAt
(* The two ends, and the frames they exchange.                                 *)
LEMMA PeerType == \A s \in Side : Peer(s) \in Side /\ Peer(s) # s
  BY DEF Side, Peer

LEMMA FrameTypes ==
    /\ \A m \in Message : Frame("MSG", m) \in Frames /\ SeqNum(m) \in 1 .. MaxMsgs
    /\ \A n \in 0 .. MaxMsgs : Frame("ACK", n) \in Frames
    /\ Frame("KA", 0) \in Frames /\ Frame("PART", 0) \in Frames
    /\ \A f \in Frames : f.type = "MSG" => f.body \in Message
  BY DEF Frames, Frame, Message, SeqNum

LEMMA ThreadType ==
    ASSUME NEW s \in Side, NEW t \in Senders[s]
    PROVE  t \in Thread /\ t \notin {Handler, Reader, Free}
  BY ProtocolAssumption DEF Side, Thread

(* The types of what send_bytes leaves on the network.                         *)
LEMMA SendAllType ==
    ASSUME TypeOK, NEW s \in Side, NEW f \in Frames, SendAll(s, f)
    PROVE  sock' \in [Side -> Seq(Frames)]
  <1>1. sock[Peer(s)] \in Seq(Frames) /\ Peer(s) \in Side
    BY PeerType DEF TypeOK
  <1>2. Append(sock[Peer(s)], f) \in Seq(Frames)
    BY <1>1, AppendType
  <1> QED
    BY <1>1, <1>2 DEF SendAll, TypeOK

LEMMA SendShortType ==
    ASSUME TypeOK, NEW s \in Side, SendShort(s)
    PROVE  sock' \in [Side -> Seq(Frames)]
  <1>1. sock[Peer(s)] \in Seq(Frames) /\ Peer(s) \in Side
    BY PeerType DEF TypeOK
  <1>2. Append(sock[Peer(s)], Frame("PART", 0)) \in Seq(Frames)
    BY <1>1, FrameTypes, AppendType
  <1>3. \/ sock' = sock
        \/ sock' = [sock EXCEPT ![Peer(s)] = Append(sock[Peer(s)], Frame("PART", 0))]
    BY DEF SendShort
  <1>4. sock \in [Side -> Seq(Frames)]
    BY DEF TypeOK
  <1> QED
    BY <1>1, <1>2, <1>3, <1>4

(* The types are kept by every step.                                           *)
LEMMA TypeStep ==
    TypeOK /\ [Next]_vars => TypeOK'
  <1> SUFFICES ASSUME TypeOK, [Next]_vars PROVE TypeOK'
    OBVIOUS
  <1> USE ProtocolAssumption DEF PC, Causes
  <1>1. ASSUME NEW s \in Side, NEW t \in Senders[s], add_message(s, t)
        PROVE  TypeOK'
      <2>1. /\ t \in Thread /\ nsent[t] \in 0 .. MaxMsgs /\ nsent[t] < MaxMsgs
            /\ out_queue[s] \in Seq(Message)
        BY <1>1, ThreadType DEF add_message, TypeOK
      <2>2. Append(out_queue[s], <<t, nsent[t] + 1>>) \in Seq(Message)
        <3>1. <<t, nsent[t] + 1>> \in Message
          BY <2>1 DEF Message
        <3> QED
          BY <2>1, <3>1, AppendType
      <2>3. out_queue' \in [Side -> Seq(Message)]
        BY <1>1, <2>2 DEF add_message, TypeOK
      <2>4. /\ nsent' \in [Thread -> 0 .. MaxMsgs]
            /\ wpc' \in [Thread -> {"idle", "signal"}]
            /\ out_mutex' \in [Side -> Thread \cup {Handler, Free}]
        BY SMTT(30), <1>1, <2>1 DEF add_message, TypeOK
      <2> QED
        BY <1>1, <2>3, <2>4 DEF add_message, TypeOK, inbox, life, conn
  <1>2. ASSUME NEW s \in Side, NEW t \in Senders[s], add_message_signal(s, t)
        PROVE  TypeOK'
      BY SMTT(30), <1>2, ThreadType DEF add_message_signal, TypeOK, inbox, life, conn
  <1>3. ASSUME NEW s \in Side, get_message_lock(s) PROVE TypeOK'
    BY <1>3 DEF get_message_lock, TypeOK, queues, inbox, life, conn
  <1>4. ASSUME NEW s \in Side, get_message_pop(s) PROVE TypeOK'
      <2>1. in_queue[s] \in Seq(Message) /\ Tail(in_queue[s]) \in Seq(Message)
        BY <1>4, TailType DEF get_message_pop, TypeOK
      <2> QED
        BY <1>4, <2>1 DEF get_message_pop, TypeOK, queues, life, conn
  <1>5. ASSUME NEW s \in Side, get_message_wait(s) PROVE TypeOK'
    BY <1>5 DEF get_message_wait, TypeOK, queues, inbox, life, conn
  <1>6. ASSUME NEW s \in Side, get_message_timeout(s) PROVE TypeOK'
    BY <1>6 DEF get_message_timeout, TypeOK, queues, inbox, life, conn
  <1>7. ASSUME NEW s \in Side, Select(s) PROVE TypeOK'
      <2>1. goto(s, "read") \/ goto(s, "wake") \/ goto(s, "check")
        BY <1>7 DEF Select, goto
      <2>2. (pipe[s] > 0) \in BOOLEAN
        OBVIOUS
      <2> QED
        BY <1>7, <2>1, <2>2 DEF Select, goto, TypeOK, queues, inbox, life
  <1>8. ASSUME NEW s \in Side, SkipRead(s) PROVE TypeOK'
    BY <1>8 DEF SkipRead, EndRead, goto, TypeOK, queues, inbox, life, conn
  <1>9. ASSUME NEW s \in Side, ReadAck(s) PROVE TypeOK'
      <2>1. sock[s] \in Seq(Frames) /\ Tail(sock[s]) \in Seq(Frames)
        BY <1>9, TailType DEF ReadAck, ReadFrame, Arrived, TypeOK
      <2>2. sock' \in [Side -> Seq(Frames)]
        BY <1>9, <2>1 DEF ReadAck, ReadFrame, TypeOK
      <2>3. ack_map' \in [Side -> Seq(1 .. MaxMsgs)]
        <3>1. ASSUME NEW i \in 1 .. Len(ack_map[s])
              PROVE  RemoveAt(ack_map[s], i) \in Seq(1 .. MaxMsgs)
          BY <3>1, RemoveAtType DEF TypeOK
        <3>2. \/ ack_map' = ack_map
              \/ \E i \in 1 .. Len(ack_map[s]) :
                    ack_map' = [ack_map EXCEPT ![s] = RemoveAt(ack_map[s], i)]
          BY <1>9 DEF ReadAck, ack_map_rm
        <3>3. ack_map \in [Side -> Seq(1 .. MaxMsgs)]
          BY DEF TypeOK
        <3> QED
          BY <3>1, <3>2, <3>3
      <2>4. /\ hpc' \in [Side -> PC]
            /\ cause' \in [Side -> Causes]
        BY <1>9 DEF ReadAck, EndRead, Fail, goto, TypeOK
      <2> QED
        BY <1>9, <2>2, <2>3, <2>4 DEF ReadAck, TypeOK, queues, inbox
  <1>10. ASSUME NEW s \in Side, ReadKeepAlive(s) PROVE TypeOK'
      <2>1. sock[s] \in Seq(Frames) /\ Tail(sock[s]) \in Seq(Frames)
        BY <1>10, TailType DEF ReadKeepAlive, ReadFrame, Arrived, TypeOK
      <2>2. sock' \in [Side -> Seq(Frames)]
        BY <1>10, <2>1 DEF ReadKeepAlive, ReadFrame, TypeOK
      <2> QED
        BY <1>10, <2>2 DEF ReadKeepAlive, EndRead, goto, TypeOK, queues, inbox, life,
                         conn
  <1>11. ASSUME NEW s \in Side, ReadMessage(s) PROVE TypeOK'
      <2>1. sock[s] \in Seq(Frames) /\ Tail(sock[s]) \in Seq(Frames)
        BY <1>11, TailType DEF ReadMessage, ReadFrame, Arrived, TypeOK
      <2>2. sock' \in [Side -> Seq(Frames)]
        BY <1>11, <2>1 DEF ReadMessage, ReadFrame, TypeOK
      <2>3. Head(sock[s]) \in Frames /\ Head(sock[s]).type = "MSG"
        BY <1>11, <2>1, TailType DEF ReadMessage, ReadFrame, Arrived
      <2>4. Head(sock[s]).body \in Message
        BY <2>3, FrameTypes
      <2>5. /\ Append(in_queue[s], Head(sock[s]).body) \in Seq(Message)
            /\ SeqNum(Head(sock[s]).body) \in 0 .. MaxMsgs
        BY <2>4, AppendType, FrameTypes DEF TypeOK
      <2> QED
        BY <1>11, <2>2, <2>5 DEF ReadMessage, goto, TypeOK, queues, life
  <1>12. ASSUME NEW s \in Side, ReadShort(s) PROVE TypeOK'
    BY <1>12 DEF ReadShort, Fail, goto, TypeOK, queues, inbox, life, conn
  <1>13. ASSUME NEW s \in Side, write_acknowledge(s) PROVE TypeOK'
      <2>1. sock' \in [Side -> Seq(Frames)]
        <3>1. to_ack[s] \in 0 .. MaxMsgs
          BY DEF TypeOK
        <3> QED
          BY <1>13, <3>1, FrameTypes, SendAllType, SendShortType
             DEF write_acknowledge
      <2>2. /\ hpc' \in [Side -> PC]
            /\ cause' \in [Side -> Causes]
        BY <1>13 DEF write_acknowledge, EndRead, Fail, goto, TypeOK
      <2>3. /\ in_mutex' \in [Side -> {Handler, Reader, Free}]
            /\ to_ack' \in [Side -> 0 .. MaxMsgs]
        BY <1>13 DEF write_acknowledge, TypeOK
      <2> QED
        BY <1>13, <2>1, <2>2, <2>3 DEF write_acknowledge, TypeOK, queues
  <1>14. ASSUME NEW s \in Side, ReadWakeup(s) PROVE TypeOK'
      <2>1. pipe[s] \in 0 .. PIPE_CAP /\ pipe[s] - 1 \in 0 .. PIPE_CAP
        BY <1>14 DEF ReadWakeup, TypeOK
      <2> QED
        BY <1>14, <2>1 DEF ReadWakeup, goto, TypeOK, inbox, life
  <1>15. ASSUME NEW s \in Side, LockOut(s) PROVE TypeOK'
    BY <1>15 DEF LockOut, goto, TypeOK, queues, inbox, life, conn
  <1>16. ASSUME NEW s \in Side, WriteMessage(s) PROVE TypeOK'
      <2>1. /\ out_queue[s] \in Seq(Message) /\ Head(out_queue[s]) \in Message
            /\ Tail(out_queue[s]) \in Seq(Message)
        BY <1>16, TailType DEF WriteMessage, TypeOK
      <2>2. sock' \in [Side -> Seq(Frames)]
        BY <1>16, <2>1, FrameTypes, SendAllType, SendShortType DEF WriteMessage
      <2>3. Append(ack_map[s], SeqNum(Head(out_queue[s]))) \in Seq(1 .. MaxMsgs)
        BY <2>1, FrameTypes, AppendType DEF TypeOK
      <2>4. /\ hpc' \in [Side -> PC]
            /\ cause' \in [Side -> Causes]
        BY <1>16 DEF WriteMessage, Fail, goto, TypeOK
      <2>5. /\ out_queue' \in [Side -> Seq(Message)]
            /\ ack_map' \in [Side -> Seq(1 .. MaxMsgs)]
        <3>1. /\ \/ out_queue' = out_queue
                 \/ out_queue' = [out_queue EXCEPT ![s] = Tail(out_queue[s])]
              /\ \/ ack_map' = ack_map
                 \/ ack_map' = [ack_map EXCEPT ![s] =
                        Append(ack_map[s], SeqNum(Head(out_queue[s])))]
          BY <1>16 DEF WriteMessage
        <3>2. /\ out_queue \in [Side -> Seq(Message)]
              /\ ack_map \in [Side -> Seq(1 .. MaxMsgs)]
          BY DEF TypeOK
        <3> QED
          BY <2>1, <2>3, <3>1, <3>2
      <2>6. out_mutex' \in [Side -> Thread \cup {Handler, Free}]
        BY <1>16 DEF WriteMessage, TypeOK
      <2> QED
        BY <1>16, <2>2, <2>4, <2>5, <2>6 DEF WriteMessage, TypeOK, inbox
  <1>17. ASSUME NEW s \in Side, EndWrite(s) PROVE TypeOK'
    BY <1>17 DEF EndWrite, goto, TypeOK, queues, inbox, life, conn
  <1>18. ASSUME NEW s \in Side, Expire(s) PROVE TypeOK'
    BY <1>18 DEF Expire, Fail, goto, TypeOK, queues, inbox, life, conn
  <1>19. ASSUME NEW s \in Side, EndTurn(s) PROVE TypeOK'
      <2>1. sock' \in [Side -> Seq(Frames)]
        <3>1. sock' = sock \/ SendAll(s, Frame("KA", 0)) \/ SendShort(s)
          BY <1>19 DEF EndTurn
        <3> QED
          BY <3>1, FrameTypes, SendAllType, SendShortType DEF TypeOK
      <2>3. nka' \in [Side -> Nat]
        <3>1. \/ nka' = nka
              \/ nka' = [nka EXCEPT ![s] = nka[s] + 1]
          BY <1>19 DEF EndTurn
        <3>2. nka \in [Side -> Nat]
          BY DEF TypeOK
        <3> QED
          BY <3>1, <3>2
      <2>2. /\ hpc' \in [Side -> PC]
            /\ cause' \in [Side -> Causes]
        BY <1>19 DEF EndTurn, TestKill, Fail, goto, TypeOK
      <2> QED
        BY <1>19, <2>1, <2>2, <2>3 DEF EndTurn, TypeOK, queues, inbox
  <1>20. ASSUME NEW s \in Side, handler_cleanup(s) PROVE TypeOK'
    BY <1>20 DEF handler_cleanup, goto, TypeOK, queues, inbox, life, conn
  <1>21. ASSUME NEW s \in Side, end_handler(s) PROVE TypeOK'
    BY <1>21 DEF end_handler, TypeOK, queues, inbox, life, conn
  <1>22. ASSUME NEW s \in Side, close_fd(s) PROVE TypeOK'
    BY <1>22 DEF close_fd, TypeOK, queues, inbox, life, conn
  <1>23. CASE UNCHANGED vars
    BY <1>23 DEF vars, TypeOK, queues, inbox, life, conn
  <1> QED
    BY <1>1, <1>2, <1>3, <1>4, <1>5, <1>6, <1>7, <1>8, <1>9, <1>10, <1>11,
    <1>12, <1>13, <1>14, <1>15, <1>16, <1>17, <1>18, <1>19, <1>20, <1>21,
    <1>22, <1>23
       DEF Next, add_message_step, get_message, handle_connection, read_message,
           write_messages

LEMMA Disjoint ==
    ASSUME NEW s \in Side, NEW u \in Side, u # s, NEW t \in Senders[s]
    PROVE  t \notin Senders[u]
  BY ProtocolAssumption DEF Side

LEMMA Distinct == Handler # Reader /\ Handler # Free /\ Reader # Free
  BY DEF Handler, Reader, Free

LEMMA OwnersStep ==
    TypeOK /\ MutexOwners /\ [Next]_vars => MutexOwners'
  <1> SUFFICES ASSUME TypeOK, MutexOwners, [Next]_vars PROVE MutexOwners'
    OBVIOUS
  <1>1. ASSUME NEW s \in Side, NEW t \in Senders[s], add_message(s, t) PROVE MutexOwners'
    BY SMTT(30), <1>1, ThreadType, Disjoint, Distinct DEF add_message, TypeOK, MutexOwners,
       queues, inbox, life, conn
  <1>2. ASSUME NEW s \in Side, NEW t \in Senders[s], add_message_signal(s, t) PROVE MutexOwners'
    BY SMTT(30), <1>2, ThreadType, Disjoint, Distinct DEF add_message_signal, TypeOK,
       MutexOwners, queues, inbox, life, conn
  <1>3. ASSUME NEW s \in Side, get_message_lock(s) PROVE MutexOwners'
    BY SMTT(30), <1>3, ThreadType, Disjoint, Distinct DEF get_message_lock, TypeOK, MutexOwners,
       queues, inbox, life, conn
  <1>4. ASSUME NEW s \in Side, get_message_pop(s) PROVE MutexOwners'
    BY SMTT(30), <1>4, ThreadType, Disjoint, Distinct DEF get_message_pop, TypeOK, MutexOwners,
       queues, inbox, life, conn
  <1>5. ASSUME NEW s \in Side, get_message_wait(s) PROVE MutexOwners'
    BY <1>5, ThreadType, Disjoint, Distinct DEF get_message_wait, TypeOK, MutexOwners,
       queues, inbox, life, conn
  <1>6. ASSUME NEW s \in Side, get_message_timeout(s) PROVE MutexOwners'
    BY SMTT(30), <1>6, ThreadType, Disjoint, Distinct DEF get_message_timeout, TypeOK,
       MutexOwners, queues, inbox, life, conn
  <1>7. ASSUME NEW s \in Side, Select(s) PROVE MutexOwners'
    BY SMTT(30), <1>7, ThreadType, Disjoint, Distinct DEF Select, goto, TypeOK, MutexOwners,
       queues, inbox, life, conn
  <1>8. ASSUME NEW s \in Side, SkipRead(s) PROVE MutexOwners'
    BY SMTT(30), <1>8, ThreadType, Disjoint, Distinct DEF SkipRead, EndRead, goto, TypeOK,
       MutexOwners, queues, inbox, life, conn
  <1>9. ASSUME NEW s \in Side, ReadAck(s) PROVE MutexOwners'
    BY SMTT(30), <1>9, ThreadType, Disjoint, Distinct DEF ReadAck, ReadFrame, EndRead, Fail,
       goto, TypeOK, MutexOwners, queues, inbox, life, conn
  <1>10. ASSUME NEW s \in Side, ReadKeepAlive(s) PROVE MutexOwners'
    BY SMTT(30), <1>10, ThreadType, Disjoint, Distinct DEF ReadKeepAlive, ReadFrame, EndRead,
       goto, TypeOK, MutexOwners, queues, inbox, life, conn
  <1>11. ASSUME NEW s \in Side, ReadMessage(s) PROVE MutexOwners'
    BY SMTT(30), <1>11, ThreadType, Disjoint, Distinct DEF ReadMessage, ReadFrame, goto, TypeOK,
       MutexOwners, queues, inbox, life, conn
  <1>12. ASSUME NEW s \in Side, ReadShort(s) PROVE MutexOwners'
    BY SMTT(30), <1>12, ThreadType, Disjoint, Distinct DEF ReadShort, Fail, goto, TypeOK,
       MutexOwners, queues, inbox, life, conn
  <1>13. ASSUME NEW s \in Side, write_acknowledge(s) PROVE MutexOwners'
    BY SMTT(30), <1>13, ThreadType, Disjoint, Distinct DEF write_acknowledge, EndRead, Fail,
       goto, TypeOK, MutexOwners, queues, inbox, life, conn
  <1>14. ASSUME NEW s \in Side, ReadWakeup(s) PROVE MutexOwners'
    BY SMTT(30), <1>14, ThreadType, Disjoint, Distinct DEF ReadWakeup, goto, TypeOK,
       MutexOwners, queues, inbox, life, conn
  <1>15. ASSUME NEW s \in Side, LockOut(s) PROVE MutexOwners'
    BY SMTT(30), <1>15, ThreadType, Disjoint, Distinct DEF LockOut, goto, TypeOK, MutexOwners,
       queues, inbox, life, conn
  <1>16. ASSUME NEW s \in Side, WriteMessage(s) PROVE MutexOwners'
    BY SMTT(30), <1>16, ThreadType, Disjoint, Distinct DEF WriteMessage, Fail, goto, TypeOK,
       MutexOwners, queues, inbox, life, conn
  <1>17. ASSUME NEW s \in Side, EndWrite(s) PROVE MutexOwners'
    BY SMTT(30), <1>17, ThreadType, Disjoint, Distinct DEF EndWrite, goto, TypeOK, MutexOwners,
       queues, inbox, life, conn
  <1>18. ASSUME NEW s \in Side, Expire(s) PROVE MutexOwners'
    BY SMTT(30), <1>18, ThreadType, Disjoint, Distinct DEF Expire, Fail, goto, TypeOK,
       MutexOwners, queues, inbox, life, conn
  <1>19. ASSUME NEW s \in Side, EndTurn(s) PROVE MutexOwners'
    BY SMTT(30), <1>19, ThreadType, Disjoint, Distinct DEF EndTurn, TestKill, Fail, goto,
       TypeOK, MutexOwners, queues, inbox, life, conn
  <1>20. ASSUME NEW s \in Side, handler_cleanup(s) PROVE MutexOwners'
    BY SMTT(30), <1>20, ThreadType, Disjoint, Distinct DEF handler_cleanup, goto, TypeOK,
       MutexOwners, queues, inbox, life, conn
  <1>21. ASSUME NEW s \in Side, end_handler(s) PROVE MutexOwners'
    BY <1>21, ThreadType, Disjoint, Distinct DEF end_handler, TypeOK, MutexOwners,
       queues, inbox, life, conn
  <1>22. ASSUME NEW s \in Side, close_fd(s) PROVE MutexOwners'
    BY <1>22, ThreadType, Disjoint, Distinct DEF close_fd, TypeOK, MutexOwners,
       queues, inbox, life, conn
  <1>23. CASE UNCHANGED vars
    BY <1>23, ThreadType, Disjoint, Distinct DEF vars, TypeOK, MutexOwners, queues,
       inbox, life, conn
  <1> QED
    BY <1>1, <1>2, <1>3, <1>4, <1>5, <1>6, <1>7, <1>8, <1>9, <1>10,
       <1>11, <1>12, <1>13, <1>14, <1>15, <1>16, <1>17, <1>18, <1>19,
       <1>20, <1>21, <1>22, <1>23
       DEF Next, add_message_step, get_message, handle_connection, read_message,
           write_messages

LEMMA LeftBehindStep ==
    TypeOK /\ MutexOwners /\ NoMessageLeftBehind /\ [Next]_vars
        => NoMessageLeftBehind'
  <1> SUFFICES ASSUME TypeOK, MutexOwners, NoMessageLeftBehind, [Next]_vars
               PROVE  NoMessageLeftBehind'
    OBVIOUS
  <1>1. ASSUME NEW s \in Side, NEW t \in Senders[s], add_message(s, t) PROVE NoMessageLeftBehind'
      <2>1. out_queue[s] \in Seq(Message) /\ <<t, nsent[t] + 1>> \in Message
        <3>1. t \in Thread /\ nsent[t] \in 0 .. MaxMsgs /\ nsent[t] < MaxMsgs
          BY <1>1, ThreadType DEF add_message, TypeOK
        <3> QED
          BY <3>1, ProtocolAssumption DEF TypeOK, Message
      <2>2. Len(out_queue'[s]) = Len(out_queue[s]) + 1
        BY <1>1, <2>1, AppendType DEF add_message, TypeOK
      <2>3. /\ out_mutex[s] = Free /\ out_mutex' = [out_mutex EXCEPT ![s] = t]
            /\ UNCHANGED <<pipe, hpc, cause>>
            /\ \A u \in Side \ {s} : out_queue'[u] = out_queue[u]
        BY <1>1 DEF add_message, TypeOK, life
      <2>4. out_mutex[s] \notin Senders[s]
        BY <2>3, ThreadType
      <2>5. /\ pipe \in [Side -> 0 .. PIPE_CAP] /\ out_mutex \in [Side -> Thread \cup {Handler, Free}]
            /\ Len(out_queue[s]) \in Nat
        BY <2>1, LenProperties DEF TypeOK
      <2> QED
        BY <2>2, <2>3, <2>4, <2>5 DEF NoMessageLeftBehind, PendingWakeups
  <1>2. ASSUME NEW s \in Side, NEW t \in Senders[s], add_message_signal(s, t)
        PROVE  NoMessageLeftBehind'
    BY SMTT(30), <1>2, ThreadType, Disjoint, Distinct DEF add_message_signal, TypeOK,
       MutexOwners, NoMessageLeftBehind, PendingWakeups, queues, inbox,
       life, conn
  <1>3. ASSUME NEW s \in Side, get_message_lock(s) PROVE NoMessageLeftBehind'
    BY <1>3, ThreadType, Disjoint, Distinct DEF get_message_lock, TypeOK, MutexOwners,
       NoMessageLeftBehind, PendingWakeups, queues, inbox, life, conn
  <1>4. ASSUME NEW s \in Side, get_message_pop(s) PROVE NoMessageLeftBehind'
    BY <1>4, ThreadType, Disjoint, Distinct DEF get_message_pop, TypeOK, MutexOwners,
       NoMessageLeftBehind, PendingWakeups, queues, inbox, life, conn
  <1>5. ASSUME NEW s \in Side, get_message_wait(s) PROVE NoMessageLeftBehind'
    BY <1>5, ThreadType, Disjoint, Distinct DEF get_message_wait, TypeOK, MutexOwners,
       NoMessageLeftBehind, PendingWakeups, queues, inbox, life, conn
  <1>6. ASSUME NEW s \in Side, get_message_timeout(s) PROVE NoMessageLeftBehind'
    BY <1>6, ThreadType, Disjoint, Distinct DEF get_message_timeout, TypeOK,
       MutexOwners, NoMessageLeftBehind, PendingWakeups, queues, inbox,
       life, conn
  <1>7. ASSUME NEW s \in Side, Select(s) PROVE NoMessageLeftBehind'
    BY SMTT(30), <1>7, ThreadType, Disjoint, Distinct DEF Select, goto, TypeOK, MutexOwners,
       NoMessageLeftBehind, PendingWakeups, queues, inbox, life, conn
  <1>8. ASSUME NEW s \in Side, SkipRead(s) PROVE NoMessageLeftBehind'
    BY SMTT(30), <1>8, ThreadType, Disjoint, Distinct DEF SkipRead, EndRead, goto, TypeOK,
       MutexOwners, NoMessageLeftBehind, PendingWakeups, queues, inbox,
       life, conn
  <1>9. ASSUME NEW s \in Side, ReadAck(s) PROVE NoMessageLeftBehind'
      <2>1. /\ hpc[s] \notin {"lock_out", "write"}
            /\ \/ goto(s, "wake") \/ goto(s, "check") \/ goto(s, "cleanup")
               \/ goto(s, "select")
            /\ cause' = cause \/ \E why \in Causes \ {"none"} :
                                 cause' = [cause EXCEPT ![s] = why]
            /\ UNCHANGED <<out_queue, out_mutex, pipe>>
        BY <1>9 DEF ReadAck, ReadFrame, EndRead, Fail, goto, queues, Causes
      <2>2. hpc \in [Side -> PC] /\ cause \in [Side -> Causes]
        BY DEF TypeOK
      <2> QED
        BY <2>1, <2>2 DEF NoMessageLeftBehind, PendingWakeups, goto
  <1>10. ASSUME NEW s \in Side, ReadKeepAlive(s) PROVE NoMessageLeftBehind'
    BY SMTT(30), <1>10, ThreadType, Disjoint, Distinct DEF ReadKeepAlive, ReadFrame, EndRead,
       goto, TypeOK, MutexOwners, NoMessageLeftBehind, PendingWakeups,
       queues, inbox, life, conn
  <1>11. ASSUME NEW s \in Side, ReadMessage(s) PROVE NoMessageLeftBehind'
    BY SMTT(30), <1>11, ThreadType, Disjoint, Distinct DEF ReadMessage, ReadFrame, goto, TypeOK,
       MutexOwners, NoMessageLeftBehind, PendingWakeups, queues, inbox,
       life, conn
  <1>12. ASSUME NEW s \in Side, ReadShort(s) PROVE NoMessageLeftBehind'
    BY <1>12, ThreadType, Disjoint, Distinct DEF ReadShort, Fail, goto, TypeOK,
       MutexOwners, NoMessageLeftBehind, PendingWakeups, queues, inbox,
       life, conn
  <1>13. ASSUME NEW s \in Side, write_acknowledge(s) PROVE NoMessageLeftBehind'
      <2>1. /\ hpc[s] \notin {"lock_out", "write"}
            /\ \/ goto(s, "wake") \/ goto(s, "check") \/ goto(s, "cleanup")
               \/ goto(s, "select")
            /\ cause' = cause \/ \E why \in Causes \ {"none"} :
                                 cause' = [cause EXCEPT ![s] = why]
            /\ UNCHANGED <<out_queue, out_mutex, pipe>>
        BY <1>13 DEF write_acknowledge, EndRead, Fail, goto, queues, Causes
      <2>2. hpc \in [Side -> PC] /\ cause \in [Side -> Causes]
        BY DEF TypeOK
      <2> QED
        BY <2>1, <2>2 DEF NoMessageLeftBehind, PendingWakeups, goto
  <1>14. ASSUME NEW s \in Side, ReadWakeup(s) PROVE NoMessageLeftBehind'
    BY SMTT(30), <1>14, ThreadType, Disjoint, Distinct DEF ReadWakeup, goto, TypeOK,
       MutexOwners, NoMessageLeftBehind, PendingWakeups, queues, inbox,
       life, conn
  <1>15. ASSUME NEW s \in Side, LockOut(s) PROVE NoMessageLeftBehind'
    BY SMTT(30), <1>15, ThreadType, Disjoint, Distinct DEF LockOut, goto, TypeOK, MutexOwners,
       NoMessageLeftBehind, PendingWakeups, queues, inbox, life, conn
  <1>16. ASSUME NEW s \in Side, WriteMessage(s) PROVE NoMessageLeftBehind'
      <2>1. /\ out_queue[s] \in Seq(Message)
            /\ Len(Tail(out_queue[s])) = Len(out_queue[s]) - 1
            /\ Len(out_queue[s]) \in Nat
        BY <1>16, TailType, LenProperties DEF WriteMessage, TypeOK
      <2>2. /\ pipe \in [Side -> 0 .. PIPE_CAP] /\ hpc \in [Side -> PC]
            /\ cause \in [Side -> Causes]
            /\ out_mutex \in [Side -> Thread \cup {Handler, Free}]
            /\ out_queue \in [Side -> Seq(Message)]
        BY DEF TypeOK
      <2>3. CASE Fail(s, "EIO") /\ out_mutex' = [out_mutex EXCEPT ![s] = Free]
                 /\ UNCHANGED <<out_queue, pipe>>
        BY <2>2, <2>3 DEF NoMessageLeftBehind, PendingWakeups, Fail, goto
      <2>4. CASE /\ out_queue' = [out_queue EXCEPT ![s] = Tail(out_queue[s])]
                 /\ goto(s, "more") /\ UNCHANGED <<cause, out_mutex, pipe>>
        <3>1. /\ out_mutex[s] \notin Senders[s]
              /\ hpc[s] \in {"write", "more"}
          BY <1>16, ThreadType DEF WriteMessage, MutexOwners
        <3> QED
          BY <2>1, <2>2, <2>4, <3>1 DEF NoMessageLeftBehind, PendingWakeups, goto
      <2> QED
        BY <1>16, <2>3, <2>4 DEF WriteMessage
  <1>17. ASSUME NEW s \in Side, EndWrite(s) PROVE NoMessageLeftBehind'
    BY SMTT(30), <1>17, ThreadType, Disjoint, Distinct DEF EndWrite, goto, TypeOK, MutexOwners,
       NoMessageLeftBehind, PendingWakeups, queues, inbox, life, conn
  <1>18. ASSUME NEW s \in Side, Expire(s) PROVE NoMessageLeftBehind'
    BY <1>18, ThreadType, Disjoint, Distinct DEF Expire, Fail, goto, TypeOK,
       MutexOwners, NoMessageLeftBehind, PendingWakeups, queues, inbox,
       life, conn
  <1>19. ASSUME NEW s \in Side, EndTurn(s) PROVE NoMessageLeftBehind'
      <2>1. /\ hpc[s] \notin {"lock_out", "write"}
            /\ \/ goto(s, "wake") \/ goto(s, "check") \/ goto(s, "cleanup")
               \/ goto(s, "select")
            /\ cause' = cause \/ \E why \in Causes \ {"none"} :
                                 cause' = [cause EXCEPT ![s] = why]
            /\ UNCHANGED <<out_queue, out_mutex, pipe>>
        BY <1>19 DEF EndTurn, TestKill, Fail, goto, queues, Causes
      <2>2. hpc \in [Side -> PC] /\ cause \in [Side -> Causes]
        BY DEF TypeOK
      <2> QED
        BY <2>1, <2>2 DEF NoMessageLeftBehind, PendingWakeups, goto
  <1>20. ASSUME NEW s \in Side, handler_cleanup(s) PROVE NoMessageLeftBehind'
    BY SMTT(30), <1>20, ThreadType, Disjoint, Distinct DEF handler_cleanup, goto, TypeOK,
       MutexOwners, NoMessageLeftBehind, PendingWakeups, queues, inbox,
       life, conn
  <1>21. ASSUME NEW s \in Side, end_handler(s) PROVE NoMessageLeftBehind'
    BY <1>21, ThreadType, Disjoint, Distinct DEF end_handler, TypeOK, MutexOwners,
       NoMessageLeftBehind, PendingWakeups, queues, inbox, life, conn
  <1>22. ASSUME NEW s \in Side, close_fd(s) PROVE NoMessageLeftBehind'
    BY <1>22, ThreadType, Disjoint, Distinct DEF close_fd, TypeOK, MutexOwners,
       NoMessageLeftBehind, PendingWakeups, queues, inbox, life, conn
  <1>23. CASE UNCHANGED vars
    BY <1>23, ThreadType, Disjoint, Distinct DEF vars, TypeOK, MutexOwners,
       NoMessageLeftBehind, PendingWakeups, queues, inbox, life, conn
  <1> QED
    BY <1>1, <1>2, <1>3, <1>4, <1>5, <1>6, <1>7, <1>8, <1>9, <1>10,
       <1>11, <1>12, <1>13, <1>14, <1>15, <1>16, <1>17, <1>18, <1>19,
       <1>20, <1>21, <1>22, <1>23
       DEF Next, add_message_step, get_message, handle_connection, read_message,
           write_messages

LEMMA WakeupInit == Init => WakeupInv
  <1> SUFFICES ASSUME Init PROVE WakeupInv
    OBVIOUS
  <1> USE ProtocolAssumption DEF Init, init_handler
  <1>1. TypeOK
    BY EmptySeq DEF TypeOK, PC, Causes
  <1>2. MutexOwners
    BY ThreadType, Distinct DEF MutexOwners
  <1>3. NoMessageLeftBehind
    BY <1>1, <1>2 DEF NoMessageLeftBehind, PendingWakeups, TypeOK
  <1> QED
    BY <1>1, <1>2, <1>3 DEF WakeupInv

(* No message is left behind in out_queue with nothing to make select return,  *)
(* whatever the two ends, the network and the clocks do.                       *)
THEOREM NoLostWakeup == Spec => []WakeupInv
  <1>1. Init => WakeupInv
    BY WakeupInit
  <1>2. WakeupInv /\ [Next]_vars => WakeupInv'
    BY TypeStep, OwnersStep, LeftBehindStep DEF WakeupInv
  <1> QED
    BY <1>1, <1>2, PTL DEF Spec

-------------------------------------------------------------------------------
(* Induction over a set of numbers: the least number not in it does not exist. *)
LEMMA Least ==
    ASSUME NEW T \in SUBSET Nat, T # {}
    PROVE  \E n \in T : \A k \in T : n <= k
  <1> DEFINE R == {p \in Nat \X Nat : p[1] < p[2]}
  <1>1. IsWellFoundedOn(R, Nat)
    BY NatLessThanWellFounded DEF OpToRel
  <1>2. PICK n \in T : \A k \in T : <<k, n>> \notin R
    <2> HIDE DEF R
    <2> QED
      BY <1>1, WFMin
  <1>3. \A k \in T : n <= k
    <2> SUFFICES ASSUME NEW k \in T PROVE n <= k
      OBVIOUS
    <2>1. k \in Nat /\ n \in Nat
      OBVIOUS
    <2>2. <<k, n>> \notin R
      BY <1>2
    <2> QED
      BY <2>1, <2>2
  <1> QED
    BY <1>3

(* Induction over 0 .. N.                                                      *)
LEMMA UpTo ==
    ASSUME NEW N \in Nat, NEW T, 0 \in T,
           \A k \in 1 .. N : k - 1 \in T => k \in T
    PROVE  0 .. N \subseteq T
  <1> DEFINE Bad == {k \in 0 .. N : k \notin T}
  <1>1. ASSUME Bad # {} PROVE FALSE
    <2>1. PICK n \in Bad : \A k \in Bad : n <= k
      <3>1. Bad \in SUBSET Nat
        OBVIOUS
      <3> HIDE DEF Bad
      <3> QED
        BY <1>1, <3>1, Least
    <2>2. n \in 1 .. N /\ n - 1 \in 0 .. N
      OBVIOUS
    <2>3. n - 1 \in T
      <3>1. n - 1 \notin Bad
        BY <2>1, <2>2
      <3> QED
        BY <2>2, <3>1
    <2> QED
      BY <2>2, <2>3
  <1> QED
    BY <1>1

-------------------------------------------------------------------------------
(* The bodies of the frames of one type: what the network carries.             *)

AnyBody == Message \cup Nat

LEMMA BodyType == \A f \in Frames : f.body \in AnyBody
  BY ProtocolAssumption DEF Frames, AnyBody, Message

(* One frame more.                                                             *)
AddBody(b, f, type) == IF f.type = type THEN Append(b, f.body) ELSE b

(* The values of upTo in Bodies.                                               *)
Loop(g, frames, type) ==
    /\ g \in [0 .. Len(frames) -> Seq(AnyBody)]
    /\ g[0] = <<>>
    /\ \A i \in 1 .. Len(frames) : g[i] = AddBody(g[i - 1], frames[i], type)

LEMMA AddBodyType ==
    ASSUME NEW b \in Seq(AnyBody), NEW f \in Frames, NEW type
    PROVE  AddBody(b, f, type) \in Seq(AnyBody)
  BY BodyType DEF AddBody

(* There is such a function: each value is made from the one before.           *)
LEMMA LoopExists ==
    ASSUME NEW q \in Seq(Frames), NEW type
    PROVE  \E g : Loop(g, q, type)
  <1> DEFINE Prefix(n, g) ==
        /\ g \in [0 .. n -> Seq(AnyBody)]
        /\ g[0] = <<>>
        /\ \A i \in 1 .. n : g[i] = AddBody(g[i - 1], q[i], type)
  <1> DEFINE T == {n \in 0 .. Len(q) : \E g : Prefix(n, g)}
  <1>1. 0 \in T
    <2>1. Prefix(0, [i \in 0 .. 0 |-> <<>>])
      BY EmptySeq
    <2>2. 0 \in 0 .. Len(q)
      OBVIOUS
    <2> HIDE DEF Prefix
    <2> QED
      BY <2>1, <2>2
  <1>2. ASSUME NEW n \in 1 .. Len(q), n - 1 \in T PROVE n \in T
    <2>1. PICK g : Prefix(n - 1, g)
      BY <1>2
    <2> DEFINE h == [i \in 0 .. n |->
                        IF i = n THEN AddBody(g[n - 1], q[n], type) ELSE g[i]]
    <2>2. n - 1 \in 0 .. n - 1 /\ g[n - 1] \in Seq(AnyBody) /\ q[n] \in Frames
      <3>1. n - 1 \in 0 .. n - 1 /\ q[n] \in Frames
        OBVIOUS
      <3> QED
        BY <2>1, <3>1
    <2>3. AddBody(g[n - 1], q[n], type) \in Seq(AnyBody)
      BY <2>2, AddBodyType
    <2>4. h \in [0 .. n -> Seq(AnyBody)] /\ h[0] = <<>>
      BY <2>1, <2>3
    <2>5. ASSUME NEW i \in 1 .. n PROVE h[i] = AddBody(h[i - 1], q[i], type)
      <3>1. CASE i = n
        BY <3>1
      <3>2. CASE i # n
        <4>1. i \in 1 .. n - 1 /\ i - 1 \in 0 .. n - 1 /\ i - 1 # n /\ i \in 0 .. n
          BY <3>2
        <4> QED
          BY <2>1, <3>2, <4>1
      <3> QED
        BY <3>1, <3>2
    <2>6. Prefix(n, h)
      <3> HIDE DEF h
      <3> QED
        BY <2>4, <2>5
    <2> HIDE DEF Prefix, h
    <2> QED
      BY <2>6
  <1>3. Len(q) \in T
    <2>1. Len(q) \in Nat
      OBVIOUS
    <2> HIDE DEF T
    <2>2. 0 .. Len(q) \subseteq T
      BY <1>1, <1>2, <2>1, UpTo
    <2> QED
      BY <2>1, <2>2
  <1> QED
    BY <1>3 DEF Loop

(* Bodies is the last value of the loop.                                       *)
LEMMA BodiesLoop ==
    ASSUME NEW q \in Seq(Frames), NEW type
    PROVE  \E g : Loop(g, q, type) /\ Bodies(q, type) = g[Len(q)]
  <1> DEFINE Eq(g) == g = [i \in 0 .. Len(q) |->
                 IF i = 0 THEN <<>>
                 ELSE IF q[i].type = type THEN Append(g[i - 1], q[i].body)
                      ELSE g[i - 1]]
  <1>1. PICK h : Loop(h, q, type)
    BY LoopExists
  <1>2. Eq(h)
    <2>1. h \in [0 .. Len(q) -> Seq(AnyBody)]
      BY <1>1 DEF Loop
    <2>2. \A i \in 0 .. Len(q) :
            h[i] = IF i = 0 THEN <<>>
                   ELSE IF q[i].type = type THEN Append(h[i - 1], q[i].body)
                        ELSE h[i - 1]
      <3>1. \A i \in 0 .. Len(q) : i = 0 \/ i \in 1 .. Len(q)
        OBVIOUS
      <3> QED
        BY <1>1, <3>1 DEF Loop, AddBody
    <2> QED
      BY <2>1, <2>2
  <1> DEFINE g == CHOOSE g : Eq(g)
  <1>3. Eq(g)
    <2> HIDE DEF Eq
    <2> QED
      BY <1>2
  <1>4. Bodies(q, type) = g[Len(q)]
    BY DEF Bodies
  <1> HIDE DEF g
  <1>5. g[0] = <<>> /\ \A i \in 1 .. Len(q) : g[i] = AddBody(g[i - 1], q[i], type)
    <2>1. 0 \in 0 .. Len(q) /\ \A i \in 1 .. Len(q) : i \in 0 .. Len(q) /\ i # 0
      OBVIOUS
    <2>2. \A i \in 0 .. Len(q) :
            g[i] = IF i = 0 THEN <<>>
                   ELSE IF q[i].type = type THEN Append(g[i - 1], q[i].body)
                        ELSE g[i - 1]
      BY <1>3
    <2> QED
      BY <2>1, <2>2 DEF AddBody
  <1> DEFINE T == {i \in 0 .. Len(q) : g[i] = h[i]}
  <1>6. 0 \in T /\ \A i \in 1 .. Len(q) : i - 1 \in T => i \in T
    <2>1. \A i \in 1 .. Len(q) : i \in 0 .. Len(q)
      OBVIOUS
    <2> QED
      BY <1>1, <1>5, <2>1 DEF Loop
  <1>7. Len(q) \in T
    <2>1. Len(q) \in Nat
      OBVIOUS
    <2> HIDE DEF T
    <2>2. 0 .. Len(q) \subseteq T
      BY <1>6, <2>1, UpTo
    <2> QED
      BY <2>1, <2>2
  <1> QED
    BY <1>1, <1>4, <1>7

(* An element behind two queues.                                               *)
LEMMA AppendConcat ==
    ASSUME NEW S, NEW p \in Seq(S), NEW q \in Seq(S), NEW e \in S
    PROVE  /\ Append(p \o q, e) = p \o Append(q, e)
           /\ p \o <<e>> = Append(p, e)
  BY SMTT(40)
Later(p, q, e) == Append(p \o q, e) = p \o Append(q, e)
LEMMA AppendLater ==
    ASSUME NEW S, NEW p \in Seq(S), NEW q \in Seq(S), NEW e \in S
    PROVE  Later(p, q, e)
  BY SMTT(40) DEF Later

(* Of two queues one behind the other, the bodies are those of the first and   *)
(* then those of the second.                                                   *)
LEMMA BodiesConcat ==
    ASSUME NEW q \in Seq(Frames), NEW r \in Seq(Frames), NEW type
    PROVE  /\ Bodies(q, type) \in Seq(AnyBody)
           /\ Bodies(q \o r, type) = Bodies(q, type) \o Bodies(r, type)
  <1>1. PICK g : Loop(g, q, type) /\ Bodies(q, type) = g[Len(q)]
    BY BodiesLoop
  <1>2. PICK h : Loop(h, r, type) /\ Bodies(r, type) = h[Len(r)]
    BY BodiesLoop
  <1>3. /\ q \o r \in Seq(Frames) /\ Len(q \o r) = Len(q) + Len(r)
        /\ Len(q) \in Nat /\ Len(r) \in Nat
        /\ \A i \in 1 .. Len(q) : i \in 1 .. Len(q \o r) /\ (q \o r)[i] = q[i]
        /\ \A i \in 1 .. Len(r) : /\ Len(q) + i \in 1 .. Len(q \o r)
                                 /\ (q \o r)[Len(q) + i] = r[i]
    OBVIOUS
  <1>4. PICK k : Loop(k, q \o r, type) /\ Bodies(q \o r, type) = k[Len(q \o r)]
    BY <1>3, BodiesLoop
  <1>5. Len(q) \in 0 .. Len(q) /\ g[Len(q)] \in Seq(AnyBody)
    BY <1>1, <1>3 DEF Loop
  <1>6. k[Len(q)] = g[Len(q)]
    <2> DEFINE T == {i \in 0 .. Len(q) : k[i] = g[i]}
    <2>1. 0 \in T
      BY <1>1, <1>3, <1>4 DEF Loop
    <2>2. \A i \in 1 .. Len(q) : i - 1 \in T => i \in T
      <3>1. ASSUME NEW i \in 1 .. Len(q), k[i - 1] = g[i - 1] PROVE k[i] = g[i]
        BY <1>1, <1>3, <1>4, <3>1 DEF Loop
      <3>2. \A i \in 1 .. Len(q) : i \in 0 .. Len(q)
        OBVIOUS
      <3> QED
        BY <3>1, <3>2
    <2> HIDE DEF T
    <2>3. 0 .. Len(q) \subseteq T
      BY <1>3, <2>1, <2>2, UpTo
    <2> QED
      BY <1>5, <2>3 DEF T
  <1>7. k[Len(q) + Len(r)] = g[Len(q)] \o h[Len(r)]
    <2> DEFINE T == {i \in 0 .. Len(r) : k[Len(q) + i] = g[Len(q)] \o h[i]}
    <2>1. 0 \in T
      <3>1. h[0] = <<>> /\ g[Len(q)] \o <<>> = g[Len(q)]
        BY <1>2, <1>5, ConcatEmptySeq DEF Loop
      <3> QED
        <4>1. Len(q) + 0 = Len(q) /\ 0 \in 0 .. Len(r)
          BY <1>3
        <4> QED
          BY <1>6, <3>1, <4>1
    <2>2. \A i \in 1 .. Len(r) : i - 1 \in T => i \in T
      <3>1. ASSUME NEW i \in 1 .. Len(r), k[Len(q) + (i - 1)] = g[Len(q)] \o h[i - 1]
            PROVE  k[Len(q) + i] = g[Len(q)] \o h[i]
        <4>1. /\ h[i - 1] \in Seq(AnyBody) /\ r[i] \in Frames
              /\ h[i] = AddBody(h[i - 1], r[i], type)
          <5>1. i - 1 \in 0 .. Len(r) /\ r[i] \in Frames
            OBVIOUS
          <5> QED
            BY <1>2, <5>1 DEF Loop
        <4>2. k[Len(q) + i] = AddBody(g[Len(q)] \o h[i - 1], r[i], type)
          <5>1. (Len(q) + i) - 1 = Len(q) + (i - 1)
            BY <1>3
          <5> QED
            BY ZenonT(40), <1>3, <1>4, <3>1, <5>1 DEF Loop
        <4>3. r[i].body \in AnyBody
          BY <4>1, BodyType
        <4>4. Append(g[Len(q)] \o h[i - 1], r[i].body)
                = g[Len(q)] \o Append(h[i - 1], r[i].body)
          <5>1. g[Len(q)] \in Seq(AnyBody) /\ h[i - 1] \in Seq(AnyBody)
            BY <1>5, <4>1
          <5>2. Later(g[Len(q)], h[i - 1], r[i].body)
            BY <4>3, <5>1, AppendLater
          <5> QED
            BY Zenon, <5>2 DEF Later
        <4> QED
          BY <4>1, <4>2, <4>4 DEF AddBody
      <3>2. \A i \in 1 .. Len(r) : i \in 0 .. Len(r)
        OBVIOUS
      <3> QED
        BY <3>1, <3>2
    <2>4. Len(r) \in 0 .. Len(r)
      BY <1>3
    <2> HIDE DEF T
    <2>3. 0 .. Len(r) \subseteq T
      BY <1>3, <2>1, <2>2, UpTo
    <2> QED
      BY <2>3, <2>4 DEF T
  <1> QED
    BY <1>1, <1>2, <1>3, <1>4, <1>5, <1>7

LEMMA BodiesOne ==
    ASSUME NEW f \in Frames, NEW type
    PROVE  /\ Bodies(<<>>, type) = <<>>
           /\ Bodies(<<f>>, type) = IF f.type = type THEN <<f.body>> ELSE <<>>
  <1>1. <<>> \in Seq(Frames) /\ <<f>> \in Seq(Frames)
        /\ Len(<<>>) = 0 /\ Len(<<f>>) = 1 /\ <<f>>[1] = f
    OBVIOUS
  <1>2. Bodies(<<>>, type) = <<>>
    <2>1. PICK g : Loop(g, <<>>, type) /\ Bodies(<<>>, type) = g[0]
      BY <1>1, BodiesLoop
    <2> QED
      BY <2>1 DEF Loop
  <1>3. PICK g : Loop(g, <<f>>, type) /\ Bodies(<<f>>, type) = g[1]
    BY <1>1, BodiesLoop
  <1>4. g[0] = <<>> /\ g[1] = AddBody(g[0], f, type)
    BY <1>1, <1>3 DEF Loop
  <1>5. Append(<<>>, f.body) = <<f.body>>
    OBVIOUS
  <1> QED
    BY <1>2, <1>3, <1>4, <1>5 DEF AddBody

(* A frame arrives behind the others, or is taken from the front.              *)
LEMMA BodiesAppend ==
    ASSUME NEW q \in Seq(Frames), NEW f \in Frames, NEW type
    PROVE  Bodies(Append(q, f), type) =
               IF f.type = type THEN Append(Bodies(q, type), f.body)
               ELSE Bodies(q, type)
  <1>1. Append(q, f) = q \o <<f>> /\ <<f>> \in Seq(Frames)
    OBVIOUS
  <1>2. /\ Bodies(q, type) \in Seq(AnyBody)
        /\ Bodies(q \o <<f>>, type) = Bodies(q, type) \o Bodies(<<f>>, type)
    BY <1>1, BodiesConcat
  <1>3. Bodies(q, type) \o <<>> = Bodies(q, type)
    BY <1>2, ConcatEmptySeq
  <1>4. f.body \in AnyBody
    BY BodyType
  <1>5. Bodies(q, type) \o <<f.body>> = Append(Bodies(q, type), f.body)
    BY <1>2, <1>4, AppendConcat
  <1> QED
    BY <1>1, <1>2, <1>3, <1>5, BodiesOne

LEMMA BodiesTail ==
    ASSUME NEW q \in Seq(Frames), q # <<>>, NEW type
    PROVE  /\ Head(q) \in Frames /\ Tail(q) \in Seq(Frames)
           /\ Bodies(Tail(q), type) \in Seq(AnyBody)
           /\ Bodies(q, type) =
                 IF Head(q).type = type
                 THEN <<Head(q).body>> \o Bodies(Tail(q), type)
                 ELSE Bodies(Tail(q), type)
  <1>1. /\ Head(q) \in Frames /\ Tail(q) \in Seq(Frames)
        /\ <<Head(q)>> \in Seq(Frames) /\ q = <<Head(q)>> \o Tail(q)
    OBVIOUS
  <1>2. /\ Bodies(Tail(q), type) \in Seq(AnyBody)
        /\ Bodies(q, type) = Bodies(<<Head(q)>>, type) \o Bodies(Tail(q), type)
    <2> DEFINE hd == <<Head(q)>>  tl == Tail(q)
    <2>1. hd \in Seq(Frames) /\ tl \in Seq(Frames) /\ q = hd \o tl
      BY <1>1
    <2> HIDE DEF hd, tl
    <2>2. Bodies(tl, type) \in Seq(AnyBody) /\ Bodies(hd \o tl, type) = Bodies(hd, type) \o Bodies(tl, type)
      BY <2>1, BodiesConcat
    <2> QED
      BY <2>1, <2>2 DEF hd, tl
  <1>3. <<>> \o Bodies(Tail(q), type) = Bodies(Tail(q), type)
    BY <1>2, ConcatEmptySeq
  <1> QED
    BY <1>1, <1>2, <1>3, BodiesOne

(* The bodies of messages are messages, those of acknowledgements are numbers. *)
LEMMA BodiesType ==
    ASSUME NEW q \in Seq(Frames)
    PROVE  Data(q) \in Seq(Message) /\ Acks(q) \in Seq(0 .. MaxMsgs)
  <1>1. ASSUME NEW type, NEW V, \A f \in Frames : f.type = type => f.body \in V
        PROVE  Bodies(q, type) \in Seq(V)
    <2>1. PICK g : Loop(g, q, type) /\ Bodies(q, type) = g[Len(q)]
      BY BodiesLoop
    <2> DEFINE T == {i \in 0 .. Len(q) : g[i] \in Seq(V)}
    <2>2. 0 \in T
      BY <2>1 DEF Loop
    <2>3. \A i \in 1 .. Len(q) : i - 1 \in T => i \in T
      <3>1. ASSUME NEW i \in 1 .. Len(q), g[i - 1] \in Seq(V) PROVE g[i] \in Seq(V)
        <4>1. q[i] \in Frames /\ g[i] = AddBody(g[i - 1], q[i], type)
          BY <2>1 DEF Loop
        <4> QED
          BY <1>1, <3>1, <4>1 DEF AddBody
      <3>2. \A i \in 1 .. Len(q) : i \in 0 .. Len(q)
        OBVIOUS
      <3> QED
        BY <3>1, <3>2
    <2>4. Len(q) \in Nat
      OBVIOUS
    <2> HIDE DEF T
    <2>5. 0 .. Len(q) \subseteq T
      BY <2>2, <2>3, <2>4, UpTo
    <2> QED
      BY <2>1, <2>4, <2>5 DEF T
  <1>2. /\ \A f \in Frames : f.type = "MSG" => f.body \in Message
        /\ \A f \in Frames : f.type = "ACK" => f.body \in 0 .. MaxMsgs
    BY DEF Frames
  <1> QED
    BY <1>1, <1>2 DEF Data, Acks

LEMMA TwoSides ==
    ASSUME NEW s \in Side
    PROVE  /\ Peer(s) \in Side /\ Peer(s) # s /\ Peer(Peer(s)) = s
           /\ \A u \in Side : u = s \/ u = Peer(s)
  BY DEF Side, Peer

(* What a frame that is sent, or taken, changes on the network.                *)
LEMMA SendAllBodies ==
    ASSUME TypeOK, NEW s \in Side, NEW f \in Frames, SendAll(s, f), NEW type
    PROVE  /\ Bodies(sock'[Peer(s)], type) =
                 IF f.type = type THEN Append(Bodies(sock[Peer(s)], type), f.body)
                 ELSE Bodies(sock[Peer(s)], type)
           /\ sock'[s] = sock[s]
  <1>1. /\ sock \in [Side -> Seq(Frames)] /\ Peer(s) \in Side /\ Peer(s) # s
        /\ sock[Peer(s)] \in Seq(Frames)
    BY PeerType DEF TypeOK
  <1>2. sock'[Peer(s)] = Append(sock[Peer(s)], f) /\ sock'[s] = sock[s]
    BY <1>1 DEF SendAll
  <1> QED
    BY <1>1, <1>2, BodiesAppend

LEMMA SendAllOfType ==
    ASSUME TypeOK, NEW s \in Side, NEW f \in Frames, SendAll(s, f)
    PROVE  /\ Bodies(sock'[Peer(s)], f.type) = Append(Bodies(sock[Peer(s)], f.type), f.body)
           /\ sock'[s] = sock[s]
  BY SendAllBodies
LEMMA SendAllOther ==
    ASSUME TypeOK, NEW s \in Side, NEW f \in Frames, SendAll(s, f), NEW type, type # f.type
    PROVE  Bodies(sock'[Peer(s)], type) = Bodies(sock[Peer(s)], type)
  BY SendAllBodies

LEMMA SendShortBodies ==
    ASSUME TypeOK, NEW s \in Side, SendShort(s), NEW type, type # "PART"
    PROVE  \A u \in Side : Bodies(sock'[u], type) = Bodies(sock[u], type)
  <1>1. /\ sock \in [Side -> Seq(Frames)] /\ Peer(s) \in Side /\ Peer(s) # s
        /\ sock[Peer(s)] \in Seq(Frames)
    BY PeerType DEF TypeOK
  <1>2. CASE UNCHANGED sock
    BY <1>2
  <1>3. CASE sock' = [sock EXCEPT ![Peer(s)] = Append(@, Frame("PART", 0))]
    <2>1. Frame("PART", 0) \in Frames /\ Frame("PART", 0).type = "PART"
      BY FrameTypes DEF Frame
    <2>2. Bodies(Append(sock[Peer(s)], Frame("PART", 0)), type)
            = Bodies(sock[Peer(s)], type)
      BY <1>1, <2>1, BodiesAppend
    <2>3. /\ sock'[Peer(s)] = Append(sock[Peer(s)], Frame("PART", 0))
          /\ \A u \in Side \ {Peer(s)} : sock'[u] = sock[u]
      BY <1>1, <1>3
    <2> QED
      BY <2>2, <2>3
  <1> QED
    BY <1>2, <1>3 DEF SendShort

LEMMA ReadFrameBodies ==
    ASSUME TypeOK, NEW s \in Side, NEW kind, ReadFrame(s, kind), NEW type
    PROVE  /\ Head(sock[s]) \in Frames /\ Head(sock[s]).type = kind
           /\ Bodies(sock[s], type) =
                 IF kind = type THEN <<Head(sock[s]).body>> \o Bodies(sock'[s], type)
                 ELSE Bodies(sock'[s], type)
           /\ sock'[Peer(s)] = sock[Peer(s)]
  <1>1. /\ sock \in [Side -> Seq(Frames)] /\ Peer(s) \in Side /\ Peer(s) # s
        /\ sock[s] \in Seq(Frames)
    BY PeerType DEF TypeOK
  <1>2. /\ sock[s] # <<>> /\ Head(sock[s]).type = kind
        /\ sock' = [sock EXCEPT ![s] = Tail(sock[s])]
    BY DEF ReadFrame, Arrived
  <1>3. sock'[s] = Tail(sock[s]) /\ sock'[Peer(s)] = sock[Peer(s)]
    BY <1>1, <1>2
  <1> QED
    BY <1>1, <1>2, <1>3, BodiesTail

-------------------------------------------------------------------------------
(* protocol.c implements a pair of FIFO channels.                              *)

(* A thread that ended handle_connection has destroyed its handler, no other.  *)
EndsOnce == \A s \in Side : freed[s] <=> hpc[s] = "dead"

LEMMA EndsStep == TypeOK /\ EndsOnce /\ [Next]_vars => EndsOnce'
  <1> SUFFICES ASSUME TypeOK, EndsOnce, [Next]_vars PROVE EndsOnce'
    OBVIOUS
  <1> USE DEF EndsOnce
  <1>0. hpc \in [Side -> PC] /\ freed \in [Side -> BOOLEAN]
    BY DEF TypeOK
  <1>1. CASE UNCHANGED <<freed, hpc>>
    BY <1>1
  <1>2. ASSUME NEW s \in Side, NEW where \in PC \ {"dead"},
               hpc[s] # "dead", goto(s, where), UNCHANGED freed
        PROVE  EndsOnce'
    BY <1>0, <1>2 DEF goto
  <1>3. ASSUME NEW s \in Side, handler_cleanup(s) PROVE EndsOnce'
    BY <1>0, <1>3 DEF handler_cleanup, goto
  <1>4. ASSUME NEW s \in Side, handle_connection(s), ~handler_cleanup(s)
        PROVE  /\ hpc[s] # "dead" /\ UNCHANGED freed
               /\ \E where \in PC \ {"dead"} : goto(s, where)
    <2>1. ASSUME Select(s) \/ SkipRead(s) \/ ReadKeepAlive(s) \/ ReadMessage(s)
                 \/ ReadWakeup(s) \/ LockOut(s) \/ EndWrite(s)
          PROVE  /\ hpc[s] # "dead" /\ UNCHANGED freed
                 /\ \E where \in PC \ {"dead"} : goto(s, where)
      BY <2>1 DEF Select, SkipRead, ReadKeepAlive, ReadMessage, ReadFrame, EndRead,
         ReadWakeup, LockOut, EndWrite, PC, life
    <2>2. ASSUME ReadAck(s) \/ ReadShort(s) \/ write_acknowledge(s)
          PROVE  /\ hpc[s] # "dead" /\ UNCHANGED freed
                 /\ \E where \in PC \ {"dead"} : goto(s, where)
      BY <2>2 DEF ReadAck, ReadFrame, EndRead, Fail, ReadShort, write_acknowledge, PC
    <2>3. ASSUME WriteMessage(s) \/ Expire(s) \/ EndTurn(s)
          PROVE  /\ hpc[s] # "dead" /\ UNCHANGED freed
                 /\ \E where \in PC \ {"dead"} : goto(s, where)
      BY <2>3 DEF WriteMessage, Expire, EndTurn, TestKill, Fail, PC
    <2> QED
      BY <1>4, <2>1, <2>2, <2>3 DEF handle_connection, read_message, write_messages
  <1>5. ASSUME NEW s \in Side, handle_connection(s) PROVE EndsOnce'
    BY <1>2, <1>3, <1>4, <1>5
  <1>6. ASSUME NEW s \in Side, NEW t \in Senders[s], add_message_step(s, t)
        PROVE  UNCHANGED <<freed, hpc>>
    BY <1>6 DEF add_message_step, add_message, add_message_signal, life
  <1>7. ASSUME NEW s \in Side,
               get_message(s) \/ get_message_timeout(s) \/ end_handler(s) \/ close_fd(s)
        PROVE  UNCHANGED <<freed, hpc>>
    BY <1>7 DEF get_message, get_message_lock, get_message_pop, get_message_wait,
       get_message_timeout, end_handler, close_fd, life
  <1>8. CASE UNCHANGED vars
    BY <1>1, <1>8 DEF vars, life
  <1> QED
    BY <1>1, <1>5, <1>6, <1>7, <1>8 DEF Next

Taken(s) == {m \in Senders[s] \X (1 .. MaxMsgs) : m[2] <= nsent[m[1]]}
Undelivered(s) == in_queue[Peer(s)] \o Data(sock[Peer(s)]) \o out_queue[s]

LEMMA ChannelVars ==
    Abstract!channelVars = <<[s \in Side |-> Taken(s)],
                             [s \in Side |-> Undelivered(s)],
                             [s \in Side |-> ~freed[s]]>>
  BY DEF Abstract!channelVars, Taken, Undelivered

(* The steps that the callers of add_message and get_message do not see.       *)
Quiet ==
    /\ UNCHANGED <<nsent, freed>>
    /\ \A s \in Side : Undelivered(s)' = Undelivered(s)

LEMMA QuietStutters == ASSUME Quiet PROVE UNCHANGED Abstract!channelVars
  BY ChannelVars DEF Quiet, Abstract!channelVars, Taken, Undelivered

LEMMA QueuesType ==
    ASSUME TypeOK, NEW s \in Side
    PROVE  /\ in_queue[Peer(s)] \in Seq(Message) /\ out_queue[s] \in Seq(Message)
           /\ sock[Peer(s)] \in Seq(Frames) /\ Data(sock[Peer(s)]) \in Seq(Message)
           /\ Undelivered(s) \in Seq(Message)
  <1>1. /\ in_queue[Peer(s)] \in Seq(Message) /\ out_queue[s] \in Seq(Message)
        /\ sock[Peer(s)] \in Seq(Frames)
    BY PeerType DEF TypeOK
  <1>2. Data(sock[Peer(s)]) \in Seq(Message)
    BY <1>1, BodiesType
  <1> QED
    BY <1>1, <1>2, ConcatProperties DEF Undelivered

(* Frames other than messages come and go unseen.                              *)
LEMMA OtherFrames ==
    ASSUME TypeOK, UNCHANGED <<in_queue, out_queue, nsent, freed>>,
           \A s \in Side : Data(sock'[s]) = Data(sock[s])
    PROVE  Quiet
  <1> SUFFICES ASSUME NEW s \in Side PROVE Undelivered(s)' = Undelivered(s)
    BY DEF Quiet
  <1> QED
    BY TwoSides DEF Undelivered

(* The four steps of Channel, from what they do at each side.                  *)
LEMMA IsSend ==
    ASSUME NEW s \in Side, ~freed[s], NEW m \in Message, m \notin Taken(s),
           Taken(s)' = Taken(s) \cup {m},
           Undelivered(s)' = Append(Undelivered(s), m),
           \A u \in Side \ {s} : UNCHANGED <<Taken(u), Undelivered(u)>>,
           UNCHANGED freed
    PROVE  Abstract!Send(s)
  <1> DEFINE T == [u \in Side |-> Taken(u)]  U == [u \in Side |-> Undelivered(u)]
  <1>1. T' = [T EXCEPT ![s] = @ \cup {m}] /\ U' = [U EXCEPT ![s] = Append(@, m)]
    <2>1. T[s] = Taken(s) /\ U[s] = Undelivered(s)
      OBVIOUS
    <2>2. T' = [u \in Side |-> IF u = s THEN Taken(s) \cup {m} ELSE Taken(u)]
      OBVIOUS
    <2>3. U' = [u \in Side |-> IF u = s THEN Append(Undelivered(s), m)
                               ELSE Undelivered(u)]
      OBVIOUS
    <2> QED
      BY <2>1, <2>2, <2>3
  <1>2. m \in Message \ T[s]
    OBVIOUS
  <1>3. [u \in Side |-> ~freed[u]][s] /\ UNCHANGED [u \in Side |-> ~freed[u]]
    OBVIOUS
  <1> QED
    BY <1>1, <1>2, <1>3 DEF Abstract!Send, Taken, Undelivered

LEMMA IsReceive ==
    ASSUME NEW s \in Side, ~freed[s], Undelivered(Peer(s)) # <<>>,
           Undelivered(Peer(s))' = Tail(Undelivered(Peer(s))),
           UNCHANGED Undelivered(s), UNCHANGED <<nsent, freed>>
    PROVE  Abstract!Receive(s)
  <1> DEFINE T == [u \in Side |-> Taken(u)]  U == [u \in Side |-> Undelivered(u)]
  <1>1. \A u \in Side : u = s \/ u = Peer(s)
    BY TwoSides
  <1>2. /\ Peer(s) \in Side /\ Peer(s) # s
        /\ U[Peer(s)] = Undelivered(Peer(s)) /\ U[s] = Undelivered(s)
    BY TwoSides
  <1>3. U' = [U EXCEPT ![Peer(s)] = Tail(@)]
    <2>1. U' = [u \in Side |-> IF u = Peer(s) THEN Tail(Undelivered(Peer(s)))
                               ELSE Undelivered(u)]
      BY <1>1, <1>2
    <2> QED
      BY <1>2, <2>1
  <1>4. [u \in Side |-> ~freed[u]][s] /\ UNCHANGED [u \in Side |-> ~freed[u]]
        /\ UNCHANGED T
    BY DEF Taken
  <1> QED
    BY <1>2, <1>3, <1>4 DEF Abstract!Receive, Taken, Undelivered

LEMMA IsBreak ==
    ASSUME NEW s \in Side, freed \in [Side -> BOOLEAN], ~freed[s],
           freed' = [freed EXCEPT ![s] = TRUE],
           \A u \in Side : UNCHANGED Undelivered(u), UNCHANGED nsent
    PROVE  Abstract!Break(s)
  BY DEF Abstract!Break, Taken, Undelivered

-------------------------------------------------------------------------------
LEMMA AddSends ==
    ASSUME TypeOK, NEW s \in Side, NEW t \in Senders[s], add_message(s, t)
    PROVE  Abstract!Send(s)
  <1> DEFINE m == <<t, nsent[t] + 1>>
  <1>1. /\ t \in Thread /\ nsent \in [Thread -> 0 .. MaxMsgs] /\ nsent[t] < MaxMsgs
        /\ MaxMsgs \in Nat
    BY ThreadType, ProtocolAssumption DEF add_message, TypeOK
  <1>2. /\ nsent[t] \in 0 .. MaxMsgs /\ nsent[t] + 1 \in 1 .. MaxMsgs
        /\ m \in Message
    BY <1>1 DEF Message
  <1>3. m \notin Taken(s)
    BY <1>2 DEF Taken
  <1>4. /\ nsent' = [nsent EXCEPT ![t] = nsent[t] + 1] /\ ~freed[s]
        /\ out_queue' = [out_queue EXCEPT ![s] = Append(out_queue[s], m)]
        /\ UNCHANGED <<in_queue, sock, freed>>
    BY DEF add_message, inbox, life
  <1>5. nsent'[t] = nsent[t] + 1 /\ \A x \in Thread \ {t} : nsent'[x] = nsent[x]
    BY <1>1, <1>4
  <1>6. Taken(s)' = Taken(s) \cup {m}
    <2>1. ASSUME NEW x \in Senders[s] \X (1 .. MaxMsgs)
          PROVE  x[2] <= nsent'[x[1]] <=> x[2] <= nsent[x[1]] \/ x = m
      <3>1. x[1] \in Thread /\ x[2] \in 1 .. MaxMsgs /\ x = <<x[1], x[2]>>
            /\ nsent[x[1]] \in 0 .. MaxMsgs
        BY <1>1, ThreadType
      <3>2. CASE x[1] = t
        <4>1. nsent'[x[1]] = nsent[t] + 1 /\ (x = m <=> x[2] = nsent[t] + 1)
          BY <1>5, <3>1, <3>2
        <4> QED
          BY <1>2, <3>1, <3>2, <4>1
      <3>3. CASE x[1] # t
        BY <1>5, <3>1, <3>3
      <3> QED
        BY <3>2, <3>3
    <2>2. m \in Senders[s] \X (1 .. MaxMsgs)
      BY <1>2
    <2> HIDE DEF m
    <2> QED
      BY <2>1, <2>2 DEF Taken
  <1>7. ASSUME NEW u \in Side \ {s} PROVE UNCHANGED <<Taken(u), Undelivered(u)>>
    <2>1. \A x \in Senders[u] : x \in Thread /\ x # t
      BY ThreadType, Disjoint
    <2>2. Taken(u)' = Taken(u)
      BY <1>5, <2>1 DEF Taken
    <2>3. out_queue'[u] = out_queue[u]
      BY <1>4 DEF TypeOK
    <2> QED
      BY <1>4, <2>2, <2>3 DEF Undelivered
  <1>8. Undelivered(s)' = Append(Undelivered(s), m)
    <2>1. out_queue'[s] = Append(out_queue[s], m)
      BY <1>4 DEF TypeOK
    <2>2. PICK p \in Seq(Message) : p = in_queue[Peer(s)] \o Data(sock[Peer(s)])
      BY QueuesType, ConcatProperties
    <2>3. PICK q \in Seq(Message) : q = out_queue[s]
      BY QueuesType
    <2>4. PICK e \in Message : e = m
      BY <1>2
    <2>5. Append(p \o q, e) = p \o Append(q, e)
      BY SMTT(40)
    <2> QED
      BY <1>4, <2>1, <2>2, <2>3, <2>4, <2>5 DEF Undelivered
  <1> HIDE DEF m
  <1> QED
    BY <1>2, <1>3, <1>4, <1>6, <1>7, <1>8, IsSend

LEMMA TailConcat ==
    ASSUME NEW S, NEW p \in Seq(S), NEW q \in Seq(S), NEW r \in Seq(S), p # <<>>
    PROVE  p \o q \o r # <<>> /\ Tail(p \o q \o r) = Tail(p) \o q \o r
  <1>1. Head(p) \in S /\ Tail(p) \in Seq(S) /\ p = <<Head(p)>> \o Tail(p)
    OBVIOUS
  <1>2. PICK v \in Seq(S) : v = q \o r
    BY ConcatProperties
  <1>3. p \o q \o r = p \o v
    BY <1>2, ConcatAssociative
  <1>5. Tail(p) \o q \o r = Tail(p) \o v
    <2>1. PICK w \in Seq(S) : w = Tail(p)
      BY <1>1
    <2>2. w \o q \o r = w \o (q \o r)
      BY SMTT(30), ConcatAssociative
    <2> QED
      BY <1>2, <2>1, <2>2
  <1>4. p \o v # <<>> /\ Tail(p \o v) = Tail(p) \o v
    OBVIOUS
  <1> QED
    BY <1>3, <1>4, <1>5

LEMMA PopReceives ==
    ASSUME TypeOK, NEW s \in Side, get_message_pop(s)
    PROVE  Abstract!Receive(s)
  <1>1. /\ ~freed[s] /\ in_queue[s] # <<>>
        /\ in_queue' = [in_queue EXCEPT ![s] = Tail(in_queue[s])]
        /\ UNCHANGED <<out_queue, sock, freed, nsent>>
    BY DEF get_message_pop, queues, life
  <1>2. Peer(s) \in Side /\ Peer(s) # s /\ Peer(Peer(s)) = s
    BY TwoSides
  <1>3. in_queue'[s] = Tail(in_queue[s]) /\ in_queue'[Peer(s)] = in_queue[Peer(s)]
    BY <1>1, <1>2 DEF TypeOK
  <1>4. /\ Undelivered(Peer(s)) # <<>>
        /\ Undelivered(Peer(s))' = Tail(Undelivered(Peer(s)))
    <2>1. PICK p \in Seq(Message) : p = in_queue[s]
      BY DEF TypeOK
    <2>2. PICK q \in Seq(Message) : q = Data(sock[s])
      BY <1>2, QueuesType
    <2>3. PICK r \in Seq(Message) : r = out_queue[Peer(s)]
      BY <1>2 DEF TypeOK
    <2>4. p \o q \o r # <<>> /\ Tail(p \o q \o r) = Tail(p) \o q \o r
      <3>1. p # <<>>
        BY <1>1, <2>1
      <3> QED
        BY <3>1, TailConcat
    <2> QED
      BY <1>1, <1>2, <1>3, <2>1, <2>2, <2>3, <2>4 DEF Undelivered
  <1>5. Undelivered(s)' = Undelivered(s)
    BY <1>1, <1>3 DEF Undelivered
  <1> QED
    BY <1>1, <1>4, <1>5, IsReceive

(* A message goes from the network to in_queue.                                *)
LEMMA ReadStutters ==
    ASSUME TypeOK, NEW s \in Side, ReadMessage(s)
    PROVE  Quiet
  <1>1. /\ ReadFrame(s, "MSG")
        /\ in_queue' = [in_queue EXCEPT ![s] = Append(in_queue[s], Head(sock[s]).body)]
        /\ UNCHANGED <<out_queue, freed, nsent>>
    BY DEF ReadMessage, queues, life
  <1>2. Peer(s) \in Side /\ Peer(s) # s /\ Peer(Peer(s)) = s
    BY TwoSides
  <1>3. /\ Head(sock[s]) \in Frames /\ Head(sock[s]).type = "MSG"
        /\ Data(sock[s]) = <<Head(sock[s]).body>> \o Data(sock'[s])
        /\ sock'[Peer(s)] = sock[Peer(s)]
    BY <1>1, ReadFrameBodies DEF Data
  <1>4. PICK e \in Message : e = Head(sock[s]).body
    BY <1>3, FrameTypes
  <1>5. /\ in_queue'[s] = Append(in_queue[s], e)
        /\ in_queue'[Peer(s)] = in_queue[Peer(s)]
    BY <1>1, <1>2, <1>4 DEF TypeOK
  <1>6. Undelivered(s)' = Undelivered(s)
    BY <1>1, <1>3, <1>5 DEF Undelivered
  <1>7. Undelivered(Peer(s))' = Undelivered(Peer(s))
    <2>1. PICK p \in Seq(Message) : p = in_queue[s]
      BY DEF TypeOK
    <2>2. PICK q \in Seq(Message) : q = Data(sock'[s])
      <3>1. sock'[s] \in Seq(Frames)
        <4>1. sock[s] \in Seq(Frames) /\ sock[s] # <<>> /\ sock'[s] = Tail(sock[s])
          BY <1>1 DEF ReadFrame, Arrived, TypeOK
        <4> QED
          BY <4>1
      <3> QED
        BY <3>1, BodiesType
    <2>3. Append(p, e) \o q = p \o (<<e>> \o q)
      BY SMTT(30)
    <2> QED
      BY <1>1, <1>2, <1>3, <1>4, <1>5, <2>1, <2>2, <2>3 DEF Undelivered
  <1> QED
    BY <1>1, <1>6, <1>7, TwoSides DEF Quiet

(* A message goes from out_queue to the network, or stays.                     *)
LEMMA WriteStutters ==
    ASSUME TypeOK, NEW s \in Side, WriteMessage(s)
    PROVE  Quiet
  <1>1. UNCHANGED <<in_queue, freed, nsent>> /\ out_queue[s] # <<>>
    BY DEF WriteMessage, inbox
  <1>2. Peer(s) \in Side /\ Peer(s) # s /\ Peer(Peer(s)) = s
    BY TwoSides
  <1>3. CASE SendShort(s) /\ UNCHANGED out_queue
    BY <1>1, <1>3, SendShortBodies, OtherFrames DEF Data
  <1>4. CASE /\ SendAll(s, Frame("MSG", Head(out_queue[s])))
             /\ out_queue' = [out_queue EXCEPT ![s] = Tail(out_queue[s])]
    <2>1. PICK q \in Seq(Message) : q = out_queue[s]
      BY DEF TypeOK
    <2>0. q # <<>> /\ Head(q) \in Message /\ Tail(q) \in Seq(Message)
      BY <1>1, <2>1, TailType
    <2>2. PICK e \in Message : e = Head(q)
      BY <2>0
    <2>3. PICK r \in Seq(Message) : r = Tail(q)
      BY <2>0
    <2>4. /\ Frame("MSG", e) \in Frames /\ Frame("MSG", e).type = "MSG"
          /\ Frame("MSG", e).body = e
      BY FrameTypes DEF Frame
    <2>5. Data(sock'[Peer(s)]) = Append(Data(sock[Peer(s)]), e) /\ sock'[s] = sock[s]
      BY ZenonT(40), <1>4, <2>1, <2>2, <2>4, SendAllBodies DEF Data
    <2>6. out_queue'[s] = r /\ out_queue'[Peer(s)] = out_queue[Peer(s)]
      BY <1>2, <1>4, <2>1, <2>3 DEF TypeOK
    <2>7. q = <<e>> \o r
      BY <2>0, <2>2, <2>3
    <2>8. PICK p \in Seq(Message) : p = Data(sock[Peer(s)])
      BY QueuesType
    <2>9. PICK o \in Seq(Message) : o = in_queue[Peer(s)]
      BY QueuesType
    <2>10. o \o Append(p, e) \o r = o \o p \o (<<e>> \o r)
      <3>1. PICK v \in Seq(Message) : v = o \o p
        BY ConcatProperties
      <3>2. o \o Append(p, e) = Append(o \o p, e)
        OBVIOUS
      <3>3. Append(v, e) \o r = v \o (<<e>> \o r)
        OBVIOUS
      <3> QED
        BY <3>1, <3>2, <3>3
    <2>11. Undelivered(s)' = Undelivered(s)
      BY <1>1, <2>1, <2>5, <2>6, <2>7, <2>8, <2>9, <2>10 DEF Undelivered
    <2>12. Undelivered(Peer(s))' = Undelivered(Peer(s))
      BY <1>1, <1>2, <2>5, <2>6 DEF Undelivered
    <2> QED
      BY <1>1, <2>11, <2>12, TwoSides DEF Quiet
  <1> QED
    BY <1>3, <1>4 DEF WriteMessage

LEMMA CleanupBreaks ==
    ASSUME TypeOK, EndsOnce, NEW s \in Side, handler_cleanup(s)
    PROVE  Abstract!Break(s)
  <1>1. freed \in [Side -> BOOLEAN] /\ ~freed[s]
    BY DEF TypeOK, EndsOnce, handler_cleanup
  <1>2. /\ freed' = [freed EXCEPT ![s] = TRUE]
        /\ UNCHANGED <<in_queue, out_queue, sock, nsent>>
    BY DEF handler_cleanup, queues, inbox
  <1>3. \A u \in Side : Undelivered(u)' = Undelivered(u)
    BY <1>2 DEF Undelivered
  <1> QED
    BY <1>1, <1>2, <1>3, IsBreak

(* Every other step leaves the messages where they are.                        *)
LEMMA OthersStutter ==
    ASSUME TypeOK, NEW s \in Side,
           \/ \E t \in Senders[s] : add_message_signal(s, t)
           \/ get_message_lock(s) \/ get_message_wait(s) \/ get_message_timeout(s)
           \/ Select(s) \/ SkipRead(s) \/ ReadAck(s) \/ ReadKeepAlive(s)
           \/ ReadShort(s) \/ write_acknowledge(s) \/ ReadWakeup(s) \/ LockOut(s)
           \/ EndWrite(s) \/ Expire(s) \/ EndTurn(s)
           \/ end_handler(s) \/ close_fd(s)
    PROVE  Quiet
  <1> USE DEF queues, inbox, life, conn
  <1>1. ASSUME UNCHANGED <<in_queue, out_queue, nsent, freed>>, UNCHANGED sock
        PROVE  Quiet
    BY <1>1, OtherFrames
  <1>2. ASSUME UNCHANGED <<in_queue, out_queue, nsent, freed>>,
               NEW kind, ReadFrame(s, kind), kind # "MSG"
        PROVE  Quiet
    <2>1. sock'[Peer(s)] = sock[Peer(s)] /\ Data(sock[s]) = Data(sock'[s])
      BY ZenonT(40), <1>2, ReadFrameBodies DEF Data
    <2> QED
      BY <1>2, <2>1, TwoSides, OtherFrames
  <1>3. ASSUME UNCHANGED <<in_queue, out_queue, nsent, freed>>,
               NEW f \in Frames, SendAll(s, f), f.type # "MSG"
        PROVE  Quiet
    <2>1. sock'[s] = sock[s] /\ Data(sock'[Peer(s)]) = Data(sock[Peer(s)])
      BY <1>3, SendAllBodies DEF Data
    <2> QED
      BY <1>3, <2>1, TwoSides, OtherFrames
  <1>4. ASSUME UNCHANGED <<in_queue, out_queue, nsent, freed>>, SendShort(s)
        PROVE  Quiet
    BY <1>4, SendShortBodies, OtherFrames DEF Data
  <1>5. ASSUME NEW t \in Senders[s], add_message_signal(s, t) PROVE Quiet
    BY <1>1, <1>5 DEF add_message_signal
  <1>6. CASE get_message_lock(s) \/ get_message_wait(s) \/ get_message_timeout(s)
    BY <1>1, <1>6 DEF get_message_lock, get_message_wait, get_message_timeout
  <1>7. CASE Select(s) \/ SkipRead(s) \/ ReadShort(s)
    BY <1>1, <1>7 DEF Select, SkipRead, ReadShort
  <1>8. CASE ReadAck(s)
    BY <1>2, <1>8 DEF ReadAck
  <1>9. CASE ReadKeepAlive(s)
    BY <1>2, <1>9 DEF ReadKeepAlive
  <1>10. CASE write_acknowledge(s)
    <2>1. to_ack[s] \in 0 .. MaxMsgs
      BY DEF TypeOK
    <2>2. Frame("ACK", to_ack[s]) \in Frames /\ Frame("ACK", to_ack[s]).type # "MSG"
      BY <2>1, FrameTypes DEF Frame
    <2> QED
      BY <1>3, <1>4, <1>10, <2>2 DEF write_acknowledge
  <1>11. CASE EndTurn(s)
    <2>1. Frame("KA", 0) \in Frames /\ Frame("KA", 0).type # "MSG"
      BY FrameTypes DEF Frame
    <2> QED
      BY <1>1, <1>3, <1>4, <1>11, <2>1 DEF EndTurn
  <1>12. CASE ReadWakeup(s) \/ LockOut(s) \/ EndWrite(s) \/ Expire(s)
    BY <1>1, <1>12 DEF ReadWakeup, LockOut, EndWrite, Expire
  <1>13. CASE end_handler(s) \/ close_fd(s)
    BY <1>1, <1>13 DEF end_handler, close_fd
  <1> QED
    BY <1>5, <1>6, <1>7, <1>8, <1>9, <1>10, <1>11, <1>12, <1>13

LEMMA ChannelStep ==
    TypeOK /\ EndsOnce /\ [Next]_vars
        => [Abstract!Next]_(Abstract!channelVars)
  <1> SUFFICES ASSUME TypeOK, EndsOnce, [Next]_vars
               PROVE  \/ \E s \in Side : \/ Abstract!Send(s) \/ Abstract!Receive(s)
                                         \/ Abstract!Break(s)
                      \/ Quiet
    BY QuietStutters DEF Abstract!Next
  <1>1. CASE UNCHANGED vars
    <2>1. UNCHANGED <<in_queue, out_queue, nsent, freed, sock>>
      BY <1>1 DEF vars, queues, inbox, life
    <2> QED
      BY <2>1, OtherFrames
  <1>2. ASSUME NEW s \in Side, NEW t \in Senders[s], add_message_step(s, t)
        PROVE  Abstract!Send(s) \/ Quiet
    BY <1>2, AddSends, OthersStutter DEF add_message_step
  <1>3. ASSUME NEW s \in Side,
               get_message(s) \/ get_message_timeout(s) \/ end_handler(s) \/ close_fd(s)
        PROVE  Abstract!Receive(s) \/ Quiet
    BY <1>3, PopReceives, OthersStutter DEF get_message
  <1>4. ASSUME NEW s \in Side, handle_connection(s)
        PROVE  Abstract!Break(s) \/ Quiet
    BY <1>4, CleanupBreaks, ReadStutters, WriteStutters, OthersStutter
       DEF handle_connection, read_message, write_messages
  <1> QED
    BY <1>1, <1>2, <1>3, <1>4 DEF Next

LEMMA ChannelInit == Init => Abstract!Init
  <1> SUFFICES ASSUME Init PROVE Abstract!Init
    OBVIOUS
  <1>1. \A s \in Side : Taken(s) = {}
    <2>1. \A s \in Side : \A t \in Senders[s] : nsent[t] = 0
      BY ThreadType DEF Init
    <2>2. \A s \in Side : \A x \in Senders[s] \X (1 .. MaxMsgs) :
            x[1] \in Senders[s] /\ x[2] \in 1 .. MaxMsgs
      OBVIOUS
    <2>3. \A s \in Side : \A x \in Senders[s] \X (1 .. MaxMsgs) : ~(x[2] <= nsent[x[1]])
      BY <2>1, <2>2, ProtocolAssumption
    <2> QED
      BY <2>3 DEF Taken
  <1>2. \A s \in Side : Undelivered(s) = <<>>
    <2>1. \A s \in Side : in_queue[Peer(s)] = <<>> /\ sock[Peer(s)] = <<>>
                          /\ out_queue[s] = <<>>
      BY PeerType DEF Init, init_handler
    <2>2. Data(<<>>) = <<>>
      BY FrameTypes, BodiesOne DEF Data
    <2> QED
      BY <2>1, <2>2 DEF Undelivered
  <1>3. \A s \in Side : ~freed[s]
    BY DEF Init
  <1> QED
    BY <1>1, <1>2, <1>3 DEF Abstract!Init, Taken, Undelivered

(* protocol.c implements a pair of FIFO channels: between the two programs, in  *)
(* each direction, what add_message took comes out of get_message in that      *)
(* order, each message once, whatever fails at either end and whenever.        *)
THEOREM IsChannel == Spec => ImplementsChannel
  <1>1. Init => TypeOK /\ EndsOnce
    BY WakeupInit DEF WakeupInv, EndsOnce, Init
  <1>2. TypeOK /\ EndsOnce /\ [Next]_vars => (TypeOK /\ EndsOnce)'
    BY TypeStep, EndsStep
  <1> QED
    BY <1>1, <1>2, ChannelInit, ChannelStep, PTL
       DEF Spec, ImplementsChannel, Abstract!Spec

-------------------------------------------------------------------------------
(* How often a value is in a queue: what ToBag says of it.                     *)
Places(q, x) == {i \in DOMAIN q : q[i] = x}
Count(q, x) == Cardinality(Places(q, x))

LEMMA PlacesFinite ==
    ASSUME NEW S, NEW q \in Seq(S), NEW x
    PROVE  /\ Places(q, x) \subseteq 1 .. Len(q) /\ IsFiniteSet(Places(q, x))
           /\ Count(q, x) \in Nat
           /\ Count(q, x) = 0 <=> \A i \in 1 .. Len(q) : q[i] # x
  <1>1. Len(q) \in Nat /\ DOMAIN q = 1 .. Len(q)
    OBVIOUS
  <1>2. IsFiniteSet(1 .. Len(q))
    BY <1>1, FS_Interval
  <1>3. Places(q, x) \subseteq 1 .. Len(q)
    BY <1>1 DEF Places
  <1>4. IsFiniteSet(Places(q, x))
    BY <1>2, <1>3, FS_Subset
  <1>5. Count(q, x) \in Nat /\ (Count(q, x) = 0 <=> Places(q, x) = {})
    BY <1>4, FS_CardinalityType, FS_EmptySet DEF Count
  <1>6. Places(q, x) = {} <=> \A i \in 1 .. Len(q) : q[i] # x
    BY <1>1 DEF Places
  <1> QED
    BY <1>3, <1>4, <1>5, <1>6

LEMMA CountConcat ==
    ASSUME NEW S, NEW p \in Seq(S), NEW q \in Seq(S), NEW x
    PROVE  Count(p \o q, x) = Count(p, x) + Count(q, x)
  <1> DEFINE shift == [i \in Places(q, x) |-> Len(p) + i]
             Q == {Len(p) + i : i \in Places(q, x)}
  <1>1. /\ Len(p) \in Nat /\ Len(q) \in Nat /\ Len(p \o q) = Len(p) + Len(q)
        /\ DOMAIN p = 1 .. Len(p) /\ DOMAIN q = 1 .. Len(q)
        /\ DOMAIN (p \o q) = 1 .. Len(p \o q)
        /\ \A i \in 1 .. Len(p) : (p \o q)[i] = p[i]
        /\ \A i \in 1 .. Len(q) : (p \o q)[Len(p) + i] = q[i]
    OBVIOUS
  <1>2. /\ Places(p, x) \subseteq 1 .. Len(p) /\ IsFiniteSet(Places(p, x))
        /\ Places(q, x) \subseteq 1 .. Len(q) /\ IsFiniteSet(Places(q, x))
        /\ Count(p, x) \in Nat /\ Count(q, x) \in Nat
    BY PlacesFinite
  <1>3. Places(p \o q, x) = Places(p, x) \cup Q
    <2>1. \A i \in 1 .. Len(p) : i \in Places(p \o q, x) <=> i \in Places(p, x)
      BY <1>1 DEF Places
    <2>2. \A i \in 1 .. Len(q) : Len(p) + i \in Places(p \o q, x) <=> i \in Places(q, x)
      BY <1>1 DEF Places
    <2>3. ASSUME NEW j \in 1 .. Len(p \o q), ~(j \in 1 .. Len(p))
          PROVE  j - Len(p) \in 1 .. Len(q) /\ j = Len(p) + (j - Len(p))
      BY <1>1, <2>3
    <2>4. Places(p \o q, x) \subseteq 1 .. Len(p \o q)
      BY <1>1 DEF Places
    <2>5. Places(p \o q, x) \subseteq Places(p, x) \cup Q
      <3> SUFFICES ASSUME NEW j \in Places(p \o q, x) PROVE j \in Places(p, x) \cup Q
        OBVIOUS
      <3>1. CASE j \in 1 .. Len(p)
        BY <2>1, <3>1
      <3>2. CASE j \notin 1 .. Len(p)
        <4>1. j - Len(p) \in 1 .. Len(q) /\ j = Len(p) + (j - Len(p))
          BY <2>3, <2>4, <3>2
        <4>2. j - Len(p) \in Places(q, x)
          BY <2>2, <4>1
        <4> QED
          BY <4>1, <4>2
      <3> QED
        BY <3>1, <3>2
    <2>6. Places(p, x) \cup Q \subseteq Places(p \o q, x)
      BY <1>2, <2>1, <2>2
    <2> QED
      BY <2>5, <2>6
  <1>4. Places(p, x) \cap Q = {}
    BY <1>1, <1>2
  <1>5. IsFiniteSet(Q) /\ Cardinality(Q) = Count(q, x)
    <2>1. shift \in Bijection(Places(q, x), Q)
      <3>1. shift \in [Places(q, x) -> Q]
        OBVIOUS
      <3>2. \A i, j \in Places(q, x) : shift[i] = shift[j] => i = j
        BY <1>1, <1>2
      <3>3. \A k \in Q : \E i \in Places(q, x) : shift[i] = k
        OBVIOUS
      <3> HIDE DEF shift, Q
      <3> QED
        BY <3>1, <3>2, <3>3 DEF Bijection, Injection, IsInjective, Surjection
    <2>2. ExistsBijection(Places(q, x), Q)
      BY <2>1 DEF ExistsBijection
    <2> HIDE DEF Q
    <2> QED
      BY <1>2, <2>2, FS_Bijection DEF Count
  <1> HIDE DEF Q
  <1>6. Cardinality(Places(p, x) \cup Q) = Cardinality(Places(p, x)) + Cardinality(Q) - 0
    BY <1>2, <1>4, <1>5, FS_Union, FS_EmptySet
  <1> QED
    BY <1>2, <1>3, <1>5, <1>6 DEF Count

LEMMA CountOne ==
    ASSUME NEW y, NEW x
    PROVE  Count(<<y>>, x) = IF y = x THEN 1 ELSE 0
  <1>1. DOMAIN <<y>> = {1} /\ <<y>>[1] = y
    OBVIOUS
  <1>2. Places(<<y>>, x) = IF y = x THEN {1} ELSE {}
    BY <1>1 DEF Places
  <1> QED
    BY <1>2, FS_Singleton, FS_EmptySet DEF Count

LEMMA CountAppend ==
    ASSUME NEW S, NEW q \in Seq(S), NEW y \in S, NEW x
    PROVE  Count(Append(q, y), x) = Count(q, x) + (IF y = x THEN 1 ELSE 0)
  <1>1. <<y>> \in Seq(S) /\ q \o <<y>> = Append(q, y)
    OBVIOUS
  <1>2. Count(q \o <<y>>, x) = Count(q, x) + Count(<<y>>, x)
    <2>1. PICK r \in Seq(S) : r = <<y>>
      BY <1>1
    <2>2. Count(q \o r, x) = Count(q, x) + Count(r, x)
      BY Zenon, CountConcat
    <2> QED
      BY Zenon, <2>1, <2>2
  <1>3. Count(Append(q, y), x) = Count(q, x) + Count(<<y>>, x)
    BY Zenon, <1>1, <1>2
  <1>4. Count(<<y>>, x) = IF y = x THEN 1 ELSE 0
    BY CountOne
  <1> QED
    BY <1>3, <1>4

LEMMA CountFront ==
    ASSUME NEW S, NEW q \in Seq(S), NEW y \in S, NEW x
    PROVE  Count(<<y>> \o q, x) = Count(q, x) + (IF y = x THEN 1 ELSE 0)
  <1>1. <<y>> \in Seq(S)
    OBVIOUS
  <1>2. Count(<<y>> \o q, x) = Count(<<y>>, x) + Count(q, x)
    BY <1>1, CountConcat
  <1>3. Count(q, x) \in Nat /\ Count(<<y>>, x) = IF y = x THEN 1 ELSE 0
    BY PlacesFinite, CountOne
  <1> QED
    BY <1>2, <1>3

(* ack_map_rm takes one of them away.                                          *)
LEMMA CountRemoveAt ==
    ASSUME NEW S, NEW q \in Seq(S), NEW i \in 1 .. Len(q), NEW x
    PROVE  Count(q, x) = Count(RemoveAt(q, i), x) + (IF q[i] = x THEN 1 ELSE 0)
  <1>1. Len(q) \in Nat /\ \A j \in 1 .. Len(q) : q[j] \in S
    OBVIOUS
  <1>2. PICK a \in Seq(S) : a = SubSeq(q, 1, i - 1)
    <2>1. 1 \in Int /\ i - 1 \in Int /\ \A j \in 1 .. i - 1 : q[j] \in S
      BY <1>1
    <2> QED
      BY <2>1, SubSeqProperties
  <1>3. PICK b \in Seq(S) : b = SubSeq(q, i + 1, Len(q))
    <2>1. i + 1 \in Int /\ Len(q) \in Int /\ \A j \in i + 1 .. Len(q) : q[j] \in S
      BY <1>1
    <2> QED
      BY <2>1, SubSeqProperties
  <1>4. PICK y \in S : y = q[i]
    BY <1>1
  <1>5. q = a \o (<<y>> \o b)
    <2>1. SubSeq(q, 1, i - 1) \o SubSeq(q, i, Len(q)) = SubSeq(q, 1, Len(q))
      <3>1. /\ 1 \in 1 .. Len(q) + 1 /\ i - 1 \in 0 .. Len(q)
            /\ Len(q) \in i - 1 .. Len(q) /\ (i - 1) + 1 = i /\ 1 - 1 = 0
        BY <1>1
      <3> QED
        BY <3>1, ConcatAdjacentSubSeq
    <2>2. SubSeq(q, i, Len(q)) = <<q[i]>> \o SubSeq(q, i + 1, Len(q))
      BY <1>1, SubSeqRecursiveFirst
    <2>3. SubSeq(q, 1, Len(q)) = q
      BY SubSeqFull
    <2> QED
      BY Zenon, <1>2, <1>3, <1>4, <2>1, <2>2, <2>3
  <1>6. RemoveAt(q, i) = a \o b
    BY <1>2, <1>3 DEF RemoveAt
  <1>7. <<y>> \o b \in Seq(S)
    OBVIOUS
  <1>8. Count(q, x) = Count(a, x) + (Count(b, x) + (IF y = x THEN 1 ELSE 0))
    <2>1. PICK v \in Seq(S) : v = <<y>> \o b
      BY <1>7
    <2>2. Count(a \o v, x) = Count(a, x) + Count(v, x)
      BY CountConcat
    <2>3. Count(<<y>> \o b, x) = Count(b, x) + (IF y = x THEN 1 ELSE 0)
      BY CountFront
    <2> QED
      BY Zenon, <1>5, <2>1, <2>2, <2>3
  <1>9. Count(RemoveAt(q, i), x) = Count(a, x) + Count(b, x)
    BY <1>6, CountConcat
  <1>10. Count(a, x) \in Nat /\ Count(b, x) \in Nat
    BY PlacesFinite
  <1> QED
    BY <1>4, <1>8, <1>9, <1>10

LEMMA SameBag ==
    ASSUME NEW S, NEW p \in Seq(S), NEW q \in Seq(S)
    PROVE  ToBag(p) = ToBag(q) <=> \A x \in S : Count(p, x) = Count(q, x)
  <1> DEFINE In(s) == {s[i] : i \in DOMAIN s}
  <1>1. ASSUME NEW s \in Seq(S)
        PROVE  /\ ToBag(s) = [x \in In(s) |-> Count(s, x)] /\ In(s) \subseteq S
               /\ \A x \in S : x \in In(s) <=> Count(s, x) # 0
    <2>1. DOMAIN s = 1 .. Len(s) /\ \A i \in 1 .. Len(s) : s[i] \in S
      OBVIOUS
    <2>2. ToBag(s) = [x \in In(s) |-> Count(s, x)]
      BY DEF ToBag, Range, Count, Places
    <2>3. \A x \in S : Count(s, x) = 0 <=> \A i \in 1 .. Len(s) : s[i] # x
      BY PlacesFinite
    <2>4. In(s) \subseteq S
      BY <2>1
    <2>5. \A x \in S : x \in In(s) <=> Count(s, x) # 0
      BY <2>1, <2>3
    <2> QED
      BY <2>2, <2>4, <2>5
  <1>2. ASSUME ToBag(p) = ToBag(q), NEW x \in S PROVE Count(p, x) = Count(q, x)
    <2> HIDE DEF In
    <2>1. DOMAIN ToBag(p) = In(p) /\ DOMAIN ToBag(q) = In(q)
      BY <1>1
    <2>2. In(p) = In(q)
      BY <1>2, <2>1
    <2>3. CASE x \in In(p)
      <3>1. ToBag(p)[x] = Count(p, x) /\ ToBag(q)[x] = Count(q, x)
        BY <1>1, <2>2, <2>3
      <3> QED
        BY <1>2, <3>1
    <2>4. CASE x \notin In(p)
      BY <1>1, <2>2, <2>4
    <2> QED
      BY <2>3, <2>4
  <1>3. ASSUME \A x \in S : Count(p, x) = Count(q, x) PROVE ToBag(p) = ToBag(q)
    <2> HIDE DEF In
    <2>1. In(p) = In(q)
      BY <1>1, <1>3
    <2>2. \A x \in In(p) : Count(p, x) = Count(q, x)
      BY <1>1, <1>3
    <2> QED
      BY <1>1, <2>1, <2>2
  <1> QED
    BY <1>2, <1>3

(* AcksMatch, number by number: what waits for an acknowledgement is a message *)
(* on its way, the one being acknowledged, or an acknowledgement on its way.   *)
Num == 0 .. MaxMsgs
SeqNums(msgs) == [i \in DOMAIN msgs |-> SeqNum(msgs[i])]
Coming(s, n) == Count(SeqNums(Data(sock[Peer(s)])), n)
Now(s, n) == IF hpc[Peer(s)] = "ack" /\ to_ack[Peer(s)] = n THEN 1 ELSE 0
Back(s, n) == Count(Acks(sock[s]), n)
Waiting(s, n) == Count(ack_map[s], n)

AcksCounted ==
    \A s \in Side : cause[Peer(s)] = "none" =>
        \A n \in Num : Waiting(s, n) = Coming(s, n) + Now(s, n) + Back(s, n)

LEMMA SeqNumsType ==
    ASSUME NEW q \in Seq(Message)
    PROVE  /\ SeqNums(q) \in Seq(Num)
           /\ \A m \in Message : SeqNums(Append(q, m)) = Append(SeqNums(q), SeqNum(m))
           /\ \A m \in Message : SeqNums(<<m>> \o q) = <<SeqNum(m)>> \o SeqNums(q)
  <1>1. /\ Len(q) \in Nat /\ DOMAIN q = 1 .. Len(q)
        /\ \A i \in 1 .. Len(q) : q[i] \in Message
    OBVIOUS
  <1>2. \A m \in Message : SeqNum(m) \in Num
    BY FrameTypes DEF Num
  <1>3. SeqNums(q) \in Seq(Num) /\ Len(SeqNums(q)) = Len(q)
        /\ \A i \in 1 .. Len(q) : SeqNums(q)[i] = SeqNum(q[i])
    BY <1>1, <1>2 DEF SeqNums
  <1>4. ASSUME NEW m \in Message
        PROVE  SeqNums(Append(q, m)) = Append(SeqNums(q), SeqNum(m))
    BY <1>1, <1>2, <1>3 DEF SeqNums
  <1>5. ASSUME NEW m \in Message
        PROVE  SeqNums(<<m>> \o q) = <<SeqNum(m)>> \o SeqNums(q)
    <2>1. /\ <<m>> \o q \in Seq(Message) /\ Len(<<m>> \o q) = Len(q) + 1
          /\ (<<m>> \o q)[1] = m /\ \A i \in 2 .. Len(q) + 1 : (<<m>> \o q)[i] = q[i - 1]
      OBVIOUS
    <2>2. PICK k \in Seq(Num) : k = SeqNums(q)
      BY <1>3
    <2>3. PICK n \in Num : n = SeqNum(m)
      BY <1>2
    <2>4. /\ <<n>> \o k \in Seq(Num) /\ Len(<<n>> \o k) = Len(k) + 1
          /\ (<<n>> \o k)[1] = n /\ \A i \in 2 .. Len(k) + 1 : (<<n>> \o k)[i] = k[i - 1]
      OBVIOUS
    <2>5. PICK w \in Seq(Message) : w = <<m>> \o q
      BY <2>1
    <2>6. /\ SeqNums(w) \in Seq(Num) /\ Len(SeqNums(w)) = Len(w)
          /\ \A i \in 1 .. Len(w) : SeqNums(w)[i] = SeqNum(w[i])
      BY <1>2 DEF SeqNums
    <2>7. PICK v \in Seq(Num) : v = <<n>> \o k
      BY <2>4
    <2>8. Len(v) = Len(w) /\ \A i \in 1 .. Len(w) : SeqNum(w[i]) = v[i]
      <3>1. ASSUME NEW i \in 2 .. Len(q) + 1 PROVE k[i - 1] = SeqNum(q[i - 1])
        BY <1>1, <1>3, <2>2
      <3>2. \A i \in 1 .. Len(w) : i = 1 \/ i \in 2 .. Len(q) + 1
        BY <1>1, <2>1, <2>5
      <3>3. Len(k) = Len(q)
        BY <1>3, <2>2
      <3> QED
        BY <2>1, <2>3, <2>4, <2>5, <2>7, <3>1, <3>2, <3>3
    <2>9. SeqNums(w) = v
      BY <2>6, <2>8, SeqEqual
    <2> QED
      BY <2>2, <2>3, <2>5, <2>7, <2>9
  <1> QED
    BY <1>3, <1>4, <1>5

LEMMA AckTypes ==
    ASSUME TypeOK, NEW s \in Side
    PROVE  /\ SeqNums(Data(sock[s])) \in Seq(Num) /\ Acks(sock[s]) \in Seq(Num)
           /\ ack_map[s] \in Seq(Num) /\ to_ack[s] \in Num
           /\ \A n : /\ Coming(s, n) \in Nat /\ Now(s, n) \in Nat
                     /\ Back(s, n) \in Nat /\ Waiting(s, n) \in Nat
  <1>1. /\ sock[s] \in Seq(Frames) /\ sock[Peer(s)] \in Seq(Frames)
        /\ ack_map[s] \in Seq(1 .. MaxMsgs) /\ to_ack[s] \in Num
    BY PeerType DEF TypeOK, Num
  <1>2. 1 .. MaxMsgs \subseteq Num
    BY DEF Num
  <1>3. ack_map[s] \in Seq(Num)
    BY <1>1, <1>2, SeqMonotonic
  <1>4. /\ SeqNums(Data(sock[s])) \in Seq(Num) /\ Acks(sock[s]) \in Seq(Num)
        /\ SeqNums(Data(sock[Peer(s)])) \in Seq(Num)
    BY <1>1, BodiesType, SeqNumsType DEF Num
  <1> QED
    BY <1>1, <1>3, <1>4, PlacesFinite DEF Coming, Now, Back, Waiting

CountsAreNumbers ==
    \A s \in Side, n \in Num :
        /\ Coming(s, n) \in Nat /\ Now(s, n) \in Nat
        /\ Back(s, n) \in Nat /\ Waiting(s, n) \in Nat

LEMMA CountTypes == TypeOK => CountsAreNumbers
  BY AckTypes DEF CountsAreNumbers

LEMMA AcksSame ==
    ASSUME TypeOK
    PROVE  AcksMatch <=> AcksCounted
  <1> SUFFICES ASSUME NEW s \in Side
               PROVE  LET coming == [i \in DOMAIN Data(sock[Peer(s)]) |->
                                        SeqNum(Data(sock[Peer(s)])[i])]
                          now == IF hpc[Peer(s)] = "ack" THEN <<to_ack[Peer(s)]>> ELSE <<>>
                      IN  ToBag(ack_map[s]) = ToBag(coming \o now \o Acks(sock[s]))
                          <=> \A n \in Num :
                                 Waiting(s, n) = Coming(s, n) + Now(s, n) + Back(s, n)
    BY DEF AcksMatch, AcksCounted
  <1> DEFINE coming == SeqNums(Data(sock[Peer(s)]))
             now == IF hpc[Peer(s)] = "ack" THEN <<to_ack[Peer(s)]>> ELSE <<>>
             back == Acks(sock[s])
  <1>1. /\ coming \in Seq(Num) /\ back \in Seq(Num) /\ ack_map[s] \in Seq(Num)
        /\ to_ack[Peer(s)] \in Num
    BY PeerType, AckTypes
  <1>2. now \in Seq(Num)
    BY <1>1
  <1>3. ASSUME NEW n \in Num PROVE Count(now, n) = Now(s, n)
    <2>1. CASE hpc[Peer(s)] = "ack"
      BY <2>1, CountOne DEF Now
    <2>2. CASE hpc[Peer(s)] # "ack"
      <3>1. Places(<<>>, n) = {}
        BY DEF Places
      <3> QED
        BY <2>2, <3>1, FS_EmptySet DEF Now, Count
    <2> QED
      BY <2>1, <2>2
  <1>4. /\ \A n \in Num : Coming(s, n) = Count(coming, n) /\ Back(s, n) = Count(back, n)
                         /\ Waiting(s, n) = Count(ack_map[s], n)
    BY DEF Coming, Back, Waiting
  <1>5. coming = [i \in DOMAIN Data(sock[Peer(s)]) |-> SeqNum(Data(sock[Peer(s)])[i])]
    BY DEF SeqNums
  <1> HIDE DEF coming, now, back
  <1>6. ASSUME NEW n \in Num
        PROVE  Count(coming \o now \o back, n) = Count(coming, n) + Count(now, n) + Count(back, n)
    <2>1. PICK v \in Seq(Num) : v = coming \o now
      BY <1>1, <1>2, ConcatProperties
    <2>2. Count(v, n) = Count(coming, n) + Count(now, n)
      BY <1>1, <1>2, <2>1, CountConcat
    <2>3. Count(v \o back, n) = Count(v, n) + Count(back, n)
      BY <1>1, CountConcat
    <2> QED
      BY <2>1, <2>2, <2>3
  <1>7. coming \o now \o back \in Seq(Num)
    BY <1>1, <1>2, ConcatProperties
  <1>8. ToBag(ack_map[s]) = ToBag(coming \o now \o back)
          <=> \A n \in Num : Count(ack_map[s], n) = Count(coming \o now \o back, n)
    BY <1>1, <1>7, SameBag
  <1>9. ToBag(ack_map[s]) = ToBag(coming \o now \o back)
          <=> \A n \in Num : Waiting(s, n) = Coming(s, n) + Now(s, n) + Back(s, n)
    BY <1>3, <1>4, <1>6, <1>8
  <1> QED
    BY <1>5, <1>9 DEF now, back

-------------------------------------------------------------------------------
(* A step keeps the count of s when both sides of it change alike.             *)
Balanced(s) ==
    \A n \in Num :
        Waiting(s, n)' + (Coming(s, n) + Now(s, n) + Back(s, n))
            = Waiting(s, n) + (Coming(s, n) + Now(s, n) + Back(s, n))'

LEMMA KeepCounts ==
    ASSUME TypeOK, TypeOK', AcksCounted,
           \A s \in Side : cause'[Peer(s)] = "none" =>
               cause[Peer(s)] = "none" /\ Balanced(s)
    PROVE  AcksCounted'
  <1> SUFFICES ASSUME NEW s \in Side, cause'[Peer(s)] = "none", NEW n \in Num
               PROVE  Waiting(s, n)' = (Coming(s, n) + Now(s, n) + Back(s, n))'
    BY DEF AcksCounted, Num
  <1>0. CountsAreNumbers /\ CountsAreNumbers'
    BY CountTypes, PTL
  <1>1. /\ Waiting(s, n) \in Nat /\ Coming(s, n) \in Nat /\ Now(s, n) \in Nat
        /\ Back(s, n) \in Nat
    BY <1>0 DEF CountsAreNumbers
  <1>2. /\ Waiting(s, n)' \in Nat /\ Coming(s, n)' \in Nat /\ Now(s, n)' \in Nat
        /\ Back(s, n)' \in Nat
    BY <1>0 DEF CountsAreNumbers
  <1>3. Waiting(s, n) = Coming(s, n) + Now(s, n) + Back(s, n)
    BY DEF AcksCounted
  <1>4. Waiting(s, n)' + (Coming(s, n) + Now(s, n) + Back(s, n))
            = Waiting(s, n) + (Coming(s, n)' + Now(s, n)' + Back(s, n)')
    BY DEF Balanced
  <1> QED
    BY <1>1, <1>2, <1>3, <1>4

(* Every action says how the connection goes on, or why it ended.              *)
CauseKept(s) == UNCHANGED cause \/ \E why \in Causes \ {"none"} : Fail(s, why)

LEMMA CauseNone ==
    ASSUME TypeOK, NEW s \in Side, CauseKept(s), NEW u \in Side, cause'[u] = "none"
    PROVE  cause[u] = "none" /\ (u = s => UNCHANGED cause)
  BY DEF CauseKept, Fail, TypeOK, Causes

(* The steps that change nothing AcksMatch speaks of.                          *)
AcksQuiet ==
    /\ UNCHANGED ack_map
    /\ \A s \in Side :
          /\ Data(sock'[s]) = Data(sock[s]) /\ Acks(sock'[s]) = Acks(sock[s])
          /\ hpc'[s] = "ack" <=> hpc[s] = "ack"
          /\ to_ack'[s] = to_ack[s]

LEMMA QuietBalanced ==
    ASSUME AcksQuiet, NEW s \in Side
    PROVE  Balanced(s)
  <1>1. ASSUME NEW n \in Num
        PROVE  /\ Waiting(s, n)' = Waiting(s, n) /\ Coming(s, n)' = Coming(s, n)
               /\ Now(s, n)' = Now(s, n) /\ Back(s, n)' = Back(s, n)
    BY PeerType DEF AcksQuiet, Waiting, Coming, Now, Back
  <1> QED
    BY <1>1 DEF Balanced

LEMMA QuietKeeps ==
    ASSUME TypeOK, TypeOK', AcksCounted, NEW s \in Side, CauseKept(s), AcksQuiet
    PROVE  AcksCounted'
  BY PeerType, CauseNone, QuietBalanced, KeepCounts

(* A frame that is no message and no acknowledgement.                          *)
LEMMA SendOther ==
    ASSUME TypeOK, NEW s \in Side,
           \/ SendShort(s)
           \/ \E f \in Frames : f.type \notin {"MSG", "ACK"} /\ SendAll(s, f)
           \/ \E kind : kind \notin {"MSG", "ACK"} /\ ReadFrame(s, kind)
           \/ UNCHANGED sock
    PROVE  \A u \in Side : Data(sock'[u]) = Data(sock[u]) /\ Acks(sock'[u]) = Acks(sock[u])
  <1>1. CASE SendShort(s)
    BY <1>1, SendShortBodies DEF Data, Acks
  <1>2. ASSUME NEW f \in Frames, f.type \notin {"MSG", "ACK"}, SendAll(s, f)
        PROVE  \A u \in Side : Data(sock'[u]) = Data(sock[u]) /\ Acks(sock'[u]) = Acks(sock[u])
    <2>1. /\ sock'[s] = sock[s]
          /\ Bodies(sock'[Peer(s)], "MSG") = Bodies(sock[Peer(s)], "MSG")
          /\ Bodies(sock'[Peer(s)], "ACK") = Bodies(sock[Peer(s)], "ACK")
      BY <1>2, SendAllBodies
    <2> QED
      BY <2>1, TwoSides DEF Data, Acks
  <1>3. ASSUME NEW kind, kind \notin {"MSG", "ACK"}, ReadFrame(s, kind)
        PROVE  \A u \in Side : Data(sock'[u]) = Data(sock[u]) /\ Acks(sock'[u]) = Acks(sock[u])
    <2>1. /\ sock'[Peer(s)] = sock[Peer(s)]
          /\ Bodies(sock'[s], "MSG") = Bodies(sock[s], "MSG")
          /\ Bodies(sock'[s], "ACK") = Bodies(sock[s], "ACK")
      BY ZenonT(40), <1>3, ReadFrameBodies
    <2> QED
      BY <2>1, TwoSides DEF Data, Acks
  <1> QED
    BY <1>1, <1>2, <1>3

(* The message read is no longer coming: it is being acknowledged.             *)
LEMMA ReadMessageCounts ==
    ASSUME TypeOK, TypeOK', AcksCounted, NEW s \in Side, ReadMessage(s)
    PROVE  AcksCounted'
  <1>1. /\ ReadFrame(s, "MSG") /\ hpc[s] = "read" /\ hpc' = [hpc EXCEPT ![s] = "ack"]
        /\ to_ack' = [to_ack EXCEPT ![s] = SeqNum(Head(sock[s]).body)]
        /\ UNCHANGED <<ack_map, cause>>
    BY DEF ReadMessage, ReadFrame, goto, life
  <1>2. Peer(s) \in Side /\ Peer(s) # s /\ Peer(Peer(s)) = s
        /\ \A u \in Side : u = s \/ u = Peer(s)
    BY TwoSides
  <1>3. /\ Head(sock[s]) \in Frames /\ Head(sock[s]).type = "MSG"
        /\ Data(sock[s]) = <<Head(sock[s]).body>> \o Data(sock'[s])
        /\ Acks(sock'[s]) = Acks(sock[s]) /\ sock'[Peer(s)] = sock[Peer(s)]
    BY <1>1, ReadFrameBodies DEF Data, Acks
  <1>4. PICK m \in Message : m = Head(sock[s]).body
    BY <1>3, FrameTypes
  <1>5. /\ hpc'[s] = "ack" /\ to_ack'[s] = SeqNum(m) /\ SeqNum(m) \in Num
        /\ hpc'[Peer(s)] = hpc[Peer(s)] /\ to_ack'[Peer(s)] = to_ack[Peer(s)]
    BY <1>1, <1>2, <1>4, FrameTypes DEF TypeOK, Num
  <1>6. Balanced(s)
    <2>1. ASSUME NEW n \in Num
          PROVE  /\ Waiting(s, n)' = Waiting(s, n) /\ Coming(s, n)' = Coming(s, n)
                 /\ Now(s, n)' = Now(s, n) /\ Back(s, n)' = Back(s, n)
      BY <1>1, <1>2, <1>3, <1>5 DEF Waiting, Coming, Now, Back
    <2> QED
      BY <2>1 DEF Balanced
  <1>7. Balanced(Peer(s))
    <2> SUFFICES ASSUME NEW n \in Num
                 PROVE  /\ Waiting(Peer(s), n)' = Waiting(Peer(s), n)
                        /\ Coming(Peer(s), n) = Coming(Peer(s), n)' + Now(Peer(s), n)'
                        /\ Now(Peer(s), n) = 0
                        /\ Back(Peer(s), n)' = Back(Peer(s), n)
                        /\ Coming(Peer(s), n)' \in Nat /\ Back(Peer(s), n) \in Nat
                        /\ Waiting(Peer(s), n) \in Nat /\ Now(Peer(s), n)' \in Nat
      BY DEF Balanced
    <2>1. PICK q \in Seq(Message) : q = Data(sock'[s])
      <3>1. sock'[s] \in Seq(Frames)
        BY DEF TypeOK
      <3> QED
        BY <3>1, BodiesType
    <2>2. SeqNums(<<m>> \o q) = <<SeqNum(m)>> \o SeqNums(q) /\ SeqNums(q) \in Seq(Num)
      BY SeqNumsType
    <2>3. Count(SeqNums(<<m>> \o q), n) = Count(SeqNums(q), n) + (IF SeqNum(m) = n THEN 1 ELSE 0)
      <3>1. PICK k \in Seq(Num) : k = SeqNums(q)
        BY <2>2
      <3>2. PICK y \in Num : y = SeqNum(m)
        BY <1>5
      <3>3. Count(<<y>> \o k, n) = Count(k, n) + (IF y = n THEN 1 ELSE 0)
        BY CountFront
      <3> QED
        BY Zenon, <2>2, <3>1, <3>2, <3>3
    <2>4. Coming(Peer(s), n) = Coming(Peer(s), n)' + Now(Peer(s), n)'
      BY <1>2, <1>3, <1>4, <1>5, <2>1, <2>3 DEF Coming, Now
    <2>5. Now(Peer(s), n) = 0
      BY <1>1, <1>2 DEF Now
    <2>6. /\ Waiting(Peer(s), n)' = Waiting(Peer(s), n)
          /\ Back(Peer(s), n)' = Back(Peer(s), n)
      BY <1>1, <1>3 DEF Waiting, Back
    <2>7. /\ Coming(Peer(s), n)' \in Nat /\ Now(Peer(s), n)' \in Nat
          /\ Back(Peer(s), n) \in Nat /\ Waiting(Peer(s), n) \in Nat
      <3>1. CountsAreNumbers /\ CountsAreNumbers'
        BY CountTypes, PTL
      <3> QED
        BY <1>2, <3>1 DEF CountsAreNumbers
    <2> QED
      BY <2>4, <2>5, <2>6, <2>7
  <1> QED
    BY <1>1, <1>2, <1>6, <1>7, KeepCounts

(* The acknowledgement is on its way back.                                     *)
LEMMA WriteAckCounts ==
    ASSUME TypeOK, TypeOK', AcksCounted, NEW s \in Side, write_acknowledge(s)
    PROVE  AcksCounted'
  <1>1. /\ hpc[s] = "ack" /\ to_ack' = [to_ack EXCEPT ![s] = 0] /\ UNCHANGED ack_map
        /\ \/ SendAll(s, Frame("ACK", to_ack[s])) /\ EndRead(s) /\ UNCHANGED cause
           \/ SendShort(s) /\ Fail(s, "EIO")
    BY DEF write_acknowledge
  <1>2. Peer(s) \in Side /\ Peer(s) # s /\ Peer(Peer(s)) = s
        /\ \A u \in Side : u = s \/ u = Peer(s)
    BY TwoSides
  <1>3. /\ to_ack'[Peer(s)] = to_ack[Peer(s)] /\ hpc'[Peer(s)] = hpc[Peer(s)]
        /\ hpc'[s] # "ack"
    <2>1. \E where \in {"wake", "check", "cleanup"} : goto(s, where)
      BY <1>1 DEF EndRead, Fail
    <2>2. hpc \in [Side -> PC] /\ to_ack \in [Side -> 0 .. MaxMsgs]
      BY DEF TypeOK
    <2> QED
      BY <1>1, <1>2, <2>1, <2>2 DEF goto
  <1>4. CauseKept(s)
    BY <1>1 DEF CauseKept, Causes
  <1>5. ASSUME cause'[s] = "none"
        PROVE  SendAll(s, Frame("ACK", to_ack[s])) /\ UNCHANGED cause
    BY <1>1, <1>5 DEF Fail, TypeOK
  <1>6. /\ to_ack[s] \in Num /\ Frame("ACK", to_ack[s]) \in Frames
        /\ Frame("ACK", to_ack[s]).type = "ACK" /\ Frame("ACK", to_ack[s]).body = to_ack[s]
    BY FrameTypes DEF TypeOK, Num, Frame
  <1>7. Balanced(s)
    <2>1. Data(sock'[Peer(s)]) = Data(sock[Peer(s)]) /\ Acks(sock'[s]) = Acks(sock[s])
      <3>1. CASE SendShort(s)
        BY <1>2, <3>1, SendShortBodies DEF Data, Acks
      <3>2. CASE SendAll(s, Frame("ACK", to_ack[s]))
        BY <1>6, <3>2, SendAllBodies DEF Data
      <3> QED
        BY <1>1, <3>1, <3>2
    <2>2. ASSUME NEW n \in Num
          PROVE  /\ Waiting(s, n)' = Waiting(s, n) /\ Coming(s, n)' = Coming(s, n)
                 /\ Now(s, n)' = Now(s, n) /\ Back(s, n)' = Back(s, n)
      BY <1>1, <1>3, <2>1 DEF Waiting, Coming, Now, Back
    <2> QED
      BY <2>2 DEF Balanced
  <1>8. ASSUME SendAll(s, Frame("ACK", to_ack[s])) PROVE Balanced(Peer(s))
    <2> SUFFICES ASSUME NEW n \in Num
                 PROVE  /\ Waiting(Peer(s), n)' = Waiting(Peer(s), n)
                        /\ Coming(Peer(s), n)' = Coming(Peer(s), n)
                        /\ Now(Peer(s), n)' = 0
                        /\ Back(Peer(s), n)' = Back(Peer(s), n) + Now(Peer(s), n)
                        /\ Coming(Peer(s), n) \in Nat /\ Back(Peer(s), n) \in Nat
                        /\ Waiting(Peer(s), n) \in Nat /\ Now(Peer(s), n) \in Nat
      BY DEF Balanced
    <2>0. PICK f \in Frames : /\ f = Frame("ACK", to_ack[s])
                              /\ f.type = "ACK" /\ f.body = to_ack[s]
      BY <1>6
    <2>1. /\ sock'[s] = sock[s]
          /\ Acks(sock'[Peer(s)]) = Append(Acks(sock[Peer(s)]), to_ack[s])
      <3>1. SendAll(s, f)
        BY <1>8, <2>0
      <3>2. /\ Bodies(sock'[Peer(s)], "ACK") = Append(Bodies(sock[Peer(s)], "ACK"), f.body)
            /\ sock'[s] = sock[s]
        BY <2>0, <3>1, SendAllOfType
      <3> QED
        BY <2>0, <3>2 DEF Acks
    <2>2. PICK q \in Seq(Num) : q = Acks(sock[Peer(s)])
      BY <1>2, AckTypes
    <2>3. PICK y \in Num : y = to_ack[s]
      BY <1>6
    <2>4. Count(Append(q, y), n) = Count(q, n) + (IF y = n THEN 1 ELSE 0)
      <3>1. n \in Num /\ y \in Num /\ q \in Seq(Num)
        OBVIOUS
      <3> QED
        BY SMTT(60), <3>1, CountAppend
    <2>5. Now(Peer(s), n) = (IF y = n THEN 1 ELSE 0) /\ Now(Peer(s), n)' = 0
      BY <1>1, <1>2, <1>3, <2>3 DEF Now
    <2>6. Back(Peer(s), n)' = Back(Peer(s), n) + Now(Peer(s), n)
      <3>1. Back(Peer(s), n)' = Count(Append(q, y), n)
        BY <2>1, <2>2, <2>3 DEF Back
      <3>2. Back(Peer(s), n) = Count(q, n)
        BY <2>2 DEF Back
      <3> QED
        BY <2>4, <2>5, <3>1, <3>2
    <2>7. Waiting(Peer(s), n)' = Waiting(Peer(s), n) /\ Coming(Peer(s), n)' = Coming(Peer(s), n)
      BY <1>1, <1>2, <2>1 DEF Waiting, Coming
    <2>8. /\ Coming(Peer(s), n) \in Nat /\ Back(Peer(s), n) \in Nat
          /\ Waiting(Peer(s), n) \in Nat /\ Now(Peer(s), n) \in Nat
      BY <1>2, CountTypes DEF CountsAreNumbers
    <2> QED
      BY <2>5, <2>6, <2>7, <2>8
  <1> QED
    BY <1>2, <1>4, <1>5, <1>7, <1>8, CauseNone, KeepCounts

(* An acknowledgement that arrives is one that ack_map waits for.              *)
LEMMA ReadAckCounts ==
    ASSUME TypeOK, TypeOK', AcksCounted, NEW s \in Side, ReadAck(s)
    PROVE  AcksCounted'
  <1> DEFINE k == Head(sock[s]).body
  <1>1. /\ ReadFrame(s, "ACK") /\ hpc[s] = "read" /\ UNCHANGED to_ack
        /\ \/ ack_map_rm(s, k) /\ EndRead(s) /\ UNCHANGED cause
           \/ ~Contains(ack_map[s], k) /\ Fail(s, "EINVAL") /\ UNCHANGED ack_map
    BY DEF ReadAck, ReadFrame
  <1>2. Peer(s) \in Side /\ Peer(s) # s /\ Peer(Peer(s)) = s
        /\ \A u \in Side : u = s \/ u = Peer(s)
    BY TwoSides
  <1>3. /\ Head(sock[s]) \in Frames /\ Head(sock[s]).type = "ACK"
        /\ Acks(sock[s]) = <<k>> \o Acks(sock'[s])
        /\ Data(sock'[s]) = Data(sock[s]) /\ sock'[Peer(s)] = sock[Peer(s)]
    BY <1>1, ReadFrameBodies DEF Data, Acks
  <1>4. PICK y \in Num : y = k
    BY <1>3 DEF Frames, Num
  <1>5. hpc'[Peer(s)] = hpc[Peer(s)] /\ hpc'[s] # "ack"
    <2>1. \E where \in {"wake", "check", "cleanup"} : goto(s, where)
      BY <1>1 DEF EndRead, Fail
    <2>2. hpc \in [Side -> PC]
      BY DEF TypeOK
    <2> QED
      BY <1>1, <1>2, <2>1, <2>2 DEF goto
  <1> HIDE DEF k
  <1>6. CauseKept(s)
    BY <1>1 DEF CauseKept, Causes
  <1>7. Balanced(Peer(s))
    <2>1. ack_map'[Peer(s)] = ack_map[Peer(s)]
      BY ZenonT(40), <1>1, <1>2 DEF ack_map_rm, TypeOK
    <2>2. ASSUME NEW n \in Num
          PROVE  /\ Waiting(Peer(s), n)' = Waiting(Peer(s), n)
                 /\ Coming(Peer(s), n)' = Coming(Peer(s), n)
                 /\ Now(Peer(s), n)' = Now(Peer(s), n)
                 /\ Back(Peer(s), n)' = Back(Peer(s), n)
      BY ZenonT(40), <1>1, <1>2, <1>3, <1>5, <2>1 DEF Waiting, Coming, Now, Back
    <2> QED
      BY <2>2 DEF Balanced
  <1>8. \A n \in Num : Back(s, n) = Back(s, n)' + (IF y = n THEN 1 ELSE 0)
    <2>1. PICK q \in Seq(Num) : q = Acks(sock'[s])
      <3>1. sock'[s] \in Seq(Frames)
        BY DEF TypeOK
      <3> QED
        BY <3>1, BodiesType DEF Num
    <2>2. \A n \in Num : Count(<<y>> \o q, n) = Count(q, n) + (IF y = n THEN 1 ELSE 0)
      BY CountFront
    <2> QED
      BY <1>3, <1>4, <2>1, <2>2 DEF Back
  <1>9. CountsAreNumbers /\ CountsAreNumbers'
    BY CountTypes, PTL
  <1>10. ASSUME cause[Peer(s)] = "none"
         PROVE  ack_map_rm(s, k)
    <2>1. Waiting(s, y) # 0
      <3>1. Waiting(s, y) = Coming(s, y) + Now(s, y) + Back(s, y)
        BY <1>10 DEF AcksCounted
      <3>2. Back(s, y) # 0
        BY <1>8, <1>9 DEF CountsAreNumbers
      <3> QED
        BY <1>9, <3>1, <3>2 DEF CountsAreNumbers
    <2>2. \E i \in 1 .. Len(ack_map[s]) : ack_map[s][i] = y
      BY <2>1, AckTypes, PlacesFinite DEF Waiting
    <2> QED
      BY <1>1, <1>4, <2>2 DEF Contains
  <1>11. ASSUME cause[Peer(s)] = "none" PROVE Balanced(s)
    <2>1. PICK i \in 1 .. Len(ack_map[s]) :
             ack_map[s][i] = y /\ ack_map' = [ack_map EXCEPT ![s] = RemoveAt(ack_map[s], i)]
      BY <1>4, <1>10, <1>11 DEF ack_map_rm
    <2>2. ack_map'[s] = RemoveAt(ack_map[s], i) /\ ack_map[s] \in Seq(Num)
      BY <2>1, AckTypes DEF TypeOK
    <2>3. ASSUME NEW n \in Num
          PROVE  Waiting(s, n) = Waiting(s, n)' + (IF y = n THEN 1 ELSE 0)
      BY <2>1, <2>2, CountRemoveAt DEF Waiting
    <2>4. ASSUME NEW n \in Num
          PROVE  Coming(s, n)' = Coming(s, n) /\ Now(s, n)' = Now(s, n)
      BY <1>1, <1>3, <1>5 DEF Coming, Now
    <2> SUFFICES ASSUME NEW n \in Num
                 PROVE  Waiting(s, n)' + (Coming(s, n) + Now(s, n) + Back(s, n))
                          = Waiting(s, n) + (Coming(s, n)' + Now(s, n)' + Back(s, n)')
      BY DEF Balanced
    <2>5. /\ Waiting(s, n)' \in Nat /\ Coming(s, n) \in Nat /\ Now(s, n) \in Nat
          /\ Back(s, n)' \in Nat
      BY <1>9 DEF CountsAreNumbers
    <2>6. Back(s, n) = Back(s, n)' + (IF y = n THEN 1 ELSE 0)
      BY <1>8
    <2> QED
      BY <2>3, <2>4, <2>5, <2>6
  <1> QED
    BY <1>2, <1>6, <1>7, <1>11, CauseNone, KeepCounts

(* The message written is waited for, and is coming.                           *)
LEMMA WriteMessageCounts ==
    ASSUME TypeOK, TypeOK', AcksCounted, NEW s \in Side, WriteMessage(s)
    PROVE  AcksCounted'
  <1> DEFINE m == Head(out_queue[s])
  <1>1. /\ UNCHANGED to_ack /\ hpc[s] \in {"write", "more"} /\ out_queue[s] # <<>>
        /\ \/ /\ SendAll(s, Frame("MSG", m)) /\ goto(s, "more") /\ UNCHANGED cause
              /\ ack_map' = [ack_map EXCEPT ![s] = Append(ack_map[s], SeqNum(m))]
           \/ SendShort(s) /\ Fail(s, "EIO") /\ UNCHANGED ack_map
    BY DEF WriteMessage
  <1>2. Peer(s) \in Side /\ Peer(s) # s /\ Peer(Peer(s)) = s
        /\ \A u \in Side : u = s \/ u = Peer(s)
    BY TwoSides
  <1>3. m \in Message
    BY <1>1, TailType DEF TypeOK
  <1>4. PICK y \in Num : y = SeqNum(m)
    BY <1>3, FrameTypes DEF Num
  <1>5. /\ Frame("MSG", m) \in Frames /\ Frame("MSG", m).type = "MSG"
        /\ Frame("MSG", m).body = m
    BY <1>3, FrameTypes DEF Frame
  <1> HIDE DEF m
  <1>6. hpc'[Peer(s)] = hpc[Peer(s)] /\ hpc'[s] # "ack"
    <2>1. \E where \in {"more", "cleanup"} : goto(s, where)
      BY <1>1 DEF Fail
    <2>2. hpc \in [Side -> PC]
      BY DEF TypeOK
    <2> QED
      BY <1>2, <2>1, <2>2 DEF goto
  <1>7. CauseKept(s)
    BY <1>1 DEF CauseKept, Causes
  <1>8. CountsAreNumbers /\ CountsAreNumbers'
    BY CountTypes, PTL
  <1>9. CASE SendShort(s) /\ UNCHANGED ack_map
    <2>1. AcksQuiet
      BY <1>1, <1>2, <1>6, <1>9, SendOther DEF AcksQuiet
    <2> QED
      BY <1>7, <2>1, QuietKeeps
  <1>10. CASE /\ SendAll(s, Frame("MSG", m)) /\ UNCHANGED cause
              /\ ack_map' = [ack_map EXCEPT ![s] = Append(ack_map[s], SeqNum(m))]
    <2>1. /\ Data(sock'[Peer(s)]) = Append(Data(sock[Peer(s)]), m)
          /\ Acks(sock'[Peer(s)]) = Acks(sock[Peer(s)]) /\ sock'[s] = sock[s]
      <3>1. PICK f \in Frames : f = Frame("MSG", m) /\ f.type = "MSG" /\ f.body = m
        BY <1>5
      <3>2. SendAll(s, f)
        BY <1>10, <3>1
      <3> QED
        BY <3>1, <3>2, SendAllOfType, SendAllOther DEF Data, Acks
    <2>2. ack_map'[s] = Append(ack_map[s], y) /\ ack_map'[Peer(s)] = ack_map[Peer(s)]
      BY <1>2, <1>4, <1>10 DEF TypeOK
    <2>3. Balanced(Peer(s))
      <3>1. ASSUME NEW n \in Num
            PROVE  /\ Waiting(Peer(s), n)' = Waiting(Peer(s), n)
                   /\ Coming(Peer(s), n)' = Coming(Peer(s), n)
                   /\ Now(Peer(s), n)' = Now(Peer(s), n)
                   /\ Back(Peer(s), n)' = Back(Peer(s), n)
        BY <1>1, <1>2, <1>6, <2>1, <2>2 DEF Waiting, Coming, Now, Back
      <3> QED
        BY <3>1 DEF Balanced
    <2>4. \A n \in Num : Waiting(s, n)' = Waiting(s, n) + (IF y = n THEN 1 ELSE 0)
      <3>1. PICK a \in Seq(Num) : a = ack_map[s]
        BY AckTypes
      <3>2. \A n \in Num : Count(Append(a, y), n) = Count(a, n) + (IF y = n THEN 1 ELSE 0)
        <4>1. TAKE n \in Num
        <4> QED
          BY SMTT(60), CountAppend
      <3> QED
        BY <2>2, <3>1, <3>2 DEF Waiting
    <2>5. \A n \in Num : Coming(s, n)' = Coming(s, n) + (IF y = n THEN 1 ELSE 0)
      <3>1. PICK q \in Seq(Message) : q = Data(sock[Peer(s)])
        BY QueuesType
      <3>2. SeqNums(q) \in Seq(Num) /\ SeqNums(Append(q, m)) = Append(SeqNums(q), SeqNum(m))
        BY <1>3, SeqNumsType
      <3>3. PICK a \in Seq(Num) : a = SeqNums(q)
        BY <3>2
      <3>4. \A n \in Num : Count(Append(a, y), n) = Count(a, n) + (IF y = n THEN 1 ELSE 0)
        <4>1. TAKE n \in Num
        <4> QED
          BY SMTT(60), CountAppend
      <3>5. SeqNums(Data(sock'[Peer(s)])) = Append(a, y)
        BY <1>4, <2>1, <3>1, <3>2, <3>3
      <3>6. SeqNums(Data(sock[Peer(s)])) = a
        BY <3>1, <3>3
      <3> QED
        BY <3>4, <3>5, <3>6 DEF Coming
    <2>6. ASSUME NEW n \in Num PROVE Now(s, n)' = Now(s, n) /\ Back(s, n)' = Back(s, n)
      BY <1>1, <1>6, <2>1 DEF Now, Back
    <2>7. Balanced(s)
      BY <1>2, <1>8, <2>4, <2>5, <2>6 DEF Balanced, CountsAreNumbers
    <2> QED
      BY <1>2, <1>10, <2>3, <2>7, KeepCounts
  <1> QED
    BY <1>1, <1>9, <1>10

LEMMA CountsStep ==
    TypeOK /\ AcksCounted /\ [Next]_vars => AcksCounted'
  <1> SUFFICES ASSUME TypeOK, AcksCounted, [Next]_vars PROVE AcksCounted'
    OBVIOUS
  <1> USE DEF queues, inbox, life, conn
  <1>0. TypeOK' /\ hpc \in [Side -> PC]
    BY TypeStep DEF TypeOK
  <1>1. ASSUME NEW s \in Side, CauseKept(s), UNCHANGED <<ack_map, to_ack>>,
               \/ SendShort(s)
               \/ \E f \in Frames : f.type \notin {"MSG", "ACK"} /\ SendAll(s, f)
               \/ \E kind : kind \notin {"MSG", "ACK"} /\ ReadFrame(s, kind)
               \/ UNCHANGED sock,
               UNCHANGED hpc \/ (hpc[s] # "ack" /\ \E where \in PC \ {"ack"} : goto(s, where))
        PROVE  AcksCounted'
    <2>1. \A u \in Side : hpc'[u] = "ack" <=> hpc[u] = "ack"
      BY <1>0, <1>1 DEF goto
    <2>2. AcksQuiet
      BY <1>1, <2>1, SendOther DEF AcksQuiet
    <2> QED
      BY <1>0, <1>1, <2>2, QuietKeeps
  <1>2. ASSUME NEW s \in Side, NEW t \in Senders[s], add_message_step(s, t)
        PROVE  AcksCounted'
    BY <1>1, <1>2 DEF add_message_step, add_message, add_message_signal, CauseKept
  <1>3. ASSUME NEW s \in Side,
               get_message(s) \/ get_message_timeout(s) \/ end_handler(s) \/ close_fd(s)
        PROVE  AcksCounted'
    BY <1>1, <1>3 DEF get_message, get_message_lock, get_message_pop, get_message_wait,
       get_message_timeout, end_handler, close_fd, CauseKept
  <1>4. ASSUME NEW s \in Side,
               \/ Select(s) \/ SkipRead(s) \/ ReadWakeup(s) \/ LockOut(s)
               \/ EndWrite(s) \/ handler_cleanup(s)
        PROVE  AcksCounted'
    <2>1. UNCHANGED <<ack_map, to_ack, sock, cause>>
      BY <1>4 DEF Select, SkipRead, ReadWakeup, LockOut, EndWrite, handler_cleanup
    <2>2. hpc[s] # "ack" /\ \E where \in PC \ {"ack"} : goto(s, where)
      BY <1>4 DEF Select, SkipRead, EndRead, ReadWakeup, LockOut, EndWrite,
         handler_cleanup, PC
    <2> QED
      BY <1>1, <2>1, <2>2 DEF CauseKept
  <1>5. ASSUME NEW s \in Side, ReadKeepAlive(s) PROVE AcksCounted'
    <2>1. UNCHANGED <<ack_map, to_ack, cause>> /\ ReadFrame(s, "KA") /\ hpc[s] # "ack"
      BY <1>5 DEF ReadKeepAlive, ReadFrame
    <2>2. \E where \in PC \ {"ack"} : goto(s, where)
      BY <1>5 DEF ReadKeepAlive, EndRead, PC
    <2>3. "KA" \notin {"MSG", "ACK"}
      OBVIOUS
    <2> QED
      BY <1>1, <2>1, <2>2, <2>3 DEF CauseKept
  <1>6. ASSUME NEW s \in Side, ReadShort(s) \/ Expire(s) PROVE AcksCounted'
    <2>1. UNCHANGED <<ack_map, to_ack, sock>> /\ hpc[s] # "ack"
      BY <1>6 DEF ReadShort, Expire
    <2>2. \E where \in PC \ {"ack"} : goto(s, where)
      BY <1>6 DEF ReadShort, Expire, Fail, PC
    <2>3. CauseKept(s)
      BY <1>6 DEF ReadShort, Expire, CauseKept, Causes
    <2> QED
      BY <1>1, <2>1, <2>2, <2>3
  <1>7. ASSUME NEW s \in Side, EndTurn(s) PROVE AcksCounted'
    <2>1. UNCHANGED <<ack_map, to_ack>> /\ hpc[s] # "ack"
      BY <1>7 DEF EndTurn
    <2>2. \E where \in PC \ {"ack"} : goto(s, where)
      BY <1>7 DEF EndTurn, TestKill, Fail, PC
    <2>3. CauseKept(s)
      BY <1>7 DEF EndTurn, TestKill, CauseKept, Causes
    <2>4. Frame("KA", 0) \in Frames /\ Frame("KA", 0).type \notin {"MSG", "ACK"}
      BY FrameTypes DEF Frame
    <2>5. UNCHANGED sock \/ SendAll(s, Frame("KA", 0)) \/ SendShort(s)
      BY <1>7 DEF EndTurn
    <2> QED
      BY <1>1, <2>1, <2>2, <2>3, <2>4, <2>5
  <1>8. ASSUME NEW s \in Side, handle_connection(s) PROVE AcksCounted'
    BY <1>0, <1>4, <1>5, <1>6, <1>7, <1>8, ReadAckCounts, ReadMessageCounts,
       WriteAckCounts, WriteMessageCounts
       DEF handle_connection, read_message, write_messages
  <1>9. CASE UNCHANGED vars
    <2>1. AcksQuiet /\ UNCHANGED cause
      BY <1>9 DEF vars, AcksQuiet
    <2>2. "client" \in Side
      BY DEF Side
    <2> QED
      BY <1>0, <2>1, <2>2, QuietKeeps DEF CauseKept
  <1> QED
    BY <1>2, <1>3, <1>8, <1>9 DEF Next

LEMMA CountsInit == Init => AcksCounted
  <1> SUFFICES ASSUME Init, NEW s \in Side, NEW n \in Num
               PROVE  Waiting(s, n) = Coming(s, n) + Now(s, n) + Back(s, n)
    BY DEF AcksCounted
  <1>1. /\ ack_map[s] = <<>> /\ sock[s] = <<>> /\ sock[Peer(s)] = <<>>
        /\ hpc[Peer(s)] = "select"
    BY PeerType DEF Init
  <1>2. Data(<<>>) = <<>> /\ Acks(<<>>) = <<>>
    BY FrameTypes, BodiesOne DEF Data, Acks
  <1>3. SeqNums(<<>>) = <<>> /\ Count(<<>>, n) = 0
    <2>1. Places(<<>>, n) = {}
      BY DEF Places
    <2>2. SeqNums(<<>>) = <<>>
      <3>1. SeqNums(<<>>) \in Seq(Num) /\ Len(SeqNums(<<>>)) = 0
        BY DEF SeqNums
      <3> QED
        BY <3>1, EmptySeq
    <2> QED
      BY <2>1, <2>2, FS_EmptySet DEF Count
  <1> QED
    BY <1>1, <1>2, <1>3 DEF Waiting, Coming, Now, Back

(* What each end waits to have acknowledged is under way, however often a      *)
(* sequence number is used, as long as the other end has not failed: so no     *)
(* acknowledgement is unexpected.                                              *)
THEOREM AcksUnderWay == Spec => []AcksMatch
  <1>1. Init => TypeOK /\ AcksCounted
    BY WakeupInit, CountsInit DEF WakeupInv
  <1>2. TypeOK /\ AcksCounted /\ [Next]_vars => (TypeOK /\ AcksCounted)'
    BY TypeStep, CountsStep
  <1>3. TypeOK /\ AcksCounted => AcksMatch
    BY AcksSame
  <1> QED
    BY <1>1, <1>2, <1>3, PTL DEF Spec

-------------------------------------------------------------------------------
(* The connection stays up as long as nobody ends it.  What the network and    *)
(* the socket buffers have to hold for one direction: a frame for every        *)
(* message either side can take (itself, or its acknowledgement) and the       *)
(* keep-alives; nobody is slow.                                                *)
RoomForAll ==
    /\ ~Slow /\ IsFiniteSet(Thread)
    /\ \A s \in Side : Cardinality(Message) + MaxKA[s] <= SOCK_CAP

(* The messages taken, and what s has sent and may yet send on their account.  *)
Sent == {m \in Message : m[2] <= nsent[m[1]]}
Acking(s) == IF hpc[s] = "ack" THEN 1 ELSE 0
(* Frames on their way from s, messages s has yet to write, messages on their  *)
(* way to s that it will have to acknowledge; Load(s): the most frames that    *)
(* the other side's socket may still come to hold.                             *)
OnWay(s) == Len(sock[Peer(s)])
ToSend(s) == Len(out_queue[s])
ToAck(s) == Len(Data(sock[s]))
Load(s) == OnWay(s) + ToSend(s) + Acking(s) + ToAck(s) + ToSend(Peer(s))
Bounded(s) == Load(s) <= Cardinality(Sent) + nka[s]

(* The connection thread of s runs; when it is about to read there is a        *)
(* frame, and no half frame is on its way.                                     *)
Alive(s) ==
    /\ cause[s] = "none" /\ fd_open[s] /\ ~freed[s] /\ hpc[s] \notin {"cleanup", "dead"}
    /\ hpc[s] = "read" => sock[s] # <<>>
    /\ Bodies(sock[s], "PART") = <<>>
(* The inductive invariant of StaysUp.                                         *)
UpInv ==
    /\ \A s \in Side : nka[s] <= MaxKA[s]
    /\ (\A s \in Side : ~kill[s]) => \A s \in Side : Alive(s) /\ Bounded(s)

(* The messages are finitely many, those taken too.                            *)
LEMMA SentFinite ==
    ASSUME RoomForAll
    PROVE  /\ IsFiniteSet(Sent) /\ Cardinality(Sent) \in Nat
           /\ Cardinality(Message) \in Nat /\ Cardinality(Sent) <= Cardinality(Message)
  <1>1. IsFiniteSet(1 .. MaxMsgs)
    BY ProtocolAssumption, FS_Interval
  <1>2. IsFiniteSet(Message)
    BY <1>1, FS_Product DEF Message, RoomForAll
  <1>3. Sent \subseteq Message
    BY DEF Sent
  <1> QED
    BY <1>2, <1>3, FS_Subset, FS_CardinalityType
LEMMA SentNext ==
    ASSUME RoomForAll
    PROVE  IsFiniteSet(Sent') /\ Cardinality(Sent)' \in Nat
  <1>1. IsFiniteSet(1 .. MaxMsgs)
    BY ProtocolAssumption, FS_Interval
  <1>2. IsFiniteSet(Message)
    BY <1>1, FS_Product DEF Message, RoomForAll
  <1>3. Sent' \subseteq Message
    BY DEF Sent
  <1>4. IsFiniteSet(Sent')
    BY <1>2, <1>3, FS_Subset
  <1> QED
    BY <1>4, FS_CardinalityType

LoadsAreNumbers ==
    \A s \in Side :
        /\ OnWay(s) \in Nat /\ ToSend(s) \in Nat /\ ToSend(Peer(s)) \in Nat
        /\ Acking(s) \in Nat /\ ToAck(s) \in Nat /\ nka[s] \in Nat
LEMMA LoadTypes == TypeOK => LoadsAreNumbers
  <1> SUFFICES ASSUME TypeOK PROVE LoadsAreNumbers
    OBVIOUS
  <1>1. ASSUME NEW s \in Side
        PROVE  /\ Len(sock[s]) \in Nat /\ ToSend(s) \in Nat
               /\ Acking(s) \in Nat /\ ToAck(s) \in Nat /\ nka[s] \in Nat
    <2>1. sock[s] \in Seq(Frames) /\ out_queue[s] \in Seq(Message) /\ nka[s] \in Nat
      BY DEF TypeOK
    <2>2. Data(sock[s]) \in Seq(Message)
      BY <2>1, BodiesType
    <2> QED
      BY <2>1, <2>2, LenProperties DEF Acking, ToSend, ToAck
  <1> QED
    BY <1>1, PeerType DEF LoadsAreNumbers, OnWay

LEMMA LoadNumber == TypeOK => \A s \in Side : Load(s) \in Nat
  <1> SUFFICES ASSUME TypeOK, NEW s \in Side PROVE Load(s) \in Nat
    OBVIOUS
  <1>1. /\ OnWay(s) \in Nat /\ ToSend(s) \in Nat /\ ToSend(Peer(s)) \in Nat
        /\ Acking(s) \in Nat /\ ToAck(s) \in Nat
    BY LoadTypes DEF LoadsAreNumbers
  <1> QED
    BY <1>1 DEF Load

(* While s has something to send there is room for it.                         *)
LEMMA RoomLeft ==
    ASSUME RoomForAll, TypeOK, NEW s \in Side, Bounded(s), nka[s] <= MaxKA[s],
           hpc[s] = "ack" \/ out_queue[s] # <<>> \/ nka[s] < MaxKA[s]
    PROVE  OnWay(s) \in Nat /\ OnWay(s) < SOCK_CAP
  <1>1. /\ OnWay(s) \in Nat /\ ToSend(s) \in Nat /\ ToSend(Peer(s)) \in Nat
        /\ Acking(s) \in Nat /\ ToAck(s) \in Nat /\ nka[s] \in Nat
    BY LoadTypes DEF LoadsAreNumbers
  <1>2. /\ Cardinality(Sent) \in Nat /\ Cardinality(Message) \in Nat
        /\ Cardinality(Sent) <= Cardinality(Message)
    BY SentFinite
  <1>3. MaxKA[s] \in Nat /\ SOCK_CAP \in Nat /\ Cardinality(Message) + MaxKA[s] <= SOCK_CAP
    BY ProtocolAssumption DEF RoomForAll
  <1>4. hpc[s] = "ack" => Acking(s) = 1
    BY DEF Acking
  <1>5. out_queue[s] # <<>> => ToSend(s) > 0
    <2>1. PICK q \in Seq(Message) : q = out_queue[s]
      BY DEF TypeOK
    <2>2. q # <<>> => Len(q) > 0
      BY LenProperties, EmptySeq
    <2> QED
      BY <2>1, <2>2 DEF ToSend
  <1>6. OnWay(s) + ToSend(s) + Acking(s) + ToAck(s) + ToSend(Peer(s))
           <= Cardinality(Sent) + nka[s]
    BY DEF Bounded, Load
  <1>7. Acking(s) > 0 \/ ToSend(s) > 0 \/ nka[s] < MaxKA[s]
    BY <1>4, <1>5
  <1>8. PICK total \in Nat : total = Cardinality(Sent) + nka[s]
    BY <1>1, <1>2
  <1>9. total <= SOCK_CAP /\ (nka[s] < MaxKA[s] => total < SOCK_CAP)
    BY SMTT(30), <1>1, <1>2, <1>3, <1>8
  <1>10. OnWay(s) <= total /\ (Acking(s) > 0 \/ ToSend(s) > 0 => OnWay(s) < total)
    BY <1>1, <1>6, <1>8
  <1> QED
    BY <1>1, <1>3, <1>7, <1>9, <1>10

(* With room, and the other side alive, send_bytes writes the whole frame.     *)
LEMMA NoShort ==
    ASSUME RoomForAll, NEW s \in Side, Alive(Peer(s)), OnWay(s) < SOCK_CAP,
           OnWay(s) \in Nat
    PROVE  ~SendShort(s)
  BY ProtocolAssumption DEF RoomForAll, Alive, SendShort, OnWay

(* An acknowledgement that arrives is waited for.                              *)
LEMMA Expected ==
    ASSUME TypeOK, AcksCounted, NEW s \in Side, cause[Peer(s)] = "none",
           ReadFrame(s, "ACK")
    PROVE  Contains(ack_map[s], Head(sock[s]).body)
  <1> DEFINE k == Head(sock[s]).body
  <1>1. /\ Head(sock[s]) \in Frames /\ Head(sock[s]).type = "ACK"
        /\ Acks(sock[s]) = <<k>> \o Acks(sock'[s])
    BY ReadFrameBodies DEF Acks
  <1>2. PICK y \in Num : y = k
    BY <1>1 DEF Frames, Num
  <1> HIDE DEF k
  <1>3. PICK q \in Seq(Num) : q = Acks(sock'[s])
    <2>1. sock'[s] \in Seq(Frames)
      <3>1. sock[s] # <<>> /\ sock[s] \in Seq(Frames) /\ sock'[s] = Tail(sock[s])
        BY DEF ReadFrame, Arrived, TypeOK
      <3> QED
        BY <3>1, TailType
    <2> QED
      BY <2>1, BodiesType DEF Num
  <1>4. Back(s, y) # 0
    <2>1. Count(<<y>> \o q, y) = Count(q, y) + 1
      BY CountFront
    <2>2. Count(q, y) \in Nat
      BY PlacesFinite
    <2> QED
      BY <1>1, <1>2, <1>3, <2>1, <2>2 DEF Back
  <1>5. CountsAreNumbers
    BY CountTypes
  <1>6. Waiting(s, y) # 0
    <2>1. Waiting(s, y) = Coming(s, y) + Now(s, y) + Back(s, y)
      BY DEF AcksCounted
    <2> QED
      BY <1>4, <1>5, <2>1 DEF CountsAreNumbers
  <1>7. \E i \in 1 .. Len(ack_map[s]) : ack_map[s][i] = y
    BY <1>6, AckTypes, PlacesFinite DEF Waiting
  <1> QED
    BY <1>2, <1>7 DEF Contains, k

(* No step that goes on ends a side.                                           *)
GoesOn(s) ==
    /\ UNCHANGED <<cause, freed, fd_open>>
    /\ \/ UNCHANGED <<hpc, sock>>
       \/ \E where \in PC \ {"cleanup", "dead"} :
             /\ goto(s, where)
             /\ where = "read" => UNCHANGED sock /\ sock[s] # <<>>
    /\ \/ UNCHANGED sock
       \/ \E kind : kind # "PART" /\ ReadFrame(s, kind)
       \/ \E f \in Frames : f.type # "PART" /\ SendAll(s, f)

LEMMA AliveStep ==
    ASSUME TypeOK, \A u \in Side : Alive(u), NEW s \in Side, GoesOn(s)
    PROVE  \A u \in Side : Alive(u)'
  <1>0. /\ Peer(s) \in Side /\ Peer(s) # s /\ \A u \in Side : u = s \/ u = Peer(s)
        /\ hpc \in [Side -> PC]
    BY TwoSides DEF TypeOK
  <1>1. \A u \in Side : hpc'[u] \notin {"cleanup", "dead"}
    BY <1>0 DEF GoesOn, goto, Alive
  <1>2. \A u \in Side : Bodies(sock'[u], "PART") = <<>>
    <2>1. ASSUME NEW kind, kind # "PART", ReadFrame(s, kind)
          PROVE  \A u \in Side : Bodies(sock'[u], "PART") = <<>>
      <3>1. /\ Bodies(sock[s], "PART") = Bodies(sock'[s], "PART")
            /\ sock'[Peer(s)] = sock[Peer(s)]
        BY <2>1, ReadFrameBodies
      <3> QED
        BY <1>0, <3>1 DEF Alive
    <2>2. ASSUME NEW f \in Frames, f.type # "PART", SendAll(s, f)
          PROVE  \A u \in Side : Bodies(sock'[u], "PART") = <<>>
      <3>1. /\ Bodies(sock'[Peer(s)], "PART") = Bodies(sock[Peer(s)], "PART")
            /\ sock'[s] = sock[s]
        BY <2>2, SendAllBodies
      <3> QED
        BY <1>0, <3>1 DEF Alive
    <2>3. CASE UNCHANGED sock
      BY <2>3 DEF Alive
    <2> QED
      BY <2>1, <2>2, <2>3 DEF GoesOn
  <1>3. ASSUME NEW u \in Side, hpc'[u] = "read" PROVE sock'[u] # <<>>
    <2>1. CASE UNCHANGED sock /\ hpc'[u] = hpc[u]
      BY <1>3, <2>1 DEF Alive
    <2>2. CASE u = s /\ ~UNCHANGED <<hpc, sock>>
      BY <1>0, <1>3, <2>2 DEF GoesOn, goto, Alive
    <2>3. CASE u # s
      <3>1. hpc'[u] = hpc[u] /\ u = Peer(s) /\ sock[u] # <<>>
        BY <1>0, <1>3, <2>3 DEF GoesOn, goto, Alive
      <3>2. ASSUME NEW f \in Frames, SendAll(s, f) PROVE sock'[u] # <<>>
        <4>1. sock'[u] = Append(sock[u], f) /\ sock[u] \in Seq(Frames)
          BY <1>0, <3>1, <3>2 DEF SendAll, TypeOK
        <4> QED
          BY <4>1, AppendProperties
      <3>3. ASSUME NEW kind, ReadFrame(s, kind) PROVE sock'[u] # <<>>
        BY <1>0, <3>1, <3>3, ReadFrameBodies
      <3> QED
        BY <3>1, <3>2, <3>3 DEF GoesOn
    <2> QED
      BY <2>1, <2>2, <2>3
  <1> QED
    BY <1>1, <1>2, <1>3 DEF GoesOn, Alive

LEMMA LoadTypesNext ==
    TypeOK' => LoadsAreNumbers' /\ \A s \in Side : Load(s)' \in Nat
  <1>1. TypeOK => LoadsAreNumbers /\ \A s \in Side : Load(s) \in Nat
    BY LoadTypes, LoadNumber
  <1>2. TypeOK' => (LoadsAreNumbers /\ \A s \in Side : Load(s) \in Nat)'
    BY <1>1, PTL
  <1> QED
    BY <1>2

(* What is yet to be sent: a message taken adds one for either side, all else  *)
(* moves what is there.                                                        *)
Spread(u) ==
    /\ Cardinality(Sent)' - Cardinality(Sent) + nka'[u] - nka[u] >= Load(u)' - Load(u)
LEMMA BoundedStep ==
    ASSUME RoomForAll, TypeOK, TypeOK', NEW u \in Side, Bounded(u), Spread(u)
    PROVE  Bounded(u)'
  <1>1. LoadsAreNumbers /\ LoadsAreNumbers' /\ Load(u) \in Nat /\ Load(u)' \in Nat
    BY LoadTypes, LoadNumber, LoadTypesNext
  <1>2. Cardinality(Sent) \in Nat /\ Cardinality(Sent)' \in Nat
    BY SentFinite, SentNext
  <1>3. Load(u) \in Nat /\ nka[u] \in Nat
    BY <1>1 DEF LoadsAreNumbers
  <1>4. Load(u)' \in Nat /\ nka'[u] \in Nat
    BY <1>1 DEF LoadsAreNumbers
  <1> QED
    BY <1>2, <1>3, <1>4 DEF Bounded, Spread

-------------------------------------------------------------------------------
(* What each step does to the numbers.                                         *)
Goes(s) == GoesOn(s) /\ \A u \in Side : Spread(u)

LEMMA SentSame == UNCHANGED nsent => UNCHANGED Cardinality(Sent)
  BY DEF Sent

(* add_message takes a message that was not taken before.                      *)
LEMMA SentMore ==
    ASSUME RoomForAll, TypeOK, NEW s \in Side, NEW t \in Senders[s], add_message(s, t)
    PROVE  Cardinality(Sent)' = Cardinality(Sent) + 1
  <1> DEFINE m == <<t, nsent[t] + 1>>
  <1>1. /\ t \in Thread /\ MaxMsgs \in Nat /\ nsent \in [Thread -> 0 .. MaxMsgs]
        /\ nsent[t] < MaxMsgs
        /\ nsent' = [nsent EXCEPT ![t] = nsent[t] + 1]
    BY ThreadType, ProtocolAssumption DEF TypeOK, add_message
  <1>2. m \in Message /\ m \notin Sent
    BY <1>1 DEF Message, Sent
  <1>3. ASSUME NEW n \in Message
        PROVE  n \in Sent' <=> n \in Sent \/ n = m
    <2>1. /\ n[1] \in Thread /\ n[2] \in 1 .. MaxMsgs /\ n = <<n[1], n[2]>>
      BY DEF Message
    <2>2. CASE n[1] # t
      <3>1. nsent'[n[1]] = nsent[n[1]] /\ n # m
        BY <1>1, <2>1, <2>2
      <3> QED
        BY <3>1 DEF Sent
    <2>3. CASE n[1] = t
      <3>1. nsent'[n[1]] = nsent[t] + 1 /\ nsent[t] \in Nat /\ n[2] \in Nat
        BY <1>1, <2>1, <2>3
      <3>2. n = m <=> n[2] = nsent[t] + 1
        BY <2>1, <2>3
      <3>3. n \in Sent' <=> n[2] <= nsent[t] + 1
        BY <3>1 DEF Sent
      <3>4. n \in Sent <=> n[2] <= nsent[t]
        BY <2>3 DEF Sent
      <3> QED
        BY <3>1, <3>2, <3>3, <3>4
    <2> QED
      BY <2>2, <2>3
  <1>4. Sent' = Sent \cup {m}
    <2> HIDE DEF m
    <2>1. \A n \in Sent' : n \in Message
      BY DEF Sent
    <2>2. \A n \in Sent : n \in Message
      BY DEF Sent
    <2> QED
      BY <1>2, <1>3, <2>1, <2>2
  <1> HIDE DEF m
  <1> QED
    BY <1>2, <1>4, SentFinite, FS_AddElement

(* What a frame written, and a frame read, change.                             *)
LEMMA SendAllCounts ==
    ASSUME TypeOK, NEW s \in Side, NEW f \in Frames, SendAll(s, f)
    PROVE  /\ OnWay(s)' = OnWay(s) + 1
           /\ OnWay(Peer(s))' = OnWay(Peer(s))
           /\ ToAck(Peer(s))' = ToAck(Peer(s)) + (IF f.type = "MSG" THEN 1 ELSE 0)
           /\ ToAck(s)' = ToAck(s)
  <1>1. /\ Peer(s) \in Side /\ Peer(s) # s /\ Peer(Peer(s)) = s
        /\ sock \in [Side -> Seq(Frames)]
        /\ sock' = [sock EXCEPT ![Peer(s)] = Append(sock[Peer(s)], f)]
    BY TwoSides DEF TypeOK, SendAll
  <1>2. sock'[Peer(s)] = Append(sock[Peer(s)], f) /\ sock'[s] = sock[s]
    BY <1>1
  <1>3. Len(sock'[Peer(s)]) = Len(sock[Peer(s)]) + 1
    BY <1>1, <1>2, AppendProperties
  <1>4. Data(sock'[Peer(s)]) = IF f.type = "MSG" THEN Append(Data(sock[Peer(s)]), f.body)
                               ELSE Data(sock[Peer(s)])
    BY SendAllBodies DEF Data
  <1>5. Data(sock[Peer(s)]) \in Seq(Message)
    BY <1>1, BodiesType
  <1>6. f.type = "MSG" => f.body \in Message
    BY FrameTypes
  <1>7. Len(Data(sock'[Peer(s)])) =
            Len(Data(sock[Peer(s)])) + (IF f.type = "MSG" THEN 1 ELSE 0)
    <2>1. CASE f.type = "MSG"
      BY <1>4, <1>5, <1>6, <2>1, AppendProperties
    <2>2. CASE f.type # "MSG"
      BY <1>4, <1>5, <2>2, LenProperties
    <2> QED
      BY <2>1, <2>2
  <1> QED
    BY <1>1, <1>2, <1>3, <1>7 DEF OnWay, ToAck

LEMMA ReadFrameCounts ==
    ASSUME TypeOK, NEW s \in Side, NEW kind, ReadFrame(s, kind)
    PROVE  /\ OnWay(Peer(s)) = OnWay(Peer(s))' + 1
           /\ OnWay(s)' = OnWay(s)
           /\ ToAck(s) = ToAck(s)' + (IF kind = "MSG" THEN 1 ELSE 0)
           /\ ToAck(Peer(s))' = ToAck(Peer(s))
  <1>1. /\ Peer(s) \in Side /\ Peer(s) # s /\ Peer(Peer(s)) = s
        /\ sock \in [Side -> Seq(Frames)] /\ sock[s] # <<>>
        /\ sock' = [sock EXCEPT ![s] = Tail(sock[s])]
    BY TwoSides DEF TypeOK, ReadFrame, Arrived
  <1>2. sock'[s] = Tail(sock[s]) /\ sock'[Peer(s)] = sock[Peer(s)]
    BY <1>1
  <1>3. /\ sock'[s] \in Seq(Frames) /\ Len(sock'[s]) = Len(sock[s]) - 1
        /\ Len(sock[s]) \in Nat
    <2>1. PICK q \in Seq(Frames) : q = sock[s]
      BY <1>1
    <2> QED
      BY <1>1, <1>2, <2>1, TailType, LenProperties
  <1>4. Data(sock[s]) = IF kind = "MSG" THEN <<Head(sock[s]).body>> \o Data(sock'[s])
                        ELSE Data(sock'[s])
    BY ReadFrameBodies DEF Data
  <1>5. Data(sock'[s]) \in Seq(Message)
    BY <1>3, BodiesType
  <1>6. kind = "MSG" => Head(sock[s]).body \in Message
    BY ReadFrameBodies, FrameTypes
  <1>7. Len(Data(sock[s])) = Len(Data(sock'[s])) + (IF kind = "MSG" THEN 1 ELSE 0)
    <2>1. CASE kind = "MSG"
      <3>1. PICK b \in Message : b = Head(sock[s]).body
        BY <1>6, <2>1
      <3>2. PICK q \in Seq(Message) : q = Data(sock'[s])
        BY <1>5
      <3>3. <<b>> \in Seq(Message) /\ Len(<<b>>) = 1
        OBVIOUS
      <3>4. Len(<<b>> \o q) = Len(q) + 1
        BY <3>3, ConcatProperties, LenProperties
      <3> QED
        BY <1>4, <2>1, <3>1, <3>2, <3>4
    <2>2. CASE kind # "MSG"
      BY <1>4, <1>5, <2>2, LenProperties
    <2> QED
      BY <2>1, <2>2
  <1> QED
    BY <1>1, <1>2, <1>3, <1>7 DEF OnWay, ToAck


(* Steps that send and receive nothing.                                        *)
Turn(s) ==
    \E where \in PC \ {"ack", "cleanup", "dead"} :
        goto(s, where) /\ hpc[s] # "ack" /\ (where = "read" => sock[s] # <<>>)
NoTraffic(s) ==
    /\ UNCHANGED <<cause, freed, fd_open, sock, out_queue, nsent, nka>>
    /\ UNCHANGED hpc \/ Turn(s)
LEMMA NoTrafficGoes ==
    ASSUME RoomForAll, TypeOK, NEW s \in Side, NoTraffic(s)
    PROVE  Goes(s)
  <1>1. GoesOn(s)
    <2>1. CASE UNCHANGED hpc
      BY <2>1 DEF NoTraffic, GoesOn
    <2>2. CASE Turn(s)
      <3>1. PICK where \in PC \ {"ack", "cleanup", "dead"} :
                goto(s, where) /\ (where = "read" => sock[s] # <<>>)
        BY <2>2 DEF Turn
      <3> QED
        BY <3>1 DEF NoTraffic, GoesOn
    <2> QED
      BY <2>1, <2>2 DEF NoTraffic
  <1>2. ASSUME NEW u \in Side PROVE Spread(u)
    <2>1. Cardinality(Sent)' = Cardinality(Sent)
      BY SentSame DEF NoTraffic
    <2>2. Acking(u)' = Acking(u)
      BY DEF NoTraffic, Turn, goto, Acking, TypeOK
    <2>3. /\ OnWay(u)' = OnWay(u) /\ ToSend(u)' = ToSend(u) /\ ToAck(u)' = ToAck(u)
          /\ ToSend(Peer(u))' = ToSend(Peer(u))
      BY DEF NoTraffic, OnWay, ToSend, ToAck
    <2>4. nka'[u] = nka[u]
      BY DEF NoTraffic
    <2>5. Load(u)' = Load(u)
      BY <2>2, <2>3 DEF Load
    <2>6. Load(u) \in Nat /\ nka[u] \in Nat /\ Cardinality(Sent) \in Nat
      BY LoadTypes, LoadNumber, SentFinite DEF LoadsAreNumbers
    <2> QED
      BY <2>1, <2>4, <2>5, <2>6 DEF Spread
  <1> QED
    BY <1>1, <1>2 DEF Goes

(* A message taken.                                                            *)
LEMMA AddGoes ==
    ASSUME RoomForAll, TypeOK, NEW s \in Side, NEW t \in Senders[s], add_message(s, t)
    PROVE  Goes(s)
  <1>1. UNCHANGED <<cause, freed, fd_open, hpc, sock, nka>>
    BY DEF add_message, life, conn
  <1>2. Cardinality(Sent)' = Cardinality(Sent) + 1
    BY SentMore
  <1>3. ToSend(s)' = ToSend(s) + 1 /\ ToSend(Peer(s))' = ToSend(Peer(s))
    <2>1. PICK q \in Seq(Message) : q = out_queue[s]
      BY DEF TypeOK
    <2>2. PICK m \in Message : m = <<t, nsent[t] + 1>>
      <3>1. /\ t \in Thread /\ MaxMsgs \in Nat /\ nsent[t] \in 0 .. MaxMsgs
            /\ nsent[t] < MaxMsgs
        BY ThreadType, ProtocolAssumption DEF TypeOK, add_message
      <3>2. nsent[t] + 1 \in 1 .. MaxMsgs
        BY <3>1
      <3> QED
        BY <3>1, <3>2 DEF Message
    <2>3. out_queue'[s] = Append(q, m) /\ out_queue'[Peer(s)] = out_queue[Peer(s)]
      BY <2>1, <2>2, TwoSides DEF add_message, TypeOK
    <2>4. Len(Append(q, m)) = Len(q) + 1
      BY AppendProperties
    <2> QED
      BY <2>1, <2>3, <2>4 DEF ToSend
  <1>4. ASSUME NEW u \in Side PROVE Spread(u)
    <2>1. Load(u)' = Load(u) + 1
      <3>1. OnWay(u)' = OnWay(u) /\ ToAck(u)' = ToAck(u) /\ Acking(u)' = Acking(u)
        BY <1>1 DEF OnWay, ToAck, Acking
      <3>2. /\ OnWay(u) \in Nat /\ ToSend(u) \in Nat /\ ToSend(Peer(u)) \in Nat
            /\ Acking(u) \in Nat /\ ToAck(u) \in Nat
        BY LoadTypes DEF LoadsAreNumbers
      <3>3. CASE u = s
        BY <1>3, <3>1, <3>2, <3>3 DEF Load
      <3>4. CASE u = Peer(s)
        <4>1. ToSend(u)' = ToSend(u) /\ ToSend(Peer(u))' = ToSend(Peer(u)) + 1
          BY <1>3, <3>4, TwoSides
        <4> QED
          BY <3>1, <3>2, <4>1 DEF Load
      <3> QED
        BY <3>3, <3>4, TwoSides
    <2>2. nka'[u] = nka[u]
      BY <1>1
    <2>3. Load(u) \in Nat /\ nka[u] \in Nat /\ Cardinality(Sent) \in Nat
      BY LoadTypes, LoadNumber, SentFinite DEF LoadsAreNumbers
    <2> QED
      BY <1>2, <2>1, <2>2, <2>3 DEF Spread
  <1> QED
    BY <1>1, <1>4 DEF Goes, GoesOn

(* Steps that receive a frame; a message is to be acknowledged.                *)
LEMMA ReadGoes ==
    ASSUME RoomForAll, TypeOK, TypeOK', NEW s \in Side, NEW kind, kind # "PART",
           ReadFrame(s, kind),
           UNCHANGED <<cause, freed, fd_open, out_queue, nsent, nka>>,
           NEW where \in PC \ {"read", "cleanup", "dead"}, goto(s, where),
           kind = "MSG" <=> where = "ack"
    PROVE  Goes(s)
  <1>1. GoesOn(s)
    BY DEF GoesOn
  <1>2. ASSUME NEW u \in Side PROVE Spread(u)
    <2>1. Cardinality(Sent)' = Cardinality(Sent) /\ nka'[u] = nka[u]
      BY SentSame
    <2>2. ToSend(u)' = ToSend(u) /\ ToSend(Peer(u))' = ToSend(Peer(u))
      BY DEF ToSend
    <2>0. hpc \in [Side -> PC] /\ hpc[s] = "read" /\ hpc' = [hpc EXCEPT ![s] = where]
      BY DEF ReadFrame, goto, TypeOK
    <2>9. PICK n \in {0, 1} : n = IF kind = "MSG" THEN 1 ELSE 0
      OBVIOUS
    <2>3. Acking(s) = 0 /\ Acking(s)' = n /\ Acking(Peer(s))' = Acking(Peer(s))
      BY <2>0, <2>9, TwoSides DEF Acking
    <2>4. /\ OnWay(u) \in Nat /\ ToSend(u) \in Nat /\ ToSend(Peer(u)) \in Nat
          /\ Acking(u) \in Nat /\ ToAck(u) \in Nat
      BY LoadTypes DEF LoadsAreNumbers
    <2>5. /\ OnWay(u)' \in Nat /\ Acking(u)' \in Nat /\ ToAck(u)' \in Nat
      BY LoadTypesNext DEF LoadsAreNumbers
    <2>6. /\ OnWay(Peer(s)) = OnWay(Peer(s))' + 1
          /\ OnWay(s)' = OnWay(s)
          /\ ToAck(s) = ToAck(s)' + n
          /\ ToAck(Peer(s))' = ToAck(Peer(s))
      BY <2>9, ReadFrameCounts
    <2>7. Load(u)' <= Load(u)
      <3>1. CASE u = s
        BY <2>2, <2>3, <2>4, <2>5, <2>6, <3>1 DEF Load
      <3>2. CASE u = Peer(s)
        BY <2>2, <2>3, <2>4, <2>5, <2>6, <3>2 DEF Load
      <3> QED
        BY <3>1, <3>2, TwoSides
    <2>8. /\ Load(u) \in Nat /\ nka[u] \in Nat /\ Cardinality(Sent) \in Nat
          /\ Load(u)' \in Nat
      BY LoadTypes, LoadNumber, LoadTypesNext, SentFinite DEF LoadsAreNumbers
    <2> QED
      BY <2>1, <2>7, <2>8 DEF Spread
  <1> QED
    BY <1>1, <1>2 DEF Goes

(* The sums for a frame written: at the sender it was counted already, or is   *)
(* a keep-alive; at the other side a message moves from one term to another.   *)
LEMMA SenderLoad ==
    ASSUME NEW s \in Side, LoadsAreNumbers, LoadsAreNumbers',
           NEW a \in Nat, NEW m \in Nat, NEW k \in Nat, a + m + k = 1,
           OnWay(s)' = OnWay(s) + 1, Acking(s) = a, Acking(s)' = 0,
           ToAck(s)' = ToAck(s), ToSend(s) = ToSend(s)' + m,
           ToSend(Peer(s))' = ToSend(Peer(s)), nka'[s] = nka[s] + k
    PROVE  Load(s)' - Load(s) <= nka'[s] - nka[s]
  <1>1. /\ OnWay(s) \in Nat /\ ToSend(s)' \in Nat /\ ToSend(Peer(s)) \in Nat
        /\ ToAck(s) \in Nat /\ nka[s] \in Nat
    BY DEF LoadsAreNumbers
  <1>2. Load(s) = OnWay(s) + (ToSend(s)' + m) + a + ToAck(s) + ToSend(Peer(s))
    BY DEF Load
  <1>3. Load(s)' = (OnWay(s) + 1) + ToSend(s)' + 0 + ToAck(s) + ToSend(Peer(s))
    BY DEF Load
  <1> QED
    BY <1>1, <1>2, <1>3
PeerMoves(u, m) ==
    /\ OnWay(u)' = OnWay(u) /\ Acking(u)' = Acking(u) /\ ToAck(u)' = ToAck(u) + m
    /\ ToSend(u)' = ToSend(u) /\ ToSend(Peer(u)) = ToSend(Peer(u))' + m
    /\ nka'[u] = nka[u]
LEMMA PeerLoad ==
    ASSUME NEW u \in Side, LoadsAreNumbers, LoadsAreNumbers', NEW m \in Nat,
           PeerMoves(u, m)
    PROVE  Load(u)' - Load(u) <= nka'[u] - nka[u]
  <1>1. /\ OnWay(u) \in Nat /\ ToSend(u) \in Nat /\ ToSend(Peer(u))' \in Nat
        /\ ToAck(u) \in Nat /\ Acking(u) \in Nat /\ nka[u] \in Nat /\ nka'[u] = nka[u]
    BY DEF LoadsAreNumbers, PeerMoves
  <1>2. Load(u) = OnWay(u) + ToSend(u) + Acking(u) + ToAck(u) + (ToSend(Peer(u))' + m)
    BY DEF Load, PeerMoves
  <1>3. Load(u)' = OnWay(u) + ToSend(u) + Acking(u) + (ToAck(u) + m) + ToSend(Peer(u))'
    BY DEF Load, PeerMoves
  <1> QED
    BY <1>1, <1>2, <1>3

(* Steps that send a frame: an acknowledgement that is due, a message that     *)
(* waits in out_queue, or a keep-alive.                                        *)
LEMMA SendGoes ==
    ASSUME RoomForAll, TypeOK, TypeOK', NEW s \in Side, NEW f \in Frames, f.type # "PART",
           SendAll(s, f),
           UNCHANGED <<cause, freed, fd_open, nsent>>,
           NEW where \in PC \ {"read", "ack", "cleanup", "dead"}, goto(s, where),
           \A u \in Side \ {s} : nka'[u] = nka[u] /\ out_queue'[u] = out_queue[u],
           \/ f.type = "ACK" /\ hpc[s] = "ack" /\ UNCHANGED <<nka, out_queue>>
           \/ /\ f.type = "MSG" /\ hpc[s] # "ack" /\ UNCHANGED nka
              /\ out_queue[s] # <<>> /\ out_queue'[s] = Tail(out_queue[s])
           \/ /\ f.type = "KA" /\ hpc[s] # "ack" /\ UNCHANGED out_queue
              /\ nka'[s] = nka[s] + 1
    PROVE  Goes(s)
  <1>1. GoesOn(s)
    BY DEF GoesOn
  <1>2. ASSUME NEW u \in Side PROVE Spread(u)
    <2>1. Cardinality(Sent)' = Cardinality(Sent) /\ Cardinality(Sent) \in Nat
      BY SentSame, SentFinite
    <2> DEFINE a == IF f.type = "ACK" THEN 1 ELSE 0
               m == IF f.type = "MSG" THEN 1 ELSE 0
               k == IF f.type = "KA" THEN 1 ELSE 0
    <2>0. a \in Nat /\ m \in Nat /\ k \in Nat /\ a + m + k = 1
      OBVIOUS
    <2>2. /\ Acking(s) = a /\ Acking(s)' = 0
          /\ Acking(Peer(s))' = Acking(Peer(s))
      <3>1. hpc \in [Side -> PC] /\ hpc' = [hpc EXCEPT ![s] = where]
        BY DEF goto, TypeOK
      <3>2. hpc'[s] = where /\ hpc'[Peer(s)] = hpc[Peer(s)]
        BY <3>1, TwoSides
      <3>3. f.type = "ACK" <=> hpc[s] = "ack"
        OBVIOUS
      <3> QED
        BY <3>2, <3>3 DEF Acking
    <2>3. /\ nka'[s] = nka[s] + k /\ nka'[Peer(s)] = nka[Peer(s)]
          /\ nka[u] \in Nat /\ nka[s] \in Nat /\ nka'[u] \in Nat
      <3>1. nka \in [Side -> Nat] /\ nka' \in [Side -> Nat]
        BY DEF TypeOK
      <3>2. nka'[s] = nka[s] + k
        <4>1. nka[s] \in Nat
          BY <3>1
        <4> QED
          BY <4>1
      <3> QED
        BY <3>1, <3>2, TwoSides
    <2>4. /\ OnWay(u) \in Nat /\ ToSend(u) \in Nat /\ ToSend(Peer(u)) \in Nat
          /\ Acking(u) \in Nat /\ ToAck(u) \in Nat
      BY LoadTypes DEF LoadsAreNumbers
    <2>5. /\ ToSend(u)' \in Nat /\ ToSend(Peer(u))' \in Nat
          /\ OnWay(u)' \in Nat /\ Acking(u)' \in Nat /\ ToAck(u)' \in Nat
      BY LoadTypesNext DEF LoadsAreNumbers
    <2>6. /\ OnWay(s)' = OnWay(s) + 1
          /\ OnWay(Peer(s))' = OnWay(Peer(s))
          /\ ToAck(Peer(s))' = ToAck(Peer(s)) + m
          /\ ToAck(s)' = ToAck(s)
      BY SendAllCounts
    <2>7. /\ ToSend(s) = ToSend(s)' + m
          /\ ToSend(Peer(s))' = ToSend(Peer(s))
      <3>1. out_queue'[Peer(s)] = out_queue[Peer(s)]
        BY TwoSides
      <3>2. PICK q \in Seq(Message) : q = out_queue[s]
        BY DEF TypeOK
      <3>3. CASE f.type = "MSG"
        <4>1. q # <<>> /\ out_queue'[s] = Tail(q) /\ m = 1
          BY <3>2, <3>3
        <4>2. Len(Tail(q)) = Len(q) - 1 /\ Len(q) \in Nat
          BY <4>1, TailType, LenProperties
        <4>3. Len(q) = Len(Tail(q)) + m
          BY <4>1, <4>2
        <4> HIDE DEF m
        <4> QED
          BY <3>1, <3>2, <4>1, <4>3 DEF ToSend
      <3>4. CASE f.type # "MSG"
        <4>1. out_queue'[s] = q /\ Len(q) \in Nat /\ m = 0
          BY <3>2, <3>4, LenProperties
        <4>2. Len(q) = Len(q) + m
          BY <4>1
        <4> HIDE DEF m
        <4> QED
          BY <3>1, <3>2, <4>1, <4>2 DEF ToSend
      <3> QED
        BY <3>3, <3>4
    <2>8. Load(u)' - Load(u) <= nka'[u] - nka[u]
      <3> HIDE DEF a, m, k
      <3>1. LoadsAreNumbers /\ LoadsAreNumbers'
        BY LoadTypes, LoadTypesNext
      <3>2. CASE u = s
        BY <2>0, <2>2, <2>3, <2>6, <2>7, <3>1, <3>2, SenderLoad
      <3>3. CASE u = Peer(s)
        <4>1. Peer(u) = s
          BY <3>3, TwoSides
        <4>2. PeerMoves(u, m)
          BY <2>2, <2>3, <2>6, <2>7, <3>3, <4>1 DEF PeerMoves
        <4> QED
          BY <2>0, <3>1, <4>2, PeerLoad
      <3> QED
        BY <3>2, <3>3, TwoSides
    <2>9. Load(u) \in Nat /\ Load(u)' \in Nat
      BY LoadNumber, LoadTypesNext
    <2> QED
      BY <2>1, <2>3, <2>8, <2>9 DEF Spread
  <1> QED
    BY <1>1, <1>2 DEF Goes

LEMMA GoesUp ==
    ASSUME RoomForAll, TypeOK, TypeOK', \A u \in Side : Alive(u) /\ Bounded(u),
           NEW s \in Side, Goes(s)
    PROVE  \A u \in Side : Alive(u)' /\ Bounded(u)'
  BY AliveStep, BoundedStep DEF Goes

(* The reader's part of the turn is over.                                      *)
LEMMA EndReadPlace ==
    ASSUME NEW s \in Side, EndRead(s)
    PROVE  \E where \in {"wake", "check"} : goto(s, where)
  BY DEF EndRead

(* A step of the connection thread goes on.                                    *)
LEMMA ThreadGoes ==
    ASSUME RoomForAll, TypeOK, TypeOK', AcksCounted,
           \A u \in Side : Alive(u) /\ Bounded(u) /\ nka[u] <= MaxKA[u],
           NEW s \in Side, ~kill[s], handle_connection(s), ~kill'[s]
    PROVE  Goes(s)
  <1>1. /\ Peer(s) \in Side /\ Alive(s) /\ Alive(Peer(s)) /\ Bounded(s)
        /\ nka[s] <= MaxKA[s] /\ ~Slow
    BY PeerType DEF RoomForAll
  <1>2. CASE Select(s)
    <2>1. NoTraffic(s)
      <3>1. PICK where : /\ where = IF sock[s] # <<>> \/ ~fd_open[Peer(s)] THEN "read"
                                    ELSE IF pipe[s] > 0 THEN "wake" ELSE "check"
                         /\ goto(s, where)
        BY <1>2 DEF Select
      <3>2. /\ where \in PC \ {"ack", "cleanup", "dead"}
            /\ where = "read" => sock[s] # <<>>
        BY <1>1, <3>1 DEF PC, Alive
      <3>3. hpc[s] # "ack" /\ UNCHANGED <<cause, freed, fd_open, sock, out_queue, nsent, nka>>
        BY <1>2 DEF Select, queues, life
      <3> QED
        BY <3>1, <3>2, <3>3 DEF NoTraffic, Turn
    <2> QED
      BY <2>1, NoTrafficGoes
  <1>3. CASE SkipRead(s)
    <2>1. NoTraffic(s)
      <3>1. PICK where \in {"wake", "check"} : goto(s, where)
        BY <1>3, EndReadPlace DEF SkipRead
      <3>2. hpc[s] # "ack" /\ UNCHANGED <<cause, freed, fd_open, sock, out_queue, nsent, nka>>
        BY <1>3 DEF SkipRead, queues, life, conn
      <3> QED
        BY <3>1, <3>2 DEF NoTraffic, Turn, PC
    <2> QED
      BY <2>1, NoTrafficGoes
  <1>4. CASE ReadAck(s)
    <2>1. ReadFrame(s, "ACK")
      BY <1>4 DEF ReadAck
    <2>2. Contains(ack_map[s], Head(sock[s]).body)
      BY <1>1, <2>1, Expected DEF Alive
    <2>3. EndRead(s) /\ UNCHANGED cause
      BY <1>4, <2>2 DEF ReadAck
    <2>4. PICK where \in {"wake", "check"} : goto(s, where)
      BY <2>3, EndReadPlace
    <2>5. where \in PC \ {"read", "cleanup", "dead"} /\ where # "ack"
      BY DEF PC
    <2>6. UNCHANGED <<cause, freed, fd_open, out_queue, nsent, nka>>
      BY <1>4, <2>3 DEF ReadAck, queues
    <2> QED
      BY <2>1, <2>4, <2>5, <2>6, ReadGoes
  <1>5. CASE ReadKeepAlive(s)
    <2>1. ReadFrame(s, "KA")
      BY <1>5 DEF ReadKeepAlive
    <2>2. PICK where \in {"wake", "check"} : goto(s, where)
      BY <1>5, EndReadPlace DEF ReadKeepAlive
    <2>3. where \in PC \ {"read", "cleanup", "dead"} /\ where # "ack"
      BY DEF PC
    <2>4. UNCHANGED <<cause, freed, fd_open, out_queue, nsent, nka>>
      BY <1>5 DEF ReadKeepAlive, queues, life, conn
    <2> QED
      BY <2>1, <2>2, <2>3, <2>4, ReadGoes
  <1>6. CASE ReadMessage(s)
    <2>1. ReadFrame(s, "MSG") /\ goto(s, "ack")
      BY <1>6 DEF ReadMessage
    <2>2. "ack" \in PC \ {"read", "cleanup", "dead"}
      BY DEF PC
    <2>3. UNCHANGED <<cause, freed, fd_open, out_queue, nsent, nka>>
      BY <1>6 DEF ReadMessage, queues, life
    <2> QED
      BY <2>1, <2>2, <2>3, ReadGoes
  <1>7. CASE ReadShort(s)
    <2>1. sock[s] # <<>> /\ Head(sock[s]).type = "PART" /\ Bodies(sock[s], "PART") = <<>>
      BY <1>1, <1>7 DEF ReadShort, Alive, Arrived
    <2>2. PICK q \in Seq(Frames) : q = sock[s]
      BY DEF TypeOK
    <2>3. Bodies(q, "PART") = <<Head(q).body>> \o Bodies(Tail(q), "PART")
      BY <2>1, <2>2, BodiesTail
    <2>4. Head(q).body \in AnyBody /\ Bodies(Tail(q), "PART") \in Seq(AnyBody)
      BY <2>1, <2>2, BodiesTail, BodyType
    <2>5. Len(<<Head(q).body>> \o Bodies(Tail(q), "PART")) > 0
      <3>1. PICK b \in AnyBody : b = Head(q).body
        BY <2>4
      <3>2. PICK r \in Seq(AnyBody) : r = Bodies(Tail(q), "PART")
        BY <2>4
      <3>3. <<b>> \in Seq(AnyBody) /\ Len(<<b>>) = 1
        OBVIOUS
      <3>4. Len(<<b>> \o r) = Len(r) + 1 /\ Len(r) \in Nat
        BY <3>3, ConcatProperties, LenProperties
      <3> QED
        BY <3>1, <3>2, <3>4
    <2>6. Len(Bodies(q, "PART")) > 0
      BY <2>3, <2>5
    <2>7. Len(<<>>) = 0
      OBVIOUS
    <2> QED
      BY <2>1, <2>2, <2>6, <2>7
  <1>8. CASE write_acknowledge(s)
    <2>1. hpc[s] = "ack"
      BY <1>8 DEF write_acknowledge
    <2>2. ~SendShort(s)
      BY <1>1, <2>1, RoomLeft, NoShort
    <2>3. SendAll(s, Frame("ACK", to_ack[s])) /\ EndRead(s) /\ UNCHANGED cause
      BY <1>8, <2>2 DEF write_acknowledge
    <2>4. PICK where \in {"wake", "check"} : goto(s, where)
      BY <2>3, EndReadPlace
    <2>5. /\ Frame("ACK", to_ack[s]) \in Frames
          /\ Frame("ACK", to_ack[s]).type = "ACK"
      <3>1. to_ack[s] \in 0 .. MaxMsgs
        BY DEF TypeOK
      <3> QED
        BY <3>1, FrameTypes DEF Frame
    <2>6. PICK f \in Frames : f = Frame("ACK", to_ack[s]) /\ f.type = "ACK"
      BY <2>5
    <2>7. UNCHANGED <<cause, freed, fd_open, nsent, nka, out_queue>>
      BY <1>8, <2>3 DEF write_acknowledge, queues
    <2>8. where \in PC \ {"read", "ack", "cleanup", "dead"}
      BY DEF PC
    <2> QED
      BY <2>1, <2>3, <2>4, <2>6, <2>7, <2>8, SendGoes
  <1>9. CASE ReadWakeup(s)
    <2>1. NoTraffic(s)
      BY <1>9 DEF ReadWakeup, NoTraffic, Turn, PC, life
    <2> QED
      BY <2>1, NoTrafficGoes
  <1>10. CASE LockOut(s)
    <2>1. NoTraffic(s)
      BY <1>10 DEF LockOut, NoTraffic, Turn, PC, life, conn
    <2> QED
      BY <2>1, NoTrafficGoes
  <1>11. CASE WriteMessage(s)
    <2>1. hpc[s] \in {"write", "more"} /\ out_queue[s] # <<>>
      BY <1>11 DEF WriteMessage
    <2>2. ~SendShort(s)
      BY <1>1, <2>1, RoomLeft, NoShort
    <2>3. /\ SendAll(s, Frame("MSG", Head(out_queue[s])))
          /\ out_queue' = [out_queue EXCEPT ![s] = Tail(@)]
          /\ goto(s, "more") /\ UNCHANGED <<cause, freed, fd_open, nsent, nka>>
      BY <1>11, <2>2 DEF WriteMessage
    <2>4. Head(out_queue[s]) \in Message
      <3>1. PICK q \in Seq(Message) : q = out_queue[s]
        BY DEF TypeOK
      <3> QED
        BY <2>1, <3>1, TailType
    <2>5. PICK f \in Frames : f = Frame("MSG", Head(out_queue[s])) /\ f.type = "MSG"
      BY <2>4, FrameTypes DEF Frame
    <2>6. /\ out_queue'[s] = Tail(out_queue[s])
          /\ \A u \in Side \ {s} : out_queue'[u] = out_queue[u]
      BY <2>3 DEF TypeOK
    <2>7. "more" \in PC \ {"read", "ack", "cleanup", "dead"}
      BY DEF PC
    <2> QED
      BY <2>1, <2>3, <2>5, <2>6, <2>7, SendGoes
  <1>12. CASE EndWrite(s)
    <2>1. NoTraffic(s)
      BY <1>12 DEF EndWrite, NoTraffic, Turn, PC, life, conn
    <2> QED
      BY <2>1, NoTrafficGoes
  <1>13. CASE Expire(s)
    BY <1>1, <1>13 DEF Expire, Alive
  <1>14. CASE EndTurn(s)
    <2>1. /\ hpc[s] = "check" /\ "select" \in PC
          /\ UNCHANGED <<freed, fd_open, out_queue, nsent>>
      BY <1>14 DEF EndTurn, queues, PC
    <2>2. ASSUME TestKill(s) PROVE goto(s, "select") /\ UNCHANGED cause
      BY <2>2 DEF TestKill
    <2>3. CASE TestKill(s) /\ UNCHANGED <<sock, nka>>
      <3>1. NoTraffic(s)
        BY <2>1, <2>2, <2>3 DEF NoTraffic, Turn
      <3> QED
        BY <3>1, NoTrafficGoes
    <2>4. CASE /\ nka[s] < MaxKA[s]
               /\ nka' = [nka EXCEPT ![s] = @ + 1]
               /\ \/ SendAll(s, Frame("KA", 0)) /\ TestKill(s)
                  \/ SendShort(s) /\ Fail(s, "EIO")
      <3>1. ~SendShort(s)
        BY <1>1, <2>4, RoomLeft, NoShort
      <3>2. SendAll(s, Frame("KA", 0)) /\ goto(s, "select") /\ UNCHANGED cause
        BY <2>2, <2>4, <3>1
      <3>3. PICK f \in Frames : f = Frame("KA", 0) /\ f.type = "KA"
        BY FrameTypes DEF Frame
      <3>4. nka'[s] = nka[s] + 1 /\ \A u \in Side \ {s} : nka'[u] = nka[u]
        BY <2>4 DEF TypeOK
      <3>5. "select" \in PC \ {"read", "ack", "cleanup", "dead"}
        BY <2>1
      <3> QED
        BY <2>1, <3>2, <3>3, <3>4, <3>5, SendGoes
    <2> QED
      BY <1>14, <2>3, <2>4 DEF EndTurn
  <1>15. CASE handler_cleanup(s)
    BY <1>1, <1>15 DEF handler_cleanup, Alive
  <1> QED
    BY <1>2, <1>3, <1>4, <1>5, <1>6, <1>7, <1>8, <1>9, <1>10, <1>11, <1>12,
       <1>13, <1>14, <1>15 DEF handle_connection, read_message, write_messages

(* Nothing takes a kill back.                                                  *)
LEMMA KillStays ==
    ASSUME TypeOK, [Next]_vars, NEW u \in Side, kill[u]
    PROVE  kill'[u]
  <1>1. CASE UNCHANGED vars
    BY <1>1 DEF vars, life
  <1>2. ASSUME NEW s \in Side,
               end_handler(s) \/ handler_cleanup(s)
        PROVE  kill'[u]
    BY <1>2 DEF end_handler, handler_cleanup, TypeOK
  <1>3. ASSUME NEW s \in Side,
               \/ \E t \in Senders[s] : add_message_step(s, t)
               \/ get_message(s) \/ get_message_timeout(s) \/ close_fd(s)
        PROVE  kill'[u]
    BY <1>3 DEF add_message_step, add_message, add_message_signal, get_message,
        get_message_lock, get_message_pop, get_message_wait, get_message_timeout,
        close_fd, life
  <1>4. ASSUME NEW s \in Side, handle_connection(s), ~handler_cleanup(s)
        PROVE  kill'[u]
    BY <1>4 DEF handle_connection, Select, SkipRead, read_message, ReadAck, ReadKeepAlive,
        ReadMessage, ReadShort, write_acknowledge, ReadWakeup, LockOut, write_messages,
        WriteMessage, EndWrite, Expire, EndTurn, life
  <1> QED
    BY <1>1, <1>2, <1>3, <1>4 DEF Next

(* The keep-alives stay within their bound.                                    *)
Spared == \A s \in Side : nka[s] <= MaxKA[s]
LEMMA SparedStep ==
    ASSUME TypeOK, Spared, [Next]_vars
    PROVE  Spared'
  <1>1. CASE UNCHANGED nka
    BY <1>1 DEF Spared
  <1>2. ASSUME NEW s \in Side, nka[s] < MaxKA[s], nka' = [nka EXCEPT ![s] = @ + 1]
        PROVE  Spared'
    <2>1. nka \in [Side -> Nat] /\ MaxKA \in [Side -> Nat]
      BY ProtocolAssumption DEF TypeOK
    <2>2. ASSUME NEW u \in Side PROVE nka'[u] <= MaxKA[u]
      <3>1. nka[u] \in Nat /\ MaxKA[u] \in Nat /\ nka[u] <= MaxKA[u]
        BY <2>1 DEF Spared
      <3>2. nka'[u] = IF u = s THEN nka[u] + 1 ELSE nka[u]
        BY <1>2, <2>1
      <3> QED
        BY <1>2, <3>1, <3>2
    <2> QED
      BY <2>2 DEF Spared
  <1>3. UNCHANGED nka \/ \E s \in Side : nka[s] < MaxKA[s] /\ nka' = [nka EXCEPT ![s] = @ + 1]
    <2>1. CASE UNCHANGED vars
      BY <2>1 DEF vars, conn
    <2>2. ASSUME NEW s \in Side,
                 \/ \E t \in Senders[s] : add_message_step(s, t)
                 \/ get_message(s) \/ get_message_timeout(s) \/ end_handler(s) \/ close_fd(s)
          PROVE  UNCHANGED nka
      BY <2>2 DEF add_message_step, add_message, add_message_signal, get_message,
          get_message_lock, get_message_pop, get_message_wait, get_message_timeout,
          end_handler, close_fd, conn
    <2>3. ASSUME NEW s \in Side, handle_connection(s), ~EndTurn(s)
          PROVE  UNCHANGED nka
      BY <2>3 DEF handle_connection, Select, SkipRead, read_message, ReadAck, ReadKeepAlive,
          ReadMessage, ReadShort, write_acknowledge, ReadWakeup, LockOut, write_messages,
          WriteMessage, EndWrite, Expire, handler_cleanup, conn
    <2>4. ASSUME NEW s \in Side, EndTurn(s)
          PROVE  UNCHANGED nka \/ (nka[s] < MaxKA[s] /\ nka' = [nka EXCEPT ![s] = @ + 1])
      BY <2>4 DEF EndTurn
    <2> QED
      BY <2>1, <2>2, <2>3, <2>4 DEF Next
  <1> QED
    BY <1>1, <1>2, <1>3

(* Every step keeps the invariant: as long as no kill is set, each goes on.    *)
LEMMA UpStep ==
    ASSUME RoomForAll, TypeOK, TypeOK', AcksCounted, UpInv, [Next]_vars
    PROVE  UpInv'
  <1>1. Spared /\ Spared'
    BY SparedStep DEF Spared, UpInv
  <1> SUFFICES ASSUME \A u \in Side : ~kill'[u]
               PROVE  \A u \in Side : Alive(u)' /\ Bounded(u)'
    BY <1>1 DEF UpInv, Spared
  <1>2. \A u \in Side : ~kill[u]
    BY KillStays
  <1>3. \A u \in Side : Alive(u) /\ Bounded(u) /\ nka[u] <= MaxKA[u]
    BY <1>2 DEF UpInv
  <1>4. CASE UNCHANGED vars
    <2>1. ASSUME NEW u \in Side PROVE Alive(u)' /\ Bounded(u)'
      BY <1>3, <1>4 DEF vars, queues, life, conn, Alive, Bounded, Load, OnWay, ToSend, ToAck,
          Acking, Sent
    <2> QED
      BY <2>1
  <1>5. ASSUME NEW s \in Side, handle_connection(s)
        PROVE  Goes(s)
    BY <1>2, <1>3, <1>5, ThreadGoes
  <1>6. ASSUME NEW s \in Side, NEW t \in Senders[s], add_message(s, t)
        PROVE  Goes(s)
    BY <1>6, AddGoes
  <1>7. ASSUME NEW s \in Side,
               \/ \E t \in Senders[s] : add_message_signal(s, t)
               \/ get_message(s) \/ get_message_timeout(s)
        PROVE  Goes(s)
    <2>1. NoTraffic(s)
      BY <1>7 DEF add_message_signal, get_message, get_message_lock, get_message_pop,
          get_message_wait, get_message_timeout, queues, life, conn, NoTraffic
    <2> QED
      BY <2>1, NoTrafficGoes
  <1>8. ASSUME NEW s \in Side PROVE ~end_handler(s) /\ ~close_fd(s)
    BY <1>3 DEF end_handler, close_fd, Alive, TypeOK
  <1>9. ASSUME NEW s \in Side, Goes(s)
        PROVE  \A u \in Side : Alive(u)' /\ Bounded(u)'
    BY <1>3, <1>9, GoesUp
  <1> QED
    BY <1>4, <1>5, <1>6, <1>7, <1>8, <1>9 DEF Next, add_message_step

LEMMA UpInit ==
    ASSUME RoomForAll, Init
    PROVE  UpInv
  <1>1. TypeOK
    BY WakeupInit DEF WakeupInv
  <1>2. Bodies(<<>>, "PART") = <<>> /\ Data(<<>>) = <<>> /\ Len(<<>>) = 0
    <2>1. Frame("KA", 0) \in Frames
      BY FrameTypes
    <2> QED
      BY <2>1, BodiesOne DEF Data
  <1>3. ASSUME NEW s \in Side
        PROVE  /\ sock[s] = <<>> /\ out_queue[s] = <<>> /\ hpc[s] = "select" /\ nka[s] = 0
               /\ cause[s] = "none" /\ fd_open[s] /\ ~freed[s]
    BY DEF Init, init_handler
  <1>4. ASSUME NEW s \in Side PROVE Alive(s)
    BY <1>2, <1>3 DEF Alive
  <1>5. ASSUME NEW s \in Side PROVE Load(s) = 0
    <2>1. OnWay(s) = 0 /\ ToSend(s) = 0 /\ ToSend(Peer(s)) = 0 /\ Acking(s) = 0 /\ ToAck(s) = 0
      BY <1>2, <1>3, PeerType DEF OnWay, ToSend, Acking, ToAck
    <2> QED
      BY <2>1 DEF Load
  <1>6. ASSUME NEW s \in Side PROVE Bounded(s) /\ nka[s] <= MaxKA[s]
    <2>1. Cardinality(Sent) \in Nat /\ MaxKA[s] \in Nat
      BY SentFinite, ProtocolAssumption
    <2> QED
      BY <1>3, <1>5, <2>1 DEF Bounded
  <1> QED
    BY <1>4, <1>6 DEF UpInv

LEMMA UpHolds ==
    RoomForAll /\ TypeOK /\ TypeOK' /\ AcksCounted /\ UpInv /\ [Next]_vars => UpInv'
  BY UpStep

(* With room on the network for all that is in flight and nobody slow, no      *)
(* step of the two ends, in whatever order their threads run, ends a           *)
(* connection that neither program ends (handle_connection's exits with EIO,   *)
(* EINVAL and ETIME, protocol.c:268-368, are not taken).                       *)
THEOREM NothingEndsIt ==
    ASSUME RoomForAll
    PROVE  Spec => []StaysUp
  <1>1. Init => UpInv
    BY UpInit
  <1>2. TypeOK /\ TypeOK' /\ AcksCounted /\ UpInv /\ [Next]_vars => UpInv'
    BY UpHolds
  <1>3. UpInv => StaysUp
    BY DEF UpInv, Alive, StaysUp
  <1>4. Spec => []TypeOK
    BY NoLostWakeup, PTL DEF WakeupInv
  <1>5. Spec => []AcksCounted
    <2>1. Init => TypeOK /\ AcksCounted
      BY WakeupInit, CountsInit DEF WakeupInv
    <2> QED
      BY <1>4, <2>1, CountsStep, PTL DEF Spec
  <1> QED
    BY <1>1, <1>2, <1>3, <1>4, <1>5, PTL DEF Spec
===============================================================================
