-------------------------- MODULE Conversation_proofs -------------------------
(* Proofs about Conversation, for any number of messages, runs and restarts.   *)
EXTENDS Conversation, TLAPS

(* A message on its way, and one that is written down.                         *)
Raw == [from : {"friend"}, n : Nat, nonce : Nat, epoch : Nat,
        kept : BOOLEAN, reused : BOOLEAN, first : BOOLEAN]
Mine == [from : {"me"}, n : Nat]
Block == Mine \cup [from : {"friend"}, n : Nat, epoch : Nat, run : Nat]

Files == [there : BOOLEAN, header : Int, blocks : Seq(Block)]

Storing == {"check", "init", "header", "add", "block"}

ThreadTypes ==
    /\ pc \in [Thread -> UiPlace \cup BgPlace]
    /\ msg \in [Thread -> {None} \cup Raw \cup Block]
    /\ msg["ui"] \in {None} \cup Mine
    /\ pc["ui"] \in {"send", "add", "block"} => msg["ui"] \in Mine
    /\ pc["bg"] = "parse" => msg["bg"] \in Raw
    /\ pc["bg"] \in Storing \cup {"push"} => msg["bg"] \in Block \ Mine
DataTypes ==
    /\ file \in Files
    /\ in \in Seq(Raw) /\ loaded \in Seq(Raw) /\ stored \in Seq(Raw)
    /\ absent \in Seq(Raw)
    /\ {saved, highest, s_saved} \subseteq Nat
Types == TypeOK /\ ThreadTypes /\ DataTypes

(* The header counts the blocks at every place of a writer, and one more while *)
(* a block is written.                                                         *)
FileOK ==
    /\ \A t \in Thread : writer = t <=> pc[t] \in {"header", "block"}
    /\ ~alive => pc["ui"] = "stopped" /\ pc["bg"] = "stopped"
    /\ ~file.there => file = NoFile
    /\ \A t \in Thread : pc[t] = "header" => file.there /\ file.blocks = <<>>
    /\ \A t \in Thread :
          pc[t] = "block" => file.there /\ (cut \/ file.header = Len(file.blocks) + 1)
    /\ writer = "nobody" /\ file.there /\ ~cut => file.header = Len(file.blocks)

(* A file that is there is begun once more at most.                            *)
BeginsOK ==
    /\ file.there => ~(pc["ui"] = "init" /\ pc["bg"] = "init")
    /\ twice => file.there /\ pc["ui"] # "init" /\ pc["bg"] # "init"

(* What is to be stored has been queued.                                       *)
Queued(n) == n \in on_server \/ n \in out \/ n \in lost
OwnOK ==
    /\ \A i \in DOMAIN file.blocks :
          file.blocks[i].from = "me" => Queued(file.blocks[i].n)
    /\ msg["ui"] # None =>
          pc["ui"] \in {"send", "failed"} \/ Queued(msg["ui"].n)
    /\ ~alive => msg["ui"] = None

(* The nonces that are on their way, and those that were used.                 *)
Fresh(m) == m.first /\ ~m.kept /\ ~m.reused
Known(m, h) == m.first => m.nonce <= h
After(n) == n > r_nonce \/ n <= spoilt
Kept(m, h) == ~Fresh(m) /\ Known(m, h)
Rising(s) ==
    \A k \in DOMAIN s : Fresh(s[k]) =>
        \A i \in 1 .. k - 1 : s[i].first => s[i].nonce < s[k].nonce
NonceOK ==
    /\ saved <= r_nonce /\ (r_nonce <= highest \/ r_nonce <= spoilt)
    /\ saved <= highest \/ saved <= spoilt
    /\ s_nonce <= highest /\ s_saved <= highest
    /\ \A i \in DOMAIN in : Known(in[i], highest)
    /\ \A i \in DOMAIN loaded : Kept(loaded[i], highest)
    /\ \A i \in DOMAIN stored : Kept(stored[i], highest)
    /\ \A i \in DOMAIN absent : Kept(absent[i], highest)
    /\ Rising(in)
    /\ \A j \in DOMAIN in : Fresh(in[j]) =>
          /\ After(in[j].nonce)
          /\ pc["bg"] = "parse" /\ msg["bg"].first => msg["bg"].nonce < in[j].nonce
    /\ pc["bg"] = "parse" =>
          Known(msg["bg"], highest) /\ (Fresh(msg["bg"]) => After(msg["bg"].nonce))

(* What is in the file is on the screen or about to be; what the threads have  *)
(* in their hands while that changes.                                          *)
HandsOK ==
    /\ pc["ui"] \in {"turn", "left", "menu", "open", "load"} => msg["ui"] = None
    /\ pc["bg"] = "recv" => msg["bg"] = None
    /\ ~alive => \A t \in Thread : msg[t] = None
    /\ new_messages \in Seq(Block) /\ screen \in Seq(Block)
Shown(b) ==
    b \in ToSet(screen) \/ b \in ToSet(new_messages) \/ b = msg["bg"]
ScreenOK ==
    OnScreen /\ mode = 1 => \A i \in DOMAIN file.blocks : Shown(file.blocks[i])

IInv == Types /\ FileOK /\ BeginsOK /\ OwnOK /\ NonceOK /\ HandsOK /\ ScreenOK

-------------------------------------------------------------------------------
LEMMA MaxOfTwo ==
    ASSUME NEW x \in Nat, NEW y \in Nat
    PROVE  Max({x, y}) \in Nat /\ Max({x, y}) >= x /\ Max({x, y}) >= y
  <1>1. PICK z \in {x, y} : \A w \in {x, y} : z >= w
    OBVIOUS
  <1> QED
    BY <1>1 DEF Max

(* The end of the process.                                                     *)
LEMMA StoppedTypes ==
    ASSUME Types, Stopped
    PROVE  Types'
  <1> USE DEF Types
  <1>1. TypeOK'
    BY DEF TypeOK, Stopped, Unsent, peer, own, seen, Thread, UiPlace, BgPlace, DataTypes
  <1>2. ThreadTypes'
    BY DEF ThreadTypes, Stopped, Unsent, Thread, UiPlace, BgPlace, Storing
  <1>3. DataTypes'
    BY DEF DataTypes, TypeOK, Stopped, peer
  <1> QED
    BY <1>1, <1>2, <1>3

(* The two ways in which a file that is there changes.                         *)
LEMMA HeaderSet ==
    ASSUME NEW f \in Files, NEW h \in Int
    PROVE  LET g == [f EXCEPT !.header = h]
           IN  /\ g \in Files /\ g.header = h
               /\ g.there = f.there /\ g.blocks = f.blocks
  BY DEF Files
LEMMA BlockAdded ==
    ASSUME NEW f \in Files, NEW b \in Block
    PROVE  LET g == [f EXCEPT !.blocks = Append(@, b)]
           IN  /\ g \in Files /\ g.blocks = Append(f.blocks, b)
               /\ g.there = f.there /\ g.header = f.header
  <1>1. Append(f.blocks, b) \in Seq(Block)
    BY DEF Files
  <1> QED
    BY <1>1 DEF Files
LEMMA AddHeader ==
    ASSUME NEW t \in Thread, file \in Files, cfile_add(t)
    PROVE  /\ file' \in Files /\ file'.there = file.there
           /\ file'.blocks = file.blocks
           /\ file' = file \/ file'.header = file.header + 1
  <1>1. CASE UNCHANGED <<writer, file>>
    BY <1>1
  <1>2. CASE file' = [file EXCEPT !.header = file.header + 1]
    <2>1. file.header + 1 \in Int
      BY DEF Files
    <2> QED
      BY <1>2, <2>1, HeaderSet
  <1> QED
    BY <1>1, <1>2 DEF cfile_add
LEMMA HeaderBegun ==
    ASSUME NEW t \in Thread, file \in Files, init_header(t)
    PROVE  /\ file' \in Files /\ file'.there = file.there
           /\ file'.blocks = file.blocks /\ file'.header = 0
  BY HeaderSet DEF init_header

LEMMA MessageStored ==
    ASSUME Types, NEW t \in Thread, pc[t] = "block"
    PROVE  msg[t] \in Block
  <1>1. CASE t = "ui"
    BY <1>1 DEF Types, ThreadTypes, Block
  <1>2. CASE t = "bg"
    BY <1>2 DEF Types, ThreadTypes, Storing
  <1> QED
    BY <1>1, <1>2 DEF Thread

(* A message that was made with the second entry.                             *)
LEMMA SecondMessage ==
    ASSUME Types, NEW k \in 1 .. MaxIncoming
    PROVE  Second(k) \in Raw /\ ~Second(k).first
  <1>1. Message \in Raw
    BY SMTT(30) DEF Message, Raw, Types, TypeOK
  <1>2. k \in Nat
    BY ConversationAssumption
  <1> QED
    BY <1>1, <1>2 DEF Second, Raw

-------------------------------------------------------------------------------
(* Every step keeps the types.                                                *)
LEMMA LoseTypeOK == TypeOK /\ lose => TypeOK'
  BY DEF TypeOK, lose, Unsent, peer, own, conv, nonces, seen, disk
LEMMA TypeOKStep ==
    ASSUME Types, [Next]_vars
    PROVE  TypeOK'
  <1> USE DEF Types, ThreadTypes, DataTypes, TypeOK, Thread, UiPlace, BgPlace,
     Go, Unlock, client, net, peer, own, conv, nonces, seen, disk, file_rest, ui_rest,
     bg_rest, server_rest, friend_rest
  <1>1. ASSUME NEW t \in Thread, cfile_check(t) PROVE TypeOK'
    <2>1. CASE Stopped
      BY <2>1, StoppedTypes DEF Types
    <2>2. CASE Go(t, "check", Checked(t)) /\ UNCHANGED <<file_rest, conv, disk>>
      BY <2>2 DEF Checked
    <2>3. CASE Go(t, "check", "init") /\ UNCHANGED <<file_rest, conv, disk>>
      BY <2>3
    <2> QED
      BY <1>1, <2>1, <2>2, <2>3 DEF cfile_check
  <1>2. ASSUME NEW t \in Thread, cfile_init(t) PROVE TypeOK'
    BY SMTT(30), <1>2 DEF cfile_init
  <1>3. ASSUME NEW t \in Thread, init_header(t) PROVE TypeOK'
    <2>1. pc'["ui"] \in UiPlace /\ pc'["bg"] \in BgPlace
      BY <1>3 DEF init_header, Checked
    <2>2. file'.there \in BOOLEAN /\ file'.header \in Int
      BY <1>3, HeaderSet DEF init_header
    <2> QED
      BY <1>3, <2>1, <2>2 DEF init_header
  <1>4. ASSUME NEW t \in Thread, cfile_add(t) PROVE TypeOK'
    <2>1. pc'["ui"] \in UiPlace /\ pc'["bg"] \in BgPlace
      BY ZenonT(40), <1>4 DEF cfile_add, Failed
    <2>2. file'.there \in BOOLEAN /\ file'.header \in Int
      BY <1>4, AddHeader DEF Files
    <2> QED
      BY <1>4, <2>1, <2>2 DEF cfile_add
  <1>5. ASSUME NEW t \in Thread, add_block(t) PROVE TypeOK'
    <2>1. pc'["ui"] \in UiPlace /\ pc'["bg"] \in BgPlace
      BY <1>5 DEF add_block, Done
    <2>2. file'.there \in BOOLEAN /\ file'.header \in Int
      BY <1>5, BlockAdded, MessageStored DEF add_block
    <2> QED
      BY <1>5, <2>1, <2>2 DEF add_block
  <1>6. CASE start_conversation
    BY <1>6 DEF start_conversation
  <1>7. CASE cfile_load
    BY <1>7 DEF cfile_load
  <1>8. CASE cmessage_send_server
    BY SMTT(30), <1>8 DEF cmessage_send_server
  <1>9. CASE merge
    <2>1. CASE Stopped
      BY <2>1, StoppedTypes DEF Types
    <2>2. CASE ~Stopped
      BY ZenonT(40), <1>9, <2>2 DEF merge
    <2> QED
      BY <2>1, <2>2
  <1>10. CASE fail
    BY <1>10 DEF fail, Leave
  <1>11. CASE recv_message
    BY <1>11 DEF recv_message
  <1>12. CASE parse_conv_message_payload
    <2>1. msg["bg"] \in Raw
      BY <1>12 DEF parse_conv_message_payload, Drop
    <2>2. r_nonce' \in Nat
      BY <1>12, <2>1 DEF parse_conv_message_payload, Drop, Raw
    <2>3. mode' \in {-1, 0, 1}
      BY <1>12 DEF parse_conv_message_payload, Drop, Notice
    <2> QED
      BY SMTT(30), <1>12, <2>2, <2>3 DEF parse_conv_message_payload, Drop
  <1>13. CASE parse_conv_message
    BY <1>13 DEF parse_conv_message
  <1>14. CASE bg_end
    BY <1>14 DEF bg_end
  <1>15. CASE select
    BY <1>15 DEF select
  <1>16. CASE type
    BY SMTT(30), <1>16 DEF type
  <1>17. CASE exit
    BY <1>17 DEF exit, Leave
  <1>18. CASE undel_load
    BY <1>18 DEF undel_load
  <1>19. CASE send_undelivered
    BY <1>19 DEF send_undelivered
  <1>20. CASE end_session
    BY <1>20 DEF end_session
  <1>21. CASE handle_message
    BY SMTT(30), <1>21 DEF handle_message, Pass
  <1>22. CASE undel_add_message
    BY <1>22 DEF undel_add_message
  <1>23. CASE add_friend
    BY <1>23 DEF add_friend
  <1>24. CASE lose
    BY <1>24, LoseTypeOK
  <1>25. CASE crash
    BY <1>25, StoppedTypes DEF crash, Types
  <1>26. CASE start
    BY SMTT(30), <1>26 DEF start
  <1>27. CASE friend_adds_friend
    BY <1>27 DEF friend_adds_friend
  <1>28. CASE friend_restarts
    BY SMTT(30), <1>28 DEF friend_restarts
  <1>29. CASE UNCHANGED vars
    BY <1>29 DEF vars
  <1>30. CASE handle_user
    BY <1>30 DEF handle_user
  <1>31. CASE menu_ends
    BY <1>31 DEF menu_ends
  <1>32. CASE transmit
    BY <1>32 DEF transmit
  <1>33. CASE handle_second
    BY SMTT(30), <1>33 DEF handle_second, Pass
  <1> QED
    BY <1>1, <1>2, <1>3, <1>4, <1>5, <1>6, <1>7, <1>8, <1>9, <1>10, <1>11,
       <1>12, <1>13, <1>14, <1>15, <1>16, <1>17, <1>18, <1>19, <1>20, <1>21,
       <1>22, <1>23, <1>24, <1>25, <1>26, <1>27, <1>28, <1>29, <1>30,
       <1>31, <1>32, <1>33
    DEF Next, user_interface, background_thread, user, server, file_step, Thread

LEMMA ThreadStep ==
    ASSUME Types, [Next]_vars
    PROVE  ThreadTypes'
  <1> USE DEF Types, ThreadTypes, Thread, Storing, UiPlace, BgPlace, Go, Unlock,
     client, net, peer, own, conv, nonces, seen, disk, file_rest, ui_rest, bg_rest,
     server_rest, friend_rest
  <1>1. ASSUME NEW t \in Thread, cfile_check(t) PROVE ThreadTypes'
    <2>1. CASE Stopped
      BY <2>1, StoppedTypes DEF Types
    <2>2. CASE Go(t, "check", Checked(t)) /\ UNCHANGED <<file_rest, conv, disk>>
      BY <2>2 DEF Checked, None, Mine
    <2>3. CASE Go(t, "check", "init") /\ UNCHANGED <<file_rest, conv, disk>>
      BY <2>3
    <2> QED
      BY <1>1, <2>1, <2>2, <2>3 DEF cfile_check
  <1>2. ASSUME NEW t \in Thread, cfile_init(t) PROVE ThreadTypes'
    BY <1>2 DEF cfile_init
  <1>3. ASSUME NEW t \in Thread, init_header(t) PROVE ThreadTypes'
    BY <1>3 DEF init_header, Checked
  <1>4. ASSUME NEW t \in Thread, cfile_add(t) PROVE ThreadTypes'
    BY <1>4 DEF cfile_add, Failed
  <1>5. ASSUME NEW t \in Thread, add_block(t) PROVE ThreadTypes'
    BY <1>5 DEF add_block, Done
  <1>6. CASE start_conversation
    BY <1>6 DEF start_conversation
  <1>7. CASE cfile_load
    BY <1>7 DEF cfile_load
  <1>8. CASE cmessage_send_server
    BY <1>8 DEF cmessage_send_server
  <1>9. CASE merge
    <2>1. CASE Stopped
      BY <2>1, StoppedTypes DEF Types
    <2>2. CASE ~Stopped
      BY <1>9, <2>2 DEF merge
    <2> QED
      BY <2>1, <2>2
  <1>10. CASE fail
    BY <1>10 DEF fail, Leave
  <1>11. CASE recv_message
    <2>1. CASE in # <<>> /\ Go("bg", "recv", "parse")
      <3>1. Head(in) \in Raw
        BY <2>1 DEF DataTypes
      <3> QED
        BY <1>11, <2>1, <3>1 DEF recv_message
    <2>2. CASE UNCHANGED <<pc, msg, in>>
      BY <1>11, <2>2 DEF recv_message
    <2> QED
      BY <1>11, <2>1, <2>2 DEF recv_message
  <1>12. CASE parse_conv_message_payload
    <2>1. msg["bg"] \in Raw
      BY <1>12 DEF parse_conv_message_payload, Drop
    <2>2. Accepted(msg["bg"]) \in Block \ Mine
      BY <2>1 DEF Accepted, Block, Mine, Raw, TypeOK
    <2> QED
      BY <1>12, <2>1, <2>2 DEF parse_conv_message_payload, Drop
  <1>13. CASE parse_conv_message
    BY <1>13 DEF parse_conv_message
  <1>14. CASE bg_end
    BY <1>14 DEF bg_end
  <1>15. CASE select
    BY <1>15 DEF select
  <1>16. CASE type
    <2>1. Own(texts + 1) \in Mine
      BY DEF Own, Mine, TypeOK
    <2> QED
      BY <1>16, <2>1 DEF type, Block
  <1>17. CASE exit
    BY <1>17 DEF exit, Leave
  <1>18. CASE undel_load
    BY <1>18 DEF undel_load
  <1>19. CASE send_undelivered
    BY <1>19 DEF send_undelivered
  <1>20. CASE end_session
    BY <1>20 DEF end_session
  <1>21. CASE handle_message
    BY <1>21 DEF handle_message, Pass
  <1>22. CASE undel_add_message
    BY <1>22 DEF undel_add_message
  <1>23. CASE add_friend
    BY <1>23 DEF add_friend
  <1>24. CASE lose
    BY <1>24 DEF lose, Unsent
  <1>25. CASE crash
    BY <1>25, StoppedTypes DEF crash, Types
  <1>26. CASE start
    BY <1>26 DEF start
  <1>27. CASE friend_adds_friend
    BY <1>27 DEF friend_adds_friend
  <1>28. CASE friend_restarts
    BY <1>28 DEF friend_restarts
  <1>29. CASE UNCHANGED vars
    BY <1>29 DEF vars
  <1>30. CASE handle_user
    BY <1>30 DEF handle_user
  <1>31. CASE menu_ends
    BY <1>31 DEF menu_ends
  <1>32. CASE transmit
    BY <1>32 DEF transmit
  <1>33. CASE handle_second
    BY <1>33 DEF handle_second, Pass
  <1> QED
    BY <1>1, <1>2, <1>3, <1>4, <1>5, <1>6, <1>7, <1>8, <1>9, <1>10, <1>11,
       <1>12, <1>13, <1>14, <1>15, <1>16, <1>17, <1>18, <1>19, <1>20, <1>21,
       <1>22, <1>23, <1>24, <1>25, <1>26, <1>27, <1>28, <1>29, <1>30,
       <1>31, <1>32, <1>33
    DEF Next, user_interface, background_thread, user, server, file_step, Thread

LEMMA DataStep ==
    ASSUME Types, [Next]_vars
    PROVE  DataTypes'
  <1> USE DEF Types, DataTypes, Go, Unlock, client, net, peer, own, conv,
     nonces, seen, disk, file_rest, ui_rest, bg_rest, server_rest, friend_rest
  <1>1. ASSUME NEW t \in Thread, cfile_check(t) PROVE DataTypes'
    BY <1>1, StoppedTypes DEF cfile_check, Types
  <1>2. ASSUME NEW t \in Thread, cfile_init(t) PROVE DataTypes'
    BY <1>2 DEF cfile_init, Files
  <1>3. ASSUME NEW t \in Thread, init_header(t) PROVE DataTypes'
    BY <1>3, HeaderBegun DEF init_header
  <1>4. ASSUME NEW t \in Thread, cfile_add(t) PROVE DataTypes'
    BY <1>4, AddHeader DEF cfile_add
  <1>5. ASSUME NEW t \in Thread, add_block(t) PROVE DataTypes'
    BY <1>5, BlockAdded, MessageStored DEF add_block
  <1>6. CASE start_conversation
    BY <1>6 DEF start_conversation
  <1>7. CASE cfile_load
    BY <1>7 DEF cfile_load
  <1>8. CASE cmessage_send_server
    BY <1>8 DEF cmessage_send_server
  <1>9. CASE merge
    <2>1. CASE Stopped
      BY <2>1, StoppedTypes DEF Types
    <2>2. CASE ~Stopped
      BY <1>9, <2>2 DEF merge
    <2> QED
      BY <2>1, <2>2
  <1>10. CASE fail
    BY <1>10 DEF fail, Leave
  <1>11. CASE recv_message
    <2>1. CASE in # <<>> /\ in' = Tail(in)
      BY <1>11, <2>1 DEF recv_message
    <2>2. CASE UNCHANGED <<pc, msg, in>>
      BY <1>11, <2>2 DEF recv_message
    <2> QED
      BY <1>11, <2>1, <2>2 DEF recv_message
  <1>12. CASE parse_conv_message_payload
    BY <1>12 DEF parse_conv_message_payload, Drop
  <1>13. CASE parse_conv_message
    BY <1>13 DEF parse_conv_message
  <1>14. CASE bg_end
    BY <1>14 DEF bg_end
  <1>15. CASE select
    BY <1>15 DEF select
  <1>16. CASE type
    BY <1>16 DEF type
  <1>17. CASE exit
    BY <1>17 DEF exit, Leave
  <1>18. CASE undel_load
    BY <1>18 DEF undel_load
  <1>19. CASE send_undelivered
    <2>1. Head(loaded) \in Raw /\ Tail(loaded) \in Seq(Raw)
      BY <1>19 DEF send_undelivered
    <2>2. in' \in Seq(Raw) /\ loaded' \in Seq(Raw)
      BY <1>19, <2>1 DEF send_undelivered
    <2> QED
      BY <1>19, <2>2 DEF send_undelivered
  <1>20. CASE end_session
    BY <1>20 DEF end_session
  <1>21. CASE handle_message
    <2>1. Message \in Raw
      BY SMTT(30) DEF Message, Raw, TypeOK
    <2>2. highest' \in Nat
      BY SMTT(30), <1>21, MaxOfTwo DEF handle_message, Pass, TypeOK
    <2>3. Append(in, Message) \in Seq(Raw) /\ <<Message>> \in Seq(Raw)
      BY <2>1
    <2>4. in' \in Seq(Raw) /\ absent' \in Seq(Raw)
      BY <1>21, <2>3 DEF handle_message, Pass
    <2> QED
      BY <1>21, <2>2, <2>4 DEF handle_message, Pass
  <1>22. CASE undel_add_message
    BY <1>22 DEF undel_add_message
  <1>23. CASE add_friend
    BY <1>23 DEF add_friend, TypeOK
  <1>24. CASE lose
    BY <1>24 DEF lose, Unsent
  <1>25. CASE crash
    BY <1>25, StoppedTypes DEF crash, Types
  <1>26. CASE start
    BY <1>26 DEF start
  <1>27. CASE friend_adds_friend
    BY <1>27 DEF friend_adds_friend, TypeOK
  <1>28. CASE friend_restarts
    BY <1>28 DEF friend_restarts
  <1>29. CASE UNCHANGED vars
    BY <1>29 DEF vars
  <1>30. CASE handle_user
    BY <1>30 DEF handle_user
  <1>31. CASE menu_ends
    BY <1>31 DEF menu_ends
  <1>32. CASE transmit
    BY <1>32 DEF transmit
  <1>33. CASE handle_second
    <2>1. PICK k \in 1 .. MaxIncoming : Pass(Second(k))
      BY <1>33 DEF handle_second
    <2>2. PICK m \in Raw : m = Second(k)
      BY <2>1, SecondMessage
    <2>3. Append(in, m) \in Seq(Raw) /\ <<m>> \in Seq(Raw)
      OBVIOUS
    <2>4. in' \in Seq(Raw) /\ absent' \in Seq(Raw)
      BY <2>1, <2>2, <2>3 DEF Pass
    <2> QED
      BY <1>33, <2>1, <2>4 DEF handle_second, Pass
  <1> QED
    BY <1>1, <1>2, <1>3, <1>4, <1>5, <1>6, <1>7, <1>8, <1>9, <1>10, <1>11,
       <1>12, <1>13, <1>14, <1>15, <1>16, <1>17, <1>18, <1>19, <1>20, <1>21,
       <1>22, <1>23, <1>24, <1>25, <1>26, <1>27, <1>28, <1>29, <1>30,
       <1>31, <1>32, <1>33
    DEF Next, user_interface, background_thread, user, server, file_step, Thread
-------------------------------------------------------------------------------
(* Every step keeps the counts of the header, and begins no file a third      *)
(* time.                                                                      *)
LEMMA StoppedFile ==
    ASSUME Types, FileOK, Stopped
    PROVE  FileOK'
  BY DEF Types, DataTypes, FileOK, Stopped, Unsent, Thread, TypeOK

LEMMA FileStep ==
    ASSUME Types, FileOK, [Next]_vars
    PROVE  FileOK'
  <1> USE DEF Types, ThreadTypes, DataTypes, FileOK, Thread, Go, Unlock, client,
     net, peer, own, conv, nonces, seen, disk, file_rest, ui_rest, bg_rest,
     server_rest, friend_rest
  <1>1. ASSUME NEW t \in Thread, cfile_check(t) PROVE FileOK'
    <2>1. CASE Stopped
      BY <2>1, StoppedFile
    <2>2. CASE Go(t, "check", Checked(t)) /\ UNCHANGED <<file_rest, conv, disk>>
      BY <1>1, <2>2 DEF cfile_check, Checked
    <2>3. CASE Go(t, "check", "init") /\ UNCHANGED <<file_rest, conv, disk>>
      BY <1>1, <2>3 DEF cfile_check
    <2> QED
      BY <1>1, <2>1, <2>2, <2>3 DEF cfile_check
  <1>2. ASSUME NEW t \in Thread, cfile_init(t) PROVE FileOK'
    <2>1. file'.there /\ file'.blocks = <<>>
      BY <1>2 DEF cfile_init
    <2> QED
      BY <1>2, <2>1 DEF cfile_init, Free
  <1>3. ASSUME NEW t \in Thread, init_header(t) PROVE FileOK'
    <2>1. file' \in Files /\ file'.there /\ file'.blocks = <<>> /\ file'.header
       = 0
      BY <1>3, HeaderBegun DEF init_header
    <2> QED
      BY <1>3, <2>1 DEF init_header, Checked
  <1>4. ASSUME NEW t \in Thread, cfile_add(t) PROVE FileOK'
    <2>1. /\ file' \in Files /\ file'.there = file.there
          /\ file'.blocks = file.blocks
      BY <1>4, AddHeader
    <2>2. CASE Go(t, "add", Failed(t)) /\ UNCHANGED <<writer, file>>
      BY <1>4, <2>2 DEF cfile_add, Failed, Free
    <2>3. CASE file.header >= 0 /\ Len(file.blocks) < file.header
      <3>1. cut
        BY <1>4, <2>3 DEF cfile_add, Free, NoFile
      <3> QED
        BY <1>4, <2>1, <2>3, <3>1 DEF cfile_add, Failed, Free, NoFile
    <2>4. CASE file.header >= 0 /\ ~(Len(file.blocks) < file.header)
      <3>1. file.there
        BY <2>4 DEF NoFile
      <3>2. file'.header = file.header + 1
        BY <1>4, <2>4, HeaderSet DEF cfile_add, Files
      <3> QED
        BY <1>4, <2>1, <2>4, <3>1, <3>2 DEF cfile_add, Free
    <2> QED
      BY <1>4, <2>2, <2>3, <2>4 DEF cfile_add
  <1>5. ASSUME NEW t \in Thread, add_block(t) PROVE FileOK'
    <2>1. msg[t] \in Block
      BY <1>5, MessageStored DEF add_block
    <2>2. /\ file' \in Files /\ file'.blocks = Append(file.blocks, msg[t])
          /\ file'.there = file.there /\ file'.header = file.header
      BY <1>5, <2>1, BlockAdded DEF add_block
    <2>3. Len(file'.blocks) = Len(file.blocks) + 1
      BY <2>1, <2>2 DEF Files
    <2> QED
      BY <1>5, <2>2, <2>3 DEF add_block, Done
  <1>6. CASE start_conversation
    BY <1>6 DEF start_conversation
  <1>7. CASE cfile_load
    BY <1>7 DEF cfile_load
  <1>8. CASE cmessage_send_server
    BY <1>8 DEF cmessage_send_server
  <1>9. CASE merge
    <2>1. CASE Stopped
      BY <2>1, StoppedFile
    <2>2. CASE ~Stopped
      BY <1>9, <2>2 DEF merge
    <2> QED
      BY <2>1, <2>2
  <1>10. CASE fail
    BY <1>10 DEF fail, Leave
  <1>11. CASE recv_message
    BY <1>11 DEF recv_message
  <1>12. CASE parse_conv_message_payload
    BY <1>12 DEF parse_conv_message_payload, Drop
  <1>13. CASE parse_conv_message
    BY <1>13 DEF parse_conv_message
  <1>14. CASE bg_end
    BY <1>14 DEF bg_end
  <1>15. CASE select
    BY <1>15 DEF select
  <1>16. CASE type
    BY <1>16 DEF type
  <1>17. CASE exit
    BY <1>17 DEF exit, Leave
  <1>18. CASE undel_load
    BY <1>18 DEF undel_load
  <1>19. CASE send_undelivered
    BY <1>19 DEF send_undelivered
  <1>20. CASE end_session
    BY <1>20 DEF end_session
  <1>21. CASE handle_message
    BY <1>21 DEF handle_message, Pass
  <1>22. CASE undel_add_message
    BY <1>22 DEF undel_add_message
  <1>23. CASE add_friend
    BY <1>23 DEF add_friend
  <1>24. CASE lose
    BY <1>24 DEF lose, Unsent
  <1>25. CASE crash
    BY <1>25, StoppedFile DEF crash
  <1>26. CASE start
    BY <1>26 DEF start
  <1>27. CASE friend_adds_friend
    BY <1>27 DEF friend_adds_friend
  <1>28. CASE friend_restarts
    BY <1>28 DEF friend_restarts
  <1>29. CASE UNCHANGED vars
    BY <1>29 DEF vars
  <1>30. CASE handle_user
    BY <1>30 DEF handle_user
  <1>31. CASE menu_ends
    BY <1>31 DEF menu_ends
  <1>32. CASE transmit
    BY <1>32 DEF transmit
  <1>33. CASE handle_second
    BY <1>33 DEF handle_second, Pass
  <1> QED
    BY <1>1, <1>2, <1>3, <1>4, <1>5, <1>6, <1>7, <1>8, <1>9, <1>10, <1>11,
       <1>12, <1>13, <1>14, <1>15, <1>16, <1>17, <1>18, <1>19, <1>20, <1>21,
       <1>22, <1>23, <1>24, <1>25, <1>26, <1>27, <1>28, <1>29, <1>30,
       <1>31, <1>32, <1>33
    DEF Next, user_interface, background_thread, user, server, file_step, Thread

LEMMA StoppedBegins ==
    ASSUME Types, BeginsOK, Stopped
    PROVE  BeginsOK'
  BY DEF BeginsOK, Stopped, Unsent, Thread

LEMMA BeginsStep ==
    ASSUME Types, BeginsOK, [Next]_vars
    PROVE  BeginsOK'
  <1> USE DEF Types, ThreadTypes, DataTypes, BeginsOK, Thread, Go, Unlock,
     client, net, peer, own, conv, nonces, seen, disk, file_rest, ui_rest, bg_rest,
     server_rest, friend_rest
  <1>1. ASSUME NEW t \in Thread, cfile_check(t) PROVE BeginsOK'
    <2>1. CASE Stopped
      BY <2>1, StoppedBegins
    <2>2. CASE Go(t, "check", Checked(t)) /\ UNCHANGED <<file_rest, conv, disk>>
      BY <1>1, <2>2 DEF cfile_check, Checked
    <2>3. CASE /\ ~file.there /\ Go(t, "check", "init")
               /\ UNCHANGED <<file_rest, conv, disk>>
      BY <1>1, <2>3 DEF cfile_check
    <2> QED
      BY <1>1, <2>1, <2>2, <2>3 DEF cfile_check
  <1>2. ASSUME NEW t \in Thread, cfile_init(t) PROVE BeginsOK'
    BY <1>2 DEF cfile_init
  <1>3. ASSUME NEW t \in Thread, init_header(t) PROVE BeginsOK'
    BY <1>3, HeaderBegun DEF init_header, Checked
  <1>4. ASSUME NEW t \in Thread, cfile_add(t) PROVE BeginsOK'
    BY <1>4, AddHeader DEF cfile_add, Failed
  <1>5. ASSUME NEW t \in Thread, add_block(t) PROVE BeginsOK'
    BY <1>5, BlockAdded, MessageStored DEF add_block, Done
  <1>6. CASE start_conversation
    BY <1>6 DEF start_conversation
  <1>7. CASE cfile_load
    BY <1>7 DEF cfile_load
  <1>8. CASE cmessage_send_server
    BY <1>8 DEF cmessage_send_server
  <1>9. CASE merge
    <2>1. CASE Stopped
      BY <2>1, StoppedBegins
    <2>2. CASE ~Stopped
      BY <1>9, <2>2 DEF merge
    <2> QED
      BY <2>1, <2>2
  <1>10. CASE fail
    BY <1>10 DEF fail, Leave
  <1>11. CASE recv_message
    BY <1>11 DEF recv_message
  <1>12. CASE parse_conv_message_payload
    BY <1>12 DEF parse_conv_message_payload, Drop
  <1>13. CASE parse_conv_message
    BY <1>13 DEF parse_conv_message
  <1>14. CASE bg_end
    BY <1>14 DEF bg_end
  <1>15. CASE select
    BY <1>15 DEF select
  <1>16. CASE type
    BY <1>16 DEF type
  <1>17. CASE exit
    BY <1>17 DEF exit, Leave
  <1>18. CASE undel_load
    BY <1>18 DEF undel_load
  <1>19. CASE send_undelivered
    BY <1>19 DEF send_undelivered
  <1>20. CASE end_session
    BY <1>20 DEF end_session
  <1>21. CASE handle_message
    BY <1>21 DEF handle_message, Pass
  <1>22. CASE undel_add_message
    BY <1>22 DEF undel_add_message
  <1>23. CASE add_friend
    BY <1>23 DEF add_friend
  <1>24. CASE lose
    BY <1>24 DEF lose, Unsent
  <1>25. CASE crash
    BY <1>25, StoppedBegins DEF crash
  <1>26. CASE start
    BY <1>26 DEF start
  <1>27. CASE friend_adds_friend
    BY <1>27 DEF friend_adds_friend
  <1>28. CASE friend_restarts
    BY <1>28 DEF friend_restarts
  <1>29. CASE UNCHANGED vars
    BY <1>29 DEF vars
  <1>30. CASE handle_user
    BY <1>30 DEF handle_user
  <1>31. CASE menu_ends
    BY <1>31 DEF menu_ends
  <1>32. CASE transmit
    BY <1>32 DEF transmit
  <1>33. CASE handle_second
    BY <1>33 DEF handle_second, Pass
  <1> QED
    BY <1>1, <1>2, <1>3, <1>4, <1>5, <1>6, <1>7, <1>8, <1>9, <1>10, <1>11,
       <1>12, <1>13, <1>14, <1>15, <1>16, <1>17, <1>18, <1>19, <1>20, <1>21,
       <1>22, <1>23, <1>24, <1>25, <1>26, <1>27, <1>28, <1>29, <1>30,
       <1>31, <1>32, <1>33
    DEF Next, user_interface, background_thread, user, server, file_step, Thread
-------------------------------------------------------------------------------
(* Every step keeps what is stored among what was sent.                       *)
LEMMA StoppedOwn ==
    ASSUME Types, OwnOK, Stopped
    PROVE  OwnOK'
  BY DEF OwnOK, Queued, Stopped, Unsent, Thread, own

LEMMA OwnStep ==
    ASSUME Types, OwnOK, [Next]_vars
    PROVE  OwnOK'
  <1> USE DEF Types, ThreadTypes, DataTypes, OwnOK, Queued, Thread, Go, Unlock, client,
     net, peer, own, conv, nonces, seen, disk, file_rest, ui_rest, bg_rest,
     server_rest, friend_rest
  <1>1. ASSUME NEW t \in Thread, cfile_check(t) PROVE OwnOK'
    <2>1. CASE Stopped
      BY <2>1, StoppedOwn
    <2>2. CASE Go(t, "check", Checked(t)) /\ UNCHANGED <<file_rest, conv, disk>>
      BY <1>1, <2>2 DEF cfile_check, Checked
    <2>3. CASE Go(t, "check", "init") /\ UNCHANGED <<file_rest, conv, disk>>
      BY <1>1, <2>3 DEF cfile_check
    <2> QED
      BY <1>1, <2>1, <2>2, <2>3 DEF cfile_check
  <1>2. ASSUME NEW t \in Thread, cfile_init(t) PROVE OwnOK'
    <2>1. file'.blocks = <<>>
      BY <1>2 DEF cfile_init
    <2> QED
      BY <1>2, <2>1 DEF cfile_init
  <1>3. ASSUME NEW t \in Thread, init_header(t) PROVE OwnOK'
    <2>1. file'.blocks = file.blocks
      BY <1>3, HeaderBegun
    <2> QED
      BY <1>3, <2>1 DEF init_header, Checked
  <1>4. ASSUME NEW t \in Thread, cfile_add(t) PROVE OwnOK'
    <2>1. file'.blocks = file.blocks
      BY <1>4, AddHeader
    <2> QED
      BY <1>4, <2>1 DEF cfile_add, Failed
  <1>5. ASSUME NEW t \in Thread, add_block(t) PROVE OwnOK'
    <2>1. msg[t] \in Block
      BY <1>5, MessageStored DEF add_block
    <2>2. file.blocks \in Seq(Block) /\ file'.blocks = Append(file.blocks,
       msg[t])
      BY <1>5, <2>1, BlockAdded DEF add_block, Files
    <2>3. msg[t].from = "me" => Queued(msg[t].n)
      <3>1. CASE t = "ui"
        BY <1>5, <3>1 DEF add_block, None, Mine
      <3>2. CASE t = "bg"
        <4>1. msg["bg"] \in Block \ Mine
          BY <1>5, <3>2 DEF add_block, Storing
        <4> QED
          BY <3>2, <4>1 DEF Block
      <3> QED
        BY <3>1, <3>2
    <2>4. ASSUME NEW i \in DOMAIN file'.blocks, file'.blocks[i].from = "me"
          PROVE  Queued(file.blocks[i].n)'
      <3>1. CASE i = Len(file.blocks) + 1
        BY <1>5, <2>1, <2>2, <2>3, <2>4, <3>1 DEF add_block
      <3>2. CASE i \in DOMAIN file.blocks /\ i # Len(file.blocks) + 1
        BY SMTT(30), <1>5, <2>1, <2>2, <2>4, <3>2 DEF add_block
      <3> QED
        BY <2>1, <2>2, <3>1, <3>2
    <2>5. msg'["ui"] # None =>
             pc'["ui"] \in {"send", "failed"} \/ Queued(msg["ui"].n)'
      BY <1>5 DEF add_block, Done
    <2> QED
      BY <1>5, <2>4, <2>5 DEF add_block
  <1>6. CASE start_conversation
    BY <1>6 DEF start_conversation
  <1>7. CASE cfile_load
    BY <1>7 DEF cfile_load
  <1>8. CASE cmessage_send_server
    <2>1. on_server' = on_server /\ out \subseteq out' /\ lost \subseteq lost'
      BY <1>8 DEF cmessage_send_server
    <2>2. msg'["ui"] # None =>
             pc'["ui"] \in {"send", "failed"} \/ Queued(msg["ui"].n)'
      <3>1. CASE Go("ui", "send", "failed")
        BY <3>1
      <3>2. CASE linked /\ out' = out \cup {msg["ui"].n}
        BY <1>8, <3>2 DEF cmessage_send_server
      <3>3. CASE ~linked /\ lost' = lost \cup {msg["ui"].n}
        BY <1>8, <3>3 DEF cmessage_send_server
      <3> QED
        BY <1>8, <3>1, <3>2, <3>3 DEF cmessage_send_server
    <2> QED
      BY <1>8, <2>1, <2>2 DEF cmessage_send_server
  <1>9. CASE merge
    <2>1. CASE Stopped
      BY <2>1, StoppedOwn
    <2>2. CASE ~Stopped
      BY <1>9, <2>2 DEF merge
    <2> QED
      BY <2>1, <2>2
  <1>10. CASE fail
    BY <1>10 DEF fail, Leave
  <1>11. CASE recv_message
    BY <1>11 DEF recv_message
  <1>12. CASE parse_conv_message_payload
    BY <1>12 DEF parse_conv_message_payload, Drop
  <1>13. CASE parse_conv_message
    BY <1>13 DEF parse_conv_message
  <1>14. CASE bg_end
    BY <1>14 DEF bg_end
  <1>15. CASE select
    BY <1>15 DEF select
  <1>16. CASE type
    BY <1>16 DEF type
  <1>17. CASE exit
    BY <1>17 DEF exit, Leave
  <1>18. CASE undel_load
    BY <1>18 DEF undel_load
  <1>19. CASE send_undelivered
    BY <1>19 DEF send_undelivered
  <1>20. CASE end_session
    BY <1>20 DEF end_session
  <1>21. CASE handle_message
    BY <1>21 DEF handle_message, Pass
  <1>22. CASE undel_add_message
    BY <1>22 DEF undel_add_message
  <1>23. CASE add_friend
    BY <1>23 DEF add_friend
  <1>24. CASE lose
    BY <1>24 DEF lose, Unsent
  <1>25. CASE crash
    BY <1>25, StoppedOwn DEF crash
  <1>26. CASE start
    BY <1>26 DEF start
  <1>27. CASE friend_adds_friend
    BY <1>27 DEF friend_adds_friend
  <1>28. CASE friend_restarts
    BY <1>28 DEF friend_restarts
  <1>29. CASE UNCHANGED vars
    BY <1>29 DEF vars
  <1>30. CASE handle_user
    BY <1>30 DEF handle_user
  <1>31. CASE menu_ends
    BY <1>31 DEF menu_ends
  <1>32. CASE transmit
    BY <1>32 DEF transmit
  <1>33. CASE handle_second
    BY <1>33 DEF handle_second, Pass
  <1> QED
    BY <1>1, <1>2, <1>3, <1>4, <1>5, <1>6, <1>7, <1>8, <1>9, <1>10, <1>11,
       <1>12, <1>13, <1>14, <1>15, <1>16, <1>17, <1>18, <1>19, <1>20, <1>21,
       <1>22, <1>23, <1>24, <1>25, <1>26, <1>27, <1>28, <1>29, <1>30,
       <1>31, <1>32, <1>33
    DEF Next, user_interface, background_thread, user, server, file_step, Thread
-------------------------------------------------------------------------------
(* Every step keeps the order of the nonces on the connection.                *)
LEMMA StoppedNonce ==
    ASSUME Types, NonceOK, Stopped
    PROVE  NonceOK'
  <1>1. /\ r_nonce' = saved /\ in' = <<>> /\ pc'["bg"] # "parse"
        /\ UNCHANGED <<saved, spoilt, loaded, stored, absent, peer>>
    BY DEF Stopped, Thread
  <1>2. saved \in Nat
    BY DEF Types, DataTypes
  <1> QED
    BY <1>1, <1>2 DEF NonceOK, peer, Rising, After

LEMMA HighestGrows ==
    ASSUME Types, NonceOK, handle_message
    PROVE  /\ highest' \in Nat /\ highest' >= highest /\ highest' >= s_nonce + 1
           /\ Message \in Raw
  <1>1. s_nonce \in Nat /\ s_nonce + 1 \in Nat /\ highest \in Nat
    BY SMTT(30) DEF Types, TypeOK, DataTypes
  <1>2. Message \in Raw
    BY <1>1 DEF Message, Raw, Types, TypeOK
  <1> QED
    BY <1>1, <1>2, MaxOfTwo DEF handle_message, Pass

(* What follows the first message, and the fresh ones among it.               *)
LEMMA FreshMessage ==
    ASSUME s_nonce \in Nat, highest \in Nat, Fresh(Message)
    PROVE  s_nonce >= highest
  <1>1. Message.reused = (s_nonce < highest)
    BY DEF Message
  <1>2. ~Message.reused
    BY DEF Fresh
  <1>3. ~(s_nonce < highest)
    BY <1>1, <1>2, Zenon
  <1> QED
    BY <1>3
LEMMA TailRises ==
    ASSUME NEW s \in Seq(Raw), s # <<>>, Rising(s)
    PROVE  \A j \in DOMAIN Tail(s) :
              /\ j + 1 \in DOMAIN s /\ Tail(s)[j] = s[j + 1]
              /\ Fresh(Tail(s)[j]) =>
                    /\ s[1].first => s[1].nonce < Tail(s)[j].nonce
                    /\ \A i \in 1 .. j - 1 :
                          Tail(s)[i].first => Tail(s)[i].nonce < Tail(s)[j].nonce
  <1> TAKE j \in DOMAIN Tail(s)
  <1>1. /\ j \in Nat /\ j + 1 \in DOMAIN s /\ Tail(s)[j] = s[j + 1]
        /\ \A i \in 1 .. j - 1 : Tail(s)[i] = s[i + 1]
    OBVIOUS
  <1>2. PICK k \in DOMAIN s : k = j + 1
    BY <1>1
  <1>3. Fresh(s[k]) =>
           \A i \in 1 .. k - 1 : s[i].first => s[i].nonce < s[k].nonce
    BY DEF Rising
  <1>4. 1 \in 1 .. k - 1 /\ \A i \in 1 .. j - 1 : i + 1 \in 1 .. k - 1
    BY <1>1, <1>2
  <1> QED
    BY <1>1, <1>2, <1>3, <1>4
LEMMA AppendRises ==
    ASSUME NEW s \in Seq(Raw), NEW m \in Raw, Rising(s),
           Fresh(m) => \A i \in DOMAIN s : s[i].first => s[i].nonce < m.nonce
    PROVE  /\ Rising(Append(s, m))
           /\ \A j \in DOMAIN Append(s, m) :
                 \/ j \in DOMAIN s /\ Append(s, m)[j] = s[j]
                 \/ Append(s, m)[j] = m
  <1>1. /\ DOMAIN Append(s, m) = 1 .. Len(s) + 1 /\ DOMAIN s = 1 .. Len(s)
        /\ Len(s) \in Nat /\ Append(s, m)[Len(s) + 1] = m
        /\ \A i \in 1 .. Len(s) : Append(s, m)[i] = s[i]
    OBVIOUS
  <1>2. ASSUME NEW k \in DOMAIN Append(s, m), Fresh(Append(s, m)[k]),
               NEW i \in 1 .. k - 1, Append(s, m)[i].first
        PROVE  Append(s, m)[i].nonce < Append(s, m)[k].nonce
    <2>1. i \in DOMAIN s /\ Append(s, m)[i] = s[i]
      BY <1>1
    <2>2. CASE k \in DOMAIN s
      BY <1>1, <1>2, <2>1, <2>2 DEF Rising
    <2>3. CASE k = Len(s) + 1
      BY SMTT(30), <1>1, <1>2, <2>1, <2>3
    <2> QED
      BY <1>1, <2>2, <2>3
  <1>3. Rising(Append(s, m))
    BY ZenonT(40), Zenon, <1>2 DEF Rising
  <1> QED
    BY <1>1, <1>3

LEMMA NonceStep ==
    ASSUME Types, NonceOK, [Next]_vars
    PROVE  NonceOK'
  <1> USE DEF Types, TypeOK, ThreadTypes, DataTypes, NonceOK, Known, Kept, After,
     Thread, Go, Unlock, client, net, peer, own, conv, nonces, seen, disk, file_rest,
     ui_rest, bg_rest, server_rest, friend_rest
  <1>1. ASSUME NEW t \in Thread, cfile_check(t) PROVE NonceOK'
    <2>1. CASE Stopped
      BY <2>1, StoppedNonce
    <2>2. CASE ~Stopped
      BY ZenonT(40), <1>1, <2>2 DEF cfile_check, Checked
    <2> QED
      BY <2>1, <2>2
  <1>2. ASSUME NEW t \in Thread, cfile_init(t) PROVE NonceOK'
    BY <1>2 DEF cfile_init
  <1>3. ASSUME NEW t \in Thread, init_header(t) PROVE NonceOK'
    BY <1>3 DEF init_header, Checked
  <1>4. ASSUME NEW t \in Thread, cfile_add(t) PROVE NonceOK'
    BY ZenonT(40), <1>4 DEF cfile_add, Failed
  <1>5. ASSUME NEW t \in Thread, add_block(t) PROVE NonceOK'
    <2>1. \/ pc'["bg"] # "parse"
          \/ pc'["bg"] = pc["bg"] /\ msg'["bg"] = msg["bg"]
      BY <1>5 DEF add_block, Done
    <2> QED
      BY <1>5, <2>1 DEF add_block
  <1>6. CASE start_conversation
    BY <1>6 DEF start_conversation
  <1>7. CASE cfile_load
    BY <1>7 DEF cfile_load
  <1>8. CASE cmessage_send_server
    BY <1>8 DEF cmessage_send_server
  <1>9. CASE merge
    <2>1. CASE Stopped
      BY <2>1, StoppedNonce
    <2>2. CASE ~Stopped
      BY ZenonT(40), <1>9, <2>2 DEF merge
    <2> QED
      BY <2>1, <2>2
  <1>10. CASE fail
    BY <1>10 DEF fail, Leave
  <1>11. CASE recv_message
    <2>1. CASE in # <<>> /\ Go("bg", "recv", "parse")
      <3>1. msg' = [msg EXCEPT !["bg"] = Head(in)] /\ in' = Tail(in)
        BY <1>11, <2>1 DEF recv_message
      <3>2. /\ 1 \in DOMAIN in /\ msg'["bg"] = in[1] /\ pc["bg"] = "recv"
            /\ DOMAIN in' = 1 .. Len(in) - 1 /\ DOMAIN in = 1 .. Len(in)
            /\ Len(in) \in Nat
            /\ \A i \in DOMAIN in' : in'[i] = in[i + 1]
        BY SMTT(30), <2>1, <3>1
      <3>3. UNCHANGED <<peer, seen, saved, loaded, stored, absent>>
        BY <1>11 DEF recv_message
      <3>4. \A i \in DOMAIN in : Known(in[i], highest') /\ (Fresh(in[i]) =>
         After(in[i].nonce))
        BY <3>3
      <3>5. Rising(in) /\ in \in Seq(Raw) /\ in # <<>>
        BY <2>1
      <3>6. \A j \in DOMAIN in' : j + 1 \in DOMAIN in /\ in'[j] = in[j + 1]
        BY <3>1, <3>5, TailRises
      <3>9. Rising(in')
        BY <3>1, <3>5, TailRises DEF Rising
      <3>10. ASSUME NEW j \in DOMAIN in', Fresh(in'[j])
             PROVE  /\ After(in[j].nonce)'
                    /\ msg'["bg"].first => msg'["bg"].nonce < in'[j].nonce
        <4>1. msg'["bg"].first => msg'["bg"].nonce < in'[j].nonce
          BY <3>1, <3>2, <3>5, <3>10, TailRises
        <4>2. After(in'[j].nonce)
          BY <3>4, <3>6, <3>10
        <4> QED
          BY <3>3, <4>1, <4>2
      <3>7. \A i \in DOMAIN in' : Known(in'[i], highest')
        BY <3>2, <3>4, <3>6
      <3>8. Known(msg'["bg"], highest') /\ (Fresh(msg'["bg"]) =>
         After(msg["bg"].nonce)')
        BY <3>2, <3>3, <3>4
      <3> QED
        BY <3>3, <3>7, <3>8, <3>9, <3>10
    <2>2. CASE UNCHANGED <<pc, msg, in>>
      BY <1>11, <2>2 DEF recv_message
    <2> QED
      BY <1>11, <2>1, <2>2 DEF recv_message
  <1>12. CASE parse_conv_message_payload
    <2>1. pc["bg"] = "parse" /\ pc'["bg"] # "parse"
      BY <1>12 DEF parse_conv_message_payload, Drop
    <2>2. \/ r_nonce' = r_nonce /\ spoilt' = spoilt
          \/ /\ r_nonce' = msg["bg"].nonce /\ msg["bg"].nonce > r_nonce
             /\ \/ spoilt' = msg["bg"].nonce
                \/ spoilt' = spoilt /\ msg["bg"].first
      BY <1>12 DEF parse_conv_message_payload, Drop
    <2>3. UNCHANGED <<peer, saved, net>>
      BY <1>12 DEF parse_conv_message_payload, Drop
    <2>7. msg["bg"] \in Raw /\ \A i \in DOMAIN in : in[i] \in Raw
      BY <2>1
    <2>8. \A m \in Raw : m.nonce \in Nat
      BY DEF Raw
    <2>4. /\ {r_nonce, spoilt, saved, highest, msg["bg"].nonce} \subseteq Nat
          /\ \A i \in DOMAIN in : in[i] \in Raw /\ in[i].nonce \in Nat
      BY <2>7, <2>8
    <2>5. /\ saved' <= r_nonce' /\ (r_nonce' <= highest' \/ r_nonce' <= spoilt')
          /\ saved' <= highest' \/ saved' <= spoilt'
      BY SMTT(30), <2>1, <2>2, <2>3, <2>4
    <2>6. ASSUME NEW j \in DOMAIN in, Fresh(in[j])
          PROVE  in[j].nonce > r_nonce' \/ in[j].nonce <= spoilt'
      <3>1. /\ in[j].nonce > r_nonce \/ in[j].nonce <= spoilt
            /\ msg["bg"].first => msg["bg"].nonce < in[j].nonce
        BY <2>1, <2>6
      <3> QED
        BY SMTT(30), <2>2, <2>4, <3>1
    <2> QED
      BY <2>1, <2>3, <2>5, <2>6
  <1>13. CASE parse_conv_message
    BY <1>13 DEF parse_conv_message
  <1>14. CASE bg_end
    BY <1>14 DEF bg_end
  <1>15. CASE select
    BY <1>15 DEF select
  <1>16. CASE type
    BY <1>16 DEF type
  <1>17. CASE exit
    BY <1>17 DEF exit, Leave
  <1>18. CASE undel_load
    BY <1>18 DEF undel_load
  <1>19. CASE send_undelivered
    <2>1. /\ Head(loaded) \in Raw /\ Head(loaded) = loaded[1]
          /\ 1 \in DOMAIN loaded /\ Tail(loaded) \in Seq(Raw)
          /\ \A i \in DOMAIN Tail(loaded) :
                i + 1 \in DOMAIN loaded /\ Tail(loaded)[i] = loaded[i + 1]
      BY SMTT(30), <1>19 DEF send_undelivered
    <2>2. Kept(Head(loaded), highest) /\ ~Fresh(Head(loaded))
      BY <2>1 DEF Fresh
    <2>3. /\ in' = Append(in, Head(loaded)) /\ loaded' = Tail(loaded)
          /\ UNCHANGED <<stored, absent, server_rest>>
      BY <1>19 DEF send_undelivered
    <2>4. \A i \in DOMAIN loaded' : Kept(loaded'[i], highest')
      BY <2>1, <2>3
    <2>5. /\ Rising(in) /\ in \in Seq(Raw)
          /\ \A i \in DOMAIN in :
                Known(in[i], highest) /\ (Fresh(in[i]) => After(in[i].nonce))
      OBVIOUS
    <2>6. /\ Rising(in')
          /\ \A j \in DOMAIN in' :
                \/ j \in DOMAIN in /\ in'[j] = in[j]
                \/ in'[j] = Head(loaded)
      BY <2>1, <2>2, <2>3, <2>5, AppendRises
    <2>7. UNCHANGED <<highest, seen, saved, s_nonce, s_saved, pc, msg>>
      BY <2>3
    <2>8. \A j \in DOMAIN in' :
             Known(in'[j], highest') /\ (Fresh(in'[j]) => After(in[j].nonce)')
      BY <2>2, <2>5, <2>6, <2>7
    <2>9. \A j \in DOMAIN in' :
             Fresh(in'[j]) /\ pc'["bg"] = "parse" /\ msg'["bg"].first =>
                msg'["bg"].nonce < in'[j].nonce
      BY <2>2, <2>6, <2>7
    <2> QED
      BY <2>3, <2>4, <2>6, <2>7, <2>8, <2>9
  <1>20. CASE end_session
    BY <1>20 DEF end_session
  <1>21. CASE handle_message
    <2>1. /\ highest' \in Nat /\ highest' >= highest /\ highest' >= s_nonce + 1
          /\ Message \in Raw
      BY <1>21, HighestGrows DEF Types
    <2>2. /\ s_nonce' = s_nonce + 1
          /\ UNCHANGED <<loaded, stored, s_saved, seen, saved, pc, msg>>
      BY <1>21 DEF handle_message, Pass
    <2>3. /\ s_nonce \in Nat /\ r_nonce \in Nat /\ saved \in Nat
          /\ spoilt \in Nat /\ s_saved \in Nat /\ highest \in Nat
      BY DEF TypeOK
    <2>4. ASSUME NEW m \in Raw, Known(m, highest)
          PROVE  Known(m, highest')
      BY SMTT(30), <2>1, <2>3, <2>4 DEF Raw
    <2>5. Message.nonce = s_nonce + 1 /\ Known(Message, highest')
      BY <2>1 DEF Message
    <2>6. Fresh(Message) => \A m \in Raw :
             Known(m, highest) /\ m.first => m.nonce < Message.nonce
      <3>1. Fresh(Message) => s_nonce >= highest
        BY <2>3, FreshMessage
      <3> QED
        BY SMTT(30), <2>3, <2>5, <3>1 DEF Raw
    <2>7. Fresh(Message) => After(Message.nonce)
      <3>1. Fresh(Message) => s_nonce >= highest
        BY <2>3, FreshMessage
      <3> QED
        BY SMTT(30), <2>3, <2>5, <3>1
    <2>8. pc["bg"] = "parse" => msg["bg"] \in Raw
      OBVIOUS
    <2>9. /\ \A i \in DOMAIN in : in[i] \in Raw
          /\ \A i \in DOMAIN loaded : loaded[i] \in Raw
          /\ \A i \in DOMAIN stored : stored[i] \in Raw
          /\ \A i \in DOMAIN absent : absent[i] \in Raw
      BY SMTT(30)
    <2>10. /\ saved' <= r_nonce' /\ (r_nonce' <= highest' \/ r_nonce' <= spoilt')
           /\ saved' <= highest' \/ saved' <= spoilt'
           /\ s_nonce' <= highest' /\ s_saved' <= highest'
      BY SMTT(30), <2>1, <2>2, <2>3
    <2>11. /\ \A i \in DOMAIN loaded' : Kept(loaded'[i], highest')
           /\ \A i \in DOMAIN stored' : Kept(stored'[i], highest')
      BY <2>2, <2>4, <2>9
    <2>12. pc'["bg"] = "parse" => Known(msg'["bg"], highest')
                  /\ (Fresh(msg'["bg"]) => After(msg["bg"].nonce)')
      BY <2>2, <2>4, <2>8
    <2>13. \A i \in DOMAIN absent' : Kept(absent'[i], highest')
      <3>1. CASE absent' = <<Message>> /\ session = "none"
        <4>1. ~Fresh(Message)
          BY <3>1 DEF Message, Fresh
        <4>2. DOMAIN absent' = {1} /\ absent'[1] = Message
          BY <3>1
        <4> QED
          BY <2>5, <4>1, <4>2
      <3>2. CASE UNCHANGED absent
        BY <2>4, <2>9, <3>2
      <3> QED
        BY <1>21, <3>1, <3>2 DEF handle_message, Pass
    <2>14. CASE in' = in
      BY <2>2, <2>4, <2>9, <2>10, <2>11, <2>12, <2>13, <2>14
    <2>15. CASE in' = Append(in, Message)
      <3>1. Rising(in) /\ in \in Seq(Raw)
        OBVIOUS
      <3>2. \A i \in DOMAIN in : in[i] \in Raw /\ Known(in[i], highest)
        BY <2>9
      <3>3. Fresh(Message) =>
               \A i \in DOMAIN in : in[i].first => in[i].nonce < Message.nonce
        BY <2>6, <3>2
      <3>4. /\ Rising(in')
            /\ \A j \in DOMAIN in' :
                  \/ j \in DOMAIN in /\ in'[j] = in[j]
                  \/ in'[j] = Message
        BY ZenonT(40), <2>1, <2>15, <3>1, <3>3, AppendRises
      <3>5. \A j \in DOMAIN in' : Known(in'[j], highest')
        BY <2>4, <2>5, <3>2, <3>4
      <3>6. \A j \in DOMAIN in : Fresh(in[j]) =>
               /\ After(in[j].nonce)
               /\ pc["bg"] = "parse" /\ msg["bg"].first =>
                     msg["bg"].nonce < in[j].nonce
        OBVIOUS
      <3>7. Fresh(Message) =>
               /\ After(Message.nonce)
               /\ pc["bg"] = "parse" /\ msg["bg"].first =>
                     msg["bg"].nonce < Message.nonce
        <4>1. pc["bg"] = "parse" => msg["bg"] \in Raw /\ Known(msg["bg"],
           highest)
          BY <2>8
        <4>2. Fresh(Message) /\ pc["bg"] = "parse" /\ msg["bg"].first =>
                 msg["bg"].nonce < Message.nonce
          BY <2>6, <4>1
        <4> QED
          BY <2>3, <2>5, <2>7, <4>2
      <3>8. \A j \in DOMAIN in' : Fresh(in'[j]) =>
               /\ After(in[j].nonce)'
               /\ pc'["bg"] = "parse" /\ msg'["bg"].first =>
                     msg'["bg"].nonce < in'[j].nonce
        BY <2>2, <3>4, <3>6, <3>7
      <3> QED
        BY <2>10, <2>11, <2>12, <2>13, <3>4, <3>5, <3>8
    <2> QED
      BY <1>21, <2>14, <2>15 DEF handle_message, Pass
  <1>22. CASE undel_add_message
    <2>1. \A i \in DOMAIN (stored \o absent) : Kept((stored \o absent)[i],
       highest)
      <3>1. ASSUME NEW i \in DOMAIN (stored \o absent)
            PROVE  Kept((stored \o absent)[i], highest)
        <4>1. CASE i \in DOMAIN stored
          BY SMTT(30), <4>1
        <4>2. CASE i \notin DOMAIN stored
          <5>1. /\ i - Len(stored) \in DOMAIN absent
                /\ (stored \o absent)[i] = absent[i - Len(stored)]
            BY SMTT(30), <4>2
          <5> QED
            BY <5>1
        <4> QED
          BY <4>1, <4>2
      <3> QED
        BY <3>1
    <2> QED
      BY SMTT(30), <1>22, <2>1 DEF undel_add_message
  <1>23. CASE add_friend
    BY <1>23 DEF add_friend
  <1>24. CASE lose
    BY <1>24 DEF lose, Unsent, Rising
  <1>25. CASE crash
    BY <1>25, StoppedNonce DEF crash
  <1>26. CASE start
    BY <1>26 DEF start
  <1>27. CASE friend_adds_friend
    BY <1>27 DEF friend_adds_friend
  <1>28. CASE friend_restarts
    BY <1>28 DEF friend_restarts
  <1>29. CASE UNCHANGED vars
    BY <1>29 DEF vars
  <1>30. CASE handle_user
    BY <1>30 DEF handle_user
  <1>31. CASE menu_ends
    BY <1>31 DEF menu_ends
  <1>32. CASE transmit
    BY <1>32 DEF transmit
  <1>33. CASE handle_second
    <2>1. PICK k \in 1 .. MaxIncoming : Pass(Second(k))
      BY <1>33 DEF handle_second
    <2>2. PICK m \in Raw : m = Second(k) /\ ~m.first
      BY <2>1, SecondMessage DEF Types
    <2>3. ~Fresh(m) /\ Known(m, highest)
      BY <2>2 DEF Fresh
    <2>4. UNCHANGED <<loaded, stored, s_nonce, s_saved, highest, seen, saved, pc, msg>>
      BY <1>33, <2>1 DEF handle_second, Pass
    <2>5. in' = in \/ in' = Append(in, m)
      BY <2>1, <2>2 DEF Pass
    <2>6. absent' = absent \/ absent' = <<m>>
      BY <2>1, <2>2 DEF Pass
    <2>7. /\ Rising(in')
          /\ \A j \in DOMAIN in' :
                \/ j \in DOMAIN in /\ in'[j] = in[j]
                \/ in'[j] = m
      <3>1. Rising(in) /\ in \in Seq(Raw)
        OBVIOUS
      <3>2. CASE in' = in
        BY <3>1, <3>2
      <3>3. CASE in' = Append(in, m)
        <4>1. /\ Rising(Append(in, m))
              /\ \A j \in DOMAIN Append(in, m) :
                    \/ j \in DOMAIN in /\ Append(in, m)[j] = in[j]
                    \/ Append(in, m)[j] = m
          BY Zenon, <2>3, <3>1, AppendRises
        <4> QED
          BY <3>3, <4>1
      <3> QED
        BY <2>5, <3>2, <3>3
    <2>8. \A i \in DOMAIN absent' : Kept(absent'[i], highest')
      <3>1. CASE absent' = <<m>>
        <4>1. DOMAIN absent' = {1} /\ absent'[1] = m
          BY <3>1
        <4> QED
          BY <2>3, <2>4, <4>1
      <3>2. CASE absent' = absent
        BY <2>4, <3>2
      <3> QED
        BY <2>6, <3>1, <3>2
    <2>9. \A j \in DOMAIN in' :
             /\ Known(in'[j], highest')
             /\ Fresh(in'[j]) =>
                   /\ After(in[j].nonce)'
                   /\ pc'["bg"] = "parse" /\ msg'["bg"].first =>
                         msg'["bg"].nonce < in'[j].nonce
      BY <2>3, <2>4, <2>7
    <2>10. pc'["bg"] = "parse" => Known(msg'["bg"], highest')
                  /\ (Fresh(msg'["bg"]) => After(msg["bg"].nonce)')
      BY <2>4
    <2> QED
      BY <2>4, <2>7, <2>8, <2>9, <2>10
  <1> QED
    BY <1>1, <1>2, <1>3, <1>4, <1>5, <1>6, <1>7, <1>8, <1>9, <1>10, <1>11,
       <1>12, <1>13, <1>14, <1>15, <1>16, <1>17, <1>18, <1>19, <1>20, <1>21,
       <1>22, <1>23, <1>24, <1>25, <1>26, <1>27, <1>28, <1>29, <1>30,
       <1>31, <1>32, <1>33
    DEF Next, user_interface, background_thread, user, server, file_step, Thread
-------------------------------------------------------------------------------
(* Every step keeps the file on the screen, while the conversation is open.   *)
LEMMA NotRaw ==
    ASSUME NEW b \in Block
    PROVE  b \notin Raw
  <1> SUFFICES ASSUME b \in Raw PROVE FALSE
    OBVIOUS
  <1>1. "nonce" \in DOMAIN b
    BY DEF Raw
  <1>2. CASE b \in [from : {"me"}, n : Nat]
    BY <1>1, <1>2
  <1>3. CASE b \in [from : {"friend"}, n : Nat, epoch : Nat, run : Nat]
    BY <1>1, <1>3
  <1> QED
    BY <1>2, <1>3 DEF Block, Mine
LEMMA ToSetOfAppend ==
    ASSUME NEW s \in Seq(Block), NEW b \in Block
    PROVE  Append(s, b) \in Seq(Block) /\ ToSet(Append(s, b)) = ToSet(s) \cup {b}
  <1>1. /\ Append(s, b) \in Seq(Block)
        /\ DOMAIN Append(s, b) = 1 .. Len(s) + 1 /\ DOMAIN s = 1 .. Len(s)
        /\ Len(s) \in Nat /\ Append(s, b)[Len(s) + 1] = b
        /\ \A i \in 1 .. Len(s) : Append(s, b)[i] = s[i]
    OBVIOUS
  <1> QED
    BY <1>1 DEF ToSet
LEMMA ToSetOfConcat ==
    ASSUME NEW s \in Seq(Block), NEW u \in Seq(Block)
    PROVE  s \o u \in Seq(Block) /\ ToSet(s \o u) = ToSet(s) \cup ToSet(u)
  <1>1. /\ s \o u \in Seq(Block) /\ Len(s) \in Nat /\ Len(u) \in Nat
        /\ DOMAIN (s \o u) = 1 .. Len(s) + Len(u)
        /\ DOMAIN s = 1 .. Len(s) /\ DOMAIN u = 1 .. Len(u)
        /\ \A i \in 1 .. Len(s) : (s \o u)[i] = s[i]
        /\ \A i \in 1 .. Len(u) : (s \o u)[Len(s) + i] = u[i]
    OBVIOUS
  <1>2. ASSUME NEW i \in DOMAIN (s \o u), i \notin DOMAIN s
        PROVE  i - Len(s) \in DOMAIN u /\ (s \o u)[i] = u[i - Len(s)]
    <2>1. i - Len(s) \in 1 .. Len(u) /\ i = Len(s) + (i - Len(s))
      BY <1>1, <1>2
    <2> QED
      BY <1>1, <2>1
  <1>3. ToSet(s \o u) \subseteq ToSet(s) \cup ToSet(u)
    BY <1>1, <1>2 DEF ToSet
  <1>4. ToSet(s) \subseteq ToSet(s \o u)
    BY <1>1 DEF ToSet
  <1>5. ToSet(u) \subseteq ToSet(s \o u)
    <2>1. \A i \in DOMAIN u : Len(s) + i \in DOMAIN (s \o u)
      BY <1>1
    <2> QED
      BY <1>1, <2>1 DEF ToSet
  <1> QED
    BY <1>1, <1>3, <1>4, <1>5
LEMMA ToSetOfReverse ==
    ASSUME NEW s \in Seq(Block)
    PROVE  Reverse(s) \in Seq(Block) /\ ToSet(Reverse(s)) = ToSet(s)
  <1>1. /\ Len(s) \in Nat /\ DOMAIN s = 1 .. Len(s)
        /\ \A i \in 1 .. Len(s) : s[i] \in Block
    OBVIOUS
  <1>2. \A i \in 1 .. Len(s) : (Len(s) - i) + 1 \in 1 .. Len(s)
    BY <1>1
  <1>3. Reverse(s) = [i \in 1 .. Len(s) |-> s[(Len(s) - i) + 1]]
    BY DEF Reverse
  <1>4. Reverse(s) \in Seq(Block) /\ DOMAIN Reverse(s) = 1 .. Len(s)
    BY <1>1, <1>2, <1>3
  <1>5. ToSet(Reverse(s)) \subseteq ToSet(s)
    BY <1>1, <1>2, <1>3 DEF ToSet
  <1>6. ASSUME NEW i \in DOMAIN s
        PROVE  s[i] \in ToSet(Reverse(s))
    <2>1. PICK k \in 1 .. Len(s) : k = (Len(s) - i) + 1
      BY <1>1, <1>2
    <2>2. (Len(s) - k) + 1 = i
      BY <1>1, <2>1
    <2>3. Reverse(s)[k] = s[i]
      BY <1>3, <2>2
    <2> QED
      BY <1>4, <2>3 DEF ToSet
  <1> QED
    BY <1>4, <1>5, <1>6 DEF ToSet

LEMMA StoppedHands ==
    ASSUME Types, HandsOK, Stopped
    PROVE  HandsOK' /\ ScreenOK'
  BY DEF HandsOK, Stopped, Unsent, Thread, ScreenOK

LEMMA HandsStep ==
    ASSUME Types, HandsOK, [Next]_vars
    PROVE  HandsOK'
  <1> USE DEF Types, ThreadTypes, DataTypes, HandsOK, Thread, Go, Unlock,
     client, net, peer, own, conv, nonces, seen, disk, file_rest, ui_rest, bg_rest,
     server_rest, friend_rest
  <1>1. ASSUME NEW t \in Thread, cfile_check(t) PROVE HandsOK'
    <2>1. CASE Stopped
      BY <2>1, StoppedHands
    <2>2. CASE Go(t, "check", Checked(t)) /\ UNCHANGED <<file_rest, conv, disk>>
      BY <1>1, <2>2 DEF cfile_check, Checked
    <2>3. CASE Go(t, "check", "init") /\ UNCHANGED <<file_rest, conv, disk>>
      BY <1>1, <2>3 DEF cfile_check
    <2> QED
      BY <1>1, <2>1, <2>2, <2>3 DEF cfile_check
  <1>2. ASSUME NEW t \in Thread, cfile_init(t) PROVE HandsOK'
    BY <1>2 DEF cfile_init
  <1>3. ASSUME NEW t \in Thread, init_header(t) PROVE HandsOK'
    BY <1>3 DEF init_header, Checked
  <1>4. ASSUME NEW t \in Thread, cfile_add(t) PROVE HandsOK'
    BY <1>4 DEF cfile_add, Failed
  <1>5. ASSUME NEW t \in Thread, add_block(t) PROVE HandsOK'
    <2>1. msg[t] \in Block
      BY <1>5, MessageStored DEF add_block
    <2>2. screen' \in Seq(Block)
      BY <1>5, <2>1, ToSetOfAppend DEF add_block, Show
    <2> QED
      BY <1>5, <2>2 DEF add_block, Done
  <1>6. CASE start_conversation
    BY <1>6 DEF start_conversation, Free
  <1>7. CASE cfile_load
    BY <1>7 DEF cfile_load, Files
  <1>8. CASE cmessage_send_server
    BY <1>8 DEF cmessage_send_server, Free
  <1>9. CASE merge
    <2>1. CASE Stopped
      BY <2>1, StoppedHands
    <2>2. CASE ~Stopped
      <3>1. screen' \in Seq(Block)
        <4>1. screen' = screen \o Reverse(new_messages)
          BY <1>9, <2>2 DEF merge
        <4>2. Reverse(new_messages) \in Seq(Block)
          BY ToSetOfReverse
        <4> QED
          BY <4>1, <4>2, ToSetOfConcat
      <3>2. new_messages' = <<>>
        BY <1>9, <2>2 DEF merge
      <3> QED
        BY <1>9, <2>2, <3>1, <3>2 DEF merge
    <2> QED
      BY <2>1, <2>2
  <1>10. CASE fail
    BY <1>10 DEF fail, Leave
  <1>11. CASE recv_message
    BY <1>11 DEF recv_message, Free
  <1>12. CASE parse_conv_message_payload
    BY <1>12 DEF parse_conv_message_payload, Drop, Free
  <1>13. CASE parse_conv_message
    <2>1. <<msg["bg"]>> \in Seq(Block)
      BY <1>13 DEF parse_conv_message
    <2>2. new_messages' \in Seq(Block)
      BY <1>13, <2>1, ToSetOfConcat DEF parse_conv_message
    <2> QED
      BY <1>13, <2>2 DEF parse_conv_message
  <1>14. CASE bg_end
    BY <1>14 DEF bg_end, Free
  <1>15. CASE select
    BY <1>15 DEF select, Free
  <1>16. CASE type
    BY <1>16 DEF type, Free
  <1>17. CASE exit
    BY <1>17 DEF exit, Leave
  <1>18. CASE undel_load
    BY <1>18 DEF undel_load
  <1>19. CASE send_undelivered
    BY <1>19 DEF send_undelivered
  <1>20. CASE end_session
    BY <1>20 DEF end_session
  <1>21. CASE handle_message
    BY <1>21 DEF handle_message, Pass
  <1>22. CASE undel_add_message
    BY <1>22 DEF undel_add_message
  <1>23. CASE add_friend
    BY <1>23 DEF add_friend
  <1>24. CASE lose
    BY <1>24 DEF lose, Unsent
  <1>25. CASE crash
    BY <1>25, StoppedHands DEF crash
  <1>26. CASE start
    BY <1>26 DEF start
  <1>27. CASE friend_adds_friend
    BY <1>27 DEF friend_adds_friend
  <1>28. CASE friend_restarts
    BY <1>28 DEF friend_restarts
  <1>29. CASE UNCHANGED vars
    BY <1>29 DEF vars
  <1>30. CASE handle_user
    BY <1>30 DEF handle_user
  <1>31. CASE menu_ends
    BY <1>31 DEF menu_ends
  <1>32. CASE transmit
    BY <1>32 DEF transmit
  <1>33. CASE handle_second
    BY <1>33 DEF handle_second, Pass
  <1> QED
    BY <1>1, <1>2, <1>3, <1>4, <1>5, <1>6, <1>7, <1>8, <1>9, <1>10, <1>11,
       <1>12, <1>13, <1>14, <1>15, <1>16, <1>17, <1>18, <1>19, <1>20, <1>21,
       <1>22, <1>23, <1>24, <1>25, <1>26, <1>27, <1>28, <1>29, <1>30,
       <1>31, <1>32, <1>33
    DEF Next, user_interface, background_thread, user, server, file_step, Thread

LEMMA ScreenStep ==
    ASSUME Types, HandsOK, ScreenOK, [Next]_vars
    PROVE  ScreenOK'
  <1> USE DEF Types, ThreadTypes, DataTypes, ScreenOK, Shown, OnScreen, Thread,
     Go, Unlock, client, net, peer, own, conv, nonces, seen, disk, file_rest, ui_rest,
     bg_rest, server_rest, friend_rest
  <1>1. ASSUME NEW t \in Thread, cfile_check(t) PROVE ScreenOK'
    <2>1. CASE Stopped
      BY <2>1, StoppedHands
    <2>2. CASE Go(t, "check", Checked(t)) /\ UNCHANGED <<file_rest, conv, disk>>
      BY <1>1, <2>2 DEF cfile_check, Checked
    <2>3. CASE Go(t, "check", "init") /\ UNCHANGED <<file_rest, conv, disk>>
      BY <1>1, <2>3 DEF cfile_check
    <2> QED
      BY <1>1, <2>1, <2>2, <2>3 DEF cfile_check
  <1>2. ASSUME NEW t \in Thread, cfile_init(t) PROVE ScreenOK'
    <2>1. file'.blocks = <<>>
      BY <1>2 DEF cfile_init
    <2> QED
      BY <2>1
  <1>3. ASSUME NEW t \in Thread, init_header(t) PROVE ScreenOK'
    <2>1. file'.blocks = file.blocks
      BY <1>3, HeaderBegun
    <2> QED
      BY <1>3, <2>1 DEF init_header, Checked
  <1>4. ASSUME NEW t \in Thread, cfile_add(t) PROVE ScreenOK'
    <2>1. file'.blocks = file.blocks
      BY <1>4, AddHeader
    <2> QED
      BY <1>4, <2>1 DEF cfile_add, Failed
  <1>5. ASSUME NEW t \in Thread, add_block(t) PROVE ScreenOK'
    <2>1. msg[t] \in Block
      BY <1>5, MessageStored DEF add_block
    <2>2. /\ file.blocks \in Seq(Block)
          /\ file'.blocks = Append(file.blocks, msg[t])
          /\ DOMAIN file'.blocks = 1 .. Len(file.blocks) + 1
          /\ \A i \in DOMAIN file'.blocks :
                i \notin DOMAIN file.blocks => file'.blocks[i] = msg[t]
          /\ \A i \in DOMAIN file.blocks : file'.blocks[i] = file.blocks[i]
      BY SMTT(30), <1>5, <2>1, BlockAdded DEF add_block, Files
    <2>3. new_messages' = new_messages /\ msg'["bg"] = msg["bg"] /\ mode' = mode
      BY <1>5 DEF add_block
    <2>4. /\ ToSet(screen) \subseteq ToSet(screen')
          /\ msg[t] \in ToSet(screen') \/ msg[t] = msg["bg"]
      <3>1. CASE t = "ui"
        BY <1>5, <2>1, <3>1, ToSetOfAppend DEF add_block, Show, HandsOK
      <3>2. CASE t = "bg"
        BY <1>5, <3>2 DEF add_block, Show
      <3> QED
        BY <3>1, <3>2
    <2>5. OnScreen' => OnScreen
      BY <1>5 DEF add_block, Done, None, Mine
    <2> QED
      BY <2>2, <2>3, <2>4, <2>5
  <1>6. CASE start_conversation
    BY <1>6 DEF start_conversation, HandsOK
  <1>7. CASE cfile_load
    <2>1. UNCHANGED <<file, new_messages, msg, mode>>
      BY <1>7 DEF cfile_load
    <2>2. CASE Go("ui", "load", "loop") /\ screen' = file.blocks
      BY <2>1, <2>2 DEF ToSet
    <2>3. CASE Go("ui", "load", "failed") /\ UNCHANGED screen
      BY <2>1, <2>3 DEF HandsOK
    <2> QED
      BY <1>7, <2>2, <2>3 DEF cfile_load
  <1>8. CASE cmessage_send_server
    BY <1>8 DEF cmessage_send_server
  <1>9. CASE merge
    <2>1. CASE Stopped
      BY <2>1, StoppedHands
    <2>2. CASE ~Stopped
      <3>1. screen' = screen \o Reverse(new_messages)
        BY <1>9, <2>2 DEF merge
      <3>2. ToSet(screen') = ToSet(screen) \cup ToSet(new_messages)
        BY <3>1, ToSetOfConcat, ToSetOfReverse DEF HandsOK
      <3>3. UNCHANGED <<file, msg, mode>> /\ OnScreen
        BY <1>9, <2>2 DEF merge
      <3> QED
        BY <3>2, <3>3
    <2> QED
      BY <2>1, <2>2
  <1>10. CASE fail
    BY <1>10 DEF fail, Leave
  <1>11. CASE recv_message
    <2>1. msg["bg"] = None \/ msg'["bg"] = msg["bg"]
      BY <1>11 DEF recv_message, HandsOK
    <2>2. \A i \in DOMAIN file.blocks : file.blocks[i] # None
      BY DEF Files, Block, Mine, None
    <2>3. UNCHANGED <<file, screen, new_messages>>
      BY <1>11 DEF recv_message
    <2>4. OnScreen' /\ mode' = 1 => OnScreen /\ mode = 1
      BY <1>11 DEF recv_message
    <2> QED
      BY <2>1, <2>2, <2>3, <2>4
  <1>12. CASE parse_conv_message_payload
    <2>1. msg["bg"] \in Raw
      BY <1>12 DEF parse_conv_message_payload, Drop
    <2>2. \A i \in DOMAIN file.blocks : file.blocks[i] \notin Raw
      BY NotRaw DEF Files
    <2>3. UNCHANGED <<file, screen, new_messages>>
      BY <1>12 DEF parse_conv_message_payload, Drop
    <2>4. OnScreen' /\ mode' = 1 => OnScreen /\ mode = 1
      BY <1>12 DEF parse_conv_message_payload, Drop, Notice
    <2> QED
      BY <2>1, <2>2, <2>3, <2>4
  <1>13. CASE parse_conv_message
    <2>1. <<msg["bg"]>> \in Seq(Block) /\ ToSet(<<msg["bg"]>>) = {msg["bg"]}
      BY <1>13 DEF parse_conv_message, ToSet
    <2>2. UNCHANGED <<file, screen, mode>>
      BY <1>13 DEF parse_conv_message
    <2>3. mode = 1 => ToSet(new_messages') = {msg["bg"]} \cup
       ToSet(new_messages)
      BY <1>13, <2>1, ToSetOfConcat DEF parse_conv_message, HandsOK
    <2>4. OnScreen' => OnScreen
      BY <1>13 DEF parse_conv_message
    <2> QED
      BY <2>2, <2>3, <2>4
  <1>14. CASE bg_end
    BY <1>14 DEF bg_end
  <1>15. CASE select
    BY <1>15 DEF select
  <1>16. CASE type
    BY <1>16 DEF type
  <1>17. CASE exit
    BY <1>17 DEF exit, Leave
  <1>18. CASE undel_load
    BY <1>18 DEF undel_load
  <1>19. CASE send_undelivered
    BY <1>19 DEF send_undelivered
  <1>20. CASE end_session
    BY <1>20 DEF end_session
  <1>21. CASE handle_message
    BY <1>21 DEF handle_message, Pass
  <1>22. CASE undel_add_message
    BY <1>22 DEF undel_add_message
  <1>23. CASE add_friend
    BY <1>23 DEF add_friend
  <1>24. CASE lose
    BY <1>24 DEF lose, Unsent
  <1>25. CASE crash
    BY <1>25, StoppedHands DEF crash
  <1>26. CASE start
    BY <1>26 DEF start
  <1>27. CASE friend_adds_friend
    BY <1>27 DEF friend_adds_friend
  <1>28. CASE friend_restarts
    BY <1>28 DEF friend_restarts
  <1>29. CASE UNCHANGED vars
    BY <1>29 DEF vars
  <1>30. CASE handle_user
    BY <1>30 DEF handle_user
  <1>31. CASE menu_ends
    BY <1>31 DEF menu_ends
  <1>32. CASE transmit
    BY <1>32 DEF transmit
  <1>33. CASE handle_second
    BY <1>33 DEF handle_second, Pass
  <1> QED
    BY <1>1, <1>2, <1>3, <1>4, <1>5, <1>6, <1>7, <1>8, <1>9, <1>10, <1>11,
       <1>12, <1>13, <1>14, <1>15, <1>16, <1>17, <1>18, <1>19, <1>20, <1>21,
       <1>22, <1>23, <1>24, <1>25, <1>26, <1>27, <1>28, <1>29, <1>30,
       <1>31, <1>32, <1>33
    DEF Next, user_interface, background_thread, user, server, file_step, Thread
-------------------------------------------------------------------------------
(* The invariant, and what follows from it.                                   *)
LEMMA InitIInv ==
    ASSUME Init
    PROVE  IInv
  <1> USE DEF Init, Thread
  <1>1. file \in Files /\ file.blocks = <<>>
    <2>1. <<>> \in Seq(Block) /\ -1 \in Int /\ 0 \in Int
      OBVIOUS
    <2>2. NoFile \in Files /\ NoFile.blocks = <<>>
      BY <2>1 DEF Files, NoFile
    <2>3. [there |-> TRUE, header |-> 0, blocks |-> <<>>] \in Files
      BY <2>1 DEF Files
    <2>4. CASE file = NoFile
      BY <2>2, <2>4
    <2>5. CASE file = [there |-> TRUE, header |-> 0, blocks |-> <<>>]
      BY <2>3, <2>5
    <2> QED
      BY <2>4, <2>5
  <1>2. TypeOK
    <2>1. file.there \in BOOLEAN /\ file.header \in Int
      BY <1>1 DEF Files
    <2>2. pc.ui \in UiPlace /\ pc.bg \in BgPlace
      BY DEF UiPlace, BgPlace
    <2>3. {alive, linked, stop, cut, twice} \subseteq BOOLEAN
      OBVIOUS
    <2>4. {run, sent, texts, epoch, s_nonce, r_nonce} \subseteq Nat
      OBVIOUS
    <2> QED
      BY <2>1, <2>2, <2>3, <2>4 DEF TypeOK, UiPlace, BgPlace, Files
  <1>3. ThreadTypes
    BY DEF ThreadTypes, UiPlace, BgPlace, Storing
  <1>4. DataTypes
    BY <1>1 DEF DataTypes
  <1>5. FileOK
    BY <1>1 DEF FileOK, NoFile
  <1>6. BeginsOK /\ OwnOK
    BY <1>1 DEF BeginsOK, OwnOK
  <1>7. NonceOK
    BY DEF NonceOK, Rising
  <1>8. HandsOK /\ ScreenOK
    BY DEF HandsOK, ScreenOK
  <1> QED
    BY <1>2, <1>3, <1>4, <1>5, <1>6, <1>7, <1>8 DEF IInv, Types

LEMMA StepIInv ==
    ASSUME IInv, [Next]_vars
    PROVE  IInv'
  BY TypeOKStep, ThreadStep, DataStep, FileStep, BeginsStep, OwnStep, NonceStep,
     HandsStep, ScreenStep
     DEF IInv, Types

LEMMA IInvIsInvariant == Spec => []IInv
  <1>1. Init => IInv
    BY InitIInv
  <1>2. IInv /\ [Next]_vars => IInv'
    BY StepIInv
  <1> QED
    BY <1>1, <1>2, PTL DEF Spec

(* For any number of messages, stops and restarts: the header of the file      *)
(* counts its messages unless the program stopped within a write, one thread   *)
(* writes at a time, and a message of one's own is in the file only when it    *)
(* was queued: the server has it, or it is queued still, or it was lost with a *)
(* connection (cfile_add, cmessage_send).                                      *)
THEOREM ConversationFile == Spec => []ConvInv
  <1>1. IInv => ConvInv
    <2> SUFFICES ASSUME IInv PROVE ConvInv
      OBVIOUS
    <2>1. TypeOK
      BY DEF IInv, Types
    <2>2. FileWhole
      BY DEF IInv, FileOK, FileWhole
    <2>3. OwnAreSent
      BY DEF IInv, OwnOK, Queued, OwnAreSent, ToSet
    <2> QED
      BY <2>1, <2>2, <2>3 DEF ConvInv
  <1> QED
    BY <1>1, IInvIsInvariant, PTL

(* However the threads interleave while the conversation is opened: what is in *)
(* its file is on the screen, in the list that is about to be, or in the hands *)
(* of the thread that stored it (start_conversation, parse_conv_message).      *)
THEOREM NothingFallsBetween == Spec => []ScreenComplete
  <1>1. IInv => ScreenComplete
    BY DEF IInv, ScreenOK, Shown, ScreenComplete, ToSet
  <1> QED
    BY <1>1, IInvIsInvariant, PTL

(* A block that is added leaves those before it as they are.                   *)
LEMMA PrefixOfItself ==
    ASSUME NEW S, NEW s \in Seq(S)
    PROVE  IsPrefix(s, s)
  BY DEF IsPrefix
LEMMA PrefixOfAppend ==
    ASSUME NEW S, NEW s \in Seq(S), NEW b \in S
    PROVE  IsPrefix(s, Append(s, b))
  <1>1. Len(Append(s, b)) = Len(s) + 1 /\ Len(s) \in Nat
    OBVIOUS
  <1>2. SubSeq(s, 1, Len(s)) = SubSeq(Append(s, b), 1, Len(s))
    OBVIOUS
  <1> QED
    BY <1>1, <1>2 DEF IsPrefix

LEMMA Begin ==
    ASSUME IInv, NEW t \in Thread, cfile_init(t)
    PROVE  twice' # twice \/ IsPrefix(file.blocks, file'.blocks)
  <1>1. CASE file.there
    BY <1>1 DEF IInv, BeginsOK, cfile_init, Go, Thread
  <1>2. CASE ~file.there
    <2>1. file.blocks = <<>> /\ file'.blocks = <<>>
      BY <1>2 DEF IInv, FileOK, NoFile, cfile_init
    <2>2. <<>> \in Seq(Block)
      OBVIOUS
    <2> QED
      BY <2>1, <2>2, PrefixOfItself
  <1> QED
    BY <1>1, <1>2

LEMMA BlocksStay ==
    ASSUME IInv, [Next]_vars
    PROVE  twice' # twice \/ IsPrefix(file.blocks, file'.blocks)
  <1> USE DEF disk, client, net, peer, own, conv, nonces, seen, file_rest, ui_rest,
     bg_rest, server_rest, friend_rest
  <1>f. file \in Files
    BY DEF IInv, Types, DataTypes
  <1>u. file'.blocks = file.blocks => IsPrefix(file.blocks, file'.blocks)
    BY <1>f, PrefixOfItself DEF Files
  <1>1. ASSUME NEW t \in Thread, cfile_check(t) PROVE twice' # twice \/
     IsPrefix(file.blocks, file'.blocks)
    BY <1>1, <1>u DEF cfile_check, Stopped
  <1>2. ASSUME NEW t \in Thread, cfile_init(t) PROVE twice' # twice \/
     IsPrefix(file.blocks, file'.blocks)
    BY <1>2, Begin
  <1>3. ASSUME NEW t \in Thread, init_header(t) PROVE twice' # twice \/
     IsPrefix(file.blocks, file'.blocks)
    BY <1>3, <1>u, HeaderBegun, <1>f
  <1>4. ASSUME NEW t \in Thread, cfile_add(t) PROVE twice' # twice \/
     IsPrefix(file.blocks, file'.blocks)
    BY <1>4, <1>u, AddHeader, <1>f
  <1>5. ASSUME NEW t \in Thread, add_block(t) PROVE twice' # twice \/
     IsPrefix(file.blocks, file'.blocks)
    <2>1. msg[t] \in Block
      BY <1>5, MessageStored DEF add_block, IInv, Go
    <2>2. file.blocks \in Seq(Block) /\ file'.blocks = Append(file.blocks,
       msg[t])
      BY <1>5, <1>f, <2>1, BlockAdded DEF add_block, Files
    <2> QED
      BY <2>1, <2>2, PrefixOfAppend
  <1>6. CASE start_conversation
    BY <1>6, <1>u DEF start_conversation
  <1>7. CASE cfile_load
    BY <1>7, <1>u DEF cfile_load
  <1>8. CASE cmessage_send_server
    BY <1>8, <1>u DEF cmessage_send_server
  <1>9. CASE merge
    BY <1>9, <1>u DEF merge, Stopped
  <1>10. CASE fail
    BY <1>10, <1>u DEF fail, Leave
  <1>11. CASE recv_message
    BY <1>11, <1>u DEF recv_message
  <1>12. CASE parse_conv_message_payload
    BY <1>12, <1>u DEF parse_conv_message_payload, Drop
  <1>13. CASE parse_conv_message
    BY <1>13, <1>u DEF parse_conv_message
  <1>14. CASE bg_end
    BY <1>14, <1>u DEF bg_end
  <1>15. CASE select
    BY <1>15, <1>u DEF select
  <1>16. CASE type
    BY <1>16, <1>u DEF type
  <1>17. CASE exit
    BY <1>17, <1>u DEF exit, Leave
  <1>18. CASE undel_load
    BY <1>18, <1>u DEF undel_load
  <1>19. CASE send_undelivered
    BY <1>19, <1>u DEF send_undelivered
  <1>20. CASE end_session
    BY <1>20, <1>u DEF end_session
  <1>21. CASE handle_message
    BY <1>21, <1>u DEF handle_message, Pass
  <1>22. CASE undel_add_message
    BY <1>22, <1>u DEF undel_add_message
  <1>23. CASE add_friend
    BY <1>23, <1>u DEF add_friend
  <1>24. CASE lose
    BY <1>24, <1>u DEF lose, Unsent
  <1>25. CASE crash
    BY <1>25, <1>u DEF crash, Stopped
  <1>26. CASE start
    BY <1>26, <1>u DEF start
  <1>27. CASE friend_adds_friend
    BY <1>27, <1>u DEF friend_adds_friend
  <1>28. CASE friend_restarts
    BY <1>28, <1>u DEF friend_restarts
  <1>29. CASE UNCHANGED vars
    BY <1>29, <1>u DEF vars
  <1>30. CASE handle_user
    BY <1>30, <1>u DEF handle_user
  <1>31. CASE menu_ends
    BY <1>31, <1>u DEF menu_ends
  <1>32. CASE transmit
    BY <1>32, <1>u DEF transmit
  <1>33. CASE handle_second
    BY <1>33, <1>u DEF handle_second, Pass
  <1> QED
    BY <1>1, <1>2, <1>3, <1>4, <1>5, <1>6, <1>7, <1>8, <1>9, <1>10, <1>11,
       <1>12, <1>13, <1>14, <1>15, <1>16, <1>17, <1>18, <1>19, <1>20, <1>21,
       <1>22, <1>23, <1>24, <1>25, <1>26, <1>27, <1>28, <1>29, <1>30,
       <1>31, <1>32, <1>33
    DEF Next, user_interface, background_thread, user, server, file_step, Thread

(* Whatever stops, fails or is lost, the messages in the file stay there in    *)
(* their order, unless both threads found no file (cfile_check).               *)
THEOREM FileOnlyGrows == Spec => NothingForgotten
  <1>1. IInv /\ [Next]_vars => [twice' # twice \/ IsPrefix(file.blocks, file'.blocks)]_vars
    BY BlocksStay
  <1> QED
    BY <1>1, IInvIsInvariant, PTL DEF Spec, NothingForgotten

Excused ==
    msg["bg"].kept \/ msg["bg"].reused \/ msg["bg"].nonce <= spoilt
LEMMA Discarded ==
    ASSUME IInv, pc["bg"] = "parse", pc'["bg"] = "recv", msg["bg"].first, [Next]_vars
    PROVE  Excused
  <1> USE DEF Go, Thread, Unlock, client, net, peer, own, conv, nonces, seen, disk,
     file_rest, ui_rest, bg_rest, server_rest, friend_rest
  <1>a. pc \in [Thread -> UiPlace \cup BgPlace]
    BY DEF IInv, Types, ThreadTypes
  <1>b. alive
    BY DEF IInv, FileOK
  <1>c. /\ msg["bg"] \in Raw /\ r_nonce \in Nat
        /\ Fresh(msg["bg"]) => After(msg["bg"].nonce)
    BY DEF IInv, Types, TypeOK, ThreadTypes, NonceOK
  <1>1. ASSUME NEW t \in Thread, cfile_check(t) PROVE Excused
    BY <1>1, <1>a, <1>b DEF cfile_check, Checked, Failed, Done, Stopped
  <1>2. ASSUME NEW t \in Thread, cfile_init(t) PROVE Excused
    BY <1>2, <1>a, <1>b DEF cfile_init, Checked, Failed, Done, Stopped
  <1>3. ASSUME NEW t \in Thread, init_header(t) PROVE Excused
    BY <1>3, <1>a, <1>b DEF init_header, Checked, Failed, Done, Stopped
  <1>4. ASSUME NEW t \in Thread, cfile_add(t) PROVE Excused
    BY <1>4, <1>a, <1>b DEF cfile_add, Checked, Failed, Done, Stopped
  <1>5. ASSUME NEW t \in Thread, add_block(t) PROVE Excused
    BY <1>5, <1>a, <1>b DEF add_block, Checked, Failed, Done, Stopped
  <1>6. CASE start_conversation
    BY <1>6, <1>a DEF start_conversation
  <1>7. CASE cfile_load
    BY <1>7, <1>a DEF cfile_load
  <1>8. CASE cmessage_send_server
    BY <1>8, <1>a DEF cmessage_send_server
  <1>9. CASE merge
    BY <1>9, <1>a, <1>b DEF merge, Stopped
  <1>10. CASE fail
    BY <1>10, <1>a DEF fail, Leave
  <1>11. CASE recv_message
    BY <1>11, <1>a DEF recv_message
  <1>12. CASE parse_conv_message_payload
    <2>1. msg["bg"].nonce <= r_nonce
      BY <1>12, <1>a DEF parse_conv_message_payload, Drop
    <2>2. ~Fresh(msg["bg"]) \/ msg["bg"].nonce <= spoilt
      BY <1>c, <2>1 DEF Raw, After
    <2> QED
      BY <2>2, Zenon DEF Fresh, Excused
  <1>13. CASE parse_conv_message
    BY <1>13, <1>a DEF parse_conv_message
  <1>14. CASE bg_end
    BY <1>14, <1>a DEF bg_end
  <1>15. CASE select
    BY <1>15, <1>a DEF select
  <1>16. CASE type
    BY <1>16, <1>a DEF type
  <1>17. CASE exit
    BY <1>17, <1>a DEF exit, Leave
  <1>18. CASE undel_load
    BY <1>18, <1>a DEF undel_load
  <1>19. CASE send_undelivered
    BY <1>19, <1>a DEF send_undelivered
  <1>20. CASE end_session
    BY <1>20, <1>a DEF end_session
  <1>21. CASE handle_message
    BY <1>21, <1>a DEF handle_message, Pass
  <1>22. CASE undel_add_message
    BY <1>22, <1>a DEF undel_add_message
  <1>23. CASE add_friend
    BY <1>23, <1>a DEF add_friend
  <1>24. CASE lose
    BY <1>24, <1>a DEF lose, Unsent
  <1>25. CASE crash
    BY <1>25, <1>a, <1>b DEF crash, Stopped
  <1>26. CASE start
    BY <1>26, <1>b DEF start
  <1>27. CASE friend_adds_friend
    BY <1>27, <1>a DEF friend_adds_friend
  <1>28. CASE friend_restarts
    BY <1>28, <1>a DEF friend_restarts
  <1>29. CASE UNCHANGED vars
    BY <1>29, <1>a DEF vars
  <1>30. CASE handle_user
    BY <1>30, <1>a DEF handle_user
  <1>31. CASE menu_ends
    BY <1>31, <1>a DEF menu_ends
  <1>32. CASE transmit
    BY <1>32, <1>a DEF transmit
  <1>33. CASE handle_second
    BY <1>33, <1>a DEF handle_second, Pass
  <1> QED
    BY <1>1, <1>2, <1>3, <1>4, <1>5, <1>6, <1>7, <1>8, <1>9, <1>10, <1>11,
       <1>12, <1>13, <1>14, <1>15, <1>16, <1>17, <1>18, <1>19, <1>20, <1>21,
       <1>22, <1>23, <1>24, <1>25, <1>26, <1>27, <1>28, <1>29, <1>30,
       <1>31, <1>32, <1>33
    DEF Next, user_interface, background_thread, user, server, file_step, Thread

(* A message of the entry is thrown away only when it was overtaken in the     *)
(* undelivered file of the server, the friend had used the nonce before, or a  *)
(* message with a wrong MAC had taken r_nonce as far                           *)
(* (parse_conv_message_payload).                                               *)
THEOREM DiscardsExplained == Spec => WhyDiscarded
  <1>1. IInv /\ [Next]_vars =>
          [pc.bg = "parse" /\ pc'.bg = "recv" /\ msg.bg.first
              => msg.bg.kept \/ msg.bg.reused \/ msg.bg.nonce <= spoilt]_vars
    BY Discarded DEF Excused
  <1> QED
    BY <1>1, IInvIsInvariant, PTL DEF Spec, WhyDiscarded

-------------------------------------------------------------------------------
(* The order of the friend's messages.  What is on its way to                  *)
(* background_thread, what this thread has accepted, and what is written down  *)
(* or shown.                                                                   *)
Coming == ToSet(in) \cup ToSet(loaded) \cup ToSet(stored) \cup ToSet(absent)
          \cup IF pc["bg"] = "parse" THEN {msg["bg"]} ELSE {}
OnWay == {m \in Coming : m.first}
InHand == IF pc["bg"] \in Storing \cup {"push"} THEN {msg["bg"]} ELSE {}
Held == ToSet(file.blocks) \cup ToSet(screen) \cup ToSet(new_messages)

(* His messages go with rising nonces in each of his runs.                     *)
WayOK ==
    /\ \A m \in OnWay : /\ m.n <= sent /\ m.epoch <= epoch
                        /\ m.epoch = epoch => m.nonce <= s_nonce
    /\ \A m1, m2 \in OnWay :
          m1.epoch = m2.epoch /\ m1.n <= m2.n => m1.nonce <= m2.nonce

(* What was accepted in this run, and all before it, r_nonce keeps out.        *)
TakenOK ==
    /\ \A x \in Held \cup InHand : x.from = "friend" => x.run <= run /\ x.n <= sent
    /\ \A x \in InHand : x.from = "friend" /\ x.run = run
    /\ alive => \A x \in Held \cup InHand, m \in OnWay :
          x.from = "friend" /\ x.run = run /\ x.epoch = m.epoch /\ m.n <= x.n
             => m.nonce <= r_nonce

-------------------------------------------------------------------------------
LEMMA ToSetTypes ==
    ASSUME NEW S, NEW s \in Seq(S)
    PROVE  ToSet(s) \subseteq S
  BY DEF ToSet
LEMMA HeadAndTail ==
    ASSUME NEW S, NEW s \in Seq(S), s # <<>>
    PROVE  Head(s) \in ToSet(s) /\ ToSet(Tail(s)) \subseteq ToSet(s)
  <1>1. 1 \in DOMAIN s /\ Head(s) = s[1]
    OBVIOUS
  <1>2. \A i \in DOMAIN Tail(s) : i + 1 \in DOMAIN s /\ Tail(s)[i] = s[i + 1]
    OBVIOUS
  <1> QED
    BY <1>1, <1>2 DEF ToSet
LEMMA AddedLast ==
    ASSUME NEW S, NEW s \in Seq(S), NEW b \in S
    PROVE  ToSet(Append(s, b)) = ToSet(s) \cup {b}
  <1>1. /\ DOMAIN Append(s, b) = 1 .. Len(s) + 1 /\ DOMAIN s = 1 .. Len(s)
        /\ Len(s) \in Nat /\ Append(s, b)[Len(s) + 1] = b
        /\ \A i \in 1 .. Len(s) : Append(s, b)[i] = s[i]
    OBVIOUS
  <1> QED
    BY <1>1 DEF ToSet
LEMMA Joined ==
    ASSUME NEW S, NEW s \in Seq(S), NEW u \in Seq(S)
    PROVE  ToSet(s \o u) \subseteq ToSet(s) \cup ToSet(u)
  <1>1. /\ Len(s) \in Nat /\ Len(u) \in Nat
        /\ DOMAIN (s \o u) = 1 .. Len(s) + Len(u)
        /\ DOMAIN s = 1 .. Len(s) /\ DOMAIN u = 1 .. Len(u)
        /\ \A i \in 1 .. Len(s) : (s \o u)[i] = s[i]
        /\ \A i \in 1 .. Len(u) : (s \o u)[Len(s) + i] = u[i]
    OBVIOUS
  <1>2. ASSUME NEW i \in DOMAIN (s \o u), i \notin DOMAIN s
        PROVE  i - Len(s) \in DOMAIN u /\ (s \o u)[i] = u[i - Len(s)]
    <2>1. i - Len(s) \in 1 .. Len(u) /\ i = Len(s) + (i - Len(s))
      BY <1>1, <1>2
    <2> QED
      BY <1>1, <2>1
  <1> QED
    BY <1>1, <1>2 DEF ToSet
LEMMA EmptySet == ToSet(<<>>) = {}
  BY DEF ToSet

(* What a step does to the messages on their way: one is made, or one with the *)
(* second entry, the friend is started again, or some go.                      *)
Made ==
    /\ OnWay' \subseteq OnWay \cup {Message}
    /\ sent' = sent + 1 /\ s_nonce' = s_nonce + 1 /\ epoch' = epoch
Again == OnWay' \subseteq OnWay /\ epoch' = epoch + 1 /\ sent' = sent
Less == OnWay' \subseteq OnWay /\ UNCHANGED <<sent, epoch, s_nonce>>
Other == OnWay' \subseteq OnWay /\ sent' = sent + 1 /\ UNCHANGED <<epoch, s_nonce>>
WayChange == Made \/ Again \/ Other \/ Less

LEMMA StoppedWay ==
    ASSUME Stopped
    PROVE  Less
  BY EmptySet DEF Stopped, Unsent, Less, OnWay, Coming, Thread, peer, own

LEMMA WayStep ==
    ASSUME IInv, [Next]_vars
    PROVE  WayChange
  <1> USE DEF Go, Unlock, client, net, peer, own, conv, nonces, seen, disk, file_rest,
     ui_rest, bg_rest, server_rest, friend_rest, Thread, OnWay, Coming, WayChange, Less
  <1>a. /\ pc \in [Thread -> UiPlace \cup BgPlace]
        /\ msg \in [Thread -> {None} \cup Raw \cup Block]
    BY DEF IInv, Types, ThreadTypes
  <1>b. in \in Seq(Raw) /\ loaded \in Seq(Raw) /\ stored \in Seq(Raw) /\ absent \in Seq(Raw)
    BY DEF IInv, Types, DataTypes
  <1>1. ASSUME NEW t \in Thread, cfile_check(t) PROVE WayChange
    BY <1>1, <1>a, StoppedWay DEF cfile_check, Checked
  <1>2. ASSUME NEW t \in Thread, cfile_init(t) PROVE WayChange
    BY <1>2, <1>a DEF cfile_init
  <1>3. ASSUME NEW t \in Thread, init_header(t) PROVE WayChange
    BY <1>3, <1>a DEF init_header, Checked
  <1>4. ASSUME NEW t \in Thread, cfile_add(t) PROVE WayChange
    BY <1>4, <1>a DEF cfile_add, Failed
  <1>5. ASSUME NEW t \in Thread, add_block(t) PROVE WayChange
    BY <1>5, <1>a DEF add_block, Done
  <1>6. CASE start_conversation
    BY <1>6, <1>a DEF start_conversation
  <1>7. CASE cfile_load
    BY <1>7, <1>a DEF cfile_load
  <1>8. CASE cmessage_send_server
    BY <1>8, <1>a DEF cmessage_send_server
  <1>9. CASE merge
    BY <1>9, <1>a, StoppedWay DEF merge
  <1>10. CASE fail
    BY <1>10, <1>a DEF fail, Leave
  <1>11. CASE recv_message
    <2>1. CASE linked
      <3>1. in # <<>>
        BY <1>11, <2>1 DEF recv_message
      <3>2. Head(in) \in ToSet(in) /\ ToSet(Tail(in)) \subseteq ToSet(in)
        BY <1>b, <3>1, HeadAndTail
      <3> QED
        BY <1>11, <1>a, <2>1, <3>2 DEF recv_message
    <2>2. CASE ~linked
      BY <1>11, <2>2 DEF recv_message
    <2> QED
      BY <2>1, <2>2
  <1>12. CASE parse_conv_message_payload
    BY <1>12, <1>a DEF parse_conv_message_payload, Drop, Notice
  <1>13. CASE parse_conv_message
    BY <1>13, <1>a DEF parse_conv_message
  <1>14. CASE bg_end
    BY <1>14, <1>a DEF bg_end
  <1>15. CASE select
    BY <1>15, <1>a DEF select
  <1>16. CASE type
    BY <1>16, <1>a DEF type
  <1>17. CASE exit
    BY <1>17, <1>a DEF exit, Leave
  <1>18. CASE undel_load
    BY <1>18, <1>b, EmptySet DEF undel_load
  <1>19. CASE send_undelivered
    <2>1. Head(loaded) \in Raw /\ Head(loaded) \in ToSet(loaded)
          /\ ToSet(Tail(loaded)) \subseteq ToSet(loaded)
      BY <1>19, <1>b, HeadAndTail DEF send_undelivered
    <2>2. ToSet(Append(in, Head(loaded))) = ToSet(in) \cup {Head(loaded)}
      BY <1>b, <2>1, AddedLast
    <2> QED
      BY <1>19, <2>1, <2>2 DEF send_undelivered
  <1>20. CASE end_session
    BY <1>20, <1>b, EmptySet DEF end_session
  <1>21. CASE handle_message
    <2>1. Message \in Raw
      BY DEF Message, Raw, IInv, Types, TypeOK
    <2>2. ToSet(Append(in, Message)) = ToSet(in) \cup {Message}
      BY <1>b, <2>1, AddedLast
    <2>3. ToSet(<<Message>>) = {Message}
      BY DEF ToSet
    <2>4. Made
      BY ZenonT(40), <1>21, <2>2, <2>3 DEF handle_message, Pass, Made
    <2> QED
      BY <2>4
  <1>22. CASE undel_add_message
    <2>1. ToSet(stored \o absent) \subseteq ToSet(stored) \cup ToSet(absent)
      BY <1>b, Joined
    <2> QED
      BY <1>22, <2>1, EmptySet DEF undel_add_message
  <1>23. CASE add_friend
    BY <1>23, <1>a DEF add_friend
  <1>24. CASE lose
    BY <1>24, EmptySet DEF lose, Unsent
  <1>25. CASE crash
    BY <1>25, StoppedWay DEF crash
  <1>26. CASE start
    BY <1>26, <1>a DEF start
  <1>27. CASE friend_adds_friend
    BY <1>27, <1>a DEF friend_adds_friend
  <1>28. CASE friend_restarts
    BY <1>28 DEF friend_restarts, Again
  <1>29. CASE UNCHANGED vars
    BY <1>29, <1>a DEF vars
  <1>30. CASE handle_user
    BY <1>30, <1>a DEF handle_user
  <1>31. CASE menu_ends
    BY <1>31, <1>a DEF menu_ends
  <1>32. CASE transmit
    BY <1>32, <1>a DEF transmit
  <1>33. CASE handle_second
    <2>1. PICK k \in 1 .. MaxIncoming : Pass(Second(k))
      BY <1>33 DEF handle_second
    <2>2. PICK m \in Raw : m = Second(k) /\ ~m.first
      BY <2>1, SecondMessage DEF IInv
    <2>3. ToSet(Append(in, m)) = ToSet(in) \cup {m}
      BY <1>b, AddedLast
    <2>7. ToSet(<<m>>) = {m}
      BY DEF ToSet
    <2>4. Pass(m)
      BY <2>1, <2>2
    <2>5. Coming' \subseteq Coming \cup {m}
      BY <1>33, <2>3, <2>4, <2>7 DEF Pass, handle_second
    <2>6. sent' = sent + 1 /\ UNCHANGED <<epoch, s_nonce>>
      BY <1>33, <2>4 DEF Pass, handle_second
    <2> QED
      BY <2>2, <2>5, <2>6 DEF Other
  <1> QED
    BY <1>1, <1>2, <1>3, <1>4, <1>5, <1>6, <1>7, <1>8, <1>9, <1>10, <1>11,
       <1>12, <1>13, <1>14, <1>15, <1>16, <1>17, <1>18, <1>19, <1>20, <1>21,
       <1>22, <1>23, <1>24, <1>25, <1>26, <1>27, <1>28, <1>29, <1>30,
       <1>31, <1>32, <1>33
    DEF Next, user_interface, background_thread, user, server, file_step, Thread

WayTypes == OnWay \subseteq Raw
LEMMA OnWayRaw == IInv => WayTypes
  <1> SUFFICES ASSUME IInv PROVE OnWay \subseteq Raw
    BY DEF WayTypes
  <1>1. /\ ToSet(in) \subseteq Raw /\ ToSet(loaded) \subseteq Raw
        /\ ToSet(stored) \subseteq Raw /\ ToSet(absent) \subseteq Raw
    BY ToSetTypes DEF IInv, Types, DataTypes
  <1> QED
    BY <1>1 DEF OnWay, Coming, IInv, Types, ThreadTypes

LEMMA WayKept ==
    ASSUME IInv, WayOK, [Next]_vars
    PROVE  WayOK'
  <1>a. OnWay \subseteq Raw /\ {sent, epoch, s_nonce} \subseteq Nat
    BY OnWayRaw DEF WayTypes, IInv, Types, TypeOK
  <1>b. OnWay' \subseteq Raw /\ {sent', epoch', s_nonce'} \subseteq Nat
    <2>1. IInv'
      BY StepIInv
    <2>2. WayTypes'
      BY <2>1, OnWayRaw, PTL
    <2> QED
      BY <2>1, <2>2 DEF WayTypes, IInv, Types, TypeOK
  <1> USE <1>a, <1>b DEF WayOK
  <1>1. CASE Made
    <2>1. Message.n = sent + 1 /\ Message.nonce = s_nonce + 1 /\ Message.epoch = epoch
      BY DEF Message
    <2>2. OnWay' \subseteq OnWay \cup {Message}
      BY <1>1 DEF Made
    <2>3. sent' = sent + 1 /\ s_nonce' = s_nonce + 1 /\ epoch' = epoch
      BY <1>1 DEF Made
    <2>4. \A m \in Raw : {m.n, m.nonce, m.epoch} \subseteq Nat
      BY DEF Raw
    <2>5. ASSUME NEW m \in OnWay'
          PROVE  /\ m.n <= sent' /\ m.epoch <= epoch'
                 /\ m.epoch = epoch' => m.nonce <= s_nonce'
      <3>1. CASE m \in OnWay
        BY <2>3, <2>4, <3>1
      <3>2. CASE m = Message
        BY <2>1, <2>3, <3>2
      <3> QED
        BY <2>2, <3>1, <3>2
    <2>6. ASSUME NEW m1 \in OnWay', NEW m2 \in OnWay', m1.epoch = m2.epoch, m1.n <= m2.n
          PROVE  m1.nonce <= m2.nonce
      <3>1. CASE m1 \in OnWay /\ m2 \in OnWay
        BY <2>6, <3>1
      <3>2. CASE m1 \in OnWay /\ m2 = Message
        BY <2>1, <2>4, <2>6, <3>2
      <3>3. CASE m1 = Message /\ m2 \in OnWay
        BY <2>1, <2>4, <2>6, <3>3
      <3>4. CASE m1 = Message /\ m2 = Message
        BY <2>1, <3>4
      <3> QED
        BY <2>2, <3>1, <3>2, <3>3, <3>4
    <2> QED
      BY <2>5, <2>6
  <1>2. CASE Again
    <2>1. \A m \in OnWay' : m.n <= sent' /\ m.epoch <= epoch' /\ m.epoch # epoch'
      BY <1>2 DEF Again, Raw
    <2> QED
      BY <1>2, <2>1 DEF Again
  <1>3. CASE Less
    BY <1>3 DEF Less
  <1>4. CASE Other
    <2>1. \A m \in Raw : {m.n, m.nonce, m.epoch} \subseteq Nat
      BY DEF Raw
    <2> QED
      BY <1>4, <2>1 DEF Other
  <1> QED
    BY <1>1, <1>2, <1>3, <1>4, WayStep DEF WayChange

-------------------------------------------------------------------------------
(* What a step does to what was accepted: one is accepted, nothing is, or the  *)
(* program is started again.                                                   *)
Accepts ==
    /\ alive /\ pc["bg"] = "parse" /\ msg["bg"].nonce > r_nonce /\ msg["bg"].first
    /\ r_nonce' = msg["bg"].nonce /\ InHand' = {Accepted(msg["bg"])}
    /\ pc'["bg"] = "check" /\ UNCHANGED <<file, screen, new_messages, run, sent, twice>>
Keeps ==
    /\ run' = run
    /\ alive' => alive /\ r_nonce' >= r_nonce
    /\ InHand' \subseteq InHand /\ Held' \subseteq Held \cup InHand \cup Mine
Starts ==
    /\ run' = run + 1 /\ InHand' = {}
    /\ UNCHANGED <<file, screen, new_messages, twice>>
TakenChange == Accepts \/ Keeps \/ Starts

LEMMA StoppedTaken ==
    ASSUME Stopped
    PROVE  Keeps
  BY EmptySet DEF Stopped, Unsent, Keeps, InHand, Held, Storing, Thread
LEMMA TakenStep ==
    ASSUME IInv, [Next]_vars
    PROVE  TakenChange
  <1> USE DEF Go, Unlock, client, net, peer, own, conv, nonces, seen, disk, file_rest,
     ui_rest, bg_rest, server_rest, friend_rest, Thread, InHand, Held, Storing,
     TakenChange, Keeps
  <1>a. /\ pc \in [Thread -> UiPlace \cup BgPlace]
        /\ msg \in [Thread -> {None} \cup Raw \cup Block]
        /\ pc["ui"] \in {"send", "add", "block"} => msg["ui"] \in Mine
        /\ r_nonce \in Nat
    BY DEF IInv, Types, TypeOK, ThreadTypes
  <1>b. /\ file \in Files /\ file.blocks \in Seq(Block)
        /\ new_messages \in Seq(Block) /\ screen \in Seq(Block)
    BY DEF IInv, Types, DataTypes, HandsOK, Files
  <1>1. ASSUME NEW t \in Thread, cfile_check(t) PROVE TakenChange
    <2>1. CASE Stopped
      BY <2>1, StoppedTaken
    <2>2. CASE Go(t, "check", Checked(t)) /\ UNCHANGED <<file_rest, conv, disk>>
      BY <1>a, <2>2 DEF Checked
    <2>3. CASE Go(t, "check", "init") /\ UNCHANGED <<file_rest, conv, disk>>
      BY <1>a, <2>3
    <2> QED
      BY <1>1, <2>1, <2>2, <2>3 DEF cfile_check
  <1>2. ASSUME NEW t \in Thread, cfile_init(t) PROVE TakenChange
    <2>1. file'.blocks = <<>>
      BY <1>2 DEF cfile_init
    <2> QED
      BY <1>2, <1>a, <2>1, EmptySet DEF cfile_init
  <1>3. ASSUME NEW t \in Thread, init_header(t) PROVE TakenChange
    BY <1>3, <1>a, <1>b, HeaderBegun DEF init_header, Checked
  <1>4. ASSUME NEW t \in Thread, cfile_add(t) PROVE TakenChange
    <2>1. file'.blocks = file.blocks
      BY <1>4, <1>b, AddHeader
    <2> QED
      BY <1>4, <1>a, <2>1 DEF cfile_add, Failed
  <1>5. ASSUME NEW t \in Thread, add_block(t) PROVE TakenChange
    <2>1. msg[t] \in Block
      BY <1>5, MessageStored DEF add_block, IInv
    <2>2. file'.blocks = Append(file.blocks, msg[t])
      BY <1>5, <1>b, <2>1, BlockAdded DEF add_block
    <2>3. ToSet(file'.blocks) = ToSet(file.blocks) \cup {msg[t]}
      BY <1>b, <2>1, <2>2, AddedLast
    <2>4. ToSet(screen') \subseteq ToSet(screen) \cup {msg[t]}
      BY <1>5, <1>b, <2>1, AddedLast DEF add_block, Show
    <2>5. msg[t] \in InHand \cup Mine
      BY <1>5, <1>a DEF add_block
    <2>6. InHand' \subseteq InHand
      BY <1>5, <1>a DEF add_block, Done
    <2> QED
      BY <1>5, <1>a, <2>3, <2>4, <2>5, <2>6 DEF add_block
  <1>6. CASE start_conversation
    BY <1>6, <1>a, EmptySet DEF start_conversation
  <1>7. CASE cfile_load
    BY <1>7, <1>a DEF cfile_load
  <1>8. CASE cmessage_send_server
    BY <1>8, <1>a DEF cmessage_send_server
  <1>9. CASE merge
    <2>1. CASE Stopped
      BY <2>1, StoppedTaken
    <2>2. CASE ~Stopped
      <3>1. ToSet(screen') = ToSet(screen) \cup ToSet(new_messages)
        BY ZenonT(40), <1>9, <1>b, <2>2, ToSetOfReverse, ToSetOfConcat DEF merge
      <3> QED
        BY <1>9, <1>a, <2>2, <3>1, EmptySet DEF merge
    <2> QED
      BY <2>1, <2>2
  <1>10. CASE fail
    BY <1>10, <1>a, EmptySet DEF fail, Leave
  <1>11. CASE recv_message
    BY <1>11, <1>a DEF recv_message
  <1>12. CASE parse_conv_message_payload
    <2>1. CASE msg["bg"].nonce <= r_nonce
      <3>1. pc'["bg"] = "recv" /\ r_nonce' = r_nonce
        BY <1>12, <1>a, <2>1 DEF parse_conv_message_payload, Drop, IInv, Types, TypeOK,
           ThreadTypes, Raw
      <3> QED
        BY <1>12, <1>a, <2>1, <3>1 DEF parse_conv_message_payload, Drop
    <2>3. CASE msg["bg"].nonce > r_nonce /\ ~msg["bg"].first
      <3>1. pc'["bg"] = "recv" /\ r_nonce' = msg["bg"].nonce
        BY <1>12, <1>a, <2>3 DEF parse_conv_message_payload, Drop, IInv, Types, TypeOK,
           ThreadTypes, Raw
      <3> QED
        BY <1>12, <1>a, <2>3, <3>1 DEF parse_conv_message_payload, Drop, IInv, Types,
           ThreadTypes, Raw
    <2>2. CASE msg["bg"].nonce > r_nonce /\ msg["bg"].first
      <3>1. /\ pc'["bg"] = "check" /\ r_nonce' = msg["bg"].nonce
            /\ msg'["bg"] = Accepted(msg["bg"])
        BY <1>12, <1>a, <2>2 DEF parse_conv_message_payload, Drop, IInv, Types, TypeOK,
           ThreadTypes, Raw
      <3> QED
        BY <1>12, <2>2, <3>1 DEF parse_conv_message_payload, Drop, Accepts
    <2> QED
      BY <1>12, <2>1, <2>2, <2>3 DEF parse_conv_message_payload, Drop
  <1>13. CASE parse_conv_message
    <2>1. <<msg["bg"]>> \in Seq(Block) /\ ToSet(<<msg["bg"]>>) = {msg["bg"]}
      BY <1>13 DEF parse_conv_message, ToSet, IInv, Types, ThreadTypes
    <2>2. ToSet(new_messages') \subseteq {msg["bg"]} \cup ToSet(new_messages)
      BY <1>13, <1>b, <2>1, ToSetOfConcat DEF parse_conv_message
    <2> QED
      BY SMTT(30), <1>13, <1>a, <2>2 DEF parse_conv_message
  <1>14. CASE bg_end
    BY <1>14, <1>a DEF bg_end
  <1>15. CASE select
    BY <1>15, <1>a DEF select
  <1>16. CASE type
    BY <1>16, <1>a DEF type
  <1>17. CASE exit
    BY <1>17, <1>a, EmptySet DEF exit, Leave
  <1>18. CASE undel_load
    BY <1>18, <1>a DEF undel_load
  <1>19. CASE send_undelivered
    BY <1>19, <1>a DEF send_undelivered
  <1>20. CASE end_session
    BY <1>20, <1>a DEF end_session
  <1>21. CASE handle_message
    BY <1>21, <1>a DEF handle_message, Pass
  <1>22. CASE undel_add_message
    BY <1>22, <1>a DEF undel_add_message
  <1>23. CASE add_friend
    BY <1>23, <1>a DEF add_friend
  <1>24. CASE lose
    BY <1>24, <1>a DEF lose, Unsent
  <1>25. CASE crash
    BY <1>25, StoppedTaken DEF crash
  <1>26. CASE start
    BY <1>26 DEF start, Starts
  <1>27. CASE friend_adds_friend
    BY <1>27, <1>a DEF friend_adds_friend
  <1>28. CASE friend_restarts
    BY <1>28, <1>a DEF friend_restarts
  <1>29. CASE UNCHANGED vars
    BY <1>29, <1>a DEF vars
  <1>30. CASE handle_user
    BY <1>30, <1>a DEF handle_user
  <1>31. CASE menu_ends
    BY <1>31, <1>a DEF menu_ends
  <1>32. CASE transmit
    BY <1>32, <1>a DEF transmit
  <1>33. CASE handle_second
    BY <1>33, <1>a DEF handle_second, Pass
  <1> QED
    BY <1>1, <1>2, <1>3, <1>4, <1>5, <1>6, <1>7, <1>8, <1>9, <1>10, <1>11,
       <1>12, <1>13, <1>14, <1>15, <1>16, <1>17, <1>18, <1>19, <1>20, <1>21,
       <1>22, <1>23, <1>24, <1>25, <1>26, <1>27, <1>28, <1>29, <1>30,
       <1>31, <1>32, <1>33
    DEF Next, user_interface, background_thread, user, server, file_step, Thread

HeldTypes == Held \subseteq Block /\ InHand \subseteq Block \ Mine
LEMMA HeldBlocks == IInv => HeldTypes
  <1> SUFFICES ASSUME IInv PROVE HeldTypes
    OBVIOUS
  <1>1. /\ ToSet(file.blocks) \subseteq Block /\ ToSet(screen) \subseteq Block
        /\ ToSet(new_messages) \subseteq Block
    BY ToSetTypes DEF IInv, Types, DataTypes, HandsOK, Files
  <1>2. InHand \subseteq Block \ Mine
    BY DEF IInv, Types, ThreadTypes, InHand
  <1> QED
    BY <1>1, <1>2 DEF HeldTypes, Held
LEMMA FriendBlock ==
    ASSUME NEW b \in Block
    PROVE  /\ b.n \in Nat /\ b.from \in {"me", "friend"}
           /\ b \in Mine <=> b.from = "me"
           /\ b.from = "friend" => b.run \in Nat /\ b.epoch \in Nat
  BY DEF Block, Mine

(* Of those written down, none in one run of both programs is as late as the   *)
(* one that r_nonce lets through.                                              *)
LEMMA NextIsLater ==
    ASSUME IInv, TakenOK, alive, NEW m \in OnWay, m.nonce > r_nonce,
           NEW x \in Held, SameRuns(x, Accepted(m))
    PROVE  x.n < Accepted(m).n
  <1>1. m \in Raw /\ x \in Block /\ r_nonce \in Nat
    BY OnWayRaw, HeldBlocks DEF WayTypes, HeldTypes, IInv, Types, TypeOK
  <1>2. m.n \in Nat /\ m.nonce \in Nat /\ x.n \in Nat
    BY <1>1, FriendBlock DEF Raw
  <1>3. x.from = "friend" /\ x.run = run /\ x.epoch = m.epoch /\ Accepted(m).n = m.n
    BY DEF SameRuns, Accepted
  <1>4. ~(m.n <= x.n)
    BY <1>1, <1>2, <1>3 DEF TakenOK
  <1> QED
    BY <1>2, <1>3, <1>4

LEMMA TakenKept ==
    ASSUME IInv, WayOK, TakenOK, [Next]_vars
    PROVE  TakenOK'
  <1>a. {sent, run, r_nonce} \subseteq Nat /\ OnWay \subseteq Raw /\ HeldTypes
    BY OnWayRaw, HeldBlocks DEF WayTypes, IInv, Types, TypeOK
  <1>b. \A b \in Block : /\ b.n \in Nat
                         /\ b.from = "friend" => b.run \in Nat /\ b.epoch \in Nat
    BY FriendBlock
  <1>c. sent' \in Nat /\ sent' >= sent
    BY <1>a, WayStep DEF WayChange, Made, Again, Other, Less
  <1>d. \A b \in Mine : b.from # "friend"
    BY DEF Mine
  <1>e. Message.n = sent + 1
    BY DEF Message
  <1>f. r_nonce' \in Nat
    BY TypeOKStep DEF IInv, TypeOK
  <1>1. CASE Keeps
    <2>1. \A x \in Held' \cup InHand' : x.from = "friend" => x \in Held \cup InHand
      BY <1>1, <1>d DEF Keeps
    <2>2. \A x \in Held' \cup InHand' : x.from = "friend" => x.run <= run' /\ x.n <= sent'
      BY <1>1, <1>a, <1>b, <1>c, <2>1 DEF Keeps, TakenOK, HeldTypes
    <2>3. \A x \in InHand' : x.from = "friend" /\ x.run = run'
      BY <1>1 DEF Keeps, TakenOK
    <2>4. ASSUME alive', NEW x \in Held' \cup InHand', NEW m \in OnWay',
                 x.from = "friend", x.run = run', x.epoch = m.epoch, m.n <= x.n
          PROVE  m.nonce <= r_nonce'
      <3>1. x \in Held \cup InHand /\ x.run = run /\ x.n <= sent /\ x.n \in Nat
        BY <1>1, <1>a, <1>b, <2>1, <2>4 DEF Keeps, TakenOK, HeldTypes
      <3>2. m # Message
        BY <1>a, <1>e, <2>4, <3>1
      <3>3. m \in OnWay
        BY <3>2, WayStep DEF WayChange, Made, Again, Other, Less
      <3>4. m.nonce <= r_nonce /\ m.nonce \in Nat
        BY <1>1, <1>a, <2>4, <3>1, <3>3 DEF Keeps, TakenOK, Raw
      <3> QED
        BY <1>1, <1>a, <1>f, <2>4, <3>4 DEF Keeps
    <2> QED
      BY <2>2, <2>3, <2>4 DEF TakenOK
  <1>2. CASE Accepts
    <2>1. msg["bg"] \in OnWay /\ msg["bg"] \in Raw
      BY <1>2, <1>a DEF Accepts, OnWay, Coming, IInv, Types, ThreadTypes
    <2>2. PICK y : y = Accepted(msg["bg"])
      OBVIOUS
    <2>3. /\ y.from = "friend" /\ y.run = run /\ y.n = msg["bg"].n
          /\ y.epoch = msg["bg"].epoch
      BY <2>2 DEF Accepted
    <2>4. InHand' = {y} /\ Held' = Held /\ run' = run /\ sent' = sent
      BY <1>2, <2>2 DEF Accepts, Held
    <2>5. OnWay' \subseteq OnWay
      BY <1>a, <2>4, WayStep DEF WayChange, Made, Again, Other, Less
    <2>6. y.n <= sent
      BY <2>1, <2>3 DEF WayOK
    <2>7. ASSUME NEW x \in Held \cup {y}, NEW m \in OnWay,
                 x.from = "friend", x.run = run, x.epoch = m.epoch, m.n <= x.n
          PROVE  m.nonce <= r_nonce'
      <3>1. CASE x = y
        BY <1>2, <2>1, <2>3, <2>7, <3>1 DEF WayOK, Accepts
      <3>2. CASE x \in Held
        <4>1. m.nonce <= r_nonce
          BY <1>2, <2>7, <3>2 DEF TakenOK, Accepts
        <4> QED
          BY <1>2, <1>a, <2>1, <4>1 DEF Accepts, Raw
      <3> QED
        BY <3>1, <3>2
    <2>8. \A x \in Held \cup {y} : x.from = "friend" => x.run <= run /\ x.n <= sent
      BY <1>a, <2>3, <2>6 DEF TakenOK
    <2> QED
      BY <2>3, <2>4, <2>5, <2>7, <2>8 DEF TakenOK
  <1>3. CASE Starts
    <2>1. Held' = Held /\ InHand' = {} /\ run' = run + 1
      BY <1>3 DEF Starts, Held
    <2>2. \A x \in Held' : x.from = "friend" =>
             x.run <= run' /\ x.n <= sent' /\ x.run # run'
      BY <1>a, <1>b, <1>c, <2>1 DEF TakenOK, HeldTypes
    <2> QED
      BY <2>1, <2>2 DEF TakenOK
  <1> QED
    BY <1>1, <1>2, <1>3, TakenStep DEF TakenChange

-------------------------------------------------------------------------------
(* What a step does to the file, the list and the screen.                      *)
FileLines ==
    \/ file'.blocks = file.blocks
    \/ file'.blocks = <<>> /\ (file.blocks = <<>> \/ twice')
    \/ \E b \in Block :
          /\ file'.blocks = Append(file.blocks, b)
          /\ b \in Mine \/ (pc["bg"] = "block" /\ pc'["bg"] = "push" /\ b = msg["bg"])
NewLines ==
    \/ new_messages' = new_messages
    \/ new_messages' = <<>>
    \/ /\ new_messages' = <<msg["bg"]>> \o new_messages
       /\ pc["bg"] = "push" /\ pc'["bg"] = "recv"
       /\ file' = file
ScreenLines ==
    \/ screen' = screen
    \/ screen' = <<>>
    \/ UNCHANGED new_messages /\ \E b \in Mine : screen' = Append(screen, b)
    \/ UNCHANGED new_messages /\ file' = file /\ screen' = file.blocks
    \/ new_messages' = <<>> /\ screen' = screen \o Reverse(new_messages)
HandLines ==
    /\ pc'["bg"] \in Storing => pc["bg"] \in Storing \cup {"parse"}
    /\ pc'["bg"] = "push" =>
          /\ msg'["bg"] = msg["bg"]
          /\ \/ pc["bg"] = "push"
             \/ pc["bg"] = "block" /\ file'.blocks = Append(file.blocks, msg["bg"])
    /\ twice => twice'
Lines == FileLines /\ NewLines /\ ScreenLines /\ HandLines

LEMMA StoppedLines ==
    ASSUME Stopped
    PROVE  Lines
  BY SMTT(30) DEF Stopped, Unsent, Lines, FileLines, NewLines, ScreenLines, HandLines, Thread, Storing
LEMMA LinesStep ==
    ASSUME IInv, [Next]_vars
    PROVE  Lines
  <1> USE DEF Go, Unlock, client, net, peer, own, conv, nonces, seen, disk, file_rest,
     ui_rest, bg_rest, server_rest, friend_rest, Thread, Storing, Lines,
     FileLines, NewLines, ScreenLines, HandLines
  <1>a. /\ pc \in [Thread -> UiPlace \cup BgPlace]
        /\ msg \in [Thread -> {None} \cup Raw \cup Block]
        /\ pc["ui"] \in {"send", "add", "block"} => msg["ui"] \in Mine
        /\ pc["bg"] \in Storing \cup {"push"} => msg["bg"] \in Block
    BY DEF IInv, Types, ThreadTypes
  <1>b. file \in Files /\ (~file.there => file.blocks = <<>>)
    BY DEF IInv, Types, DataTypes, FileOK, NoFile
  <1>1. ASSUME NEW t \in Thread, cfile_check(t) PROVE Lines
    <2>1. CASE Stopped
      BY <2>1, StoppedLines
    <2>2. CASE Go(t, "check", Checked(t)) /\ UNCHANGED <<file_rest, conv, disk>>
      BY <1>a, <2>2 DEF Checked
    <2>3. CASE Go(t, "check", "init") /\ UNCHANGED <<file_rest, conv, disk>>
      BY <1>a, <2>3
    <2> QED
      BY <1>1, <2>1, <2>2, <2>3 DEF cfile_check
  <1>2. ASSUME NEW t \in Thread, cfile_init(t) PROVE Lines
    <2>1. file'.blocks = <<>> /\ (file.blocks = <<>> \/ twice')
      BY <1>2, <1>b DEF cfile_init
    <2>2. FileLines
      BY <2>1
    <2> QED
      BY <1>2, <1>a, <2>2 DEF cfile_init
  <1>3. ASSUME NEW t \in Thread, init_header(t) PROVE Lines
    <2>1. file'.blocks = file.blocks
      BY <1>3, <1>b, HeaderBegun
    <2> QED
      BY <1>3, <1>a, <2>1 DEF init_header, Checked
  <1>4. ASSUME NEW t \in Thread, cfile_add(t) PROVE Lines
    <2>1. file'.blocks = file.blocks
      BY <1>4, <1>b, AddHeader
    <2> QED
      BY <1>4, <1>a, <2>1 DEF cfile_add, Failed
  <1>5. ASSUME NEW t \in Thread, add_block(t) PROVE Lines
    <2>1. msg[t] \in Block
      BY <1>5, MessageStored DEF add_block, IInv
    <2>2. file'.blocks = Append(file.blocks, msg[t])
      BY <1>5, <1>b, <2>1, BlockAdded DEF add_block
    <2>3. CASE t = "ui"
      <3>1. FileLines
        BY <1>5, <1>a, <2>1, <2>2, <2>3 DEF add_block
      <3>2. ScreenLines
        BY <1>5, <1>a, <2>3 DEF add_block, Show
      <3> QED
        BY <1>5, <1>a, <2>3, <3>1, <3>2 DEF add_block, Done
    <2>4. CASE t = "bg"
      <3>1. FileLines
        BY <1>5, <1>a, <2>1, <2>2, <2>4 DEF add_block, Done
      <3>2. ScreenLines
        BY <1>5, <2>4 DEF add_block, Show
      <3> QED
        BY <1>5, <1>a, <2>2, <2>4, <3>1, <3>2 DEF add_block, Done
    <2> QED
      BY <2>3, <2>4
  <1>6. CASE start_conversation
    BY <1>6, <1>a DEF start_conversation
  <1>7. CASE cfile_load
    BY <1>7, <1>a DEF cfile_load
  <1>8. CASE cmessage_send_server
    BY <1>8, <1>a DEF cmessage_send_server
  <1>9. CASE merge
    <2>1. CASE Stopped
      BY <2>1, StoppedLines
    <2>2. CASE ~Stopped
      BY <1>9, <1>a, <2>2 DEF merge
    <2> QED
      BY <2>1, <2>2
  <1>10. CASE fail
    BY <1>10, <1>a DEF fail, Leave
  <1>11. CASE recv_message
    BY <1>11, <1>a DEF recv_message
  <1>12. CASE parse_conv_message_payload
    BY <1>12, <1>a DEF parse_conv_message_payload, Drop, Notice
  <1>13. CASE parse_conv_message
    BY <1>13, <1>a DEF parse_conv_message
  <1>14. CASE bg_end
    BY <1>14, <1>a DEF bg_end
  <1>15. CASE select
    BY <1>15, <1>a DEF select
  <1>16. CASE type
    BY <1>16, <1>a DEF type
  <1>17. CASE exit
    BY <1>17, <1>a DEF exit, Leave
  <1>18. CASE undel_load
    BY <1>18, <1>a DEF undel_load
  <1>19. CASE send_undelivered
    BY <1>19, <1>a DEF send_undelivered
  <1>20. CASE end_session
    BY <1>20, <1>a DEF end_session
  <1>21. CASE handle_message
    BY <1>21, <1>a DEF handle_message, Pass
  <1>22. CASE undel_add_message
    BY <1>22, <1>a DEF undel_add_message
  <1>23. CASE add_friend
    BY <1>23, <1>a DEF add_friend
  <1>24. CASE lose
    BY <1>24, <1>a DEF lose, Unsent
  <1>25. CASE crash
    BY <1>25, StoppedLines DEF crash
  <1>26. CASE start
    BY <1>26, <1>a DEF start
  <1>27. CASE friend_adds_friend
    BY <1>27, <1>a DEF friend_adds_friend
  <1>28. CASE friend_restarts
    BY <1>28, <1>a DEF friend_restarts
  <1>29. CASE UNCHANGED vars
    BY <1>29, <1>a DEF vars
  <1>30. CASE handle_user
    BY <1>30, <1>a DEF handle_user
  <1>31. CASE menu_ends
    BY <1>31, <1>a DEF menu_ends
  <1>32. CASE transmit
    BY <1>32, <1>a DEF transmit
  <1>33. CASE handle_second
    BY <1>33, <1>a DEF handle_second, Pass
  <1> QED
    BY <1>1, <1>2, <1>3, <1>4, <1>5, <1>6, <1>7, <1>8, <1>9, <1>10, <1>11,
       <1>12, <1>13, <1>14, <1>15, <1>16, <1>17, <1>18, <1>19, <1>20, <1>21,
       <1>22, <1>23, <1>24, <1>25, <1>26, <1>27, <1>28, <1>29, <1>30,
       <1>31, <1>32, <1>33
    DEF Next, user_interface, background_thread, user, server, file_step, Thread

-------------------------------------------------------------------------------
(* What is in the hands of background_thread comes after all that is written   *)
(* down of its runs: at or after what is there, after what is listed, and,     *)
(* until it is written, after what is in the file.                             *)
HandOK ==
    /\ \A x \in Held, y \in InHand : SameRuns(x, y) => x.n <= y.n
    /\ \A x \in ToSet(new_messages), y \in InHand : SameRuns(x, y) => x.n < y.n
    /\ pc["bg"] \in Storing =>
          \A x \in ToSet(file.blocks), y \in InHand : SameRuns(x, y) => x.n < y.n

(* What is listed, or about to be, is in the file.                             *)
StoredOK ==
    /\ \A x \in ToSet(new_messages) : x \in ToSet(file.blocks) \/ twice
    /\ pc["bg"] = "push" => msg["bg"] \in ToSet(file.blocks) \/ twice

InFileOrder ==
    \A i, j \in DOMAIN file.blocks :
        i < j /\ SameRuns(file.blocks[i], file.blocks[j])
           => file.blocks[i].n < file.blocks[j].n
InNewOrder ==
    \A i, j \in DOMAIN new_messages :
        i < j /\ SameRuns(new_messages[j], new_messages[i])
           => new_messages[j].n < new_messages[i].n
ShownOrder ==
    \A i, j \in DOMAIN screen :
        i < j /\ SameRuns(screen[i], screen[j]) /\ FirstShown(j)
            => screen[i].n < screen[j].n \/ twice
ComesLater ==
    \A x \in ToSet(screen), y \in ToSet(new_messages) :
        SameRuns(x, y) /\ y \notin ToSet(screen) => x.n < y.n \/ twice

OrderInv ==
    /\ WayOK /\ TakenOK /\ HandOK /\ StoredOK
    /\ InFileOrder /\ InNewOrder /\ ShownOrder /\ ComesLater

LEMMA MineAlone ==
    ASSUME NEW b \in Mine, NEW x
    PROVE  ~SameRuns(b, x) /\ ~SameRuns(x, b)
  BY DEF SameRuns, Mine
LEMMA SameMessage ==
    ASSUME NEW x \in Block, NEW y \in Block, SameRuns(x, y), x.n = y.n
    PROVE  x = y
  BY DEF Block, Mine, SameRuns

LEMMA HandKept ==
    ASSUME IInv, TakenOK, HandOK, [Next]_vars
    PROVE  HandOK'
  <1>a. Lines
    BY LinesStep
  <1>b. InHand' = {} => HandOK'
    BY DEF HandOK
  <1>1. CASE Accepts
    <2>1. PICK m \in OnWay : m = msg["bg"]
      BY <1>1 DEF Accepts, OnWay, Coming, IInv, Types, ThreadTypes
    <2>2. PICK y : y = Accepted(m)
      OBVIOUS
    <2>3. \A x \in Held : SameRuns(x, y) => x.n < y.n
      BY <1>1, <2>1, <2>2, NextIsLater DEF Accepts
    <2>4. \A x \in Held : SameRuns(x, y) => x.n <= y.n
      <3>1. y.n \in Nat /\ \A x \in Held : x.n \in Nat
        BY <2>1, <2>2, OnWayRaw, HeldBlocks, FriendBlock
           DEF WayTypes, HeldTypes, Accepted, Raw
      <3> QED
        BY <2>3, <3>1
    <2>5. InHand' = {y} /\ Held' = Held
      BY <1>1, <2>1, <2>2 DEF Accepts, Held
    <2>6. ToSet(new_messages') \subseteq Held /\ ToSet(file'.blocks) \subseteq Held
      BY <1>1 DEF Accepts, Held
    <2> QED
      BY <2>3, <2>4, <2>5, <2>6 DEF HandOK
  <1>2. CASE Keeps
    <2>1. ASSUME NEW x \in Held', NEW y \in InHand', SameRuns(x, y)
          PROVE  x.n <= y.n
      <3>1. y \in InHand /\ x \in Held \cup InHand \cup Mine
        BY <1>2 DEF Keeps
      <3>2. CASE x \in InHand
        <4>1. x = y
          BY <3>1, <3>2 DEF InHand
        <4>2. x.n \in Nat
          BY <3>2, HeldBlocks, FriendBlock DEF HeldTypes
        <4> QED
          BY <4>1, <4>2
      <3>3. CASE x \in Held
        BY <2>1, <3>1, <3>3 DEF HandOK
      <3> QED
        BY <2>1, <3>1, <3>2, <3>3, MineAlone
    <2>2. ASSUME NEW x \in ToSet(new_messages'), NEW y \in InHand', SameRuns(x, y)
          PROVE  x.n < y.n
      <3>1. y \in InHand /\ pc'["bg"] # "recv"
        BY <1>2 DEF Keeps, InHand, Storing
      <3>2. new_messages' = new_messages \/ new_messages' = <<>>
        BY <1>a, <3>1 DEF Lines, NewLines
      <3>3. x \in ToSet(new_messages)
        BY <2>2, <3>2, EmptySet
      <3> QED
        BY <2>2, <3>1, <3>3 DEF HandOK
    <2>3. ASSUME pc'["bg"] \in Storing, NEW x \in ToSet(file'.blocks),
                 NEW y \in InHand', SameRuns(x, y)
          PROVE  x.n < y.n
      <3>1. y \in InHand /\ pc["bg"] \in Storing
        BY <1>2, <1>a, <2>3 DEF Keeps, InHand, Storing, Lines, HandLines
      <3>2. x \in ToSet(file.blocks)
        <4>1. CASE file'.blocks = file.blocks
          BY <4>1
        <4>2. CASE file'.blocks = <<>>
          BY <4>2, EmptySet
        <4>3. ASSUME NEW b \in Block, file'.blocks = Append(file.blocks, b), b \in Mine
              PROVE  x \in ToSet(file.blocks)
          <5>1. file.blocks \in Seq(Block)
            BY DEF IInv, Types, DataTypes, Files
          <5>2. ToSet(Append(file.blocks, b)) = ToSet(file.blocks) \cup {b}
            BY <5>1, AddedLast
          <5> QED
            BY <2>3, <4>3, <5>2, MineAlone
        <4> QED
          BY <1>a, <2>3, <4>1, <4>2, <4>3 DEF Lines, FileLines, Storing
      <3> QED
        BY <2>3, <3>1, <3>2 DEF HandOK
    <2> QED
      BY <2>1, <2>2, <2>3 DEF HandOK
  <1>3. CASE Starts
    BY <1>3, <1>b DEF Starts
  <1> QED
    BY <1>1, <1>2, <1>3, TakenStep DEF TakenChange

LEMMA StoredKept ==
    ASSUME IInv, StoredOK, [Next]_vars
    PROVE  StoredOK'
  <1>a. Lines
    BY LinesStep
  <1>b. file.blocks \in Seq(Block) /\ new_messages \in Seq(Block)
    BY DEF IInv, Types, DataTypes, Files, HandsOK
  <1>1. ASSUME NEW x, x \in ToSet(file.blocks) \/ twice
        PROVE  x \in ToSet(file'.blocks) \/ twice'
    <2>1. CASE file'.blocks = file.blocks
      BY <1>1, <1>a, <2>1 DEF Lines, HandLines
    <2>2. CASE file'.blocks = <<>> /\ (file.blocks = <<>> \/ twice')
      BY <1>1, <1>a, <2>2, EmptySet DEF Lines, HandLines
    <2>3. ASSUME NEW b \in Block, file'.blocks = Append(file.blocks, b)
          PROVE  x \in ToSet(file'.blocks) \/ twice'
      <3>1. ToSet(Append(file.blocks, b)) = ToSet(file.blocks) \cup {b}
        BY <1>b, AddedLast
      <3> QED
        BY <1>1, <1>a, <2>3, <3>1 DEF Lines, HandLines
    <2> QED
      BY <1>a, <2>1, <2>2, <2>3 DEF Lines, FileLines
  <1>2. ASSUME NEW x \in ToSet(new_messages')
        PROVE  x \in ToSet(file.blocks) \/ twice
    <2>1. CASE new_messages' = new_messages \/ new_messages' = <<>>
      BY <1>2, <2>1, EmptySet DEF StoredOK
    <2>2. CASE new_messages' = <<msg["bg"]>> \o new_messages /\ pc["bg"] = "push"
      <3>1. msg["bg"] \in Block
        BY <2>2 DEF IInv, Types, ThreadTypes
      <3>2. <<msg["bg"]>> \in Seq(Block) /\ ToSet(<<msg["bg"]>>) = {msg["bg"]}
        BY <3>1 DEF ToSet
      <3>3. ToSet(new_messages') \subseteq {msg["bg"]} \cup ToSet(new_messages)
        BY <1>b, <2>2, <3>2, ToSetOfConcat
      <3> QED
        BY <1>2, <2>2, <3>3 DEF StoredOK
    <2> QED
      BY <1>a, <2>1, <2>2 DEF Lines, NewLines
  <1>3. ASSUME pc'["bg"] = "push"
        PROVE  msg'["bg"] \in ToSet(file'.blocks) \/ twice'
    <2>1. msg'["bg"] = msg["bg"]
      BY <1>a, <1>3 DEF Lines, HandLines
    <2>2. CASE pc["bg"] = "push"
      BY <1>1, <2>1, <2>2 DEF StoredOK
    <2>3. CASE pc["bg"] = "block" /\ file'.blocks = Append(file.blocks, msg["bg"])
      <3>1. msg["bg"] \in Block
        BY <2>3 DEF IInv, Types, ThreadTypes, Storing
      <3>2. ToSet(Append(file.blocks, msg["bg"])) = ToSet(file.blocks) \cup {msg["bg"]}
        BY <1>b, <3>1, AddedLast
      <3> QED
        BY <2>1, <2>3, <3>2
    <2> QED
      BY <1>a, <1>3, <2>2, <2>3 DEF Lines, HandLines
  <1> QED
    BY <1>1, <1>2, <1>3 DEF StoredOK

LEMMA FileOrderKept ==
    ASSUME IInv, HandOK, InFileOrder, [Next]_vars
    PROVE  InFileOrder'
  <1>a. FileLines
    BY LinesStep DEF Lines
  <1>b. file.blocks \in Seq(Block)
    BY DEF IInv, Types, DataTypes, Files
  <1>1. CASE file'.blocks = file.blocks
    BY <1>1 DEF InFileOrder
  <1>2. CASE file'.blocks = <<>>
    BY <1>2 DEF InFileOrder
  <1>3. ASSUME NEW b \in Block, file'.blocks = Append(file.blocks, b),
               b \in Mine \/ (pc["bg"] = "block" /\ b = msg["bg"])
        PROVE  InFileOrder'
    <2>1. PICK q \in Seq(Block) : q = file.blocks
      BY <1>b
    <2>2. /\ DOMAIN Append(q, b) = 1 .. Len(q) + 1 /\ DOMAIN q = 1 .. Len(q)
          /\ Len(q) \in Nat /\ Append(q, b)[Len(q) + 1] = b
          /\ \A i \in 1 .. Len(q) : Append(q, b)[i] = q[i]
      OBVIOUS
    <2>3. ASSUME NEW i \in 1 .. Len(q), SameRuns(q[i], b)
          PROVE  q[i].n < b.n
      <3>1. b \notin Mine
        BY <2>3, MineAlone
      <3>2. b \in InHand /\ pc["bg"] \in Storing
        BY <1>3, <3>1 DEF InHand, Storing
      <3>3. q[i] \in ToSet(file.blocks)
        BY <2>1, <2>2 DEF ToSet
      <3> QED
        BY <2>3, <3>2, <3>3 DEF HandOK
    <2>4. ASSUME NEW i \in 1 .. Len(q) + 1, NEW j \in 1 .. Len(q) + 1, i < j,
                 SameRuns(Append(q, b)[i], Append(q, b)[j])
          PROVE  Append(q, b)[i].n < Append(q, b)[j].n
      <3>1. i \in 1 .. Len(q)
        BY <2>2, <2>4
      <3>2. CASE j = Len(q) + 1
        BY <2>2, <2>3, <2>4, <3>1, <3>2
      <3>3. CASE j \in 1 .. Len(q)
        BY <2>1, <2>2, <2>4, <3>1, <3>3 DEF InFileOrder
      <3> QED
        BY <2>2, <3>2, <3>3
    <2> QED
      BY <1>3, <2>1, <2>2, <2>4 DEF InFileOrder
  <1> QED
    BY <1>a, <1>1, <1>2, <1>3 DEF FileLines

LEMMA NewOrderKept ==
    ASSUME IInv, HandOK, InNewOrder, [Next]_vars
    PROVE  InNewOrder'
  <1>a. NewLines
    BY LinesStep DEF Lines
  <1>1. CASE new_messages' = new_messages
    BY <1>1 DEF InNewOrder
  <1>2. CASE new_messages' = <<>>
    BY <1>2 DEF InNewOrder
  <1>3. CASE new_messages' = <<msg["bg"]>> \o new_messages /\ pc["bg"] = "push"
    <2>1. PICK q \in Seq(Block) : q = new_messages
      BY DEF IInv, HandsOK
    <2>2. PICK y \in Block : y = msg["bg"] /\ y \in InHand
      BY <1>3 DEF IInv, Types, ThreadTypes, InHand
    <2>3. PICK p : p = <<y>> \o q
      OBVIOUS
    <2>4. /\ DOMAIN p = 1 .. Len(q) + 1 /\ DOMAIN q = 1 .. Len(q)
          /\ Len(q) \in Nat /\ p[1] = y
          /\ \A i \in 2 .. Len(q) + 1 : i - 1 \in 1 .. Len(q) /\ p[i] = q[i - 1]
      BY <2>3
    <2>5. \A i \in 1 .. Len(q) : q[i] \in ToSet(new_messages)
      BY <2>1, <2>4 DEF ToSet
    <2>6. ASSUME NEW i \in 1 .. Len(q) + 1, NEW j \in 1 .. Len(q) + 1, i < j,
                 SameRuns(p[j], p[i])
          PROVE  p[j].n < p[i].n
      <3>1. j \in 2 .. Len(q) + 1
        BY <2>4, <2>6
      <3>2. CASE i = 1
        BY <2>2, <2>4, <2>5, <2>6, <3>1, <3>2 DEF HandOK
      <3>3. CASE i \in 2 .. Len(q) + 1
        <4>1. i - 1 \in 1 .. Len(q) /\ j - 1 \in 1 .. Len(q) /\ i - 1 < j - 1
          BY <2>4, <2>6, <3>1, <3>3
        <4>2. p[i] = q[i - 1] /\ p[j] = q[j - 1]
          BY <2>4, <3>1, <3>3
        <4> QED
          BY <2>1, <2>4, <2>6, <4>1, <4>2 DEF InNewOrder
      <3> QED
        BY <2>4, <3>2, <3>3
    <2> QED
      BY <1>3, <2>1, <2>2, <2>3, <2>4, <2>6 DEF InNewOrder
  <1> QED
    BY <1>a, <1>1, <1>2, <1>3 DEF NewLines

(* A list that is merged comes behind the screen, the latest last.             *)
LEMMA MergeKeeps ==
    ASSUME IInv, InNewOrder, ShownOrder, ComesLater, twice => twice',
           screen' = screen \o Reverse(new_messages)
    PROVE  ShownOrder'
  <1>1. PICK q \in Seq(Block) : q = screen
    BY DEF IInv, HandsOK
  <1>2. PICK u \in Seq(Block) : u = new_messages
    BY DEF IInv, HandsOK
  <1>3. PICK r \in Seq(Block) : r = Reverse(u)
    BY ToSetOfReverse
  <1>4. Len(u) \in Nat /\ DOMAIN u = 1 .. Len(u)
    OBVIOUS
  <1>5. /\ Len(r) = Len(u) /\ DOMAIN r = 1 .. Len(u)
        /\ \A k \in 1 .. Len(u) : r[k] = u[(Len(u) - k) + 1]
                                  /\ (Len(u) - k) + 1 \in 1 .. Len(u)
    BY <1>3, <1>4 DEF Reverse
  <1>6. PICK p : p = q \o r
    OBVIOUS
  <1>7. /\ Len(q) \in Nat /\ DOMAIN q = 1 .. Len(q)
        /\ DOMAIN p = 1 .. Len(q) + Len(u)
        /\ \A i \in 1 .. Len(q) : p[i] = q[i]
        /\ \A i \in Len(q) + 1 .. Len(q) + Len(u) :
              i - Len(q) \in 1 .. Len(u) /\ p[i] = r[i - Len(q)]
    <2>1. /\ Len(q) \in Nat /\ DOMAIN q = 1 .. Len(q)
          /\ DOMAIN p = 1 .. Len(q) + Len(r)
          /\ \A i \in 1 .. Len(q) : p[i] = q[i]
          /\ \A i \in Len(q) + 1 .. Len(q) + Len(r) : p[i] = r[i - Len(q)]
      BY <1>6
    <2>2. \A i \in Len(q) + 1 .. Len(q) + Len(u) : i - Len(q) \in 1 .. Len(u)
      BY <1>4, <2>1
    <2> QED
      BY <1>5, <2>1, <2>2
  <1>8. \A i \in 1 .. Len(q) : q[i] \in ToSet(screen)
    BY <1>1, <1>7 DEF ToSet
  <1>9. \A i \in 1 .. Len(u) : u[i] \in ToSet(new_messages)
    BY <1>2, <1>4 DEF ToSet
  <1>10. ASSUME NEW i \in 1 .. Len(q) + Len(u), NEW j \in 1 .. Len(q) + Len(u),
                i < j, SameRuns(p[i], p[j]),
                \A k \in 1 .. j - 1 : p[k] # p[j]
         PROVE  p[i].n < p[j].n \/ twice
    <2>1. CASE j \in 1 .. Len(q)
      <3>1. i \in 1 .. Len(q) /\ \A k \in 1 .. j - 1 : k \in 1 .. Len(q)
        BY <1>7, <1>10, <2>1
      <3>2. \A k \in 1 .. j - 1 : q[k] # q[j]
        BY <1>7, <1>10, <2>1, <3>1
      <3> QED
        BY <1>1, <1>7, <1>10, <2>1, <3>1, <3>2 DEF ShownOrder, FirstShown
    <2>2. CASE i \in 1 .. Len(q) /\ j \in Len(q) + 1 .. Len(q) + Len(u)
      <3>1. p[i] \in ToSet(screen)
        BY <1>7, <1>8, <2>2
      <3>2. p[j] \in ToSet(new_messages)
        BY ZenonT(40), <1>5, <1>7, <1>9, <2>2
      <3>3. p[j] \notin ToSet(screen)
        <4>1. \A k \in 1 .. Len(q) : k \in 1 .. j - 1
          BY <1>4, <1>7, <2>2
        <4>2. \A k \in 1 .. Len(q) : q[k] # p[j]
          BY <1>7, <1>10, <4>1
        <4> QED
          BY <1>1, <1>7, <4>2 DEF ToSet
      <3> QED
        BY <1>10, <3>1, <3>2, <3>3 DEF ComesLater
    <2>3. CASE /\ i \in Len(q) + 1 .. Len(q) + Len(u)
               /\ j \in Len(q) + 1 .. Len(q) + Len(u)
      <3>1. PICK a : a = (Len(u) - (i - Len(q))) + 1
        OBVIOUS
      <3>2. PICK b : b = (Len(u) - (j - Len(q))) + 1
        OBVIOUS
      <3>3. p[i] = u[a] /\ p[j] = u[b] /\ a \in 1 .. Len(u) /\ b \in 1 .. Len(u)
        BY <1>5, <1>7, <2>3, <3>1, <3>2
      <3>4. b < a
        BY <1>4, <1>7, <1>10, <2>3, <3>1, <3>2
      <3> QED
        BY <1>2, <1>4, <1>10, <3>3, <3>4 DEF InNewOrder
    <2> QED
      BY <1>4, <1>7, <1>10, <2>1, <2>2, <2>3
  <1> QED
    BY ZenonT(40), <1>1, <1>2, <1>3, <1>6, <1>7, <1>10 DEF ShownOrder, FirstShown

LEMMA ShownKept ==
    ASSUME IInv, InFileOrder, InNewOrder, ShownOrder, ComesLater, [Next]_vars
    PROVE  ShownOrder'
  <1>a. ScreenLines /\ (twice => twice')
    BY LinesStep DEF Lines, HandLines
  <1>1. CASE screen' = screen
    BY <1>1, <1>a DEF ShownOrder, FirstShown
  <1>2. CASE screen' = <<>>
    BY <1>2 DEF ShownOrder
  <1>3. ASSUME NEW b \in Mine, screen' = Append(screen, b)
        PROVE  ShownOrder'
    <2>1. PICK q \in Seq(Block) : q = screen
      BY DEF IInv, HandsOK
    <2>2. /\ DOMAIN Append(q, b) = 1 .. Len(q) + 1 /\ DOMAIN q = 1 .. Len(q)
          /\ Len(q) \in Nat /\ Append(q, b)[Len(q) + 1] = b
          /\ \A i \in 1 .. Len(q) : Append(q, b)[i] = q[i]
      BY DEF Block
    <2>3. ASSUME NEW i \in 1 .. Len(q) + 1, NEW j \in 1 .. Len(q) + 1, i < j,
                 SameRuns(Append(q, b)[i], Append(q, b)[j]),
                 \A k \in 1 .. j - 1 : Append(q, b)[k] # Append(q, b)[j]
          PROVE  Append(q, b)[i].n < Append(q, b)[j].n \/ twice
      <3>1. j # Len(q) + 1
        BY <2>2, <2>3, MineAlone
      <3>2. /\ j \in 1 .. Len(q) /\ i \in 1 .. Len(q)
            /\ \A k \in 1 .. j - 1 : k \in 1 .. Len(q)
        BY <2>2, <2>3, <3>1
      <3>3. \A k \in 1 .. j - 1 : q[k] # q[j]
        BY <2>2, <2>3, <3>2
      <3> QED
        BY <2>1, <2>2, <2>3, <3>2, <3>3 DEF ShownOrder, FirstShown
    <2> QED
      BY <1>3, <1>a, <2>1, <2>2, <2>3 DEF ShownOrder, FirstShown
  <1>4. CASE screen' = file.blocks
    BY <1>4 DEF InFileOrder, ShownOrder
  <1>5. CASE screen' = screen \o Reverse(new_messages)
    BY <1>5, <1>a, MergeKeeps
  <1> QED
    BY <1>a, <1>1, <1>2, <1>3, <1>4, <1>5 DEF ScreenLines

LEMMA LaterKept ==
    ASSUME IInv, HandOK, StoredOK, ComesLater, [Next]_vars
    PROVE  ComesLater'
  <1>a. ScreenLines /\ NewLines /\ (twice => twice')
    BY LinesStep DEF Lines, HandLines
  <1>b. screen \in Seq(Block) /\ new_messages \in Seq(Block)
    BY DEF IInv, HandsOK
  <1> SUFFICES ASSUME NEW x \in ToSet(screen'), NEW y \in ToSet(new_messages'),
                      SameRuns(x, y), y \notin ToSet(screen')
               PROVE  x.n < y.n \/ twice'
    BY DEF ComesLater
  <1>1. CASE screen' = screen
    <2>1. CASE new_messages' = new_messages
      BY <1>1, <1>a, <2>1 DEF ComesLater
    <2>2. CASE new_messages' = <<>>
      BY <2>2, EmptySet
    <2>3. CASE new_messages' = <<msg["bg"]>> \o new_messages /\ pc["bg"] = "push"
      <3>1. msg["bg"] \in Block /\ msg["bg"] \in InHand
        BY <2>3 DEF IInv, Types, ThreadTypes, InHand
      <3>2. <<msg["bg"]>> \in Seq(Block) /\ ToSet(<<msg["bg"]>>) = {msg["bg"]}
        BY <3>1 DEF ToSet
      <3>3. y = msg["bg"] \/ y \in ToSet(new_messages)
        BY <1>b, <2>3, <3>2, ToSetOfConcat
      <3>4. CASE y = msg["bg"]
        <4>1. x \in Held /\ x \in Block
          BY <1>1, HeldBlocks DEF Held, HeldTypes
        <4>2. x.n <= y.n
          BY <3>1, <3>4, <4>1 DEF HandOK
        <4>3. x # y
          BY <1>1
        <4>4. x.n # y.n
          BY <3>1, <3>4, <4>1, <4>3, SameMessage
        <4> QED
          BY <3>1, <3>4, <4>1, <4>2, <4>4, FriendBlock
      <3>5. CASE y \in ToSet(new_messages)
        BY <1>1, <1>a, <3>5 DEF ComesLater
      <3> QED
        BY <3>3, <3>4, <3>5
    <2> QED
      BY <1>a, <2>1, <2>2, <2>3 DEF NewLines
  <1>2. CASE screen' = <<>>
    BY <1>2, EmptySet
  <1>3. ASSUME UNCHANGED new_messages, NEW b \in Mine, screen' = Append(screen, b)
        PROVE  x.n < y.n \/ twice'
    <2>1. ToSet(Append(screen, b)) = ToSet(screen) \cup {b}
      BY <1>b, AddedLast DEF Block
    <2>2. x # b
      BY MineAlone
    <2> QED
      BY <1>3, <1>a, <2>1, <2>2 DEF ComesLater
  <1>4. CASE UNCHANGED new_messages /\ screen' = file.blocks
    BY <1>4, <1>a DEF StoredOK
  <1>5. CASE new_messages' = <<>>
    BY <1>5, EmptySet
  <1> QED
    BY <1>a, <1>1, <1>2, <1>3, <1>4, <1>5 DEF ScreenLines

LEMMA InitOrder ==
    ASSUME Init
    PROVE  OrderInv
  <1>1. file.blocks = <<>>
    BY DEF Init, NoFile
  <1>2. OnWay = {} /\ InHand = {} /\ Held = {}
    BY <1>1, EmptySet DEF Init, OnWay, Coming, InHand, Held, Storing
  <1>3. WayOK /\ TakenOK
    BY <1>2 DEF WayOK, TakenOK
  <1>4. HandOK /\ StoredOK
    BY <1>2, EmptySet DEF Init, HandOK, StoredOK
  <1>5. InFileOrder /\ InNewOrder /\ ShownOrder /\ ComesLater
    BY <1>1, EmptySet DEF Init, InFileOrder, InNewOrder, ShownOrder, ComesLater
  <1> QED
    BY <1>3, <1>4, <1>5 DEF OrderInv

LEMMA StepOrder ==
    ASSUME IInv, OrderInv, [Next]_vars
    PROVE  OrderInv'
  BY WayKept, TakenKept, HandKept, StoredKept, FileOrderKept, NewOrderKept,
     ShownKept, LaterKept
     DEF OrderInv

(* However messages are stored, overtaken, refused and shown, and whoever is   *)
(* started again: those of one run of both programs are in the file once and   *)
(* in the order they were sent in, and are first shown in this order           *)
(* (parse_conv_message_payload, cfile_add, start_conversation).                *)
THEOREM SentOrderKept == Spec => []InOrder
  <1>1. Init => IInv /\ OrderInv
    BY InitIInv, InitOrder
  <1>2. (IInv /\ OrderInv) /\ [Next]_vars => (IInv /\ OrderInv)'
    BY StepIInv, StepOrder
  <1>3. IInv /\ OrderInv => InOrder
    BY DEF OrderInv, InFileOrder, ShownOrder, InOrder
  <1> QED
    BY <1>1, <1>2, <1>3, PTL DEF Spec
===============================================================================
