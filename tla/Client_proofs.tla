----------------------------- MODULE Client_proofs ----------------------------
(* Proofs about Client, for any number of messages and requests.               *)
EXTENDS Client, TLAPS

LEMMA ClientInit == Init => ClientInv
  <1> SUFFICES ASSUME Init PROVE ClientInv
    OBVIOUS
  <1>1. notifs \in Seq(UserMessage)
    <2>1. {<<"text">>, <<"request">>, <<>>} \subseteq Seq(UserMessage)
      BY DEF UserMessage
    <2> QED
      BY <2>1 DEF Init
  <1>2. in \in Seq(UserMessage \cup Answer)
    BY DEF Init
  <1>3. TypeOK
    <2>1. asked \in Nat /\ incoming \in Nat /\ sent \in Nat /\ use \in Int
      BY DEF Init
    <2>2. up \in BOOLEAN /\ asleep \in BOOLEAN /\ stop \in BOOLEAN
      BY DEF Init
    <2>3. mode \in {-1, 0, 1, 2, 255}
      BY DEF Init
    <2>4. /\ pkey_resp = None /\ m = None /\ after \in After /\ friend \in BOOLEAN
          /\ new_messages \in BOOLEAN
      BY DEF Init, After
    <2>5. {net_lock, bg_lock} \subseteq {None, "ui", "bg"}
      BY DEF Init
    <2> QED
      BY <1>1, <1>2, <2>1, <2>2, <2>3, <2>4, <2>5 DEF TypeOK, None
  <1>4. Exclusive /\ NetOwner /\ LockHeld /\ ModesMatch
    BY DEF Init, Exclusive, NetOwner, LockHeld, ModesMatch, Serving, Sending,
       Requesting
  <1>5. AnswerComing /\ Requested /\ Handled
    BY DEF Init, AnswerComing, Requested, Handled, Answer, None
  <1> QED
    BY <1>3, <1>4, <1>5 DEF ClientInv

-------------------------------------------------------------------------------

(* What the steps of others leave alone.                                       *)
LEMMA UserLeaves ==
    ASSUME user_interface \/ select \/ SpuriousWakeup \/ answer \/ deliver \/ lose
    PROVE  UNCHANGED <<bg, m>>
  BY DEF user_interface, elsewhere, handle_user, leave, handler_select, news,
     wait_for_event, ui_lock_net, ui_acquire_netlock, send_message,
     send_friendreq, set_mode_request, lock_bg, test_resp, cond_wait, answered,
     end_request,
     use_resp, view_notifs, lock_notifs, clear_notifs, notif_selected,
     ui_add_friend, acquire_readlock, select_conversation, start_conversation,
     show_messages, conversation, end_conversation, select, SpuriousWakeup,
     answer, deliver, lose

LEMMA BackgroundLeaves ==
    ASSUME background_thread
    PROVE  /\ UNCHANGED <<ui, after>>
           /\ mode' = mode \/ mode' = -1 \/ mode' = 255
           /\ use' = use \/ add_new_message
  BY DEF background_thread, locks, set_mode, data, bg_loop, bg_lock_net,
     bg_acquire_netlock, recv_message, bg_status, release_netlock,
     bg_add_friend, add_cmessage, no_cmessage, add_new_message, insert_notif,
     read_mode,
     set_mode_news, bg_lock_answer, add_pkeyresp, bg_end, bg_stop,
     bg_stop_mode, bg_broadcast

(* Where background_thread goes with a message.                                *)
LEMMA StatusLeads ==
    ASSUME TypeOK, bg_status
    PROVE  /\ bg = "status" /\ m' = m
           /\ bg' \in {"release", "cmessage", "insert", "add_friend", "answer"}
           /\ bg' = "answer" <=> m \in Answer
           /\ bg' \in {"cmessage", "insert", "add_friend"} => m \in UserMessage
           /\ UNCHANGED <<network, locks, pkey_resp, ui, after>>
  <1>1. bg = "status" /\ bg' = Handling /\ m' = m
    BY DEF bg_status, b_goto
  <1>2. m \in UserMessage \cup Answer \cup {None}
    BY DEF TypeOK
  <1>3. UNCHANGED <<network, locks, pkey_resp, ui, after>>
    BY DEF bg_status
  <1> QED
    BY <1>1, <1>2, <1>3 DEF Handling, None, UserMessage, Answer

(* Types.                                                                      *)
LEMMA BackgroundTypes ==
    ASSUME TypeOK, Handled, background_thread
    PROVE  TypeOK'
  <1>1. CASE bg_loop
    BY <1>1 DEF bg_loop, TypeOK, get_mode, Readable, b_goto, network, locks, data
  <1>2. CASE bg_lock_net
    BY <1>2 DEF bg_lock_net, TypeOK, b_goto, network, data
  <1>3. CASE bg_acquire_netlock
    BY <1>3 DEF bg_acquire_netlock, TypeOK, get_mode, Readable, b_goto,
       network, data
  <1>4. CASE recv_message
    <2>1. in \in Seq(UserMessage \cup Answer)
      BY DEF TypeOK
    <2>2. CASE in # <<>> /\ m' = Head(in) /\ in' = Tail(in)
      <3>1. in' \in Seq(UserMessage \cup Answer) /\ m' \in UserMessage \cup Answer
        BY <2>1, <2>2
      <3> QED
        BY <1>4, <3>1 DEF recv_message, TypeOK, locks, data
    <2>3. CASE m' = None /\ in' = in
      BY <1>4, <2>3 DEF recv_message, TypeOK, locks, data
    <2> QED
      BY <1>4, <2>2, <2>3 DEF recv_message
  <1>5. CASE bg_status
    <2>1. mode' \in {-1, 0, 1, 2, 255}
      BY <1>5 DEF bg_status, set_mode, TypeOK
    <2> QED
      BY <1>5, <2>1 DEF bg_status, TypeOK, network, locks
  <1>6. CASE release_netlock
    BY <1>6 DEF release_netlock, TypeOK, None, b_goto, network, data
  <1>7. CASE bg_add_friend
    BY <1>7 DEF bg_add_friend, TypeOK, b_goto, Writable, network, locks
  <1>8. CASE add_cmessage
    BY ZenonT(40), <1>8 DEF add_cmessage, TypeOK, b_goto, Readable, network, locks
  <1>9. CASE add_new_message
    <2>1. use' = use \/ use' = -1
      BY <1>9 DEF add_new_message
    <2>2. use' \in Int
      BY <2>1 DEF TypeOK
    <2> QED
      BY ZenonT(40), <1>9, <2>2 DEF add_new_message, TypeOK, network, data
  <1>10. CASE insert_notif
    <2>1. notifs' = Append(notifs, m) /\ m \in UserMessage
      BY <1>10 DEF insert_notif, Handled, b_goto
    <2>2. notifs' \in Seq(UserMessage)
      BY <2>1 DEF TypeOK
    <2> QED
      BY ZenonT(40), <1>10, <2>2 DEF insert_notif, TypeOK, network, locks
  <1>11. CASE read_mode
    BY ZenonT(40), <1>11 DEF read_mode, TypeOK, get_mode, Readable, b_goto, network, locks, data
  <1>12. CASE set_mode_news
    BY ZenonT(40), <1>12 DEF set_mode_news, TypeOK, b_goto, set_mode, Writable, network,
       locks
  <1>13. CASE bg_lock_answer
    BY <1>13 DEF bg_lock_answer, TypeOK, b_goto, network, data
  <1>14. CASE add_pkeyresp
    <2>1. pkey_resp' \in {pkey_resp, m} /\ m \in Answer
      BY <1>14 DEF add_pkeyresp, Handled, b_goto
    <2>2. pkey_resp' \in Answer \cup {None}
      BY <2>1 DEF TypeOK
    <2>3. asleep' \in BOOLEAN
      BY <1>14 DEF add_pkeyresp, TypeOK
    <2> QED
      BY <1>14, <2>2, <2>3 DEF add_pkeyresp, TypeOK, network
  <1>15. CASE bg_end
    BY <1>15 DEF bg_end, TypeOK, None, b_goto, network, data
  <1>16. CASE bg_stop
    BY ZenonT(40), <1>16 DEF bg_stop, TypeOK, b_goto, Writable, network, locks
  <1>17. CASE bg_stop_mode
    BY <1>17 DEF bg_stop_mode, TypeOK, b_goto, set_mode, Writable, network,
       locks
  <1>18. CASE bg_broadcast
    BY ZenonT(40), <1>18 DEF bg_broadcast, TypeOK, b_goto, network, data
  <1>19. CASE no_cmessage
    BY ZenonT(40), <1>19 DEF no_cmessage, TypeOK, b_goto, network, locks, data
  <1> QED
    BY <1>1, <1>2, <1>3, <1>4, <1>5, <1>6, <1>7, <1>8, <1>9, <1>10, <1>11,
       <1>12, <1>13, <1>14, <1>15, <1>16, <1>17, <1>18, <1>19 DEF background_thread

LEMMA UserTypes ==
    ASSUME TypeOK, user_interface
    PROVE  TypeOK'
  <1>1. CASE handle_user
    BY <1>1 DEF handle_user, TypeOK, u_goto, elsewhere, network, locks
  <1>2. CASE leave
    BY <1>2 DEF leave, TypeOK, u_goto, set_mode, Writable, elsewhere, network,
       locks
  <1>3. CASE handler_select
    BY <1>3 DEF handler_select, TypeOK, get_mode, Readable, u_goto, elsewhere,
       network, locks
  <1>4. CASE news
    BY <1>4 DEF news, TypeOK, u_goto, set_mode, Writable, elsewhere, network,
       locks
  <1>5. CASE wait_for_event
    BY <1>5 DEF wait_for_event, TypeOK, get_mode, Readable, u_goto, elsewhere,
       network, locks
  <1>6. CASE ui_lock_net
    BY <1>6 DEF ui_lock_net, TypeOK, u_goto, network, data
  <1>7. CASE ui_acquire_netlock
    <2>1. net_lock' \in {None, "ui", "bg"}
      BY <1>7 DEF ui_acquire_netlock, TypeOK
    <2>2. stop' \in BOOLEAN
      BY <1>7 DEF ui_acquire_netlock, TypeOK
    <2>3. after' \in After
      BY <1>7 DEF ui_acquire_netlock, After, TypeOK
    <2> QED
      BY ZenonT(40), <1>7, <2>1, <2>2, <2>3 DEF ui_acquire_netlock, TypeOK, network
  <1>8. CASE send_message
    BY <1>8 DEF send_message, TypeOK, After, u_goto, data
  <1>9. CASE send_friendreq
    <2>1. sent' \in Nat
      BY <1>9 DEF send_friendreq, TypeOK
    <2>2. stop' \in BOOLEAN
      BY <1>9 DEF send_friendreq, failed, TypeOK
    <2>3. after' \in After
      BY <1>9 DEF send_friendreq, Send, After, TypeOK
    <2> QED
      BY <1>9, <2>1, <2>2, <2>3 DEF send_friendreq, TypeOK, locks
  <1>10. CASE set_mode_request
    BY <1>10 DEF set_mode_request, TypeOK, u_goto, set_mode, Writable,
       elsewhere, network, locks
  <1>11. CASE lock_bg
    BY <1>11 DEF lock_bg, TypeOK, u_goto, network, data
  <1>12. CASE test_resp
    BY <1>12 DEF test_resp, TypeOK, get_mode, Readable, u_goto, elsewhere,
       network, locks
  <1>13. CASE cond_wait
    BY <1>13 DEF cond_wait, TypeOK, u_goto, network, data
  <1>14. CASE answered
    <2>1. stop' \in BOOLEAN
      BY <1>14 DEF answered, failed, TypeOK
    <2> QED
      BY ZenonT(40), <1>14, <2>1 DEF answered, elsewhere, TypeOK, network, locks
  <1>15. CASE use_resp
    <2>1. stop' \in BOOLEAN
      BY <1>15 DEF use_resp, failed, TypeOK
    <2>2. after' \in After
      BY <1>15 DEF use_resp, Send, After, TypeOK
    <2> QED
      BY <1>15, <2>1, <2>2 DEF use_resp, TypeOK, elsewhere, network, locks
  <1>16. CASE view_notifs
    BY ZenonT(40), <1>16 DEF view_notifs, TypeOK, u_goto, elsewhere, network, locks
  <1>17. CASE lock_notifs
    <2>1. use' = -1
      BY <1>17 DEF lock_notifs
    <2>2. use' \in Int
      BY <2>1 DEF TypeOK
    <2> QED
      BY ZenonT(40), <1>17, <2>1, <2>2 DEF lock_notifs, TypeOK, network, data
  <1>18. CASE clear_notifs
    <2>1. stop' \in BOOLEAN
      BY <1>18 DEF clear_notifs, failed, TypeOK
    <2>2. notifs' \in Seq(UserMessage)
      <3>1. notifs' = notifs \/ notifs' = <<>>
        BY <1>18 DEF clear_notifs
      <3>2. notifs \in Seq(UserMessage) /\ <<>> \in Seq(UserMessage)
        BY DEF TypeOK
      <3> QED
        BY <3>1, <3>2
    <2>3. use' = 0
      BY <1>18 DEF clear_notifs
    <2>4. UNCHANGED <<network, net_lock, bg_lock, asleep, mode, pkey_resp, friend,
                      new_messages, after, m>>
      BY <1>18 DEF clear_notifs
    <2> QED
      BY <2>1, <2>2, <2>3, <2>4 DEF TypeOK, network
  <1>19. CASE notif_selected
    <2>1. PICK i \in DOMAIN notifs : notifs' = RemoveAt(notifs, i)
      BY <1>19 DEF notif_selected
    <2>2. notifs' \in Seq(UserMessage)
      <3>1. notifs \in Seq(UserMessage)
        BY DEF TypeOK
      <3> QED
        BY <2>1, <3>1 DEF RemoveAt
    <2>3. use' \in Int
      BY <1>19 DEF notif_selected, TypeOK
    <2>4. stop' \in BOOLEAN
      BY <1>19 DEF notif_selected, failed, TypeOK
    <2>5. after' \in After
      BY <1>19 DEF notif_selected, Send, After, TypeOK
    <2> QED
      BY <1>19, <2>2, <2>3, <2>4, <2>5 DEF notif_selected, TypeOK, network
  <1>20. CASE ui_add_friend
    BY <1>20 DEF ui_add_friend, TypeOK, u_goto, Writable, network, locks
  <1>21. CASE acquire_readlock
    <2>1. use' = use + 1
      BY <1>21 DEF acquire_readlock
    <2>2. use' \in Int
      BY <2>1 DEF TypeOK
    <2> QED
      BY ZenonT(40), <1>21, <2>1, <2>2 DEF acquire_readlock, TypeOK, network, data
  <1>22. CASE select_conversation
    <2>1. use' = use \/ use' = use - 1
      BY <1>22 DEF select_conversation
    <2>2. use' \in Int
      BY <2>1 DEF TypeOK
    <2> QED
      BY ZenonT(40), <1>22, <2>1, <2>2 DEF select_conversation, TypeOK, network, data
  <1>23. CASE start_conversation
    BY <1>23 DEF start_conversation, TypeOK, set_mode, Writable, network, locks
  <1>24. CASE show_messages
    BY ZenonT(40), <1>24 DEF show_messages, TypeOK, Writable, network, locks
  <1>25. CASE conversation
    <2>1. sent' = sent \/ sent' = sent + 1
      BY <1>25 DEF conversation
    <2>2. stop' \in BOOLEAN
      BY <1>25 DEF conversation, TypeOK
    <2>3. after' \in After
      BY <1>25 DEF conversation, Send, After, TypeOK
    <2>4. sent' \in Nat
      BY <2>1 DEF TypeOK
    <2> QED
      BY ZenonT(40), <1>25, <2>1, <2>2, <2>3, <2>4 DEF conversation, TypeOK, locks
  <1>26. CASE end_conversation
    BY <1>26 DEF end_conversation, TypeOK, u_goto, set_mode, Writable,
       elsewhere, network, locks
  <1>27. CASE end_request
    <2>1. mode' \in {-1, 0, 1, 2, 255}
      BY <1>27 DEF end_request, set_mode, TypeOK
    <2>2. bg_lock' \in {None, "ui", "bg"}
      BY <1>27 DEF end_request, TypeOK
    <2>3. UNCHANGED <<network, use, net_lock, asleep, stop, pkey_resp, notifs,
                      friend, new_messages, after, m>>
      BY <1>27 DEF end_request
    <2> QED
      BY <2>1, <2>2, <2>3 DEF TypeOK, network
  <1> QED
    BY <1>1, <1>2, <1>3, <1>4, <1>5, <1>6, <1>7, <1>8, <1>9, <1>10, <1>11,
       <1>12, <1>13, <1>14, <1>15, <1>16, <1>17, <1>18, <1>19, <1>20, <1>21,
       <1>22, <1>23, <1>24, <1>25, <1>26, <1>27 DEF user_interface

LEMMA OtherTypes ==
    ASSUME TypeOK, select \/ SpuriousWakeup \/ answer \/ deliver \/ lose
    PROVE  TypeOK'
  <1>1. CASE select
    BY ZenonT(40), <1>1 DEF select, TypeOK, get_mode, Readable, u_goto, elsewhere, network,
       locks
  <1>2. CASE SpuriousWakeup
    BY ZenonT(40), <1>2 DEF SpuriousWakeup, TypeOK, network, data
  <1>3. CASE answer
    BY <1>3 DEF answer, TypeOK, locks, data
  <1>4. CASE deliver
    BY <1>4 DEF deliver, TypeOK, locks, data
  <1>5. CASE lose
    BY ZenonT(40), <1>5 DEF lose, TypeOK, locks, data
  <1> QED
    BY <1>1, <1>2, <1>3, <1>4, <1>5

(* What background_thread does with each kind of message.                      *)
LEMMA HandledStays ==
    ASSUME TypeOK, Handled, background_thread
    PROVE  Handled'
  <1>1. CASE bg_loop
    BY <1>1 DEF bg_loop, Handled, get_mode, Readable, b_goto, network, locks, data
  <1>2. CASE bg_lock_net
    BY <1>2 DEF bg_lock_net, Handled, b_goto, network, data
  <1>3. CASE bg_acquire_netlock
    BY <1>3 DEF bg_acquire_netlock, Handled, get_mode, Readable, b_goto,
       network, data
  <1>4. CASE recv_message
    BY <1>4 DEF recv_message, Handled, UserMessage, Answer, TypeOK, b_goto,
       locks, data
  <1>5. CASE bg_status
    BY <1>5, StatusLeads DEF Handled
  <1>6. CASE release_netlock
    BY <1>6 DEF release_netlock, Handled, None, Answer, b_goto, network, data
  <1>7. CASE bg_add_friend
    BY <1>7 DEF bg_add_friend, Handled, b_goto, Writable, network, locks
  <1>8. CASE add_cmessage
    BY <1>8 DEF add_cmessage, Handled, b_goto, Readable, network, locks
  <1>9. CASE add_new_message
    BY <1>9 DEF add_new_message, Handled, Writable, b_goto, network, data
  <1>10. CASE insert_notif
    BY <1>10 DEF insert_notif, Handled, b_goto, Writable, network, locks
  <1>11. CASE read_mode
    BY <1>11 DEF read_mode, Handled, get_mode, Readable, b_goto, network,
       locks, data
  <1>12. CASE set_mode_news
    BY <1>12 DEF set_mode_news, Handled, b_goto, set_mode, Writable, network,
       locks
  <1>13. CASE bg_lock_answer
    BY <1>13 DEF bg_lock_answer, Handled, b_goto, network, data
  <1>14. CASE add_pkeyresp
    BY <1>14 DEF add_pkeyresp, Handled, get_mode, Readable, b_goto, network
  <1>15. CASE bg_end
    BY <1>15 DEF bg_end, Handled, None, Answer, b_goto, network, data
  <1>16. CASE bg_stop
    BY <1>16 DEF bg_stop, Handled, b_goto, Writable, network, locks
  <1>17. CASE bg_stop_mode
    BY <1>17 DEF bg_stop_mode, Handled, b_goto, set_mode, Writable, network,
       locks
  <1>18. CASE bg_broadcast
    BY <1>18 DEF bg_broadcast, Handled, b_goto, network, data
  <1>19. CASE no_cmessage
    BY <1>19 DEF no_cmessage, Handled, b_goto, network, locks, data
  <1> QED
    BY <1>1, <1>2, <1>3, <1>4, <1>5, <1>6, <1>7, <1>8, <1>9, <1>10, <1>11,
       <1>12, <1>13, <1>14, <1>15, <1>16, <1>17, <1>18, <1>19 DEF background_thread

(* The mutexes have the owners that the places of the threads say.             *)
LEMMA BackgroundOwners ==
    ASSUME TypeOK, NetOwner, background_thread
    PROVE  NetOwner'
  <1>1. CASE bg_loop
    BY <1>1 DEF bg_loop, NetOwner, Ending, Serving, Sending, Requesting,
       get_mode, Readable, b_goto, network, locks, data
  <1>2. CASE bg_lock_net
    BY <1>2 DEF bg_lock_net, NetOwner, Ending, Serving, Sending, Requesting,
       None, b_goto, network, data
  <1>3. CASE bg_acquire_netlock
    BY <1>3 DEF bg_acquire_netlock, NetOwner, Ending, Serving, Sending,
       Requesting, get_mode, Readable, b_goto, network, data
  <1>4. CASE recv_message
    BY <1>4 DEF recv_message, NetOwner, Ending, Serving, Sending, Requesting,
       b_goto, locks, data
  <1>5. CASE bg_status
    BY <1>5, StatusLeads DEF NetOwner, Serving, Sending, Requesting, Ending,
       network, locks
  <1>6. CASE release_netlock
    BY <1>6 DEF release_netlock, NetOwner, Ending, Serving, Sending,
       Requesting, b_goto, network, data
  <1>7. CASE bg_add_friend
    BY <1>7 DEF bg_add_friend, NetOwner, Ending, Serving, Sending, Requesting,
       b_goto, Writable, network, locks
  <1>8. CASE add_cmessage
    BY <1>8 DEF add_cmessage, NetOwner, Ending, Serving, Sending, Requesting,
       b_goto, Readable, network, locks
  <1>9. CASE add_new_message
    BY <1>9 DEF add_new_message, NetOwner, Ending, Serving, Sending,
       Requesting, Writable, b_goto, network, data
  <1>10. CASE insert_notif
    BY <1>10 DEF insert_notif, NetOwner, Ending, Serving, Sending, Requesting,
       b_goto, Writable, network, locks
  <1>11. CASE read_mode
    BY <1>11 DEF read_mode, NetOwner, Ending, Serving, Sending, Requesting,
       get_mode, Readable, b_goto, network, locks, data
  <1>12. CASE set_mode_news
    BY <1>12 DEF set_mode_news, NetOwner, Ending, Serving, Sending, Requesting,
       b_goto, set_mode, Writable, network, locks
  <1>13. CASE bg_lock_answer
    BY <1>13 DEF bg_lock_answer, NetOwner, Ending, Serving, Sending,
       Requesting, None, b_goto, network, data
  <1>14. CASE add_pkeyresp
    BY <1>14 DEF add_pkeyresp, NetOwner, Ending, Serving, Sending, Requesting,
       get_mode, Readable, b_goto, network
  <1>15. CASE bg_end
    BY <1>15 DEF bg_end, NetOwner, Ending, Serving, Sending, Requesting,
       b_goto, network, data
  <1>16. CASE bg_stop
    BY <1>16 DEF bg_stop, NetOwner, Ending, Serving, Sending, Requesting,
       b_goto, Writable, network, locks
  <1>17. CASE bg_stop_mode
    BY <1>17 DEF bg_stop_mode, NetOwner, Ending, Serving, Sending, Requesting,
       b_goto, set_mode, Writable, network, locks
  <1>18. CASE bg_broadcast
    BY <1>18 DEF bg_broadcast, NetOwner, Ending, Serving, Sending, Requesting,
       b_goto, network, data
  <1>19. CASE no_cmessage
    BY <1>19 DEF no_cmessage, NetOwner, Ending, Serving, Sending, Requesting,
       b_goto, network, locks, data
  <1> QED
    BY <1>1, <1>2, <1>3, <1>4, <1>5, <1>6, <1>7, <1>8, <1>9, <1>10, <1>11,
       <1>12, <1>13, <1>14, <1>15, <1>16, <1>17, <1>18, <1>19 DEF background_thread

LEMMA UserOwners ==
    ASSUME TypeOK, NetOwner, user_interface
    PROVE  NetOwner'
  <1>1. CASE handle_user
    BY <1>1 DEF handle_user, NetOwner, Ending, Serving, Sending, Requesting,
       u_goto, elsewhere, network, locks
  <1>2. CASE leave
    BY <1>2 DEF leave, NetOwner, Ending, Serving, Sending, Requesting, u_goto,
       set_mode, Writable, elsewhere, network, locks
  <1>3. CASE handler_select
    BY ZenonT(40), <1>3 DEF handler_select, NetOwner, Ending, Serving, Sending, Requesting,
       get_mode, Readable, u_goto, elsewhere, network, locks
  <1>4. CASE news
    BY <1>4 DEF news, NetOwner, Ending, Serving, Sending, Requesting, u_goto,
       set_mode, Writable, elsewhere, network, locks
  <1>5. CASE wait_for_event
    BY <1>5 DEF wait_for_event, NetOwner, Ending, Serving, Sending, Requesting,
       get_mode, Readable, u_goto, elsewhere, network, locks
  <1>6. CASE ui_lock_net
    BY <1>6 DEF ui_lock_net, NetOwner, Ending, Serving, Sending, Requesting,
       None, u_goto, network, data
  <1>7. CASE ui_acquire_netlock
    BY <1>7 DEF ui_acquire_netlock, NetOwner, Ending, Serving, Sending,
       Requesting, get_mode, Readable, u_goto, network
  <1>8. CASE send_message
    <2>1. after \in After
      BY DEF TypeOK
    <2> QED
      BY <1>8, <2>1 DEF send_message, NetOwner, Serving, Sending, Requesting, Ending,
         u_goto, After, None, data
  <1>9. CASE send_friendreq
    BY <1>9 DEF send_friendreq, NetOwner, Ending, Serving, Sending, Requesting,
       failed, u_goto, Send, locks
  <1>10. CASE set_mode_request
    BY <1>10 DEF set_mode_request, NetOwner, Ending, Serving, Sending,
       Requesting, u_goto, set_mode, Writable, elsewhere, network, locks
  <1>11. CASE lock_bg
    BY <1>11 DEF lock_bg, NetOwner, Ending, Serving, Sending, Requesting, None,
       u_goto, network, data
  <1>12. CASE test_resp
    BY <1>12 DEF test_resp, NetOwner, Ending, Serving, Sending, Requesting,
       get_mode, Readable, u_goto, elsewhere, network, locks
  <1>13. CASE cond_wait
    BY <1>13 DEF cond_wait, NetOwner, Ending, Serving, Sending, Requesting,
       u_goto, network, data
  <1>14. CASE answered
    BY <1>14 DEF answered, elsewhere, network, locks, NetOwner, Ending,
       Serving, Sending, Requesting,
       get_mode, Readable, failed, u_goto, set_mode, Writable, network
  <1>15. CASE use_resp
    BY <1>15 DEF use_resp, NetOwner, Ending, Serving, Sending, Requesting,
       u_goto, failed, Send, elsewhere, network, locks
  <1>16. CASE view_notifs
    BY <1>16 DEF view_notifs, NetOwner, Ending, Serving, Sending, Requesting,
       u_goto, elsewhere, network, locks
  <1>17. CASE lock_notifs
    BY <1>17 DEF lock_notifs, NetOwner, Ending, Serving, Sending, Requesting,
       u_goto, Writable, network, data
  <1>18. CASE clear_notifs
    BY <1>18 DEF clear_notifs, NetOwner, Ending, Serving, Sending, Requesting,
       network
  <1>19. CASE notif_selected
    BY <1>19 DEF notif_selected, NetOwner, Ending, Serving, Sending,
       Requesting, failed, u_goto, Send, network
  <1>20. CASE ui_add_friend
    BY <1>20 DEF ui_add_friend, NetOwner, Ending, Serving, Sending, Requesting,
       u_goto, Writable, network, locks
  <1>21. CASE acquire_readlock
    BY <1>21 DEF acquire_readlock, NetOwner, Ending, Serving, Sending,
       Requesting, u_goto, Readable, network, data
  <1>22. CASE select_conversation
    BY <1>22 DEF select_conversation, NetOwner, Ending, Serving, Sending,
       Requesting, u_goto, network, data
  <1>23. CASE start_conversation
    BY <1>23 DEF start_conversation, NetOwner, Ending, Serving, Sending,
       Requesting, set_mode, Writable, network, locks
  <1>24. CASE show_messages
    BY <1>24 DEF show_messages, NetOwner, Ending, Serving, Sending, Requesting,
       Writable, network, locks
  <1>25. CASE conversation
    BY <1>25 DEF conversation, NetOwner, Ending, Serving, Sending, Requesting,
       Send, u_goto, locks
  <1>26. CASE end_conversation
    BY <1>26 DEF end_conversation, NetOwner, Ending, Serving, Sending,
       Requesting, u_goto, set_mode, Writable, elsewhere, network, locks
  <1>27. CASE end_request
    BY <1>27 DEF end_request, NetOwner, Ending, Serving, Sending, Requesting,
       get_mode, Readable, failed, u_goto, set_mode, Writable, network
  <1> QED
    BY <1>1, <1>2, <1>3, <1>4, <1>5, <1>6, <1>7, <1>8, <1>9, <1>10, <1>11,
       <1>12, <1>13, <1>14, <1>15, <1>16, <1>17, <1>18, <1>19, <1>20, <1>21,
       <1>22, <1>23, <1>24, <1>25, <1>26, <1>27 DEF user_interface

LEMMA OtherOwners ==
    ASSUME NetOwner, select \/ SpuriousWakeup \/ answer \/ deliver \/ lose
    PROVE  NetOwner'
  <1>1. CASE select
    BY <1>1 DEF select, NetOwner, Ending, Serving, Sending, Requesting,
       get_mode, Readable, u_goto, elsewhere, network, locks
  <1>2. CASE SpuriousWakeup
    BY <1>2 DEF SpuriousWakeup, NetOwner, Ending, Serving, Sending, Requesting,
       network, data
  <1>3. CASE answer
    BY <1>3 DEF answer, NetOwner, Ending, Serving, Sending, Requesting, locks,
       data
  <1>4. CASE deliver
    BY <1>4 DEF deliver, NetOwner, Ending, Serving, Sending, Requesting, locks,
       data
  <1>5. CASE lose
    BY <1>5 DEF lose, NetOwner, Ending, Serving, Sending, Requesting, locks,
       data
  <1> QED
    BY <1>1, <1>2, <1>3, <1>4, <1>5

(* The lock in the hands of the user interface.                                *)
LEMMA BackgroundHeld ==
    ASSUME TypeOK, LockHeld, background_thread
    PROVE  LockHeld'
  <1>1. CASE use' = use
    BY <1>1, BackgroundLeaves DEF LockHeld
  <1>2. CASE add_new_message
    <2>1. use = 0
      BY <1>2 DEF add_new_message, Writable
    <2>2. use \in Int
      BY DEF TypeOK
    <2>3. ~(use >= 1) /\ use # -1
      BY <2>1, <2>2
    <2>4. ui \notin {"prompt", "empty prompt", "select friend"}
      BY <2>3 DEF LockHeld
    <2> QED
      BY <2>4, BackgroundLeaves DEF LockHeld
  <1> QED
    BY <1>1, <1>2, BackgroundLeaves

LEMMA UserHeld ==
    ASSUME TypeOK, LockHeld, user_interface \/ select \/ SpuriousWakeup \/ answer \/ deliver \/ lose
    PROVE  LockHeld'
  <1>1. CASE handle_user
    BY <1>1 DEF handle_user, LockHeld, u_goto, elsewhere, network, locks
  <1>2. CASE leave
    BY <1>2 DEF leave, LockHeld, u_goto, set_mode, Writable, elsewhere,
       network, locks
  <1>3. CASE handler_select
    BY <1>3 DEF handler_select, LockHeld, get_mode, Readable, u_goto,
       elsewhere, network, locks
  <1>4. CASE news
    BY <1>4 DEF news, LockHeld, u_goto, set_mode, Writable, elsewhere, network,
       locks
  <1>5. CASE wait_for_event
    BY <1>5 DEF wait_for_event, LockHeld, get_mode, Readable, u_goto,
       elsewhere, network, locks
  <1>6. CASE ui_lock_net
    BY <1>6 DEF ui_lock_net, LockHeld, u_goto, network, data
  <1>7. CASE ui_acquire_netlock
    BY <1>7 DEF ui_acquire_netlock, LockHeld, get_mode, Readable, u_goto,
       network
  <1>8. CASE send_message
    <2>1. after \in After
      BY DEF TypeOK
    <2>2. ui' = after /\ use' = use
      BY <1>8 DEF send_message, u_goto
    <2> QED
      BY <2>1, <2>2 DEF LockHeld, After, None
  <1>9. CASE send_friendreq
    BY <1>9 DEF send_friendreq, LockHeld, failed, u_goto, Send, locks
  <1>10. CASE set_mode_request
    BY <1>10 DEF set_mode_request, LockHeld, u_goto, set_mode, Writable,
       elsewhere, network, locks
  <1>11. CASE lock_bg
    BY <1>11 DEF lock_bg, LockHeld, u_goto, network, data
  <1>12. CASE test_resp
    BY <1>12 DEF test_resp, LockHeld, get_mode, Readable, u_goto, elsewhere,
       network, locks
  <1>13. CASE cond_wait
    BY <1>13 DEF cond_wait, LockHeld, u_goto, network, data
  <1>14. CASE answered
    BY <1>14 DEF answered, elsewhere, network, locks, LockHeld, get_mode,
       Readable, failed, u_goto,
       set_mode, Writable, network
  <1>15. CASE use_resp
    BY <1>15 DEF use_resp, LockHeld, u_goto, failed, Send, elsewhere, network,
       locks
  <1>16. CASE view_notifs
    BY <1>16 DEF view_notifs, LockHeld, u_goto, elsewhere, network, locks
  <1>17. CASE lock_notifs
    BY <1>17 DEF lock_notifs, LockHeld, u_goto, Writable, network, data
  <1>18. CASE clear_notifs
    BY <1>18 DEF clear_notifs, LockHeld, network
  <1>19. CASE notif_selected
    BY <1>19 DEF notif_selected, LockHeld, failed, u_goto, Send, network
  <1>20. CASE ui_add_friend
    BY <1>20 DEF ui_add_friend, LockHeld, u_goto, Writable, network, locks
  <1>21. CASE acquire_readlock
    <2>1. use >= 0 /\ use' = use + 1 /\ use \in Int
      BY <1>21 DEF acquire_readlock, Readable, TypeOK
    <2>2. use' >= 1
      BY <2>1
    <2>3. ui' = "select friend"
      BY <1>21 DEF acquire_readlock, u_goto
    <2> QED
      BY <2>2, <2>3 DEF LockHeld
  <1>22. CASE select_conversation
    BY <1>22 DEF select_conversation, LockHeld, u_goto, network, data
  <1>23. CASE start_conversation
    BY <1>23 DEF start_conversation, LockHeld, set_mode, Writable, network,
       locks
  <1>24. CASE show_messages
    BY <1>24 DEF show_messages, LockHeld, Writable, network, locks
  <1>25. CASE conversation
    BY <1>25 DEF conversation, LockHeld, Send, u_goto, locks
  <1>26. CASE end_conversation
    BY <1>26 DEF end_conversation, LockHeld, u_goto, set_mode, Writable,
       elsewhere, network, locks
  <1>27. CASE select
    BY <1>27 DEF select, LockHeld, get_mode, Readable, u_goto, elsewhere,
       network, locks
  <1>28. CASE SpuriousWakeup
    BY <1>28 DEF SpuriousWakeup, LockHeld, network, data
  <1>29. CASE answer
    BY <1>29 DEF answer, LockHeld, locks, data
  <1>30. CASE deliver
    BY <1>30 DEF deliver, LockHeld, locks, data
  <1>31. CASE lose
    BY <1>31 DEF lose, LockHeld, locks, data
  <1>32. CASE end_request
    BY <1>32 DEF end_request, LockHeld, get_mode, Readable, failed, u_goto,
       set_mode, Writable, network
  <1> QED
    BY <1>1, <1>2, <1>3, <1>4, <1>5, <1>6, <1>7, <1>8, <1>9, <1>10, <1>11,
       <1>12, <1>13, <1>14, <1>15, <1>16, <1>17, <1>18, <1>19, <1>20, <1>21,
       <1>22, <1>23, <1>24, <1>25, <1>26, <1>27, <1>28, <1>29, <1>30, <1>31,
       <1>32 DEF user_interface

(* Modes against places.                                                       *)
LEMMA ModeReset ==
    ASSUME mode' = -1 \/ mode' = 0 \/ mode' = 255
    PROVE  ModesMatch'
  BY DEF ModesMatch

LEMMA BackgroundModes ==
    ASSUME ModesMatch, background_thread
    PROVE  ModesMatch'
  <1>1. CASE mode' = mode
    BY <1>1, BackgroundLeaves DEF ModesMatch
  <1> QED
    BY <1>1, BackgroundLeaves, ModeReset

LEMMA UserModes ==
    ASSUME TypeOK, ModesMatch, user_interface \/ select \/ SpuriousWakeup \/ answer \/ deliver \/ lose
    PROVE  ModesMatch'
  <1>1. CASE handle_user
    BY <1>1 DEF handle_user, ModesMatch, Sending, Requesting, Conversing,
       u_goto, elsewhere, network, locks
  <1>2. CASE leave
    BY <1>2, ModeReset DEF leave, set_mode
  <1>3. CASE handler_select
    BY ZenonT(40), <1>3 DEF handler_select, ModesMatch, Sending, Requesting, Conversing,
       get_mode, Readable, u_goto, elsewhere, network, locks
  <1>4. CASE news
    BY <1>4, ModeReset DEF news, set_mode
  <1>5. CASE wait_for_event
    BY <1>5 DEF wait_for_event, ModesMatch, Sending, Requesting, Conversing,
       get_mode, Readable, u_goto, elsewhere, network, locks
  <1>6. CASE ui_lock_net
    BY <1>6 DEF ui_lock_net, ModesMatch, Sending, Requesting, Conversing,
       u_goto, network, data
  <1>7. CASE ui_acquire_netlock
    BY <1>7 DEF ui_acquire_netlock, ModesMatch, Sending, Requesting,
       Conversing, get_mode, Readable, u_goto, network
  <1>8. CASE send_message
    BY <1>8 DEF send_message, ModesMatch, Sending, Requesting, Conversing,
       u_goto, data
  <1>9. CASE send_friendreq
    BY <1>9 DEF send_friendreq, ModesMatch, Sending, Requesting, Conversing,
       failed, u_goto, Send, locks
  <1>10. CASE set_mode_request
    BY <1>10 DEF set_mode_request, ModesMatch, Sending, Requesting, Conversing,
       u_goto, set_mode, Writable, elsewhere, network, locks
  <1>11. CASE lock_bg
    BY <1>11 DEF lock_bg, ModesMatch, Sending, Requesting, Conversing, u_goto,
       network, data
  <1>12. CASE test_resp
    BY <1>12 DEF test_resp, ModesMatch, Sending, Requesting, Conversing,
       get_mode, Readable, u_goto, elsewhere, network, locks
  <1>13. CASE cond_wait
    BY <1>13 DEF cond_wait, ModesMatch, Sending, Requesting, Conversing,
       u_goto, network, data
  <1>14. CASE answered
    <2>1. mode' = mode /\ ui = "answered" /\ after' = after
      BY <1>14 DEF answered, failed, u_goto
    <2>2. CASE get_mode(-1)
      BY <2>1, <2>2, ModeReset DEF get_mode
    <2>3. CASE ~get_mode(-1)
      <3>1. ui' = "set_mode 0"
        BY <1>14, <2>3 DEF answered, u_goto
      <3>2. mode # 1
        BY <2>1 DEF ModesMatch, Conversing, Sending
      <3> QED
        BY <2>1, <3>1, <3>2 DEF ModesMatch, Requesting
    <2> QED
      BY <2>2, <2>3
  <1>15. CASE use_resp
    BY <1>15 DEF use_resp, ModesMatch, Sending, Requesting, Conversing, u_goto,
       failed, Send, elsewhere, network, locks
  <1>16. CASE view_notifs
    BY <1>16 DEF view_notifs, ModesMatch, Sending, Requesting, Conversing,
       u_goto, elsewhere, network, locks
  <1>17. CASE lock_notifs
    BY <1>17 DEF lock_notifs, ModesMatch, Sending, Requesting, Conversing,
       u_goto, Writable, network, data
  <1>18. CASE clear_notifs
    BY <1>18 DEF clear_notifs, ModesMatch, Sending, Requesting, Conversing,
       network
  <1>19. CASE notif_selected
    BY <1>19 DEF notif_selected, ModesMatch, Sending, Requesting, Conversing,
       failed, u_goto, Send, network
  <1>20. CASE ui_add_friend
    BY <1>20 DEF ui_add_friend, ModesMatch, Sending, Requesting, Conversing,
       u_goto, Writable, network, locks
  <1>21. CASE acquire_readlock
    BY <1>21 DEF acquire_readlock, ModesMatch, Sending, Requesting, Conversing,
       u_goto, Readable, network, data
  <1>22. CASE select_conversation
    BY <1>22 DEF select_conversation, ModesMatch, Sending, Requesting,
       Conversing, u_goto, network, data
  <1>23. CASE start_conversation
    <2>1. mode' = 1
      BY <1>23 DEF start_conversation, set_mode
    <2>2. mode' # 2
      BY <2>1
    <2>3. ui' \in {"conversation", "crashed"}
      BY <1>23 DEF start_conversation
    <2> QED
      BY <2>2, <2>3 DEF ModesMatch, Conversing
  <1>24. CASE show_messages
    BY <1>24 DEF show_messages, ModesMatch, Sending, Requesting, Conversing,
       Writable, network, locks
  <1>25. CASE conversation
    BY <1>25 DEF conversation, ModesMatch, Sending, Requesting, Conversing,
       Send, u_goto, locks
  <1>26. CASE end_conversation
    BY <1>26, ModeReset DEF end_conversation, set_mode
  <1>27. CASE select
    BY <1>27 DEF select, ModesMatch, Sending, Requesting, Conversing, get_mode,
       Readable, u_goto, elsewhere, network, locks
  <1>28. CASE SpuriousWakeup
    BY <1>28 DEF SpuriousWakeup, ModesMatch, Sending, Requesting, Conversing,
       network, data
  <1>29. CASE answer
    BY <1>29 DEF answer, ModesMatch, Sending, Requesting, Conversing, locks,
       data
  <1>30. CASE deliver
    BY <1>30 DEF deliver, ModesMatch, Sending, Requesting, Conversing, locks,
       data
  <1>31. CASE lose
    BY <1>31 DEF lose, ModesMatch, Sending, Requesting, Conversing, locks, data
  <1>32. CASE end_request
    BY <1>32, ModeReset DEF end_request, set_mode
  <1> QED
    BY <1>1, <1>2, <1>3, <1>4, <1>5, <1>6, <1>7, <1>8, <1>9, <1>10, <1>11,
       <1>12, <1>13, <1>14, <1>15, <1>16, <1>17, <1>18, <1>19, <1>20, <1>21,
       <1>22, <1>23, <1>24, <1>25, <1>26, <1>27, <1>28, <1>29, <1>30, <1>31,
       <1>32 DEF user_interface

(* From a request to its answer: an answer that is coming keeps coming,        *)
(* whatever the server sends and background_thread reads before it.            *)
LEMMA SentComes ==
    ASSUME TypeOK, Coming, NEW a \in UserMessage \cup Answer,
           in' = Append(in, a), asked' = asked \/ a \in Answer, UNCHANGED <<bg, m>>
    PROVE  Coming'
  <1>1. in \in Seq(UserMessage \cup Answer)
    BY DEF TypeOK
  <1>2. CASE a \in Answer
    <2>1. Len(in) + 1 \in DOMAIN in' /\ in'[Len(in) + 1] = a
      BY <1>1
    <2> QED
      BY <2>1, <1>2 DEF Coming
  <1>3. CASE \E i \in DOMAIN in : in[i] \in Answer
    <2>1. PICK i \in DOMAIN in : in[i] \in Answer
      BY <1>3
    <2>2. i \in DOMAIN in' /\ in'[i] = in[i]
      BY <2>1, <1>1
    <2> QED
      BY <2>1, <2>2 DEF Coming
  <1> QED
    BY <1>2, <1>3 DEF Coming

LEMMA ReceivedComes ==
    ASSUME TypeOK, Handled, Coming, recv_message
    PROVE  Coming'
  <1>1. bg = "recv" /\ bg' = "status" /\ m = None /\ asked' = asked
    BY DEF recv_message, b_goto, Handled
  <1>2. CASE asked > 0
    BY <1>1, <1>2 DEF Coming
  <1>3. CASE \E i \in DOMAIN in : in[i] \in Answer
    <2>1. PICK i \in DOMAIN in : in[i] \in Answer
      BY <1>3
    <2>2. CASE in' = in
      BY <2>1, <2>2 DEF Coming
    <2>3. CASE in # <<>> /\ m' = Head(in) /\ in' = Tail(in)
      <3>1. in \in Seq(UserMessage \cup Answer)
        BY DEF TypeOK
      <3>2. CASE i = 1
        BY <2>1, <2>3, <1>1, <3>1, <3>2 DEF Coming
      <3>3. CASE i # 1
        <4>1. i - 1 \in DOMAIN in' /\ in'[i - 1] = in[i]
          BY <2>1, <2>3, <3>1, <3>3
        <4> QED
          BY <4>1, <2>1 DEF Coming
      <3> QED
        BY <3>2, <3>3
    <2> QED
      BY <2>2, <2>3 DEF recv_message
  <1> QED
    BY <1>1, <1>2, <1>3 DEF Coming, Answer, None, Ending

LEMMA BackgroundRequests ==
    ASSUME TypeOK, NetOwner, Handled, AnswerComing, Requested, background_thread
    PROVE  AnswerComing' /\ Requested'
  <1>1. CASE bg_loop
    BY <1>1 DEF bg_loop, AnswerComing, Coming, Requested, Handled, NetOwner,
       Ending, Serving, Sending, Requesting, get_mode, Readable, b_goto,
       network, locks, data
  <1>2. CASE bg_lock_net
    BY <1>2 DEF bg_lock_net, AnswerComing, Coming, Requested, Handled,
       NetOwner, Ending, Serving, Sending, Requesting, b_goto, network, data
  <1>3. CASE bg_acquire_netlock
    BY <1>3 DEF bg_acquire_netlock, AnswerComing, Coming, Requested, Handled,
       NetOwner, Ending, Serving, Sending, Requesting, get_mode, Readable,
       b_goto, network, data
  <1>4. CASE recv_message
    <2>1. UNCHANGED <<asleep, ui, pkey_resp>>
      BY <1>4 DEF recv_message, locks, data
    <2> QED
      BY <1>4, <2>1, ReceivedComes DEF AnswerComing, Requested
  <1>5. CASE bg_status
    <2>1. Coming => Coming'
      BY <1>5, StatusLeads DEF Coming, Ending, network
    <2>2. UNCHANGED <<asleep, ui, pkey_resp>>
      BY <1>5, StatusLeads DEF locks
    <2> QED
      BY <2>1, <2>2 DEF AnswerComing, Requested
  <1>6. CASE release_netlock
    BY <1>6 DEF release_netlock, AnswerComing, Coming, Requested, Handled,
       NetOwner, Ending, Serving, Sending, Requesting, b_goto, network, data
  <1>7. CASE bg_add_friend
    BY <1>7 DEF bg_add_friend, AnswerComing, Coming, Requested, Handled,
       NetOwner, Ending, Serving, Sending, Requesting, b_goto, Writable,
       network, locks
  <1>8. CASE add_cmessage
    BY <1>8 DEF add_cmessage, AnswerComing, Coming, Requested, Handled,
       NetOwner, Ending, Serving, Sending, Requesting, b_goto, Readable,
       network, locks
  <1>9. CASE add_new_message
    BY <1>9 DEF add_new_message, AnswerComing, Coming, Requested, Handled,
       NetOwner, Ending, Serving, Sending, Requesting, Writable, b_goto,
       network, data
  <1>10. CASE insert_notif
    BY <1>10 DEF insert_notif, AnswerComing, Coming, Requested, Handled,
       NetOwner, Ending, Serving, Sending, Requesting, b_goto, Writable,
       network, locks
  <1>11. CASE read_mode
    BY <1>11 DEF read_mode, AnswerComing, Coming, Requested, Handled, NetOwner,
       Ending, Serving, Sending, Requesting, get_mode, Readable, b_goto,
       network, locks, data
  <1>12. CASE set_mode_news
    BY <1>12 DEF set_mode_news, AnswerComing, Coming, Requested, Handled,
       NetOwner, Ending, Serving, Sending, Requesting, b_goto, set_mode,
       Writable, network, locks
  <1>13. CASE bg_lock_answer
    BY <1>13 DEF bg_lock_answer, AnswerComing, Coming, Requested, Handled,
       NetOwner, Ending, Serving, Sending, Requesting, b_goto, network, data
  <1>14. CASE add_pkeyresp
    <2>1. ui # "cond_wait" /\ UNCHANGED ui
      BY <1>14 DEF add_pkeyresp, b_goto, NetOwner, Requesting
    <2>2. CASE get_mode(2)
      <3>1. pkey_resp' = m /\ m \in Answer /\ ~asleep'
        BY <1>14, <2>2 DEF add_pkeyresp, b_goto, get_mode, Handled
      <3> QED
        BY <2>1, <3>1 DEF AnswerComing, Requested, Answer, None
    <2>3. CASE ~get_mode(2)
      <3>1. bg' = "end" /\ UNCHANGED <<pkey_resp, asleep>>
        BY <1>14, <2>3 DEF add_pkeyresp, b_goto, get_mode
      <3>2. Coming'
        BY <3>1 DEF Coming, Ending
      <3> QED
        BY <2>1, <3>1, <3>2 DEF AnswerComing, Requested
    <2> QED
      BY <2>2, <2>3
  <1>15. CASE bg_end
    BY <1>15 DEF bg_end, AnswerComing, Coming, Requested, Handled, NetOwner,
       Ending, Serving, Sending, Requesting, b_goto, network, data
  <1>16. CASE bg_stop
    BY <1>16 DEF bg_stop, AnswerComing, Coming, Requested, Handled, NetOwner,
       Ending, Serving, Sending, Requesting, b_goto, Writable, network, locks
  <1>17. CASE bg_stop_mode
    BY <1>17 DEF bg_stop_mode, AnswerComing, Coming, Requested, Handled,
       NetOwner, Ending, Serving, Sending, Requesting, b_goto, set_mode,
       Writable, network, locks
  <1>18. CASE bg_broadcast
    BY <1>18 DEF bg_broadcast, AnswerComing, Coming, Requested, Handled,
       NetOwner, Ending, Serving, Sending, Requesting, b_goto, network, data
  <1>19. CASE no_cmessage
    BY <1>19 DEF no_cmessage, AnswerComing, Coming, Requested, Handled,
       NetOwner, Ending, Serving, Sending, Requesting, b_goto,
       network, locks, data
  <1> QED
    BY <1>1, <1>2, <1>3, <1>4, <1>5, <1>6, <1>7, <1>8, <1>9, <1>10, <1>11,
       <1>12, <1>13, <1>14, <1>15, <1>16, <1>17, <1>18, <1>19 DEF background_thread

LEMMA UserRequests ==
    ASSUME TypeOK, NetOwner, Handled, AnswerComing, Requested, user_interface
    PROVE  AnswerComing' /\ Requested'
  <1>1. CASE handle_user
    BY <1>1 DEF handle_user, AnswerComing, Coming, Requested, Handled,
       NetOwner, Ending, Serving, Sending, Requesting, u_goto, elsewhere,
       network, locks
  <1>2. CASE leave
    BY <1>2 DEF leave, AnswerComing, Coming, Requested, Handled, NetOwner,
       Ending, Serving, Sending, Requesting, u_goto, set_mode, Writable,
       elsewhere, network, locks
  <1>3. CASE handler_select
    BY <1>3 DEF handler_select, AnswerComing, Coming, Requested, Handled,
       NetOwner, Ending, Serving, Sending, Requesting, get_mode, Readable,
       u_goto, elsewhere, network, locks
  <1>4. CASE news
    BY <1>4 DEF news, AnswerComing, Coming, Requested, Handled, NetOwner,
       Ending, Serving, Sending, Requesting, u_goto, set_mode, Writable,
       elsewhere, network, locks
  <1>5. CASE wait_for_event
    BY <1>5 DEF wait_for_event, AnswerComing, Coming, Requested, Handled,
       NetOwner, Ending, Serving, Sending, Requesting, get_mode, Readable,
       u_goto, elsewhere, network, locks
  <1>6. CASE ui_lock_net
    BY <1>6 DEF ui_lock_net, AnswerComing, Coming, Requested, Handled,
       NetOwner, Ending, Serving, Sending, Requesting, u_goto, network, data
  <1>7. CASE ui_acquire_netlock
    BY <1>7 DEF ui_acquire_netlock, AnswerComing, Coming, Requested, Handled,
       NetOwner, Ending, Serving, Sending, Requesting, get_mode, Readable,
       u_goto, network
  <1>8. CASE send_message
    <2>1. after \in After /\ asked \in Nat /\ ui = "send_message" /\ ui' = after
      BY <1>8 DEF send_message, u_goto, TypeOK
    <2>2. UNCHANGED <<asleep, pkey_resp>> /\ ~asleep
      BY <1>8, <2>1 DEF send_message, data, Requested
    <2>3. CASE after = "set_mode"
      <3>1. Coming'
        BY <1>8, <2>1, <2>3 DEF send_message, Coming
      <3> QED
        BY <2>1, <2>2, <2>3, <3>1 DEF AnswerComing, Requested
    <2>4. CASE after # "set_mode"
      BY <2>1, <2>2, <2>4 DEF AnswerComing, Requested, After, None
    <2> QED
      BY <2>3, <2>4
  <1>9. CASE send_friendreq
    BY <1>9 DEF send_friendreq, AnswerComing, Coming, Requested, Handled,
       NetOwner, Ending, Serving, Sending, Requesting, failed, u_goto, Send,
       locks
  <1>10. CASE set_mode_request
    BY <1>10 DEF set_mode_request, AnswerComing, Coming, Requested, Handled,
       NetOwner, Ending, Serving, Sending, Requesting, u_goto, set_mode,
       Writable, elsewhere, network, locks
  <1>11. CASE lock_bg
    BY <1>11 DEF lock_bg, AnswerComing, Coming, Requested, Handled, NetOwner,
       Ending, Serving, Sending, Requesting, u_goto, network, data
  <1>12. CASE test_resp
    BY <1>12 DEF test_resp, AnswerComing, Coming, Requested, Handled, NetOwner,
       Ending, Serving, Sending, Requesting, get_mode, Readable, u_goto,
       elsewhere, network, locks
  <1>13. CASE cond_wait
    BY <1>13 DEF cond_wait, AnswerComing, Coming, Requested, Handled, NetOwner,
       Ending, Serving, Sending, Requesting, u_goto, network, data
  <1>14. CASE answered
    BY <1>14 DEF answered, elsewhere, network, locks, AnswerComing, Coming,
       Requested, Handled, NetOwner,
       Ending, Serving, Sending, Requesting, get_mode, Readable, failed,
       u_goto, set_mode, Writable, network
  <1>15. CASE use_resp
    BY <1>15 DEF use_resp, AnswerComing, Coming, Requested, Handled, NetOwner,
       Ending, Serving, Sending, Requesting, u_goto, failed, Send, elsewhere,
       network, locks
  <1>16. CASE view_notifs
    BY <1>16 DEF view_notifs, AnswerComing, Coming, Requested, Handled,
       NetOwner, Ending, Serving, Sending, Requesting, u_goto, elsewhere,
       network, locks
  <1>17. CASE lock_notifs
    BY <1>17 DEF lock_notifs, AnswerComing, Coming, Requested, Handled,
       NetOwner, Ending, Serving, Sending, Requesting, u_goto, Writable,
       network, data
  <1>18. CASE clear_notifs
    BY <1>18 DEF clear_notifs, AnswerComing, Coming, Requested, Handled,
       NetOwner, Ending, Serving, Sending, Requesting, network
  <1>19. CASE notif_selected
    <2>1. ui = "prompt" /\ ui' \in {"loop", "start_conversation", "send"}
      BY <1>19 DEF notif_selected, failed, Send, u_goto
    <2>2. UNCHANGED <<asleep, pkey_resp>> /\ ~asleep
      BY <1>19, <2>1 DEF notif_selected, Requested
    <2> QED
      BY <2>1, <2>2 DEF AnswerComing, Requested
  <1>20. CASE ui_add_friend
    BY <1>20 DEF ui_add_friend, AnswerComing, Coming, Requested, Handled,
       NetOwner, Ending, Serving, Sending, Requesting, u_goto, Writable,
       network, locks
  <1>21. CASE acquire_readlock
    BY <1>21 DEF acquire_readlock, AnswerComing, Coming, Requested, Handled,
       NetOwner, Ending, Serving, Sending, Requesting, u_goto, Readable,
       network, data
  <1>22. CASE select_conversation
    BY <1>22 DEF select_conversation, AnswerComing, Coming, Requested, Handled,
       NetOwner, Ending, Serving, Sending, Requesting, u_goto, network, data
  <1>23. CASE start_conversation
    BY <1>23 DEF start_conversation, AnswerComing, Coming, Requested, Handled,
       NetOwner, Ending, Serving, Sending, Requesting, set_mode, Writable,
       network, locks
  <1>24. CASE show_messages
    BY <1>24 DEF show_messages, AnswerComing, Coming, Requested, Handled,
       NetOwner, Ending, Serving, Sending, Requesting, Writable, network, locks
  <1>25. CASE conversation
    BY <1>25 DEF conversation, AnswerComing, Coming, Requested, Handled,
       NetOwner, Ending, Serving, Sending, Requesting, Send, u_goto, locks
  <1>26. CASE end_conversation
    BY <1>26 DEF end_conversation, AnswerComing, Coming, Requested, Handled,
       NetOwner, Ending, Serving, Sending, Requesting, u_goto, set_mode,
       Writable, elsewhere, network, locks
  <1>27. CASE end_request
    BY <1>27 DEF end_request, AnswerComing, Coming, Requested, Handled, NetOwner,
       Ending, Serving, Sending, Requesting, get_mode, Readable, failed,
       u_goto, set_mode, Writable, network
  <1> QED
    BY <1>1, <1>2, <1>3, <1>4, <1>5, <1>6, <1>7, <1>8, <1>9, <1>10, <1>11,
       <1>12, <1>13, <1>14, <1>15, <1>16, <1>17, <1>18, <1>19, <1>20, <1>21,
       <1>22, <1>23, <1>24, <1>25, <1>26, <1>27 DEF user_interface

LEMMA OtherRequests ==
    ASSUME TypeOK, NetOwner, Handled, AnswerComing, Requested, select \/ SpuriousWakeup \/ answer \/ deliver \/ lose
    PROVE  AnswerComing' /\ Requested'
  <1>1. CASE select
    BY <1>1 DEF select, AnswerComing, Coming, Requested, Handled, NetOwner,
       Ending, Serving, Sending, Requesting, get_mode, Readable, u_goto,
       elsewhere, network, locks
  <1>2. CASE SpuriousWakeup
    BY <1>2 DEF SpuriousWakeup, AnswerComing, Coming, Requested, Handled,
       NetOwner, Ending, Serving, Sending, Requesting, network, data
  <1>3. CASE answer
    <2>1. UNCHANGED <<asleep, ui, pkey_resp>>
      BY <1>3 DEF answer, locks, data
    <2>2. Coming => Coming'
      BY <1>3, SentComes DEF answer
    <2> QED
      BY <2>1, <2>2 DEF AnswerComing, Requested
  <1>4. CASE deliver
    <2>1. UNCHANGED <<asleep, ui, pkey_resp>>
      BY <1>4 DEF deliver, locks, data
    <2>2. Coming => Coming'
      BY <1>4, SentComes DEF deliver
    <2> QED
      BY <2>1, <2>2 DEF AnswerComing, Requested
  <1>5. CASE lose
    BY <1>5 DEF lose, AnswerComing, Coming, Requested, Handled, NetOwner,
       Ending, Serving, Sending, Requesting, locks, data
  <1> QED
    BY <1>1, <1>2, <1>3, <1>4, <1>5

-------------------------------------------------------------------------------

LEMMA ClientStep == ClientInv /\ [Next]_vars => ClientInv'
  <1> SUFFICES ASSUME ClientInv, [Next]_vars PROVE ClientInv'
    OBVIOUS
  <1> USE DEF ClientInv
  <1>0. NetOwner' => Exclusive'
    BY DEF NetOwner, Exclusive, Serving, Sending, Ending
  <1>1. CASE background_thread
    BY <1>0, <1>1, BackgroundTypes, HandledStays, BackgroundOwners,
       BackgroundHeld, BackgroundModes, BackgroundRequests
  <1>2. CASE user_interface
    <2>1. Handled'
      BY <1>2, UserLeaves DEF Handled
    <2> QED
      BY <1>0, <1>2, <2>1, UserTypes, UserOwners, UserHeld, UserModes,
         UserRequests
  <1>3. CASE select \/ SpuriousWakeup \/ answer \/ deliver \/ lose
    <2>1. Handled'
      BY <1>3, UserLeaves DEF Handled
    <2> QED
      BY <1>0, <1>3, <2>1, OtherTypes, OtherOwners, UserHeld, UserModes,
         OtherRequests
  <1>4. CASE UNCHANGED vars
    <2> USE <1>4 DEF vars, network, locks, data
    <2>1. TypeOK'
      BY DEF TypeOK
    <2>2. NetOwner' /\ LockHeld' /\ ModesMatch'
      BY DEF NetOwner, LockHeld, ModesMatch
    <2>3. AnswerComing' /\ Requested' /\ Handled'
      BY DEF AnswerComing, Coming, Requested, Handled
    <2> QED
      BY <1>0, <2>1, <2>2, <2>3
  <1>5. CASE cfile_check_crashes
    <2>1. /\ ui' = "crashed" /\ asleep' = FALSE
          /\ UNCHANGED <<network, use, net_lock, bg_lock, data, after, bg, m>>
      BY <1>5 DEF cfile_check_crashes
    <2>2. TypeOK'
      BY <2>1 DEF TypeOK, network, data
    <2>3. NetOwner' /\ LockHeld' /\ ModesMatch'
      BY <2>1 DEF NetOwner, LockHeld, ModesMatch, Sending, Requesting, data
    <2>4. AnswerComing' /\ Requested' /\ Handled'
      BY <2>1 DEF AnswerComing, Requested, Handled
    <2> QED
      BY <1>0, <2>2, <2>3, <2>4
  <1> QED
    BY <1>1, <1>2, <1>3, <1>4, <1>5 DEF Next

(* The client keeps its mutexes, its lock, its modes and its requests in step, *)
(* however many messages arrive and whatever the user does.                    *)
THEOREM ClientInvariant == Spec => []ClientInv
  BY ClientInit, ClientStep, PTL DEF Spec

(* background_thread and the user interface never use the keys of the          *)
(* connection at once, even though background_thread gives net_lock back when  *)
(* it does not own it.                                                         *)
THEOREM OneThreadSends == Spec => []Exclusive
  <1>1. ClientInv => Exclusive
    BY DEF ClientInv
  <1> QED
    BY <1>1, ClientInvariant, PTL

(* Nobody sleeps on bg_wait unless an answer is still to come or               *)
(* background_thread is at its end.                                            *)
THEOREM NobodySleepsForgotten == Spec => []AnswerComing
  <1>1. ClientInv => AnswerComing
    BY DEF ClientInv
  <1> QED
    BY <1>1, ClientInvariant, PTL
===============================================================================
