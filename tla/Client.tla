--------------------------------- MODULE Client -------------------------------
(* The client once it is logged in: the user interface (handle_user and the    *)
(* menus of client/cli.c, notifications.c, conversation.c, friendreq.c) and    *)
(* background_thread of client/bg_manager.c, over mode and stop, the list of   *)
(* notifications, the connection and the locks lock, net_lock and bg_lock.     *)
(*                                                                             *)
(* lock is the counter that Lock implements: a stretch of code that takes it,  *)
(* does not block and gives it back is one step, guarded by the counter, and   *)
(* use differs from 0 only where a thread waits, or has gone on, with the lock *)
(* in its hands.  There is one friend.  Files are written with success but for *)
(* the one whose failure keeps the lock, and that of the conversation, which   *)
(* may be missing or unreadable.                                               *)
EXTENDS Integers, Sequences, SequencesExt

CONSTANTS
    MaxIncoming,      \* bound: messages of other users
    MaxRequests,      \* bound: requests for a key, and messages to the friend
    MaxBack           \* bound: times that select_conversation keeps the lock

ASSUME ClientAssumption == {MaxIncoming, MaxRequests, MaxBack} \subseteq Nat

VARIABLES
    up,               \* handler_status(sc.ch) = 0
    in,               \* messages of the server, not yet received
    asked,            \* requests for a key the server has not answered
    incoming, sent,   \* for the bounds

    use,              \* lock: -1 a writer, otherwise the readers
    net_lock, bg_lock,
    asleep,           \* the user interface sleeps on bg_wait

    mode,             \* 0 default, 1 conversation, 2 friend request, 255 news,
                      \* -1 stop
    stop, pkey_resp, notifs, friend,
    new_messages,     \* received for the conversation, not yet shown

    ui, after,        \* where the user interface is; and where it goes on
                      \* when it has sent
    bg, m             \* where background_thread is; its message

network == <<up, in, asked, incoming, sent>>
locks == <<use, net_lock, bg_lock, asleep>>
data == <<mode, stop, pkey_resp, notifs, friend, new_messages>>
vars == <<network, locks, data, ui, after, bg, m>>

None == "none"
UserMessage == {"text", "request", "accepted"}
Answer == {"key", "unotfound"}

Init ==
    /\ up = TRUE /\ in = <<>> /\ asked = 0 /\ incoming = 0 /\ sent = 0
    /\ use = 0 /\ net_lock = None /\ bg_lock = None /\ asleep = FALSE
    /\ mode = 0 /\ stop = FALSE /\ pkey_resp = None
    /\ friend \in BOOLEAN /\ new_messages = FALSE
    /\ notifs \in {<<>>, <<"text">>, <<"request">>}
    /\ notifs = <<"text">> => friend
    /\ ui = "loop" /\ after = None
    /\ bg = "loop" /\ m = None

Readable == use >= 0
Writable == use = 0

u_goto(from, to) == ui = from /\ ui' = to
b_goto(from, to) == bg = from /\ bg' = to

get_mode(v) == Readable /\ mode = v
set_mode(v) == Writable /\ mode' = v

-------------------------------------------------------------------------------
(* The server and the other users.                                             *)

answer ==
    /\ up /\ asked > 0
    /\ asked' = asked - 1
    /\ \E a \in Answer : in' = Append(in, a)
    /\ UNCHANGED <<up, incoming, sent, locks, data, ui, after, bg, m>>

deliver ==
    /\ up /\ incoming < MaxIncoming
    /\ incoming' = incoming + 1
    /\ \E a \in UserMessage : in' = Append(in, a)
    /\ UNCHANGED <<up, asked, sent, locks, data, ui, after, bg, m>>

lose ==
    /\ up /\ up' = FALSE
    /\ UNCHANGED <<in, asked, incoming, sent, locks, data, ui, after, bg, m>>

-------------------------------------------------------------------------------
(* background_thread.                                                          *)

bg_loop ==
    /\ \/ get_mode(-1) /\ b_goto("loop", "end")
       \/ ~get_mode(-1) /\ Readable /\ b_goto("loop", "net")
    /\ UNCHANGED <<network, locks, data, ui, after, m>>

bg_lock_net ==
    /\ b_goto("net", "test")
    /\ net_lock = None /\ net_lock' = "bg"
    /\ UNCHANGED <<network, use, bg_lock, asleep, data, ui, after, m>>

(* acquire_netlock, once it has the mutex.                                     *)
bg_acquire_netlock ==
    /\ \/ get_mode(-1) /\ b_goto("test", "end") /\ net_lock' = None
       \/ ~get_mode(-1) /\ Readable /\ b_goto("test", "recv") /\ UNCHANGED net_lock
    /\ UNCHANGED <<network, use, bg_lock, asleep, data, ui, after, m>>

recv_message ==
    /\ b_goto("recv", "status")
    /\ \/ up /\ in # <<>> /\ m' = Head(in) /\ in' = Tail(in)
       \/ (~up \/ in = <<>>) /\ m' = None /\ UNCHANGED in
    /\ UNCHANGED <<up, asked, incoming, sent, locks, data, ui, after>>

(* Where a message leads; the friend's count only once he is a friend.         *)
Handling ==
    CASE m = None     -> "release"
      [] m = "text"   -> IF friend THEN "cmessage" ELSE "release"
      [] m = "request"  -> "insert"
      [] m = "accepted" -> "add_friend"
      [] m \in Answer -> "answer"

bg_status ==
    /\ b_goto("status", Handling)
    /\ \/ up /\ UNCHANGED mode
       \/ ~up /\ set_mode(-1)
    /\ UNCHANGED <<network, locks, stop, pkey_resp, notifs, friend, new_messages,
                   ui, after, m>>

release_netlock ==
    /\ b_goto("release", "loop")
    /\ net_lock' = None /\ m' = None
    /\ UNCHANGED <<network, use, bg_lock, asleep, data, ui, after>>

(* parse_friendreq_response.                                                   *)
bg_add_friend ==
    /\ b_goto("add_friend", "insert")
    /\ Writable /\ friend' = TRUE
    /\ UNCHANGED <<network, locks, mode, stop, pkey_resp, notifs, new_messages,
                   ui, after, m>>

(* parse_conv_message: the message is for the conversation on the screen.      *)
add_cmessage ==
    /\ b_goto("cmessage", "new message")
    /\ Readable /\ new_messages' = (mode = 1 \/ new_messages)
    /\ UNCHANGED <<network, locks, mode, stop, pkey_resp, notifs, friend,
                   ui, after, m>>

(* It is discarded, for its nonce or its MAC; or cfile_add fails, and the      *)
(* thread ends.                                                                *)
no_cmessage ==
    /\ b_goto("cmessage", "release") \/ b_goto("cmessage", "end")
    /\ UNCHANGED <<network, locks, data, ui, after, m>>

(* The first time there is no file, and fclose(NULL) has no defined outcome.    *)
cfile_check_crashes ==
    /\ bg = "cmessage" /\ ui' = "crashed" /\ asleep' = FALSE
    /\ UNCHANGED <<network, use, net_lock, bg_lock, data, after, bg, m>>

(* The loop looks at the first notification only; if that is another one it    *)
(* never ends.                                                                 *)
add_new_message ==
    /\ Writable
    /\ \/ notifs = <<>> /\ b_goto("new message", "insert") /\ UNCHANGED use
       \/ /\ notifs # <<>> /\ notifs[1] = "text"
          /\ b_goto("new message", "release") /\ UNCHANGED use
       \/ /\ notifs # <<>> /\ notifs[1] # "text"
          /\ b_goto("new message", "spin") /\ use' = -1
    /\ UNCHANGED <<network, net_lock, bg_lock, asleep, data, ui, after, m>>

insert_notif ==
    /\ b_goto("insert", "read mode")
    /\ Writable /\ notifs' = Append(notifs, m)
    /\ UNCHANGED <<network, locks, mode, stop, pkey_resp, friend, new_messages,
                   ui, after, m>>

(* add_notif: read, then set.                                                  *)
read_mode ==
    /\ \/ get_mode(0) /\ b_goto("read mode", "set mode")
       \/ ~get_mode(0) /\ Readable /\ b_goto("read mode", "release")
    /\ UNCHANGED <<network, locks, data, ui, after, m>>

set_mode_news ==
    /\ b_goto("set mode", "release")
    /\ set_mode(255)
    /\ UNCHANGED <<network, locks, stop, pkey_resp, notifs, friend, new_messages,
                   ui, after, m>>

bg_lock_answer ==
    /\ b_goto("answer", "add_pkeyresp")
    /\ bg_lock = None /\ bg_lock' = "bg"
    /\ UNCHANGED <<network, use, net_lock, asleep, data, ui, after, m>>

(* Variant: nobody is told.                                                    *)
add_pkeyresp_Silent ==
    /\ \/ get_mode(2) /\ b_goto("add_pkeyresp", "release") /\ pkey_resp' = m
       \/ /\ ~get_mode(2) /\ Readable /\ b_goto("add_pkeyresp", "end")
          /\ UNCHANGED pkey_resp
    /\ bg_lock' = None
    /\ UNCHANGED <<network, use, net_lock, asleep, mode, stop, notifs, friend,
                   new_messages, ui, after, m>>

(* add_pkeyresp and add_unotfound: an answer that is not waited for ends the   *)
(* thread.                                                                     *)
add_pkeyresp ==
    /\ \/ get_mode(2) /\ b_goto("add_pkeyresp", "release")
          /\ pkey_resp' = m /\ asleep' = FALSE
       \/ /\ ~get_mode(2) /\ Readable /\ b_goto("add_pkeyresp", "end")
          /\ UNCHANGED <<pkey_resp, asleep>>
    /\ bg_lock' = None
    /\ UNCHANGED <<network, use, net_lock, mode, stop, notifs, friend, new_messages,
                   ui, after, m>>

(* The end: net_lock is given back whoever holds it.                           *)
bg_end ==
    /\ b_goto("end", "stop")
    /\ net_lock' = None /\ m' = None
    /\ UNCHANGED <<network, use, bg_lock, asleep, data, ui, after>>

bg_stop ==
    /\ b_goto("stop", "stop mode")
    /\ Writable /\ stop' = TRUE
    /\ UNCHANGED <<network, locks, mode, pkey_resp, notifs, friend, new_messages,
                   ui, after, m>>

bg_stop_mode ==
    /\ b_goto("stop mode", "broadcast")
    /\ set_mode(-1)
    /\ UNCHANGED <<network, locks, stop, pkey_resp, notifs, friend, new_messages,
                   ui, after, m>>

bg_broadcast ==
    /\ b_goto("broadcast", "ended")
    /\ asleep' = FALSE
    /\ UNCHANGED <<network, use, net_lock, bg_lock, data, ui, after, m>>

background_thread ==
    \/ bg_loop \/ bg_lock_net \/ bg_acquire_netlock \/ recv_message \/ bg_status
    \/ release_netlock \/ bg_add_friend
    \/ add_cmessage \/ no_cmessage \/ add_new_message
    \/ insert_notif \/ read_mode \/ set_mode_news
    \/ bg_lock_answer \/ add_pkeyresp
    \/ bg_end \/ bg_stop \/ bg_stop_mode \/ bg_broadcast

-------------------------------------------------------------------------------
(* The user interface: handle_user and handler_select.                         *)

elsewhere == <<network, locks, pkey_resp, notifs, friend, new_messages, bg, m>>

handle_user ==
    /\ \/ up /\ ~stop /\ u_goto("loop", "menu")
       \/ (~up \/ stop) /\ u_goto("loop", "leave")
    /\ UNCHANGED <<elsewhere, mode, stop, after>>

leave ==
    /\ u_goto("leave", "left")
    /\ set_mode(-1)
    /\ UNCHANGED <<elsewhere, stop, after>>

handler_select ==
    /\ \/ get_mode(255) /\ u_goto("menu", "news")
       \/ ~get_mode(255) /\ Readable /\ u_goto("menu", "wait")
    /\ UNCHANGED <<elsewhere, mode, stop, after>>

news ==
    /\ u_goto("news", "wait")
    /\ set_mode(0)
    /\ UNCHANGED <<elsewhere, stop, after>>

(* The wait ends without input when the mode changes.                          *)
wait_for_event ==
    /\ ~get_mode(0) /\ Readable /\ u_goto("wait", "loop")
    /\ UNCHANGED <<elsewhere, mode, stop, after>>

(* The user selects; the end of the input is a selection too.                  *)
select ==
    /\ get_mode(0)
    /\ \/ u_goto("wait", "loop") /\ stop' \in {stop, TRUE}
       \/ \E to \in {"select_conversation", "view_notifs", "send_friendreq"} :
             u_goto("wait", to) /\ UNCHANGED stop
    /\ UNCHANGED <<elsewhere, mode, after>>

(* A selection that failed.                                                    *)
failed(from) == u_goto(from, "loop") /\ stop' = TRUE

-------------------------------------------------------------------------------
(* Sending: acquire_netlock and send_message.  after says what was to be sent. *)

Send(from, next) == u_goto(from, "send") /\ after' = next

ui_lock_net ==
    /\ u_goto("send", "test")
    /\ net_lock = None /\ net_lock' = "ui"
    /\ UNCHANGED <<network, use, bg_lock, asleep, data, after, bg, m>>

(* Variant: the lock is given back before the message is made.                 *)
ui_acquire_netlock_Early ==
    /\ \/ ~get_mode(-1) /\ Readable /\ u_goto("test", "send_message")
          /\ net_lock' = None /\ UNCHANGED <<stop, after>>
       \/ /\ get_mode(-1) /\ ui = "test" /\ net_lock' = None /\ stop' = TRUE
          /\ ui' = IF after = "conversation" THEN "end conversation" ELSE "loop"
          /\ after' = None
    /\ UNCHANGED <<network, use, bg_lock, asleep, mode, pkey_resp, notifs, friend,
                   new_messages, bg, m>>

ui_acquire_netlock ==
    /\ \/ ~get_mode(-1) /\ Readable /\ u_goto("test", "send_message")
          /\ UNCHANGED <<net_lock, stop, after>>
       \/ /\ get_mode(-1) /\ ui = "test" /\ net_lock' = None /\ stop' = TRUE
          /\ ui' = IF after = "conversation" THEN "end conversation" ELSE "loop"
          /\ after' = None
    /\ UNCHANGED <<network, use, bg_lock, asleep, mode, pkey_resp, notifs, friend,
                   new_messages, bg, m>>

(* Variant: the lock is kept.                                                   *)
send_message_Keeps ==
    /\ u_goto("send_message", after) /\ after' = None
    /\ asked' = IF after = "set_mode" THEN asked + 1 ELSE asked
    /\ UNCHANGED <<up, in, incoming, sent, locks, data, bg, m>>

(* ... and release_netlock.                                                    *)
send_message ==
    /\ u_goto("send_message", after) /\ after' = None
    /\ asked' = IF after = "set_mode" THEN asked + 1 ELSE asked
    /\ net_lock' = None
    /\ UNCHANGED <<up, in, incoming, sent, use, bg_lock, asleep, data, bg, m>>

-------------------------------------------------------------------------------
(* send_friendreq.                                                             *)

send_friendreq ==
    /\ pkey_resp' = None
    /\ \/ failed("send_friendreq") /\ UNCHANGED <<after, sent>>
       \/ /\ sent < MaxRequests /\ sent' = sent + 1
          /\ Send("send_friendreq", "set_mode") /\ UNCHANGED stop
    /\ UNCHANGED <<up, in, asked, incoming, locks, mode, notifs, friend,
                   new_messages, bg, m>>

set_mode_request ==
    /\ u_goto("set_mode", "lock")
    /\ set_mode(2)
    /\ UNCHANGED <<elsewhere, stop, after>>

(* pthread_mutex_lock, and pthread_cond_wait once it is woken.                 *)
lock_bg ==
    /\ u_goto("lock", "while")
    /\ ~asleep /\ bg_lock = None /\ bg_lock' = "ui"
    /\ UNCHANGED <<network, use, net_lock, asleep, data, after, bg, m>>

test_resp ==
    /\ \/ pkey_resp = None /\ get_mode(2) /\ u_goto("while", "cond_wait")
       \/ /\ pkey_resp # None \/ (Readable /\ ~get_mode(2))
          /\ u_goto("while", "answered")
    /\ UNCHANGED <<elsewhere, mode, stop, after>>

cond_wait ==
    /\ u_goto("cond_wait", "lock")
    /\ asleep' = TRUE /\ bg_lock' = None
    /\ UNCHANGED <<network, use, net_lock, data, after, bg, m>>

(* The wait may return without a broadcast (POSIX).                            *)
SpuriousWakeup ==
    /\ asleep /\ asleep' = FALSE
    /\ UNCHANGED <<network, use, net_lock, bg_lock, data, ui, after, bg, m>>

(* Told to stop, it keeps bg_lock; told so after this look it overwrites it.   *)
answered ==
    /\ \/ get_mode(-1) /\ failed("answered")
       \/ /\ ~get_mode(-1) /\ Readable /\ u_goto("answered", "set_mode 0")
          /\ UNCHANGED stop
    /\ UNCHANGED <<elsewhere, mode, after>>

end_request ==
    /\ u_goto("set_mode 0", "answer")
    /\ set_mode(0) /\ bg_lock' = None
    /\ UNCHANGED <<network, use, net_lock, asleep, stop, pkey_resp, notifs, friend,
                   new_messages, after, bg, m>>

(* What is made of the answer; without one the program crashes.  The user      *)
(* verifies the key, or does not.                                              *)
use_resp ==
    /\ \/ pkey_resp = None /\ u_goto("answer", "crashed")
          /\ UNCHANGED <<stop, after>>
       \/ pkey_resp # None /\ u_goto("answer", "loop")
          /\ UNCHANGED <<stop, after>>
       \/ pkey_resp = "key" /\ failed("answer") /\ UNCHANGED after
       \/ pkey_resp = "key" /\ Send("answer", "loop") /\ UNCHANGED stop
    /\ UNCHANGED <<elsewhere, mode>>

-------------------------------------------------------------------------------
(* view_notifs.  It looks where the list begins before it has the lock, and    *)
(* holds the lock while the user selects; of a list that was empty it shows     *)
(* nothing, even if there is a notification by now.                             *)

view_notifs ==
    /\ \/ notifs # <<>> /\ u_goto("view_notifs", "list")
       \/ notifs = <<>> /\ u_goto("view_notifs", "empty list")
    /\ UNCHANGED <<elsewhere, mode, stop, after>>

lock_notifs ==
    /\ u_goto("list", "prompt") \/ u_goto("empty list", "empty prompt")
    /\ Writable /\ use' = -1
    /\ UNCHANGED <<network, net_lock, bg_lock, asleep, data, after, bg, m>>

(* Nothing, or all of it cleared.                                              *)
clear_notifs ==
    /\ ui \in {"prompt", "empty prompt"} /\ ui' = "loop" /\ use' = 0
    /\ \/ stop' = TRUE /\ UNCHANGED notifs
       \/ stop' \in {stop, TRUE} /\ notifs' = <<>>
    /\ UNCHANGED <<network, net_lock, bg_lock, asleep, mode, pkey_resp, friend,
                   new_messages, after, bg, m>>

(* Where the file cannot be written the lock is kept.                          *)
notif_selected ==
    \E i \in DOMAIN notifs :
        /\ notifs' = RemoveAt(notifs, i)
        /\ \/ failed("prompt") /\ UNCHANGED <<use, after>>
           \/ /\ use' = 0 /\ UNCHANGED stop
              /\ \/ /\ notifs[i] \in {"text", "accepted"}
                    /\ u_goto("prompt", "start_conversation") /\ UNCHANGED after
                 \/ notifs[i] = "request" /\ u_goto("prompt", "loop") /\ UNCHANGED after
                 \/ notifs[i] = "request" /\ Send("prompt", "add_friend")
        /\ UNCHANGED <<network, net_lock, bg_lock, asleep, mode, pkey_resp, friend,
                       new_messages, bg, m>>

(* friendreq_send_response, once it has sent.                                  *)
ui_add_friend ==
    /\ u_goto("add_friend", "loop")
    /\ Writable /\ friend' = TRUE
    /\ UNCHANGED <<network, locks, mode, stop, pkey_resp, notifs, new_messages,
                   after, bg, m>>

-------------------------------------------------------------------------------
(* Conversations.                                                              *)

acquire_readlock ==
    /\ u_goto("select_conversation", "select friend")
    /\ Readable /\ use' = use + 1
    /\ UNCHANGED <<network, net_lock, bg_lock, asleep, data, after, bg, m>>

(* Without a friend, and when the user goes back, the lock is kept.            *)
select_conversation ==
    /\ \/ u_goto("select friend", "loop") /\ use <= MaxBack /\ UNCHANGED use
       \/ friend /\ u_goto("select friend", "start_conversation") /\ use' = use - 1
    /\ UNCHANGED <<network, net_lock, bg_lock, asleep, data, after, bg, m>>

(* The first time there is no file, and fclose(NULL) has no defined outcome.    *)
start_conversation ==
    /\ ui = "start_conversation" /\ ui' \in {"conversation", "crashed"}
    /\ set_mode(1) /\ new_messages' = FALSE
    /\ UNCHANGED <<network, locks, stop, pkey_resp, notifs, friend, after, bg, m>>

(* What is first shown of a conversation without messages has none to be linked *)
(* to, and the program crashes.                                                *)
show_messages ==
    /\ ui = "conversation" /\ ui' \in {"conversation", "crashed"}
    /\ Writable /\ new_messages /\ new_messages' = FALSE
    /\ UNCHANGED <<network, locks, mode, stop, pkey_resp, notifs, friend,
                   after, bg, m>>

(* The user writes a message, ends the conversation, or ends the input.        *)
conversation ==
    /\ \/ /\ sent < MaxRequests /\ sent' = sent + 1
          /\ Send("conversation", "conversation") /\ UNCHANGED stop
       \/ /\ u_goto("conversation", "end conversation") /\ stop' \in {stop, TRUE}
          /\ UNCHANGED <<after, sent>>
    /\ UNCHANGED <<up, in, asked, incoming, locks, mode, pkey_resp, notifs, friend,
                   new_messages, bg, m>>

end_conversation ==
    /\ u_goto("end conversation", "loop")
    /\ set_mode(0)
    /\ UNCHANGED <<elsewhere, stop, after>>

-------------------------------------------------------------------------------
user_interface ==
    \/ handle_user \/ leave \/ handler_select \/ news \/ wait_for_event
    \/ ui_lock_net \/ ui_acquire_netlock \/ send_message
    \/ send_friendreq \/ set_mode_request \/ lock_bg \/ test_resp \/ cond_wait
    \/ answered \/ end_request \/ use_resp
    \/ view_notifs \/ lock_notifs \/ clear_notifs \/ notif_selected \/ ui_add_friend
    \/ acquire_readlock \/ select_conversation
    \/ start_conversation \/ show_messages \/ conversation \/ end_conversation

(* A crash is the end of both threads.                                         *)
Next ==
    /\ ui # "crashed"
    /\ \/ answer \/ deliver \/ lose
       \/ background_thread
       \/ user_interface \/ select \/ SpuriousWakeup
       \/ cfile_check_crashes

Spec == Init /\ [][Next]_vars

(* Both threads go on, and get a lock that is free again and again; the user   *)
(* ends what he has begun, but need not select anything at the menu; the       *)
(* server answers.                                                             *)
FairSpec ==
    /\ Spec
    /\ SF_vars(background_thread /\ ui # "crashed") /\ SF_vars(user_interface)
    /\ WF_vars(answer /\ ui # "crashed")

(* The user does select something at the menu.                                 *)
UserSpec == FairSpec /\ WF_vars(select)

-------------------------------------------------------------------------------
Ending == {"end", "stop", "stop mode", "broadcast", "ended"}
Serving == {"test", "recv", "status", "release", "add_friend",
            "cmessage", "new message", "spin", "insert", "read mode", "set mode",
            "answer", "add_pkeyresp"}
Sending == {"test", "send_message"}
After == {None, "set_mode", "loop", "add_friend", "conversation"}
Requesting == {"lock", "while", "cond_wait", "answered", "set_mode 0"}
Conversing == {"conversation", "end conversation"}

TypeOK ==
    /\ up \in BOOLEAN /\ in \in Seq(UserMessage \cup Answer)
    /\ asked \in Nat /\ incoming \in Nat /\ sent \in Nat
    /\ use \in Int
    /\ {net_lock, bg_lock} \subseteq {None, "ui", "bg"} /\ asleep \in BOOLEAN
    /\ mode \in {-1, 0, 1, 2, 255} /\ stop \in BOOLEAN
    /\ pkey_resp \in Answer \cup {None} /\ m \in UserMessage \cup Answer \cup {None}
    /\ notifs \in Seq(UserMessage) /\ friend \in BOOLEAN /\ new_messages \in BOOLEAN
    /\ after \in After

(* The two threads never use the connection's keys at once, so that on the     *)
(* client nobody races for the nonce; although background_thread, when it      *)
(* ends, gives net_lock back even if the user interface holds it.              *)
Exclusive == ui \in Sending => bg \notin Serving

NetOwner ==
    /\ bg \in Serving => net_lock = "bg"
    /\ ui \in Sending => net_lock = "ui" \/ bg \in Ending \ {"end"}
    /\ ui \in Requesting \ {"lock"} => bg_lock = "ui"
    /\ bg = "add_pkeyresp" => bg_lock = "bg"

LockHeld ==
    /\ ui \in {"prompt", "empty prompt"} => use = -1
    /\ ui = "select friend" => use >= 1

(* Nobody sleeps on bg_wait with the answer at hand, and while the background  *)
(* thread runs an answer is still to come: one that finds the mode changed     *)
(* ends the thread.                                                            *)
Coming ==
    \/ asked > 0 \/ bg \in Ending
    \/ m \in Answer /\ bg # "release"
    \/ \E i \in DOMAIN in : in[i] \in Answer

AnswerComing == asleep => pkey_resp = None /\ Coming

(* What it rests on: from the request to the sleep.                            *)
Requested ==
    /\ asleep => ui = "lock"
    /\ ui = "cond_wait" => pkey_resp = None
    /\ ui \in {"set_mode", "lock", "while", "cond_wait"}
          => pkey_resp # None \/ Coming

Handled ==
    /\ bg \in {"loop", "net", "test", "recv"} => m = None
    /\ bg \in {"cmessage", "new message", "add_friend", "insert"} => m \in UserMessage
    /\ bg \in {"answer", "add_pkeyresp"} => m \in Answer
    /\ m \in Answer => bg \in {"status", "answer", "add_pkeyresp", "release",
                           "end"}

(* The mode of a conversation or of a request does not outlive it.             *)
ModesMatch ==
    /\ mode = 2 => ui \in Requesting \cup {"crashed"}
    /\ mode = 1 => \/ ui \in Conversing \cup {"crashed"}
                   \/ ui \in {"send"} \cup Sending /\ after = "conversation"

ClientInv ==
    /\ TypeOK
    /\ Exclusive /\ NetOwner /\ LockHeld
    /\ AnswerComing /\ Requested /\ Handled
    /\ ModesMatch

(* The lock is held by nobody who will give it back.                           *)
Kept ==
    /\ ui # "crashed"
    /\ use # CASE ui \in {"prompt", "empty prompt"} -> -1
               [] ui = "select friend" -> 1
               [] OTHER -> 0

(* Where the lock is never kept, the client ends after its connection does,    *)
(* whatever it was about; or waits for an answer for ever (see RequestEnds).   *)
EndsWhenLost ==
    []~Kept => (~up ~> ui \in {"left", "crashed"} \/ asleep)

(* ... and a request is answered, or there is nobody left to bring the answer. *)
RequestEnds == []~Kept => (asleep ~> ~asleep \/ bg = "ended")
===============================================================================
