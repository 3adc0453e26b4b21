------------------------------ MODULE Conversation ----------------------------
(* A conversation with one friend (client/conversation.c): the user interface  *)
(* in start_conversation and background_thread in parse_conv_message, over the *)
(* conversation file, the messages received while it is on the screen and the  *)
(* nonce of the friend's last message.  The program may stop between any two   *)
(* steps and log in again; the server keeps the messages of the time between   *)
(* and sends them once the session is in its table (server/client_handler.c).  *)
(*                                                                             *)
(* The friend sends as this client does (cmessage_send_server), and may be     *)
(* stopped and started again too.  Both clients go back to the nonces of the   *)
(* friend file then, which only add_friend writes.  A message opens with the   *)
(* keys it was made with: two requests that cross leave each with two entries  *)
(* for the other (see Friends), and the friend may use the second, while this  *)
(* client tries the first on whatever he sends.  A file opened for writing is  *)
(* written when it is sought in or closed.                                     *)
EXTENDS Integers, Sequences, SequencesExt, FiniteSetsExt

CONSTANTS
    MaxIncoming,      \* bound: messages of the friend
    MaxTexts,         \* bound: messages to the friend
    MaxRuns,          \* bound: times the program is started
    MaxRestarts       \* bound: times the friend's program is started again

ASSUME ConversationAssumption ==
    {MaxIncoming, MaxTexts, MaxRuns, MaxRestarts} \subseteq Nat

VARIABLES
    alive, linked,    \* the program runs; its connection is up
    run,              \* how often it was started
    mode, stop,       \* as in Client: 0, 1 in a conversation, -1
    new_messages,     \* latest first
    r_nonce, saved,   \* of the friend's last message; in the friend file
    spoilt,           \* history: the r_nonce the last message left that failed
                      \* the check of its MAC
    writer,           \* who has the lock for writing over several steps
    file,             \* the conversation file
    screen,           \* messages of the open conversation
    pc, msg,          \* of both threads

    session,          \* of this user on the server: none, in the table and to
                      \* load, or past that
    in,               \* on the connection to the client
    loaded,           \* messages the session has loaded and still has to send
    stored,           \* messages in the undelivered file
    absent,           \* a message whose recipient was not in the table

    s_nonce, s_saved, \* the friend's
    highest,          \* history: the highest he has used
    sent, epoch,      \* how many he sent; how often he was started

    texts, on_server, \* messages to the friend: made; with the server
    out, lost,        \* queued in the connection; history: lost with it
    cut, twice        \* history: the program has stopped within a write; both
                      \* threads found no file, and it was begun twice

Thread == {"ui", "bg"}
client == <<alive, linked, run, stop>>
net == <<in, session, loaded, stored, absent>>
peer == <<s_nonce, s_saved, highest, sent, epoch>>
own == <<texts, out, on_server, lost>>
conv == <<mode, new_messages, screen>>
seen == <<r_nonce, spoilt>>
nonces == <<seen, saved>>
disk == <<writer, file, cut, twice>>
vars == <<client, net, peer, own, conv, nonces, disk, pc, msg>>

None == [from |-> "nobody", n |-> 0]
Own(n) == [from |-> "me", n |-> n]

(* What is written down of a message of the friend: which it was, and in which *)
(* runs of the two programs it was sent and accepted.                          *)
Accepted(m) == [from |-> "friend", n |-> m.n, epoch |-> m.epoch, run |-> run]

NoFile == [there |-> FALSE, header |-> -1, blocks |-> <<>>]

Init ==
    /\ alive = TRUE /\ linked = TRUE /\ run = 1
    /\ mode = 0 /\ stop = FALSE /\ new_messages = <<>> /\ screen = <<>>
    /\ r_nonce = 0 /\ saved = 0 /\ spoilt = 0
    /\ writer = "nobody" /\ cut = FALSE /\ twice = FALSE
    /\ file \in {NoFile, [there |-> TRUE, header |-> 0, blocks |-> <<>>]}
    /\ pc = [ui |-> "turn", bg |-> "recv"] /\ msg = [t \in Thread |-> None]
    /\ session = "serves"
    /\ in = <<>> /\ loaded = <<>> /\ stored = <<>> /\ absent = <<>>
    /\ s_nonce = 0 /\ s_saved = 0 /\ highest = 0 /\ sent = 0 /\ epoch = 1
    /\ texts = 0 /\ on_server = {} /\ out = {} /\ lost = {}

Go(t, from, to) == pc[t] = from /\ pc' = [pc EXCEPT ![t] = to]
Free == alive /\ writer = "nobody"
Unlock == writer' = "nobody"

-------------------------------------------------------------------------------
(* The file.  A caller that is done with cfile_check goes on to what it wanted *)
(* the file for: to load it, or to add the message in its hands.               *)

Checked(t) == IF t = "ui" /\ msg[t] = None THEN "load" ELSE "add"
Done(t) == IF t = "ui" THEN "merge" ELSE "push"
Failed(t) == IF t = "ui" THEN "failed" ELSE "end"

file_rest == <<client, net, peer, own, nonces, msg>>

(* The messages in the queue of a connection end with it.                      *)
Unsent == out' = {} /\ lost' = lost \cup out /\ UNCHANGED <<texts, on_server>>

(* What is left of the program when it stops.                                  *)
Stopped ==
    /\ alive' = FALSE /\ linked' = FALSE /\ Unsent
    /\ in' = <<>>
    /\ mode' = 0 /\ stop' = FALSE /\ new_messages' = <<>> /\ screen' = <<>>
    /\ r_nonce' = saved
    /\ writer' = "nobody" /\ cut' = (cut \/ writer # "nobody")
    /\ pc' = [t \in Thread |-> "stopped"] /\ msg' = [t \in Thread |-> None]
    /\ UNCHANGED <<run, saved, spoilt, file, twice, session, loaded, stored, absent,
                   peer>>

(* Without a file, fclose(NULL) may end the program.                           *)
cfile_check(t) ==
    /\ alive /\ pc[t] = "check"
    /\ \/ /\ IF file.there THEN Go(t, "check", Checked(t)) ELSE Go(t, "check", "init")
          /\ UNCHANGED <<file_rest, conv, disk>>
       \/ ~file.there /\ Stopped

cfile_init(t) ==
    /\ Free /\ Go(t, "init", "header") /\ writer' = t
    /\ file' = [there |-> TRUE, header |-> -1, blocks |-> <<>>]
    /\ twice' = (twice \/ file.there)
    /\ UNCHANGED <<file_rest, conv, cut>>

init_header(t) ==
    /\ alive /\ Go(t, "header", Checked(t)) /\ Unlock
    /\ file' = [file EXCEPT !.header = 0]
    /\ UNCHANGED <<file_rest, conv, cut, twice>>

cfile_load ==
    /\ Free
    /\ IF file.header >= 0 /\ Len(file.blocks) = file.header
       THEN Go("ui", "load", "loop") /\ screen' = file.blocks
       ELSE Go("ui", "load", "failed") /\ UNCHANGED screen
    /\ UNCHANGED <<file_rest, mode, new_messages, disk>>

(* The header counts the message before it is there, and also when the read of *)
(* the last code behind it fails.                                              *)
cfile_add(t) ==
    /\ Free
    /\ \/ file.header = -1 /\ Go(t, "add", Failed(t)) /\ UNCHANGED <<writer, file>>
       \/ /\ file.header >= 0
          /\ file' = [file EXCEPT !.header = @ + 1]
          /\ IF Len(file.blocks) < file.header
             THEN Go(t, "add", Failed(t)) /\ UNCHANGED writer
             ELSE Go(t, "add", "block") /\ writer' = t
    /\ UNCHANGED <<file_rest, conv, cut, twice>>

Show(t) == screen' = IF t = "ui" THEN Append(screen, msg[t]) ELSE screen

(* Variant: written over the last one.                                         *)
add_block_OverLast(t) ==
    /\ alive /\ Go(t, "block", Done(t)) /\ Unlock
    /\ file' = [file EXCEPT !.blocks =
                    Append(IF @ = <<>> THEN @ ELSE Front(@), msg[t])]
    /\ Show(t) /\ msg' = IF t = "ui" THEN [msg EXCEPT !.ui = None] ELSE msg
    /\ UNCHANGED <<client, net, peer, own, nonces, mode, new_messages, cut,
                   twice>>

(* ... and the user interface has its own message on the screen.               *)
add_block(t) ==
    /\ alive /\ Go(t, "block", Done(t)) /\ Unlock
    /\ file' = [file EXCEPT !.blocks = Append(@, msg[t])]
    /\ Show(t) /\ msg' = IF t = "ui" THEN [msg EXCEPT !.ui = None] ELSE msg
    /\ UNCHANGED <<client, net, peer, own, nonces, mode, new_messages, cut,
                   twice>>

file_step(t) ==
    cfile_check(t) \/ cfile_init(t) \/ init_header(t) \/ cfile_add(t) \/ add_block(t)

-------------------------------------------------------------------------------
(* The user interface: start_conversation.                                     *)

ui_rest == <<net, peer, nonces, disk>>

(* Between two turns of the menu the connection and stop are looked at.        *)
handle_user ==
    /\ Free
    /\ IF linked /\ ~stop
       THEN Go("ui", "turn", "menu") /\ UNCHANGED mode
       ELSE Go("ui", "turn", "left") /\ mode' = -1
    /\ UNCHANGED <<ui_rest, client, own, new_messages, screen, msg>>

(* The menu waits while the mode is 0, which may change before it is set.      *)
select ==
    /\ Free /\ mode = 0
    /\ Go("ui", "menu", "open")
    /\ UNCHANGED <<ui_rest, client, own, conv, msg>>

menu_ends ==
    /\ Free /\ mode # 0 /\ Go("ui", "menu", "turn")
    /\ UNCHANGED <<ui_rest, client, own, conv, msg>>

start_conversation ==
    /\ Free /\ Go("ui", "open", "check")
    /\ new_messages' = <<>> /\ mode' = 1
    /\ UNCHANGED <<ui_rest, client, own, screen, msg>>

type ==
    /\ alive /\ Go("ui", "loop", "send")
    /\ texts < MaxTexts /\ texts' = texts + 1
    /\ msg' = [msg EXCEPT !.ui = Own(texts + 1)]
    /\ UNCHANGED <<ui_rest, client, conv, out, on_server, lost>>

(* background_thread keeps net_lock while it handles a message.                *)
NetFree == pc.bg \in {"recv", "end", "ended"}

(* Variant: stored, then sent.                                                 *)
cmessage_send_server_Later ==
    /\ Free /\ NetFree /\ Go("ui", "send", "check")
    /\ UNCHANGED <<ui_rest, client, own, conv, msg>>

(* send_message only queues: it does not fail when the connection has been     *)
(* lost, and the queue is not sent any more.                                   *)
cmessage_send_server ==
    /\ Free /\ NetFree
    /\ IF mode # -1
       THEN /\ Go("ui", "send", "check")
            /\ out' = (IF linked THEN out \cup {msg.ui.n} ELSE out)
            /\ lost' = (IF linked THEN lost ELSE lost \cup {msg.ui.n})
       ELSE Go("ui", "send", "failed") /\ UNCHANGED <<out, lost>>
    /\ UNCHANGED <<ui_rest, client, texts, on_server, conv, msg>>

(* After what was typed, and whenever the time for input has passed.  A list   *)
(* that is not empty is linked to the last message on the screen.              *)
merge ==
    /\ Free /\ pc.ui \in {"loop", "merge"}
    /\ IF new_messages # <<>> /\ screen = <<>>
       THEN Stopped
       ELSE /\ Go("ui", pc.ui, "loop")
            /\ screen' = screen \o Reverse(new_messages) /\ new_messages' = <<>>
            /\ UNCHANGED <<ui_rest, client, own, mode, msg>>

Leave ==
    /\ Free /\ mode' = 0 /\ screen' = <<>>
    /\ msg' = [msg EXCEPT !.ui = None]
    /\ UNCHANGED <<ui_rest, alive, linked, run, own, new_messages>>

exit == Go("ui", "loop", "turn") /\ Leave /\ UNCHANGED stop

(* A conversation that failed ends the client.                                 *)
fail == Go("ui", "failed", "turn") /\ Leave /\ stop' = TRUE

-------------------------------------------------------------------------------
(* background_thread.                                                          *)

bg_rest == <<peer, own, screen, disk, saved>>

recv_message ==
    /\ Free /\ mode # -1 /\ pc.bg = "recv"
    /\ IF linked
       THEN /\ in # <<>> /\ Go("bg", "recv", "parse")
            /\ msg' = [msg EXCEPT !.bg = Head(in)] /\ in' = Tail(in)
            /\ UNCHANGED mode
       ELSE mode' = -1 /\ UNCHANGED <<pc, msg, in>>
    /\ UNCHANGED <<bg_rest, client, session, loaded, stored, absent, new_messages,
                   seen>>

(* A connection that was lost meanwhile is noticed before the message is read. *)
Notice == IF linked THEN UNCHANGED mode ELSE Free /\ mode' = -1

(* Variant: r_nonce is the number that must come next.                         *)
parse_conv_message_payload_Next ==
    /\ alive /\ pc.bg = "parse" /\ Notice
    /\ \/ /\ msg.bg.nonce <= r_nonce /\ Go("bg", "parse", "recv")
          /\ msg' = [msg EXCEPT !.bg = None] /\ UNCHANGED r_nonce
       \/ /\ msg.bg.nonce > r_nonce /\ Go("bg", "parse", "check")
          /\ r_nonce' = msg.bg.nonce + 1 /\ msg' = [msg EXCEPT !.bg = Accepted(@)]
    /\ UNCHANGED <<bg_rest, client, net, new_messages, spoilt>>

(* Variant: any nonce will do.                                                 *)
parse_conv_message_payload_Any ==
    /\ alive /\ Go("bg", "parse", "check") /\ Notice
    /\ r_nonce' = msg.bg.nonce /\ msg' = [msg EXCEPT !.bg = Accepted(@)]
    /\ UNCHANGED <<bg_rest, client, net, new_messages, spoilt>>

(* The nonce is looked at and kept before the MAC is checked, and stays when   *)
(* the message was made with other keys.                                       *)
Drop == Go("bg", "parse", "recv") /\ msg' = [msg EXCEPT !.bg = None]
parse_conv_message_payload ==
    /\ alive /\ pc.bg = "parse" /\ Notice
    /\ \/ msg.bg.nonce <= r_nonce /\ Drop /\ UNCHANGED seen
       \/ /\ msg.bg.nonce > r_nonce /\ r_nonce' = msg.bg.nonce
          /\ \/ msg.bg.first /\ Go("bg", "parse", "check")
                /\ msg' = [msg EXCEPT !.bg = Accepted(@)] /\ UNCHANGED spoilt
             \/ ~msg.bg.first /\ Drop /\ spoilt' = msg.bg.nonce
    /\ UNCHANGED <<bg_rest, client, net, new_messages>>

(* Variant: the list begins anew.                                              *)
parse_conv_message_Alone ==
    /\ Free /\ Go("bg", "push", "recv")
    /\ new_messages' = IF mode = 1 THEN <<msg.bg>> ELSE new_messages
    /\ msg' = [msg EXCEPT !.bg = None]
    /\ UNCHANGED <<bg_rest, client, net, mode, seen>>

(* The message is in the file; it is shown if the conversation is open.        *)
parse_conv_message ==
    /\ Free /\ Go("bg", "push", "recv")
    /\ new_messages' = IF mode = 1 THEN <<msg.bg>> \o new_messages ELSE new_messages
    /\ msg' = [msg EXCEPT !.bg = None]
    /\ UNCHANGED <<bg_rest, client, net, mode, seen>>

(* The thread ends when the mode says so, or a message could not be stored.    *)
bg_end ==
    /\ Free
    /\ \/ Go("bg", "end", "ended")
       \/ mode = -1 /\ Go("bg", "recv", "ended")
    /\ stop' = TRUE /\ mode' = -1 /\ msg' = [msg EXCEPT !.bg = None]
    /\ UNCHANGED <<bg_rest, alive, linked, run, net, new_messages, seen>>

(* add_friend, of either thread and for another friend: the whole friend file  *)
(* is written, the number of a message in background_thread's hands included.  *)
add_friend ==
    /\ Free /\ (pc.ui = "menu" \/ pc.bg = "recv")
    /\ run < MaxRuns /\ saved # r_nonce /\ saved' = r_nonce
    /\ UNCHANGED <<peer, own, client, net, conv, disk, seen, pc, msg>>

-------------------------------------------------------------------------------
(* The program and its connection.                                             *)

(* The connection handler writes what is queued, and the server reads it.      *)
transmit ==
    /\ linked
    /\ \E n \in out : out' = out \ {n} /\ on_server' = on_server \cup {n}
    /\ UNCHANGED <<client, net, peer, texts, lost, conv, nonces, disk, pc, msg>>

lose ==
    /\ linked /\ linked' = FALSE /\ in' = <<>> /\ Unsent
    /\ UNCHANGED <<alive, run, stop, session, loaded, stored, absent, peer,
                   conv, nonces, disk, pc, msg>>

(* The process ends, at any point.                                             *)
crash == alive /\ Stopped

(* Started and logged in: the session is in the table, and then loads.         *)
start ==
    /\ ~alive /\ session = "none" /\ run < MaxRuns
    /\ alive' = TRUE /\ linked' = TRUE /\ run' = run + 1 /\ session' = "loads"
    /\ pc' = [ui |-> "turn", bg |-> "recv"]
    /\ UNCHANGED <<stop, in, loaded, stored, absent, peer, own, conv, nonces, disk,
                   msg>>

-------------------------------------------------------------------------------
(* The server: the session of this client, and handle_message of the friend's. *)

server_rest == <<client, peer, own, conv, nonces, disk, pc, msg>>

undel_load ==
    /\ session = "loads" /\ session' = "serves"
    /\ loaded' = stored /\ stored' = <<>>
    /\ UNCHANGED <<in, absent, server_rest>>

send_undelivered ==
    /\ linked /\ loaded # <<>>
    /\ in' = Append(in, Head(loaded)) /\ loaded' = Tail(loaded)
    /\ UNCHANGED <<session, stored, absent, server_rest>>

(* The session ends when its connection has; what it had loaded goes with it.  *)
end_session ==
    /\ session = "serves" /\ ~linked
    /\ session' = "none" /\ loaded' = <<>>
    /\ UNCHANGED <<in, stored, absent, server_rest>>

Message == [from |-> "friend", n |-> sent + 1, nonce |-> s_nonce + 1, epoch |-> epoch,
            kept |-> session = "none", reused |-> s_nonce < highest, first |-> TRUE]

(* get_handler: to the session, whose connection may be gone; or to the file.  *)
Pass(m) ==
    /\ sent < MaxIncoming /\ sent' = sent + 1 /\ absent = <<>>
    /\ IF session = "none"
       THEN absent' = <<m>> /\ UNCHANGED in
       ELSE in' = (IF linked THEN Append(in, m) ELSE in) /\ UNCHANGED absent
    /\ UNCHANGED <<session, loaded, stored, s_saved, epoch, client, own, conv,
                   nonces, disk, pc, msg>>
handle_message ==
    /\ Pass(Message)
    /\ s_nonce' = s_nonce + 1 /\ highest' = Max({highest, s_nonce + 1})

(* The same of a message made with the second entry, whose nonces have been    *)
(* counted apart.                                                              *)
Second(k) == [Message EXCEPT !.nonce = k, !.first = FALSE]
handle_second ==
    /\ \E k \in 1 .. MaxIncoming : Pass(Second(k))
    /\ UNCHANGED <<s_nonce, highest>>

undel_add_message ==
    /\ absent # <<>>
    /\ stored' = stored \o absent /\ absent' = <<>>
    /\ UNCHANGED <<in, session, loaded, server_rest>>

friend_rest == <<client, net, own, conv, nonces, disk, pc, msg, sent, highest>>

(* Nothing depends on his nonces after his last message, nor on a restart that *)
(* leaves them as they are.                                                    *)
friend_adds_friend ==
    /\ sent < MaxIncoming /\ epoch <= MaxRestarts
    /\ s_saved # s_nonce /\ s_saved' = s_nonce
    /\ UNCHANGED <<friend_rest, s_nonce, epoch>>

friend_restarts ==
    /\ sent < MaxIncoming /\ epoch <= MaxRestarts /\ s_saved # s_nonce
    /\ epoch' = epoch + 1 /\ s_nonce' = s_saved
    /\ UNCHANGED <<friend_rest, s_saved>>

-------------------------------------------------------------------------------
user_interface ==
    \/ file_step("ui") \/ start_conversation \/ cfile_load \/ cmessage_send_server
    \/ merge \/ fail \/ handle_user \/ menu_ends
background_thread ==
    \/ file_step("bg") \/ recv_message \/ parse_conv_message_payload
    \/ parse_conv_message \/ bg_end
user == select \/ type \/ exit
server ==
    undel_load \/ send_undelivered \/ end_session \/ handle_message
    \/ handle_second \/ undel_add_message

Next ==
    \/ user_interface \/ background_thread \/ user \/ server
    \/ add_friend \/ transmit \/ lose \/ crash \/ start
    \/ friend_adds_friend \/ friend_restarts

Spec == Init /\ [][Next]_vars

Fairness ==
    /\ SF_vars(user_interface) /\ SF_vars(background_thread)
FairSpec == Spec /\ Fairness

-------------------------------------------------------------------------------
UiPlace == {"turn", "left", "menu", "open", "check", "init", "header", "load", "loop",
            "send", "add", "block", "merge", "failed", "stopped"}
BgPlace == {"recv", "parse", "check", "init", "header", "add", "block", "push", "end",
            "ended", "stopped"}
TypeOK ==
    /\ {alive, linked, stop, cut, twice} \subseteq BOOLEAN
    /\ pc.ui \in UiPlace /\ pc.bg \in BgPlace
    /\ mode \in {-1, 0, 1} /\ writer \in Thread \cup {"nobody"}
    /\ file.there \in BOOLEAN /\ file.header \in Int
    /\ {run, sent, texts, epoch, s_nonce, r_nonce, spoilt} \subseteq Nat
    /\ session \in {"none", "loads", "serves"}

(* Nobody reads or writes the file while it is in parts: its header counts the *)
(* messages it has, unless the program stopped within a write.  A message of   *)
(* one's own is in the file only once it was queued (cmessage_send): it is     *)
(* with the server or on its way, or a connection ended with it.               *)
FileWhole ==
    /\ \A t \in Thread : writer = t <=> pc[t] \in {"header", "block"}
    /\ writer = "nobody" /\ file.there /\ ~cut => file.header = Len(file.blocks)
OwnAreSent ==
    \A b \in ToSet(file.blocks) : b.from = "me" => b.n \in on_server \cup out \cup lost
ConvInv == TypeOK /\ FileWhole /\ OwnAreSent

(* While a conversation is on the screen, every message in its file is shown,  *)
(* or is received and about to be shown: none falls between the reading of the *)
(* file and the list new_messages (start_conversation, parse_conv_message).    *)
OnScreen == pc.ui \in {"loop", "send", "merge"} \/ msg.ui # None
ScreenComplete ==
    OnScreen /\ mode = 1 =>
        \A b \in ToSet(file.blocks) :
            b \in ToSet(screen) \cup ToSet(new_messages) \cup {msg.bg}

(* Messages the friend sent in one run of his, and which were accepted in one  *)
(* run of this client, are in the file once and in his order, and first appear *)
(* on the screen in his order (those received while the conversation is opened *)
(* are read from the file and shown again).                                    *)
SameRuns(p, q) == /\ p.from = "friend" /\ q.from = "friend"
                  /\ p.run = q.run /\ p.epoch = q.epoch
FirstShown(j) == \A i \in 1 .. j - 1 : screen[i] # screen[j]
InOrder ==
    /\ \A i, j \in DOMAIN file.blocks :
           i < j /\ SameRuns(file.blocks[i], file.blocks[j])
               => file.blocks[i].n < file.blocks[j].n
    /\ \A i, j \in DOMAIN screen :
           i < j /\ SameRuns(screen[i], screen[j]) /\ FirstShown(j)
               => screen[i].n < screen[j].n \/ twice

(* parse_conv_message_payload throws a message of this entry away only if the  *)
(* server had stored it, so that a later one overtook it, if the friend had    *)
(* used the nonce before, or if a message whose MAC was wrong had left r_nonce *)
(* where it is or beyond: no loss of r_nonce, s_nonce or a connection does it. *)
WhyDiscarded ==
    [][pc.bg = "parse" /\ pc'.bg = "recv" /\ msg.bg.first
           => msg.bg.kept \/ msg.bg.reused \/ msg.bg.nonce <= spoilt]_vars

(* What is in the file stays there, over stops of the program and failures of  *)
(* cfile_add, unless both threads found no file and one begins it a second     *)
(* time after the other (cfile_check looks without the lock).                  *)
NothingForgotten == [][twice' # twice \/ IsPrefix(file.blocks, file'.blocks)]_vars

(* The friend's messages that are stored while the conversation is open appear,*)
(* all of them when no more come, unless the user leaves it or the program or  *)
(* its connection ends.                                                        *)
Unshown == {b \in ToSet(file.blocks) : b.from = "friend" /\ b \notin ToSet(screen)}
ShownSoon == (OnScreen /\ Unshown # {}) ~> (Unshown = {} \/ ~OnScreen \/ mode # 1)
===============================================================================
