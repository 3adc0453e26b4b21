-------------------------------- MODULE Delivery ------------------------------
(* server/client_handler.c: how a message reaches a user.  The handler threads *)
(* of other users look the user up (handle_message) and send to the session    *)
(* found, or add to the undelivered file; the user's own thread (client_handler*)
(* after auth_user) enters the table, then sends what the file holds, serves,  *)
(* and leaves the table.  Composes the table, as the map that HandlerTable     *)
(* implements, and the file as Undelivered describes it.                       *)
EXTENDS Undelivered

VARIABLES
    online,      \* the session in the handler table, 0 for none
    session,     \* the number of the user's last session
    opc,         \* where the user's thread is
    backlog,     \* what send_undelivered has still to send
    route,       \* each sender: nothing to send, or what get_handler returned
    sent,        \* the messages given to send_message, over all sessions
    lost         \* the messages a stop has found taken from the file and unsent

NoRoute == -1     \* nothing to send
NULL == 0         \* get_handler found no session

own == <<online, session, opc, backlog>>
dvars == <<vars, own, route, sent, lost>>

DInit ==
    /\ Init
    /\ online = NULL /\ session = 0 /\ opc = "off" /\ backlog = <<>>
    /\ route = [t \in Adder |-> NoRoute]
    /\ sent = <<>> /\ lost = {}

-------------------------------------------------------------------------------
(* A handler thread of another user: handle_message, case 0.                   *)

get_handler(t) ==
    /\ route[t] = NoRoute /\ nadds[t] < MaxAdds[t]
    /\ route' = [route EXCEPT ![t] = online]
    /\ UNCHANGED <<vars, own, sent, lost>>

(* t_hndl == NULL: undel_add_message; the user may have logged in since.       *)
store(t) ==
    /\ route[t] = NULL
    /\ undel_add_message(t)
    /\ route' = IF pc'[t] = "idle" THEN [route EXCEPT ![t] = NoRoute] ELSE route
    /\ UNCHANGED <<own, sent, lost>>

(* Variant: the message goes to the file as well.                              *)
send_live_AndStores(t) ==
    /\ route[t] \notin {NoRoute, NULL}
    /\ sent' = IF online = route[t] THEN Append(sent, <<t, nadds[t] + 1>>) ELSE sent
    /\ route' = [route EXCEPT ![t] = NULL]
    /\ UNCHANGED <<vars, own, lost>>

(* send_message with the handler found; no lock is held.  If that session has  *)
(* ended its handler is a dead stack frame: here the message is lost, which is *)
(* the mildest outcome.                                                        *)
send_live(t) ==
    /\ route[t] \notin {NoRoute, NULL}
    /\ nadds' = [nadds EXCEPT ![t] = @ + 1]
    /\ sent' = IF online = route[t] THEN Append(sent, <<t, nadds[t] + 1>>) ELSE sent
    /\ route' = [route EXCEPT ![t] = NoRoute]
    /\ UNCHANGED <<file, pc, m, seen, prev, loader, stops, added, taken, own, lost>>

handle_message(t) == get_handler(t) \/ store(t) \/ send_live(t)

-------------------------------------------------------------------------------
(* The user's own thread.                                                      *)

add_handler ==
    /\ opc = "off" /\ nloads < MaxLoads
    /\ session' = session + 1
    /\ online' = session + 1
    /\ opc' = "load"
    /\ UNCHANGED <<vars, backlog, route, sent, lost>>

(* send_undelivered: undel_load, whose failure is "an acceptable error" ...    *)
load ==
    /\ opc = "load"
    /\ undel_load
    /\ \/ /\ lpc' # "idle"
          /\ UNCHANGED <<opc, backlog>>
       \/ /\ lpc' = "idle"
          /\ opc' = "send"
          /\ backlog' = loaded          \* none, if undel_load has failed
    /\ UNCHANGED <<online, session, route, sent, lost>>

(* ... then a send_message for each.                                           *)
send_undelivered ==
    /\ opc = "send"
    /\ \/ /\ backlog # <<>>
          /\ sent' = Append(sent, Head(backlog))
          /\ backlog' = Tail(backlog)
          /\ UNCHANGED opc
       \/ /\ backlog = <<>>
          /\ opc' = "serving"
          /\ UNCHANGED <<sent, backlog>>
    /\ UNCHANGED <<vars, online, session, route, lost>>

(* client_handle_loop has seen the end of the connection: rem_handler.         *)
rem_handler ==
    /\ opc = "serving"
    /\ opc' = "off"
    /\ online' = NULL
    /\ UNCHANGED <<vars, session, backlog, route, sent, lost>>

client_handler == add_handler \/ load \/ send_undelivered \/ rem_handler

(* What has left the file and was not sent: the list in undel_load, and in     *)
(* send_undelivered.                                                           *)
InHand == (IF lpc = "init" THEN loaded ELSE <<>>) \o backlog

(* The server stops, wherever its threads are, and starts again.               *)
Restart ==
    /\ Crash
    /\ lost' = lost \cup ToSet(InHand)
    /\ online' = NULL /\ opc' = "off" /\ backlog' = <<>>
    /\ route' = [t \in Adder |-> NoRoute]
    /\ UNCHANGED <<session, sent>>

DNext == (\E t \in Adder : handle_message(t)) \/ client_handler \/ Restart

DSpec == DInit /\ [][DNext]_dvars

(* Every thread goes on, and the user comes back after each session.           *)
FairDSpec ==
    /\ DSpec
    /\ WF_dvars(client_handler)
    /\ \A t \in Adder : SF_dvars(store(t)) /\ WF_dvars(send_live(t))

-------------------------------------------------------------------------------
DTypeOK ==
    /\ TypeOK
    /\ online \in {0, session} /\ session \in 0 .. MaxLoads + MaxCrashes
    /\ opc \in {"off", "load", "send", "serving"}
    /\ backlog \in Seq(Message) /\ sent \in Seq(Message) /\ lost \subseteq Message
    /\ route \in [Adder -> NoRoute .. session]

(* No message is sent twice, be it live or from the file, or once each way:    *)
(* even when calls overlap, and across restarts.                               *)
SentOnce == \A i, j \in DOMAIN sent : sent[i] = sent[j] => i = j

(* Where a message that was accepted is, when calls on the file do not overlap:*)
(* in exactly one place, unless the server has stopped after undel_load has    *)
(* emptied the file of it and before the loop of send_undelivered has sent it. *)
Places == Stored \o InHand \o sent
OnePlace ==
    ~overlap => \A x \in added :
        IF x \in lost THEN ~Contains(Places, x)
        ELSE \E i \in DOMAIN Places : \A j \in DOMAIN Places : Places[j] = x <=> j = i

DeliveryInv == DTypeOK /\ SentOnce /\ OnePlace

(* What the file accepts is sent at a later login, even if it was accepted     *)
(* while the user was logging in, unless the server stops with the message in  *)
(* hand or with the file half written.  MaxLoads bounds the logins, and each   *)
(* stop may spoil one: one must be left after those.                           *)
AcceptedIsSent ==
    \A x \in Message :
        (~overlap /\ x \in added /\ nloads + MaxCrashes - ncrashes < MaxLoads)
            ~> (Contains(sent, x) \/ x \in lost \/ cut)
===============================================================================
