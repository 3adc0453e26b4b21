-------------------------------- MODULE Session -------------------------------
(* A connection from accept to the first message: client_handler of server/    *)
(* client_handler.c with the gate (HandshakeGate), server_handshake and        *)
(* auth_user on one side, create_account or login_account with                 *)
(* client_handshake on the other.                                              *)
(*                                                                             *)
(* The connection is a channel each way, as Protocol implements it: when it    *)
(* has ended a wait returns NULL although messages may still be queued.  An    *)
(* end that gives up closes it in the same step: nobody sees the difference.   *)
(* The user database and the handler table are the maps UserSet and HandlerMap *)
(* that UserDb and HandlerTable implement.                                     *)
(* Ends do what the source says: keys, hashes and signatures check.  Any wait  *)
(* with a time limit may run out.                                              *)
EXTENDS HandshakeGate, Sequences

CONSTANTS
    Name, Key,
    None,             \* no key, no connection
    Accounts          \* the accounts the clients may have: name, key, and
                      \* whether the client has just created it

ASSUME SessionAssumption ==
    /\ Accounts \subseteq [Conn -> [name : Name, key : Key, create : BOOLEAN]]
    /\ None \notin Key \cup Conn

ASSUME AnswerAssumption == None \notin {"client key", "response", "register"}

VARIABLES
    acc,              \* each client's account
    users,            \* user_db: the key of each user
    handler,          \* ht: the connection of each user who is logged in
    at,               \* where client_handler is, but for the gate
    cpc,              \* where the client is
    toServer, toClient,
    closed            \* the connection has ended

server == <<users, handler, at>>
link == <<toServer, toClient, closed>>
session_vars == <<acc, server, cpc, link>>

SessionInit ==
    /\ Init
    /\ acc \in Accounts
    /\ users \in [Name -> Key \cup {None}]
    /\ handler = [u \in Name |-> None]
    /\ at = [c \in Conn |-> "init"]
    /\ cpc = [c \in Conn |-> "init"]
    /\ toServer = [c \in Conn |-> <<>>]
    /\ toClient = [c \in Conn |-> <<>>]
    /\ closed = [c \in Conn |-> FALSE]

name(c) == acc[c].name
key(c) == acc[c].key

sgoto(c, from, to) == at[c] = from /\ at' = [at EXCEPT ![c] = to]
cgoto(c, from, to) == cpc[c] = from /\ cpc' = [cpc EXCEPT ![c] = to]

Sent(queue, c, m) == queue' = [queue EXCEPT ![c] = Append(@, m)]
Received(queue, c, m) ==
    /\ queue[c] # <<>> /\ Head(queue[c]) = m
    /\ queue' = [queue EXCEPT ![c] = Tail(@)]

-------------------------------------------------------------------------------
(* client_handler, on the server.                                              *)

send_init(c) ==
    /\ pc[c] = "handshake"
    /\ sgoto(c, "init", "client_m")
    /\ Sent(toClient, c, "initiate")
    /\ UNCHANGED <<acc, users, handler, cpc, toServer, closed>>

(* server_handshake from its wait on; the wait lasts ten seconds.              *)
server_handshake(c) ==
    /\ \/ /\ sgoto(c, "client_m", "shaken")
          /\ Received(toServer, c, "client key")
          /\ Sent(toClient, c, "server key")
       \/ sgoto(c, "client_m", "failed") /\ UNCHANGED <<toServer, toClient>>
    /\ UNCHANGED <<acc, users, handler, cpc, closed>>

(* Variant: the socket of a session that ends stays open.                      *)
ch_cleanup_end_handler_LeavesOpen(c) ==
    /\ at' = [at EXCEPT ![c] = "ended"]
    /\ toServer' = [toServer EXCEPT ![c] = <<>>]
    /\ UNCHANGED closed

(* The end of client_handler, whatever led to it.                              *)
ch_cleanup_end_handler(c) ==
    /\ at' = [at EXCEPT ![c] = "ended"]
    /\ toServer' = [toServer EXCEPT ![c] = <<>>]
    /\ closed' = [closed EXCEPT ![c] = TRUE]

handshake_failed(c) ==
    /\ pc[c] = "done" /\ at[c] = "failed"
    /\ ch_cleanup_end_handler(c)
    /\ UNCHANGED <<acc, users, handler, cpc, toClient>>

(* auth_user.                                                                  *)
send_challenge(c) ==
    /\ pc[c] = "done"
    /\ sgoto(c, "shaken", "response")
    /\ Sent(toClient, c, "challenge")
    /\ UNCHANGED <<acc, users, handler, cpc, toServer, closed>>

(* A wait without limit, in auth_user and in prompt_user_register.             *)
Awaited(c, from, to, m) ==
    /\ \/ sgoto(c, from, to) /\ Received(toServer, c, m) /\ UNCHANGED closed
       \/ closed[c] /\ at[c] = from /\ ch_cleanup_end_handler(c)
    /\ UNCHANGED <<acc, users, handler, cpc, toClient>>

get_response(c) == Awaited(c, "response", "check_user", "response")
prompt_user_register(c) == Awaited(c, "prompt", "user_db_add", "register")

(* The answer to the client; 2 and 3 are refusals.                             *)
Verdict(c, ret, to) ==
    /\ Sent(toClient, c, ret)
    /\ \/ ret \in {0, 1} /\ at' = [at EXCEPT ![c] = to] /\ UNCHANGED <<toServer, closed>>
       \/ ret \in {2, 3} /\ ch_cleanup_end_handler(c)
    /\ UNCHANGED <<acc, users, handler, cpc>>

(* check_user: the database ...                                                *)
check_key(c) ==
    /\ at[c] = "check_user"
    /\ \/ users[name(c)] = None /\ Verdict(c, 1, "prompt")
       \/ users[name(c)] \notin {None, key(c)} /\ Verdict(c, 3, "ended")
       \/ /\ users[name(c)] = key(c)
          /\ at' = [at EXCEPT ![c] = "check_handler"]
          /\ UNCHANGED <<acc, users, handler, cpc, link>>

(* ... and the table.                                                          *)
check_handler(c) ==
    /\ at[c] = "check_handler"
    /\ \/ handler[name(c)] # None /\ Verdict(c, 2, "ended")
       \/ handler[name(c)] = None /\ Verdict(c, 0, "add_handler")

(* Variant: the database does not look for the user again.                     *)
user_db_add_NoCheck(c) ==
    /\ sgoto(c, "user_db_add", "add_handler")
    /\ users' = [users EXCEPT ![name(c)] = key(c)]
    /\ UNCHANGED <<acc, handler, cpc, link>>

user_db_add(c) ==
    /\ \/ /\ users[name(c)] = None
          /\ sgoto(c, "user_db_add", "add_handler")
          /\ users' = [users EXCEPT ![name(c)] = key(c)]
          /\ UNCHANGED <<toServer, closed>>
       \/ /\ users[name(c)] # None /\ at[c] = "user_db_add"
          /\ ch_cleanup_end_handler(c)
          /\ UNCHANGED users
    /\ UNCHANGED <<acc, handler, cpc, toClient>>

(* Variant: the table does not look for the user again.                        *)
add_handler_NoCheck(c) ==
    /\ sgoto(c, "add_handler", "client_handle_loop")
    /\ handler' = [handler EXCEPT ![name(c)] = c]
    /\ UNCHANGED <<acc, users, cpc, link>>

add_handler(c) ==
    /\ \/ /\ handler[name(c)] = None
          /\ sgoto(c, "add_handler", "client_handle_loop")
          /\ handler' = [handler EXCEPT ![name(c)] = c]
          /\ UNCHANGED <<toServer, closed>>
       \/ /\ handler[name(c)] # None /\ at[c] = "add_handler"
          /\ ch_cleanup_end_handler(c)
          /\ UNCHANGED handler
    /\ UNCHANGED <<acc, users, cpc, toClient>>

(* Variant: the cleanup forgets the table.                                     *)
ht_cleanup_end_handler_Forgets(c) ==
    /\ closed[c] /\ at[c] = "client_handle_loop"
    /\ ch_cleanup_end_handler(c)
    /\ UNCHANGED <<acc, users, handler, cpc, toClient>>

(* The loop ends with the connection.                                          *)
ht_cleanup_end_handler(c) ==
    /\ closed[c] /\ at[c] = "client_handle_loop"
    /\ handler' = [handler EXCEPT ![name(c)] = None]
    /\ ch_cleanup_end_handler(c)
    /\ UNCHANGED <<acc, users, cpc, toClient>>

client_handler(c) ==
    \/ send_init(c) \/ server_handshake(c) \/ handshake_failed(c)
    \/ send_challenge(c) \/ get_response(c)
    \/ check_key(c) \/ check_handler(c)
    \/ prompt_user_register(c) \/ user_db_add(c) \/ add_handler(c)
    \/ ht_cleanup_end_handler(c)

(* The gate's steps; the place is given back when server_handshake returns,    *)
(* with whatever result.                                                       *)
HandshakeDone(c) == pc[c] = "handshake" => at[c] \in {"shaken", "failed"}

-------------------------------------------------------------------------------
(* The client.                                                                 *)

(* The connection is given up.                                                 *)
cleanup_server_connection(c) ==
    /\ cpc' = [cpc EXCEPT ![c] = "left"]
    /\ toClient' = [toClient EXCEPT ![c] = <<>>]
    /\ closed' = [closed EXCEPT ![c] = TRUE]

(* A wait for message m: when it comes, answer (None if there is nothing to    *)
(* say); the wait may end without it if the connection has ended or, limited,  *)
(* if the time is over.                                                        *)
Exchange(c, from, to, m, answer, limited) ==
    /\ \/ /\ cgoto(c, from, to)
          /\ Received(toClient, c, m)
          /\ IF answer = None THEN UNCHANGED toServer ELSE Sent(toServer, c, answer)
          /\ UNCHANGED closed
       \/ /\ limited \/ closed[c]
          /\ cpc[c] = from
          /\ cleanup_server_connection(c)
          /\ UNCHANGED toServer
    /\ UNCHANGED <<acc, server>>

(* An answer that ends it.                                                     *)
Refused(c, from, ret) ==
    /\ cpc[c] = from
    /\ toClient[c] # <<>> /\ Head(toClient[c]) = ret
    /\ cleanup_server_connection(c)
    /\ UNCHANGED <<acc, server, toServer>>

Leave(c, from) ==
    /\ cpc[c] = from
    /\ cleanup_server_connection(c)
    /\ UNCHANGED <<acc, server, toServer>>

(* client_handshake: first as long as it takes, then ten seconds.              *)
get_init(c) == Exchange(c, "init", "server_m", "initiate", "client key", FALSE)
get_server_key(c) == Exchange(c, "server_m", "verify", "server key", None, TRUE)

(* The user trusts the server's key or not.                                    *)
prompt_verify_skey(c) ==
    \/ cgoto(c, "verify", "challenge") /\ UNCHANGED <<acc, server, link>>
    \/ Leave(c, "verify")

send_login_message(c) ==
    Exchange(c, "challenge", "authresponse", "challenge", "response", FALSE)

(* get_server_authresponse, five seconds, and what is made of the answer.      *)
login_account(c) ==
    /\ ~acc[c].create
    /\ \/ Exchange(c, "authresponse", "in", 0, None, TRUE)
       \/ Exchange(c, "authresponse", "register?", 1, None, TRUE)
       \/ \E ret \in {2, 3} : Refused(c, "authresponse", ret)

create_account(c) ==
    /\ acc[c].create
    /\ \/ Exchange(c, "authresponse", "in", 1, "register", TRUE)
       \/ \E ret \in {0, 2, 3} : Refused(c, "authresponse", ret)

(* login_account asks the user before it registers.                            *)
prompt_register(c) ==
    \/ /\ cgoto(c, "register?", "in") /\ Sent(toServer, c, "register")
       /\ UNCHANGED <<acc, server, toClient, closed>>
    \/ Leave(c, "register?")

(* The client runs until its connection ends.                                  *)
handle_user(c) == closed[c] /\ Leave(c, "in")

client(c) ==
    \/ get_init(c) \/ get_server_key(c) \/ prompt_verify_skey(c)
    \/ send_login_message(c) \/ login_account(c) \/ create_account(c)
    \/ prompt_register(c) \/ handle_user(c)

(* The client's process ends, or its network does, at any point.               *)
Lose(c) == cpc[c] # "left" /\ Leave(c, cpc[c])

-------------------------------------------------------------------------------
SessionNext ==
    \E c \in Conn :
        \/ /\ client_handler_handshake(c) \/ SpuriousWakeup(c)
           /\ HandshakeDone(c)
           /\ UNCHANGED session_vars
        \/ client_handler(c) /\ UNCHANGED vars
        \/ (client(c) \/ Lose(c)) /\ UNCHANGED vars

all_vars == <<vars, session_vars>>

SessionSpec == SessionInit /\ [][SessionNext]_all_vars

(* Each thread goes on once it is past the gate, and each user answers; nobody *)
(* has to leave.                                                               *)
FairSession ==
    /\ SessionSpec
    /\ \A c \in Conn :
          /\ WF_all_vars(client_handler(c) /\ UNCHANGED vars)
          /\ WF_all_vars(client(c) /\ UNCHANGED vars)

-------------------------------------------------------------------------------
Dead == {"failed", "ended"}
At == {"init", "client_m", "shaken", "response", "check_user", "check_handler",
       "prompt", "user_db_add", "add_handler", "client_handle_loop"} \cup Dead
Message == {"initiate", "client key", "server key", "challenge", "response",
            0, 1, 2, 3, "register"}

SessionTypeOK ==
    /\ acc \in Accounts
    /\ users \in [Name -> Key \cup {None}]
    /\ handler \in [Name -> Conn \cup {None}]
    /\ at \in [Conn -> At]
    /\ cpc \in [Conn -> {"init", "server_m", "verify", "challenge", "authresponse",
                         "register?", "in", "left"}]
    /\ \A c \in Conn : Len(toServer[c]) <= 1 /\ Len(toClient[c]) <= 2
    /\ closed \in [Conn -> BOOLEAN]

(* Whoever is in the table under a name holds the key that the database has    *)
(* for it, and its thread is in the loop that ends with its removal.           *)
OnlineHoldsKey ==
    /\ \A c \in Conn, u \in Name : handler[u] = c =>
          name(c) = u /\ users[u] = key(c) /\ at[c] = "client_handle_loop"
    /\ \A c \in Conn : at[c] = "client_handle_loop" => handler[name(c)] = c
    /\ \A c \in Conn :
          at[c] \in {"check_handler", "add_handler"} => users[name(c)] = key(c)

Awaits(c) ==
    CASE at[c] = "client_m" -> "client key"
      [] at[c] = "response" -> "response"
      [] at[c] = "prompt"   -> "register"
      [] OTHER              -> None

(* Neither end reads a message it does not expect: what the client sends is    *)
(* what the server, however far it is, waits for, and a client believes to be  *)
(* logged in only after the server's answer.                                   *)
InStep ==
    \A c \in Conn :
        /\ at[c] \in Dead \/ toServer[c] = <<>> \/ Head(toServer[c]) = Awaits(c)
        /\ cpc[c] = "in" => at[c] \in {"prompt", "user_db_add", "add_handler",
                                       "client_handle_loop", "ended"}

SessionInv == SessionTypeOK /\ OnlineHoldsKey /\ InStep

(* A client that believes to be logged in is served, or its connection ends    *)
(* and it leaves: the server may still refuse it, when another connection was  *)
(* faster, and says so in no other way.                                        *)
ServedOrTold ==
    \A c \in Conn : cpc[c] = "in" ~> at[c] = "client_handle_loop" \/ cpc[c] = "left"

(* A name is free again after its connection has ended.                        *)
NameFreed ==
    \A c \in Conn, u \in Name : closed[c] ~> handler[u] # c

(* A name keeps its key, and only that key's holder acts for it, once at a     *)
(* time.                                                                       *)
Abstract == INSTANCE Logins
ImplementsLogins == Abstract!Spec
===============================================================================
