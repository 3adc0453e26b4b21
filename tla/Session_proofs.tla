----------------------------- MODULE Session_proofs ---------------------------
(* Proofs about Session: for any number of connections, clients and keys, only *)
(* the holder of a name's key acts for the name, one connection at a time; and  *)
(* about the gate before it, client_handler_handshake: for any number of places*)
(* no thread sleeps for want of a broadcast.                                   *)
EXTENDS Session, TLAPS

LEMMA GateInit == Init => GateInv
  BY GateAssumption
     DEF Init, GateInv, TypeOK, MutexOwner, WaitersWait, NoSleeperForgotten,
         Locked, PC

(* One step per action of a thread.                                            *)
LEMMA GateStep == GateInv /\ [Next]_vars => GateInv'
  <1> SUFFICES ASSUME GateInv, [Next]_vars PROVE GateInv'
    OBVIOUS
  <1> USE GateAssumption DEF GateInv, TypeOK, MutexOwner, WaitersWait,
                             NoSleeperForgotten, Inside, Locked, PC, goto, load
  <1>1. ASSUME NEW t \in Conn, Enter(t) PROVE GateInv'
    BY <1>1 DEF Enter, Lock
  <1>2. ASSUME NEW t \in Conn, Reenter(t) PROVE GateInv'
    BY <1>2 DEF Reenter, Lock
  <1>3. ASSUME NEW t \in Conn, Wait(t) PROVE GateInv'
    BY <1>3 DEF Wait
  <1>4. ASSUME NEW t \in Conn, Pass(t) PROVE GateInv'
    BY <1>4 DEF Pass
  <1>5. ASSUME NEW t \in Conn, IncLoad(t) PROVE GateInv'
    BY <1>5 DEF IncLoad
  <1>6. ASSUME NEW t \in Conn, IncStore(t) PROVE GateInv'
    BY <1>6 DEF IncStore
  <1>7. ASSUME NEW t \in Conn, LockRelease(t) PROVE GateInv'
    BY <1>7 DEF LockRelease, Lock
  <1>8. ASSUME NEW t \in Conn, DecLoad(t) PROVE GateInv'
    BY <1>8 DEF DecLoad
  <1>9. ASSUME NEW t \in Conn, DecStore(t) PROVE GateInv'
    BY <1>9 DEF DecStore
  <1>10. ASSUME NEW t \in Conn, Release(t) PROVE GateInv'
    BY <1>10 DEF Release
  <1>11. ASSUME NEW t \in Conn, SpuriousWakeup(t) PROVE GateInv'
    BY <1>11 DEF SpuriousWakeup
  <1>12. CASE UNCHANGED vars
    BY <1>12 DEF vars
  <1> QED
    BY <1>1, <1>2, <1>3, <1>4, <1>5, <1>6, <1>7, <1>8, <1>9, <1>10, <1>11,
       <1>12
       DEF Next, client_handler_handshake

(* Whatever the race on handshake_sem does to the count, while a thread sleeps *)
(* on hs_cond the count is at the maximum or some thread will broadcast.       *)
THEOREM NobodyForgotten == Spec => []GateInv
  <1>1. Init => GateInv
    BY GateInit
  <1>2. GateInv /\ [Next]_vars => GateInv'
    BY GateStep
  <1> QED
    BY <1>1, <1>2, PTL DEF Spec

-------------------------------------------------------------------------------
KeyInv ==
    /\ acc \in [Conn -> [name : Name, key : Key, create : BOOLEAN]]
    /\ users \in [Name -> Key \cup {None}]
    /\ handler \in [Name -> Conn \cup {None}]
    /\ at \in [Conn -> At]
    /\ OnlineHoldsKey

LEMMA KeyInit == SessionInit => KeyInv
  BY SessionAssumption DEF SessionInit, KeyInv, OnlineHoldsKey, At, Dead

LEMMA NameAndKey ==
    ASSUME KeyInv, NEW c \in Conn
    PROVE  name(c) \in Name /\ key(c) \in Key /\ key(c) # None /\ c # None
  BY SessionAssumption DEF KeyInv, name, key

(* What each step of the server does to the database and the table.            *)
Quiet == UNCHANGED <<users, handler>>
Registers(c) ==
    /\ users[name(c)] = None
    /\ users' = [users EXCEPT ![name(c)] = key(c)] /\ UNCHANGED handler
Enters(c) ==
    /\ at[c] = "add_handler" /\ handler[name(c)] = None
    /\ handler' = [handler EXCEPT ![name(c)] = c] /\ UNCHANGED users
    /\ at' = [at EXCEPT ![c] = "client_handle_loop"]
Leaves(c) ==
    /\ at[c] = "client_handle_loop"
    /\ handler' = [handler EXCEPT ![name(c)] = None] /\ UNCHANGED users

LEMMA Effect ==
    ASSUME KeyInv, NEW c \in Conn, client_handler(c)
    PROVE  UNCHANGED acc /\ (Quiet \/ Registers(c) \/ Enters(c) \/ Leaves(c))
  <1> USE DEF Quiet, sgoto
  <1>1. CASE send_init(c) \/ server_handshake(c) \/ handshake_failed(c)
               \/ send_challenge(c)
    BY <1>1 DEF send_init, server_handshake, handshake_failed, send_challenge
  <1>2. CASE get_response(c) \/ prompt_user_register(c)
    BY <1>2 DEF get_response, prompt_user_register, Awaited
  <1>3. CASE check_key(c) \/ check_handler(c)
    BY <1>3 DEF check_key, check_handler, Verdict
  <1>4. CASE user_db_add(c)
    BY <1>4 DEF user_db_add, Registers
  <1>5. CASE add_handler(c)
    BY <1>5 DEF add_handler, Enters
  <1>6. CASE ht_cleanup_end_handler(c)
    BY <1>6 DEF ht_cleanup_end_handler, Leaves
  <1> QED
    BY <1>1, <1>2, <1>3, <1>4, <1>5, <1>6 DEF client_handler

(* A step of one connection's thread on the server.                            *)
LEMMA ServerStep ==
    ASSUME KeyInv, NEW c \in Conn, client_handler(c)
    PROVE  KeyInv'
  <1> USE DEF sgoto
  <1>0. /\ name(c) \in Name /\ key(c) \in Key /\ key(c) # None /\ c # None
        /\ \A d \in Conn : name(d) \in Name /\ key(d) \in Key /\ key(d) # None
    BY NameAndKey
  <1>1. acc' = acc /\ \A d \in Conn : name(d)' = name(d) /\ key(d)' = key(d)
    BY Effect DEF name, key
  <1>2. /\ at' \in [Conn -> At] /\ at' = [at EXCEPT ![c] = at'[c]]
        /\ \/ at'[c] \notin {"check_handler", "add_handler", "client_handle_loop"}
           \/ at'[c] \in {"check_handler", "add_handler"} /\ users'[name(c)] = key(c)
           \/ Enters(c)
        /\ at[c] = "client_handle_loop" => Leaves(c)
    <2> USE DEF KeyInv, At, Dead, ch_cleanup_end_handler
    <2>1. CASE send_init(c) \/ server_handshake(c)
      BY <2>1 DEF send_init, server_handshake
    <2>2. CASE handshake_failed(c) \/ send_challenge(c)
      BY <2>2 DEF handshake_failed, send_challenge
    <2>3. CASE get_response(c) \/ prompt_user_register(c)
      BY <2>3 DEF get_response, prompt_user_register, Awaited
    <2>4. CASE check_key(c)
      BY <2>4, <1>0 DEF check_key, Verdict
    <2>5. CASE check_handler(c)
      BY <2>5, <1>0 DEF check_handler, Verdict, OnlineHoldsKey
    <2>6. CASE user_db_add(c)
      BY <2>6, <1>0 DEF user_db_add
    <2>7. CASE add_handler(c)
      BY <2>7, <1>0 DEF add_handler, Enters
    <2>8. CASE ht_cleanup_end_handler(c)
      BY <2>8, <1>0 DEF ht_cleanup_end_handler, Leaves
    <2> QED
      BY <2>1, <2>2, <2>3, <2>4, <2>5, <2>6, <2>7, <2>8 DEF client_handler
  <1>3. Quiet \/ Registers(c) \/ Enters(c) \/ Leaves(c)
    BY Effect
  <1>4. users' \in [Name -> Key \cup {None}] /\ handler' \in [Name -> Conn \cup {None}]
    BY <1>0, <1>3 DEF KeyInv, Quiet, Registers, Enters, Leaves
  <1>5. \A d \in Conn : users[name(d)] = key(d) => users'[name(d)] = key(d)
    BY <1>0, <1>3 DEF KeyInv, Quiet, Registers, Enters, Leaves
  <1>6. OnlineHoldsKey'
    <2> USE DEF KeyInv, OnlineHoldsKey
    <2>1. ASSUME NEW d \in Conn, NEW u \in Name, handler'[u] = d
          PROVE  name(d) = u /\ users'[u] = key(d) /\ at'[d] = "client_handle_loop"
      <3>1. CASE Enters(c)
        BY <1>0, <1>2, <1>5, <2>1, <3>1 DEF Enters
      <3>2. CASE Leaves(c)
        BY <1>0, <1>2, <1>5, <2>1, <3>2, SessionAssumption DEF Leaves
      <3>3. CASE Quiet \/ Registers(c)
        BY <1>0, <1>2, <1>5, <2>1, <3>3, SessionAssumption
           DEF Quiet, Registers, Enters, Leaves
      <3> QED
        BY <1>3, <3>1, <3>2, <3>3
    <2>2. ASSUME NEW d \in Conn, at'[d] = "client_handle_loop"
          PROVE  handler'[name(d)] = d
      <3>1. CASE Enters(c)
        BY <1>0, <1>2, <2>2, <3>1, SessionAssumption DEF Enters
      <3>2. CASE Leaves(c)
        BY <1>0, <1>2, <2>2, <3>2 DEF Leaves, Enters
      <3>3. CASE Quiet \/ Registers(c)
        BY <1>0, <1>2, <2>2, <3>3 DEF Quiet, Registers, Enters, Leaves
      <3> QED
        BY <1>3, <3>1, <3>2, <3>3
    <2>3. ASSUME NEW d \in Conn, at'[d] \in {"check_handler", "add_handler"}
          PROVE  users'[name(d)] = key(d)
      BY <1>0, <1>2, <1>5, <2>3 DEF Enters
    <2> QED
      BY <1>1, <2>1, <2>2, <2>3
  <1> QED
    BY <1>1, <1>2, <1>4, <1>6 DEF KeyInv

(* The client's steps leave the server alone.                                  *)
LEMMA ClientStep ==
    ASSUME NEW c \in Conn, client(c) \/ Lose(c)
    PROVE  UNCHANGED <<acc, server>>
  <1> USE DEF Exchange, Refused, Leave
  <1>1. CASE get_init(c) \/ get_server_key(c) \/ prompt_verify_skey(c)
               \/ send_login_message(c)
    BY <1>1 DEF get_init, get_server_key, prompt_verify_skey, send_login_message
  <1>2. CASE login_account(c) \/ create_account(c)
    BY <1>2 DEF login_account, create_account
  <1>3. CASE prompt_register(c) \/ handle_user(c) \/ Lose(c)
    BY <1>3 DEF prompt_register, handle_user, Lose
  <1> QED
    BY <1>1, <1>2, <1>3 DEF client

LEMMA KeyStep == KeyInv /\ [SessionNext]_all_vars => KeyInv'
  <1> SUFFICES ASSUME KeyInv, [SessionNext]_all_vars PROVE KeyInv'
    OBVIOUS
  <1>1. ASSUME UNCHANGED <<acc, server>> PROVE KeyInv'
    BY <1>1 DEF server, KeyInv, OnlineHoldsKey, name, key
  <1>2. CASE UNCHANGED all_vars
    BY <1>1, <1>2 DEF all_vars, session_vars
  <1>3. CASE UNCHANGED session_vars
    BY <1>1, <1>3 DEF session_vars
  <1>4. ASSUME NEW c \in Conn, client_handler(c) PROVE KeyInv'
    BY <1>4, ServerStep
  <1>5. ASSUME NEW c \in Conn, client(c) \/ Lose(c) PROVE KeyInv'
    BY <1>1, <1>5, ClientStep
  <1> QED
    BY <1>2, <1>3, <1>4, <1>5 DEF SessionNext

(* Whoever acts for a name holds the key that the database has for it.         *)
THEOREM LoggedInHoldsKey == SessionSpec => []OnlineHoldsKey
  <1>1. KeyInv => OnlineHoldsKey
    BY DEF KeyInv
  <1> QED
    BY <1>1, KeyInit, KeyStep, PTL DEF SessionSpec

(* The server implements Logins: registration and login, with their checks     *)
(* made step by step and in several threads at once, are each a single step    *)
(* that never takes a name from its key or its connection.                     *)
THEOREM SessionImplementsLogins == SessionSpec => ImplementsLogins
  <1>1. SessionInit => Abstract!Init
    BY DEF SessionInit, Abstract!Init
  <1>2. KeyInv /\ [SessionNext]_all_vars => [Abstract!Next]_(Abstract!vars)
    <2> SUFFICES ASSUME KeyInv, [SessionNext]_all_vars
                 PROVE  [Abstract!Next]_(Abstract!vars)
      OBVIOUS
    <2>1. ASSUME NEW c \in Conn, client_handler(c)
          PROVE  [Abstract!Next]_(Abstract!vars)
      <3>1. UNCHANGED acc /\ (Quiet \/ Registers(c) \/ Enters(c) \/ Leaves(c))
        BY <2>1, Effect
      <3>2. CASE Quiet
        BY <3>1, <3>2 DEF Quiet, Abstract!vars
      <3>3. CASE Registers(c)
        BY <3>1, <3>3 DEF Registers, Abstract!Next, Abstract!Register, name, key
      <3>4. CASE Enters(c)
        BY <3>1, <3>4 DEF Enters, KeyInv, OnlineHoldsKey, Abstract!Next,
                          Abstract!Login, name, key
      <3>5. CASE Leaves(c)
        BY <3>1, <3>5 DEF Leaves, KeyInv, OnlineHoldsKey, Abstract!Next,
                          Abstract!Logout, name, key
      <3> QED
        BY <3>1, <3>2, <3>3, <3>4, <3>5
    <2>2. ASSUME NEW c \in Conn, client(c) \/ Lose(c) PROVE UNCHANGED Abstract!vars
      BY <2>2, ClientStep DEF server, Abstract!vars
    <2>3. CASE UNCHANGED session_vars \/ UNCHANGED all_vars
      BY <2>3 DEF all_vars, session_vars, server, Abstract!vars
    <2> QED
      BY <2>1, <2>2, <2>3 DEF SessionNext
  <1> QED
    BY <1>1, <1>2, KeyInit, KeyStep, PTL DEF SessionSpec, ImplementsLogins,
                                             Abstract!Spec

(* The gate's invariant survives what goes on behind it.                       *)
THEOREM NobodyForgottenInSession == SessionSpec => []GateInv
  <1>1. SessionInit => GateInv
    BY GateInit DEF SessionInit
  <1>2. GateInv /\ [SessionNext]_all_vars => GateInv'
    <2>1. [SessionNext]_all_vars => [Next]_vars
      BY DEF SessionNext, all_vars, Next
    <2> QED
      BY <2>1, GateStep
  <1> QED
    BY <1>1, <1>2, PTL DEF SessionSpec
-------------------------------------------------------------------------------
(* How far both ends of a connection are, and what is under way between them:  *)
(* while neither has given up; for a server whose client has left; and for a   *)
(* client whose server has ended.  p and a are the places of client and server,*)
(* ts and tc what is on its way to the server and to the client.               *)
Initiate == "initiate"
ClientKey == "client key"
ServerKey == "server key"
Challenge == "challenge"
Response == "response"
Register == "register"
Welcome == 0
Unknown == 1
Online == 2
WrongKey == 3
Nothing == <<>>
Just(m) == <<m>>
Two(m, n) == <<m, n>>

Together(p, a, ts, tc) ==
    \/ p = "init" /\ ts = Nothing /\ a = "init" /\ tc = Nothing
    \/ p = "init" /\ ts = Nothing /\ a = "client_m" /\ tc = Just(Initiate)
    \/ p = "server_m" /\ ts = Just(ClientKey) /\ a = "client_m" /\ tc = Nothing
    \/ p = "server_m" /\ ts = Nothing /\ a = "shaken" /\ tc = Just(ServerKey)
    \/ p = "server_m" /\ ts = Nothing /\ a = "response"
       /\ tc = Two(ServerKey, Challenge)
    \/ p \in {"verify", "challenge"} /\ ts = Nothing /\ a = "shaken" /\ tc = Nothing
    \/ p \in {"verify", "challenge"} /\ ts = Nothing /\ a = "response"
       /\ tc = Just(Challenge)
    \/ p = "authresponse" /\ ts = Just(Response) /\ a = "response" /\ tc = Nothing
    \/ p = "authresponse" /\ ts = Nothing /\ a \in {"check_user", "check_handler"}
       /\ tc = Nothing
    \/ p = "authresponse" /\ ts = Nothing /\ a = "prompt" /\ tc = Just(Unknown)
    \/ p = "authresponse" /\ ts = Nothing /\ a \in {"add_handler", "client_handle_loop"}
       /\ tc = Just(Welcome)
    \/ p = "register?" /\ ts = Nothing /\ a = "prompt" /\ tc = Nothing
    \/ p = "in" /\ ts = Just(Register) /\ a = "prompt" /\ tc = Nothing
    \/ p = "in" /\ ts = Nothing /\ tc = Nothing
       /\ a \in {"user_db_add", "add_handler", "client_handle_loop"}

ServerAlone(a, ts, tc) ==
    \/ a = "init" /\ ts = Nothing /\ tc = Nothing
    \/ a = "client_m" /\ ts = Nothing /\ Len(tc) <= 1
    \/ a = "client_m" /\ ts = Just(ClientKey) /\ tc = Nothing
    \/ a = "shaken" /\ ts = Nothing /\ Len(tc) <= 1
    \/ a = "response" /\ ts = Nothing /\ Len(tc) <= 2
    \/ a = "response" /\ ts = Just(Response) /\ tc = Nothing
    \/ a \in {"check_user", "check_handler"} /\ ts = Nothing /\ tc = Nothing
    \/ a = "prompt" /\ ts \in {Nothing, Just(Register)} /\ Len(tc) <= 1
    \/ a \in {"user_db_add", "add_handler", "client_handle_loop"} /\ ts = Nothing
       /\ Len(tc) <= 1

ClientAlone(p, a, ts, tc) ==
    \/ p = "init" /\ ts = Nothing /\ tc = Just(Initiate)
    \/ p = "server_m" /\ ts \in {Nothing, Just(ClientKey)} /\ tc = Nothing
    \/ p = "authresponse" /\ a = "ended" /\ ts = Nothing
       /\ tc \in {Just(Welcome), Just(Online), Just(WrongKey)}
    \/ p = "in" /\ a = "ended" /\ ts = Nothing /\ tc = Nothing

Both(p, a, ts, tc, cl) ==
    /\ p # "left" /\ a \notin Dead => ~cl /\ Together(p, a, ts, tc)
    /\ p = "left" /\ a \notin Dead => cl /\ ServerAlone(a, ts, tc)
    /\ p # "left" /\ a \in Dead =>
          (a = "ended" => cl) /\ ClientAlone(p, a, ts, tc)
    /\ Len(ts) <= 1 /\ Len(tc) <= 2
Pairs == \A c \in Conn : Both(cpc[c], at[c], toServer[c], toClient[c], closed[c])


CPlaces == {"init", "server_m", "verify", "challenge", "authresponse",
            "register?", "in", "left"}
LinkTypes ==
    /\ cpc \in [Conn -> CPlaces]
    /\ toServer \in [Conn -> Seq(Message)] /\ toClient \in [Conn -> Seq(Message)]
    /\ closed \in [Conn -> BOOLEAN]
PairInv == LinkTypes /\ Pairs

(* Any step changes what belongs to one connection.                            *)
Changes(f, c) == f' = [f EXCEPT ![c] = f'[c]]
ChangesAll(c) ==
    /\ Changes(cpc, c) /\ Changes(at, c) /\ Changes(toServer, c)
    /\ Changes(toClient, c) /\ Changes(closed, c)
RowTypes(c) ==
    /\ cpc[c] \in CPlaces /\ toServer[c] \in Seq(Message)
    /\ toClient[c] \in Seq(Message) /\ closed[c] \in BOOLEAN
Row(c) == Both(cpc[c], at[c], toServer[c], toClient[c], closed[c])

LEMMA OneRow ==
    ASSUME PairInv, KeyInv, NEW c \in Conn, ChangesAll(c), RowTypes(c)', Row(c)'
    PROVE  PairInv'
  <1>1. LinkTypes'
    BY DEF PairInv, LinkTypes, ChangesAll, Changes, RowTypes
  <1>2. ASSUME NEW d \in Conn
        PROVE  Both(cpc'[d], at'[d], toServer'[d], toClient'[d], closed'[d])
    <2>1. CASE d = c
      BY <2>1 DEF Row
    <2>2. CASE d # c
      <3>1. /\ cpc'[d] = cpc[d] /\ at'[d] = at[d] /\ toServer'[d] = toServer[d]
            /\ toClient'[d] = toClient[d] /\ closed'[d] = closed[d]
        BY <2>2 DEF PairInv, LinkTypes, KeyInv, ChangesAll, Changes
      <3> QED
        BY <3>1 DEF PairInv, Pairs
    <2> QED
      BY <2>1, <2>2
  <1> QED
    BY <1>1, <1>2 DEF PairInv, Pairs

(* A queue that a message is put into, or taken from.                          *)
LEMMA Messages ==
    /\ Initiate \in Message /\ ClientKey \in Message /\ ServerKey \in Message
    /\ Challenge \in Message /\ Response \in Message /\ Register \in Message
    /\ Welcome \in Message /\ Unknown \in Message /\ Online \in Message
    /\ WrongKey \in Message
  BY DEF Message, Initiate, ClientKey, ServerKey, Challenge, Response, Register,
         Welcome, Unknown, Online, WrongKey
LEMMA Verdicts ==
    /\ Welcome # Unknown /\ Online \notin {Welcome, Unknown}
    /\ WrongKey \notin {Welcome, Unknown}
  BY DEF Welcome, Unknown, Online, WrongKey
LEMMA Empty == Nothing \in Seq(Message) /\ Len(Nothing) = 0
  BY DEF Nothing
LEMMA Put ==
    ASSUME NEW s \in Seq(Message), NEW m \in Message
    PROVE  Append(s, m) \in Seq(Message) /\ Len(Append(s, m)) = Len(s) + 1
  OBVIOUS
LEMMA Taken ==
    ASSUME NEW s \in Seq(Message), s # Nothing
    PROVE  Tail(s) \in Seq(Message)
  BY DEF Nothing
LEMMA One ==
    ASSUME NEW m \in Message
    PROVE  /\ Just(m) \in Seq(Message) /\ Tail(Just(m)) = Nothing /\ Len(Just(m)) = 1
           /\ Head(Just(m)) = m /\ Append(Nothing, m) = Just(m) /\ Just(m) # Nothing
  BY DEF Just, Nothing
LEMMA HeadSays ==
    /\ Head(Just(Welcome)) = Welcome /\ Head(Just(Unknown)) = Unknown
    /\ Head(Just(Online)) = Online /\ Head(Just(WrongKey)) = WrongKey
  BY Messages, One
LEMMA Second ==
    ASSUME NEW m \in Message, NEW n \in Message
    PROVE  /\ Append(Just(m), n) = Two(m, n) /\ Tail(Two(m, n)) = Just(n)
           /\ Head(Two(m, n)) = m /\ Len(Two(m, n)) = 2
  <1>1. Append(<<m>>, n) = <<m, n>>
    <2> DEFINE s == Append(<<m>>, n)
    <2>1. s \in Seq(Message) /\ Len(s) = 2 /\ s[1] = m /\ s[2] = n
      OBVIOUS
    <2>2. s = [i \in 1 .. 2 |-> s[i]]
      BY <2>1
    <2>3. <<m, n>> = [i \in 1 .. 2 |-> s[i]]
      BY <2>1
    <2> QED
      BY <2>2, <2>3
  <1> QED
    BY <1>1 DEF Just, Two

(* What PairInv says of one connection.                                        *)
LEMMA RowNow ==
    ASSUME PairInv, KeyInv, NEW c \in Conn
    PROVE  Row(c) /\ RowTypes(c) /\ at[c] \in At
  BY DEF PairInv, Pairs, LinkTypes, RowTypes, Row, KeyInv

(* A step that changes the connection c alone.                                 *)
LEMMA OnlyServer ==
    ASSUME PairInv, KeyInv, NEW c \in Conn, client_handler(c)
    PROVE  ChangesAll(c) /\ cpc' = cpc
  <1> USE DEF ChangesAll, Changes, PairInv, LinkTypes, KeyInv, sgoto, Sent,
              Received, ch_cleanup_end_handler, link
  <1>1. CASE send_init(c) \/ send_challenge(c)
    BY <1>1 DEF send_init, send_challenge
  <1>2. CASE server_handshake(c) \/ handshake_failed(c)
    BY <1>2 DEF server_handshake, handshake_failed
  <1>3. CASE get_response(c) \/ prompt_user_register(c)
    BY <1>3 DEF get_response, prompt_user_register, Awaited
  <1>4. CASE check_key(c)
    BY <1>4 DEF check_key, Verdict
  <1>5. CASE check_handler(c)
    BY <1>5 DEF check_handler, Verdict
  <1>6. CASE user_db_add(c)
    BY <1>6 DEF user_db_add
  <1>7. CASE add_handler(c)
    BY <1>7 DEF add_handler
  <1>8. CASE ht_cleanup_end_handler(c)
    BY <1>8 DEF ht_cleanup_end_handler
  <1> QED
    BY <1>1, <1>2, <1>3, <1>4, <1>5, <1>6, <1>7, <1>8 DEF client_handler
LEMMA OnlyClient ==
    ASSUME PairInv, KeyInv, NEW c \in Conn, client(c) \/ Lose(c)
    PROVE  ChangesAll(c) /\ at' = at
  <1> USE DEF ChangesAll, Changes, PairInv, LinkTypes, KeyInv, cgoto, Sent,
              Received, cleanup_server_connection, link, Exchange, Refused, Leave,
              server
  <1>1. CASE get_init(c)
    BY <1>1 DEF get_init
  <1>2. CASE get_server_key(c)
    BY <1>2 DEF get_server_key
  <1>3. CASE prompt_verify_skey(c)
    BY <1>3 DEF prompt_verify_skey
  <1>4. CASE send_login_message(c)
    BY <1>4 DEF send_login_message
  <1>5. CASE login_account(c)
    BY <1>5 DEF login_account
  <1>6. CASE create_account(c)
    BY <1>6 DEF create_account
  <1>7. CASE prompt_register(c) \/ handle_user(c) \/ Lose(c)
    BY <1>7 DEF prompt_register, handle_user, Lose
  <1> QED
    BY <1>1, <1>2, <1>3, <1>4, <1>5, <1>6, <1>7 DEF client

(* How a row changes when the server sends, receives or ends ...               *)
ServerGoes(p, a, ts, tc, cl) ==
    /\ a = "init" => Both(p, "client_m", ts, Append(tc, Initiate), cl)
    /\ a = "client_m" => Both(p, "failed", ts, tc, cl)
    /\ a = "client_m" /\ ts # Nothing =>
          Both(p, "shaken", Tail(ts), Append(tc, ServerKey), cl)
    /\ a = "shaken" => Both(p, "response", ts, Append(tc, Challenge), cl)
    /\ a = "response" /\ ts # Nothing => Both(p, "check_user", Tail(ts), tc, cl)
    /\ a = "prompt" /\ ts # Nothing => Both(p, "user_db_add", Tail(ts), tc, cl)
    /\ a = "check_user" => Both(p, "check_handler", ts, tc, cl)
    /\ a \in {"check_user", "check_handler"} =>
          /\ Both(p, "prompt", ts, Append(tc, Unknown), cl)
          /\ Both(p, "add_handler", ts, Append(tc, Welcome), cl)
          /\ Both(p, "ended", Nothing, Append(tc, Online), TRUE)
          /\ Both(p, "ended", Nothing, Append(tc, WrongKey), TRUE)
    /\ a = "user_db_add" => Both(p, "add_handler", ts, tc, cl)
    /\ a = "add_handler" => Both(p, "client_handle_loop", ts, tc, cl)
    /\ a \in {"failed", "user_db_add", "add_handler"} =>
          Both(p, "ended", Nothing, tc, TRUE)
    /\ a \notin Dead /\ cl => Both(p, "ended", Nothing, tc, TRUE)

LEMMA ServerRows ==
    ASSUME NEW p, NEW a, NEW ts \in Seq(Message), NEW tc \in Seq(Message), NEW cl,
           Both(p, a, ts, tc, cl)
    PROVE  ServerGoes(p, a, ts, tc, cl)
  <1> USE DEF Both, Dead
  <1>0. Len(ts) \in Nat /\ Len(tc) \in Nat /\ Len(Nothing) = 0
    BY Empty
  <1>1. ASSUME a = "init" PROVE Both(p, "client_m", ts, Append(tc, Initiate), cl)
    <2>1. tc = Nothing /\ ts = Nothing
      BY <1>1 DEF Together, ServerAlone
    <2>2. Append(tc, Initiate) = Just(Initiate) /\ Len(Just(Initiate)) = 1
      BY <2>1, Messages, One
    <2> QED
      BY <1>0, <1>1, <2>1, <2>2 DEF Together, ServerAlone
  <1>2. ASSUME a = "client_m" PROVE Both(p, "failed", ts, tc, cl)
    BY <1>2 DEF Together, ClientAlone
  <1>3. ASSUME a = "client_m", ts # Nothing
        PROVE  Both(p, "shaken", Tail(ts), Append(tc, ServerKey), cl)
    <2>1. ts = Just(ClientKey) /\ tc = Nothing
      BY <1>3 DEF Together, ServerAlone
    <2>2. /\ Append(tc, ServerKey) = Just(ServerKey) /\ Len(Just(ServerKey)) = 1
          /\ Tail(ts) = Nothing
      BY <2>1, Messages, One
    <2> QED
      BY <1>0, <1>3, <2>1, <2>2 DEF Together, ServerAlone
  <1>4. ASSUME a = "shaken" PROVE Both(p, "response", ts, Append(tc, Challenge), cl)
    <2>1. Len(Append(tc, Challenge)) = Len(tc) + 1
      BY Messages, Put
    <2>2. tc = Nothing => Append(tc, Challenge) = Just(Challenge)
      BY Messages, One
    <2>3. tc = Just(ServerKey) =>
             Append(tc, Challenge) = Two(ServerKey, Challenge)
      BY Messages, Second
    <2>4. Len(tc) <= 1
      BY <1>0, <1>4, Messages, One DEF Together, ServerAlone
    <2> QED
      BY <1>0, <1>4, <2>1, <2>2, <2>3, <2>4 DEF Together, ServerAlone
  <1>5. ASSUME a = "response", ts # Nothing PROVE Both(p, "check_user", Tail(ts), tc, cl)
    <2>1. ts = Just(Response) /\ tc = Nothing
      BY <1>5 DEF Together, ServerAlone
    <2>2. Tail(ts) = Nothing
      BY <2>1, Messages, One
    <2> QED
      BY <1>0, <1>5, <2>1, <2>2 DEF Together, ServerAlone
  <1>6. ASSUME a = "prompt", ts # Nothing PROVE Both(p, "user_db_add", Tail(ts), tc, cl)
    <2>1. ts = Just(Register)
      BY <1>6 DEF Together, ServerAlone
    <2>2. Tail(ts) = Nothing
      BY <2>1, Messages, One
    <2> QED
      BY <1>0, <1>6, <2>1, <2>2 DEF Together, ServerAlone
  <1>7. ASSUME a \in {"check_user", "check_handler"}
        PROVE  /\ Both(p, "prompt", ts, Append(tc, Unknown), cl)
               /\ Both(p, "add_handler", ts, Append(tc, Welcome), cl)
               /\ Both(p, "ended", Nothing, Append(tc, Online), TRUE)
               /\ Both(p, "ended", Nothing, Append(tc, WrongKey), TRUE)
    <2>1. tc = Nothing /\ ts = Nothing /\ p \in {"left", "authresponse"}
      BY <1>7 DEF Together, ServerAlone
    <2>2. \A m \in Message : Append(tc, m) = Just(m) /\ Len(Just(m)) = 1
      BY <2>1, One
    <2>3. Both(p, "prompt", ts, Append(tc, Unknown), cl)
      BY <1>0, <1>7, <2>1, <2>2, Messages DEF Together, ServerAlone
    <2>4. Both(p, "add_handler", ts, Append(tc, Welcome), cl)
      BY <1>0, <1>7, <2>1, <2>2, Messages DEF Together, ServerAlone
    <2>5. Both(p, "ended", Nothing, Append(tc, Online), TRUE)
      BY <1>0, <1>7, <2>1, <2>2, Messages DEF ClientAlone
    <2>6. Both(p, "ended", Nothing, Append(tc, WrongKey), TRUE)
      BY <1>0, <1>7, <2>1, <2>2, Messages DEF ClientAlone
    <2> QED
      BY <2>3, <2>4, <2>5, <2>6
  <1>8. a = "check_user" => Both(p, "check_handler", ts, tc, cl)
    BY DEF Together, ServerAlone
  <1>9. a = "user_db_add" => Both(p, "add_handler", ts, tc, cl)
    BY DEF Together, ServerAlone
  <1>10. a = "add_handler" => Both(p, "client_handle_loop", ts, tc, cl)
    BY DEF Together, ServerAlone
  <1>11. a \in {"failed", "user_db_add", "add_handler"} =>
            Both(p, "ended", Nothing, tc, TRUE)
    BY <1>0 DEF Together, ServerAlone, ClientAlone
  <1>12. a \notin Dead /\ cl => Both(p, "ended", Nothing, tc, TRUE)
    BY <1>0
  <1> QED
    BY <1>1, <1>2, <1>3, <1>4, <1>5, <1>6, <1>7, <1>8, <1>9, <1>10, <1>11, <1>12
       DEF ServerGoes

(* ... and when the client does.                                               *)
ClientGoes(p, a, ts, tc, cl) ==
    /\ Both("left", a, ts, Nothing, TRUE)
    /\ p = "verify" => Both("challenge", a, ts, tc, cl)
    /\ p = "register?" => Both("in", a, Append(ts, Register), tc, cl)
    /\ tc # Nothing =>
          /\ p = "init" => Both("server_m", a, Append(ts, ClientKey),
                                Tail(tc), cl)
          /\ p = "server_m" => Both("verify", a, ts, Tail(tc), cl)
          /\ p = "challenge" => Both("authresponse", a,
                                     Append(ts, Response), Tail(tc), cl)
          /\ p = "authresponse" /\ Head(tc) = Welcome => Both("in", a, ts, Tail(tc), cl)
          /\ p = "authresponse" /\ Head(tc) = Unknown =>
                /\ Both("register?", a, ts, Tail(tc), cl)
                /\ Both("in", a, Append(ts, Register), Tail(tc), cl)

LEMMA ClientRows ==
    ASSUME NEW p, NEW a, NEW ts \in Seq(Message), NEW tc \in Seq(Message), NEW cl,
           Both(p, a, ts, tc, cl), p # "left"
    PROVE  ClientGoes(p, a, ts, tc, cl)
  <1> USE DEF Both, Dead
  <1>0. Len(ts) \in Nat /\ Len(tc) \in Nat /\ Len(Nothing) = 0
    BY Empty
  <1>1. Both("left", a, ts, Nothing, TRUE)
    <2>1. ts = Nothing \/ ts = Just(ClientKey) \/ ts = Just(Response) \/ ts = Just(Register)
      BY DEF Together, ClientAlone
    <2> QED
      BY <1>0, <2>1 DEF Together, ServerAlone
  <1>2. p = "verify" => Both("challenge", a, ts, tc, cl)
    BY DEF Together, ClientAlone
  <1>3. ASSUME p = "register?" PROVE Both("in", a, Append(ts, Register), tc, cl)
    <2>1. ts = Nothing /\ tc = Nothing /\ a = "prompt" /\ ~cl
      BY <1>3 DEF Together, ClientAlone
    <2>2. Append(ts, Register) = Just(Register) /\ Len(Just(Register)) = 1
      BY <2>1, Messages, One
    <2> QED
      BY <1>0, <2>1, <2>2 DEF Together
  <1>4. ASSUME p = "init", tc # Nothing
        PROVE  Both("server_m", a, Append(ts, ClientKey), Tail(tc), cl)
    <2>1. ts = Nothing /\ tc = Just(Initiate)
      BY <1>4 DEF Together, ClientAlone
    <2>2. /\ Append(ts, ClientKey) = Just(ClientKey) /\ Tail(tc) = Nothing
          /\ Len(Just(ClientKey)) = 1
      BY <2>1, Messages, One
    <2> QED
      BY <1>0, <1>4, <2>1, <2>2 DEF Together, ClientAlone
  <1>5. ASSUME p = "server_m", tc # Nothing PROVE Both("verify", a, ts, Tail(tc), cl)
    <2>1. \/ ts = Nothing /\ a = "shaken" /\ tc = Just(ServerKey)
          \/ ts = Nothing /\ a = "response" /\ tc = Two(ServerKey, Challenge)
      BY <1>5 DEF Together, ClientAlone
    <2>2. /\ tc = Just(ServerKey) => Tail(tc) = Nothing
          /\ tc = Two(ServerKey, Challenge) => Tail(tc) = Just(Challenge)
          /\ Len(Just(Challenge)) = 1
      <3>1. Tail(Just(ServerKey)) = Nothing /\ Len(Just(Challenge)) = 1
        BY Messages, One
      <3>2. Tail(Two(ServerKey, Challenge)) = Just(Challenge)
        BY Messages, Second
      <3> QED
        BY <3>1, <3>2
    <2> QED
      BY <1>0, <1>5, <2>1, <2>2 DEF Together
  <1>6. ASSUME p = "challenge", tc # Nothing
        PROVE  Both("authresponse", a, Append(ts, Response), Tail(tc), cl)
    <2>1. ts = Nothing /\ a = "response" /\ tc = Just(Challenge)
      BY <1>6 DEF Together, ClientAlone
    <2>2. /\ Append(ts, Response) = Just(Response) /\ Tail(tc) = Nothing
          /\ Len(Just(Response)) = 1
      BY <2>1, Messages, One
    <2> QED
      BY <1>0, <1>6, <2>1, <2>2 DEF Together
  <1>7. ASSUME p = "authresponse", tc # Nothing, Head(tc) = Welcome
        PROVE  Both("in", a, ts, Tail(tc), cl)
    <2>1. /\ ts = Nothing /\ tc \in {Just(Welcome), Just(Unknown), Just(Online), Just(WrongKey)}
          /\ tc = Just(Welcome) => a \in {"add_handler", "client_handle_loop", "ended"}
      BY <1>7, HeadSays, Verdicts DEF Together, ClientAlone
    <2>2. tc = Just(Welcome) /\ Tail(tc) = Nothing
      BY <1>7, <2>1, Messages, Verdicts, One
    <2> QED
      BY <1>0, <1>7, <2>1, <2>2 DEF Together, ClientAlone
  <1>8. ASSUME p = "authresponse", tc # Nothing, Head(tc) = Unknown
        PROVE  /\ Both("register?", a, ts, Tail(tc), cl)
               /\ Both("in", a, Append(ts, Register), Tail(tc), cl)
    <2>1. /\ ts = Nothing /\ tc \in {Just(Welcome), Just(Unknown), Just(Online), Just(WrongKey)}
          /\ tc = Just(Unknown) => a = "prompt"
      BY <1>8, HeadSays, Verdicts DEF Together, ClientAlone
    <2>2. tc = Just(Unknown) /\ Tail(tc) = Nothing
      BY <1>8, <2>1, Messages, Verdicts, One
    <2>3. Append(ts, Register) = Just(Register) /\ Len(Just(Register)) = 1
      BY <2>1, Messages, One
    <2> QED
      BY <1>0, <1>8, <2>1, <2>2, <2>3 DEF Together
  <1> QED
    BY <1>1, <1>2, <1>3, <1>4, <1>5, <1>6, <1>7, <1>8 DEF ClientGoes

(* Each step makes the row of its connection one of the rows again.            *)
LEMMA ServerRow ==
    ASSUME PairInv, KeyInv, NEW c \in Conn, client_handler(c)
    PROVE  RowTypes(c)' /\ Row(c)'
  <1> DEFINE p == cpc[c]
             a == at[c]
             ts == toServer[c]
             tc == toClient[c]
             cl == closed[c]
  <1>0. /\ Row(c) /\ RowTypes(c) /\ a \in At /\ cpc'[c] = p
        /\ cpc \in [Conn -> CPlaces] /\ at \in [Conn -> At]
        /\ toServer \in [Conn -> Seq(Message)] /\ toClient \in [Conn -> Seq(Message)]
        /\ closed \in [Conn -> BOOLEAN]
    BY RowNow, OnlyServer DEF PairInv, LinkTypes, KeyInv
  <1>r. ServerGoes(p, a, ts, tc, cl)
    BY <1>0, ServerRows DEF Row, RowTypes
  <1>e. Nothing \in Seq(Message) /\ Nothing = <<>>
    BY Empty DEF Nothing
  <1> USE DEF sgoto, Sent, Received, ch_cleanup_end_handler, link
  <1>1. CASE send_init(c)
    <2>1. /\ a = "init" /\ at'[c] = "client_m" /\ toServer'[c] = ts
          /\ toClient'[c] = Append(tc, Initiate) /\ closed'[c] = cl
      BY <1>0, <1>1 DEF send_init, Initiate
    <2> QED
      BY <1>0, <2>1, <1>r, Messages, Put DEF ServerGoes, Row, RowTypes
  <1>2. CASE server_handshake(c)
    <2>1. \/ /\ a = "client_m" /\ at'[c] = "shaken" /\ ts # Nothing
             /\ toServer'[c] = Tail(ts) /\ toClient'[c] = Append(tc, ServerKey)
             /\ closed'[c] = cl
          \/ /\ a = "client_m" /\ at'[c] = "failed" /\ toServer'[c] = ts
             /\ toClient'[c] = tc /\ closed'[c] = cl
      BY <1>0, <1>e, <1>2 DEF server_handshake, ServerKey
    <2> QED
      BY <1>0, <2>1, <1>r, Messages, Put, Taken DEF ServerGoes, Row, RowTypes
  <1>3. CASE handshake_failed(c)
    <2>1. /\ a = "failed" /\ at'[c] = "ended" /\ toServer'[c] = Nothing
          /\ toClient'[c] = tc /\ closed'[c] = TRUE
      BY <1>0, <1>e, <1>3 DEF handshake_failed
    <2> QED
      BY <1>0, <1>e, <2>1, <1>r DEF ServerGoes, Row, RowTypes
  <1>4. CASE send_challenge(c)
    <2>1. /\ a = "shaken" /\ at'[c] = "response" /\ toServer'[c] = ts
          /\ toClient'[c] = Append(tc, Challenge) /\ closed'[c] = cl
      BY <1>0, <1>4 DEF send_challenge, Challenge
    <2> QED
      BY <1>0, <2>1, <1>r, Messages, Put DEF ServerGoes, Row, RowTypes
  <1>5. ASSUME \/ get_response(c) /\ a = "response" /\ at'[c] \in {"check_user", "ended"}
               \/ prompt_user_register(c) /\ a = "prompt"
                  /\ at'[c] \in {"user_db_add", "ended"}
        PROVE  RowTypes(c)' /\ Row(c)'
    <2>1. \/ /\ at'[c] # "ended" /\ ts # Nothing /\ toServer'[c] = Tail(ts)
             /\ toClient'[c] = tc /\ closed'[c] = cl
          \/ /\ at'[c] = "ended" /\ toServer'[c] = Nothing /\ cl
             /\ toClient'[c] = tc /\ closed'[c] = TRUE
      BY <1>0, <1>e, <1>5 DEF get_response, prompt_user_register, Awaited
    <2> QED
      BY <1>0, <1>e, <1>5, <2>1, <1>r, Taken DEF ServerGoes, Row, RowTypes, Dead
  <1>6. CASE get_response(c) \/ prompt_user_register(c)
    <2>1. \/ get_response(c) /\ a = "response" /\ at'[c] \in {"check_user", "ended"}
          \/ prompt_user_register(c) /\ a = "prompt"
             /\ at'[c] \in {"user_db_add", "ended"}
      BY <1>0, <1>6 DEF get_response, prompt_user_register, Awaited
    <2> QED
      BY <1>5, <2>1
  <1>7. CASE check_key(c) \/ check_handler(c)
    <2>1. /\ a \in {"check_user", "check_handler"}
          /\ \/ /\ at'[c] = "prompt" /\ toServer'[c] = ts /\ closed'[c] = cl
                /\ toClient'[c] = Append(tc, Unknown)
             \/ /\ at'[c] = "add_handler" /\ toServer'[c] = ts /\ closed'[c] = cl
                /\ toClient'[c] = Append(tc, Welcome)
             \/ /\ at'[c] = "ended" /\ toServer'[c] = Nothing /\ closed'[c] = TRUE
                /\ toClient'[c] \in {Append(tc, Online), Append(tc, WrongKey)}
             \/ /\ a = "check_user" /\ at'[c] = "check_handler"
                /\ toServer'[c] = ts /\ closed'[c] = cl /\ toClient'[c] = tc
      BY <1>0, <1>e, <1>7
         DEF check_key, check_handler, Verdict, Welcome, Unknown, Online, WrongKey
    <2> QED
      BY <1>0, <1>e, <2>1, <1>r, Messages, Put DEF ServerGoes, Row, RowTypes
  <1>8. CASE user_db_add(c) \/ add_handler(c)
    <2>1. /\ toClient'[c] = tc
          /\ \/ /\ a = "user_db_add" /\ at'[c] = "add_handler"
                /\ toServer'[c] = ts /\ closed'[c] = cl
             \/ /\ a = "add_handler" /\ at'[c] = "client_handle_loop"
                /\ toServer'[c] = ts /\ closed'[c] = cl
             \/ /\ a \in {"user_db_add", "add_handler"} /\ at'[c] = "ended"
                /\ toServer'[c] = Nothing /\ closed'[c] = TRUE
      BY <1>0, <1>e, <1>8 DEF user_db_add, add_handler
    <2> QED
      BY <1>0, <1>e, <2>1, <1>r DEF ServerGoes, Row, RowTypes
  <1>9. CASE ht_cleanup_end_handler(c)
    <2>1. /\ a = "client_handle_loop" /\ cl /\ at'[c] = "ended"
          /\ toServer'[c] = Nothing /\ toClient'[c] = tc /\ closed'[c] = TRUE
      BY <1>0, <1>e, <1>9 DEF ht_cleanup_end_handler
    <2> QED
      BY <1>0, <1>e, <2>1, <1>r DEF ServerGoes, Row, RowTypes, Dead
  <1> QED
    BY <1>1, <1>2, <1>3, <1>4, <1>6, <1>7, <1>8, <1>9 DEF client_handler

LEMMA ClientRow ==
    ASSUME PairInv, KeyInv, NEW c \in Conn, client(c) \/ Lose(c)
    PROVE  RowTypes(c)' /\ Row(c)'
  <1> DEFINE p == cpc[c]
             a == at[c]
             ts == toServer[c]
             tc == toClient[c]
             cl == closed[c]
  <1>0. /\ Row(c) /\ RowTypes(c) /\ a \in At /\ at'[c] = a
        /\ cpc \in [Conn -> CPlaces]
        /\ toServer \in [Conn -> Seq(Message)] /\ toClient \in [Conn -> Seq(Message)]
        /\ closed \in [Conn -> BOOLEAN]
    BY RowNow, OnlyClient DEF PairInv, LinkTypes, KeyInv
  <1>r. p # "left" => ClientGoes(p, a, ts, tc, cl)
    BY <1>0, ClientRows DEF Row, RowTypes
  <1>e. Nothing \in Seq(Message) /\ Nothing = <<>>
    BY Empty DEF Nothing
  <1> USE DEF cgoto, Sent, Received, link
  (* The client gives up.                                                      *)
  <1>1. ASSUME cleanup_server_connection(c), p # "left", UNCHANGED toServer
        PROVE  RowTypes(c)' /\ Row(c)'
    <2>1. /\ cpc'[c] = "left" /\ toServer'[c] = ts /\ toClient'[c] = Nothing
          /\ closed'[c] = TRUE
      BY <1>0, <1>e, <1>1 DEF cleanup_server_connection
    <2> QED
      BY <1>0, <1>e, <1>r, <1>1, <2>1 DEF ClientGoes, Row, RowTypes, CPlaces
  <1>2. CASE get_init(c)
    <2>1. \/ /\ p = "init" /\ cpc'[c] = "server_m" /\ tc # Nothing
             /\ toServer'[c] = Append(ts, ClientKey) /\ toClient'[c] = Tail(tc)
             /\ closed'[c] = cl
          \/ cleanup_server_connection(c) /\ p # "left" /\ UNCHANGED toServer
      BY <1>0, <1>e, <1>2, AnswerAssumption DEF get_init, Exchange, ClientKey
    <2> QED
      BY <1>0, <1>r, <1>1, <2>1, Messages, Put, Taken
         DEF ClientGoes, Row, RowTypes, CPlaces
  <1>3. CASE get_server_key(c)
    <2>1. \/ /\ p = "server_m" /\ cpc'[c] = "verify" /\ tc # Nothing
             /\ toServer'[c] = ts /\ toClient'[c] = Tail(tc) /\ closed'[c] = cl
          \/ cleanup_server_connection(c) /\ p # "left" /\ UNCHANGED toServer
      BY <1>0, <1>e, <1>3 DEF get_server_key, Exchange
    <2> QED
      BY <1>0, <1>r, <1>1, <2>1, Taken DEF ClientGoes, Row, RowTypes, CPlaces
  <1>4. CASE prompt_verify_skey(c)
    <2>1. \/ /\ p = "verify" /\ cpc'[c] = "challenge" /\ toServer'[c] = ts
             /\ toClient'[c] = tc /\ closed'[c] = cl
          \/ cleanup_server_connection(c) /\ p # "left" /\ UNCHANGED toServer
      BY <1>0, <1>4 DEF prompt_verify_skey, Leave
    <2> QED
      BY <1>0, <1>r, <1>1, <2>1 DEF ClientGoes, Row, RowTypes, CPlaces
  <1>5. CASE send_login_message(c)
    <2>1. \/ /\ p = "challenge" /\ cpc'[c] = "authresponse" /\ tc # Nothing
             /\ toServer'[c] = Append(ts, Response) /\ toClient'[c] = Tail(tc)
             /\ closed'[c] = cl
          \/ cleanup_server_connection(c) /\ p # "left" /\ UNCHANGED toServer
      BY <1>0, <1>e, <1>5, AnswerAssumption DEF send_login_message, Exchange, Response
    <2> QED
      BY <1>0, <1>r, <1>1, <2>1, Messages, Put, Taken
         DEF ClientGoes, Row, RowTypes, CPlaces
  <1>6. CASE login_account(c) \/ create_account(c)
    <2>1. /\ p = "authresponse"
          /\ \/ /\ tc # Nothing /\ toClient'[c] = Tail(tc) /\ closed'[c] = cl
                /\ \/ Head(tc) = Welcome /\ cpc'[c] = "in" /\ toServer'[c] = ts
                   \/ Head(tc) = Unknown /\ cpc'[c] = "register?" /\ toServer'[c] = ts
                   \/ /\ Head(tc) = Unknown /\ cpc'[c] = "in"
                      /\ toServer'[c] = Append(ts, Register)
             \/ cleanup_server_connection(c) /\ UNCHANGED toServer
      <3>1. CASE login_account(c)
        BY <1>0, <1>e, <3>1 DEF login_account, Exchange, Refused, Welcome, Unknown
      <3>2. CASE create_account(c)
        BY <1>0, <1>e, <3>2, AnswerAssumption
           DEF create_account, Exchange, Refused, Unknown, Register
      <3> QED
        BY <1>6, <3>1, <3>2
    <2> QED
      BY <1>0, <1>r, <1>1, <2>1, Messages, Put, Taken
         DEF ClientGoes, Row, RowTypes, CPlaces
  <1>7. CASE prompt_register(c)
    <2>1. \/ /\ p = "register?" /\ cpc'[c] = "in" /\ toServer'[c] = Append(ts, Register)
             /\ toClient'[c] = tc /\ closed'[c] = cl
          \/ cleanup_server_connection(c) /\ p # "left" /\ UNCHANGED toServer
      BY <1>0, <1>7 DEF prompt_register, Leave, Register
    <2> QED
      BY <1>0, <1>r, <1>1, <2>1, Messages, Put DEF ClientGoes, Row, RowTypes, CPlaces
  <1>8. CASE handle_user(c) \/ Lose(c)
    BY <1>1, <1>8 DEF handle_user, Lose, Leave
  <1> QED
    BY <1>2, <1>3, <1>4, <1>5, <1>6, <1>7, <1>8 DEF client

StepInv == KeyInv /\ PairInv /\ acc \in Accounts

LEMMA StepInit == SessionInit => StepInv
  <1> SUFFICES ASSUME SessionInit PROVE StepInv
    OBVIOUS
  <1>1. KeyInv /\ acc \in Accounts
    BY KeyInit DEF SessionInit
  <1>2. LinkTypes
    BY Empty DEF SessionInit, LinkTypes, CPlaces, Nothing
  <1>3. ASSUME NEW c \in Conn
        PROVE  Both(cpc[c], at[c], toServer[c], toClient[c], closed[c])
    BY Empty DEF SessionInit, Both, Together, Dead, Nothing
  <1> QED
    BY <1>1, <1>2, <1>3 DEF StepInv, PairInv, Pairs

LEMMA StepStep == StepInv /\ [SessionNext]_all_vars => StepInv'
  <1> SUFFICES ASSUME StepInv, [SessionNext]_all_vars PROVE StepInv'
    OBVIOUS
  <1>1. KeyInv'
    BY KeyStep DEF StepInv
  <1>2. ASSUME NEW c \in Conn, client_handler(c) PROVE StepInv'
    <2>1. acc' = acc
      BY <1>2, Effect DEF StepInv
    <2>2. ChangesAll(c) /\ RowTypes(c)' /\ Row(c)'
      BY <1>2, OnlyServer, ServerRow DEF StepInv
    <2> QED
      BY <1>1, <2>1, <2>2, OneRow DEF StepInv
  <1>3. ASSUME NEW c \in Conn, client(c) \/ Lose(c) PROVE StepInv'
    <2>1. acc' = acc
      BY <1>3, ClientStep
    <2>2. ChangesAll(c) /\ RowTypes(c)' /\ Row(c)'
      BY <1>3, OnlyClient, ClientRow DEF StepInv
    <2> QED
      BY <1>1, <2>1, <2>2, OneRow DEF StepInv
  <1>4. CASE UNCHANGED session_vars \/ UNCHANGED all_vars
    BY <1>1, <1>4
       DEF all_vars, session_vars, server, link, StepInv, PairInv, LinkTypes, Pairs
  <1> QED
    BY <1>2, <1>3, <1>4 DEF SessionNext

(* What the rows say of one connection: neither end reads a message that it    *)
(* does not expect.                                                            *)
LEMMA RowInStep ==
    ASSUME NEW p, NEW a, NEW ts \in Seq(Message), NEW tc \in Seq(Message), NEW cl,
           Both(p, a, ts, tc, cl), a \in At
    PROVE  /\ \/ a \in Dead \/ ts = Nothing
              \/ a = "client_m" /\ Head(ts) = ClientKey
              \/ a = "response" /\ Head(ts) = Response
              \/ a = "prompt" /\ Head(ts) = Register
           /\ p = "in" => a \in {"prompt", "user_db_add", "add_handler",
                                 "client_handle_loop", "ended"}
  <1>1. /\ Head(Just(ClientKey)) = ClientKey /\ Head(Just(Response)) = Response
        /\ Head(Just(Register)) = Register
    BY Messages, One
  <1>2. \/ a \in Dead \/ ts = Nothing
        \/ a = "client_m" /\ ts = Just(ClientKey)
        \/ a = "response" /\ ts = Just(Response)
        \/ a = "prompt" /\ ts = Just(Register)
    BY DEF Both, Together, ServerAlone
  <1>3. p = "in" => a \in {"prompt", "user_db_add", "add_handler",
                           "client_handle_loop", "ended"}
    BY DEF Both, Together, ClientAlone
  <1> QED
    BY <1>1, <1>2, <1>3

(* Besides: client and server keep in step, whatever either sends, gives up on *)
(* or is refused.                                                              *)
THEOREM EndsKeepStep == SessionSpec => []SessionInv
  <1>1. StepInv => SessionInv
    <2> SUFFICES ASSUME StepInv PROVE SessionInv
      OBVIOUS
    <2>1. OnlineHoldsKey
      BY DEF StepInv, KeyInv
    <2>2. \A c \in Conn : Row(c) /\ RowTypes(c) /\ at[c] \in At
      BY RowNow DEF StepInv
    <2>3. SessionTypeOK
      <3>1. \A c \in Conn : Len(toServer[c]) <= 1 /\ Len(toClient[c]) <= 2
        BY <2>2 DEF Row, Both
      <3> QED
        BY <3>1 DEF SessionTypeOK, StepInv, KeyInv, PairInv, LinkTypes, CPlaces
    <2>4. ASSUME NEW c \in Conn
          PROVE  /\ at[c] \in Dead \/ toServer[c] = <<>> \/ Head(toServer[c]) = Awaits(c)
                 /\ cpc[c] = "in" => at[c] \in {"prompt", "user_db_add", "add_handler",
                                                "client_handle_loop", "ended"}
      <3>1. /\ \/ at[c] \in Dead \/ toServer[c] = Nothing
               \/ at[c] = "client_m" /\ Head(toServer[c]) = ClientKey
               \/ at[c] = "response" /\ Head(toServer[c]) = Response
               \/ at[c] = "prompt" /\ Head(toServer[c]) = Register
            /\ cpc[c] = "in" => at[c] \in {"prompt", "user_db_add", "add_handler",
                                           "client_handle_loop", "ended"}
        BY <2>2, RowInStep DEF Row, RowTypes
      <3>2. /\ at[c] = "client_m" => Awaits(c) = ClientKey
            /\ at[c] = "response" => Awaits(c) = Response
            /\ at[c] = "prompt" => Awaits(c) = Register
        BY DEF Awaits, ClientKey, Response, Register
      <3> QED
        BY <3>1, <3>2 DEF Nothing
    <2> QED
      BY <2>1, <2>3, <2>4 DEF SessionInv, InStep
  <1> QED
    BY <1>1, StepInit, StepStep, PTL DEF SessionSpec
===============================================================================
