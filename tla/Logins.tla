--------------------------------- MODULE Logins -------------------------------
(* What logging in promises: a name belongs for good to the key that claimed   *)
(* it first, and at any time at most one connection acts for a name, one whose *)
(* client holds that key.                                                      *)
CONSTANTS Conn, Name, Key, None

VARIABLES
    acc,       \* each connection's client: a name and a key
    users,     \* the key of each name
    handler    \* the connection that acts for each name

vars == <<acc, users, handler>>

Init == users \in [Name -> Key \cup {None}] /\ handler = [u \in Name |-> None]

Register(c) ==
    /\ users[acc[c].name] = None
    /\ users' = [users EXCEPT ![acc[c].name] = acc[c].key]
    /\ UNCHANGED handler

Login(c) ==
    /\ users[acc[c].name] = acc[c].key /\ handler[acc[c].name] = None
    /\ handler' = [handler EXCEPT ![acc[c].name] = c]
    /\ UNCHANGED users

Logout(c) ==
    /\ handler[acc[c].name] = c
    /\ handler' = [handler EXCEPT ![acc[c].name] = None]
    /\ UNCHANGED users

Next == (\E c \in Conn : Register(c) \/ Login(c) \/ Logout(c)) /\ UNCHANGED acc

Spec == Init /\ [][Next]_vars
===============================================================================
