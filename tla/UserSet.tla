-------------------------------- MODULE UserSet -------------------------------
(* What the server promises of its users: once registered, a user stays so,    *)
(* whatever stops the server; and only a registration adds a user.             *)
CONSTANT Uid

VARIABLES
    users,      \* the registered users
    up          \* the server answers

vars == <<users, up>>

Init == users = {} /\ up = TRUE

Register(u) ==
    /\ up /\ u \notin users
    /\ users' = users \cup {u}
    /\ UNCHANGED up

(* A registration under way when the server stops may still count.             *)
Stop ==
    /\ up /\ up' = FALSE
    /\ users' = users \/ \E u \in Uid : users' = users \cup {u}

Start == ~up /\ up' = TRUE /\ UNCHANGED users

Next == (\E u \in Uid : Register(u)) \/ Stop \/ Start

Spec == Init /\ [][Next]_vars
===============================================================================
