------------------------------- MODULE MCSession ------------------------------
(* Instances of Session for TLC: one name and two keys, so that clients with   *)
(* one key and with different keys meet.                                       *)
EXTENDS Session, TLC

CONSTANTS a, b, u, k1, k2
TwoConns == {a, b}
OneName == {u}
TwoKeys == {k1, k2}
Account(k, create) == [name |-> u, key |-> k, create |-> create]
TwoAccounts ==
    {(a :> Account(k1, FALSE)) @@ (b :> other) :
        other \in {Account(k1, FALSE), Account(k2, TRUE)}}
===============================================================================
