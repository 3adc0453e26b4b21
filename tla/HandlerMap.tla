------------------------------- MODULE HandlerMap -----------------------------
(* What the handler table promises to the threads of the server: a map from a  *)
(* user to the one session that serves them.                                   *)
CONSTANTS Session, Uid, IdOf, None

VARIABLE handler    \* handler[u]: the session of u, or None

Init == handler = [u \in Uid |-> None]

Add(s) ==
    /\ handler[IdOf[s]] = None
    /\ handler' = [handler EXCEPT ![IdOf[s]] = s]

Remove(s) ==
    /\ handler[IdOf[s]] = s
    /\ handler' = [handler EXCEPT ![IdOf[s]] = None]

Next == \E s \in Session : Add(s) \/ Remove(s)

Spec == Init /\ [][Next]_handler
===============================================================================
