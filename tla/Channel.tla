------------------------------- MODULE Channel --------------------------------
(* What inet/protocol.c promises to its callers: between two programs, in each *)
(* direction, messages come out of get_message in the order add_message took   *)
(* them, each once; a connection may break for good, and then some are lost.   *)
EXTENDS Sequences

CONSTANTS Side, Peer(_), Message

VARIABLES
    taken,        \* taken[s]: the messages add_message ever took from s
    undelivered,  \* undelivered[s]: those its peer has not received, in order
    up            \* up[s]: the end at s is running

channelVars == <<taken, undelivered, up>>

Init ==
    /\ taken = [s \in Side |-> {}]
    /\ undelivered = [s \in Side |-> <<>>]
    /\ up = [s \in Side |-> TRUE]

Send(s) ==
    /\ up[s]
    /\ \E m \in Message \ taken[s] :
          /\ taken' = [taken EXCEPT ![s] = @ \cup {m}]
          /\ undelivered' = [undelivered EXCEPT ![s] = Append(@, m)]
    /\ UNCHANGED up

Receive(s) ==
    /\ up[s]
    /\ undelivered[Peer(s)] # <<>>
    /\ undelivered' = [undelivered EXCEPT ![Peer(s)] = Tail(@)]
    /\ UNCHANGED <<taken, up>>

Break(s) ==
    /\ up[s]
    /\ up' = [up EXCEPT ![s] = FALSE]
    /\ UNCHANGED <<taken, undelivered>>

Next == \E s \in Side : Send(s) \/ Receive(s) \/ Break(s)

Spec == Init /\ [][Next]_channelVars
===============================================================================
