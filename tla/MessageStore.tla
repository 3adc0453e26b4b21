------------------------------ MODULE MessageStore ----------------------------
(* What a file of undelivered messages is for: it keeps every message put into *)
(* it, in order, until they are all taken for delivery.                        *)
EXTENDS Sequences

CONSTANT Message

VARIABLES store, taken

Init == store = <<>> /\ taken = <<>>

Put(m) == store' = Append(store, m) /\ UNCHANGED taken

TakeAll == taken' = taken \o store /\ store' = <<>>

Next == TakeAll \/ \E m \in Message : Put(m)

Spec == Init /\ [][Next]_<<store, taken>>
===============================================================================
