------------------------------ MODULE MCDelivery ------------------------------
(* Instances of Delivery for TLC.                                              *)
EXTENDS Delivery

CONSTANTS short, long
TwoAdders == {short, long}
Sizes == [t \in TwoAdders |-> IF t = short THEN 1 ELSE 2]
Adds == [t \in TwoAdders |-> IF t = short THEN 2 ELSE 1]
===============================================================================
