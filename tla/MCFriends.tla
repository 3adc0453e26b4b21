------------------------------- MODULE MCFriends ------------------------------
(* Instances of Friends for TLC.                                               *)
EXTENDS Friends
===============================================================================
