---------------------------- MODULE MCSendMessage -----------------------------
(* An instance of SendMessage for TLC: two threads of the server send with one *)
(* user's keyset.                                                              *)
EXTENDS SendMessage

CONSTANTS owner, other
ServerThreads == {owner, other}
===============================================================================
