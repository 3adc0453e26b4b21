------------------------------ MODULE MCProtocol ------------------------------
(* Protocol for TLC.                                                           *)
EXTENDS Protocol

CONSTANTS a, b, c

(* Two threads send at the client, one at the server; only the client sends    *)
(* keep-alives, or nobody does.                                                *)
TwoAndOne == [s \in Side |-> IF s = "client" THEN {a, b} ELSE {c}]
ClientKA == [s \in Side |-> IF s = "client" THEN 1 ELSE 0]
NoKA == [s \in Side |-> 0]
===============================================================================
