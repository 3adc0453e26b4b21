------------------------------ MODULE SendMessage -----------------------------
(* crypto/crypto_layer.c: the threads that send with one keyset, and the other *)
(* end of the connection.  On the client one thread sends.  On the server the  *)
(* keyset of a user is in the handler table, and whoever has a message for the *)
(* user calls send_message with it: no lock is held (server/client_handler.c:  *)
(* 302-313).  Accesses to keys->nonce are therefore steps of their own.        *)
(*                                                                             *)
(* The connection is the FIFO channel that Protocol implements.                *)
EXTENDS Integers, Sequences

CONSTANTS
    Sender,        \* the threads that call send_message
    FirstNonce,    \* keys->nonce after the handshake
    MaxMsgs        \* bound: calls of each thread

(* What the theorems assume of the constants.                                  *)
SendAssumption == FirstNonce \in Nat /\ MaxMsgs \in Nat

VARIABLES
    nonce,         \* keys->nonce
    at, nsent,     \* where each thread is, and which of its messages it sends
    m,             \* the message each thread builds
    inc,           \* what each thread loaded for keys->nonce++
    wire,          \* every message added to the connection, in order
    received       \* what recv_message made of the first of them

sendvars == <<nonce, at, nsent, m, inc, wire, received>>

(* seq_num, the nonce in the message, the nonce it is encrypted with, the text.*)
Cipher(seq, head, key, text) ==
    [seq_num |-> seq, head |-> head, key |-> key, text |-> text]

NoMessage == Cipher(0, 0, 0, <<>>)

SendInit ==
    /\ nonce = FirstNonce
    /\ at = [t \in Sender |-> "idle"]
    /\ nsent = [t \in Sender |-> 0]
    /\ m = [t \in Sender |-> NoMessage]
    /\ inc = [t \in Sender |-> 0]
    /\ wire = <<>> /\ received = <<>>

goto(t, from, to) == at[t] = from /\ at' = [at EXCEPT ![t] = to]

(* encrypt_message up to encbe64; the text is the thread and its message's     *)
(* number.                                                                     *)
encrypt_header(t) ==
    /\ nsent[t] < MaxMsgs
    /\ goto(t, "idle", "cipher")
    /\ nsent' = [nsent EXCEPT ![t] = @ + 1]
    /\ m' = [m EXCEPT ![t] = Cipher(nonce, nonce, nonce, <<t, nsent[t] + 1>>)]
    /\ UNCHANGED <<nonce, inc, wire, received>>

(* chacha_enc: keys->nonce is read again after the call of encbe64.            *)
encrypt_text(t) ==
    /\ goto(t, "cipher", "load")
    /\ m' = [m EXCEPT ![t].key = nonce]
    /\ UNCHANGED <<nonce, nsent, inc, wire, received>>

(* keys->nonce++, a load and a store.                                          *)
nonce_load(t) ==
    /\ goto(t, "load", "store")
    /\ inc' = [inc EXCEPT ![t] = nonce]
    /\ UNCHANGED <<nonce, nsent, m, wire, received>>

nonce_store(t) ==
    /\ goto(t, "store", "add")
    /\ nonce' = inc[t] + 1
    /\ UNCHANGED <<nsent, m, inc, wire, received>>

add_message(t) ==
    /\ goto(t, "add", "idle")
    /\ wire' = Append(wire, m[t])
    /\ UNCHANGED <<nonce, nsent, m, inc, received>>

send_message(t) ==
    \/ encrypt_header(t) \/ encrypt_text(t)
    \/ nonce_load(t) \/ nonce_store(t) \/ add_message(t)

Garbage == <<"garbage", 0>>

(* get_message and decrypt_message: the code over the nonce and the ciphertext *)
(* is always right; the text is what was sent if the nonces agree.             *)
recv_message ==
    /\ Len(received) < Len(wire)
    /\ LET c == wire[Len(received) + 1]
       IN  received' = Append(received,
                              IF c.key = c.head THEN c.text ELSE Garbage)
    /\ UNCHANGED <<nonce, at, nsent, m, inc, wire>>

SendNext == (\E t \in Sender : send_message(t)) \/ recv_message

SendSpec == SendInit /\ [][SendNext]_sendvars

-------------------------------------------------------------------------------
Text == Sender \X (1 .. MaxMsgs)
Messages == [seq_num : Nat, head : Nat, key : Nat, text : Text]

SendTypes ==
    /\ nonce \in Nat
    /\ at \in [Sender -> {"idle", "cipher", "load", "store", "add"}]
    /\ nsent \in [Sender -> 0 .. MaxMsgs]
    /\ m \in [Sender -> Messages \cup {NoMessage}]
    /\ \A t \in Sender : at[t] # "idle" => m[t] \in Messages
    /\ inc \in [Sender -> Nat]
    /\ wire \in Seq(Messages)
    /\ received \in Seq(Text \cup {Garbage})

(* inet/message.h:6: "seq_num is used as a nonce, so it MUST be unique".       *)
NonceUnique ==
    \A i, j \in 1 .. Len(wire) : wire[i].key = wire[j].key => i = j

(* Every nonce written down is of the past: below keys->nonce, or equal to it  *)
(* in the message whose nonce_store is still to come.                          *)
NoncesPast ==
    /\ \A i \in 1 .. Len(wire) : wire[i].key < nonce
    /\ \A t \in Sender :
          /\ at[t] \in {"cipher", "load", "store"} => m[t].key = nonce
          /\ at[t] = "store" => inc[t] = nonce
          /\ at[t] = "add" => m[t].key < nonce
          /\ at[t] = "add" =>
                \A i \in 1 .. Len(wire) : wire[i].key < m[t].key
          /\ at[t] # "idle" => m[t].seq_num = m[t].key /\ m[t].head = m[t].key

(* What is on the wire uses each nonce once, in rising order (inet/            *)
(* message_protocol.txt:23: "must be higher than previous numbers"), and says  *)
(* so in its header.                                                           *)
NoncesRise ==
    /\ \A i, j \in 1 .. Len(wire) : i < j => wire[i].key < wire[j].key
    /\ \A i \in 1 .. Len(wire) :
          wire[i].seq_num = wire[i].key /\ wire[i].head = wire[i].key

(* The other end reads what was sent.                                          *)
ReadsWhatWasSent ==
    /\ Len(received) <= Len(wire)
    /\ \A i \in 1 .. Len(received) : received[i] = wire[i].text

(* The inductive invariant, for one sending thread.                            *)
NonceInv == SendTypes /\ NoncesPast /\ NoncesRise /\ ReadsWhatWasSent
===============================================================================
