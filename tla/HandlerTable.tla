------------------------------ MODULE HandlerTable ----------------------------
(* The handler table of server/client_handler.c: a hash table with chains that *)
(* tells, for a user, the client_handler of the session that serves them.      *)
(* Each operation holds ht.l (see Lock) from its first to its last access, so  *)
(* it is one step.  malloc does not fail.                                      *)
EXTENDS Integers, Sequences, FiniteSets, SequencesExt

CONSTANTS
    Session,              \* client_handler structures, one per connection
    Uid,
    IdOf,                 \* IdOf[s]: the user whom s serves
    Hash,                 \* Hash[u]: hash_id
    MIN_SIZE, MAX_SIZE,
    MaxAtStop,            \* bound: connections when the server is told to stop
    None                  \* NULL

ASSUME TableAssumption ==
    /\ IsFiniteSet(Session) /\ IsFiniteSet(Uid)
    /\ IdOf \in [Session -> Uid]
    /\ Hash \in [Uid -> Nat]
    /\ MIN_SIZE \in Nat \ {0} /\ MAX_SIZE \in Nat /\ MIN_SIZE <= MAX_SIZE
    /\ MaxAtStop \in Nat
    /\ None \notin Session

VARIABLES
    buckets, size, elements,   \* ht
    pc,                        \* where the thread of each session is
    stop,                      \* client_handler.stop
    ending,                    \* handle_connections has left its loop
    destroyed                  \* calls of destroy_handler_table

table == <<buckets, size, elements>>
vars == <<table, pc, stop, ending, destroyed>>

init_handler_table ==
    /\ size = MIN_SIZE
    /\ buckets = [i \in 0 .. MIN_SIZE - 1 |-> <<>>]
    /\ elements = 0

Init ==
    /\ init_handler_table
    /\ pc = [s \in Session |-> "authorized"]
    /\ stop = [s \in Session |-> FALSE]
    /\ ending = FALSE /\ destroyed = 0

Index(u, n) == Hash[u] % n
Chain(u) == buckets[Index(u, size)]
First(u) == SelectInSeq(Chain(u), LAMBDA s : IdOf[s] = u)     \* 0: not there
InChain(u) == First(u) # 0

get_handler(u) == IF InChain(u) THEN Chain(u)[First(u)] ELSE None

(* Variant: the chains are moved whole.                                        *)
Rehash_KeepsIndex(b, n) ==
    [i \in 0 .. n - 1 |-> IF i < size THEN b[i] ELSE <<>>]

(* Bucket by bucket and from the head of each chain, every handler goes to the *)
(* head of its new chain.                                                      *)
Prepend(b, s, n) == [b EXCEPT ![Index(IdOf[s], n)] = <<s>> \o @]
MoveChain(chain, b, n) ==
    LET moved[k \in 0 .. Len(chain)] ==
            IF k = 0 THEN b ELSE Prepend(moved[k - 1], chain[k], n)
    IN  moved[Len(chain)]
Rehash(b, n) ==
    LET moved[i \in 0 .. size] ==
            IF i = 0 THEN [j \in 0 .. n - 1 |-> <<>>]
                     ELSE MoveChain(b[i - 1], moved[i - 1], n)
    IN  moved[size]

(* The table b at size n, if n is allowed.                                     *)
resize_handler_table(b, n) ==
    IF n > MAX_SIZE \/ n < MIN_SIZE
    THEN buckets' = b /\ size' = size
    ELSE buckets' = Rehash(b, n) /\ size' = n

Keep(b) == buckets' = b /\ size' = size

(* (uint64_t) (ht.size * TOP_LOAD) and (uint64_t) (ht.size * BOT_LOAD)         *)
Top == (size * 3) \div 4
Bot == size \div 4

(* Variant: the user's earlier session is not looked for.                      *)
add_handler_NoCheck(s) ==
    /\ destroyed = 0 /\ pc[s] = "authorized"
    /\ LET b == [buckets EXCEPT ![Index(IdOf[s], size)] = Append(@, s)]
       IN  /\ elements' = elements + 1
           /\ IF elements' > Top THEN resize_handler_table(b, size * 2) ELSE Keep(b)
           /\ pc' = [pc EXCEPT ![s] = "serving"]
    /\ UNCHANGED <<stop, ending, destroyed>>

(* Variant: the check for growth is off by one.                                *)
add_handler_GrowsLate(s) ==
    /\ destroyed = 0 /\ pc[s] = "authorized"
    /\ \/ /\ InChain(IdOf[s])
          /\ pc' = [pc EXCEPT ![s] = "gone"]
          /\ UNCHANGED table
       \/ /\ ~InChain(IdOf[s])
          /\ LET b == [buckets EXCEPT ![Index(IdOf[s], size)] = Append(@, s)]
             IN  /\ elements' = elements + 1
                 /\ IF elements > Top THEN resize_handler_table(b, size * 2)
                                      ELSE Keep(b)
          /\ pc' = [pc EXCEPT ![s] = "serving"]
    /\ UNCHANGED <<stop, ending, destroyed>>

(* A second session of a user is refused, and its connection ended.            *)
add_handler(s) ==
    /\ destroyed = 0 /\ pc[s] = "authorized"
    /\ \/ /\ InChain(IdOf[s])
          /\ pc' = [pc EXCEPT ![s] = "gone"]
          /\ UNCHANGED table
       \/ /\ ~InChain(IdOf[s])
          /\ LET b == [buckets EXCEPT ![Index(IdOf[s], size)] = Append(@, s)]
             IN  /\ elements' = elements + 1
                 /\ IF elements' > Top THEN resize_handler_table(b, size * 2)
                                       ELSE Keep(b)
          /\ pc' = [pc EXCEPT ![s] = "serving"]
    /\ UNCHANGED <<stop, ending, destroyed>>

(* ht_cleanup_end_handler: rem_handler of the session's own user, when the     *)
(* connection has ended or stop is seen ...                                    *)
rem_handler(s) ==
    /\ destroyed = 0 /\ pc[s] = "serving"
    /\ LET u == IdOf[s]
       IN  \/ /\ ~InChain(u)
              /\ UNCHANGED table
           \/ /\ InChain(u)
              /\ elements' = elements - 1
              /\ LET b == [buckets EXCEPT ![Index(u, size)] = RemoveAt(@, First(u))]
                 IN  IF elements' < Bot THEN resize_handler_table(b, size \div 2)
                                        ELSE Keep(b)
    /\ pc' = [pc EXCEPT ![s] = "removed"]
    /\ UNCHANGED <<stop, ending, destroyed>>

(* ... and, with no lock held any more, the last to leave frees the table; two *)
(* threads can both be the last.                                               *)
destroy_handler_table(s) ==
    /\ pc[s] = "removed"
    /\ destroyed' = IF stop[s] /\ elements = 0 THEN destroyed + 1 ELSE destroyed
    /\ pc' = [pc EXCEPT ![s] = "gone"]
    /\ UNCHANGED <<table, stop, ending>>

end_handlers ==
    /\ Cardinality({s \in Session : pc[s] # "gone"}) <= MaxAtStop
    /\ ~ending /\ destroyed = 0
    /\ ending' = TRUE
    /\ stop' = [s \in Session |->
          stop[s] \/ \E i \in DOMAIN buckets : Contains(buckets[i], s)]
    /\ UNCHANGED <<table, pc, destroyed>>

(* spawn_handler, the handshake and auth_user: a new connection of the user.   *)
spawn_handler(s) ==
    /\ pc[s] = "gone" /\ ~ending
    /\ pc' = [pc EXCEPT ![s] = "authorized"]
    /\ UNCHANGED <<table, stop, ending, destroyed>>

client_handler(s) ==
    add_handler(s) \/ rem_handler(s) \/ destroy_handler_table(s) \/ spawn_handler(s)

Next == end_handlers \/ \E s \in Session : client_handler(s)

Spec == Init /\ [][Next]_vars

-------------------------------------------------------------------------------
TypeOK ==
    /\ size \in MIN_SIZE .. MAX_SIZE
    /\ buckets \in [0 .. size - 1 -> Seq(Session)]
    /\ elements \in 0 .. Cardinality(Uid)
    /\ pc \in [Session -> {"authorized", "serving", "removed", "gone"}]
    /\ stop \in [Session -> BOOLEAN]
    /\ ending \in BOOLEAN
    /\ destroyed \in 0 .. Cardinality(Session)

(* The table holds the serving sessions, each once, in the chain where         *)
(* get_handler and rem_handler look for it, and elements counts them: through  *)
(* any series of additions, removals and resizes.                              *)
Places == UNION {{i} \X DOMAIN buckets[i] : i \in 0 .. size - 1}
At(p) == buckets[p[1]][p[2]]
HoldsServing ==
    /\ {At(p) : p \in Places} = {s \in Session : pc[s] = "serving"}
    /\ \A p, q \in Places : At(p) = At(q) => p = q
    /\ \A p \in Places : Index(IdOf[At(p)], size) = p[1]
    /\ elements = Cardinality(Places)

TableInv == TypeOK /\ HoldsServing

(* The chains stay short, and the table small: the load is at most TOP_LOAD    *)
(* unless the table is as large as it may be, and at least BOT_LOAD unless it  *)
(* is as small.                                                                *)
LoadBounded ==
    /\ elements <= Top \/ size * 2 > MAX_SIZE
    /\ elements >= Bot \/ size \div 2 < MIN_SIZE

(* The table implements the map: get_handler gives a user's session from the   *)
(* step that adds it to the step that removes it, whatever the other sessions  *)
(* do and however often the table is resized.                                  *)
Abstract == INSTANCE HandlerMap WITH
    handler <- [u \in Uid |-> get_handler(u)]
ImplementsMap == Abstract!Spec
===============================================================================
