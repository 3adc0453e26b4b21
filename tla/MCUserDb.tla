-------------------------------- MODULE MCUserDb ------------------------------
(* Instances of UserDb for TLC: users whose hashes share buckets; sessions are *)
(* interchangeable.                                                            *)
EXTENDS UserDb, TLC

Hashes == [u \in Uid |-> u]
Sessions == Permutations(Session)

(* The struct user of an idle session is never read.                           *)
Relevant ==
    <<process, files, place, nkeys, ncrashes,
      [t \in {s \in Session : place[s] # "idle"} |-> <<uid[t], und_auth[t]>>]>>
===============================================================================
