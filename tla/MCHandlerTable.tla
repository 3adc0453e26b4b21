---------------------------- MODULE MCHandlerTable ----------------------------
(* An instance of HandlerTable for TLC that meets both limits: 7 users exceed  *)
(* the top load of 8 buckets, and an empty table falls below the bottom load   *)
(* of 4.  Chains hold several users at either size; user 1 has two sessions.   *)
EXTENDS HandlerTable

CONSTANTS s1, s2, s3, s4, s5, s6, s7, extra
Sessions == {s1, s2, s3, s4, s5, s6, s7, extra}
Ids == [s \in Sessions |->
          CASE s = s1 -> 1 [] s = s2 -> 2 [] s = s3 -> 3 [] s = s4 -> 4
            [] s = s5 -> 5 [] s = s6 -> 6 [] s = s7 -> 7 [] s = extra -> 1]
Hashes == <<0, 1, 2, 3, 4, 8, 13>>
===============================================================================
