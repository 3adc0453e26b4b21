-------------------------------- MODULE MCLock --------------------------------
(* Lock for TLC: three threads and a counter that is full at two readers, so   *)
(* that both reasons to wait in acquire_readlock occur.                        *)
EXTENDS Lock, TLC

Symmetry == Permutations(Threads)
===============================================================================
