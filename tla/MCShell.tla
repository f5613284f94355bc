------------------------------- MODULE MCShell -------------------------------
(* Two threads, two users, three flows, two of them of the same user.        *)
EXTENDS Shell, TLC

CONSTANTS t1, t2

MCIpOf == 11 :> 1 @@ 12 :> 1 @@ 21 :> 2

Symmetric == Permutations(Threads)
=============================================================================
