----------------------------- MODULE MCDpiDaemon -----------------------------
(* A small instance of DpiDaemon: a one-packet classifier, a two-packet one  *)
(* that shares no pattern with it, and one for another port.                 *)
EXTENDS DpiDaemon, TLC

CONSTANTS c1, c2, f1, f2

MCCf == {2000, 2001, 2002}
MCPid == 1..4
MCTable ==
    2000 :> [port |-> 443, fin |-> {1}, next |-> 0 :> (1 :> 1) @@ 1 :> <<>>]
    @@ 2001 :> [port |-> 443, fin |-> {2},
                next |-> 0 :> (2 :> 1) @@ 1 :> (3 :> 2) @@ 2 :> <<>>]
    @@ 2002 :> [port |-> 80, fin |-> {1}, next |-> 0 :> (4 :> 1) @@ 1 :> <<>>]
MCCfOf == 1 :> 2000 @@ 2 :> 2001 @@ 3 :> 2001 @@ 4 :> 2002

MCPort == [f \in Flows |-> IF f = f2 THEN 80 ELSE 443]
MixedPayloads == {{2}, {3}, {1, 4}}
TwoPayloads == {{2}, {1, 3}}
LivePayloads == {{}, {1}}

Symmetric == Permutations(Conns)
=============================================================================
