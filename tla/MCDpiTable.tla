------------------------------ MODULE MCDpiTable ------------------------------
(* DpiTable with the real DPI_NUM: one client, flows to the two ports the    *)
(* table knows.                                                              *)
EXTENDS DpiTable

CONSTANTS web, tls

TablePort == [f \in Flows |-> IF f = web THEN 80 ELSE 443]
SinglePayloads == {{p} : p \in ConfigPid} \cup {{}, {14, 15}, {3, 9}}
=============================================================================
