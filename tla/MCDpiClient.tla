----------------------------- MODULE MCDpiClient -----------------------------
(* Users 3 and 200 (the rounds reach 3), hosts 100 and 101; files with both  *)
(* directions, with a packet of no user, and with more frames than the       *)
(* arrays hold.                                                              *)
EXTENDS DpiClient

Fr(s, d, n) == [src |-> s, dst |-> d, len |-> n]

MCFiles ==
    { << Fr(3, 100, 2), Fr(100, 3, 4) >>,
      << Fr(200, 101, 3), Fr(100, 101, 2) >>,
      << Fr(3, 200, 1), Fr(101, 200, 2) >>,
      << Fr(100, 200, 2), Fr(200, 100, 2), Fr(3, 101, 2) >> }
=============================================================================
