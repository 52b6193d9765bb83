---------------------------- MODULE MC_Resolver ----------------------------
(* Model values for the price sockets.                                     *)
EXTENDS Resolver

CONSTANTS c1, c2

MC_Clients == {c1, c2}

====
