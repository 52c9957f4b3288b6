------------------------------ MODULE MCOrders ------------------------------
(* Two customers, one seller, two schedules and two requests in progress at *)
(* one time: a deletion can meet a reservation, a reservation a removal and *)
(* a new order on the same listing.                                         *)
EXTENDS Orders, TLC

CONSTANTS c1, c2, v, s1, s2, r1, r2

Symmetry == Permutations(Req) \cup Permutations(Customers)
=============================================================================
