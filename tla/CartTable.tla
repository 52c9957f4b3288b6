------------------------------ MODULE CartTable -------------------------------
(***************************************************************************)
(* What the pages of the shop see of the server: one customer's cart, and  *)
(* calls to its API that are answered or fail.                             *)
(*                                                                         *)
(* The table is unique by customer and listing, so an order is named by    *)
(* its listing.  A handler that changes an order looks for it first, in a  *)
(* statement of its own; what the other handlers do is here the committed  *)
(* effect of their last statement.  All their statements, and their races  *)
(* with the seller's, are module Orders.                                   *)
(***************************************************************************)
EXTENDS Naturals, Sequences, SequencesExt, FiniteSets, Filters, Calls

CONSTANTS
  Products,        \* listings
  SellerOf,        \* whose they are
  Schedules,
  Offered,         \* products_schedules: where a listing can be picked up
  MaxAmount,       \* bound: 20 in the pages' counters
  Before           \* the sequences of orders the pages may find

Amounts == 1..MaxAmount
Item == [order : Products, amount : Amounts]

ASSUME CartTableAssumption ==
  /\ MaxAmount \in Nat \ {0}
  /\ DOMAIN SellerOf = Products
  /\ Offered \in [Products -> SUBSET Schedules]
  /\ Before \subseteq Seq(Item)

VARIABLES
  placed,    \* the orders in the sequence of their creation
  row        \* cart

table == <<placed, row>>

InCart == 1    \* status: not reserved
Reserved == 2
Removed == 0   \* the row is gone with its listing

Row == [status : {Removed, InCart, Reserved}, amount : Amounts, schedule : Schedules]

TableTypeOK ==
  /\ placed \in Seq(Products)
  /\ row \in [ToSet(placed) -> Row]

TableInit ==
  \E orders \in Before :
    /\ placed = [i \in DOMAIN orders |-> orders[i].order]
    /\ row \in [{orders[i].order : i \in DOMAIN orders} ->
                 [status : {InCart}, amount : Amounts, schedule : Schedules]]
    /\ \A i \in DOMAIN orders : LET p == orders[i].order IN
         row[p].amount = orders[i].amount /\ row[p].schedule \in Offered[p]

Placed == DOMAIN row
Exists(p) == p \in Placed /\ row[p].status # Removed
IsRemoved(p) == p \in Placed /\ row[p].status = Removed
-----------------------------------------------------------------------------
(* GET cart: the orders that are not reserved, the newest first; grouped   *)
(* by the time of creation, so every group that is answered has one order. *)
Listing ==
  LET open == Kept(placed, {p \in Placed : row[p].status = InCart}) IN
  [i \in DOMAIN open |-> open[Len(open) + 1 - i]]

(* POST cart: the schedule must be offered and the pair must be new. *)
Insert(p, amount, schedule) ==
  IF schedule \in Offered[p] /\ p \notin Placed
    THEN /\ placed' = Append(placed, p)
         /\ row' = [q \in Placed \cup {p} |->
              IF q = p THEN [status |-> InCart, amount |-> amount, schedule |-> schedule]
                       ELSE row[q]]
    ELSE UNCHANGED table

CanInsert(p, schedule) == schedule \in Offered[p] /\ p \notin Placed

(* How the look-up of an order by its id ends, in the reservation and in   *)
(* PATCH cart; the statement of either may find the order gone again.      *)
LookUp(p) == IF Exists(p) THEN {"found", "rejected"} ELSE {"rejected"}

(* POST reserve: whatever the status was. *)
Reserve(p) ==
  /\ row' = IF Exists(p) THEN [row EXCEPT ![p].status = Reserved] ELSE row
  /\ UNCHANGED placed

(* PATCH cart: whatever the status is. *)
Patch(p, field, value) ==
  /\ row' = IF ~Exists(p) THEN row
            ELSE IF field = "amount" THEN [row EXCEPT ![p].amount = value]
                                     ELSE [row EXCEPT ![p].schedule = value]
  /\ UNCHANGED placed

(* The seller removes the listing, and its orders with it. *)
RemoveListing(p) ==
  /\ Exists(p)
  /\ row' = [row EXCEPT ![p].status = Removed]
  /\ UNCHANGED placed
=============================================================================
