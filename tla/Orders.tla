------------------------------- MODULE Orders -------------------------------
(***************************************************************************)
(* The cart, the orders and the listings they are about.                   *)
(*                                                                         *)
(* The REST server runs every handler as a task of its own, and a handler  *)
(* is a sequence of SQL statements: it reads who owns the row, compares,   *)
(* and then writes, each statement committed by itself unless the handler  *)
(* opens a transaction.  An action is one statement with the decision that *)
(* precedes it; req[r] is what request r has read and where it stands.     *)
(* A statement that fails answers with an error and changes nothing.       *)
(*                                                                         *)
(* Not modelled: amounts, prices and photos; reviews, which a deletion     *)
(* removes in the same way as cart rows.                                   *)
(***************************************************************************)
EXTENDS Naturals, FiniteSets

CONSTANTS
  Customers, Sellers,  \* user ids by role; a user may have both
  Schedules, NoSchedule, NoUser,
  Req,                 \* bound: requests in progress at one time
  MaxOrders,           \* bound: cart rows ever inserted
  MaxListings          \* bound: seller_products rows ever inserted

Users == Customers \cup Sellers
Order == 1..MaxOrders
Listing == 1..MaxListings

ASSUME OrdersAssumption ==
  /\ MaxOrders \in Nat /\ MaxListings \in Nat
  /\ NoSchedule \notin Schedules /\ NoUser \notin Users

VARIABLES
  lastListing, listed, owner,  \* seller_products: sequence, live ids, seller_id
  offers,                      \* products_schedules
  seen,                        \* products_seen_recently
  schedules,                   \* schedules
  lastOrder, orders, row,      \* cart: sequence, live ids, contents
  req,                         \* the requests in progress
  \* history, read by no action
  moved,                       \* orders whose pickup schedule was patched
  raced                        \* orders reserved while a deletion had passed its check

catalogue == <<lastListing, listed, owner, offers, seen, schedules>>
cart == <<lastOrder, orders, row>>
history == <<moved, raced>>
vars == <<catalogue, cart, req, history>>
-----------------------------------------------------------------------------
(* CartStatus. *)
Pending == 1
Confirmed == 2

(* Mutation: a status that the enumeration does not have. *)
Unlisted == 6

Cancelled == 3
Delivered == 4

Row == [product : Listing \cup {0}, customer : Users \cup {NoUser}, status : 0..5,
        withdrawn : Schedules \cup {NoSchedule}, picked : BOOLEAN]
NoRow == [product |-> 0, customer |-> NoUser, status |-> 0,
          withdrawn |-> NoSchedule, picked |-> FALSE]

(* Where a request stands: the statement it executes next. *)
OrderWrites == {"reserve", "patch", "remove", "cancel", "pickup"}
Points == OrderWrites \cup
  {"idle", "insert", "patch_listing", "check_open", "delete_cart", "delete_listing"}
Request == [at : Points, user : Users \cup {NoUser}, order : 0..MaxOrders,
            product : 0..MaxListings, schedule : Schedules \cup {NoSchedule},
            rows : SUBSET Order]
At(point, u, i, p, s) ==
  [at |-> point, user |-> u, order |-> i, product |-> p, schedule |-> s, rows |-> {}]
Holding(q, rows) ==
  [at |-> "delete_listing", user |-> q.user, order |-> q.order, product |-> q.product,
   schedule |-> q.schedule, rows |-> rows]
Idle == At("idle", NoUser, 0, 0, NoSchedule)

Init ==
  /\ lastListing = 0 /\ listed = {} /\ owner = [p \in Listing |-> NoUser]
  /\ offers = {} /\ seen = {} /\ schedules = Schedules
  /\ lastOrder = 0 /\ orders = {} /\ row = [i \in Order |-> NoRow]
  /\ req = [r \in Req |-> Idle]
  /\ moved = {} /\ raced = {}

Begin(r, request) == req[r] = Idle /\ req' = [req EXCEPT ![r] = request]
Done(r) == req' = [req EXCEPT ![r] = Idle]

(* Rows that an open transaction has deleted: other writers wait for it. *)
Locked(i) == \E r \in Req : i \in req[r].rows

OrdersOf(p) == {i \in orders : row[i].product = p}

(* DELETE FROM cart, as its commit makes it visible. *)
Delete(rows) ==
  /\ orders' = orders \ rows
  /\ row' = [i \in Order |-> IF i \in rows THEN NoRow ELSE row[i]]
  /\ moved' = moved \ rows /\ raced' = raced \ rows
-----------------------------------------------------------------------------
(* POST cart: the schedule is looked up among the listing's, then the row  *)
(* is inserted, with the database's foreign keys and its unique key.       *)

PostCart(r, u, p, s) ==
  /\ s # NoSchedule => <<p, s>> \in offers
  /\ Begin(r, At("insert", u, 0, p, s))
  /\ UNCHANGED <<catalogue, cart, history>>

(* Mutation: ids taken from the rows instead of the sequence. *)
AfterGreatest ==
  IF orders = {} THEN 1 ELSE (CHOOSE i \in orders : \A j \in orders : j <= i) + 1

(* nextval of the id column's sequence. *)
NewOrder == lastOrder + 1

InsertCart(r) ==
  LET u == req[r].user
      p == req[r].product
      s == req[r].schedule
      same == {i \in OrdersOf(p) : row[i].customer = u}
      valid == same = {} /\ p \in listed /\ s \in schedules \cup {NoSchedule} IN
  /\ req[r].at = "insert"
  /\ \A i \in same : ~Locked(i)
  /\ \/ /\ valid /\ NewOrder \in Order
        /\ lastOrder' = NewOrder
        /\ orders' = orders \cup {NewOrder}
        /\ row' = [row EXCEPT ![NewOrder] =
             [product |-> p, customer |-> u, status |-> Pending,
              withdrawn |-> s, picked |-> FALSE]]
     \/ ~valid /\ UNCHANGED cart
  /\ Done(r)
  /\ UNCHANGED <<catalogue, history>>
-----------------------------------------------------------------------------
(* The handlers that name an order: get_customer or get_seller, then one   *)
(* UPDATE or DELETE by id.                                                 *)

Authorised(u, i, write) ==
  \/ u = row[i].customer /\ write \in {"reserve", "patch", "remove", "cancel"}
  \/ u = owner[row[i].product] /\ write \in {"cancel", "pickup"}

CheckOrder(r, u, i, write) ==
  /\ i \in orders
  /\ Authorised(u, i, write)
  /\ Begin(r, At(write, u, i, 0, NoSchedule))
  /\ UNCHANGED <<catalogue, cart, history>>

(* UPDATE cart SET ... WHERE id: no row, no change, no error. *)
Update(r, write, new) ==
  /\ req[r].at = write /\ ~Locked(req[r].order)
  /\ row' = IF req[r].order \in orders THEN [row EXCEPT ![req[r].order] = new] ELSE row
  /\ Done(r)
  /\ UNCHANGED <<catalogue, lastOrder, orders>>

(* A deletion of the order's listing has found no open order and has not   *)
(* yet deleted the cart rows.                                              *)
DeletionAhead(i) ==
  \E d \in Req : req[d].at = "delete_cart" /\ req[d].product = row[i].product

Reserve(r) ==
  LET i == req[r].order IN
  /\ Update(r, "reserve", [row[i] EXCEPT !.status = Confirmed])
  /\ raced' = IF i \in orders /\ DeletionAhead(i) THEN raced \cup {i} ELSE raced \ {i}
  /\ UNCHANGED moved

PatchCart(r) ==
  LET i == req[r].order IN
  /\ \E s \in schedules \cup {NoSchedule} :
       /\ Update(r, "patch", [row[i] EXCEPT !.withdrawn = IF s = NoSchedule THEN @ ELSE s])
       /\ moved' = IF s = NoSchedule THEN moved ELSE moved \cup ({i} \cap orders)
  /\ UNCHANGED raced

CancelOrder(r) ==
  /\ Update(r, "cancel", [row[req[r].order] EXCEPT !.status = Cancelled])
  /\ UNCHANGED history

PickupStatus(r) ==
  /\ \E b \in BOOLEAN : Update(r, "pickup", [row[req[r].order] EXCEPT !.picked = b])
  /\ UNCHANGED history

RemoveFromCart(r) ==
  /\ req[r].at = "remove" /\ ~Locked(req[r].order)
  /\ Delete({req[r].order})
  /\ Done(r)
  /\ UNCHANGED <<catalogue, lastOrder>>
-----------------------------------------------------------------------------
(* A seller's listings and schedules. *)

(* POST products: the listing and its schedules, in one transaction. *)
PostListing(u, S) ==
  /\ lastListing + 1 \in Listing /\ S \subseteq schedules
  /\ lastListing' = lastListing + 1
  /\ listed' = listed \cup {lastListing + 1}
  /\ owner' = [owner EXCEPT ![lastListing + 1] = u]
  /\ offers' = offers \cup ({lastListing + 1} \X S)
  /\ UNCHANGED <<seen, schedules, cart, req, history>>

(* GET products/:id by a signed-in customer. *)
ViewListing(u, p) ==
  /\ p \in listed
  /\ seen' = seen \cup {<<p, u>>}
  /\ UNCHANGED <<lastListing, listed, owner, offers, schedules, cart, req, history>>

CheckAuthor(r, u, p, next) ==
  /\ p \in listed /\ owner[p] = u
  /\ Begin(r, At(next, u, 0, p, NoSchedule))
  /\ UNCHANGED <<catalogue, cart, history>>

(* Mutation: a PATCH whose removals work. *)
ReplaceOffers(r) ==
  /\ req[r].at = "patch_listing"
  /\ \E S \in SUBSET schedules :
       offers' = {o \in offers : o[1] # req[r].product} \cup ({req[r].product} \X S)
  /\ Done(r)
  /\ UNCHANGED <<lastListing, listed, owner, seen, schedules, cart, history>>

(* PATCH products: the added schedules.  A removal is a syntax error of its *)
(* statement (`IN $2`), which rolls the transaction back, and so is a       *)
(* schedule that does not exist or is offered already.                      *)
PatchListing(r) ==
  LET p == req[r].product IN
  /\ req[r].at = "patch_listing"
  /\ \E S \in SUBSET schedules :
       offers' = IF p \in listed /\ ({p} \X S) \cap offers = {}
                 THEN offers \cup ({p} \X S) ELSE offers
  /\ Done(r)
  /\ UNCHANGED <<lastListing, listed, owner, seen, schedules, cart, history>>

(* DELETE schedules/:id: the foreign keys refuse a schedule in use. *)
DeleteSchedule(s) ==
  /\ s \in schedules
  /\ \A o \in offers : o[2] # s
  /\ \A i \in orders : row[i].withdrawn # s
  /\ schedules' = schedules \ {s}
  /\ UNCHANGED <<lastListing, listed, owner, offers, seen, cart, req, history>>
-----------------------------------------------------------------------------
(* DELETE products/:id: author, open orders, then one transaction. *)

(* Mutation: the query that looks for open orders misses confirmed ones. *)
DeliveredOrders(p) == {i \in OrdersOf(p) : row[i].status = Delivered}

(* `seller_product_id = $1 AND status = 2 OR status = 4` *)
OpenOrders(p) ==
  {i \in OrdersOf(p) : row[i].status = Confirmed} \cup
  {i \in orders : row[i].status = Delivered}

CheckOpenOrders(r) ==
  /\ req[r].at = "check_open"
  /\ \/ /\ OpenOrders(req[r].product) = {}
        /\ req' = [req EXCEPT ![r] = [@ EXCEPT !.at = "delete_cart"]]
     \/ OpenOrders(req[r].product) # {} /\ Done(r)
  /\ UNCHANGED <<catalogue, cart, history>>

DeleteCart(r) ==
  LET found == OrdersOf(req[r].product) IN
  /\ req[r].at = "delete_cart"
  /\ \A i \in found : ~Locked(i)
  /\ req' = [req EXCEPT ![r] = Holding(@, found)]
  /\ UNCHANGED <<catalogue, cart, history>>

Referenced(p, ignored) ==
  \/ \E o \in offers \cup seen : o[1] = p
  \/ OrdersOf(p) \ ignored # {}

(* The last DELETE and the commit; a row that still refers to the listing  *)
(* makes it fail and rolls everything back.                                *)
DeleteListing(r) ==
  LET p == req[r].product IN
  /\ req[r].at = "delete_listing"
  /\ \/ /\ ~Referenced(p, req[r].rows)
        /\ listed' = listed \ {p}
        /\ Delete(req[r].rows)
     \/ Referenced(p, req[r].rows) /\ UNCHANGED <<listed, orders, row, history>>
  /\ Done(r)
  /\ UNCHANGED <<lastListing, owner, offers, seen, schedules, lastOrder>>

(* The client goes away: the handler is dropped where it stands, and its   *)
(* transaction, if it has one open, is rolled back.                        *)
Drop(r) ==
  /\ req[r] # Idle
  /\ Done(r)
  /\ UNCHANGED <<catalogue, cart, history>>
-----------------------------------------------------------------------------
Handler(r) ==
  \/ \E u \in Customers, p \in Listing, s \in Schedules \cup {NoSchedule} :
       PostCart(r, u, p, s)
  \/ InsertCart(r)
  \/ \E u \in Users, i \in Order, write \in OrderWrites : CheckOrder(r, u, i, write)
  \/ Reserve(r) \/ PatchCart(r) \/ CancelOrder(r) \/ PickupStatus(r) \/ RemoveFromCart(r)
  \/ \E u \in Sellers, p \in Listing, next \in {"patch_listing", "check_open"} :
       CheckAuthor(r, u, p, next)
  \/ PatchListing(r) \/ CheckOpenOrders(r) \/ DeleteCart(r) \/ DeleteListing(r)
  \/ Drop(r)

Next ==
  \/ \E r \in Req : Handler(r)
  \/ \E u \in Sellers, S \in SUBSET Schedules : PostListing(u, S)
  \/ \E u \in Customers, p \in Listing : ViewListing(u, p)
  \/ \E s \in Schedules : DeleteSchedule(s)

Spec == Init /\ [][Next]_vars
-----------------------------------------------------------------------------
(* Type correctness of the tables and of the requests in progress. *)
TypeOK ==
  /\ lastListing \in 0..MaxListings /\ listed \subseteq 1..lastListing
  /\ owner \in [Listing -> Users \cup {NoUser}]
  /\ offers \subseteq Listing \X Schedules
  /\ seen \subseteq Listing \X Users
  /\ schedules \subseteq Schedules
  /\ lastOrder \in 0..MaxOrders /\ orders \subseteq 1..lastOrder
  /\ row \in [Order -> Row]
  /\ req \in [Req -> Request]
  /\ moved \subseteq Order /\ raced \subseteq Order

ActsForOwner ==
  \A i \in orders : i \notin orders' \/ row'[i] # row[i] =>
    \E r \in Req :
      /\ req[r].at \notin {"idle", "insert"} /\ req'[r] = Idle
      /\ req[r].user \in {row[i].customer, owner[row[i].product]}

(* An order is only ever changed or removed on behalf of its customer or of *)
(* the seller of its listing, although every handler compares ids in one    *)
(* statement and writes by id in a later one, when the row may be gone and  *)
(* others inserted: what it has read stays true of the id it writes to.     *)
ActedByOwner == [][ActsForOwner]_vars

(* An order placed for a schedule is for one its listing offers, from the   *)
(* lookup before the INSERT for as long as the order exists, unless its     *)
(* customer patched the schedule.                                           *)
PlacedOnOffer ==
  \A i \in orders \ moved :
    row[i].withdrawn # NoSchedule => <<row[i].product, row[i].withdrawn>> \in offers

LosesInWindow ==
  \A i \in orders : row[i].status = Confirmed /\ i \notin orders' =>
    \/ i \in raced
    \/ \E r \in Req : req[r].at = "remove" /\ req[r].order = i

(* A confirmed order that its customer does not remove is lost to the       *)
(* deletion of its listing only if it was reserved between the deletion's   *)
(* look for open orders and its first DELETE.                               *)
LossWindow == [][LosesInWindow]_vars

(* What products/delete.rs refuses with "Pedidos em aberto": a listing is   *)
(* not deleted together with a confirmed order.                             *)
OpenOrdersKept ==
  [][\A p \in listed \ listed' : \A i \in OrdersOf(p) : row[i].status # Confirmed]_vars

(* What cart/post.rs refuses with "Agenda invalida": an order is for a      *)
(* schedule its listing offers.                                             *)
OrderedOnOffer ==
  \A i \in orders :
    row[i].withdrawn # NoSchedule => <<row[i].product, row[i].withdrawn>> \in offers
=============================================================================
