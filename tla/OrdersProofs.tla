---------------------------- MODULE OrdersProofs ----------------------------
(* What a handler has read stays true of the ids it writes to: sequences    *)
(* never give an id again, a listing never changes hands, offers are never  *)
(* withdrawn, and rows deleted by an open transaction are locked.  The      *)
(* invariant says it of every request in progress.                          *)
EXTENDS Orders, TLAPS

ListingWork == {"patch_listing", "check_open", "delete_cart", "delete_listing"}

(* What request q remembers of orders and listings. *)
Recalls(q) ==
  /\ q.order <= lastOrder
  /\ q.rows \subseteq 1..lastOrder
  /\ q.at \in OrderWrites /\ q.order \in orders =>
       q.user \in {row[q.order].customer, owner[row[q.order].product]}
  /\ q.at \in ListingWork =>
       q.product \in 1..lastListing /\ owner[q.product] = q.user
  /\ q.at # "delete_listing" => q.rows = {}
  /\ \A i \in q.rows \cap orders : row[i].product = q.product

(* The schedule it has looked up is still offered. *)
LookedUp(q) ==
  q.at = "insert" /\ q.schedule # NoSchedule => <<q.product, q.schedule>> \in offers

(* The confirmed orders its deletion will take were reserved in the window. *)
Spares(q) ==
  /\ q.at = "delete_cart" =>
       \A i \in orders : row[i].product = q.product /\ row[i].status = Confirmed => i \in raced
  /\ \A i \in q.rows \cap orders : row[i].status = Confirmed => i \in raced

Good(q) == Recalls(q) /\ LookedUp(q) /\ Spares(q)

Listings == \A i \in orders : row[i].product \in 1..lastListing

OrdersInv ==
  /\ TypeOK /\ Listings /\ PlacedOnOffer
  /\ \A r \in Req : Good(req[r])
-----------------------------------------------------------------------------
LEMMA IdleIsRequest == Idle \in Request
  BY OrdersAssumption DEF Idle, At, Request, Points, Order

LEMMA RowTyped ==
  /\ NoRow \in Row
  /\ \A p \in Listing, u \in Users, s \in Schedules \cup {NoSchedule} :
       [product |-> p, customer |-> u, status |-> Pending,
        withdrawn |-> s, picked |-> FALSE] \in Row
  BY OrdersAssumption DEF NoRow, Row, Pending

LEMMA Numbers ==
  ASSUME TypeOK
  PROVE  /\ lastOrder \in Nat /\ lastOrder <= MaxOrders /\ MaxOrders \in Nat
         /\ lastListing \in Nat /\ lastListing <= MaxListings /\ MaxListings \in Nat
         /\ orders \subseteq 1..lastOrder /\ orders \subseteq Order
         /\ listed \subseteq 1..lastListing /\ listed \subseteq Listing
  BY OrdersAssumption DEF TypeOK, Order, Listing

LEMMA IdleIsGood ==
  ASSUME TypeOK', NEW r \in Req, req'[r] = Idle
  PROVE  Good(req[r])'
  BY OrdersAssumption
  DEF Good, Recalls, LookedUp, Spares, Idle, At, OrderWrites, ListingWork, TypeOK

LEMMA OrdersInit == Init => OrdersInv
<1> SUFFICES ASSUME Init PROVE OrdersInv
  OBVIOUS
<1>1. TypeOK
  BY OrdersAssumption, IdleIsRequest, RowTyped DEF Init, TypeOK
<1>2. Listings /\ PlacedOnOffer
  BY DEF Init, Listings, PlacedOnOffer
<1>3. \A r \in Req : Good(req[r])
  BY OrdersAssumption
  DEF Init, Good, Recalls, LookedUp, Spares, Idle, At, OrderWrites, ListingWork
<1> QED  BY <1>1, <1>2, <1>3 DEF OrdersInv

(* A handler that reads, decides and goes on: only its request changes. *)
LEMMA OrdersRead ==
  ASSUME OrdersInv, UNCHANGED <<catalogue, cart, history>>,
         NEW r \in Req, NEW q \in Request, req' = [req EXCEPT ![r] = q], Good(q)
  PROVE  OrdersInv'
<1> USE DEF OrdersInv, catalogue, cart, history
<1>1. TypeOK'
  BY DEF TypeOK
<1>2. Listings' /\ PlacedOnOffer'
  BY DEF Listings, PlacedOnOffer
<1>3. ASSUME NEW d \in Req
      PROVE  Good(req[d])'
  <2>1. CASE d = r
    <3>1. req'[d] = q
      BY <2>1 DEF TypeOK
    <3> QED  BY <3>1 DEF Good, Recalls, LookedUp, Spares
  <2>2. CASE d # r
    <3>1. req'[d] = req[d] /\ Good(req[d])
      BY <2>2 DEF TypeOK
    <3> QED  BY <3>1 DEF Good, Recalls, LookedUp, Spares
  <2> QED  BY <2>1, <2>2
<1> QED  BY <1>1, <1>2, <1>3

LEMMA OrdersPostCart ==
  ASSUME OrdersInv, NEW r \in Req, NEW u \in Customers, NEW p \in Listing,
         NEW s \in Schedules \cup {NoSchedule}, PostCart(r, u, p, s)
  PROVE  OrdersInv'
<1> DEFINE q == At("insert", u, 0, p, s)
<1>1. q = [at |-> "insert", user |-> u, order |-> 0, product |-> p,
           schedule |-> s, rows |-> {}]
  BY DEF At
<1>2. q \in Request
  BY <1>1, OrdersAssumption DEF Request, Points, Listing, Order, Users
<1>3. Good(q)
  BY <1>1, OrdersAssumption
  DEF PostCart, Good, Recalls, LookedUp, Spares, OrderWrites, ListingWork, OrdersInv, TypeOK
<1>4. req' = [req EXCEPT ![r] = q] /\ UNCHANGED <<catalogue, cart, history>>
  BY DEF PostCart, Begin
<1> QED  BY <1>2, <1>3, <1>4, OrdersRead

LEMMA OrdersCheckOrder ==
  ASSUME OrdersInv, NEW r \in Req, NEW u \in Users, NEW i \in Order,
         NEW write \in OrderWrites, CheckOrder(r, u, i, write)
  PROVE  OrdersInv'
<1> DEFINE q == At(write, u, i, 0, NoSchedule)
<1>1. q = [at |-> write, user |-> u, order |-> i, product |-> 0,
           schedule |-> NoSchedule, rows |-> {}]
  BY DEF At
<1>2. q \in Request
  BY <1>1, OrdersAssumption DEF Request, Points, OrderWrites, Order
<1>3. i \in orders /\ i <= lastOrder /\ u \in {row[i].customer, owner[row[i].product]}
  <2>1. i \in orders /\ u \in {row[i].customer, owner[row[i].product]}
    BY DEF CheckOrder, Authorised
  <2>2. i <= lastOrder
    BY <2>1, Numbers DEF OrdersInv
  <2> QED  BY <2>1, <2>2
<1>4. Good(q)
  BY <1>1, <1>3 DEF Good, Recalls, LookedUp, Spares, OrderWrites, ListingWork
<1>5. req' = [req EXCEPT ![r] = q] /\ UNCHANGED <<catalogue, cart, history>>
  BY DEF CheckOrder, Begin
<1> QED  BY <1>2, <1>4, <1>5, OrdersRead

LEMMA OrdersCheckAuthor ==
  ASSUME OrdersInv, NEW r \in Req, NEW u \in Sellers, NEW p \in Listing,
         NEW next \in {"patch_listing", "check_open"}, CheckAuthor(r, u, p, next)
  PROVE  OrdersInv'
<1> DEFINE q == At(next, u, 0, p, NoSchedule)
<1>1. q = [at |-> next, user |-> u, order |-> 0, product |-> p,
           schedule |-> NoSchedule, rows |-> {}]
  BY DEF At
<1>2. q \in Request
  BY <1>1, OrdersAssumption DEF Request, Points, Listing, Order, Users
<1>3. p \in 1..lastListing /\ owner[p] = u /\ lastOrder \in Nat
  BY Numbers DEF CheckAuthor, OrdersInv
<1>4. Good(q)
  BY <1>1, <1>3 DEF Good, Recalls, LookedUp, Spares, OrderWrites, ListingWork
<1>5. req' = [req EXCEPT ![r] = q] /\ UNCHANGED <<catalogue, cart, history>>
  BY DEF CheckAuthor, Begin
<1> QED  BY <1>2, <1>4, <1>5, OrdersRead

LEMMA OrdersDrop ==
  ASSUME OrdersInv, NEW r \in Req, Drop(r)
  PROVE  OrdersInv'
<1>1. Good(Idle)
  BY OrdersAssumption DEF Good, Recalls, LookedUp, Spares, Idle, At, OrderWrites,
     ListingWork, OrdersInv, TypeOK
<1> QED  BY <1>1, IdleIsRequest, OrdersRead DEF Drop, Done

(* The two steps of a deletion that read. *)
LEMMA OrdersDeletionReads ==
  ASSUME OrdersInv, NEW r \in Req, CheckOpenOrders(r) \/ DeleteCart(r)
  PROVE  OrdersInv'
<1> DEFINE q == req[r]
<1>1. q \in Request /\ Good(q)
  BY DEF OrdersInv, TypeOK
<1>2. CASE CheckOpenOrders(r) /\ OpenOrders(q.product) = {}
  <2>1. q.at = "check_open" /\ req' = [req EXCEPT ![r] = [q EXCEPT !.at = "delete_cart"]]
    BY <1>2 DEF CheckOpenOrders
  <2>2. [q EXCEPT !.at = "delete_cart"] =
          [at |-> "delete_cart", user |-> q.user, order |-> q.order, product |-> q.product,
           schedule |-> q.schedule, rows |-> q.rows]
    BY <1>1 DEF Request
  <2>3. \A i \in orders : row[i].product = q.product => row[i].status # Confirmed
    BY <1>2 DEF OpenOrders, OrdersOf
  <2>4. Good([q EXCEPT !.at = "delete_cart"])
    BY <1>1, <2>1, <2>2, <2>3
    DEF Good, Recalls, LookedUp, Spares, OrderWrites, ListingWork
  <2>5. [q EXCEPT !.at = "delete_cart"] \in Request
    BY <1>1, <2>2 DEF Request, Points
  <2> QED  BY <1>2, <2>1, <2>4, <2>5, OrdersRead DEF CheckOpenOrders
<1>3. CASE CheckOpenOrders(r) /\ OpenOrders(q.product) # {}
  <2>1. Drop(r)
    BY <1>3 DEF CheckOpenOrders, Drop, Idle, At
  <2> QED  BY <2>1, OrdersDrop
<1>4. CASE DeleteCart(r)
  <2> DEFINE new == Holding(q, OrdersOf(q.product))
  <2>1. q.at = "delete_cart" /\ req' = [req EXCEPT ![r] = new]
    BY <1>4 DEF DeleteCart
  <2>2. new = [at |-> "delete_listing", user |-> q.user, order |-> q.order,
               product |-> q.product, schedule |-> q.schedule, rows |-> OrdersOf(q.product)]
    BY DEF Holding
  <2>3. /\ OrdersOf(q.product) \subseteq orders
        /\ orders \subseteq 1..lastOrder /\ orders \subseteq Order
        /\ \A i \in OrdersOf(q.product) : row[i].product = q.product
    BY Numbers DEF OrdersOf, OrdersInv
  <2>4. Good(new)
    <3>1. \A i \in OrdersOf(q.product) : row[i].status = Confirmed => i \in raced
      BY <1>1, <2>1, <2>3 DEF Good, Spares
    <3>2. q.order <= lastOrder /\ q.product \in 1..lastListing /\ owner[q.product] = q.user
      BY <1>1, <2>1 DEF Good, Recalls, ListingWork
    <3>3. /\ new.at = "delete_listing" /\ new.rows = OrdersOf(q.product)
          /\ new.order = q.order /\ new.product = q.product /\ new.user = q.user
      BY <2>2
    <3> HIDE DEF new, q
    <3>4. Recalls(new)
      BY <2>3, <3>2, <3>3 DEF Recalls, OrderWrites, ListingWork
    <3> QED  BY <2>3, <3>1, <3>3, <3>4 DEF Good, LookedUp, Spares
  <2>5. new \in Request
    <3>1. OrdersOf(q.product) \in SUBSET Order
      BY <2>3
    <3>2. /\ q.user \in Users \cup {NoUser} /\ q.order \in 0..MaxOrders
          /\ q.product \in 0..MaxListings /\ q.schedule \in Schedules \cup {NoSchedule}
      BY <1>1 DEF Request
    <3> QED  BY <2>2, <3>1, <3>2 DEF Request, Points
  <2> QED  BY <1>4, <2>1, <2>4, <2>5, OrdersRead DEF DeleteCart
<1> QED  BY <1>2, <1>3, <1>4

-----------------------------------------------------------------------------
(* UPDATE cart ... WHERE id = i, with what must hold of the new row n. *)
LEMMA OrdersRewrite ==
  ASSUME OrdersInv, NEW r \in Req, NEW i, NEW n,
         i \in orders =>
           n \in Row /\ n.product = row[i].product /\ n.customer = row[i].customer,
         ~Locked(i), Done(r),
         row' = IF i \in orders THEN [row EXCEPT ![i] = n] ELSE row,
         UNCHANGED <<catalogue, lastOrder, orders>>,
         moved \subseteq moved', moved' \subseteq Order, raced' \subseteq Order,
         raced \ {i} \subseteq raced',
         i \in orders => n.withdrawn = row[i].withdrawn \/ i \in moved',
         i \in orders /\ n.status = Confirmed /\ DeletionAhead(i) => i \in raced'
  PROVE  OrdersInv'
<1> USE DEF OrdersInv, catalogue
<1>1. /\ row \in [Order -> Row] /\ orders \subseteq Order /\ req' = [req EXCEPT ![r] = Idle]
  BY Numbers DEF TypeOK, Done
<1>2. /\ row' \in [Order -> Row]
      /\ \A j \in orders : /\ j # i => row'[j] = row[j]
                           /\ j = i => row'[j] = n
                           /\ row'[j].product = row[j].product
                           /\ row'[j].customer = row[j].customer
  BY <1>1
<1>3. TypeOK'
  BY <1>1, <1>2, IdleIsRequest DEF TypeOK
<1>4. Listings'
  BY <1>2 DEF Listings
<1>5. PlacedOnOffer'
  BY <1>2 DEF PlacedOnOffer
<1>6. ASSUME NEW d \in Req
      PROVE  Good(req[d])'
  <2>1. CASE req'[d] = Idle
    BY <1>3, <2>1, IdleIsGood
  <2>2. CASE req'[d] # Idle
    <3>1. req'[d] = req[d] /\ Good(req[d]) /\ i \notin req[d].rows
      BY <1>1, <2>2 DEF TypeOK, Locked
    <3>2. Recalls(req[d])'
      BY <1>2, <3>1 DEF Good, Recalls
    <3>3. LookedUp(req[d])'
      BY <3>1 DEF Good, LookedUp
    <3>4. ASSUME req[d].at = "delete_cart", NEW j \in orders,
                 row[j].product = req[d].product, row'[j].status = Confirmed
          PROVE  j \in raced'
      <4>1. CASE j = i
        BY <1>2, <3>4, <4>1 DEF DeletionAhead
      <4>2. CASE j # i
        BY <1>2, <3>1, <3>4, <4>2 DEF Good, Spares
      <4> QED  BY <4>1, <4>2
    <3>5. ASSUME NEW j \in req[d].rows \cap orders, row'[j].status = Confirmed
          PROVE  j \in raced'
      BY <1>2, <3>1, <3>5 DEF Good, Spares
    <3>6. Spares(req[d])'
      BY <1>2, <3>1, <3>4, <3>5 DEF Spares
    <3> QED  BY <3>2, <3>3, <3>6 DEF Good
  <2> QED  BY <2>1, <2>2
<1> QED  BY <1>3, <1>4, <1>5, <1>6

LEMMA OrdersUpdates ==
  ASSUME OrdersInv, NEW r \in Req,
         Reserve(r) \/ PatchCart(r) \/ CancelOrder(r) \/ PickupStatus(r)
  PROVE  OrdersInv'
<1> DEFINE i == req[r].order
<1>1. /\ orders \subseteq Order /\ moved \subseteq Order /\ raced \subseteq Order
      /\ \A j \in orders : row[j] \in Row
  BY Numbers DEF OrdersInv, TypeOK
<1>2. CASE Reserve(r)
  <2> DEFINE n == [row[i] EXCEPT !.status = Confirmed]
  <2>1. i \in orders => /\ n \in Row /\ n.product = row[i].product
                        /\ n.customer = row[i].customer /\ n.withdrawn = row[i].withdrawn
    BY <1>1 DEF Row, Confirmed
  <2>2. /\ ~Locked(i) /\ Done(r) /\ UNCHANGED <<catalogue, lastOrder, orders>>
        /\ row' = IF i \in orders THEN [row EXCEPT ![i] = n] ELSE row
        /\ moved' = moved
        /\ raced' = IF i \in orders /\ DeletionAhead(i) THEN raced \cup {i} ELSE raced \ {i}
    BY <1>2 DEF Reserve, Update
  <2>3. raced' \subseteq Order /\ raced \ {i} \subseteq raced'
        /\ (i \in orders /\ DeletionAhead(i) => i \in raced')
    BY <1>1, <2>2
  <2> HIDE DEF n, i
  <2> QED  BY <1>1, <2>1, <2>2, <2>3, OrdersRewrite
<1>3. CASE PatchCart(r)
  <2>1. PICK s \in schedules \cup {NoSchedule} :
          /\ Update(r, "patch", [row[i] EXCEPT !.withdrawn = IF s = NoSchedule THEN @ ELSE s])
          /\ moved' = IF s = NoSchedule THEN moved ELSE moved \cup ({i} \cap orders)
          /\ raced' = raced
    BY <1>3 DEF PatchCart
  <2> DEFINE n == [row[i] EXCEPT !.withdrawn = IF s = NoSchedule THEN @ ELSE s]
  <2>2. s \in Schedules \cup {NoSchedule}
    BY <2>1 DEF OrdersInv, TypeOK
  <2>3. i \in orders => /\ n \in Row /\ n.product = row[i].product
                        /\ n.customer = row[i].customer /\ n.status = row[i].status
                        /\ (n.withdrawn = row[i].withdrawn \/ s # NoSchedule)
    BY <1>1, <2>2 DEF Row
  <2>4. /\ ~Locked(i) /\ Done(r) /\ UNCHANGED <<catalogue, lastOrder, orders>>
        /\ row' = IF i \in orders THEN [row EXCEPT ![i] = n] ELSE row
        /\ req[r].at = "patch"
    BY <2>1 DEF Update
  <2>5. i \in orders /\ n.status = Confirmed /\ DeletionAhead(i) => i \in raced'
    BY <2>1, <2>3 DEF DeletionAhead, OrdersInv, Good, Spares
  <2> HIDE DEF n, i
  <2>6. moved \subseteq moved' /\ moved' \subseteq Order
        /\ (i \in orders /\ s # NoSchedule => i \in moved')
    BY <1>1, <2>1
  <2> QED  BY <1>1, <2>1, <2>3, <2>4, <2>5, <2>6, OrdersRewrite
<1>4. CASE CancelOrder(r)
  <2> DEFINE n == [row[i] EXCEPT !.status = Cancelled]
  <2>1. i \in orders => /\ n \in Row /\ n.product = row[i].product
                        /\ n.customer = row[i].customer /\ n.withdrawn = row[i].withdrawn
                        /\ n.status # Confirmed
    BY <1>1 DEF Row, Cancelled, Confirmed
  <2>2. /\ ~Locked(i) /\ Done(r) /\ UNCHANGED <<catalogue, lastOrder, orders>>
        /\ row' = IF i \in orders THEN [row EXCEPT ![i] = n] ELSE row
        /\ moved' = moved /\ raced' = raced
    BY <1>4 DEF CancelOrder, Update, history
  <2> HIDE DEF n, i
  <2> QED  BY <1>1, <2>1, <2>2, OrdersRewrite
<1>5. CASE PickupStatus(r)
  <2>1. PICK b \in BOOLEAN : Update(r, "pickup", [row[i] EXCEPT !.picked = b])
    BY <1>5 DEF PickupStatus
  <2> DEFINE n == [row[i] EXCEPT !.picked = b]
  <2>2. i \in orders => /\ n \in Row /\ n.product = row[i].product
                        /\ n.customer = row[i].customer /\ n.withdrawn = row[i].withdrawn
                        /\ n.status = row[i].status
    BY <1>1 DEF Row
  <2>3. /\ ~Locked(i) /\ Done(r) /\ UNCHANGED <<catalogue, lastOrder, orders>>
        /\ row' = IF i \in orders THEN [row EXCEPT ![i] = n] ELSE row
        /\ moved' = moved /\ raced' = raced
    BY <1>5, <2>1 DEF PickupStatus, Update, history
  <2>4. i \in orders /\ n.status = Confirmed /\ DeletionAhead(i) => i \in raced'
    BY <2>2, <2>3 DEF DeletionAhead, OrdersInv, Good, Spares
  <2> HIDE DEF n, i
  <2> QED  BY <1>1, <2>2, <2>3, <2>4, OrdersRewrite
<1> QED  BY <1>2, <1>3, <1>4, <1>5

LEMMA OrdersInsert ==
  ASSUME OrdersInv, NEW r \in Req, InsertCart(r)
  PROVE  OrdersInv'
<1> USE DEF OrdersInv, catalogue, history
<1> DEFINE u == req[r].user
           p == req[r].product
           s == req[r].schedule
<1>1. req[r] \in Request /\ req[r].at = "insert" /\ Good(req[r])
      /\ req' = [req EXCEPT ![r] = Idle] /\ UNCHANGED <<catalogue, history>>
  BY DEF TypeOK, InsertCart, Done
<1>2. CASE UNCHANGED cart
  <2>1. Drop(r)
    BY <1>1, <1>2 DEF Drop, Done, Idle, At
  <2> QED  BY <2>1, OrdersDrop
<1>3. CASE /\ p \in listed /\ s \in schedules \cup {NoSchedule} /\ NewOrder \in Order
           /\ lastOrder' = NewOrder /\ orders' = orders \cup {NewOrder}
           /\ row' = [row EXCEPT ![NewOrder] =
                [product |-> p, customer |-> u, status |-> Pending,
                 withdrawn |-> s, picked |-> FALSE]]
  <2> DEFINE n == [product |-> p, customer |-> u, status |-> Pending,
                   withdrawn |-> s, picked |-> FALSE]
  <2>1. u \in Users \cup {NoUser} /\ s \in Schedules \cup {NoSchedule}
        /\ p \in Listing /\ p \in 1..lastListing
    BY <1>1, <1>3, Numbers DEF Request
  <2>2. n \in Row /\ n.product = p /\ n.withdrawn = s /\ n.status # Confirmed
    BY <2>1 DEF Row, Pending, Confirmed
  <2>3. /\ lastOrder' = lastOrder + 1 /\ lastOrder' \in 0..MaxOrders
        /\ orders' \subseteq 1..lastOrder' /\ orders \subseteq orders'
        /\ row' \in [Order -> Row]
        /\ \A j \in orders' : j = NewOrder \/ j \in orders
        /\ \A j \in orders : row'[j] = row[j]
        /\ row'[NewOrder] = n
    <3>1. lastOrder + 1 \in 1..MaxOrders /\ lastOrder' = lastOrder + 1
      BY <1>3 DEF NewOrder, Order
    <3>2. \A j \in orders : j # NewOrder
      BY Numbers DEF NewOrder
    <3>3. row \in [Order -> Row]
      BY DEF TypeOK
    <3>4. row' = [row EXCEPT ![NewOrder] = n]
      BY <1>3
    <3> HIDE DEF n
    <3>5. /\ row' \in [Order -> Row] /\ row'[NewOrder] = n
          /\ \A j \in orders : row'[j] = row[j]
      BY <1>3, <2>2, <3>2, <3>3, <3>4, Numbers
    <3>6. lastOrder' \in 0..MaxOrders /\ orders' \subseteq 1..lastOrder'
      <4>1. NewOrder = lastOrder + 1
        BY DEF NewOrder
      <4> QED  BY <1>3, <3>1, <4>1, Numbers
    <3> QED  BY <1>3, <3>1, <3>5, <3>6
  <2> HIDE DEF n
  <2>4. TypeOK'
    BY <1>1, <2>3, IdleIsRequest DEF TypeOK
  <2>5. Listings'
    BY <1>1, <2>1, <2>2, <2>3 DEF Listings
  <2>6. PlacedOnOffer'
    BY <1>1, <2>2, <2>3 DEF PlacedOnOffer, Good, LookedUp
  <2>7. ASSUME NEW d \in Req
        PROVE  Good(req[d])'
    <3>1. CASE req'[d] = Idle
      BY <2>4, <3>1, IdleIsGood
    <3>2. CASE req'[d] # Idle
      <4>1. req'[d] = req[d] /\ Good(req[d])
        BY <1>1, <3>2 DEF TypeOK
      <4>2. /\ req[d].order <= lastOrder /\ req[d].order \in Nat
            /\ req[d].rows \subseteq 1..lastOrder
        BY <4>1, OrdersAssumption DEF Good, Recalls, TypeOK, Request
      <4>3. /\ req[d].order <= lastOrder' /\ req[d].order # NewOrder
            /\ req[d].rows \subseteq 1..lastOrder' /\ NewOrder \notin req[d].rows
        BY <2>3, <4>2, Numbers DEF NewOrder
      <4>4. Recalls(req[d])'
        <5>1. req[d].at \in OrderWrites /\ req[d].order \in orders' =>
                req[d].user \in {row'[req[d].order].customer,
                                 owner[row'[req[d].order].product]}
          BY <2>3, <4>1, <4>3 DEF Good, Recalls
        <5>2. \A j \in req[d].rows \cap orders' : row'[j].product = req[d].product
          BY <2>3, <4>1, <4>3 DEF Good, Recalls
        <5> QED  BY <1>1, <4>1, <4>3, <5>1, <5>2 DEF Good, Recalls
      <4>5. LookedUp(req[d])' /\ Spares(req[d])'
        BY <1>1, <2>2, <2>3, <4>1, <4>3 DEF Good, LookedUp, Spares
      <4> QED  BY <4>4, <4>5 DEF Good
    <3> QED  BY <3>1, <3>2
  <2> QED  BY <2>4, <2>5, <2>6, <2>7
<1> QED  BY <1>2, <1>3 DEF InsertCart

(* Rows leave the table. *)
LEMMA OrdersDelete ==
  ASSUME OrdersInv, NEW r \in Req, NEW rows, Delete(rows), Done(r),
         listed' \subseteq listed,
         UNCHANGED <<lastListing, owner, offers, seen, schedules, lastOrder>>
  PROVE  OrdersInv'
<1> USE DEF OrdersInv, Delete
<1>1. /\ orders' \subseteq orders /\ row' \in [Order -> Row]
      /\ \A j \in orders' : row'[j] = row[j] /\ j \notin rows
  BY RowTyped, Numbers DEF TypeOK
<1>2. req' = [req EXCEPT ![r] = Idle]
  BY DEF Done
<1>3. TypeOK'
  BY <1>1, <1>2, IdleIsRequest DEF TypeOK
<1>4. Listings' /\ PlacedOnOffer'
  BY <1>1 DEF Listings, PlacedOnOffer
<1>5. ASSUME NEW d \in Req
      PROVE  Good(req[d])'
  <2>1. CASE req'[d] = Idle
    BY <1>3, <2>1, IdleIsGood
  <2>2. CASE req'[d] # Idle
    <3>1. req'[d] = req[d] /\ Good(req[d])
      BY <1>2, <2>2 DEF TypeOK
    <3>2. Recalls(req[d])' /\ LookedUp(req[d])'
      BY <1>1, <3>1 DEF Good, Recalls, LookedUp
    <3>3. Spares(req[d])'
      BY <1>1, <3>1 DEF Good, Spares
    <3> QED  BY <3>2, <3>3 DEF Good
  <2> QED  BY <2>1, <2>2
<1> QED  BY <1>3, <1>4, <1>5

(* The catalogue changes; listings keep their sellers and their offers. *)
LEMMA OrdersCatalogue ==
  ASSUME OrdersInv, TypeOK', UNCHANGED <<cart, history>>,
         lastListing <= lastListing', offers \subseteq offers',
         \A p \in 1..lastListing : owner'[p] = owner[p],
         \A d \in Req : req'[d] \in {req[d], Idle}
  PROVE  OrdersInv'
<1> USE DEF OrdersInv, cart, history
<1>1. \A p \in 1..lastListing : p \in 1..lastListing'
  BY Numbers DEF TypeOK
<1>2. Listings' /\ PlacedOnOffer'
  BY <1>1 DEF Listings, PlacedOnOffer
<1>3. ASSUME NEW d \in Req
      PROVE  Good(req[d])'
  <2>1. CASE req'[d] = Idle
    BY <2>1, IdleIsGood
  <2>2. CASE req'[d] = req[d]
    <3>1. Good(req[d]) /\ \A i \in orders : row[i].product \in 1..lastListing
      BY DEF Listings
    <3>2. Recalls(req[d])'
      BY <1>1, <2>2, <3>1 DEF Good, Recalls
    <3>3. LookedUp(req[d])' /\ Spares(req[d])'
      BY <2>2, <3>1 DEF Good, LookedUp, Spares
    <3> QED  BY <3>2, <3>3 DEF Good
  <2> QED  BY <2>1, <2>2
<1> QED  BY <1>2, <1>3

LEMMA OrdersCatalogueSteps ==
  ASSUME OrdersInv,
         \/ \E u \in Sellers, S \in SUBSET Schedules : PostListing(u, S)
         \/ \E u \in Customers, p \in Listing : ViewListing(u, p)
         \/ \E s \in Schedules : DeleteSchedule(s)
         \/ \E r \in Req : PatchListing(r)
  PROVE  OrdersInv'
<1> USE DEF OrdersInv
<1>1. ASSUME NEW u \in Sellers, NEW S \in SUBSET Schedules, PostListing(u, S)
      PROVE  OrdersInv'
  <2> DEFINE p == lastListing + 1
  <2>1. /\ p \in Listing /\ lastListing' = p /\ listed' = listed \cup {p}
        /\ owner' = [owner EXCEPT ![p] = u] /\ offers' = offers \cup ({p} \X S)
        /\ UNCHANGED <<seen, schedules, cart, req, history>>
    BY <1>1 DEF PostListing
  <2>2. /\ lastListing' \in 0..MaxListings /\ listed' \subseteq 1..lastListing'
        /\ lastListing <= lastListing' /\ \A k \in 1..lastListing : k # p
    BY <2>1, Numbers DEF Listing
  <2>3. offers' \subseteq Listing \X Schedules /\ offers \subseteq offers'
    BY <2>1 DEF TypeOK
  <2>4. owner' \in [Listing -> Users \cup {NoUser}]
        /\ \A k \in 1..lastListing : owner'[k] = owner[k]
    <3>1. \A k \in 1..lastListing : k \in Listing
      BY Numbers DEF Listing
    <3>2. owner \in [Listing -> Users \cup {NoUser}] /\ u \in Users
      BY DEF TypeOK, Users
    <3> HIDE DEF p
    <3> QED  BY <2>1, <2>2, <3>1, <3>2
  <2>5. TypeOK'
    BY <2>1, <2>2, <2>3, <2>4 DEF TypeOK, cart, history
  <2> QED  BY <2>1, <2>2, <2>3, <2>4, <2>5, OrdersCatalogue
<1>2. ASSUME NEW u \in Customers, NEW p \in Listing, ViewListing(u, p)
      PROVE  OrdersInv'
  <2>1. TypeOK'
    BY <1>2 DEF ViewListing, TypeOK, cart, history, Users
  <2> QED  BY <1>2, <2>1, OrdersCatalogue, Numbers DEF ViewListing
<1>3. ASSUME NEW s \in Schedules, DeleteSchedule(s)
      PROVE  OrdersInv'
  <2>1. TypeOK'
    BY <1>3 DEF DeleteSchedule, TypeOK, cart, history
  <2> QED  BY <1>3, <2>1, OrdersCatalogue, Numbers DEF DeleteSchedule
<1>4. ASSUME NEW r \in Req, PatchListing(r)
      PROVE  OrdersInv'
  <2> DEFINE p == req[r].product
  <2>1. PICK S \in SUBSET schedules :
          offers' = IF p \in listed /\ ({p} \X S) \cap offers = {}
                    THEN offers \cup ({p} \X S) ELSE offers
    BY <1>4 DEF PatchListing
  <2>2. /\ req' = [req EXCEPT ![r] = Idle]
        /\ UNCHANGED <<lastListing, listed, owner, seen, schedules, cart, history>>
    BY <1>4 DEF PatchListing, Done
  <2>3. offers \subseteq offers' /\ offers' \subseteq Listing \X Schedules
    <3>1. S \subseteq Schedules /\ offers \subseteq Listing \X Schedules
      BY DEF TypeOK
    <3>2. p \in listed => p \in Listing
      BY Numbers
    <3> QED  BY <2>1, <3>1, <3>2
  <2>4. TypeOK'
    BY <2>2, <2>3, IdleIsRequest DEF TypeOK, cart, history
  <2>5. \A d \in Req : req'[d] \in {req[d], Idle}
    BY <2>2 DEF TypeOK
  <2> QED  BY <2>2, <2>3, <2>4, <2>5, OrdersCatalogue, Numbers
<1> QED  BY <1>1, <1>2, <1>3, <1>4

LEMMA OrdersNext ==
  ASSUME OrdersInv, [Next]_vars
  PROVE  OrdersInv'
<1>1. CASE UNCHANGED vars
  <2>1. TypeOK'
    BY <1>1 DEF OrdersInv, TypeOK, vars, catalogue, cart, history
  <2> QED  BY <1>1, <2>1, OrdersCatalogue, Numbers DEF vars, catalogue, OrdersInv
<1>2. ASSUME NEW r \in Req, Handler(r)
      PROVE  OrdersInv'
  <2>1. CASE RemoveFromCart(r)
    <3>1. Delete({req[r].order}) /\ Done(r) /\ UNCHANGED <<catalogue, lastOrder>>
      BY <2>1 DEF RemoveFromCart
    <3> QED  BY <3>1, OrdersDelete DEF catalogue
  <2>2. CASE DeleteListing(r)
    <3>1. CASE Delete(req[r].rows) /\ listed' \subseteq listed
      BY <2>2, <3>1, OrdersDelete DEF DeleteListing
    <3>2. CASE UNCHANGED <<listed, orders, row, history>>
      <4>1. Drop(r)
        BY <2>2, <3>2 DEF DeleteListing, Drop, Idle, At, catalogue, cart
      <4> QED  BY <4>1, OrdersDrop
    <3> QED  BY <2>2, <3>1, <3>2 DEF DeleteListing
  <2> QED
    BY <1>2, <2>1, <2>2, OrdersPostCart, OrdersInsert, OrdersCheckOrder, OrdersUpdates,
       OrdersCheckAuthor, OrdersCatalogueSteps, OrdersDeletionReads, OrdersDrop
    DEF Handler
<1> QED  BY <1>1, <1>2, OrdersCatalogueSteps DEF Next
-----------------------------------------------------------------------------
LEMMA OrdersAlways == Spec => []OrdersInv
<1>1. OrdersInv /\ [Next]_vars => OrdersInv'
  BY OrdersNext
<1> QED  BY OrdersInit, <1>1, PTL DEF Spec

(* The tables and the requests stay well formed, whatever the number of     *)
(* users, listings, orders and requests in progress (rest-server handlers). *)
THEOREM OrdersTyped == Spec => []TypeOK
<1>1. OrdersInv => TypeOK
  BY DEF OrdersInv
<1> QED  BY OrdersAlways, <1>1, PTL

(* cart/post.rs looks a schedule up and inserts in a later statement; the   *)
(* lookup is still true then, and for as long as the order exists.          *)
THEOREM OrdersPlacedOnOffer == Spec => []PlacedOnOffer
<1>1. OrdersInv => PlacedOnOffer
  BY DEF OrdersInv
<1> QED  BY OrdersAlways, <1>1, PTL

-----------------------------------------------------------------------------
(* The statements that touch an existing cart row, and for whom. *)
LEMMA OrdersTouched ==
  ASSUME OrdersInv, [Next]_vars, NEW i \in orders, i \notin orders' \/ row'[i] # row[i]
  PROVE  \E r \in Req :
           /\ req'[r] = Idle
           /\ \/ req[r].at \in OrderWrites /\ req[r].order = i
              \/ req[r].at = "delete_listing" /\ i \in req[r].rows
           /\ i \notin orders' => req[r].at \in {"remove", "delete_listing"}
<1>1. \/ \E r \in Req : \/ InsertCart(r) \/ Reserve(r) \/ PatchCart(r) \/ CancelOrder(r)
                        \/ PickupStatus(r) \/ RemoveFromCart(r) \/ DeleteListing(r)
      \/ UNCHANGED cart
  BY DEF Next, Handler, vars, PostCart, CheckOrder, CheckAuthor, PatchListing,
     CheckOpenOrders, DeleteCart, Drop, PostListing, ViewListing, DeleteSchedule
<1>2. PICK r \in Req : \/ InsertCart(r) \/ Reserve(r) \/ PatchCart(r) \/ CancelOrder(r)
                       \/ PickupStatus(r) \/ RemoveFromCart(r) \/ DeleteListing(r)
  BY <1>1 DEF cart
<1>3. Done(r) => req'[r] = Idle
  BY DEF Done, OrdersInv, TypeOK
<1>4. row \in [Order -> Row] /\ i \in Order
  BY Numbers DEF OrdersInv, TypeOK
<1>5. CASE InsertCart(r)
  <2>1. i # NewOrder
    BY Numbers DEF NewOrder, OrdersInv
  <2>2. i \in orders' /\ row'[i] = row[i]
    BY <1>4, <1>5, <2>1 DEF InsertCart, cart
  <2> QED  BY <2>2
<1>6. ASSUME NEW write \in OrderWrites, NEW n, Update(r, write, n)
      PROVE  req[r].at \in OrderWrites /\ req[r].order = i /\ i \in orders' /\ req'[r] = Idle
  <2>1. orders' = orders /\ req[r].at = write /\ Done(r)
    BY <1>6 DEF Update
  <2>2. row' = IF req[r].order \in orders THEN [row EXCEPT ![req[r].order] = n] ELSE row
    BY <1>6 DEF Update
  <2> QED  BY <1>3, <1>4, <2>1, <2>2
<1>7. CASE Reserve(r) \/ PatchCart(r) \/ CancelOrder(r) \/ PickupStatus(r)
  <2>1. \E write \in OrderWrites : \E n : Update(r, write, n)
    BY <1>7 DEF Reserve, PatchCart, CancelOrder, PickupStatus, OrderWrites
  <2> QED  BY <1>6, <2>1
<1>8. CASE RemoveFromCart(r)
  <2>1. req[r].at = "remove" /\ Done(r) /\ Delete({req[r].order})
    BY <1>8 DEF RemoveFromCart
  <2>2. req[r].order = i
    BY <1>4, <2>1 DEF Delete
  <2> QED  BY <1>3, <2>1, <2>2 DEF OrderWrites
<1>9. CASE DeleteListing(r)
  <2>1. req[r].at = "delete_listing" /\ Done(r)
        /\ (Delete(req[r].rows) \/ UNCHANGED <<orders, row>>)
    BY <1>9 DEF DeleteListing
  <2>2. i \in req[r].rows
    BY <1>4, <2>1 DEF Delete
  <2> QED  BY <1>3, <2>1, <2>2
<1> QED  BY <1>2, <1>5, <1>7, <1>8, <1>9

(* Every handler of carts and orders compares ids before it writes by id;   *)
(* no write or removal ever reaches a row that is not its user's.           *)
THEOREM OrdersActedByOwner == Spec => ActedByOwner
<1>1. OrdersInv /\ [Next]_vars => ActsForOwner
  <2> SUFFICES ASSUME OrdersInv, [Next]_vars, NEW i \in orders,
                      i \notin orders' \/ row'[i] # row[i]
               PROVE  \E r \in Req :
                        /\ req[r].at \notin {"idle", "insert"} /\ req'[r] = Idle
                        /\ req[r].user \in {row[i].customer, owner[row[i].product]}
    BY DEF ActsForOwner
  <2>1. PICK r \in Req :
          /\ req'[r] = Idle
          /\ \/ req[r].at \in OrderWrites /\ req[r].order = i
             \/ req[r].at = "delete_listing" /\ i \in req[r].rows
    BY OrdersTouched
  <2>2. req[r].at \notin {"idle", "insert"}
    BY <2>1 DEF OrderWrites
  <2>3. req[r].user \in {row[i].customer, owner[row[i].product]}
    BY <2>1 DEF OrdersInv, Good, Recalls, ListingWork
  <2> QED  BY <2>1, <2>2, <2>3
<1> QED  BY OrdersAlways, <1>1, PTL DEF Spec, ActedByOwner

(* products/delete.rs: the only confirmed orders a deletion takes with it   *)
(* are those reserved between its check and its first DELETE.               *)
THEOREM OrdersLossWindow == Spec => LossWindow
<1>1. OrdersInv /\ [Next]_vars => LosesInWindow
  <2> SUFFICES ASSUME OrdersInv, [Next]_vars, NEW i \in orders,
                      row[i].status = Confirmed, i \notin orders'
               PROVE  \/ i \in raced
                      \/ \E r \in Req : req[r].at = "remove" /\ req[r].order = i
    BY DEF LosesInWindow
  <2>1. PICK r \in Req :
          /\ \/ req[r].at \in OrderWrites /\ req[r].order = i
             \/ req[r].at = "delete_listing" /\ i \in req[r].rows
          /\ req[r].at \in {"remove", "delete_listing"}
    BY OrdersTouched
  <2>2. CASE req[r].at = "delete_listing" /\ i \in req[r].rows
    BY <2>2 DEF OrdersInv, Good, Spares
  <2> QED  BY <2>1, <2>2 DEF OrderWrites
<1> QED  BY OrdersAlways, <1>1, PTL DEF Spec, LossWindow
=============================================================================
