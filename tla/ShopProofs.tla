------------------------------ MODULE ShopProofs -------------------------------
(***************************************************************************)
(* The pages of the shop.                                                  *)
(*                                                                         *)
(* The cart: the purchase's loop works on what it captured, so an order of *)
(* the click is still to be reserved, or out of the cart, and nothing puts *)
(* it back; every amount on the page came from an answer, and an answer    *)
(* from the table; and nothing can be selected before the cart was loaded, *)
(* which happens once more only for a purchase, that clears the selection. *)
(*                                                                         *)
(* A product: what is ordered was confirmed before it, and an order that   *)
(* the page saw succeed is in the table for good.                          *)
(***************************************************************************)
EXTENDS MCShop, SequenceFacts

(* The order was in the cart and is not: reserved, or gone. *)
Settled(p) == p \in Placed /\ row[p].status # InCart

Rest == CASE buying \in {"sent", "found"} -> ToSet(toReserve)
          [] buying = "resolved" -> ToSet(Tail(toReserve))
          [] OTHER -> {}

Typed ==
  /\ TableTypeOK /\ CartTypeOK
  /\ \A call \in patches :
       call.value \in IF call.field = "amount" THEN Amounts ELSE Schedules

Purchase ==
  /\ buying \in {"sent", "found", "resolved"} => toReserve # <<>>
  /\ buying = "found" => Head(toReserve) \in Placed
  /\ ToSet(toReserve) \subseteq clicked
  /\ BoughtWasSelected
  /\ buying \in {"sent", "found", "resolved", "refresh"} =>
       \A p \in clicked : p \in Rest \/ Settled(p)

WasStored(p, much) == <<p, much>> \in stored \/ IsRemoved(p)

Recorded ==
  /\ \A p \in Placed : <<p, row[p].amount>> \in stored
  /\ \A i \in DOMAIN reply : <<reply[i].order, reply[i].amount>> \in stored
  /\ \A call \in patches :
       /\ call.state = "found" => call.order \in Placed
       /\ call.state = "resolved" /\ call.field = "amount" => WasStored(call.order, call.value)
  /\ AmountsWereStored

Shown ==
  /\ SelectedIsShown
  /\ fetching # "idle" /\ buying # "refresh" => carts = <<>> /\ selected = <<>>

CartInv == Typed /\ Purchase /\ Recorded /\ Shown
-----------------------------------------------------------------------------
(* The table: what is settled stays so, and what is gone stays gone. *)

Stays ==
  /\ TableTypeOK' /\ Placed \subseteq Placed'
  /\ \A q : (Settled(q) => Settled(q)') /\ (IsRemoved(q) => IsRemoved(q)')

(* No order comes and no amount changes. *)
SameAmounts == Placed' = Placed /\ \A q \in Placed : row'[q].amount = row[q].amount

LEMMA RowFields ==
  ASSUME TableTypeOK, NEW p \in Placed
  PROVE  /\ row[p] \in Row /\ row[p].amount \in Amounts
         /\ p \in ToSet(placed) /\ p \in Products
<1>1. Placed = ToSet(placed) /\ row[p] \in Row
  BY DEF TableTypeOK, Placed
<1>2. row[p].amount \in Amounts
  BY <1>1 DEF Row
<1>3. p \in Products
  BY <1>1 DEF TableTypeOK, ToSet
<1> QED  BY <1>1, <1>2, <1>3

LEMMA TableUntouched == TableTypeOK /\ UNCHANGED table => Stays /\ SameAmounts
  BY DEF Stays, SameAmounts, TableTypeOK, table, Settled, IsRemoved, Placed

(* One row changes in one field. *)
LEMMA RowStays ==
  ASSUME TableTypeOK, NEW p \in Placed, NEW new \in Row, row' = [row EXCEPT ![p] = new],
         UNCHANGED placed, new.status = InCart => row[p].status = InCart,
         row[p].status = Removed => new.status = Removed
  PROVE  /\ Stays /\ Placed' = Placed
         /\ row'[p] = new /\ \A q \in Placed : q # p => row'[q] = row[q]
<1>1. /\ Placed' = Placed
      /\ \A q \in Placed : row'[q] = IF q = p THEN new ELSE row[q]
  BY DEF TableTypeOK, Placed
<1>2. TableTypeOK'
  BY <1>1 DEF TableTypeOK, Placed
<1> QED  BY <1>1, <1>2 DEF Stays, Settled, IsRemoved

LEMMA PatchStays ==
  ASSUME TableTypeOK, NEW p, NEW field, NEW value, Patch(p, field, value),
         value \in IF field = "amount" THEN Amounts ELSE Schedules
  PROVE  /\ Stays /\ Placed' = Placed
         /\ Exists(p) /\ field = "amount" => p \in Placed /\ row'[p].amount = value
<1>1. CASE ~Exists(p)
  BY <1>1, TableUntouched DEF Patch, table, SameAmounts
<1>2. CASE Exists(p)
  <2> DEFINE old == row[p]
             new == IF field = "amount" THEN [old EXCEPT !.amount = value]
                                        ELSE [old EXCEPT !.schedule = value]
  <2>1. p \in Placed /\ UNCHANGED placed /\ row' = [row EXCEPT ![p] = new]
    BY <1>2 DEF Patch, Exists
  <2>2. old \in Row
    BY <2>1, RowFields
  <2> HIDE DEF old
  <2>3. new \in Row /\ new.status = old.status /\ (field = "amount" => new.amount = value)
    BY <2>2 DEF Row
  <2> HIDE DEF new
  <2>4. new.status = row[p].status
    BY <2>3 DEF old
  <2>5. Stays /\ Placed' = Placed /\ row'[p] = new
    BY <2>1, <2>3, <2>4, RowStays
  <2> QED  BY <2>1, <2>3, <2>5
<1> QED  BY <1>1, <1>2

LEMMA StatusStays ==
  ASSUME TableTypeOK, NEW p \in Placed, NEW status \in {Removed, Reserved},
         row' = [row EXCEPT ![p].status = status], UNCHANGED placed, Exists(p)
  PROVE  Stays /\ SameAmounts /\ Settled(p)'
<1> DEFINE old == row[p]
           new == [old EXCEPT !.status = status]
<1>1. row' = [row EXCEPT ![p] = new]
  OBVIOUS
<1>2. old \in Row
  BY RowFields
<1> HIDE DEF old
<1>3. new \in Row /\ new.status # InCart /\ new.amount = old.amount
  BY <1>2 DEF Row, Removed, Reserved, InCart
<1> HIDE DEF new
<1>4. /\ Stays /\ Placed' = Placed
      /\ row'[p] = new /\ \A q \in Placed : q # p => row'[q] = row[q]
  BY <1>1, <1>3, RowStays DEF Exists
<1>5. Settled(p)'
  BY <1>3, <1>4 DEF Settled
<1> QED  BY <1>3, <1>4, <1>5 DEF SameAmounts, old

LEMMA ReserveStays ==
  ASSUME TableTypeOK, NEW p, Reserve(p)
  PROVE  Stays /\ SameAmounts /\ (Exists(p) => Settled(p)')
<1>1. CASE ~Exists(p)
  BY <1>1, TableUntouched DEF Reserve, table
<1>2. CASE Exists(p)
  <2>1. p \in Placed /\ UNCHANGED placed /\ row' = [row EXCEPT ![p].status = Reserved]
    BY <1>2 DEF Reserve, Exists
  <2> QED  BY <1>2, <2>1, StatusStays
<1> QED  BY <1>1, <1>2

LEMMA RemoveStays ==
  ASSUME TableTypeOK, NEW p, RemoveListing(p)
  PROVE  Stays /\ SameAmounts
<1>1. /\ p \in Placed /\ Exists(p)
      /\ UNCHANGED placed /\ row' = [row EXCEPT ![p].status = Removed]
  BY DEF RemoveListing, Exists
<1> QED  BY <1>1, StatusStays

LEMMA InsertStays ==
  ASSUME TableTypeOK, NEW p \in Products, NEW much \in Amounts, NEW s \in Schedules,
         CanInsert(p, s), Insert(p, much, s)
  PROVE  /\ Stays /\ Placed' = Placed \cup {p}
         /\ row'[p].amount = much /\ \A q \in Placed : row'[q] = row[q]
<1> DEFINE new == [status |-> InCart, amount |-> much, schedule |-> s]
<1>1. p \notin Placed /\ s \in Offered[p]
  BY DEF CanInsert
<1>2. /\ placed' = Append(placed, p)
      /\ row' = [q \in Placed \cup {p} |-> IF q = p THEN new ELSE row[q]]
  BY <1>1 DEF Insert
<1>3. /\ Placed' = Placed \cup {p} /\ row'[p] = new
      /\ \A q \in Placed : row'[q] = row[q]
  BY <1>1, <1>2 DEF Placed
<1>4. placed' \in Seq(Products) /\ ToSet(placed') = ToSet(placed) \cup {p}
  <2>1. placed \in Seq(Products)
    BY DEF TableTypeOK
  <2>2. /\ placed' \in Seq(Products) /\ Len(placed') = Len(placed) + 1
        /\ DOMAIN placed' = 1..Len(placed') /\ DOMAIN placed = 1..Len(placed)
        /\ Len(placed) \in Nat
        /\ \A i \in 1..Len(placed) : placed'[i] = placed[i]
        /\ placed'[Len(placed) + 1] = p
    BY <1>2, <2>1, AppendProperties
  <2>3. DOMAIN placed' = DOMAIN placed \cup {Len(placed) + 1}
    BY ONLY <2>2
  <2> QED  BY <2>2, <2>3 DEF ToSet
<1>5. new \in Row
  BY DEF Row
<1>6. TableTypeOK'
  <2>1. Placed = ToSet(placed) /\ \A q \in Placed : row[q] \in Row
    BY DEF TableTypeOK, Placed
  <2> HIDE DEF new
  <2> QED  BY <1>2, <1>4, <1>5, <2>1 DEF TableTypeOK
<1>7. \A q : (Settled(q) => Settled(q)') /\ (IsRemoved(q) => IsRemoved(q)')
  BY <1>3 DEF Settled, IsRemoved
<1>8. row'[p].amount = much
  BY <1>3
<1> QED  BY <1>3, <1>6, <1>7, <1>8 DEF Stays

LEMMA TableStart == TableInit => TableTypeOK
<1> SUFFICES ASSUME TableInit PROVE TableTypeOK
  OBVIOUS
<1>1. PICK orders \in Before :
        /\ placed = [i \in DOMAIN orders |-> orders[i].order]
        /\ row \in [{orders[i].order : i \in DOMAIN orders} ->
                    [status : {InCart}, amount : Amounts, schedule : Schedules]]
  BY DEF TableInit
<1>2. orders \in Seq(Item)
  BY CartTableAssumption
<1>3. /\ DOMAIN orders = 1..Len(orders) /\ Len(orders) \in Nat
      /\ \A i \in DOMAIN orders : orders[i] \in Item
  BY ONLY <1>2
<1>4. \A i \in DOMAIN orders : orders[i].order \in Products
  BY <1>3 DEF Item
<1>5. placed \in Seq(Products)
  BY <1>1, <1>3, <1>4
<1>6. ToSet(placed) = {orders[i].order : i \in DOMAIN orders}
  BY <1>1 DEF ToSet
<1>7. [status : {InCart}, amount : Amounts, schedule : Schedules] \subseteq Row
  BY DEF Row
<1> QED  BY <1>1, <1>5, <1>6, <1>7 DEF TableTypeOK

(* What GET cart answers. *)
Answer == [i \in DOMAIN Listing |-> [order |-> Listing[i], amount |-> row[Listing[i]].amount]]

LEMMA AnswerIs ==
  ASSUME TableTypeOK
  PROVE  /\ Answer \in Seq(Item)
         /\ \A i \in DOMAIN Answer :
              Answer[i].order \in Placed /\ Answer[i].amount = row[Answer[i].order].amount
<1> DEFINE open == Kept(placed, {p \in Placed : row[p].status = InCart})
<1>1. open \in Seq(Products \cap {p \in Placed : row[p].status = InCart})
  BY KeptProperties DEF KeepsUpTo, TableTypeOK
<1>2. open \in Seq(Placed)
  BY <1>1
<1>3. Listing = [i \in DOMAIN open |-> open[Len(open) + 1 - i]]
  BY DEF Listing
<1> HIDE DEF open
<1>4. /\ DOMAIN open = 1..Len(open) /\ Len(open) \in Nat
      /\ \A i \in 1..Len(open) : open[i] \in Placed
  BY ONLY <1>2
<1>5. \A i \in 1..Len(open) : Len(open) + 1 - i \in 1..Len(open)
  BY ONLY <1>4
<1>6. DOMAIN Listing = 1..Len(open) /\ \A i \in 1..Len(open) : Listing[i] \in Placed
  BY <1>3, <1>4, <1>5
<1>7. \A i \in 1..Len(open) : Listing[i] \in Products /\ row[Listing[i]].amount \in Amounts
  BY <1>6, RowFields
<1>8. DOMAIN Answer = 1..Len(open)
  BY <1>6 DEF Answer
<1>9. \A i \in 1..Len(open) : Answer[i] \in Item
  BY <1>6, <1>7 DEF Answer, Item
<1>10. Answer = [i \in 1..Len(open) |-> Answer[i]]
  BY <1>6 DEF Answer
<1>11. Answer \in Seq(Item)
  BY <1>4, <1>9, <1>10
<1> QED  BY <1>6, <1>8, <1>11 DEF Answer
-----------------------------------------------------------------------------
(* How the list is drawn again. *)

LEMMA AgreeIs ==
  ASSUME NEW old \in Seq(Item), NEW new \in Seq(Item)
  PROVE  Agree(old, new) \in 0..Len(new) /\ Agree(old, new) <= Len(old)
<1> DEFINE T == {k \in 0..Len(new) : AgreeUpTo(old, new, k)}
<1>1. Len(new) \in Nat /\ Len(old) \in Nat
  OBVIOUS
<1>2. 0 \in T
  BY <1>1 DEF AgreeUpTo
<1>3. Max(T) \in T /\ \A k \in T : Max(T) >= k
  <2>1. T \in SUBSET (0..Len(new)) /\ T # {}
    BY <1>2
  <2> HIDE DEF T
  <2> QED  BY <1>1, <2>1, MaxOfNaturals
<1>4. PICK m \in 0..Len(new) : AgreeUpTo(old, new, m) /\ \A k \in T : m >= k
  BY <1>3
<1>5. m < Len(new) => ~AgreeUpTo(old, new, m + 1)
  <2> SUFFICES ASSUME m < Len(new), AgreeUpTo(old, new, m + 1) PROVE FALSE
    OBVIOUS
  <2>1. m + 1 \in 0..Len(new) /\ ~(m >= m + 1)
    BY <1>1
  <2> QED  BY <1>4, <2>1
<1>6. /\ Agree(old, new) \in 0..Len(new)
      /\ AgreeUpTo(old, new, Agree(old, new))
  BY <1>4, <1>5 DEF Agree
<1> QED  BY <1>6 DEF AgreeUpTo

LEMMA SetCartsTyped ==
  ASSUME CartTypeOK, NEW new \in Seq(Item), SetCarts(new)
  PROVE  /\ carts' \in Seq(Item) /\ DOMAIN rows' = DOMAIN carts'
         /\ rows' \in Seq([counter : Amounts, timer : Timer \cup {NoTimer}])
         /\ adrift' \subseteq Timer
<1> DEFINE Component == [counter : Amounts, timer : Timer \cup {NoTimer}]
           k == Agree(carts, new)
<1>1. /\ carts \in Seq(Item) /\ rows \in Seq(Component) /\ DOMAIN rows = DOMAIN carts
      /\ adrift \subseteq Timer
  BY DEF CartTypeOK
<1>2. k \in 0..Len(new) /\ k <= Len(carts) /\ Len(new) \in Nat /\ Len(carts) \in Nat
  BY <1>1, AgreeIs
<1> HIDE DEF k
<1>3. /\ DOMAIN carts = 1..Len(carts) /\ DOMAIN new = 1..Len(new)
      /\ \A i \in 1..Len(carts) : rows[i] \in Component
      /\ \A j \in 1..Len(new) : new[j] \in Item
  <2> HIDE DEF Component
  <2>1. \A i \in DOMAIN rows : rows[i] \in Component
    BY <1>1
  <2> QED  BY <1>1, <2>1
<1>4. ASSUME NEW j \in 1..Len(new)
      PROVE  Reused(carts, new, j) \subseteq 1..Len(carts)
  <2>1. j <= k => j \in 1..Len(carts)
    BY <1>2
  <2>2. k + 1..Len(carts) \subseteq 1..Len(carts)
    BY <1>2
  <2>3. ByKey(carts, new, j, k) \subseteq 1..Len(carts)
    BY <2>2 DEF ByKey
  <2> QED  BY <2>1, <2>3 DEF Reused, k
<1>5. Forgotten(carts, new) \subseteq 1..Len(carts)
  <2>1. k + 1..Len(carts) \subseteq 1..Len(carts)
    BY <1>2
  <2> QED  BY <2>1 DEF Forgotten, k
<1> DEFINE next(j) == IF Reused(carts, new, j) = {} THEN Mounted(new[j])
                      ELSE rows[CHOOSE i \in Reused(carts, new, j) : TRUE]
<1>6. ASSUME NEW j \in 1..Len(new)
      PROVE  next(j) \in Component
  <2>1. CASE Reused(carts, new, j) = {}
    BY <1>3, <2>1 DEF Mounted, Item
  <2>2. CASE Reused(carts, new, j) # {}
    <3>1. (CHOOSE i \in Reused(carts, new, j) : TRUE) \in 1..Len(carts)
      BY <1>4, <2>2
    <3> HIDE DEF Component
    <3> QED  BY <1>3, <2>2, <3>1
  <2> QED  BY <2>1, <2>2
<1>7. rows' = [j \in 1..Len(new) |-> next(j)] /\ carts' = new
  BY <1>3 DEF SetCarts
<1> HIDE DEF next, Component
<1>8. rows' \in Seq(Component) /\ DOMAIN rows' = DOMAIN carts'
  BY <1>2, <1>3, <1>6, <1>7
<1>9. adrift' \subseteq Timer
  <2>1. \A i \in 1..Len(carts) : rows[i].timer \in Timer \cup {NoTimer}
    BY <1>3 DEF Component
  <2> QED  BY <1>1, <1>5, <2>1 DEF SetCarts
<1> QED  BY <1>7, <1>8, <1>9 DEF Component
-----------------------------------------------------------------------------
(* What most steps leave alone. *)

LEMMA PurchaseStays ==
  ASSUME Purchase, UNCHANGED <<buying, toReserve, clicked, bought>>, Stays
  PROVE  Purchase'
  BY DEF Purchase, BoughtWasSelected, Rest, Stays

LEMMA RecordedStays ==
  ASSUME Recorded, Stays, SameAmounts, UNCHANGED <<reply, carts, patches, stored>>
  PROVE  Recorded'
  BY DEF Recorded, AmountsWereStored, SameAmounts, Stays, WasStored

LEMMA ShownStays ==
  ASSUME Shown, UNCHANGED <<carts, selected>>,
         fetching' # "idle" /\ buying' # "refresh" => fetching # "idle" /\ buying # "refresh"
  PROVE  Shown'
  BY DEF Shown, SelectedIsShown

(* A step that changes neither the table nor what the invariants relate to it. *)
LEMMA Looking ==
  ASSUME CartInv, CartTypeOK',
         UNCHANGED <<table, fetching, reply, carts, selected, buying, toReserve, patches,
                     cartHistory>>
  PROVE  CartInv'
<1>1. Stays /\ SameAmounts
  BY TableUntouched DEF CartInv, Typed
<1>2. Purchase' /\ Recorded' /\ Shown'
  BY <1>1, PurchaseStays, RecordedStays, ShownStays DEF CartInv, Stays, cartHistory
<1> QED  BY <1>1, <1>2 DEF CartInv, Stays, Typed

LEMMA CountStays ==
  ASSUME CartTypeOK, NEW kind \in Kinds, Happens(kind)
  PROVE  /\ events' \in [Kinds -> Nat]
         /\ \A other \in Kinds : events'[other] <= MaxEvents[other]
<1>1. /\ events \in [Kinds -> Nat] /\ events[kind] < MaxEvents[kind]
      /\ events' = [events EXCEPT ![kind] = @ + 1]
      /\ \A other \in Kinds : events[other] <= MaxEvents[other]
  BY DEF CartTypeOK, Happens
<1>2. events[kind] + 1 \in Nat /\ events[kind] + 1 <= MaxEvents[kind]
  <2>1. events[kind] \in Nat /\ MaxEvents[kind] \in Nat /\ events[kind] < MaxEvents[kind]
    BY <1>1, CartPageAssumption
  <2> QED  BY ONLY <2>1
<1> QED  BY <1>1, <1>2

(* A PATCH is sent. *)
LEMMA SendIs ==
  ASSUME Typed, Recorded, NEW p \in Products, NEW field \in {"amount", "schedule"},
         NEW value \in IF field = "amount" THEN Amounts ELSE Schedules,
         Send(p, field, value)
  PROVE  /\ patches' \subseteq PatchCall
         /\ \A call \in patches' :
              /\ call.value \in IF call.field = "amount" THEN Amounts ELSE Schedules
              /\ call.state # "sent" => call \in patches
<1> DEFINE new == [order |-> p, field |-> field, value |-> value, state |-> "sent"]
<1>1. patches' = patches \cup {new}
  BY DEF Send
<1>2. new \in PatchCall /\ new.state = "sent"
      /\ new.value \in IF new.field = "amount" THEN Amounts ELSE Schedules
  BY DEF PatchCall
<1> HIDE DEF new
<1> QED  BY <1>1, <1>2 DEF Typed, CartTypeOK

LEMMA Sending ==
  ASSUME CartInv, CartTypeOK',
         \A call \in patches' :
              /\ call.value \in IF call.field = "amount" THEN Amounts ELSE Schedules
              /\ call.state # "sent" => call \in patches,
         UNCHANGED <<table, fetching, reply, carts, selected, buying, toReserve, cartHistory>>
  PROVE  CartInv'
<1>1. Stays /\ SameAmounts
  BY TableUntouched DEF CartInv, Typed
<1>2. Purchase' /\ Shown'
  BY <1>1, PurchaseStays, ShownStays DEF CartInv, Stays, cartHistory
<1>3. Recorded'
  BY <1>1 DEF CartInv, Recorded, AmountsWereStored, SameAmounts, WasStored, Stays, cartHistory
<1> QED  BY <1>1, <1>2, <1>3 DEF CartInv, Stays, Typed
-----------------------------------------------------------------------------
LEMMA CartStart == TableInit /\ CartInit => CartInv
<1> SUFFICES ASSUME TableInit, CartInit PROVE CartInv
  OBVIOUS
<1>1. TableTypeOK
  BY TableStart
<1>2. /\ fetching = "sent" /\ reply = <<>> /\ carts = <<>> /\ rows = <<>> /\ adrift = {}
      /\ selected = <<>> /\ toReserve = <<>> /\ buying = "idle"
      /\ patches = {} /\ dialog = FALSE /\ events = [kind \in Kinds |-> 0]
      /\ clicked = {} /\ bought = {}
      /\ stored = {<<p, row[p].amount>> : p \in Placed}
  BY DEF CartInit
<1>3. CartTypeOK
  <2>1. \A p \in Placed : p \in Products /\ row[p].amount \in Amounts
    BY <1>1, RowFields
  <2>2. stored \in SUBSET (Products \X Amounts)
    BY <1>2, <2>1
  <2>3. events \in [Kinds -> Nat] /\ \A kind \in Kinds : events[kind] <= MaxEvents[kind]
    BY <1>2, CartPageAssumption
  <2>4. dialog \in BOOLEAN
    BY <1>2
  <2> QED  BY <1>2, <2>2, <2>3, <2>4 DEF CartTypeOK
<1>4. Typed
  BY <1>1, <1>2, <1>3 DEF Typed
<1>5. Purchase
  BY <1>2 DEF Purchase, BoughtWasSelected, ToSet
<1>6. Recorded
  BY <1>2 DEF Recorded, AmountsWereStored
<1>7. Shown
  BY <1>2 DEF Shown, SelectedIsShown, ToSet
<1> QED  BY <1>4, <1>5, <1>6, <1>7 DEF CartInv
-----------------------------------------------------------------------------
(* The list. *)

LEMMA AnswerCartStep == CartInv /\ AnswerCart => CartInv'
<1> SUFFICES ASSUME CartInv, AnswerCart PROVE CartInv'
  OBVIOUS
<1>1. /\ fetching = "sent" /\ fetching' \in {"resolved", "rejected"}
      /\ reply' = <<>> \/ reply' = Answer
      /\ UNCHANGED <<table, list, selected, buying, toReserve, patches, dialog, events,
                     cartHistory>>
  BY DEF AnswerCart, Outcomes, Answer
<1>2. Stays /\ SameAmounts
  BY <1>1, TableUntouched DEF CartInv, Typed
<1>3. /\ reply' \in Seq(Item)
      /\ \A i \in DOMAIN reply' : reply'[i].order \in Placed
           /\ reply'[i].amount = row[reply'[i].order].amount
  <2>1. CASE reply' = <<>>
    BY <2>1
  <2>2. CASE reply' = Answer
    <3> PICK answer : answer = Answer
      OBVIOUS
    <3>1. /\ answer \in Seq(Item)
          /\ \A i \in DOMAIN answer :
               answer[i].order \in Placed /\ answer[i].amount = row[answer[i].order].amount
      BY AnswerIs DEF CartInv, Typed
    <3> QED  BY <2>2, <3>1
  <2> QED  BY <1>1, <2>1, <2>2
<1>4. CartTypeOK'
  BY <1>1, <1>3 DEF CartInv, Typed, CartTypeOK, list, cartHistory
<1>5. Purchase' /\ Shown'
  BY <1>1, <1>2, PurchaseStays, ShownStays DEF CartInv, Stays, cartHistory, list
<1>6. Recorded'
  BY <1>1, <1>2, <1>3 DEF CartInv, Recorded, AmountsWereStored, SameAmounts, WasStored, Stays, cartHistory, list
<1> QED  BY <1>1, <1>2, <1>4, <1>5, <1>6 DEF CartInv, Typed, Stays

LEMMA ShowCartStep == CartInv /\ ShowCart => CartInv'
<1> SUFFICES ASSUME CartInv, ShowCart PROVE CartInv'
  OBVIOUS
<1>1. /\ buying = "idle" /\ fetching # "idle" /\ fetching' = "idle" /\ reply' = <<>>
      /\ SetCarts(reply) \/ UNCHANGED <<carts, rows, adrift>>
      /\ UNCHANGED <<table, selected, buying, toReserve, patches, dialog, events, cartHistory>>
  BY DEF ShowCart
<1>2. Stays /\ SameAmounts
  BY <1>1, TableUntouched DEF CartInv, Typed
<1>3. /\ carts' \in Seq(Item) /\ DOMAIN rows' = DOMAIN carts'
      /\ rows' \in Seq([counter : Amounts, timer : Timer \cup {NoTimer}])
      /\ adrift' \subseteq Timer
  <2>1. CASE SetCarts(reply)
    <3>1. reply \in Seq(Item) /\ CartTypeOK
      BY DEF CartInv, Typed, CartTypeOK
    <3> QED  BY <2>1, <3>1, SetCartsTyped
  <2>2. CASE UNCHANGED <<carts, rows, adrift>>
    BY <2>2 DEF CartInv, Typed, CartTypeOK
  <2> QED  BY <1>1, <2>1, <2>2
<1>4. CartTypeOK'
  BY <1>1, <1>3 DEF CartInv, Typed, CartTypeOK, cartHistory
<1>5. Purchase'
  BY <1>1, <1>2, PurchaseStays DEF CartInv, Stays, cartHistory
<1>6. Recorded'
  <2>1. carts' = reply \/ carts' = carts
    BY <1>1 DEF SetCarts
  <2> QED  BY <1>1, <1>2, <2>1 DEF CartInv, Recorded, AmountsWereStored, SameAmounts, WasStored, Stays, cartHistory
<1>7. Shown'
  <2>1. selected' = <<>>
    BY <1>1 DEF CartInv, Shown
  <2> QED  BY <1>1, <2>1 DEF Shown, SelectedIsShown, ToSet
<1> QED  BY <1>1, <1>2, <1>4, <1>5, <1>6, <1>7 DEF CartInv, Typed, Stays
-----------------------------------------------------------------------------
(* Changes in a row. *)

LEMMA toggleItemStep == ASSUME CartInv, NEW p \in Products, toggleItem(p) PROVE CartInv'
<1>1. /\ \E i \in DOMAIN carts : carts[i].order = p
      /\ UNCHANGED <<table, get, list, patches, dialog, events, buying, toReserve, cartHistory>>
  BY DEF toggleItem
<1>2. selected' \in Seq(Products) /\ ToSet(selected') \subseteq ToSet(selected) \cup {p}
  <2>0. selected \in Seq(Products)
    BY DEF CartInv, Typed, CartTypeOK
  <2>1. CASE p \notin ToSet(selected)
    <3>1. selected' = Append(selected, p)
      BY <2>1 DEF toggleItem
    <3>2. /\ selected' \in Seq(Products) /\ Len(selected) \in Nat
          /\ Len(selected') = Len(selected) + 1
          /\ DOMAIN selected' = 1..Len(selected') /\ DOMAIN selected = 1..Len(selected)
          /\ \A i \in 1..Len(selected) : selected'[i] = selected[i]
          /\ selected'[Len(selected) + 1] = p
      BY <2>0, <3>1, AppendProperties
    <3>3. DOMAIN selected' = DOMAIN selected \cup {Len(selected) + 1}
      BY ONLY <3>2
    <3> QED  BY <3>2, <3>3 DEF ToSet
  <2>2. CASE p \in ToSet(selected)
    <3>1. PICK i \in DOMAIN selected : selected' = RemoveAt(selected, i)
      BY <2>2 DEF toggleItem, ToSet
    <3>2. i \in 1..Len(selected) /\ Len(selected) \in Nat /\ DOMAIN selected = 1..Len(selected)
      BY <2>0
    <3>3. /\ selected' \in Seq(Products) /\ Len(selected') = Len(selected) - 1
          /\ \A j \in 1..Len(selected) - 1 :
               selected'[j] = IF j < i THEN selected[j] ELSE selected[j + 1]
      BY <2>0, <3>1, <3>2, RemoveAtProperties
    <3>4. DOMAIN selected' = 1..Len(selected) - 1
      BY <3>3
    <3>5. \A j \in 1..Len(selected) - 1 : j \in 1..Len(selected) /\ j + 1 \in 1..Len(selected)
      BY ONLY <3>2
    <3>6. \A j \in 1..Len(selected) - 1 : selected'[j] \in ToSet(selected)
      BY <3>2, <3>3, <3>5 DEF ToSet
    <3> QED  BY <3>3, <3>4, <3>6 DEF ToSet
  <2> QED  BY <2>1, <2>2
<1>3. Stays /\ SameAmounts
  BY <1>1, TableUntouched DEF CartInv, Typed
<1>4. CartTypeOK'
  BY <1>1, <1>2 DEF CartInv, Typed, CartTypeOK, list, get, cartHistory
<1>5. Purchase' /\ Recorded'
  BY <1>1, <1>3, PurchaseStays, RecordedStays DEF CartInv, Stays, get, list, cartHistory
<1>6. Shown'
  <2>1. carts # <<>>
    BY <1>1
  <2> QED  BY <1>1, <1>2, <2>1 DEF CartInv, Shown, SelectedIsShown, get, list
<1> QED  BY <1>1, <1>3, <1>4, <1>5, <1>6 DEF CartInv, Typed, Stays

LEMMA handleCounterChangeStep ==
  ASSUME CartInv, NEW i \in DOMAIN rows, handleCounterChange(i)
  PROVE  CartInv'
<1> DEFINE Component == [counter : Amounts, timer : Timer \cup {NoTimer}]
<1>1. /\ UNCHANGED <<table, get, carts, adrift, selected, buying, toReserve, patches,
                     dialog, cartHistory>>
      /\ Happens("change")
  BY DEF handleCounterChange
<1>2. PICK value \in Clicks(rows[i].counter) :
        rows' = [rows EXCEPT ![i] =
          [counter |-> value, timer |-> [order |-> carts[i].order, amount |-> value]]]
  BY DEF handleCounterChange
<1>3. /\ rows \in Seq(Component) /\ carts \in Seq(Item) /\ DOMAIN rows = DOMAIN carts
  BY DEF CartInv, Typed, CartTypeOK
<1>4. rows[i] \in Component /\ carts[i] \in Item
  <2> HIDE DEF Component
  <2> QED  BY <1>3
<1>5. value \in Amounts
  <2>1. rows[i].counter \in 1..MaxAmount /\ MaxAmount \in Nat
    BY <1>4, CartTableAssumption DEF Amounts
  <2>2. PICK c \in 1..MaxAmount : c = rows[i].counter
    BY <2>1
  <2>3. value = (IF c = 1 THEN 1 ELSE c - 1) \/ value = (IF c = MaxAmount THEN c ELSE c + 1)
    BY <1>2, <2>2 DEF Clicks
  <2>4. value \in 1..MaxAmount
    BY ONLY <2>1, <2>2, <2>3
  <2> QED  BY <2>4 DEF Amounts
<1> DEFINE new == [counter |-> value, timer |-> [order |-> carts[i].order, amount |-> value]]
<1>6. new \in Component
  BY <1>4, <1>5 DEF Timer, Item
<1>7. rows' = [rows EXCEPT ![i] = new]
  BY <1>2
<1> HIDE DEF new, Component
<1>8. rows' \in Seq(Component) /\ DOMAIN rows' = DOMAIN rows
  BY <1>3, <1>6, <1>7
<1>9. events' \in [Kinds -> Nat] /\ \A kind \in Kinds : events'[kind] <= MaxEvents[kind]
  BY <1>1, CountStays DEF CartInv, Typed, Kinds
<1>10. CartTypeOK'
  BY <1>1, <1>8, <1>9 DEF CartInv, Typed, CartTypeOK, get, cartHistory, Component
<1> QED  BY <1>1, <1>10, Looking DEF get

LEMMA updateProductAmountStep == CartInv /\ updateProductAmount => CartInv'
<1> SUFFICES ASSUME CartInv, updateProductAmount PROVE CartInv'
  OBVIOUS
<1> DEFINE Component == [counter : Amounts, timer : Timer \cup {NoTimer}]
<1>1. UNCHANGED <<table, get, carts, selected, buying, toReserve, dialog, events, cartHistory>>
  BY DEF updateProductAmount
<1>2. /\ rows \in Seq(Component) /\ DOMAIN rows = DOMAIN carts /\ adrift \subseteq Timer
      /\ \A i \in DOMAIN rows : rows[i] \in Component
  <2>1. rows \in Seq(Component) /\ DOMAIN rows = DOMAIN carts /\ adrift \subseteq Timer
    BY DEF CartInv, Typed, CartTypeOK
  <2> HIDE DEF Component
  <2> QED  BY <2>1
<1>3. \E timer \in Timer :
        /\ Send(timer.order, "amount", timer.amount)
        /\ rows' \in Seq(Component) /\ DOMAIN rows' = DOMAIN rows /\ adrift' \subseteq Timer
  <2>1. CASE \E i \in DOMAIN rows :
               /\ rows[i].timer # NoTimer
               /\ Send(rows[i].timer.order, "amount", rows[i].timer.amount)
               /\ rows' = [rows EXCEPT ![i].timer = NoTimer]
               /\ UNCHANGED adrift
    <3>1. PICK i \in DOMAIN rows :
            /\ rows[i].timer # NoTimer
            /\ Send(rows[i].timer.order, "amount", rows[i].timer.amount)
            /\ rows' = [rows EXCEPT ![i].timer = NoTimer]
            /\ UNCHANGED adrift
      BY <2>1
    <3> DEFINE old == rows[i]
               new == [old EXCEPT !.timer = NoTimer]
    <3>2. old \in Component /\ old.timer \in Timer
      BY <1>2, <3>1
    <3>3. rows' = [rows EXCEPT ![i] = new]
      BY <3>1
    <3> HIDE DEF old
    <3>4. new \in Component
      BY <3>2
    <3> HIDE DEF new, Component
    <3>5. rows' \in Seq(Component) /\ DOMAIN rows' = DOMAIN rows
      BY <1>2, <3>3, <3>4
    <3> QED  BY <1>2, <3>1, <3>2, <3>5 DEF old
  <2>2. CASE \E timer \in adrift :
               /\ Send(timer.order, "amount", timer.amount)
               /\ adrift' = adrift \ {timer}
               /\ UNCHANGED rows
    <3> HIDE DEF Component
    <3> QED  BY <1>2, <2>2
  <2> QED  BY <2>1, <2>2 DEF updateProductAmount
<1>4. PICK p \in Products, much \in Amounts : Send(p, "amount", much)
  BY <1>3 DEF Timer
<1>5. /\ patches' \subseteq PatchCall
      /\ \A call \in patches' :
           /\ call.value \in IF call.field = "amount" THEN Amounts ELSE Schedules
           /\ call.state # "sent" => call \in patches
  BY <1>4, SendIs DEF CartInv
<1>6. CartTypeOK'
  BY <1>1, <1>2, <1>3, <1>5 DEF CartInv, Typed, CartTypeOK, get, cartHistory
<1> QED  BY <1>1, <1>5, <1>6, Sending DEF get

LEMMA updateProductScheduleStep ==
  ASSUME CartInv, NEW p \in Products, NEW s \in Schedules, updateProductSchedule(p, s)
  PROVE  CartInv'
<1>1. /\ Happens("change") /\ Send(p, "schedule", s)
      /\ UNCHANGED <<table, get, list, selected, buying, toReserve, dialog, cartHistory>>
  BY DEF updateProductSchedule
<1>2. /\ patches' \subseteq PatchCall
      /\ \A call \in patches' :
           /\ call.value \in IF call.field = "amount" THEN Amounts ELSE Schedules
           /\ call.state # "sent" => call \in patches
  BY <1>1, SendIs DEF CartInv
<1>3. events' \in [Kinds -> Nat] /\ \A kind \in Kinds : events'[kind] <= MaxEvents[kind]
  BY <1>1, CountStays DEF CartInv, Typed, Kinds
<1>4. CartTypeOK'
  BY <1>1, <1>2, <1>3 DEF CartInv, Typed, CartTypeOK, get, list, cartHistory
<1> QED  BY <1>1, <1>2, <1>4, Sending DEF get, list

LEMMA FindPatchedStep == ASSUME CartInv, NEW call \in patches, FindPatched(call) PROVE CartInv'
<1>1. /\ call.state = "sent"
      /\ UNCHANGED <<table, get, list, selected, buying, toReserve, dialog, events, cartHistory>>
  BY DEF FindPatched
<1>2. PICK answer \in {"found", "rejected"} :
        /\ patches' = (patches \ {call}) \cup {[call EXCEPT !.state = answer]}
        /\ answer = "found" => call.order \in Placed
  BY DEF FindPatched, LookUp, Exists
<1>3. /\ call \in PatchCall /\ patches \subseteq PatchCall
      /\ call.value \in IF call.field = "amount" THEN Amounts ELSE Schedules
  BY DEF CartInv, Typed, CartTypeOK
<1> DEFINE new == [call EXCEPT !.state = answer]
<1>4. /\ new \in PatchCall /\ new.state = answer
      /\ new.order = call.order /\ new.field = call.field /\ new.value = call.value
  BY <1>3 DEF PatchCall
<1>5. patches' = (patches \ {call}) \cup {new}
  BY <1>2
<1> HIDE DEF new
<1>6. Stays /\ SameAmounts
  BY <1>1, TableUntouched DEF CartInv, Typed
<1>7. CartTypeOK'
  BY <1>1, <1>3, <1>4, <1>5 DEF CartInv, Typed, CartTypeOK, get, list, cartHistory
<1>8. Typed'
  BY <1>3, <1>4, <1>5, <1>6, <1>7 DEF CartInv, Typed, Stays
<1>9. Purchase' /\ Shown'
  BY <1>1, <1>6, PurchaseStays, ShownStays DEF CartInv, get, list, cartHistory
<1>10. Recorded'
  <2>1. ASSUME NEW other \in patches'
        PROVE  /\ other.state = "found" => other.order \in Placed
               /\ other.state = "resolved" /\ other.field = "amount" =>
                    WasStored(other.order, other.value)
    <3>1. CASE other = new
      BY <1>2, <1>4, <3>1
    <3>2. CASE other \in patches
      BY <3>2 DEF CartInv, Recorded
    <3> QED  BY <1>5, <3>1, <3>2
  <2>2. \A p : IsRemoved(p) => IsRemoved(p)'
    BY <1>6 DEF Stays
  <2>3. AmountsWereStored'
    BY <1>1, <2>2 DEF CartInv, Recorded, AmountsWereStored, list, cartHistory
  <2> QED  BY <1>1, <1>6, <2>1, <2>2, <2>3
           DEF CartInv, Recorded, SameAmounts, WasStored, get, cartHistory
<1> QED  BY <1>8, <1>9, <1>10 DEF CartInv

LEMMA AnswerPatchStep == ASSUME CartInv, NEW call \in patches, AnswerPatch(call) PROVE CartInv'
<1>1. /\ UNCHANGED <<get, list, selected, buying, toReserve, dialog, events, clicked, bought>>
      /\ stored' = stored \cup {<<p, row'[p].amount>> : p \in Placed}
  BY DEF AnswerPatch
<1>2. PICK outcome \in {"resolved", "rejected"} :
        /\ patches' = (patches \ {call}) \cup {[call EXCEPT !.state = outcome]}
        /\ outcome = "resolved" => Patch(call.order, call.field, call.value)
        /\ Patch(call.order, call.field, call.value) \/ UNCHANGED table
  BY DEF AnswerPatch, Outcomes
<1>3. /\ call \in PatchCall /\ patches \subseteq PatchCall
      /\ call.value \in IF call.field = "amount" THEN Amounts ELSE Schedules
      /\ call.state = "found" /\ call.order \in Placed
  BY DEF AnswerPatch, CartInv, Typed, CartTypeOK, Recorded
<1>4. /\ Stays /\ Placed' = Placed
      /\ outcome = "resolved" /\ call.field = "amount" =>
           row'[call.order].amount = call.value \/ IsRemoved(call.order)'
  <2>1. Stays /\ Placed' = Placed
    BY <1>2, <1>3, PatchStays, TableUntouched DEF CartInv, Typed, SameAmounts
  <2>2. ~Exists(call.order) => IsRemoved(call.order)
    BY <1>3 DEF Exists, IsRemoved
  <2> QED  BY <1>2, <1>3, <2>1, <2>2, PatchStays DEF CartInv, Typed, Stays
<1> DEFINE new == [call EXCEPT !.state = outcome]
<1>5. /\ new \in PatchCall /\ new.state = outcome
      /\ new.order = call.order /\ new.field = call.field /\ new.value = call.value
  BY <1>3 DEF PatchCall
<1>6. patches' = (patches \ {call}) \cup {new}
  BY <1>2
<1> HIDE DEF new
<1>7. \A p \in Placed : p \in Products /\ row'[p].amount \in Amounts /\ <<p, row'[p].amount>> \in stored'
  <2>1. \A p \in Placed : row'[p] \in Row /\ p \in Products
    <3>1. TableTypeOK'
      BY <1>4 DEF Stays
    <3>2. Placed' = ToSet(placed') /\ \A p \in Placed' : row'[p] \in Row
      BY <3>1 DEF TableTypeOK, Placed
    <3> QED  BY <1>4, <3>2, RowFields DEF CartInv, Typed
  <2> QED  BY <1>1, <2>1 DEF Row
<1>8. stored \subseteq stored' /\ stored' \subseteq Products \X Amounts
  <2>1. stored \subseteq Products \X Amounts
    BY DEF CartInv, Typed, CartTypeOK
  <2> QED  BY <1>1, <1>7, <2>1
<1>9. CartTypeOK'
  BY <1>1, <1>3, <1>5, <1>6, <1>8 DEF CartInv, Typed, CartTypeOK, get, list
<1>10. Typed'
  BY <1>3, <1>4, <1>5, <1>6, <1>9 DEF CartInv, Typed, Stays
<1>11. Purchase' /\ Shown'
  BY <1>1, <1>4, PurchaseStays, ShownStays DEF CartInv, Stays, get, list
<1>12. Recorded'
  <2>1. ASSUME NEW other \in patches'
        PROVE  /\ other.state = "found" => other.order \in Placed'
               /\ other.state = "resolved" /\ other.field = "amount" =>
                    WasStored(other.order, other.value)'
    <3>1. CASE other = new
      BY <1>2, <1>3, <1>4, <1>5, <1>7, <3>1 DEF WasStored
    <3>2. CASE other \in patches
      BY <1>4, <1>8, <3>2 DEF CartInv, Recorded, WasStored, Stays
    <3> QED  BY <1>6, <3>1, <3>2
  <2>2. AmountsWereStored'
    BY <1>1, <1>4, <1>8 DEF CartInv, Recorded, AmountsWereStored, Stays, list
  <2> QED  BY <1>1, <1>4, <1>7, <1>8, <2>1, <2>2 DEF CartInv, Recorded, get
<1> QED  BY <1>10, <1>11, <1>12 DEF CartInv

LEMMA PatchAnsweredStep ==
  ASSUME CartInv, NEW call \in patches, PatchAnswered(call)
  PROVE  CartInv'
<1>1. /\ patches' = patches \ {call}
      /\ UNCHANGED <<table, get, rows, adrift, selected, buying, toReserve, dialog, events,
                     cartHistory>>
  BY DEF PatchAnswered
<1>2. carts \in Seq(Item) /\ call \in PatchCall
  BY DEF CartInv, Typed, CartTypeOK
<1>3. DOMAIN carts = 1..Len(carts) /\ Len(carts) \in Nat /\ \A i \in DOMAIN carts : carts[i] \in Item
  BY ONLY <1>2
<1>4. /\ carts' \in Seq(Item) /\ DOMAIN carts' = DOMAIN carts
      /\ \A i \in DOMAIN carts :
           /\ carts'[i].order = carts[i].order
           /\ WasStored(carts[i].order, carts'[i].amount)
  <2>1. CASE call.state = "resolved" /\ call.field = "amount"
    <3> DEFINE new(i) == IF carts[i].order = call.order
                           THEN [carts[i] EXCEPT !.amount = call.value] ELSE carts[i]
    <3>1. carts' = [i \in DOMAIN carts |-> new(i)]
      BY <2>1 DEF PatchAnswered
    <3>2. call.value \in Amounts /\ WasStored(call.order, call.value)
      BY <2>1 DEF CartInv, Typed, Recorded
    <3>3. ASSUME NEW i \in DOMAIN carts
          PROVE  /\ new(i) \in Item /\ new(i).order = carts[i].order
                 /\ WasStored(carts[i].order, new(i).amount)
      <4>1. carts[i] \in Item /\ WasStored(carts[i].order, carts[i].amount)
        BY <1>3 DEF CartInv, Recorded, AmountsWereStored, WasStored
      <4> QED  BY <3>2, <4>1 DEF Item
    <3> HIDE DEF new
    <3>4. carts' \in Seq(Item)
      <4>1. carts' = [i \in 1..Len(carts) |-> new(i)] /\ \A i \in 1..Len(carts) : new(i) \in Item
        BY <1>3, <3>1, <3>3
      <4> QED  BY ONLY <1>3, <4>1
    <3> QED  BY <3>1, <3>3, <3>4
  <2>2. CASE ~(call.state = "resolved" /\ call.field = "amount")
    <3>1. carts' = carts
      BY <2>2 DEF PatchAnswered
    <3> QED  BY <1>2, <3>1 DEF CartInv, Recorded, AmountsWereStored, WasStored
  <2> QED  BY <2>1, <2>2
<1>5. Stays /\ SameAmounts
  BY <1>1, TableUntouched DEF CartInv, Typed
<1>6. CartTypeOK'
  BY <1>1, <1>4 DEF CartInv, Typed, CartTypeOK, get, cartHistory
<1>7. Typed'
  BY <1>1, <1>5, <1>6 DEF CartInv, Typed, Stays
<1>8. Purchase'
  BY <1>1, <1>5, PurchaseStays DEF CartInv, Stays, cartHistory
<1>9. Recorded'
  BY <1>1, <1>4, <1>5 DEF CartInv, Recorded, AmountsWereStored, SameAmounts, Stays, WasStored,
           get, cartHistory
<1>10. Shown'
  <2>1. carts = <<>> => carts' = <<>>
    BY <1>3, <1>4
  <2> QED  BY <1>1, <1>4, <2>1 DEF CartInv, Shown, SelectedIsShown, get
<1> QED  BY <1>7, <1>8, <1>9, <1>10 DEF CartInv
-----------------------------------------------------------------------------
(* The purchase. *)

LEMMA finalizePurchaseStep == CartInv /\ finalizePurchase => CartInv'
<1> SUFFICES ASSUME CartInv, finalizePurchase PROVE CartInv'
  OBVIOUS
<1>1. /\ selected # <<>> /\ toReserve' = selected
      /\ buying = "idle" /\ buying' = "sent"
      /\ clicked' = ToSet(selected) /\ bought' = {} /\ Happens("purchase")
      /\ UNCHANGED <<table, get, list, selected, patches, dialog, stored>>
  BY DEF finalizePurchase
<1>2. Stays /\ SameAmounts
  BY <1>1, TableUntouched DEF CartInv, Typed
<1>3. events' \in [Kinds -> Nat] /\ \A kind \in Kinds : events'[kind] <= MaxEvents[kind]
  BY <1>1, CountStays DEF CartInv, Typed, Kinds
<1>4. CartTypeOK'
  <2>1. selected \in Seq(Products)
    BY DEF CartInv, Typed, CartTypeOK
  <2>2. ToSet(selected) \subseteq Products
    BY <2>1 DEF ToSet
  <2> QED  BY <1>1, <1>3, <2>1, <2>2 DEF CartInv, Typed, CartTypeOK, get, list
<1>5. Typed'
  BY <1>1, <1>2, <1>4 DEF CartInv, Typed, Stays
<1>6. Purchase'
  BY <1>1 DEF Purchase, Rest, BoughtWasSelected
<1>7. Recorded' /\ Shown'
  BY <1>1, <1>2, RecordedStays, ShownStays DEF CartInv, get, list
<1> QED  BY <1>5, <1>6, <1>7 DEF CartInv

(* What is left of the loop after its head. *)
LEMMA RestIs ==
  ASSUME NEW s \in Seq(Products), s # <<>>
  PROVE  /\ Head(s) \in Products /\ Tail(s) \in Seq(Products)
         /\ Len(Tail(s)) = Len(s) - 1 /\ Len(s) \in Nat \ {0}
         /\ ToSet(s) = {Head(s)} \cup ToSet(Tail(s))
<1>1. /\ Head(s) \in Products /\ Tail(s) \in Seq(Products)
      /\ DOMAIN s = 1..Len(s) /\ Len(s) \in Nat \ {0}
      /\ Head(s) = s[1] /\ DOMAIN Tail(s) = 1..Len(s) - 1 /\ Len(Tail(s)) = Len(s) - 1
      /\ \A i \in 1..Len(s) - 1 : Tail(s)[i] = s[i + 1]
  OBVIOUS
<1>2. \A q \in ToSet(s) : q = Head(s) \/ q \in ToSet(Tail(s))
  <2> SUFFICES ASSUME NEW i \in 1..Len(s), i # 1
               PROVE  s[i] \in ToSet(Tail(s))
    BY <1>1 DEF ToSet
  <2>1. i - 1 \in 1..Len(s) - 1 /\ (i - 1) + 1 = i
    BY <1>1
  <2> QED  BY <1>1, <2>1 DEF ToSet
<1>3. Head(s) \in ToSet(s) /\ ToSet(Tail(s)) \subseteq ToSet(s)
  BY <1>1 DEF ToSet
<1> QED  BY <1>1, <1>2, <1>3

LEMMA FindReservedStep == CartInv /\ FindReserved => CartInv'
<1> SUFFICES ASSUME CartInv, FindReserved PROVE CartInv'
  OBVIOUS
<1>1. /\ buying = "sent" /\ buying' \in {"found", "rejected"}
      /\ buying' = "found" => Head(toReserve) \in Placed
      /\ UNCHANGED <<table, get, list, selected, toReserve, patches, dialog, events, cartHistory>>
  BY DEF FindReserved, LookUp, Exists
<1>2. Stays /\ SameAmounts
  BY <1>1, TableUntouched DEF CartInv, Typed
<1>3. CartTypeOK'
  BY <1>1 DEF CartInv, Typed, CartTypeOK, get, list, cartHistory
<1>4. Typed'
  BY <1>1, <1>2, <1>3 DEF CartInv, Typed, Stays
<1>5. Purchase'
  <2>1. UNCHANGED <<toReserve, clicked, bought>>
    BY <1>1 DEF cartHistory
  <2> QED  BY <1>1, <1>2, <2>1 DEF CartInv, Purchase, BoughtWasSelected, Rest, Stays
<1>6. Recorded' /\ Shown'
  BY <1>1, <1>2, RecordedStays, ShownStays DEF CartInv, get, list, cartHistory
<1> QED  BY <1>4, <1>5, <1>6 DEF CartInv

LEMMA AnswerReserveStep == CartInv /\ AnswerReserve => CartInv'
<1> SUFFICES ASSUME CartInv, AnswerReserve PROVE CartInv'
  OBVIOUS
<1>1. PICK p : p = Head(toReserve)
  OBVIOUS
<1>2. PICK done \in BOOLEAN : \E outcome \in Outcomes(done) :
        /\ IF done THEN Reserve(p) ELSE UNCHANGED table
        /\ buying' = outcome
        /\ bought' = IF done /\ Exists(p) THEN bought \cup {p} ELSE bought
  BY <1>1 DEF AnswerReserve
<1>3. /\ buying = "found"
      /\ UNCHANGED <<get, list, selected, toReserve, patches, dialog, events, clicked, stored>>
  BY DEF AnswerReserve
<1>4. Stays /\ SameAmounts /\ (done => Settled(p)')
  <2>1. CASE done
    <3>1. Reserve(p) /\ p \in Placed
      BY <1>1, <1>2, <1>3, <2>1 DEF CartInv, Purchase
    <3>2. ~Exists(p) => Settled(p)
      BY <3>1 DEF Exists, Settled, Removed, InCart
    <3> QED  BY <3>1, <3>2, ReserveStays DEF CartInv, Typed, Stays
  <2>2. CASE ~done
    BY <1>2, <2>2, TableUntouched DEF CartInv, Typed
  <2> QED  BY <2>1, <2>2
<1>5. toReserve \in Seq(Products) /\ toReserve # <<>>
  BY <1>3 DEF CartInv, Typed, CartTypeOK, Purchase
<1>6. p \in Products /\ ToSet(toReserve) = {p} \cup ToSet(Tail(toReserve))
  BY <1>1, <1>5, RestIs
<1>7. buying' \in {"resolved", "rejected"} /\ (buying' = "resolved" => done)
  BY <1>2 DEF Outcomes
<1>8. p \in clicked /\ bought' \subseteq bought \cup {p}
  BY <1>2, <1>6 DEF CartInv, Purchase
<1>9. CartTypeOK'
  BY <1>3, <1>6, <1>7, <1>8 DEF CartInv, Typed, CartTypeOK, get, list
<1>10. Typed'
  BY <1>3, <1>4, <1>9 DEF CartInv, Typed, Stays
<1>11. Purchase'
  <2>1. BoughtWasSelected'
    BY <1>3, <1>8 DEF CartInv, Purchase, BoughtWasSelected
  <2>2. buying' = "resolved" => \A q \in clicked' : q \in Rest' \/ Settled(q)'
    BY <1>3, <1>4, <1>6, <1>7 DEF CartInv, Purchase, Rest, Stays
  <2> QED  BY <1>3, <1>5, <1>7, <2>1, <2>2 DEF CartInv, Purchase
<1>12. Recorded' /\ Shown'
  BY <1>3, <1>4, <1>7, RecordedStays, ShownStays DEF CartInv, get, list
<1> QED  BY <1>10, <1>11, <1>12 DEF CartInv

LEMMA ReserveAnsweredStep == CartInv /\ ReserveAnswered => CartInv'
<1> SUFFICES ASSUME CartInv, ReserveAnswered PROVE CartInv'
  OBVIOUS
<1>1. /\ buying = "resolved" /\ toReserve' = Tail(toReserve)
      /\ UNCHANGED <<table, reply, list, selected, patches, dialog, events, cartHistory>>
      /\ \/ Len(toReserve) > 1 /\ buying' = "sent" /\ UNCHANGED fetching
         \/ ~(Len(toReserve) > 1) /\ buying' = "refresh" /\ fetching' = "sent"
  BY DEF ReserveAnswered
<1>2. toReserve \in Seq(Products) /\ toReserve # <<>>
  BY <1>1 DEF CartInv, Typed, CartTypeOK, Purchase
<1>3. /\ toReserve' \in Seq(Products) /\ Len(toReserve') = Len(toReserve) - 1
      /\ Len(toReserve) \in Nat \ {0} /\ ToSet(toReserve') \subseteq ToSet(toReserve)
  BY <1>1, <1>2, RestIs
<1>4. Len(toReserve) > 1 => toReserve' # <<>>
  <2>1. Len(toReserve) > 1 => Len(toReserve') # 0
    BY ONLY <1>3
  <2> QED  BY <2>1
<1>5. ~(Len(toReserve) > 1) => ToSet(toReserve') = {}
  <2>1. ~(Len(toReserve) > 1) => Len(toReserve') = 0
    BY ONLY <1>3
  <2> QED  BY <1>3, <2>1 DEF ToSet
<1>6. Stays /\ SameAmounts
  BY <1>1, TableUntouched DEF CartInv, Typed
<1>7. CartTypeOK'
  BY <1>1, <1>3 DEF CartInv, Typed, CartTypeOK, list, cartHistory
<1>8. Typed'
  BY <1>1, <1>6, <1>7 DEF CartInv, Typed, Stays
<1>9. Purchase'
  BY <1>1, <1>3, <1>4, <1>5, <1>6 DEF CartInv, Purchase, Rest, BoughtWasSelected, Stays, cartHistory
<1>10. Recorded' /\ Shown'
  BY <1>1, <1>6, RecordedStays, ShownStays DEF CartInv, list, cartHistory
<1> QED  BY <1>8, <1>9, <1>10 DEF CartInv

LEMMA PurchaseFailedStep == CartInv /\ PurchaseFailed => CartInv'
<1> SUFFICES ASSUME CartInv, PurchaseFailed PROVE CartInv'
  OBVIOUS
<1>1. /\ buying' = "idle" /\ fetching' = "idle" /\ toReserve' = <<>>
      /\ UNCHANGED <<table, reply, list, selected, patches, dialog, events, cartHistory>>
  BY DEF PurchaseFailed
<1>2. Stays /\ SameAmounts
  BY <1>1, TableUntouched DEF CartInv, Typed
<1>3. CartTypeOK'
  BY <1>1 DEF CartInv, Typed, CartTypeOK, list, cartHistory
<1>4. Typed'
  BY <1>1, <1>2, <1>3 DEF CartInv, Typed, Stays
<1>5. Purchase'
  BY <1>1 DEF CartInv, Purchase, BoughtWasSelected, ToSet, cartHistory
<1>6. Recorded' /\ Shown'
  BY <1>1, <1>2, RecordedStays, ShownStays DEF CartInv, list, cartHistory
<1> QED  BY <1>4, <1>5, <1>6 DEF CartInv

LEMMA PurchaseDoneStep == CartInv /\ PurchaseDone => CartInv'
<1> SUFFICES ASSUME CartInv, PurchaseDone PROVE CartInv'
  OBVIOUS
<1>1. /\ SetCarts(reply) /\ selected' = <<>> /\ dialog' = TRUE
      /\ buying' = "idle" /\ fetching' = "idle" /\ reply' = <<>>
      /\ UNCHANGED <<table, toReserve, patches, events, cartHistory>>
  BY DEF PurchaseDone
<1>2. Stays /\ SameAmounts
  BY <1>1, TableUntouched DEF CartInv, Typed
<1>3. /\ carts' \in Seq(Item) /\ DOMAIN rows' = DOMAIN carts'
      /\ rows' \in Seq([counter : Amounts, timer : Timer \cup {NoTimer}])
      /\ adrift' \subseteq Timer
  <2>1. reply \in Seq(Item) /\ CartTypeOK
    BY DEF CartInv, Typed, CartTypeOK
  <2> QED  BY <1>1, <2>1, SetCartsTyped
<1>4. CartTypeOK'
  <2>1. dialog' \in BOOLEAN
    BY <1>1
  <2> QED  BY <1>1, <1>3, <2>1 DEF CartInv, Typed, CartTypeOK, cartHistory
<1>5. Typed'
  BY <1>1, <1>2, <1>4 DEF CartInv, Typed, Stays
<1>6. Purchase'
  BY <1>1 DEF CartInv, Purchase, BoughtWasSelected, cartHistory
<1>7. Recorded'
  <2>1. carts' = reply
    BY <1>1 DEF SetCarts
  <2> QED  BY <1>1, <1>2, <2>1 DEF CartInv, Recorded, AmountsWereStored, SameAmounts, WasStored, Stays, cartHistory
<1>8. Shown'
  BY <1>1 DEF Shown, SelectedIsShown, ToSet
<1> QED  BY <1>5, <1>6, <1>7, <1>8 DEF CartInv

LEMMA CloseDialogStep == CartInv /\ CloseDialog => CartInv'
<1> SUFFICES ASSUME CartInv, CloseDialog PROVE CartInv'
  OBVIOUS
<1>1. /\ dialog' = FALSE
      /\ UNCHANGED <<table, get, list, selected, buying, toReserve, patches, events, cartHistory>>
  BY DEF CloseDialog
<1>2. CartTypeOK'
  <2>1. dialog' \in BOOLEAN
    BY <1>1
  <2> QED  BY <1>1, <2>1 DEF CartInv, Typed, CartTypeOK, get, list, cartHistory
<1> QED  BY <1>1, <1>2, Looking DEF get, list

LEMMA ElsewhereStep == CartInv /\ Elsewhere => CartInv'
<1> SUFFICES ASSUME CartInv, Elsewhere PROVE CartInv'
  OBVIOUS
<1>1. /\ UNCHANGED <<get, list, selected, buying, toReserve, patches, dialog, clicked, bought>>
      /\ Happens("elsewhere")
  BY DEF Elsewhere
<1>2. events' \in [Kinds -> Nat] /\ \A kind \in Kinds : events'[kind] <= MaxEvents[kind]
  BY <1>1, CountStays DEF CartInv, Typed, Kinds
<1> DEFINE InStep == /\ Stays /\ stored \subseteq stored' /\ stored' \in SUBSET (Products \X Amounts)
                    /\ \A p \in Placed' : <<p, row'[p].amount>> \in stored'
<1>3. InStep
  <2>0. stored \in SUBSET (Products \X Amounts) /\ 1 \in Amounts
    BY CartTableAssumption DEF CartInv, Typed, CartTypeOK, Amounts
  <2>1. ASSUME NEW p \in Placed, RemoveListing(p), UNCHANGED stored
        PROVE  InStep
    <3>1. Stays /\ SameAmounts
      BY <2>1, RemoveStays DEF CartInv, Typed
    <3> QED  BY <2>0, <2>1, <3>1 DEF CartInv, Recorded, SameAmounts
  <2>2. ASSUME NEW p \in Products, NEW s \in Schedules, CanInsert(p, s), Insert(p, 1, s),
               stored' = stored \cup {<<p, 1>>}
        PROVE  InStep
    <3>1. /\ Stays /\ Placed' = Placed \cup {p}
          /\ row'[p].amount = 1 /\ \A q \in Placed : row'[q] = row[q]
      BY <2>0, <2>2, InsertStays DEF CartInv, Typed
    <3> QED  BY <2>0, <2>2, <3>1 DEF CartInv, Recorded
  <2> QED  BY <2>1, <2>2 DEF Elsewhere
<1>4. CartTypeOK'
  BY <1>1, <1>2, <1>3 DEF CartInv, Typed, CartTypeOK, get, list
<1>5. Typed'
  BY <1>1, <1>3, <1>4 DEF CartInv, Typed, Stays
<1>6. Purchase' /\ Shown'
  BY <1>1, <1>3, PurchaseStays, ShownStays DEF CartInv, Stays, get, list
<1>7. Recorded'
  <2>1. ASSUME NEW p, NEW much, WasStored(p, much)
        PROVE  WasStored(p, much)'
    BY <1>3, <2>1 DEF Stays, WasStored
  <2>2. AmountsWereStored'
    BY <1>1, <2>1 DEF CartInv, Recorded, AmountsWereStored, WasStored, list
  <2> QED  BY <1>1, <1>3, <2>1, <2>2 DEF CartInv, Recorded, Stays, get
<1> QED  BY <1>5, <1>6, <1>7 DEF CartInv

LEMMA CartUnchanged == CartInv /\ UNCHANGED <<table, cartVars>> => CartInv'
<1> SUFFICES ASSUME CartInv, UNCHANGED <<table, cartVars>> PROVE CartInv'
  OBVIOUS
<1>1. CartTypeOK'
  BY DEF CartInv, Typed, CartTypeOK, cartVars, pageVars, get, list, cartHistory
<1> QED  BY <1>1, Looking DEF cartVars, pageVars, get, list

LEMMA CartStep == CartInv /\ [CartNext]_<<table, cartVars>> => CartInv'
  BY AnswerCartStep, ShowCartStep, toggleItemStep, updateProductScheduleStep,
     handleCounterChangeStep, updateProductAmountStep, FindPatchedStep, AnswerPatchStep,
     PatchAnsweredStep, finalizePurchaseStep, FindReservedStep, AnswerReserveStep,
     ReserveAnsweredStep, PurchaseFailedStep, PurchaseDoneStep, CloseDialogStep, ElsewhereStep, CartUnchanged DEF CartNext

THEOREM CartCorrect == CartSpec => []CartInv
  BY CartStart, CartStep, PTL DEF CartSpec

(* Whatever is selected, loaded, edited or removed while the reservations  *)
(* are awaited, only orders of the click are reserved.                     *)
THEOREM BoughtIsSelected == CartSpec => []BoughtWasSelected
<1>1. CartInv => BoughtWasSelected
  BY DEF CartInv, Purchase
<1> QED  BY <1>1, CartCorrect, PTL

(* The page never counts an amount that the table has not had, but for an  *)
(* order that was removed.                                                 *)
THEOREM AmountsAreStored == CartSpec => []AmountsWereStored
<1>1. CartInv => AmountsWereStored
  BY DEF CartInv, Recorded
<1> QED  BY <1>1, CartCorrect, PTL

(* What is selected is shown.                                              *)
THEOREM SelectionIsShown == CartSpec => []SelectedIsShown
<1>1. CartInv => SelectedIsShown
  BY DEF CartInv, Shown
<1> QED  BY <1>1, CartCorrect, PTL

(* The dialog of success opens only when every order of the click is out   *)
(* of the cart.                                                            *)
THEOREM SuccessIsOfAll == CartSpec => SuccessMeansAll
<1>1. CartInv /\ [CartNext]_<<table, cartVars>> =>
        [~dialog /\ dialog' => \A p \in clicked : row[p].status # InCart]_<<table, cartVars>>
  <2> SUFFICES ASSUME CartInv, CartNext, ~dialog, dialog'
               PROVE  \A p \in clicked : row[p].status # InCart
    OBVIOUS
  <2>1. CASE PurchaseDone
    BY <2>1 DEF PurchaseDone, CartInv, Purchase, Rest, Settled
  <2>2. CASE UNCHANGED dialog
    BY <2>2
  <2>3. PurchaseDone \/ UNCHANGED dialog
    BY DEF CartNext, AnswerCart, ShowCart, toggleItem, updateProductSchedule, handleCounterChange,
           updateProductAmount, FindPatched, AnswerPatch, PatchAnswered, finalizePurchase,
           FindReserved, AnswerReserve,
           ReserveAnswered, PurchaseFailed, CloseDialog, Elsewhere
  <2> QED  BY <2>1, <2>2, <2>3
<1> QED  BY <1>1, CartCorrect, PTL DEF CartSpec, SuccessMeansAll
-----------------------------------------------------------------------------
(* The page of a product. *)

WasAdded(i) == adding[i].state = "resolved" => Viewed \in Placed

ProductInv ==
  /\ TableTypeOK /\ ProductTypeOK
  /\ toasts + Len(adding) <= sent
  /\ pick \in Offered[Viewed] \cup {NoSchedule}
  /\ selectedSchedule \in confirmed \cup {NoSchedule}
  /\ confirmed \subseteq Offered[Viewed]
  /\ \A i \in DOMAIN adding : WasAdded(i)
  /\ OrderedWasConfirmed /\ ToastIsTrue

LEMMA ProductStart == TableInit /\ ProductInit => ProductInv
<1> SUFFICES ASSUME TableInit, ProductInit PROVE ProductInv
  OBVIOUS
<1>1. /\ amount = 1 /\ modal = "closed"
      /\ pick = NoSchedule /\ selectedSchedule = NoSchedule
      /\ isAdding = FALSE /\ adding = <<>> /\ toasts = 0
      /\ confirmed = {} /\ sent = 0
  BY DEF ProductInit
<1>2. amount \in Amounts /\ isAdding \in BOOLEAN /\ Len(adding) = 0 /\ adding \in Seq(AddCall)
  <2>1. amount \in Amounts
    BY <1>1, CartTableAssumption DEF Amounts
  <2>2. isAdding \in BOOLEAN
    BY <1>1
  <2> QED  BY <1>1, <2>1, <2>2
<1>3. toasts \in 0..MaxAdds /\ sent \in 0..MaxAdds /\ Len(adding) <= MaxAdds
      /\ toasts + Len(adding) <= sent /\ ~(toasts > 0)
  BY <1>1, <1>2, ProductPageAssumption
<1>4. ProductTypeOK
  BY <1>1, <1>2, <1>3 DEF ProductTypeOK, MaybeSchedule
<1> QED  BY <1>1, <1>3, <1>4, TableStart DEF ProductInv, OrderedWasConfirmed, ToastIsTrue

(* Nothing is ordered, answered or confirmed. *)
LEMMA Browsing ==
  ASSUME ProductInv, ProductTypeOK', pick' \in Offered[Viewed] \cup {NoSchedule},
         toasts' + Len(adding') <= sent', toasts' > 0 => toasts > 0,
         UNCHANGED <<table, selectedSchedule, adding, confirmed>>
  PROVE  ProductInv'
<1>1. TableTypeOK' /\ Placed' = Placed
  BY DEF ProductInv, TableTypeOK, table, Placed
<1> QED  BY <1>1 DEF ProductInv, OrderedWasConfirmed, ToastIsTrue, WasAdded

LEMMA BrowsingStep ==
  ASSUME ProductInv,
         \/ \E value \in Amounts : setAmount(value)
         \/ OpenModal \/ CloseModal \/ loadSchedules
         \/ \E s \in Schedules : setSelectedSchedule(s)
         \/ UNCHANGED <<table, productVars>>
  PROVE  ProductInv'
<1>1. UNCHANGED <<table, selectedSchedule, isAdding, adding, toasts, confirmed, sent>>
  BY DEF setAmount, OpenModal, CloseModal, loadSchedules, setSelectedSchedule, productVars
<1>2. Offered[Viewed] \subseteq Schedules
  BY CartTableAssumption, ProductPageAssumption
<1>3. pick' \in Offered[Viewed] \cup {NoSchedule}
  BY DEF ProductInv, setAmount, OpenModal, CloseModal, loadSchedules, setSelectedSchedule,
         productVars
<1>4. amount' \in Amounts /\ modal' \in {"closed", "loading", "listed", "empty"}
  BY DEF ProductInv, ProductTypeOK, setAmount, OpenModal, CloseModal, loadSchedules,
         setSelectedSchedule, productVars
<1>5. ProductTypeOK'
  BY <1>1, <1>2, <1>3, <1>4 DEF ProductInv, ProductTypeOK, MaybeSchedule
<1>6. toasts' + Len(adding') <= sent'
  BY <1>1 DEF ProductInv
<1> QED  BY <1>1, <1>3, <1>5, <1>6, Browsing

LEMMA handleScheduleSelectedStep == ProductInv /\ handleScheduleSelected => ProductInv'
<1> SUFFICES ASSUME ProductInv, handleScheduleSelected PROVE ProductInv'
  OBVIOUS
<1>1. /\ pick # NoSchedule /\ selectedSchedule' = pick /\ confirmed' = confirmed \cup {pick}
      /\ handleAddToCart(selectedSchedule)
      /\ UNCHANGED <<table, amount, pick, toasts>>
  BY DEF handleScheduleSelected
<1>2. pick \in Offered[Viewed] /\ Offered[Viewed] \subseteq Schedules
  BY <1>1, CartTableAssumption, ProductPageAssumption DEF ProductInv
<1>3. confirmed' \subseteq Offered[Viewed] /\ selectedSchedule' \in confirmed'
  BY <1>1, <1>2 DEF ProductInv
<1>4. TableTypeOK' /\ Placed' = Placed
  BY <1>1 DEF ProductInv, TableTypeOK, table, Placed
<1>5. CASE selectedSchedule = NoSchedule
  <2>1. UNCHANGED <<modal, isAdding, adding, sent>>
    BY <1>1, <1>5 DEF handleAddToCart
  <2>2. ProductTypeOK'
    BY <1>1, <1>2, <1>3, <2>1 DEF ProductInv, ProductTypeOK, MaybeSchedule
  <2> QED  BY <1>1, <1>2, <1>3, <1>4, <2>1, <2>2
           DEF ProductInv, OrderedWasConfirmed, ToastIsTrue, WasAdded
<1>6. CASE selectedSchedule # NoSchedule
  <2> DEFINE new == [amount |-> amount, schedule |-> selectedSchedule, state |-> "sent"]
  <2>1. /\ sent < MaxAdds /\ sent' = sent + 1 /\ adding' = Append(adding, new)
        /\ isAdding' = TRUE /\ modal' = "closed"
    BY <1>1, <1>6 DEF handleAddToCart
  <2>2. /\ adding \in Seq(AddCall) /\ sent \in 0..MaxAdds /\ toasts \in 0..MaxAdds
        /\ toasts + Len(adding) <= sent /\ amount \in Amounts
        /\ selectedSchedule \in Schedules \cap confirmed
    BY <1>2, <1>6 DEF ProductInv, ProductTypeOK, MaybeSchedule
  <2>3. new \in AddCall
    BY <2>2 DEF AddCall
  <2>4. new.schedule = selectedSchedule /\ new.state = "sent"
    OBVIOUS
  <2> HIDE DEF new
  <2>5. /\ adding' \in Seq(AddCall) /\ Len(adding') = Len(adding) + 1
        /\ DOMAIN adding' = 1..Len(adding) + 1 /\ DOMAIN adding = 1..Len(adding)
        /\ Len(adding) \in Nat
        /\ \A i \in 1..Len(adding) : adding'[i] = adding[i]
        /\ adding'[Len(adding) + 1] = new
    BY <2>1, <2>2, <2>3, AppendProperties
  <2>6. DOMAIN adding' = DOMAIN adding \cup {Len(adding) + 1}
    BY ONLY <2>5
  <2>7. /\ toasts + Len(adding') <= sent' /\ sent' \in 0..MaxAdds /\ Len(adding') <= MaxAdds
    BY ONLY <2>1, <2>2, <2>5, ProductPageAssumption
  <2>8. isAdding' \in BOOLEAN
    BY <2>1
  <2>9. ProductTypeOK'
    BY <1>1, <1>2, <1>3, <2>1, <2>5, <2>7, <2>8 DEF ProductInv, ProductTypeOK, MaybeSchedule
  <2>10. OrderedWasConfirmed' /\ \A i \in DOMAIN adding' : WasAdded(i)'
    <3>1. \A i \in DOMAIN adding' : adding'[i].schedule \in confirmed \cap Offered[Viewed]
      BY <2>2, <2>4, <2>5, <2>6 DEF ProductInv, OrderedWasConfirmed
    <3>2. \A i \in DOMAIN adding' : adding'[i].state = "resolved" => Viewed \in Placed
      BY <2>4, <2>5, <2>6 DEF ProductInv, WasAdded
    <3> QED  BY <1>1, <1>4, <3>1, <3>2 DEF OrderedWasConfirmed, WasAdded
  <2> QED  BY <1>1, <1>2, <1>3, <1>4, <2>7, <2>9, <2>10 DEF ProductInv, ToastIsTrue
<1> QED  BY <1>5, <1>6

LEMMA AnswerAddStep == ASSUME ProductInv, NEW i \in 1..MaxAdds, AnswerAdd(i) PROVE ProductInv'
<1>1. /\ i \in DOMAIN adding
      /\ UNCHANGED <<amount, modal, pick, selectedSchedule, isAdding, toasts, confirmed, sent>>
  BY DEF AnswerAdd
<1>2. PICK outcome \in {"resolved", "rejected"}, done \in BOOLEAN :
        /\ outcome = "resolved" => done
        /\ done => CanInsert(Viewed, adding[i].schedule)
        /\ IF done THEN Insert(Viewed, adding[i].amount, adding[i].schedule)
                   ELSE UNCHANGED table
        /\ adding' = [adding EXCEPT ![i].state = outcome]
  BY DEF AnswerAdd, Outcomes, CanInsert
<1>3. adding \in Seq(AddCall) /\ adding[i] \in AddCall /\ DOMAIN adding = 1..Len(adding)
  BY <1>1 DEF ProductInv, ProductTypeOK
<1>4. TableTypeOK' /\ Placed \subseteq Placed' /\ (done => Viewed \in Placed')
  <2>1. CASE done
    <3>1. adding[i].amount \in Amounts /\ adding[i].schedule \in Schedules
      BY <1>3 DEF AddCall
    <3> QED  BY <1>2, <2>1, <3>1, InsertStays, ProductPageAssumption DEF ProductInv, Stays
  <2>2. CASE ~done
    BY <1>2, <2>2, TableUntouched DEF ProductInv, Stays
  <2> QED  BY <2>1, <2>2
<1> DEFINE old == adding[i]
           new == [old EXCEPT !.state = outcome]
<1>5. new \in AddCall /\ new.schedule = old.schedule /\ new.state = outcome
  BY <1>3 DEF AddCall
<1>6. adding' = [adding EXCEPT ![i] = new]
  BY <1>2
<1> HIDE DEF new, old
<1>7. /\ adding' \in Seq(AddCall) /\ Len(adding') = Len(adding) /\ DOMAIN adding' = DOMAIN adding
      /\ \A j \in DOMAIN adding : adding'[j] = IF j = i THEN new ELSE adding[j]
  BY <1>1, <1>3, <1>5, <1>6
<1>8. ProductTypeOK'
  BY <1>1, <1>7 DEF ProductInv, ProductTypeOK
<1>9. OrderedWasConfirmed' /\ ToastIsTrue'
  BY <1>1, <1>4, <1>5, <1>7 DEF ProductInv, OrderedWasConfirmed, ToastIsTrue, old
<1>10. \A j \in DOMAIN adding' : WasAdded(j)'
  BY <1>2, <1>4, <1>5, <1>7 DEF ProductInv, WasAdded
<1> QED  BY <1>1, <1>4, <1>7, <1>8, <1>9, <1>10 DEF ProductInv

LEMMA AddAnsweredStep == ASSUME ProductInv, NEW i \in 1..MaxAdds, AddAnswered(i) PROVE ProductInv'
<1>1. /\ i \in DOMAIN adding /\ adding' = RemoveAt(adding, i) /\ isAdding' = FALSE
      /\ toasts' = IF adding[i].state = "resolved" THEN toasts + 1 ELSE toasts
      /\ UNCHANGED <<table, amount, modal, pick, selectedSchedule, confirmed, sent>>
  BY DEF AddAnswered
<1>2. /\ adding \in Seq(AddCall) /\ DOMAIN adding = 1..Len(adding) /\ Len(adding) \in Nat
      /\ i \in 1..Len(adding) /\ toasts \in 0..MaxAdds /\ sent \in 0..MaxAdds
      /\ toasts + Len(adding) <= sent /\ Len(adding) <= MaxAdds
  BY <1>1 DEF ProductInv, ProductTypeOK
<1>3. /\ adding' \in Seq(AddCall) /\ Len(adding') = Len(adding) - 1
      /\ \A j \in 1..Len(adding) - 1 :
           adding'[j] = IF j < i THEN adding[j] ELSE adding[j + 1]
  BY <1>1, <1>2, RemoveAtProperties
<1>4. /\ toasts' + Len(adding') <= sent /\ toasts' \in 0..MaxAdds /\ Len(adding') <= MaxAdds
  <2>1. toasts' = toasts + 1 \/ toasts' = toasts
    BY <1>1
  <2> QED  BY ONLY <1>2, <1>3, <2>1, ProductPageAssumption
<1>5. \A j \in DOMAIN adding' : \E k \in DOMAIN adding : adding'[j] = adding[k]
  <2>1. DOMAIN adding' = 1..Len(adding) - 1
    BY <1>3
  <2>2. \A j \in 1..Len(adding) - 1 : j \in 1..Len(adding) /\ j + 1 \in 1..Len(adding)
    BY ONLY <1>2
  <2> QED  BY <1>2, <1>3, <2>1, <2>2
<1>6. TableTypeOK' /\ Placed' = Placed
  BY <1>1 DEF ProductInv, TableTypeOK, table, Placed
<1>7. ProductTypeOK'
  <2>1. isAdding' \in BOOLEAN
    BY <1>1
  <2> QED  BY <1>1, <1>3, <1>4, <2>1 DEF ProductInv, ProductTypeOK
<1>8. ToastIsTrue'
  BY <1>1, <1>6 DEF ProductInv, ToastIsTrue, WasAdded
<1>9. OrderedWasConfirmed' /\ \A j \in DOMAIN adding' : WasAdded(j)'
  BY <1>1, <1>5, <1>6 DEF ProductInv, OrderedWasConfirmed, WasAdded
<1> QED  BY <1>1, <1>4, <1>6, <1>7, <1>8, <1>9 DEF ProductInv

LEMMA HideToastStep == ProductInv /\ HideToast => ProductInv'
<1> SUFFICES ASSUME ProductInv, HideToast PROVE ProductInv'
  OBVIOUS
<1>1. /\ toasts' = 0
      /\ UNCHANGED <<table, amount, modal, pick, selectedSchedule, isAdding, adding, confirmed,
                     sent>>
  BY DEF HideToast
<1>2. /\ toasts \in 0..MaxAdds /\ toasts + Len(adding) <= sent /\ sent \in 0..MaxAdds
      /\ adding \in Seq(AddCall)
  BY DEF ProductInv, ProductTypeOK
<1>3. toasts' + Len(adding') <= sent' /\ toasts' \in 0..MaxAdds
  <2>1. Len(adding) \in Nat
    BY <1>2
  <2>2. 0 + Len(adding) <= sent /\ 0 \in 0..MaxAdds
    BY ONLY <1>2, <2>1, ProductPageAssumption
  <2> QED  BY <1>1, <2>2
<1>4. ProductTypeOK'
  BY <1>1, <1>3 DEF ProductInv, ProductTypeOK
<1> QED  BY <1>1, <1>3, <1>4, Browsing DEF ProductInv

LEMMA ProductStep == ProductInv /\ [ProductNext]_<<table, productVars>> => ProductInv'
  BY BrowsingStep, handleScheduleSelectedStep, AnswerAddStep, AddAnsweredStep, HideToastStep
     DEF ProductNext

THEOREM ProductCorrect == ProductSpec => []ProductInv
  BY ProductStart, ProductStep, PTL DEF ProductSpec

(* What is ordered was confirmed and is offered.                           *)
THEOREM OrderIsConfirmed == ProductSpec => []OrderedWasConfirmed
<1>1. ProductInv => OrderedWasConfirmed
  BY DEF ProductInv
<1> QED  BY <1>1, ProductCorrect, PTL

(* The toast tells the truth.                                              *)
THEOREM ToastTellsTruth == ProductSpec => []ToastIsTrue
<1>1. ProductInv => ToastIsTrue
  BY DEF ProductInv
<1> QED  BY <1>1, ProductCorrect, PTL
-----------------------------------------------------------------------------
(* Both pages over one server, one of them open.                           *)

(* The state of the open page has its type, and so has the table.          *)
THEOREM ShopTyped == ShopSpec => []ShopTypeOK
<1> DEFINE Open == page \in {"cart", "product"}
                   /\ (page = "cart" => CartInv) /\ (page = "product" => ProductInv)
<1>1. ShopInit => Open
  BY CartStart, ProductStart DEF ShopInit
<1>2. Open /\ [ShopNext]_shopVars => Open'
  <2> SUFFICES ASSUME Open, [ShopNext]_shopVars PROVE Open'
    OBVIOUS
  <2>1. CASE OnCart /\ CartNext
    BY <2>1, CartStep DEF OnCart
  <2>2. CASE OnProduct /\ ProductNext
    BY <2>2, ProductStep DEF OnProduct
  <2>3. CASE UNCHANGED shopVars
    BY <2>3, CartStep, ProductStep DEF shopVars
  <2> QED  BY <2>1, <2>2, <2>3 DEF ShopNext
<1>3. Open => ShopTypeOK
  BY DEF ShopTypeOK, CartInv, Typed, ProductInv
<1> QED  BY <1>1, <1>2, <1>3, PTL DEF ShopSpec

(* What the open page does over the table it could do were there no other: *)
(* what is proved of either page holds where both are.                     *)
THEOREM ShopPagesAreApart ==
  ShopSpec =>
    /\ page = "cart" => TableInit /\ CartInit /\ [][CartNext]_<<table, cartVars>>
    /\ page = "product" => ProductSpec
<1>1. ShopInit => TableInit /\ CartInit /\ ProductInit
  BY DEF ShopInit
<1>2. page = "cart" /\ [ShopNext]_shopVars
        => (page = "cart")' /\ [CartNext]_<<table, cartVars>>
  BY DEF ShopNext, OnCart, OnProduct, shopVars
<1>3. page = "product" /\ [ShopNext]_shopVars
        => (page = "product")' /\ [ProductNext]_<<table, productVars>>
  BY DEF ShopNext, OnCart, OnProduct, shopVars
<1> QED  BY <1>1, <1>2, <1>3, PTL DEF ShopSpec, ProductSpec
=============================================================================
