------------------------------- MODULE CartPage -------------------------------
(***************************************************************************)
(* The page of the cart.                                                   *)
(*                                                                         *)
(* The page runs one event handler at a time; between an await and its     *)
(* answer every other handler may run, and so may the server.  A handler   *)
(* is the action up to its await, the server's work is an action, and the  *)
(* answer is another, which uses what the handler captured.                *)
(*                                                                         *)
(* React keeps the state of a row's counter (its value and its timer) in   *)
(* the row's component, and finds the component again by its key.  The     *)
(* key is the seller's id, and a seller may have several rows, so the      *)
(* state is kept apart from the list of orders, and Reused is React's      *)
(* search: first by place while the keys agree, then by key.               *)
(***************************************************************************)
EXTENDS CartTable

CONSTANTS
  MaxEvents,     \* bounds: changes in the page, purchases, changes from elsewhere
  NoTimer

VARIABLES
  fetching,   \* GET cart: the mount's, then a purchase's
  reply,      \* its answer, until the page uses it
  carts,      \* the orders shown: [order, amount]
  rows,       \* the state of their components: [counter, timer]
  adrift,     \* timers of rows that React lost track of
  selected,   \* selectedItems, in the order of the clicks
  buying,     \* what the purchase in progress waits for
  toReserve,  \* what its loop captured and has not reserved
  patches,    \* PATCH calls under way
  dialog,     \* showSuccessModal
  events,     \* counts of what MaxEvents bounds
  \* history, read by no action
  clicked,    \* selected when the last purchase was begun
  bought,     \* reserved by the last purchase
  stored      \* amounts that the table has had, by order

get == <<fetching, reply>>
list == <<carts, rows, adrift>>
pageVars == <<get, list, selected, buying, toReserve, patches, dialog, events>>
cartHistory == <<clicked, bought, stored>>
cartVars == <<pageVars, cartHistory>>

Kinds == {"change", "purchase", "elsewhere"}

ASSUME CartPageAssumption == MaxEvents \in [Kinds -> Nat]

Timer == [order : Products, amount : Amounts]
PatchCall == [order : Products, field : {"amount", "schedule"},
              value : Amounts \cup Schedules,
              state : {"sent", "found", "resolved", "rejected"}]

CartTypeOK ==
  /\ fetching \in {"idle", "sent", "resolved", "rejected"}
  /\ reply \in Seq(Item) /\ carts \in Seq(Item)
  /\ rows \in Seq([counter : Amounts, timer : Timer \cup {NoTimer}])
  /\ DOMAIN rows = DOMAIN carts
  /\ adrift \subseteq Timer
  /\ selected \in Seq(Products) /\ toReserve \in Seq(Products)
  /\ buying \in {"idle", "sent", "found", "resolved", "rejected", "refresh"}
  /\ patches \subseteq PatchCall
  /\ dialog \in BOOLEAN
  /\ events \in [Kinds -> Nat] /\ \A kind \in Kinds : events[kind] <= MaxEvents[kind]
  /\ clicked \subseteq Products /\ bought \subseteq Products
  /\ stored \in SUBSET (Products \X Amounts)

CartInit ==
  /\ fetching = "sent" /\ reply = <<>>
  /\ carts = <<>> /\ rows = <<>> /\ adrift = {}
  /\ selected = <<>> /\ toReserve = <<>> /\ buying = "idle"
  /\ patches = {} /\ dialog = FALSE /\ events = [kind \in Kinds |-> 0]
  /\ clicked = {} /\ bought = {}
  /\ stored = {<<p, row[p].amount>> : p \in Placed}

(* A step that MaxEvents counts. *)
Happens(kind) ==
  events[kind] < MaxEvents[kind] /\ events' = [events EXCEPT ![kind] = @ + 1]
-----------------------------------------------------------------------------
(* How the list is drawn again.                                            *)

Key(item) == SellerOf[item.order]
AgreeUpTo(old, new, k) == k <= Len(old) /\ \A i \in 1..k : Key(old[i]) = Key(new[i])
Agree(old, new) ==
  CHOOSE k \in 0..Len(new) :
    AgreeUpTo(old, new, k) /\ (k < Len(new) => ~AgreeUpTo(old, new, k + 1))

(* The map of the remaining components by key keeps the last of each key, *)
(* and the first item with the key takes it.                              *)
ByKey(old, new, j, k) ==
  {i \in k + 1..Len(old) :
     /\ Key(old[i]) = Key(new[j])
     /\ \A h \in i + 1..Len(old) : Key(old[h]) # Key(old[i])
     /\ \A h \in k + 1..j - 1 : Key(new[h]) # Key(new[j])}

Reused(old, new, j) ==
  LET k == Agree(old, new) IN
  IF j <= k THEN {j} ELSE ByKey(old, new, j, k)

(* A component that is not in the map is neither kept nor unmounted.  The *)
(* others that are not reused are unmounted, and clear their timers.      *)
Forgotten(old, new) ==
  LET k == Agree(old, new) IN
  IF k = Len(new) THEN {}
  ELSE {i \in k + 1..Len(old) : \E h \in i + 1..Len(old) : Key(old[h]) = Key(old[i])}

Mounted(item) == [counter |-> item.amount, timer |-> NoTimer]

SetCarts(new) ==
  /\ carts' = new
  /\ rows' = [j \in DOMAIN new |->
       IF Reused(carts, new, j) = {} THEN Mounted(new[j])
       ELSE rows[CHOOSE i \in Reused(carts, new, j) : TRUE]]
  /\ adrift' = adrift \cup ({rows[i].timer : i \in Forgotten(carts, new)} \ {NoTimer})
-----------------------------------------------------------------------------
(* The list of the cart.                                                   *)

AnswerCart ==
  /\ fetching = "sent"
  /\ \E outcome \in Outcomes(TRUE) :
       /\ fetching' = outcome
       /\ reply' = IF outcome = "rejected" THEN <<>>
            ELSE [i \in DOMAIN Listing |->
                    [order |-> Listing[i], amount |-> row[Listing[i]].amount]]
  /\ UNCHANGED <<table, list, selected, buying, toReserve, patches,
                 dialog, events, cartHistory>>

(* The mount does not catch a rejection: the cart stays empty. *)
ShowCart ==
  /\ buying = "idle" /\ fetching \in {"resolved", "rejected"}
  /\ IF fetching = "resolved" THEN SetCarts(reply) ELSE UNCHANGED <<carts, rows, adrift>>
  /\ fetching' = "idle" /\ reply' = <<>>
  /\ UNCHANGED <<table, selected, buying, toReserve, patches, dialog, events,
                 cartHistory>>
-----------------------------------------------------------------------------
(* What the customer changes in a row.  An order is selected once at most. *)

toggleItem(p) ==
  /\ \E i \in DOMAIN carts : carts[i].order = p
  /\ selected' = IF p \in ToSet(selected)
                   THEN RemoveAt(selected, CHOOSE i \in DOMAIN selected : selected[i] = p)
                   ELSE Append(selected, p)
  /\ UNCHANGED <<table, get, list, buying, toReserve, patches,
                 dialog, events, cartHistory>>

(* Mutation: the counter has no ends. *)
ClicksPast(counter) == {counter - 1, counter + 1}

(* Counter: plus or minus, up to the ends. *)
Clicks(counter) ==
  {IF counter = 1 THEN 1 ELSE counter - 1,
   IF counter = MaxAmount THEN counter ELSE counter + 1}

(* The timer that waits is replaced by one that knows the order and the    *)
(* value of this click.                                                    *)
handleCounterChange(i) ==
  /\ i \in DOMAIN rows /\ Happens("change")
  /\ \E value \in Clicks(rows[i].counter) :
       rows' = [rows EXCEPT ![i] =
         [counter |-> value, timer |-> [order |-> carts[i].order, amount |-> value]]]
  /\ UNCHANGED <<table, get, carts, adrift, selected, buying, toReserve, patches,
                 dialog, cartHistory>>

Send(order, field, value) ==
  patches' = patches \cup
    {[order |-> order, field |-> field, value |-> value, state |-> "sent"]}

(* Two seconds later.  The timer of a forgotten row runs all the same. *)
updateProductAmount ==
  /\ \/ \E i \in DOMAIN rows :
          /\ rows[i].timer # NoTimer
          /\ Send(rows[i].timer.order, "amount", rows[i].timer.amount)
          /\ rows' = [rows EXCEPT ![i].timer = NoTimer]
          /\ UNCHANGED adrift
     \/ \E timer \in adrift :
          /\ Send(timer.order, "amount", timer.amount)
          /\ adrift' = adrift \ {timer}
          /\ UNCHANGED rows
  /\ UNCHANGED <<table, get, carts, selected, buying, toReserve,
                 dialog, events, cartHistory>>

updateProductSchedule(p, s) ==
  /\ Happens("change")
  /\ \E i \in DOMAIN carts : carts[i].order = p
  /\ s \in Offered[p]
  /\ Send(p, "schedule", s)
  /\ UNCHANGED <<table, get, list, selected, buying, toReserve,
                 dialog, cartHistory>>

(* The server looks for the order, and changes it in a later statement,    *)
(* which finds nothing to change, and is answered 200, when the listing    *)
(* was removed in between.                                                 *)
FindPatched(call) ==
  /\ call.state = "sent"
  /\ \E answer \in LookUp(call.order) :
       patches' = (patches \ {call}) \cup {[call EXCEPT !.state = answer]}
  /\ UNCHANGED <<table, get, list, selected, buying, toReserve,
                 dialog, events, cartHistory>>

AnswerPatch(call) ==
  /\ call.state = "found"
  /\ \E done \in BOOLEAN : \E outcome \in Outcomes(done) :
       /\ IF done THEN Patch(call.order, call.field, call.value) ELSE UNCHANGED table
       /\ patches' = (patches \ {call}) \cup {[call EXCEPT !.state = outcome]}
  /\ stored' = stored \cup {<<p, row'[p].amount>> : p \in Placed}
  /\ UNCHANGED <<get, list, selected, buying, toReserve,
                 dialog, events, clicked, bought>>

(* Mutation: the list takes the amount, whatever the answer is. *)
PatchAnsweredAlways(call) ==
  /\ call.state \in {"resolved", "rejected"}
  /\ patches' = patches \ {call}
  /\ carts' = [i \in DOMAIN carts |->
       IF call.field = "amount" /\ carts[i].order = call.order
         THEN [carts[i] EXCEPT !.amount = call.value] ELSE carts[i]]
  /\ UNCHANGED <<table, get, rows, adrift, selected, buying, toReserve,
                 dialog, events, cartHistory>>

(* The list takes the new amount when it was accepted; an error is logged. *)
PatchAnswered(call) ==
  /\ call.state \in {"resolved", "rejected"}
  /\ patches' = patches \ {call}
  /\ carts' = IF call.state = "resolved" /\ call.field = "amount"
       THEN [i \in DOMAIN carts |->
              IF carts[i].order = call.order THEN [carts[i] EXCEPT !.amount = call.value]
                                             ELSE carts[i]]
       ELSE carts
  /\ UNCHANGED <<table, get, rows, adrift, selected, buying, toReserve,
                 dialog, events, cartHistory>>
-----------------------------------------------------------------------------
(* The purchase.                                                           *)

finalizePurchase ==
  /\ selected # <<>> /\ buying = "idle"
  /\ Happens("purchase")
  /\ toReserve' = selected /\ buying' = "sent"
  /\ clicked' = ToSet(selected) /\ bought' = {}
  /\ UNCHANGED <<table, get, list, selected, patches, dialog, stored>>

FindReserved ==
  /\ buying = "sent"
  /\ buying' \in LookUp(Head(toReserve))
  /\ UNCHANGED <<table, get, list, selected, toReserve, patches, dialog,
                 events, cartHistory>>

AnswerReserve ==
  /\ buying = "found"
  /\ LET p == Head(toReserve) IN
     \E done \in BOOLEAN : \E outcome \in Outcomes(done) :
       /\ IF done THEN Reserve(p) ELSE UNCHANGED table
       /\ buying' = outcome
       /\ bought' = IF done /\ Exists(p) THEN bought \cup {p} ELSE bought
  /\ UNCHANGED <<get, list, selected, toReserve, patches, dialog,
                 events, clicked, stored>>

(* Mutation: the loop reads the selection anew after each await. *)
ReserveAnsweredLive ==
  /\ buying = "resolved"
  /\ toReserve' = SelectSeq(selected, LAMBDA p : p \notin bought)
  /\ IF toReserve' # <<>> THEN buying' = "sent" /\ UNCHANGED fetching
                          ELSE buying' = "refresh" /\ fetching' = "sent"
  /\ UNCHANGED <<table, reply, list, selected, patches, dialog,
                 events, cartHistory>>

(* The next of the loop, or the cart is asked for again. *)
ReserveAnswered ==
  /\ buying = "resolved"
  /\ toReserve' = Tail(toReserve)
  /\ IF Len(toReserve) > 1 THEN buying' = "sent" /\ UNCHANGED fetching
                           ELSE buying' = "refresh" /\ fetching' = "sent"
  /\ UNCHANGED <<table, reply, list, selected, patches, dialog,
                 events, cartHistory>>

(* Mutation: a reservation that fails is only logged. *)
ReserveFailureIsLogged ==
  /\ buying = "rejected" \/ (buying = "refresh" /\ fetching = "rejected")
  /\ IF buying = "rejected" THEN buying' = "refresh" /\ fetching' = "sent"
                            ELSE buying' = "idle" /\ fetching' = "idle"
  /\ toReserve' = <<>>
  /\ UNCHANGED <<table, reply, list, selected, patches, dialog,
                 events, cartHistory>>

(* Mutation: the cart that cannot be loaded again is not caught. *)
OnlyReserveFails ==
  /\ buying = "rejected"
  /\ buying' = "idle" /\ toReserve' = <<>>
  /\ UNCHANGED <<table, get, list, selected, patches, dialog, events, cartHistory>>

(* An alert; the orders that were reserved stay so, and stay shown. *)
PurchaseFailed ==
  /\ buying = "rejected" \/ (buying = "refresh" /\ fetching = "rejected")
  /\ buying' = "idle" /\ fetching' = "idle" /\ toReserve' = <<>>
  /\ UNCHANGED <<table, reply, list, selected, patches, dialog,
                 events, cartHistory>>

(* Mutation: the selection outlives the purchase. *)
PurchaseDoneKeeps ==
  /\ buying = "refresh" /\ fetching = "resolved"
  /\ SetCarts(reply) /\ dialog' = TRUE
  /\ buying' = "idle" /\ fetching' = "idle" /\ reply' = <<>>
  /\ UNCHANGED <<table, selected, toReserve, patches, events, cartHistory>>

PurchaseDone ==
  /\ buying = "refresh" /\ fetching = "resolved"
  /\ SetCarts(reply) /\ selected' = <<>> /\ dialog' = TRUE
  /\ buying' = "idle" /\ fetching' = "idle" /\ reply' = <<>>
  /\ UNCHANGED <<table, toReserve, patches, events, cartHistory>>

(* It is not drawn over an empty cart. *)
CloseDialog ==
  /\ dialog /\ carts # <<>> /\ dialog' = FALSE
  /\ UNCHANGED <<table, get, list, selected, buying, toReserve,
                 patches, events, cartHistory>>
-----------------------------------------------------------------------------
(* The seller removes a listing; or the page of a product, in another tab, *)
(* adds an order for one of it.                                            *)
Elsewhere ==
  /\ \/ \E p \in Placed : RemoveListing(p) /\ UNCHANGED stored
     \/ \E p \in Products, s \in Schedules :
          /\ CanInsert(p, s)
          /\ Insert(p, 1, s)
          /\ stored' = stored \cup {<<p, 1>>}
  /\ Happens("elsewhere")
  /\ UNCHANGED <<get, list, selected, buying, toReserve, patches, dialog, clicked, bought>>

CartNext ==
  \/ AnswerCart \/ ShowCart
  \/ \E p \in Products : toggleItem(p) \/ \E s \in Schedules : updateProductSchedule(p, s)
  \/ \E i \in DOMAIN rows : handleCounterChange(i)
  \/ updateProductAmount
  \/ \E call \in patches : FindPatched(call) \/ AnswerPatch(call) \/ PatchAnswered(call)
  \/ finalizePurchase \/ FindReserved \/ AnswerReserve \/ ReserveAnswered
  \/ PurchaseFailed \/ PurchaseDone \/ CloseDialog
  \/ Elsewhere

(* The steps of a call that the page awaits: the server's, then the page's. *)
CartProgress ==
  \/ AnswerCart \/ ShowCart
  \/ FindReserved \/ AnswerReserve \/ ReserveAnswered
  \/ PurchaseFailed \/ PurchaseDone

CartSpec ==
  /\ TableInit /\ CartInit
  /\ [][CartNext]_<<table, cartVars>>
  /\ WF_<<table, cartVars>>(CartProgress)
-----------------------------------------------------------------------------
(* Properties.                                                             *)

(* Only orders that were selected when the customer ended the purchase are *)
(* reserved, although the selection may change while the loop of           *)
(* finalizePurchase awaits each reservation.                               *)
BoughtWasSelected == bought \subseteq clicked

(* When the dialog of success opens, none of the orders that were selected *)
(* at the click is still in the cart, whatever was lost, edited or removed *)
(* in between.                                                             *)
SuccessMeansAll ==
  [][~dialog /\ dialog' => \A p \in clicked : row[p].status # InCart]_<<table, cartVars>>

(* Every amount the page counts in its total has been in the table: the    *)
(* list follows answers, never the clicks, and an answer that was lost     *)
(* leaves it behind but never ahead.  The one exception is an order that   *)
(* was removed, while its change was on its way to a row that is no more.  *)
AmountsWereStored ==
  \A i \in DOMAIN carts :
    <<carts[i].order, carts[i].amount>> \in stored \/ IsRemoved(carts[i].order)

(* The count beside the total and the total are about the same orders: all *)
(* that is selected is shown, also after the list was loaded again.        *)
SelectedIsShown == ToSet(selected) \subseteq {carts[i].order : i \in DOMAIN carts}

(* The button does not stay at "Processando...".                           *)
PurchaseEnds == buying # "idle" ~> buying = "idle"
=============================================================================
