----------------------------- MODULE ProductPage ------------------------------
(***************************************************************************)
(* The page of a product: an amount, and a modal where the customer picks  *)
(* a place and time and confirms it, which adds the product to the cart.   *)
(*                                                                         *)
(* A confirmation runs with the state of the last drawing: it stores the   *)
(* schedule it was given and orders with the one that was stored before.   *)
(***************************************************************************)
EXTENDS CartTable

CONSTANTS
  Viewed,          \* the product of the page
  NoSchedule,
  MaxAdds          \* bound: orders sent

ASSUME ProductPageAssumption ==
  Viewed \in Products /\ NoSchedule \notin Schedules /\ MaxAdds \in Nat

VARIABLES
  amount,           \* the counter
  modal,            \* showScheduleModal with the modal's list
  pick,             \* the modal's selectedSchedule
  selectedSchedule, \* the page's
  isAdding,
  adding,           \* POST calls under way
  toasts,           \* answers whose toast has not been taken away
  \* history, read by no action
  confirmed,        \* schedules that were confirmed
  sent              \* number of orders sent

productVars ==
  <<amount, modal, pick, selectedSchedule, isAdding, adding, toasts, confirmed, sent>>

MaybeSchedule == Schedules \cup {NoSchedule}
AddCall == [amount : Amounts, schedule : Schedules, state : {"sent", "resolved", "rejected"}]

ProductTypeOK ==
  /\ amount \in Amounts
  /\ modal \in {"closed", "loading", "listed", "empty"}
  /\ pick \in MaybeSchedule /\ selectedSchedule \in MaybeSchedule
  /\ isAdding \in BOOLEAN
  /\ adding \in Seq(AddCall) /\ Len(adding) <= MaxAdds
  /\ toasts \in 0..MaxAdds
  /\ confirmed \subseteq Schedules /\ sent \in 0..MaxAdds

ProductInit ==
  /\ amount = 1 /\ modal = "closed"
  /\ pick = NoSchedule /\ selectedSchedule = NoSchedule
  /\ isAdding = FALSE /\ adding = <<>> /\ toasts = 0
  /\ confirmed = {} /\ sent = 0
-----------------------------------------------------------------------------
(* The buttons of the amount are disabled while an order is sent. *)
setAmount(value) ==
  /\ ~isAdding
  /\ value \in Amounts /\ value # amount /\ value \in {amount - 1, amount + 1}
  /\ amount' = value
  /\ UNCHANGED <<table, modal, pick, selectedSchedule, isAdding, adding, toasts,
                 confirmed, sent>>

(* The button opens the modal, which mounts and asks for the schedules. *)
OpenModal ==
  /\ modal = "closed"
  /\ modal' = "loading" /\ pick' = NoSchedule
  /\ UNCHANGED <<table, amount, selectedSchedule, isAdding, adding, toasts, confirmed, sent>>

CloseModal ==
  /\ modal # "closed"
  /\ modal' = "closed"
  /\ UNCHANGED <<table, amount, pick, selectedSchedule, isAdding, adding, toasts,
                 confirmed, sent>>

(* A failure is shown like a listing without schedules. *)
loadSchedules ==
  /\ modal = "loading"
  /\ \E outcome \in Outcomes(TRUE) :
       modal' = IF outcome = "resolved" /\ Offered[Viewed] # {} THEN "listed" ELSE "empty"
  /\ UNCHANGED <<table, amount, pick, selectedSchedule, isAdding, adding, toasts,
                 confirmed, sent>>

setSelectedSchedule(s) ==
  /\ modal = "listed" /\ s \in Offered[Viewed] /\ pick # s
  /\ pick' = s
  /\ UNCHANGED <<table, amount, modal, selectedSchedule, isAdding, adding, toasts,
                 confirmed, sent>>
-----------------------------------------------------------------------------
(* Mutation: an order may be sent without a place. *)
OrderAnyway(schedule) ==
  /\ sent < MaxAdds /\ sent' = sent + 1
  /\ adding' = Append(adding, [amount |-> amount, state |-> "sent", schedule |->
       IF schedule = NoSchedule THEN CHOOSE s \in Schedules : TRUE ELSE schedule])
  /\ isAdding' = TRUE /\ modal' = "closed"

(* Without a schedule the modal is opened again, and since it was closed   *)
(* in the same drawing it just stays, with what is picked in it.           *)
handleAddToCart(schedule) ==
  IF schedule = NoSchedule
    THEN UNCHANGED <<modal, isAdding, adding, sent>>
    ELSE /\ sent < MaxAdds /\ sent' = sent + 1
         /\ adding' = Append(adding,
              [amount |-> amount, schedule |-> schedule, state |-> "sent"])
         /\ isAdding' = TRUE /\ modal' = "closed"

handleScheduleSelected ==
  /\ modal = "listed" /\ pick # NoSchedule
  /\ selectedSchedule' = pick /\ confirmed' = confirmed \cup {pick}
  /\ handleAddToCart(selectedSchedule)
  /\ UNCHANGED <<table, amount, pick, toasts>>

(* The server inserts the order, or refuses it, or is not reached. *)
AnswerAdd(i) ==
  /\ i \in DOMAIN adding /\ adding[i].state = "sent"
  /\ \E done \in {CanInsert(Viewed, adding[i].schedule), FALSE} :
     \E outcome \in Outcomes(done) :
       /\ IF done THEN Insert(Viewed, adding[i].amount, adding[i].schedule)
                  ELSE UNCHANGED table
       /\ adding' = [adding EXCEPT ![i].state = outcome]
  /\ UNCHANGED <<amount, modal, pick, selectedSchedule, isAdding, toasts, confirmed, sent>>

(* Mutation: the toast is shown whatever the answer is. *)
ToastAnyway(i) ==
  /\ i \in DOMAIN adding /\ adding[i].state # "sent"
  /\ adding' = RemoveAt(adding, i) /\ toasts' = toasts + 1
  /\ isAdding' = FALSE
  /\ UNCHANGED <<table, amount, modal, pick, selectedSchedule, confirmed, sent>>

(* Every failure is alerted as a product that is already in the cart. *)
AddAnswered(i) ==
  /\ i \in DOMAIN adding /\ adding[i].state # "sent"
  /\ adding' = RemoveAt(adding, i)
  /\ toasts' = IF adding[i].state = "resolved" THEN toasts + 1 ELSE toasts
  /\ isAdding' = FALSE
  /\ UNCHANGED <<table, amount, modal, pick, selectedSchedule, confirmed, sent>>

(* Three seconds later; the first timer takes every toast away. *)
HideToast ==
  /\ toasts > 0 /\ toasts' = 0
  /\ UNCHANGED <<table, amount, modal, pick, selectedSchedule, isAdding, adding,
                 confirmed, sent>>
-----------------------------------------------------------------------------
ProductNext ==
  \/ \E value \in Amounts : setAmount(value)
  \/ OpenModal \/ CloseModal \/ loadSchedules
  \/ \E s \in Schedules : setSelectedSchedule(s)
  \/ handleScheduleSelected
  \/ \E i \in 1..MaxAdds : AnswerAdd(i) \/ AddAnswered(i)
  \/ HideToast

ProductSpec == TableInit /\ ProductInit /\ [][ProductNext]_<<table, productVars>>
-----------------------------------------------------------------------------
(* Properties.                                                             *)

(* What this page puts into the cart has a place that is offered and that  *)
(* the customer has confirmed on it, whichever closure sent the order: so  *)
(* GET cart, which joins the schedules, lists it.                          *)
OrderedWasConfirmed ==
  \A i \in DOMAIN adding : adding[i].schedule \in confirmed \cap Offered[Viewed]

(* The toast says that the product is in the cart: it was put there, even  *)
(* if the seller has removed it since.                                     *)
ToastIsTrue == toasts > 0 => Viewed \in Placed
=============================================================================
