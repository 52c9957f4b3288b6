------------------------------ MODULE ProductForm -----------------------------
(***************************************************************************)
(* The form that creates or edits a seller's listing, and what the server  *)
(* does with it.                                                           *)
(*                                                                         *)
(* Photos are read from files and fetched again from their previews one    *)
(* after another when the form is sent; the form can be changed meanwhile  *)
(* and sent again.  An image is a model value: reading, resizing and       *)
(* hashing give it back, and a file that holds a photo of the page is not  *)
(* told from it.  Listings and the products of the catalogue are numbers,  *)
(* as in the database, where a listing has an id and names its product by  *)
(* product_id.                                                             *)
(***************************************************************************)
EXTENDS Naturals, Sequences, SequencesExt, FiniteSets, Filters, Calls

CONSTANTS
  Images,
  Listings,      \* ids
  Mine,          \* the listing that is edited
  ProductOf,     \* product_id of each listing
  Prices, Quantities,
  Days,          \* schedules
  ImageLimit,    \* 5
  MaxPreviews,   \* bound: images in the form
  MaxChanges,    \* bound: clicks on images and days
  Submits        \* bound: submissions

ASSUME ProductFormAssumption ==
  /\ Mine \in Listings /\ Listings \subseteq Nat /\ Quantities \subseteq Nat
  /\ ProductOf \in [Listings -> Nat]
  /\ IsFiniteSet(Images) /\ Prices # {} /\ Quantities # {}
  /\ ImageLimit \in Nat /\ MaxPreviews \in Nat \ {0} /\ MaxChanges \in Nat

VARIABLES
  editMode,
  withId,              \* photos that the page was drawn with, which have an id
  shared, listened,   \* what the listener of the button knows of the previews
  hrefs,              \* the previews
  reading,            \* files that a FileReader reads
  toRemoveImages,
  selectedSchedules,
  submits,            \* the submissions
  away,               \* the page was left for the list of products
  changes,            \* counts what MaxChanges bounds
  listings, created,  \* the server: seller_products, those that the form added
  files               \* the directory of Mine

form == <<hrefs, reading, toRemoveImages, selectedSchedules, shared, listened>>
server == <<listings, created, files>>
productFormVars == <<editMode, withId, form, submits, away, changes, server>>

Photos == UNION {[1..n -> Images] : n \in 0..MaxPreviews}
ListingRow == [price : Prices, photos : Seq(Images), days : SUBSET Days]
Submit ==
  [at : {"none", "collecting", "sent", "resolved", "rejected", "failed"},
   todo : Photos, photos : Photos, days : SUBSET Days, remove : SUBSET Images,
   price : Prices, quantity : Quantities,
   shown : Photos]    \* history: the previews at the click
NoSubmit ==
  [at |-> "none", todo |-> <<>>, photos |-> <<>>, days |-> {}, remove |-> {},
   price |-> CHOOSE p \in Prices : TRUE, quantity |-> CHOOSE q \in Quantities : TRUE,
   shown |-> <<>>]

ProductFormTypeOK ==
  /\ editMode \in BOOLEAN /\ away \in BOOLEAN
  /\ withId \subseteq Images /\ shared \in BOOLEAN /\ listened \in 0..MaxPreviews
  /\ hrefs \in Photos
  /\ reading \subseteq Images /\ toRemoveImages \subseteq Images
  /\ selectedSchedules \subseteq Days
  /\ submits \in [Submits -> Submit] /\ changes \in 0..MaxChanges
  /\ listings \in [Listings -> ListingRow] /\ created \in Seq(ListingRow)
  /\ files \subseteq Images

ProductFormInit ==
  /\ editMode \in BOOLEAN
  /\ \E i \in Images, p \in Prices :
       /\ hrefs = IF editMode THEN <<i>> ELSE <<>>
       /\ files = {i}
       /\ listings = [l \in Listings |-> [price |-> p, photos |-> <<i>>, days |-> {}]]
  /\ created = <<>>
  /\ withId = ToSet(hrefs) /\ shared = TRUE /\ listened = 0
  /\ reading = {} /\ toRemoveImages = {} /\ selectedSchedules = {}
  /\ submits = [n \in Submits |-> NoSubmit]
  /\ away = FALSE /\ changes = 0
-----------------------------------------------------------------------------
Changes == ~away /\ changes < MaxChanges /\ changes' = changes + 1

(* ProductImages.                                                          *)

(* The listener holds the array of the first drawing.  Photos are added to *)
(* it as well, until one is removed, which puts another in its place.      *)
Counted == IF shared THEN Len(hrefs) ELSE listened

AddImages(chosen) ==
  /\ Changes /\ Counted < ImageLimit
  /\ chosen # {} /\ chosen \cap reading = {}
  /\ Len(hrefs) + Cardinality(reading \cup chosen) <= MaxPreviews
  /\ reading' = reading \cup chosen
  /\ UNCHANGED <<editMode, withId, shared, listened, hrefs, toRemoveImages, selectedSchedules,
                 submits, away, server>>

ImageRead(i) ==
  /\ ~away /\ i \in reading /\ reading' = reading \ {i}
  /\ hrefs' = Append(hrefs, i)
  /\ UNCHANGED <<editMode, withId, shared, listened, toRemoveImages, selectedSchedules, submits,
                 away, changes, server>>

(* Only a photo with an id is to be removed by the server. *)
RemoveImage(i) ==
  /\ Changes /\ i \in ToSet(hrefs)
  /\ hrefs' = Kept(hrefs, Images \ {i})
  /\ toRemoveImages' = toRemoveImages \cup ({i} \cap withId)
  /\ listened' = Counted /\ shared' = FALSE
  /\ UNCHANGED <<editMode, withId, reading, selectedSchedules, submits, away, server>>

handleScheduleAdd(d) ==
  /\ Changes /\ selectedSchedules' = selectedSchedules \cup {d}
  /\ UNCHANGED <<editMode, withId, shared, listened, hrefs, reading, toRemoveImages, submits,
                 away, server>>

removeSchedule(d) ==
  /\ Changes /\ d \in selectedSchedules /\ selectedSchedules' = selectedSchedules \ {d}
  /\ UNCHANGED <<editMode, withId, shared, listened, hrefs, reading, toRemoveImages, submits,
                 away, server>>
-----------------------------------------------------------------------------
(* submit: nothing keeps it from running twice.                            *)

submitProduct(n) ==
  /\ ~away /\ submits[n].at = "none"
  /\ \E price \in Prices, quantity \in Quantities :
       submits' = [submits EXCEPT ![n] =
         [at |-> "collecting", todo |-> hrefs, photos |-> <<>>, days |-> selectedSchedules,
          remove |-> {}, price |-> price, quantity |-> quantity, shown |-> hrefs]]
  /\ UNCHANGED <<editMode, withId, form, away, changes, server>>

(* Mutation: the previews are looked up again after each await. *)
CollectLive(n) ==
  /\ ~away /\ submits[n].at = "collecting"
  /\ LET k == Len(submits[n].photos) + 1 IN
     submits' = [submits EXCEPT ![n] =
       IF k <= Len(hrefs) /\ k <= MaxPreviews
         THEN [@ EXCEPT !.photos = Append(@, hrefs[k]), !.todo = <<>>]
         ELSE [@ EXCEPT !.at = "sent", !.remove = toRemoveImages, !.todo = <<>>]]
  /\ UNCHANGED <<editMode, withId, form, away, changes, server>>

(* One preview is fetched, or the loop ends; what is to be removed is read *)
(* when it ends.  A fetch that fails ends the function with no message.    *)
Collect(n) ==
  /\ ~away /\ submits[n].at = "collecting"
  /\ LET s == submits[n] IN
     submits' = [submits EXCEPT ![n] =
       IF s.todo # <<>>
         THEN [s EXCEPT !.photos = Append(s.photos, Head(s.todo)), !.todo = Tail(s.todo)]
         ELSE [s EXCEPT !.at = "sent", !.remove = IF editMode THEN toRemoveImages ELSE {}]]
  /\ UNCHANGED <<editMode, withId, form, away, changes, server>>

FetchFails(n) ==
  /\ ~away /\ submits[n].at = "collecting" /\ submits[n].todo # <<>>
  /\ submits' = [submits EXCEPT ![n].at = "failed"]
  /\ UNCHANGED <<editMode, withId, form, away, changes, server>>

(* POST takes one to five photos and inserts a listing, each time anew,    *)
(* with a directory of its own.                                            *)
Create(s) ==
  /\ Len(s.photos) \in 1..ImageLimit
  /\ created' = Append(created, [price |-> s.price, photos |-> s.photos, days |-> s.days])
  /\ UNCHANGED <<listings, files>>

(* PATCH updates the listings WHERE product_id is the parameter that holds *)
(* the quantity per unit, and sets the photos WHERE product_id is the id   *)
(* of the listing: what it keeps of the directory, then what it adds.  The *)
(* form names its days schedules_id, which PATCH does not read.            *)
Edit(s) ==
  LET kept == files \ s.remove
      photos(order) == order \o s.photos IN
  /\ files' = kept \cup ToSet(s.photos)
  /\ \E order \in [1..Cardinality(kept) -> kept] :
       /\ ToSet(order) = kept
       /\ listings' = [l \in Listings |->
            [listings[l] EXCEPT
               !.price = IF ProductOf[l] = s.quantity THEN s.price ELSE @,
               !.photos = IF ProductOf[l] = Mine /\ s.remove \cup ToSet(s.photos) # {}
                            THEN photos(order) ELSE @]]
  /\ UNCHANGED created

(* A PATCH that fails is rolled back in the table, and not in the          *)
(* directory: files are removed one by one, then written one by one.       *)
EditFails(s) ==
  /\ \/ \E removed \in SUBSET s.remove : files' = files \ removed
     \/ \E k \in 0..Len(s.photos) :
          files' = (files \ s.remove) \cup ToSet(SubSeq(s.photos, 1, k))
  /\ UNCHANGED <<listings, created>>

(* The directory of a POST that fails belongs to no listing. *)
CreateFails == UNCHANGED server

AnswerSubmit(n) ==
  /\ submits[n].at = "sent"
  /\ \/ /\ IF editMode THEN Edit(submits[n]) ELSE Create(submits[n])
        /\ \E outcome \in Outcomes(TRUE) : submits' = [submits EXCEPT ![n].at = outcome]
     \/ /\ submits' = [submits EXCEPT ![n].at = "rejected"]
        /\ IF editMode THEN EditFails(submits[n]) ELSE CreateFails
  /\ UNCHANGED <<editMode, withId, form, away, changes>>

(* To the list of products, or an alert. *)
SubmitSettled(n) ==
  /\ ~away /\ submits[n].at \in {"resolved", "rejected"}
  /\ away' = (submits[n].at = "resolved")
  /\ submits' = [submits EXCEPT ![n].at = IF away' THEN @ ELSE "failed"]
  /\ UNCHANGED <<editMode, withId, form, changes, server>>
-----------------------------------------------------------------------------
ProductFormNext ==
  \/ \E chosen \in SUBSET Images : AddImages(chosen)
  \/ \E i \in Images : ImageRead(i) \/ RemoveImage(i)
  \/ \E d \in Days : handleScheduleAdd(d) \/ removeSchedule(d)
  \/ \E n \in Submits :
       submitProduct(n) \/ Collect(n) \/ FetchFails(n) \/ AnswerSubmit(n) \/ SubmitSettled(n)

ProductFormSpec == ProductFormInit /\ [][ProductFormNext]_productFormVars
-----------------------------------------------------------------------------
(* Properties.                                                             *)

(* A submission sends the photos that were previewed when the button was   *)
(* pressed, all of them and once each, although previews are added and     *)
(* removed, and the form sent again, while they are fetched.               *)
SentIsShown ==
  \A n \in Submits :
    submits[n].at \in {"sent", "resolved", "rejected"} => submits[n].photos = submits[n].shown

(* docs/api.md: PATCH sets the new price of the product.  An edit that is  *)
(* accepted changes that listing and no other.                             *)
EditIsOfTheListing ==
  [][\A n \in Submits :
       editMode /\ submits[n].at = "sent" /\ submits'[n].at = "resolved" =>
         /\ listings'[Mine].price = submits[n].price
         /\ \A l \in Listings \ {Mine} : listings'[l] = listings[l]]_productFormVars
=============================================================================
