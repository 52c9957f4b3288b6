------------------------------ MODULE SearchPage ------------------------------
(***************************************************************************)
(* The search of the home page: the box with its options, the filter, and  *)
(* the two lists of products that follow the filter.                       *)
(*                                                                         *)
(* The filter is an object in a store.  Its modal starts from the same     *)
(* object (aliased) and edits a copy, but takes a field away from the      *)
(* object first; and the store calls its listeners only when it is given   *)
(* another object.  All the fields of the modal behave like product_type,  *)
(* which stands for them; the times are not kept.  What the lists show is  *)
(* left out: answers are shown in the order they come, so an old one may   *)
(* replace a new one, and a failure leaves the list as it was.             *)
(***************************************************************************)
EXTENDS Calls

CONSTANTS
  Types, Listed,    \* values of product_type and of product_id
  Nobody,           \* product_id -1: search among users
  Unset, NoFilter,
  Queries, NoQuery  \* texts of the box, and the empty one

ASSUME SearchAssumption ==
  /\ Unset \notin Types \cup Listed \cup {Nobody} /\ Nobody \notin Listed
  /\ NoQuery \notin Queries

VARIABLES
  filter,         \* the store
  screen,
  preview, aliased, modalOpen,
  input, timer,   \* the text of the box; a search waits for the pause
  searching,      \* searches under way
  product_names,  \* the text whose options are listed
  isOnSelect,
  asked,          \* the last filter each list asked the server for
  \* history, read by no action
  chosenFields    \* fields that were confirmed or chosen

filterModal == <<preview, aliased, modalOpen>>
box == <<input, timer, searching, product_names, isOnSelect>>
searchVars == <<filter, screen, filterModal, box, asked, chosenFields>>

Fields == {"product_type", "product_id"}
Filter == [product_type : Types \cup {Unset}, product_id : Listed \cup {Nobody, Unset}]
MaybeFilter == Filter \cup {NoFilter}
NoFields == [f \in Fields |-> Unset]
Lists == {"menu", "results"}

SearchTypeOK ==
  /\ filter \in MaybeFilter /\ preview \in MaybeFilter
  /\ screen \in {"home", "menu", "results"}
  /\ aliased \in BOOLEAN /\ modalOpen \in BOOLEAN /\ isOnSelect \in BOOLEAN
  /\ input \in Queries \cup {NoQuery} /\ timer \in BOOLEAN
  /\ searching \subseteq Queries
  /\ product_names \in Queries \cup {NoQuery}
  /\ asked \in [Lists -> Filter]
  /\ chosenFields \subseteq Fields \X (Types \cup Listed \cup {Nobody})

SearchInit ==
  /\ filter = NoFilter /\ screen = "home"
  /\ preview = NoFilter /\ aliased = FALSE /\ modalOpen = FALSE
  /\ input = NoQuery /\ timer = FALSE /\ searching = {}
  /\ product_names = NoQuery /\ isOnSelect = FALSE
  /\ asked = [l \in Lists |-> NoFields]
  /\ chosenFields = {}

FieldsOf(v) == IF v = NoFilter THEN {} ELSE {<<f, v[f]>> : f \in {g \in Fields : v[g] # Unset}}
OrEmpty(v) == IF v = NoFilter THEN NoFields ELSE v
-----------------------------------------------------------------------------
(* filter.set with another object: both lists are asked, and the list of   *)
(* the results ignores the searches among users.                           *)
Listeners(v) == {l \in Lists : l = "results" => v.product_id # Nobody}
SetFilter(v) ==
  /\ filter' = v
  /\ asked' = [l \in Lists |-> IF l \in Listeners(v) THEN v ELSE asked[l]]
-----------------------------------------------------------------------------
(* The modal, which covers the page.                                       *)

OpenFilter ==
  /\ screen # "home" /\ ~modalOpen /\ modalOpen' = TRUE
  /\ preview' = filter /\ aliased' = (filter # NoFilter)
  /\ UNCHANGED <<filter, screen, box, asked, chosenFields>>

Unmount == modalOpen' = FALSE /\ preview' = NoFilter /\ aliased' = FALSE

CloseFilter ==
  /\ modalOpen /\ Unmount
  /\ UNCHANGED <<filter, screen, box, asked, chosenFields>>

(* Mutation: the field is written into the object that was given. *)
setFieldInPlace(v) ==
  /\ modalOpen /\ preview' = [OrEmpty(preview) EXCEPT !.product_type = v]
  /\ filter' = IF aliased THEN preview' ELSE filter
  /\ UNCHANGED <<aliased, modalOpen, screen, box, asked, chosenFields>>

setField(v) ==
  /\ modalOpen /\ OrEmpty(preview).product_type # v
  /\ preview' = [OrEmpty(preview) EXCEPT !.product_type = v] /\ aliased' = FALSE
  /\ UNCHANGED <<filter, modalOpen, screen, box, asked, chosenFields>>

(* The second click on a value, or a price of nothing. *)
deleteField ==
  /\ modalOpen
  /\ preview' = [OrEmpty(preview) EXCEPT !.product_type = Unset] /\ aliased' = FALSE
  /\ filter' = IF aliased THEN preview' ELSE filter
  /\ UNCHANGED <<modalOpen, screen, box, asked, chosenFields>>

(* The listeners cannot read a filter that is not there. *)
confirmFilter ==
  /\ modalOpen /\ Unmount
  /\ CASE aliased -> UNCHANGED <<filter, asked>>
       [] preview = NoFilter -> filter' = NoFilter /\ UNCHANGED asked
       [] OTHER -> SetFilter(preview)
  /\ chosenFields' = chosenFields \cup FieldsOf(preview)
  /\ UNCHANGED <<screen, box>>
-----------------------------------------------------------------------------
(* The box.                                                                *)

Type(text) ==
  /\ ~modalOpen /\ text # input /\ input' = text /\ timer' = TRUE /\ isOnSelect' = FALSE
  /\ UNCHANGED <<filter, screen, filterModal, searching, product_names, asked, chosenFields>>

(* The listener of the options: "we can assume that a new search was made" *)
(* shows them, and without options the product is taken out of the filter, *)
(* which may be the object that the modal has.                             *)
SetNames(text) ==
  /\ product_names' = text /\ isOnSelect' = FALSE
  /\ IF text # NoQuery THEN UNCHANGED <<filter, preview, asked>>
     ELSE /\ IF filter = NoFilter THEN SetFilter(NoFields)
             ELSE filter' = [filter EXCEPT !.product_id = Unset] /\ UNCHANGED asked
          /\ preview' = IF aliased THEN filter' ELSE preview

(* 600 ms after the last change. *)
search ==
  /\ timer /\ timer' = FALSE
  /\ IF input = NoQuery THEN SetNames(NoQuery) /\ UNCHANGED searching
     ELSE /\ searching' = searching \cup {input}
          /\ UNCHANGED <<filter, preview, asked, product_names, isOnSelect>>
  /\ UNCHANGED <<screen, aliased, modalOpen, input, chosenFields>>

(* Nothing may be found; a text of three characters is an option itself. *)
SearchSettled(text) ==
  /\ text \in searching /\ searching' = searching \ {text}
  /\ \E outcome \in Outcomes(TRUE) :
       IF outcome = "resolved" THEN SetNames(text) \/ SetNames(NoQuery)
       ELSE UNCHANGED <<filter, preview, asked, product_names, isOnSelect>>
  /\ UNCHANGED <<screen, aliased, modalOpen, input, timer, chosenFields>>

(* Mutation: the product is written into the object of the store. *)
updateFilterInPlace(product) ==
  /\ ~modalOpen /\ ~isOnSelect /\ product_names # NoQuery
  /\ filter' = [OrEmpty(filter) EXCEPT !.product_id = product]
  /\ screen' = "results" /\ isOnSelect' = TRUE
  /\ chosenFields' = chosenFields \cup {<<"product_id", product>>}
  /\ UNCHANGED <<filterModal, input, timer, searching, product_names, asked>>

(* An option is clicked; or Enter is pressed on it, also on the option     *)
(* that searches users.                                                    *)
updateFilter(product) ==
  /\ ~modalOpen /\ ~isOnSelect /\ product_names # NoQuery
  /\ SetFilter([OrEmpty(filter) EXCEPT !.product_id = product])
  /\ screen' = "results" /\ isOnSelect' = TRUE
  /\ chosenFields' = chosenFields \cup {<<"product_id", product>>}
  /\ UNCHANGED <<filterModal, input, timer, searching, product_names>>

updateUsersQuery ==
  /\ ~modalOpen /\ ~isOnSelect /\ product_names # NoQuery
  /\ screen' = "results" /\ isOnSelect' = TRUE
  /\ UNCHANGED <<filter, filterModal, input, timer, searching, product_names, asked,
                 chosenFields>>

(* Another element is focused, or the box again. *)
FocusBox(away) ==
  /\ ~modalOpen /\ isOnSelect # away /\ isOnSelect' = away
  /\ screen' = IF screen = "home" /\ ~away THEN "menu" ELSE screen
  /\ UNCHANGED <<filter, filterModal, input, timer, searching, product_names, asked,
                 chosenFields>>
-----------------------------------------------------------------------------
(* The home page's categories, and the links of the navigation bar.  The   *)
(* menu is shown 300 ms later, which Navigate does as well.                *)
ChooseCategory(v) ==
  /\ screen = "home" /\ ~modalOpen
  /\ SetFilter([NoFields EXCEPT !.product_type = v]) /\ screen' \in {"home", "menu"}
  /\ chosenFields' = chosenFields \cup {<<"product_type", v>>}
  /\ UNCHANGED <<filterModal, box>>

Navigate(to) ==
  /\ ~modalOpen /\ screen # to /\ screen' = to
  /\ UNCHANGED <<filter, filterModal, box, asked, chosenFields>>
-----------------------------------------------------------------------------
SearchNext ==
  \/ OpenFilter \/ CloseFilter \/ deleteField \/ confirmFilter
  \/ \E v \in Types : setField(v) \/ ChooseCategory(v)
  \/ \E text \in Queries \cup {NoQuery} : Type(text)
  \/ search \/ \E text \in Queries : SearchSettled(text)
  \/ \E product \in Listed \cup {Nobody} : updateFilter(product)
  \/ updateUsersQuery
  \/ \E away \in BOOLEAN : FocusBox(away)
  \/ \E to \in {"home", "menu"} : Navigate(to)

SearchSpec == SearchInit /\ [][SearchNext]_searchVars
-----------------------------------------------------------------------------
(* Properties.                                                             *)

(* Whatever is edited in the modal and not confirmed, a field is in the    *)
(* filter only with a value that was confirmed or chosen: the modal shares *)
(* the object of the store, and sharing it can only lose fields.           *)
FilterWasChosen == FieldsOf(filter) \subseteq chosenFields

(* The store of the filter never has a field that the list of the menu was *)
(* not last asked for: changes that the listeners are not told of, in the  *)
(* modal or when the box is emptied, only take fields away.                *)
ListsWereTold == FieldsOf(filter) \subseteq FieldsOf(asked["menu"])
=============================================================================
