----------------------------- MODULE ScheduleForm -----------------------------
(***************************************************************************)
(* The form of a seller's place and time.                                  *)
(*                                                                         *)
(* The seller types an address; after a pause it is searched, the answers  *)
(* of several searches may come in any order, and choosing one of a list   *)
(* fills in the address and its coordinates.  Or the device's position is  *)
(* asked for when the form is sent.  A place is named by its coordinates   *)
(* and is also the text that names it.  Days and times do not interact     *)
(* with anything and are left out, except that a day must be chosen.       *)
(***************************************************************************)
EXTENDS Naturals, FiniteSets, Calls

CONSTANTS
  Places,        \* results of searches
  Typed,         \* other texts that can be searched
  Short,         \* stands for one or two characters: not searched
  Empty, NoPlace, Device,
  Found(_),      \* what a search for a text finds
  MaxSearches,   \* bound: searches under way
  MaxInputs      \* bound: texts typed, and times that the method is changed

Searchable == Places \cup Typed
Texts == Searchable \cup {Short, Empty}

ASSUME ScheduleFormAssumption ==
  /\ \A text \in Searchable : Found(text) \subseteq Places
  /\ MaxSearches \in Nat /\ MaxInputs \in Nat
  /\ Cardinality({Short, Empty, NoPlace, Device}) = 4
  /\ {Short, Empty, NoPlace, Device} \cap Searchable = {}

VARIABLES
  editing,            \* the page was opened for a schedule, which is at a place
  selectedDay,        \* a day is chosen
  addressQuery, addressResults, showAddressResults, isSearchingAddress,
  selectedCoords,     \* of the chosen result
  locationMethod,
  debounce,           \* a search waits for the pause
  searches,           \* searches under way
  submission,         \* submit, from its call to its answer
  place,              \* the server: where the schedule is
  inputs

results == <<addressResults, showAddressResults, isSearchingAddress>>
address == <<addressQuery, selectedCoords, locationMethod, debounce>>
scheduleVars == <<editing, selectedDay, results, address, searches, submission, place, inputs>>

Steps == {"none", "locating", "sent", "resolved", "rejected", "left"}
Location == Places \cup {NoPlace, Device}
Submission == [at : Steps, address : Texts, coords : Location]
NoSubmission == [at |-> "none", address |-> Empty, coords |-> NoPlace]

ScheduleTypeOK ==
  /\ editing \in BOOLEAN /\ selectedDay \in BOOLEAN
  /\ addressQuery \in Texts /\ addressResults \subseteq Places
  /\ showAddressResults \in BOOLEAN /\ isSearchingAddress \in BOOLEAN
  /\ selectedCoords \in Places \cup {NoPlace}
  /\ locationMethod \in {"address", "gps"}
  /\ debounce \in BOOLEAN
  /\ searches \subseteq Searchable
  /\ submission \in Submission
  /\ place \in Location
  /\ inputs \in 0..MaxInputs

(* Mutation: a text of any length is searched. *)
DebouncedShort(text, coords, method) == coords = NoPlace /\ method = "address"

(* The effect on the address, the method and the coordinates: the pause    *)
(* starts anew whenever one of them changes.                               *)
Debounced(text, coords, method) ==
  text \in Searchable /\ coords = NoPlace /\ method = "address"

ScheduleInit ==
  /\ editing \in BOOLEAN /\ selectedDay = editing
  /\ place \in IF editing THEN Places ELSE {NoPlace}
  /\ addressQuery = IF editing THEN place ELSE Empty
  /\ addressResults = {} /\ showAddressResults = FALSE /\ isSearchingAddress = FALSE
  /\ selectedCoords = NoPlace /\ locationMethod = "address"
  /\ debounce = Debounced(addressQuery, NoPlace, "address")
  /\ searches = {} /\ submission = NoSubmission /\ inputs = 0

isLoading == submission.at # "none"
Here == submission.at # "left"
Input == inputs < MaxInputs /\ inputs' = inputs + 1
-----------------------------------------------------------------------------
(* Addresses.                                                              *)

(* Mutation: the coordinates survive until another address is chosen. *)
handleAddressInputKeeps(text) ==
  /\ Here /\ Input
  /\ text # addressQuery /\ addressQuery' = text
  /\ locationMethod' = "address"
  /\ debounce' = Debounced(text, selectedCoords, "address")
  /\ UNCHANGED <<editing, selectedDay, selectedCoords, results, searches, submission, place>>

handleAddressInputChange(text) ==
  /\ Here /\ Input
  /\ text # addressQuery /\ addressQuery' = text
  /\ selectedCoords' = NoPlace
  /\ locationMethod' = IF text = Empty THEN locationMethod ELSE "address"
  /\ debounce' = Debounced(text, NoPlace, locationMethod')
  /\ addressResults' = IF text = Empty THEN {} ELSE addressResults
  /\ showAddressResults' = (showAddressResults /\ text # Empty)
  /\ UNCHANGED <<editing, selectedDay, isSearchingAddress, searches, submission, place>>

searchAddresses(text) ==
  /\ Cardinality(searches) < MaxSearches
  /\ searches' = searches \cup {text}
  /\ isSearchingAddress' = TRUE /\ showAddressResults' = TRUE
  /\ UNCHANGED addressResults

(* 600 ms later. *)
DebouncedSearch ==
  /\ Here /\ debounce /\ debounce' = FALSE
  /\ searchAddresses(addressQuery)
  /\ UNCHANGED <<editing, selectedDay, addressQuery, selectedCoords, locationMethod,
                 submission, place, inputs>>

(* Whatever was typed or chosen since; a failure finds nothing. *)
SearchAnswered(text) ==
  /\ Here /\ text \in searches /\ searches' = searches \ {text}
  /\ \/ addressResults' = Found(text) /\ showAddressResults' = TRUE
     \/ addressResults' = {} /\ UNCHANGED showAddressResults
  /\ isSearchingAddress' = FALSE
  /\ UNCHANGED <<editing, selectedDay, address, submission, place, inputs>>

(* A click outside of the field and its list. *)
handleClickOutside ==
  /\ Here /\ showAddressResults /\ showAddressResults' = FALSE
  /\ UNCHANGED <<editing, selectedDay, addressResults, isSearchingAddress, address, searches,
                 submission, place, inputs>>

Focus ==
  /\ Here /\ ~showAddressResults
  /\ addressQuery \in Searchable /\ addressResults # {} /\ selectedCoords = NoPlace
  /\ showAddressResults' = TRUE
  /\ UNCHANGED <<editing, selectedDay, addressResults, isSearchingAddress, address, searches,
                 submission, place, inputs>>

handleAddressSelect(p) ==
  /\ Here /\ showAddressResults /\ locationMethod = "address" /\ ~isSearchingAddress
  /\ p \in addressResults
  /\ addressQuery' = p /\ selectedCoords' = p
  /\ addressResults' = {} /\ showAddressResults' = FALSE
  /\ debounce' = FALSE
  /\ UNCHANGED <<editing, selectedDay, isSearchingAddress, locationMethod, searches, submission,
                 place, inputs>>

handleLocationMethodChange(method) ==
  /\ Here /\ Input
  /\ locationMethod' = method /\ selectedCoords' = NoPlace
  /\ debounce' = IF <<method, NoPlace>> = <<locationMethod, selectedCoords>> THEN debounce
                 ELSE Debounced(addressQuery, NoPlace, method)
  /\ IF method = "address" /\ addressQuery \in Searchable
       THEN searchAddresses(addressQuery)
       ELSE UNCHANGED <<results, searches>>
  /\ UNCHANGED <<editing, selectedDay, addressQuery, submission, place>>

handleDaySelect ==
  /\ Here /\ ~selectedDay /\ selectedDay' = TRUE
  /\ UNCHANGED <<editing, results, address, searches, submission, place, inputs>>
-----------------------------------------------------------------------------
(* Sending the form.                                                       *)

(* The button is disabled while a submission is under way and without a    *)
(* day; an address without coordinates is refused with an alert.           *)
submit ==
  /\ ~isLoading /\ selectedDay /\ addressQuery # Empty
  /\ \/ /\ locationMethod = "gps"
        /\ submission' = [at |-> "locating", address |-> addressQuery, coords |-> NoPlace]
     \/ /\ locationMethod = "address" /\ selectedCoords # NoPlace
        /\ submission' = [at |-> "sent", address |-> addressQuery, coords |-> selectedCoords]
  /\ UNCHANGED <<editing, selectedDay, results, address, searches, place, inputs>>

(* Mutation: without a position the form is sent all the same. *)
getLocAnyway ==
  /\ submission.at = "locating"
  /\ \E coords \in {Device, NoPlace} :
       submission' = [submission EXCEPT !.at = "sent", !.coords = coords]
  /\ UNCHANGED <<editing, selectedDay, results, address, searches, place, inputs>>

(* The device answers, or the seller refuses: then an alert. *)
getLoc ==
  /\ submission.at = "locating"
  /\ submission' \in {[submission EXCEPT !.at = "sent", !.coords = Device], NoSubmission}
  /\ UNCHANGED <<editing, selectedDay, results, address, searches, place, inputs>>

(* The form has no field use_gps, so an edit is sent without a location.   *)
SentLocation == IF editing THEN NoPlace ELSE submission.coords

(* POST puts the schedule where the location says; PATCH moves it only if  *)
(* there is a location, and takes no address without one.                  *)
AnswerSchedule ==
  /\ submission.at = "sent"
  /\ \E done \in BOOLEAN : \E outcome \in Outcomes(done) :
       /\ place' = IF done /\ SentLocation # NoPlace THEN SentLocation ELSE place
       /\ submission' = [submission EXCEPT !.at = outcome]
  /\ UNCHANGED <<editing, selectedDay, results, address, searches, inputs>>

(* Mutation: only a success is awaited. *)
SubmitAccepted ==
  /\ submission.at = "resolved"
  /\ submission' = [submission EXCEPT !.at = "left"]
  /\ UNCHANGED <<editing, selectedDay, results, address, searches, place, inputs>>

(* To the list of schedules, or an alert. *)
SubmitAnswered ==
  /\ submission.at \in {"resolved", "rejected"}
  /\ submission' = IF submission.at = "resolved" THEN [submission EXCEPT !.at = "left"]
                                                 ELSE NoSubmission
  /\ UNCHANGED <<editing, selectedDay, results, address, searches, place, inputs>>
-----------------------------------------------------------------------------
ScheduleNext ==
  \/ \E text \in Texts : handleAddressInputChange(text)
  \/ DebouncedSearch
  \/ \E text \in searches : SearchAnswered(text)
  \/ handleClickOutside \/ Focus
  \/ \E p \in Places : handleAddressSelect(p)
  \/ \E method \in {"address", "gps"} : handleLocationMethodChange(method)
  \/ handleDaySelect
  \/ submit \/ getLoc \/ AnswerSchedule \/ SubmitAnswered

ScheduleProgress == AnswerSchedule \/ SubmitAnswered

ScheduleSpec ==
  ScheduleInit /\ [][ScheduleNext]_scheduleVars /\ WF_scheduleVars(ScheduleProgress)
-----------------------------------------------------------------------------
(* Properties.                                                             *)

(* The coordinates the form keeps are those of the address it shows,       *)
(* whichever searches come back, late or out of order, after it was typed  *)
(* over, chosen, or searched by another method.                            *)
CoordsAreTheAddress == selectedCoords # NoPlace => addressQuery = selectedCoords

(* What is sent is one place: the address and the coordinates agree, or    *)
(* the coordinates are the device's, although the form can be changed      *)
(* while the position is awaited; a new schedule never lacks a location.   *)
SentIsOnePlace ==
  submission.at \in {"sent", "resolved", "rejected", "left"} =>
    submission.coords \in {submission.address, Device}

(* A form that was sent is answered, or left: the button comes back.  The  *)
(* device's position may never come.                                       *)
SendingEnds == submission.at = "sent" ~> submission.at \in {"none", "left"}
=============================================================================
