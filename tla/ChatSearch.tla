------------------------------ MODULE ChatSearch ------------------------------
(***************************************************************************)
(* The box above the list of chats: a search among the users, and the chat *)
(* that is opened with the user who is picked.                             *)
(*                                                                         *)
(* POST chats looks for a chat of the two and then inserts one; the table  *)
(* only refuses the same pair in the same order.  The other user's page    *)
(* does the same.  The box's listeners are set by an effect that runs      *)
(* again whenever the text or the results change, and what it cleans up    *)
(* includes the timer of the search that the text began.  The page ends    *)
(* when it goes elsewhere.                                                 *)
(***************************************************************************)
EXTENDS Naturals, Sequences, SequencesExt, Calls

CONSTANTS
  Me, Others,            \* users
  Names, Brief, Blank,   \* texts: long enough, too short, and none
  ThisPage, AllChats,        \* where the page is; a number is a chat
  MaxAsks                \* bound: searches and requests, together

ASSUME ChatSearchAssumption ==
  /\ Me \notin Others /\ Brief # Blank /\ {Brief, Blank} \cap Names = {}
  /\ ThisPage # AllChats /\ {ThisPage, AllChats} \cap Nat = {}
  /\ MaxAsks \in Nat

VARIABLES
  chats,          \* rows: user1, user2, and how many there were at the look-up
  opening,        \* requests POST chats
  query,
  timeout,        \* a search begins 600 ms after the text
  lookups,        \* searches under way or over
  searchResults, isSearching, showResults,
  wasFound,       \* a focus listener that knows results is still there
  location,
  \* history, read by no action
  picked          \* users that were picked

searchBox == <<query, timeout, lookups, searchResults, isSearching, showResults, wasFound>>
chatSearchVars == <<chats, opening, searchBox, location, picked>>

Users == Others \cup {Me}
QueryTexts == Names \cup {Brief, Blank}
Chat == [user1 : Users, user2 : Users, seen : Nat]
Opening == [from : Users, to : Users, seen : Nat, chat : Nat,
            at : {"look", "insert", "resolved", "rejected", "over"}]

ChatSearchTypeOK ==
  /\ chats \in Seq(Chat) /\ opening \in Seq(Opening)
  /\ query \in QueryTexts /\ timeout \in BOOLEAN
  /\ lookups \in Seq({"sent", "resolved", "rejected", "over"}) /\ Len(lookups) <= MaxAsks
  /\ searchResults \subseteq Users
  /\ isSearching \in BOOLEAN /\ showResults \in BOOLEAN /\ wasFound \in BOOLEAN
  /\ location \in {ThisPage, AllChats} \cup DOMAIN chats
  /\ picked \subseteq Users

ChatSearchInit ==
  /\ chats = <<>> /\ opening = <<>>
  /\ query = Blank /\ timeout = FALSE /\ lookups = <<>>
  /\ searchResults = {} /\ isSearching = FALSE /\ showResults = FALSE /\ wasFound = FALSE
  /\ location = ThisPage /\ picked = {}
-----------------------------------------------------------------------------
(* The box.                                                                *)

Asks == Len(lookups) + Len(opening)

(* What a new text or new results do beside: the effect runs again. *)
EffectRuns(text, results) ==
  /\ timeout' = FALSE
  /\ wasFound' = (wasFound \/ (text \in Names /\ results # {}))

(* The text is typed: the timer it sets is cleared by its own drawing.     *)
handleInputChange(text) ==
  /\ location = ThisPage /\ text # query /\ query' = text
  /\ searchResults' = (IF text = Blank THEN {} ELSE searchResults)
  /\ showResults' = (showResults /\ text # Blank)
  /\ EffectRuns(text, searchResults')
  /\ UNCHANGED <<chats, opening, lookups, isSearching, location, picked>>

(* The same text is put in again: nothing is drawn and the timer stays. *)
handleInputAgain ==
  /\ location = ThisPage /\ query # Blank /\ timeout' = TRUE
  /\ UNCHANGED <<chats, opening, query, lookups, searchResults, isSearching, showResults,
                 wasFound, location, picked>>

Lookup ==
  /\ Asks < MaxAsks
  /\ lookups' = Append(lookups, "sent") /\ isSearching' = TRUE
  /\ UNCHANGED <<searchResults, showResults>>

(* Enter, a click on the loupe, or the timer, which knows a short text. *)
searchUsers ==
  /\ location = ThisPage
  /\ \/ query \in Names /\ Lookup /\ UNCHANGED <<timeout, wasFound>>
     \/ timeout /\ query \in Names /\ Lookup /\ timeout' = FALSE /\ UNCHANGED wasFound
     \/ /\ timeout /\ query = Brief
        /\ searchResults' = {} /\ showResults' = FALSE /\ EffectRuns(query, {})
        /\ UNCHANGED <<lookups, isSearching>>
  /\ UNCHANGED <<chats, opening, query, location, picked>>

AnswerLookup(n) ==
  /\ n \in DOMAIN lookups /\ lookups[n] = "sent"
  /\ \E outcome \in Outcomes(TRUE) : lookups' = [lookups EXCEPT ![n] = outcome]
  /\ UNCHANGED <<chats, opening, query, timeout, searchResults, isSearching, showResults,
                 wasFound, location, picked>>

(* Mutation: only a search that went well ends. *)
LookupEndsIfFound(n) == isSearching' = (isSearching /\ lookups[n] = "rejected")

LookupEnds(n) == isSearching' = FALSE

(* The user who searches is found too: what should leave them out compares *)
(* with the component's properties.                                        *)
LookupAnswered(n) ==
  /\ location = ThisPage
  /\ n \in DOMAIN lookups /\ lookups[n] \in {"resolved", "rejected"}
  /\ IF lookups[n] = "resolved"
       THEN searchResults' \in {{}, Users} /\ showResults' = TRUE
       ELSE searchResults' = {} /\ UNCHANGED showResults
  /\ LookupEnds(n) /\ EffectRuns(query, searchResults')
  /\ lookups' = [lookups EXCEPT ![n] = "over"]
  /\ UNCHANGED <<chats, opening, query, location, picked>>

FocusSearch ==
  /\ location = ThisPage /\ wasFound /\ ~showResults /\ showResults' = TRUE
  /\ UNCHANGED <<chats, opening, query, timeout, lookups, searchResults, isSearching,
                 wasFound, location, picked>>

ClickOutside ==
  /\ location = ThisPage /\ showResults /\ showResults' = FALSE
  /\ UNCHANGED <<chats, opening, query, timeout, lookups, searchResults, isSearching,
                 wasFound, location, picked>>
-----------------------------------------------------------------------------
(* POST chats.                                                             *)

Request(from, to) == [from |-> from, to |-> to, seen |-> 0, chat |-> 0, at |-> "look"]

(* Mutation: any chat of the user is taken. *)
ExistingOfUser(from, to) == {c \in DOMAIN chats : from \in {chats[c].user1, chats[c].user2}}

(* Mutation: the look-up knows one order of the two users. *)
ExistingInOrder(from, to) == {c \in DOMAIN chats : chats[c].user1 = from /\ chats[c].user2 = to}

Existing(from, to) ==
  {c \in DOMAIN chats : {chats[c].user1, chats[c].user2} = {from, to}}

LookUpChat(n) ==
  /\ n \in DOMAIN opening /\ opening[n].at = "look"
  /\ LET r == opening[n] found == Existing(r.from, r.to) IN
     \/ opening' = [opening EXCEPT ![n].at = "rejected"]
     \/ /\ r.from # r.to /\ found = {}
        /\ opening' = [opening EXCEPT ![n].at = "insert", ![n].seen = Len(chats)]
     \/ /\ r.from # r.to
        /\ \E c \in found : opening' = [opening EXCEPT ![n].at = "resolved", ![n].chat = c]
  /\ UNCHANGED <<chats, searchBox, location, picked>>

InsertChat(n) ==
  /\ n \in DOMAIN opening /\ opening[n].at = "insert"
  /\ LET r == opening[n]
         done == \A c \in DOMAIN chats : <<chats[c].user1, chats[c].user2>> # <<r.from, r.to>> IN
     \/ /\ done
        /\ chats' = Append(chats, [user1 |-> r.from, user2 |-> r.to, seen |-> r.seen])
        /\ \E outcome \in Outcomes(TRUE) :
             opening' = [opening EXCEPT ![n].at = outcome, ![n].chat = Len(chats')]
     \/ opening' = [opening EXCEPT ![n].at = "rejected"] /\ UNCHANGED chats
  /\ UNCHANGED <<searchBox, location, picked>>

OtherOpensChat(user) ==
  /\ Asks < MaxAsks
  /\ opening' = Append(opening, Request(user, Me))
  /\ UNCHANGED <<chats, searchBox, location, picked>>

(* The results are drawn and no search hides them. *)
handleUserSelect(user) ==
  /\ location = ThisPage /\ showResults /\ ~isSearching /\ user \in searchResults
  /\ Asks < MaxAsks
  /\ showResults' = FALSE
  /\ opening' = Append(opening, Request(Me, user))
  /\ picked' = picked \cup {user}
  /\ UNCHANGED <<chats, query, timeout, lookups, searchResults, isSearching, wasFound, location>>

(* Mutation: only the error that is expected leads to the chats. *)
OpensOrAlerts(r) ==
  location' = IF r.at = "resolved" THEN r.chat ELSE IF r.to = Me THEN AllChats ELSE location

Opens(r) == location' = IF r.at = "resolved" THEN r.chat ELSE AllChats

ChatOpened(n) ==
  /\ location = ThisPage
  /\ n \in DOMAIN opening /\ opening[n].from = Me /\ opening[n].at \in {"resolved", "rejected"}
  /\ Opens(opening[n]) /\ opening' = [opening EXCEPT ![n].at = "over"]
  /\ UNCHANGED <<chats, searchBox, picked>>
-----------------------------------------------------------------------------
ChatSearchNext ==
  \/ \E text \in QueryTexts : handleInputChange(text)
  \/ handleInputAgain \/ searchUsers \/ FocusSearch \/ ClickOutside
  \/ \E n \in DOMAIN lookups : AnswerLookup(n) \/ LookupAnswered(n)
  \/ \E user \in Users : handleUserSelect(user)
  \/ \E user \in Others : OtherOpensChat(user)
  \/ \E n \in DOMAIN opening : LookUpChat(n) \/ InsertChat(n) \/ ChatOpened(n)

(* Calls are answered, and the page goes on with the answer. *)
ChatSearchProgress ==
  \/ \E n \in DOMAIN lookups : AnswerLookup(n) \/ LookupAnswered(n)
  \/ \E n \in DOMAIN opening : LookUpChat(n) \/ InsertChat(n) \/ ChatOpened(n)

ChatSearchSpec ==
  ChatSearchInit /\ [][ChatSearchNext]_chatSearchVars /\ WF_chatSearchVars(ChatSearchProgress)
-----------------------------------------------------------------------------
(* Properties.                                                             *)

(* Two users have a second chat only if its request looked before the      *)
(* first was inserted: POST chats keeps them apart in every other order,   *)
(* also when an answer was lost and the user is picked again.              *)
TwinsWereConcurrent ==
  \A i, j \in DOMAIN chats :
    i < j /\ {chats[i].user1, chats[i].user2} = {chats[j].user1, chats[j].user2}
      => chats[j].seen < i

(* The chat that the page goes to is one with a user that was picked.      *)
OpenedWasChosen ==
  location \in Nat =>
    \E user \in picked : {chats[location].user1, chats[location].user2} = {Me, user}

(* "Procurando..." ends, or the page does. *)
SearchingEnds == isSearching ~> ~isSearching \/ location # ThisPage

(* Who chooses a user is taken to a chat or back to the list, and told. *)
ChoiceLeaves == picked # {} ~> location # ThisPage
=============================================================================
