------------------------------- MODULE MCPages --------------------------------
(***************************************************************************)
(* The forms, the search, the shelf and the chats for TLC.                 *)
(*                                                                         *)
(* As in MCShop a behaviour is that of one page, and the pages are checked *)
(* together, each from its own initial states.                             *)
(***************************************************************************)
EXTENDS ScheduleForm, ProductForm, SettingsForm, SearchPage, ChatPage,
        ShelfPage, ChatList, ChatSearch, TLC

CONSTANTS
  Pages,          \* the pages that are checked
  p1, p2, street, \* two places, and a text that finds both
  i1              \* a photo

ASSUME PagesAssumption ==
  Pages \subseteq {"schedule", "listing", "settings", "search", "chat", "shelf", "chats", "chat_search"}

VARIABLE page

MCFound(text) == IF text \in Places THEN {text} ELSE Places
MCProductOf == [l \in Listings |-> IF l = 1 THEN 2 ELSE 1]

formVars == <<scheduleVars, productFormVars, settingsVars>>
readVars == <<searchVars, chatVars, shelfVars>>
chatsVars == <<listVars, chatSearchVars>>
pagesVars == <<page, formVars, readVars, chatsVars>>

(* The pages that are not open have one initial state. *)
PagesInit ==
  /\ page \in Pages
  /\ ScheduleInit /\ ProductFormInit /\ SettingsInit /\ SearchInit /\ ChatInit
  /\ ShelfInit /\ ChatListInit /\ ChatSearchInit
  /\ page # "schedule" => ~editing
  /\ page # "listing" =>
       ~editMode /\ \A l \in Listings :
         ToSet(listings[l].photos) \subseteq {i1} /\ listings[l].price = CHOOSE p \in Prices : TRUE
  /\ page # "chat" => pushes = <<>>
  /\ page # "shelf" => SLIDE_SIZE = CHOOSE size \in SlideSizes : TRUE
  /\ page # "chats" => opened = 0 /\ drawnWith = Now

(* A step of one page. *)
OnSchedule ==
  page = "schedule" /\ UNCHANGED <<page, productFormVars, settingsVars, readVars, chatsVars>>
OnListing ==
  page = "listing" /\ UNCHANGED <<page, scheduleVars, settingsVars, readVars, chatsVars>>
OnSettings ==
  page = "settings" /\ UNCHANGED <<page, scheduleVars, productFormVars, readVars, chatsVars>>
OnSearch == page = "search" /\ UNCHANGED <<page, formVars, chatVars, shelfVars, chatsVars>>
OnChat == page = "chat" /\ UNCHANGED <<page, formVars, searchVars, shelfVars, chatsVars>>
OnShelf == page = "shelf" /\ UNCHANGED <<page, formVars, searchVars, chatVars, chatsVars>>
OnChats == page = "chats" /\ UNCHANGED <<page, formVars, readVars, chatSearchVars>>
OnChatSearch == page = "chat_search" /\ UNCHANGED <<page, formVars, readVars, listVars>>

PagesNext ==
  \/ OnSchedule /\ ScheduleNext
  \/ OnListing /\ ProductFormNext
  \/ OnSettings /\ SettingsNext
  \/ OnSearch /\ SearchNext
  \/ OnChat /\ ChatNext
  \/ OnShelf /\ ShelfNext
  \/ OnChats /\ ChatListNext
  \/ OnChatSearch /\ ChatSearchNext

PagesSpec ==
  /\ PagesInit /\ [][PagesNext]_pagesVars
  /\ WF_pagesVars(OnSchedule /\ ScheduleProgress)
  /\ WF_pagesVars(OnChatSearch /\ ChatSearchProgress)

PagesTypeOK ==
  CASE page = "schedule" -> ScheduleTypeOK
    [] page = "listing" -> ProductFormTypeOK
    [] page = "settings" -> SettingsTypeOK
    [] page = "search" -> SearchTypeOK
    [] page = "chat" -> ChatTypeOK
    [] page = "shelf" -> ShelfTypeOK
    [] page = "chats" -> ChatListTypeOK
    [] page = "chat_search" -> ChatSearchTypeOK
=============================================================================
