------------------------------- MODULE ChatList -------------------------------
(***************************************************************************)
(* The list of a user's chats, each with its last message.                 *)
(*                                                                         *)
(* The list is a store.  It is filled by the chats that the server drew    *)
(* the page with, by the answers to two calls (of the layout's script and  *)
(* of the component), whose order nothing fixes, and it follows the        *)
(* messages that come through the socket.  Chats and messages are numbered *)
(* by their rows, and what a query reads is told by how many of them there *)
(* were.  The user's own messages are left out; gateway as in ChatPage.    *)
(***************************************************************************)
EXTENDS Naturals, Sequences, SequencesExt, FiniteSetsExt, Calls

CONSTANTS MaxChats, MaxTexts   \* bounds: rows of chats and of messages

ASSUME ChatListAssumption == MaxChats \in Nat \ {0} /\ MaxTexts \in Nat

VARIABLES
  opened,       \* the number of chats
  log,          \* the chat of every message
  identified,   \* the gateway knows the page
  incoming,     \* messages on their way through the socket
  drawnWith,    \* what the page was drawn with
  store,        \* ChatsStore
  hydrated,     \* the component has run its effect
  calls,        \* getChats of the script and of the component
  \* history, read by no action
  told,         \* messages that came through the socket
  asOf,         \* the messages that the latest reading in the store could know
  backdated     \* an older reading replaced a later one

Readings == [chats : 0..MaxChats, messages : 0..MaxTexts]
listVars == <<opened, log, identified, incoming, drawnWith, store, hydrated, calls,
              told, asOf, backdated>>

Callers == {"layout", "component"}
Now == [chats |-> opened, messages |-> Len(log)]

ChatListTypeOK ==
  /\ opened \in 0..MaxChats
  /\ log \in Seq(1..opened) /\ Len(log) <= MaxTexts
  /\ identified \in BOOLEAN /\ hydrated \in BOOLEAN /\ backdated \in BOOLEAN
  /\ incoming \in Seq(1..MaxTexts)
  /\ drawnWith \in Readings /\ asOf \in 0..MaxTexts
  /\ store \in Seq([id : 1..MaxChats, last_message : 0..MaxTexts])
  /\ calls \in [Callers -> [at : {"waiting", "sent", "resolved", "rejected", "over"},
                            read : Readings]]
  /\ told \subseteq 1..MaxTexts

ChatListInit ==
  /\ opened \in 0..1 /\ log = <<>>
  /\ identified = FALSE /\ incoming = <<>>
  /\ drawnWith \in {Now, [chats |-> 0, messages |-> 0]}
  /\ store = <<>> /\ hydrated = FALSE
  /\ calls = [c \in Callers |-> [at |-> "waiting", read |-> drawnWith]]
  /\ told = {} /\ asOf = 0 /\ backdated = FALSE
-----------------------------------------------------------------------------
(* The query of GET chats, as it was answered then. *)
LastMessage(chat, read) == Max({0} \cup {m \in 1..read.messages : log[m] = chat})
Preview(read) ==
  [c \in 1..read.chats |-> [id |-> c, last_message |-> LastMessage(c, read)]]
-----------------------------------------------------------------------------
(* The other users and the gateway.                                        *)

OtherOpens ==
  /\ opened < MaxChats /\ opened' = opened + 1
  /\ UNCHANGED <<log, identified, incoming, drawnWith, store, hydrated, calls, told, asOf,
                 backdated>>

OtherWritesIn(chat) ==
  /\ Len(log) < MaxTexts /\ chat \in 1..opened
  /\ log' = Append(log, chat)
  /\ incoming' = IF identified THEN Append(incoming, Len(log')) ELSE incoming
  /\ UNCHANGED <<opened, identified, drawnWith, store, hydrated, calls, told, asOf, backdated>>

IdentifyPage ==
  /\ ~identified /\ identified' = TRUE
  /\ UNCHANGED <<opened, log, incoming, drawnWith, store, hydrated, calls, told, asOf,
                 backdated>>
-----------------------------------------------------------------------------
(* The store.                                                              *)

updateChats(read) ==
  /\ store' = Preview(read)
  /\ backdated' = (backdated \/ read.messages < asOf)
  /\ asOf' = Max({asOf, read.messages})

(* Mutation: the preview of the first chat changes, whichever it was. *)
PreviewsFirst(chat, message) ==
  [i \in DOMAIN store |->
     IF i = 1 THEN [store[i] EXCEPT !.last_message = message] ELSE store[i]]

(* A chat that is not in the list is not put into it. *)
Previews(chat, message) ==
  [i \in DOMAIN store |->
     IF store[i].id = chat THEN [store[i] EXCEPT !.last_message = message] ELSE store[i]]

addMessageToList ==
  /\ incoming # <<>> /\ incoming' = Tail(incoming)
  /\ LET message == Head(incoming) IN
     /\ store' = Previews(log[message], message)
     /\ told' = told \cup {message}
     /\ asOf' = Max({asOf, message})
  /\ UNCHANGED <<opened, log, identified, drawnWith, hydrated, calls, backdated>>
-----------------------------------------------------------------------------
(* The two calls.                                                          *)

(* The script awaits the notifications first. *)
initializeStores ==
  /\ calls["layout"].at = "waiting"
  /\ calls' \in {[calls EXCEPT !["layout"].at = "sent"], [calls EXCEPT !["layout"].at = "over"]}
  /\ UNCHANGED <<opened, log, identified, incoming, drawnWith, store, hydrated, told, asOf,
                 backdated>>

(* The effect of ChatsContainer. *)
Hydrate ==
  /\ ~hydrated /\ hydrated' = TRUE
  /\ IF store = <<>> /\ drawnWith.chats > 0 THEN updateChats(drawnWith)
                                            ELSE UNCHANGED <<store, asOf, backdated>>
  /\ calls' = [calls EXCEPT !["component"].at = "sent"]
  /\ UNCHANGED <<opened, log, identified, incoming, drawnWith, told>>

AnswerChats(c) ==
  /\ calls[c].at = "sent"
  /\ \E outcome \in Outcomes(TRUE) : calls' = [calls EXCEPT ![c] = [at |-> outcome, read |-> Now]]
  /\ UNCHANGED <<opened, log, identified, incoming, drawnWith, store, hydrated, told, asOf,
                 backdated>>

(* A rejection is logged. *)
ChatsAnswered(c) ==
  /\ calls[c].at \in {"resolved", "rejected"}
  /\ IF calls[c].at = "resolved" THEN updateChats(calls[c].read)
                                 ELSE UNCHANGED <<store, asOf, backdated>>
  /\ calls' = [calls EXCEPT ![c] = [at |-> "over", read |-> drawnWith]]
  /\ UNCHANGED <<opened, log, identified, incoming, drawnWith, hydrated, told>>

ChatListNext ==
  \/ OtherOpens \/ IdentifyPage \/ addMessageToList \/ initializeStores \/ Hydrate
  \/ \E chat \in 1..MaxChats : OtherWritesIn(chat)
  \/ \E c \in Callers : AnswerChats(c) \/ ChatsAnswered(c)

ChatListSpec == ChatListInit /\ [][ChatListNext]_listVars
-----------------------------------------------------------------------------
(* Properties.                                                             *)

(* A chat in the list never shows a message older than one that came       *)
(* through the socket, unless a reading from before it was put into the    *)
(* store after it; with two calls and a socket that can happen, and        *)
(* nothing reads the list again.                                           *)
PreviewIsFresh ==
  ~backdated =>
    \A i \in DOMAIN store : \A m \in told :
      log[m] = store[i].id => store[i].last_message >= m
=============================================================================
