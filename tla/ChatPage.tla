------------------------------- MODULE ChatPage -------------------------------
(***************************************************************************)
(* The page of a conversation.                                             *)
(*                                                                         *)
(* The server draws it with the last messages.  Its script connects to the *)
(* gateway, which sends the messages of the other user only, and collects  *)
(* them in a store; the component starts with what was drawn, puts it into *)
(* an empty store, and draws the store anew whenever it changes.  What the *)
(* user sends is drawn when the call was answered and not put into the     *)
(* store.  A message is the number of its row.  The gateway is modules     *)
(* Gateway and Delivery; here it keeps the order and loses what it has     *)
(* for a page that has not connected.                                      *)
(***************************************************************************)
EXTENDS Naturals, Sequences, SequencesExt, Calls

CONSTANTS
  MaxMessages    \* bound: rows

ASSUME ChatAssumption == MaxMessages \in Nat \ {0}

VARIABLES
  authors,        \* the rows' authors: "me" or "other"
  pushes,         \* rows that the gateway has to send
  connected,      \* the gateway knows the page
  arriving,       \* rows on their way through the socket
  pre_rendered,
  mounted,        \* the component is hydrated
  importing,      \* it loads the store's module to fill it
  chatMessages,   \* the store
  undrawn,        \* it changed since it was drawn
  messages,       \* what is drawn
  sends           \* calls of createMessage

chatVars == <<authors, pushes, connected, arriving, pre_rendered, mounted, importing,
              chatMessages, undrawn, messages, sends>>

Rows == 1..MaxMessages
SendCall == [at : {"sent", "resolved", "rejected"}, row : 0..MaxMessages, seen : Seq(Rows)]

ChatTypeOK ==
  /\ authors \in Seq({"me", "other"}) /\ Len(authors) <= MaxMessages
  /\ pushes \in Seq(Rows) /\ arriving \in Seq(Rows)
  /\ connected \in BOOLEAN /\ mounted \in BOOLEAN
  /\ importing \in BOOLEAN /\ undrawn \in BOOLEAN
  /\ pre_rendered \in Seq(Rows) /\ chatMessages \in Seq(Rows) /\ messages \in Seq(Rows)
  /\ sends \in Seq(SendCall)

(* The page is drawn; a row may be older than its push. *)
ChatInit ==
  /\ authors = <<"other">>
  /\ pushes \in {<<>>, <<1>>}
  /\ pre_rendered = <<1>>
  /\ connected = FALSE /\ arriving = <<>>
  /\ mounted = FALSE /\ importing = FALSE
  /\ chatMessages = <<>> /\ undrawn = FALSE /\ messages = <<1>>
  /\ sends = <<>>
-----------------------------------------------------------------------------
(* The other user and the gateway.                                         *)

OtherWrites ==
  /\ Len(authors) < MaxMessages
  /\ authors' = Append(authors, "other") /\ pushes' = Append(pushes, Len(authors'))
  /\ UNCHANGED <<connected, arriving, pre_rendered, mounted, importing, chatMessages, undrawn,
                 messages, sends>>

(* The socket opens and the page is identified. *)
Identify ==
  /\ ~connected /\ connected' = TRUE
  /\ UNCHANGED <<authors, pushes, arriving, pre_rendered, mounted, importing, chatMessages,
                 undrawn, messages, sends>>

Push ==
  /\ pushes # <<>> /\ pushes' = Tail(pushes)
  /\ arriving' = IF connected THEN Append(arriving, Head(pushes)) ELSE arriving
  /\ UNCHANGED <<authors, connected, pre_rendered, mounted, importing, chatMessages, undrawn,
                 messages, sends>>

addMessage ==
  /\ arriving # <<>> /\ arriving' = Tail(arriving)
  /\ chatMessages' = Append(chatMessages, Head(arriving)) /\ undrawn' = mounted
  /\ UNCHANGED <<authors, pushes, connected, pre_rendered, mounted, importing, messages, sends>>
-----------------------------------------------------------------------------
(* The component.                                                          *)

(* The first effect looks whether the store is empty, and fills it when    *)
(* the module is there; the second draws the store.                        *)
Mount ==
  /\ ~mounted /\ mounted' = TRUE
  /\ importing' = (chatMessages = <<>>)
  /\ messages' = chatMessages
  /\ UNCHANGED <<authors, pushes, connected, arriving, pre_rendered, chatMessages, undrawn,
                 sends>>

(* Whatever came into it meanwhile. *)
setMessages ==
  /\ importing /\ importing' = FALSE
  /\ chatMessages' = pre_rendered /\ undrawn' = TRUE
  /\ UNCHANGED <<authors, pushes, connected, arriving, pre_rendered, mounted, messages, sends>>

DrawStore ==
  /\ mounted /\ undrawn /\ undrawn' = FALSE
  /\ messages' = chatMessages
  /\ UNCHANGED <<authors, pushes, connected, arriving, pre_rendered, mounted, importing,
                 chatMessages, sends>>
-----------------------------------------------------------------------------
(* Nothing keeps the same text from being sent twice. *)
createMessage ==
  /\ mounted /\ Len(sends) < MaxMessages
  /\ sends' = Append(sends, [at |-> "sent", row |-> 0, seen |-> messages])
  /\ UNCHANGED <<authors, pushes, connected, arriving, pre_rendered, mounted, importing,
                 chatMessages, undrawn, messages>>

AnswerMessage(n) ==
  /\ n \in DOMAIN sends /\ sends[n].at = "sent"
  /\ \E done \in {Len(authors) < MaxMessages, FALSE} : \E outcome \in Outcomes(done) :
       /\ authors' = IF done THEN Append(authors, "me") ELSE authors
       /\ sends' = [sends EXCEPT ![n].at = outcome, ![n].row = IF done THEN Len(authors') ELSE 0]
  /\ UNCHANGED <<pushes, connected, arriving, pre_rendered, mounted, importing, chatMessages,
                 undrawn, messages>>

(* Mutation: the message is added to what was drawn when it was sent. *)
MessageAnsweredStale(n) ==
  /\ n \in DOMAIN sends /\ sends[n].at # "sent"
  /\ messages' = IF sends[n].at = "resolved" THEN Append(sends[n].seen, sends[n].row)
                                             ELSE messages
  /\ sends' = RemoveAt(sends, n)
  /\ UNCHANGED <<authors, pushes, connected, arriving, pre_rendered, mounted, importing,
                 chatMessages, undrawn>>

(* A rejection is not caught. *)
MessageAnswered(n) ==
  /\ n \in DOMAIN sends /\ sends[n].at # "sent"
  /\ messages' = IF sends[n].at = "resolved" THEN Append(messages, sends[n].row) ELSE messages
  /\ sends' = RemoveAt(sends, n)
  /\ UNCHANGED <<authors, pushes, connected, arriving, pre_rendered, mounted, importing,
                 chatMessages, undrawn>>
-----------------------------------------------------------------------------
ChatNext ==
  \/ OtherWrites \/ Identify \/ Push \/ addMessage
  \/ Mount \/ setMessages \/ DrawStore
  \/ createMessage
  \/ \E n \in Rows : AnswerMessage(n) \/ MessageAnswered(n)

ChatSpec == ChatInit /\ [][ChatNext]_chatVars
-----------------------------------------------------------------------------
(* Properties.                                                             *)

(* What is drawn, or is to be drawn: the store when it changed, and what   *)
(* the server drew when the import is over, for which the page goes blank. *)
Held ==
  ToSet(IF undrawn THEN chatMessages ELSE messages)
    \cup (IF importing THEN ToSet(pre_rendered) ELSE {})

(* The losses.  A component that finds messages in the store draws these   *)
(* in the place of what the server drew; and what came into the store      *)
(* while the import was awaited is overwritten.                            *)
ReplacedByStore(row) ==
  ~mounted /\ mounted' /\ chatMessages # <<>> /\ row \in ToSet(pre_rendered)
CameInVain(row) == importing /\ ~importing' /\ row \notin ToSet(pre_rendered)

(* A message of the other user that the page has drawn, or is about to     *)
(* draw, is lost by no step but these two, whatever is sent, received,     *)
(* answered and drawn anew, in any order: no other step draws the page     *)
(* from something older, and after the import nothing is lost.             *)
DrawnStays ==
  [][\A row \in Held :
       authors[row] = "other" => row \in Held' \/ ReplacedByStore(row) \/ CameInVain(row)]_chatVars
=============================================================================
