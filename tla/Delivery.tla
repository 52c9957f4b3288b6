------------------------------ MODULE Delivery ------------------------------
(***************************************************************************)
(* What the real-time gateway promises about an event, whatever queues and *)
(* tasks carry it: it is written to at most one connection, only to one    *)
(* that has shown a session of the event's addressee, and every connection *)
(* receives its events in the order the database committed them.  Nothing  *)
(* promises that an event arrives.                                         *)
(***************************************************************************)
EXTENDS Naturals, Sequences

CONSTANTS Conn,   \* the connections
          Users   \* the accounts

VARIABLES published,  \* the addressee of every event, in commit order
          shown,      \* shown[c]: the users whose session c has presented
          inbox       \* inbox[c]: the events written to c, as indices of published

vars == <<published, shown, inbox>>

Init ==
  /\ published = <<>>
  /\ shown = [c \in Conn |-> {}]
  /\ inbox = [c \in Conn |-> <<>>]

(* A transaction commits one or more events. *)
Publish ==
  /\ Len(published') >= Len(published)
  /\ \A i \in 1..Len(published) : published'[i] = published[i]
  /\ \A i \in 1..Len(published') : published'[i] \in Users
  /\ UNCHANGED <<shown, inbox>>

Show(c, u) ==
  /\ shown' = [shown EXCEPT ![c] = @ \cup {u}]
  /\ UNCHANGED <<published, inbox>>

Deliver(c, e) ==
  /\ published[e] \in shown[c]
  /\ \A d \in Conn : \A i \in 1..Len(inbox[d]) : inbox[d][i] # e
  /\ \A i \in 1..Len(inbox[c]) : inbox[c][i] < e
  /\ inbox' = [inbox EXCEPT ![c] = Append(@, e)]
  /\ UNCHANGED <<published, shown>>

Next ==
  \/ Publish
  \/ \E c \in Conn, u \in Users : Show(c, u)
  \/ \E c \in Conn, e \in 1..Len(published) : Deliver(c, e)

Spec == Init /\ [][Next]_vars
=============================================================================
