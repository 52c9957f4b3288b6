------------------------------- MODULE Gateway -------------------------------
(***************************************************************************)
(* The websocket gateway: the main loop that owns the list of connections  *)
(* and handles one command at a time, one task per connection, the task    *)
(* that listens to the database's notifications, and the three kinds of    *)
(* unbounded FIFO channels between them.                                   *)
(*                                                                         *)
(* The Vec `connections` only grows at its end and keeps its order on      *)
(* removal, so it is represented by the set of the registered connections, *)
(* numbered in the order they were accepted: the first match of            *)
(* `iter().find` is the match with the smallest number.                    *)
(***************************************************************************)
EXTENDS Naturals, Sequences, FiniteSets

CONSTANTS
  MaxConns,       \* bound: TCP connections accepted with a good handshake
  MaxIdentifies,  \* bound: Identify frames the clients send
  MaxEvents,      \* bound: database notifications
  Flaky,          \* bound: connections whose peer may vanish, fall silent or stop reading
  Kinds,          \* bound: the shapes of notification the database sends
  Leaving,        \* bound: the users who may delete their account
  Addrs, AddrOf,  \* the peer address of every connection; a port may be reused
  Users, Chats,
  Members,        \* Members[k] = <<user1, user2>> of the chat row k
  Sessions,       \* session ids that clients present
  SessionUser,    \* what the session table holds for a session id
  NoUser,         \* no such row, or one that does not decode
  NoLogin,        \* a row of a visitor who has not signed in
  NoChat, NoSession

Conn  == 1..MaxConns
Event == 1..MaxEvents

ASSUME GatewayAssumption ==
  /\ MaxConns \in Nat /\ MaxIdentifies \in Nat /\ MaxEvents \in Nat
  /\ Flaky \subseteq Conn /\ Leaving \subseteq Users
  /\ AddrOf \in [Conn -> Addrs]
  /\ Members \in [Chats -> Users \X Users]
  /\ SessionUser \in [Sessions -> Users \cup {NoUser, NoLogin}]
  /\ NoUser \notin Users /\ NoLogin \notin Users /\ NoUser # NoLogin
  /\ NoChat \notin Chats /\ NoSession \notin Sessions

VARIABLES
  main,        \* the main loop: "idle", "handshaking", "down"
  accepted,    \* number of connections pushed so far
  registered,  \* the entries of `connections`
  user,        \* user_id of each entry
  task,        \* the connection's task: "new", "open", "blocked" in a write, "ended"
  gone,        \* the peer has vanished without a close frame
  late,        \* more than 45 s have passed since the last Pong
  frame,       \* each connection's frame channel
  cmds,        \* the command channel
  pg,          \* notifications on their way to the listener
  listening,   \* the listener task is alive
  accounts,    \* user rows
  chats,       \* chat rows
  rows,        \* message rows, each named by the event that announced it
  log,         \* every event committed so far
  \* history, read by no action
  identifies,  \* Identify frames sent
  shown,       \* shown[c]: users whose session c has presented
  route,       \* route[e]: the connection e was queued to, 0 for none
  discarded,   \* events that events::postgres turned into no command
  delivered    \* delivered[c]: events written to c

gateway == <<main, accepted, registered, user, task, gone, late, frame, cmds>>
database == <<accounts, chats, rows, log>>
history == <<identifies, shown, route, discarded, delivered>>
vars == <<gateway, pg, listening, database, history>>
-----------------------------------------------------------------------------
(* Events and how events::postgres sees them. *)

Shapes == {"notification", "notification_object", "created", "updated", "deleted"}
EventRecord == [shape : Shapes, chat : Chats \cup {NoChat}, user : Users]

(* The channel a trigger notifies on. *)
Channel(shape) ==
  CASE shape \in {"notification", "notification_object"} -> "notification_insert"
    [] shape = "created" -> "message_insert"
    [] shape = "updated" -> "message_update"
    [] shape = "deleted" -> "message_delete"

(* The first variant of the untagged enum that the payload fits: an update *)
(* has every field of MessageDeleted, which is tried before MessageUpdated, *)
(* and a notification only fits when its JSON content is a string.          *)
Variant(shape) ==
  CASE shape = "notification" -> "NotificationCreated"
    [] shape = "created" -> "MessageCreated"
    [] shape \in {"updated", "deleted"} -> "MessageDeleted"
    [] shape = "notification_object" -> "none"

(* The arms of the match. *)
Arms == {<<"notification_insert", "NotificationCreated">>,
         <<"message_insert", "MessageCreated">>,
         <<"message_update", "MessageUpdated">>,
         <<"message_deleted", "MessageDeleted">>}

Forwarded(shape) == <<Channel(shape), Variant(shape)>> \in Arms

Opposite(chat, author) ==
  IF author = Members[chat][1] THEN Members[chat][2] ELSE Members[chat][1]

IsNotification(e) == log[e].shape \in {"notification", "notification_object"}

Addressee(e) ==
  IF IsNotification(e) THEN log[e].user ELSE Opposite(log[e].chat, log[e].user)

(* Mutation: a message announced with an opcode nobody knows. *)
OpcodeUnknown(variant) == IF variant = "NotificationCreated" THEN 11 ELSE 15

Opcode(variant) ==
  CASE variant = "NotificationCreated" -> 11
    [] variant = "MessageCreated" -> 12
    [] variant = "MessageDeleted" -> 13
    [] variant = "MessageUpdated" -> 14
-----------------------------------------------------------------------------
(* Channels. *)

Frame == [opcode : {8, 9, 11, 12, 13, 14}, event : 0..MaxEvents]
CloseFrame == [opcode |-> 8, event |-> 0]
PingFrame == [opcode |-> 9, event |-> 0]

(* A command carries the sender's address; `conn` names the sender so that *)
(* properties can speak of it, and the handlers only use AddrOf[conn].     *)
Command == [type : {"disconnect", "identify", "event"}, conn : 0..MaxConns,
            session : Sessions \cup {NoSession}, event : 0..MaxEvents]
Disconnect(c) ==
  [type |-> "disconnect", conn |-> c, session |-> NoSession, event |-> 0]
Identify(c, s) ==
  [type |-> "identify", conn |-> c, session |-> s, event |-> 0]
EventCommand(e) ==
  [type |-> "event", conn |-> 0, session |-> NoSession, event |-> e]

(* Mutation: a channel that refuses frames while the task is writing. *)
EnqueueUnlessBusy(c, f) ==
  frame' = [frame EXCEPT ![c] = IF task[c] # "open" THEN @ ELSE Append(@, f)]

(* send_message on a frame channel: lost once the task has dropped `rx`. *)
Enqueue(c, f) ==
  frame' = [frame EXCEPT ![c] = IF task[c] = "ended" THEN @ ELSE Append(@, f)]

(* Mutation: entries matched without their user. *)
OfAnyone(u) == {c \in registered : user[c] # NoUser}

At(a) == {c \in registered : AddrOf[c] = a}
Of(u) == {c \in registered : user[c] = u}

(* Mutation: the newest match instead of the oldest. *)
IsNewest(c, S) == c \in S /\ \A d \in S : d <= c

IsFirst(c, S) == c \in S /\ \A d \in S : c <= d
-----------------------------------------------------------------------------
Init ==
  /\ main = "idle" /\ accepted = 0 /\ registered = {}
  /\ user = [c \in Conn |-> NoUser]
  /\ task = [c \in Conn |-> "new"]
  /\ gone = [c \in Conn |-> FALSE]
  /\ late = [c \in Conn |-> FALSE]
  /\ frame = [c \in Conn |-> <<>>]
  /\ cmds = <<>> /\ pg = <<>> /\ listening = TRUE
  /\ accounts = Users /\ chats = Chats /\ rows = {} /\ log = <<>>
  /\ identifies = 0
  /\ shown = [c \in Conn |-> {}]
  /\ route = [e \in Event |-> 0]
  /\ discarded = {}
  /\ delivered = [c \in Conn |-> <<>>]
-----------------------------------------------------------------------------
(* The main loop: accepting.  The handshake is awaited in the loop itself, *)
(* so no command is handled until it has succeeded or failed.              *)

Live(c) == task[c] \in {"open", "blocked"}

Accept ==
  /\ main = "idle"
  /\ main' = "handshaking"
  /\ UNCHANGED <<accepted, registered, user, task, gone, late, frame, cmds>>
  /\ UNCHANGED <<pg, listening, database, history>>

(* TCP has no two sockets with the same peer: an address comes back once   *)
(* the peer that had it has gone or its task has ended.  A peer that resets *)
(* its connection frees the address at once, while the task and its entry  *)
(* stay until the heartbeat gives up.                                      *)
HandshakeOk ==
  /\ main = "handshaking"
  /\ accepted < MaxConns
  /\ \A d \in Conn : Live(d) /\ ~gone[d] => AddrOf[d] # AddrOf[accepted + 1]
  /\ main' = "idle"
  /\ accepted' = accepted + 1
  /\ registered' = registered \cup {accepted + 1}
  /\ task' = [task EXCEPT ![accepted + 1] = "open"]
  /\ UNCHANGED <<user, gone, late, frame, cmds, pg, listening, database, history>>

HandshakeFail ==
  /\ main = "handshaking"
  /\ main' = "idle"
  /\ UNCHANGED <<accepted, registered, user, task, gone, late, frame, cmds>>
  /\ UNCHANGED <<pg, listening, database, history>>
-----------------------------------------------------------------------------
(* A connection's task: what the client sends. *)

(* The task sends Command::Disconnect, leaves its loop and drops `rx`. *)
EndTask(c) ==
  /\ cmds' = Append(cmds, Disconnect(c))
  /\ task' = [task EXCEPT ![c] = "ended"]
  /\ frame' = [frame EXCEPT ![c] = <<>>]
  /\ late' = [late EXCEPT ![c] = FALSE]
  /\ UNCHANGED <<main, accepted, registered, user, gone>>

RecvIdentify(c, s) ==
  /\ task[c] = "open" /\ ~gone[c]
  /\ identifies < MaxIdentifies
  /\ identifies' = identifies + 1
  /\ cmds' = Append(cmds, Identify(c, s))
  /\ shown' = [shown EXCEPT ![c] = @ \cup ({SessionUser[s]} \cap Users)]
  /\ UNCHANGED <<main, accepted, registered, user, task, gone, late, frame>>
  /\ UNCHANGED <<pg, listening, database, route, discarded, delivered>>

RecvPong(c) ==
  /\ task[c] = "open" /\ ~gone[c]
  /\ late[c]
  /\ late' = [late EXCEPT ![c] = FALSE]
  /\ UNCHANGED <<main, accepted, registered, user, task, gone, frame, cmds>>
  /\ UNCHANGED <<pg, listening, database, history>>

RecvClose(c) ==
  /\ task[c] = "open" /\ ~gone[c]
  /\ EndTask(c)
  /\ UNCHANGED <<pg, listening, database, history>>

(* The peer disappears without a close frame: recv() returns Err, which    *)
(* only disables that branch of the select.                                *)
Vanish(c) ==
  /\ c \in Flaky /\ Live(c) /\ ~gone[c]
  /\ gone' = [gone EXCEPT ![c] = TRUE]
  /\ UNCHANGED <<main, accepted, registered, user, task, late, frame, cmds>>
  /\ UNCHANGED <<pg, listening, database, history>>
-----------------------------------------------------------------------------
(* A connection's task: the frame channel and the timer. *)

Written(c, f) ==
  delivered' = IF f.event # 0 /\ ~gone[c]
               THEN [delivered EXCEPT ![c] = Append(@, f.event)]
               ELSE delivered

(* Mutation: the last frame waits until another one is queued behind it. *)
SendFrameLagging(c) ==
  /\ task[c] = "open" /\ Len(frame[c]) > 1
  /\ frame' = [frame EXCEPT ![c] = Tail(@)]
  /\ Written(c, Head(frame[c]))
  /\ UNCHANGED <<main, accepted, registered, user, task, gone, late, cmds>>
  /\ UNCHANGED <<pg, listening, database, identifies, shown, route, discarded>>

SendFrame(c) ==
  /\ task[c] = "open" /\ frame[c] # <<>>
  /\ \/ /\ Head(frame[c]).opcode = 8
        /\ EndTask(c)
        /\ UNCHANGED delivered
     \/ /\ Head(frame[c]).opcode # 8
        /\ frame' = [frame EXCEPT ![c] = Tail(@)]
        /\ Written(c, Head(frame[c]))
        /\ UNCHANGED <<main, accepted, registered, user, task, gone, late, cmds>>
  /\ UNCHANGED <<pg, listening, database, identifies, shown, route, discarded>>

(* The write of the frame at the head waits for a peer that does not read; *)
(* the task evaluates no other branch meanwhile, the timer's included.     *)
BlockWrite(c) ==
  /\ c \in Flaky /\ task[c] = "open" /\ frame[c] # <<>>
  /\ Head(frame[c]).opcode # 8
  /\ task' = [task EXCEPT ![c] = "blocked"]
  /\ UNCHANGED <<main, accepted, registered, user, gone, late, frame, cmds>>
  /\ UNCHANGED <<pg, listening, database, history>>

UnblockWrite(c) ==
  /\ task[c] = "blocked"
  /\ task' = [task EXCEPT ![c] = "open"]
  /\ frame' = [frame EXCEPT ![c] = Tail(@)]
  /\ Written(c, Head(frame[c]))
  /\ UNCHANGED <<main, accepted, registered, user, gone, late, cmds>>
  /\ UNCHANGED <<pg, listening, database, identifies, shown, route, discarded>>

Expire(c) ==
  /\ c \in Flaky /\ Live(c) /\ ~late[c]
  /\ late' = [late EXCEPT ![c] = TRUE]
  /\ UNCHANGED <<main, accepted, registered, user, task, gone, frame, cmds>>
  /\ UNCHANGED <<pg, listening, database, history>>

(* Mutation: a heartbeat that pings and never gives up. *)
TickForever(c) ==
  /\ task[c] = "open" /\ c \in Flaky /\ frame[c] = <<>>
  /\ Enqueue(c, PingFrame)
  /\ UNCHANGED <<main, accepted, registered, user, task, gone, late, cmds>>
  /\ UNCHANGED <<pg, listening, database, history>>

(* interval.tick(): heartbeat().  Bound: a ping is queued only for a flaky *)
(* peer and on an empty channel; writing one changes nothing else.         *)
Tick(c) ==
  /\ task[c] = "open"
  /\ \/ /\ late[c]
        /\ EndTask(c)
     \/ /\ ~late[c]
        /\ c \in Flaky /\ frame[c] = <<>>
        /\ Enqueue(c, PingFrame)
        /\ UNCHANGED <<main, accepted, registered, user, task, gone, late, cmds>>
  /\ UNCHANGED <<pg, listening, database, history>>
-----------------------------------------------------------------------------
(* The main loop: commands::handle. *)

(* A panic in the main loop ends the process: every socket is closed and   *)
(* every channel is gone, the listener's subscription included.            *)
Panic ==
  /\ main' = "down"
  /\ registered' = {}
  /\ user' = [c \in Conn |-> NoUser]
  /\ task' = [c \in Conn |-> IF c <= accepted THEN "ended" ELSE "new"]
  /\ late' = [c \in Conn |-> FALSE]
  /\ frame' = [c \in Conn |-> <<>>]
  /\ cmds' = <<>> /\ pg' = <<>> /\ listening' = FALSE
  /\ UNCHANGED <<accepted, gone, database, history>>

Next1stCommand(type) == main = "idle" /\ cmds # <<>> /\ Head(cmds).type = type

(* users::disconnect removes the first entry with the command's address. *)
HandleDisconnect ==
  /\ Next1stCommand("disconnect")
  /\ cmds' = Tail(cmds)
  /\ LET entries == At(AddrOf[Head(cmds).conn]) IN
       IF entries = {}
       THEN UNCHANGED <<registered, user>>
       ELSE \E c \in entries :
              /\ IsFirst(c, entries)
              /\ registered' = registered \ {c}
              /\ user' = [user EXCEPT ![c] = NoUser]
  /\ UNCHANGED <<main, accepted, task, gone, late, frame>>
  /\ UNCHANGED <<pg, listening, database, history>>

(* users::identify: the first session already bound to the user is told to *)
(* close, then the entry found by address is bound.                        *)
Bind(c, u) ==
  /\ user' = [user EXCEPT ![c] = u]
  /\ IF Of(u) = {}
     THEN UNCHANGED frame
     ELSE \E d \in Of(u) : IsFirst(d, Of(u)) /\ Enqueue(d, CloseFrame)
  /\ cmds' = Tail(cmds)
  /\ UNCHANGED <<main, accepted, registered, task, gone, late, pg, listening>>
  /\ UNCHANGED <<database, history>>

HandleIdentify ==
  /\ Next1stCommand("identify")
  /\ LET entries == At(AddrOf[Head(cmds).conn])
         u == SessionUser[Head(cmds).session] IN
       \/ /\ entries = {} \/ u = NoUser
          /\ cmds' = Tail(cmds)
          /\ UNCHANGED <<main, accepted, registered, user, task, gone, late, frame>>
          /\ UNCHANGED <<pg, listening, database, history>>
       \/ /\ entries # {} /\ u = NoLogin
          /\ Panic
       \/ /\ u \in Users
          /\ \E c \in entries : IsFirst(c, entries) /\ Bind(c, u)

(* messages::created, updated and deleted, and notifications::created: the *)
(* addressee of a message is read from the chat row, which must exist.     *)
Deliverable(e) == IsNotification(e) \/ log[e].chat \in chats

Route(e) ==
  /\ cmds' = Tail(cmds)
  /\ IF Of(Addressee(e)) = {}
     THEN UNCHANGED <<frame, route>>
     ELSE \E c \in Of(Addressee(e)) :
            /\ IsFirst(c, Of(Addressee(e)))
            /\ Enqueue(c, [opcode |-> Opcode(Variant(log[e].shape)), event |-> e])
            /\ route' = [route EXCEPT ![e] = c]
  /\ UNCHANGED <<main, accepted, registered, user, task, gone, late, pg, listening>>
  /\ UNCHANGED <<database, identifies, shown, discarded, delivered>>

HandleEvent ==
  /\ Next1stCommand("event")
  /\ LET e == Head(cmds).event IN
       \/ Deliverable(e) /\ Route(e)
       \/ ~Deliverable(e) /\ Panic

HandleCommand == HandleDisconnect \/ HandleIdentify \/ HandleEvent

(* The container restarts the process (restart: unless-stopped). *)
Restart ==
  /\ main = "down"
  /\ main' = "idle" /\ listening' = TRUE
  /\ UNCHANGED <<accepted, registered, user, task, gone, late, frame, cmds>>
  /\ UNCHANGED <<pg, database, history>>
-----------------------------------------------------------------------------
(* The listener task: events::postgres. *)

Notify ==
  /\ pg # <<>>
  /\ pg' = Tail(pg)
  /\ LET e == Head(pg) IN
       IF Forwarded(log[e].shape)
       THEN /\ cmds' = Append(cmds, EventCommand(e))
            /\ UNCHANGED discarded
       ELSE /\ discarded' = discarded \cup {e}
            /\ UNCHANGED cmds
  /\ UNCHANGED <<main, accepted, registered, user, task, gone, late, frame>>
  /\ UNCHANGED <<listening, database, identifies, shown, route, delivered>>

(* The listener's connection breaks: PgListener reconnects and what was on *)
(* its way is lost, or recv() fails and unwrap() ends the task for good.   *)
ListenerFails ==
  /\ listening
  /\ pg' = <<>>
  /\ listening' \in BOOLEAN
  /\ UNCHANGED <<gateway, database, history>>
-----------------------------------------------------------------------------
(* The database, as the REST server's handlers change it. *)

Commit(records) ==
  /\ \A i \in 1..Len(records) : records[i].shape \in Kinds
  /\ Len(log) + Len(records) <= MaxEvents
  /\ log' = log \o records
  /\ pg' = IF listening
           THEN pg \o [i \in 1..Len(records) |-> Len(log) + i]
           ELSE pg
  /\ UNCHANGED <<gateway, listening, history>>

PostMessage(k, u) ==
  /\ k \in chats /\ u \in {Members[k][1], Members[k][2]}
  /\ Commit(<<[shape |-> "created", chat |-> k, user |-> u]>>)
  /\ rows' = rows \cup {Len(log) + 1}
  /\ UNCHANGED <<accounts, chats>>

(* An author's edit, or the reader's page that marks the row viewed. *)
UpdateMessage(m) ==
  /\ Commit(<<[log[m] EXCEPT !.shape = "updated"]>>)
  /\ UNCHANGED <<accounts, chats, rows>>

DeleteMessage(m) ==
  /\ Commit(<<[log[m] EXCEPT !.shape = "deleted"]>>)
  /\ rows' = rows \ {m}
  /\ UNCHANGED <<accounts, chats>>

(* delete_account: the user's messages and then the user's chats, in one   *)
(* transaction, which a remaining message of the other member aborts.      *)
DeleteAccount(u) ==
  LET mine == {k \in chats : u \in {Members[k][1], Members[k][2]}}
      theirs == {m \in rows : log[m].chat \in mine}
      own == {m \in rows : log[m].user = u} IN
  /\ u \in accounts \cap Leaving
  /\ theirs \subseteq own
  /\ accounts' = accounts \ {u}
  /\ chats' = chats \ mine
  /\ rows' = rows \ own
  /\ \E n \in 0..MaxEvents : \E order \in [1..n -> own] :
       /\ \A m \in own : \E i \in 1..n : order[i] = m
       /\ \A i, j \in 1..n : order[i] = order[j] => i = j
       /\ Commit([i \in 1..n |-> [log[order[i]] EXCEPT !.shape = "deleted"]])

CreateNotification(shape, u) ==
  /\ u \in accounts
  /\ Commit(<<[shape |-> shape, chat |-> NoChat, user |-> u]>>)
  /\ UNCHANGED <<accounts, chats, rows>>
-----------------------------------------------------------------------------
Client(c) ==
  \/ \E s \in Sessions : RecvIdentify(c, s)
  \/ RecvPong(c) \/ RecvClose(c) \/ Vanish(c)

Task(c) == SendFrame(c) \/ BlockWrite(c) \/ UnblockWrite(c) \/ Expire(c) \/ Tick(c)

Database ==
  \/ \E k \in Chats, u \in Users : PostMessage(k, u)
  \/ \E m \in rows : UpdateMessage(m) \/ DeleteMessage(m)
  \/ \E u \in Users : DeleteAccount(u)
  \/ \E u \in Users, shape \in {"notification", "notification_object"} :
       CreateNotification(shape, u)

Next ==
  \/ Accept \/ HandshakeOk \/ HandshakeFail
  \/ \E c \in Conn : Client(c) \/ Task(c)
  \/ HandleCommand \/ Restart
  \/ Notify \/ ListenerFails
  \/ Database

Spec == Init /\ [][Next]_vars

(* The scheduler runs every task and select! picks among its ready branches *)
(* at random, so a command that is ready again and again is taken in the    *)
(* end (SF); time passes; a write to a peer that has vanished fails.  No    *)
(* handshake and no write to a living peer is assumed to finish.            *)
Fairness ==
  /\ SF_vars(HandleCommand)
  /\ \A c \in Conn :
       /\ WF_vars(SendFrame(c))
       /\ WF_vars(Tick(c))
       /\ WF_vars(gone[c] /\ Expire(c))
       /\ WF_vars(gone[c] /\ UnblockWrite(c))

FairSpec == Spec /\ Fairness
-----------------------------------------------------------------------------
(* Type correctness of the gateway's state (server/mod.rs, session.rs).    *)
TypeOK ==
  /\ main \in {"idle", "handshaking", "down"}
  /\ accepted \in 0..MaxConns
  /\ registered \subseteq 1..accepted
  /\ user \in [Conn -> Users \cup {NoUser}]
  /\ task \in [Conn -> {"new", "open", "blocked", "ended"}]
  /\ gone \in [Conn -> BOOLEAN] /\ late \in [Conn -> BOOLEAN]
  /\ frame \in [Conn -> Seq(Frame)]
  /\ cmds \in Seq(Command)
  /\ pg \in Seq(Event) /\ listening \in BOOLEAN
  /\ accounts \subseteq Users /\ chats \subseteq Chats
  /\ log \in Seq(EventRecord) /\ Len(log) <= MaxEvents
  /\ rows \subseteq 1..Len(log)
  /\ identifies \in Nat
  /\ shown \in [Conn -> SUBSET Users]
  /\ route \in [Event -> 0..MaxConns]
  /\ discarded \subseteq Event
  /\ delivered \in [Conn -> Seq(Event)]

(* The connection list and the tasks agree although they only speak through *)
(* the command queue and name connections by an address that can be reused, *)
(* even while the task of a vanished peer still runs: at every address the  *)
(* entries are as many as the tasks that run and the Disconnects on their  *)
(* way, and a task whose peer is there has an entry of its own, whichever  *)
(* entry every Disconnect has removed.                                      *)
Running(a) == {c \in Conn : Live(c) /\ AddrOf[c] = a}
Removals(a) ==
  {i \in 1..Len(cmds) : cmds[i].type = "disconnect" /\ AddrOf[cmds[i].conn] = a}
RegistryMatchesTasks ==
  /\ \A a \in Addrs :
       Cardinality(At(a)) = Cardinality(Running(a)) + Cardinality(Removals(a))
  /\ \A c \in Conn : Live(c) /\ ~gone[c] => c \in registered

(* A connection whose peer is there is only ever bound to a user whose     *)
(* session that very connection has presented: an Identify, which finds    *)
(* its entry by address, may bind the entry of an older connection from    *)
(* there, but only one whose peer has vanished or whose task has ended.    *)
IdentityEarned ==
  \A c \in registered :
    user[c] # NoUser => user[c] \in shown[c] \/ gone[c] \/ task[c] = "ended"

(* An event queued to a connection is never dropped while that connection  *)
(* works: it waits in the frame channel or was written, or the task has    *)
(* ended or the peer is gone.                                              *)
NoSilentDrop ==
  \A e \in Event : route[e] # 0 =>
    LET c == route[e] IN
      \/ task[c] = "ended" \/ gone[c]
      \/ \E i \in 1..Len(frame[c]) : frame[c][i].event = e
      \/ \E i \in 1..Len(delivered[c]) : delivered[c][i] = e

(* The gateway implements the promise of module Delivery: an event reaches *)
(* at most one connection, one that has shown a session of the member of   *)
(* the chat who did not write the message (or of the notified user), and   *)
(* in commit order, over three queues and through reconnections.           *)
Recipient(r) ==
  IF r.shape \in {"notification", "notification_object"} THEN r.user
  ELSE LET pair == Members[r.chat] IN
         IF pair[1] = r.user THEN pair[2] ELSE pair[1]
D == INSTANCE Delivery WITH
       published <- [i \in 1..Len(log) |-> Recipient(log[i])],
       inbox <- delivered
DeliverySpec == D!Spec

(* A connection whose peer vanished without a close frame leaves the list: *)
(* the heartbeat ends its task and the command is handled, provided that   *)
(* no handshake keeps the main loop forever.                               *)
GoneIsCollected ==
  []<>(main = "idle") =>
    \A c \in Conn : (gone[c] /\ c \in registered) ~> (c \notin registered)

(* An event queued to a connection is settled: it is written, or the task  *)
(* ends, the peer vanishes, or a write to a peer that does not read blocks. *)
RoutedIsSettled ==
  \A e \in Event, c \in Conn :
    (route[e] = c) ~>
      \/ task[c] \in {"ended", "blocked"} \/ gone[c]
      \/ \E i \in 1..Len(delivered[c]) : delivered[c][i] = e

(* What json/mod.rs lists as opcodes 13 and 14: every deletion and edit of *)
(* a message that the database notifies is turned into a command.          *)
EditsForwarded ==
  \A e \in discarded : log[e].shape \notin {"updated", "deleted"}
=============================================================================
