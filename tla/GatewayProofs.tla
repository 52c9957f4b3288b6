---------------------------- MODULE GatewayProofs ----------------------------
(* Type correctness of the gateway and the correctness of its bookkeeping by *)
(* address, for every number of connections, users, chats and events.       *)
EXTENDS Gateway, FiniteSetTheorems, FunctionTheorems, TLAPS

-----------------------------------------------------------------------------
(* The strengthening of TypeOK that its induction needs. *)

(* Connections are numbered as they are accepted. *)
Numbering == \A c \in Conn : task[c] = "new" <=> c > accepted

(* A blocked task holds the frame it is writing. *)
BlockedHolds == \A c \in Conn : task[c] = "blocked" => frame[c] # <<>>

(* Queued events have been committed, and commands are only made of those *)
(* that events::postgres forwards.                                         *)
QueuedEvents ==
  /\ \A i \in 1..Len(pg) : pg[i] <= Len(log)
  /\ \A i \in 1..Len(cmds) : cmds[i].type = "event" =>
       /\ cmds[i].event \in 1..Len(log)
       /\ Forwarded(log[cmds[i].event].shape)

TypeInv == TypeOK /\ Numbering /\ BlockedHolds /\ QueuedEvents
-----------------------------------------------------------------------------
LEMMA TailProperties ==
  ASSUME NEW S, NEW s \in Seq(S), s # <<>>
  PROVE  /\ Head(s) \in S
         /\ Head(s) = s[1]
         /\ Tail(s) \in Seq(S)
         /\ Len(s) >= 1
         /\ Len(Tail(s)) = Len(s) - 1
         /\ \A i \in 1..Len(Tail(s)) : Tail(s)[i] = s[i + 1]
  OBVIOUS

LEMMA AppendProperties ==
  ASSUME NEW S, NEW s \in Seq(S), NEW e \in S
  PROVE  /\ Append(s, e) \in Seq(S)
         /\ Len(Append(s, e)) = Len(s) + 1
         /\ \A i \in 1..Len(s) : Append(s, e)[i] = s[i]
         /\ Append(s, e)[Len(s) + 1] = e
  OBVIOUS

LEMMA ConcatProperties ==
  ASSUME NEW S, NEW s \in Seq(S), NEW t \in Seq(S)
  PROVE  /\ s \o t \in Seq(S)
         /\ Len(s \o t) = Len(s) + Len(t)
         /\ \A i \in 1..Len(s) : (s \o t)[i] = s[i]
         /\ \A i \in 1..Len(t) : (s \o t)[Len(s) + i] = t[i]
  OBVIOUS

-----------------------------------------------------------------------------
LEMMA TypeInvInit == Init => TypeInv
  BY GatewayAssumption
  DEF Init, TypeInv, TypeOK, Numbering, BlockedHolds, QueuedEvents, Conn, Event

LEMMA FramesTyped ==
  /\ CloseFrame \in Frame /\ PingFrame \in Frame
  /\ \A e \in Event, shape \in Shapes :
       Forwarded(shape) => [opcode |-> Opcode(Variant(shape)), event |-> e] \in Frame
  /\ \A c \in Conn : Disconnect(c) \in Command
  /\ \A c \in Conn, s \in Sessions : Identify(c, s) \in Command
  /\ \A e \in Event : EventCommand(e) \in Command
<1>1. CloseFrame \in Frame /\ PingFrame \in Frame
  BY GatewayAssumption DEF CloseFrame, PingFrame, Frame
<1>2. ASSUME NEW e \in Event, NEW shape \in Shapes, Forwarded(shape)
      PROVE  [opcode |-> Opcode(Variant(shape)), event |-> e] \in Frame
  <2>1. Variant(shape) \in {"NotificationCreated", "MessageCreated", "MessageDeleted"}
    BY <1>2 DEF Forwarded, Variant, Channel, Arms, Shapes
  <2>2. Opcode(Variant(shape)) \in {11, 12, 13}
    BY <2>1 DEF Opcode
  <2> QED  BY <2>2, GatewayAssumption DEF Frame, Event
<1>3. QED
  BY <1>1, <1>2, GatewayAssumption
  DEF Disconnect, Identify, EventCommand, Command, Conn, Event

(* What a client, a timer or the handshake does to one connection. *)
LEMMA TypeInvTasks ==
  ASSUME TypeInv, Accept \/ HandshakeOk \/ HandshakeFail
                  \/ \E c \in Conn : Client(c) \/ Task(c)
  PROVE  TypeInv'
<1> USE GatewayAssumption DEF TypeInv, TypeOK, Numbering, BlockedHolds,
      QueuedEvents, Conn, gateway, database, history
<1>1. CASE Accept \/ HandshakeFail
  <2>1. /\ main' \in {"idle", "handshaking", "down"}
        /\ UNCHANGED <<accepted, registered, user, task, gone, late, frame, cmds,
                       pg, listening, database, history>>
    BY ONLY <1>1 DEF Accept, HandshakeFail
  <2> QED  BY SMTT(20), <2>1
<1>2. CASE HandshakeOk
  <2>1. /\ accepted < MaxConns /\ accepted' = accepted + 1 /\ main' = "idle"
        /\ registered' = registered \cup {accepted + 1}
        /\ task' = [task EXCEPT ![accepted + 1] = "open"]
        /\ UNCHANGED <<user, gone, late, frame, cmds, pg, listening, database, history>>
    BY ONLY <1>2 DEF HandshakeOk
  <2>2. accepted' \in 0..MaxConns /\ registered' \subseteq 1..accepted'
    BY <2>1
  <2>3. task' \in [Conn -> {"new", "open", "blocked", "ended"}]
    BY <2>1
  <2>4. Numbering'
    BY <2>1
  <2>5. BlockedHolds'
    BY <2>1
  <2>6. QueuedEvents'
    BY <2>1
  <2> QED  BY <2>1, <2>2, <2>3, <2>4, <2>5, <2>6
<1>3. ASSUME NEW c \in Conn, NEW s \in Sessions, RecvIdentify(c, s)
      PROVE  TypeInv'
  <2>1. Identify(c, s) \in Command
    BY FramesTyped
  <2>2. /\ cmds' \in Seq(Command) /\ Len(cmds') = Len(cmds) + 1
        /\ \A i \in 1..Len(cmds) : cmds'[i] = cmds[i]
        /\ cmds'[Len(cmds) + 1] = Identify(c, s)
    BY <1>3, <2>1, AppendProperties DEF RecvIdentify
  <2>3. QueuedEvents'
    BY SMTT(20), <1>3, <2>2 DEF RecvIdentify, Identify
  <2>4. shown' \in [Conn -> SUBSET Users] /\ identifies' \in Nat
    BY SMTT(20), <1>3 DEF RecvIdentify
  <2>5. UNCHANGED <<main, accepted, registered, user, task, gone, late, frame,
                    pg, listening, database, route, discarded, delivered>>
    BY <1>3 DEF RecvIdentify
  <2> QED  BY <2>2, <2>3, <2>4, <2>5
<1>4. ASSUME NEW c \in Conn, RecvPong(c) \/ Vanish(c) \/ Expire(c)
      PROVE  TypeInv'
  <2>1. late' \in [Conn -> BOOLEAN] /\ gone' \in [Conn -> BOOLEAN]
    BY <1>4 DEF RecvPong, Vanish, Expire
  <2>2. UNCHANGED <<main, accepted, registered, user, task, frame, cmds,
                    pg, listening, database, history>>
    BY <1>4 DEF RecvPong, Vanish, Expire
  <2> QED  BY <2>1, <2>2
<1>11. ASSUME NEW c \in Conn, BlockWrite(c)
       PROVE  TypeInv'
  BY <1>11 DEF BlockWrite
<1>5. ASSUME NEW c \in Conn, EndTask(c), Live(c),
             UNCHANGED <<pg, listening, database, identifies, shown, route, discarded>>,
             UNCHANGED delivered
      PROVE  TypeInv'
  <2>1. Disconnect(c) \in Command
    BY FramesTyped
  <2>2. /\ cmds' \in Seq(Command) /\ Len(cmds') = Len(cmds) + 1
        /\ \A i \in 1..Len(cmds) : cmds'[i] = cmds[i]
        /\ cmds'[Len(cmds) + 1] = Disconnect(c)
    BY <1>5, <2>1, AppendProperties DEF EndTask
  <2>3. QueuedEvents'
    BY SMTT(20), <1>5, <2>2 DEF EndTask, Disconnect
  <2>4. /\ task' \in [Conn -> {"new", "open", "blocked", "ended"}]
        /\ frame' \in [Conn -> Seq(Frame)]
        /\ late' \in [Conn -> BOOLEAN]
    BY SMTT(20), <1>5 DEF EndTask
  <2>5. Numbering' /\ BlockedHolds'
    BY <1>5 DEF EndTask, Live
  <2>6. UNCHANGED <<main, accepted, registered, user, gone>>
    BY <1>5 DEF EndTask
  <2> QED  BY <1>5, <2>2, <2>3, <2>4, <2>5, <2>6
<1>6. ASSUME NEW c \in Conn, RecvClose(c)
      PROVE  TypeInv'
  BY <1>5, <1>6 DEF RecvClose, Live
<1>7. ASSUME NEW c \in Conn, frame[c] # <<>>, Live(c), Written(c, Head(frame[c])),
             task' = [task EXCEPT ![c] = "open"],
             frame' = [frame EXCEPT ![c] = Tail(@)],
             UNCHANGED <<main, accepted, registered, user, gone, late, cmds>>,
             UNCHANGED <<pg, listening, database, identifies, shown, route, discarded>>
      PROVE  TypeInv'
  <2>1. Head(frame[c]) \in Frame /\ Tail(frame[c]) \in Seq(Frame)
    BY <1>7, TailProperties
  <2>2. delivered' \in [Conn -> Seq(Event)]
    <3> DEFINE e == Head(frame[c]).event
    <3>1. e # 0 => e \in Event
      BY <2>1 DEF Frame, Event
    <3>2. e # 0 => Append(delivered[c], e) \in Seq(Event)
      BY <3>1, AppendProperties
    <3>3. delivered' = delivered \/
            (e # 0 /\ delivered' = [delivered EXCEPT ![c] = Append(delivered[c], e)])
      BY <1>7, Zenon DEF Written
    <3> QED  BY <3>2, <3>3
  <2> QED  BY <1>7, <2>1, <2>2 DEF Live
<1>8. ASSUME NEW c \in Conn, SendFrame(c)
      PROVE  TypeInv'
  <2>1. task = [task EXCEPT ![c] = task[c]]
    OBVIOUS
  <2> QED  BY <1>5, <1>7, <1>8, <2>1 DEF SendFrame, Live
<1>9. ASSUME NEW c \in Conn, UnblockWrite(c)
      PROVE  TypeInv'
  BY <1>7, <1>9 DEF UnblockWrite, Live
<1>10. ASSUME NEW c \in Conn, Tick(c)
       PROVE  TypeInv'
  <2>1. \/ EndTask(c)
        \/ /\ Enqueue(c, PingFrame)
           /\ UNCHANGED <<main, accepted, registered, user, task, gone, late, cmds>>
    BY <1>10, Zenon DEF Tick
  <2>2. task[c] = "open" /\ UNCHANGED <<pg, listening, database, history>>
    BY <1>10, Zenon DEF Tick
  <2>3. CASE EndTask(c)
    BY <1>5, <2>2, <2>3 DEF Live
  <2>4. CASE /\ Enqueue(c, PingFrame)
             /\ UNCHANGED <<main, accepted, registered, user, task, gone, late, cmds>>
    <3>1. Append(frame[c], PingFrame) \in Seq(Frame)
      BY FramesTyped, AppendProperties
    <3> QED  BY <2>2, <2>4, <3>1 DEF Enqueue
  <2> QED  BY <2>1, <2>3, <2>4
<1> QED
  BY <1>1, <1>2, <1>3, <1>4, <1>6, <1>8, <1>9, <1>10, <1>11 DEF Client, Task

-----------------------------------------------------------------------------
(* Taking a command off the queue keeps every command well formed. *)
LEMMA CommandTaken ==
  ASSUME TypeInv, cmds # <<>>
  PROVE  /\ Head(cmds) \in Command /\ Head(cmds) = cmds[1]
         /\ Tail(cmds) \in Seq(Command)
         /\ Len(Tail(cmds)) = Len(cmds) - 1 /\ Len(cmds) >= 1
         /\ \A i \in 1..Len(Tail(cmds)) : Tail(cmds)[i] = cmds[i + 1]
         /\ \A i \in 1..Len(Tail(cmds)) : Tail(cmds)[i].type = "event" =>
              /\ Tail(cmds)[i].event \in 1..Len(log)
              /\ Forwarded(log[Tail(cmds)[i].event].shape)
<1>1. cmds \in Seq(Command)
  BY DEF TypeInv, TypeOK
<1>2. /\ Head(cmds) \in Command /\ Head(cmds) = cmds[1]
      /\ Tail(cmds) \in Seq(Command)
      /\ Len(Tail(cmds)) = Len(cmds) - 1 /\ Len(cmds) >= 1
      /\ \A i \in 1..Len(Tail(cmds)) : Tail(cmds)[i] = cmds[i + 1]
  BY <1>1, TailProperties
<1>3. QED
  BY <1>2 DEF TypeInv, QueuedEvents

LEMMA TypeInvPanic ==
  ASSUME TypeInv, Panic
  PROVE  TypeInv'
<1> USE GatewayAssumption DEF TypeInv, TypeOK, Numbering, BlockedHolds,
      QueuedEvents, Conn, Panic, database, history
<1>1. /\ late' \in [Conn -> BOOLEAN] /\ listening' \in BOOLEAN
      /\ UNCHANGED <<gone, delivered, discarded, shown, route, identifies>>
  OBVIOUS
<1>2. /\ task' \in [Conn -> {"new", "open", "blocked", "ended"}]
      /\ Numbering' /\ BlockedHolds'
  OBVIOUS
<1>3. /\ frame' \in [Conn -> Seq(Frame)] /\ cmds' \in Seq(Command)
      /\ pg' \in Seq(Event) /\ QueuedEvents'
  OBVIOUS
<1> QED  BY <1>1, <1>2, <1>3

LEMMA EnqueueTyped ==
  ASSUME TypeInv, NEW c \in Conn, NEW f \in Frame, Enqueue(c, f)
  PROVE  /\ frame' \in [Conn -> Seq(Frame)]
         /\ \A d \in Conn : frame[d] # <<>> => frame'[d] # <<>>
<1>1. frame \in [Conn -> Seq(Frame)]
  BY DEF TypeInv, TypeOK
<1>2. Append(frame[c], f) \in Seq(Frame) /\ Append(frame[c], f) # <<>>
  BY <1>1, AppendProperties
<1>3. QED
  BY <1>1, <1>2 DEF Enqueue

LEMMA TypeInvDisconnect ==
  ASSUME TypeInv, HandleDisconnect
  PROVE  TypeInv'
<1>1. cmds # <<>> /\ cmds' = Tail(cmds)
  BY DEF HandleDisconnect, Next1stCommand
<1>2. /\ registered' \subseteq registered
      /\ user' \in [Conn -> Users \cup {NoUser}]
  BY DEF HandleDisconnect, TypeInv, TypeOK
<1>3. UNCHANGED <<main, accepted, task, gone, late, frame, pg, listening,
                  accounts, chats, rows, log,
                  identifies, shown, route, discarded, delivered>>
  BY DEF HandleDisconnect, database, history
<1> QED
  BY <1>1, <1>2, <1>3, CommandTaken
  DEF TypeInv, TypeOK, Numbering, BlockedHolds, QueuedEvents

LEMMA TypeInvIdentify ==
  ASSUME TypeInv, HandleIdentify
  PROVE  TypeInv'
<1>0. cmds # <<>>
  BY DEF HandleIdentify, Next1stCommand
<1>1. CASE Panic
  BY <1>1, TypeInvPanic
<1>2. CASE /\ cmds' = Tail(cmds)
           /\ UNCHANGED <<main, accepted, registered, user, task, gone, late, frame>>
           /\ UNCHANGED <<pg, listening, database, history>>
  BY <1>0, <1>2, CommandTaken
  DEF TypeInv, TypeOK, Numbering, BlockedHolds, QueuedEvents, database, history
<1>3. ASSUME NEW u \in Users, NEW c \in registered, Bind(c, u)
      PROVE  TypeInv'
  <2>1. registered \subseteq Conn /\ CloseFrame \in Frame
    BY GatewayAssumption, FramesTyped DEF TypeInv, TypeOK, Conn
  <2>2. /\ frame' \in [Conn -> Seq(Frame)]
        /\ \A d \in Conn : frame[d] # <<>> => frame'[d] # <<>>
    <3>1. CASE UNCHANGED frame
      BY <3>1 DEF TypeInv, TypeOK
    <3>2. ASSUME NEW d \in Of(u), Enqueue(d, CloseFrame)
          PROVE  /\ frame' \in [Conn -> Seq(Frame)]
                 /\ \A x \in Conn : frame[x] # <<>> => frame'[x] # <<>>
      BY <2>1, <3>2, EnqueueTyped DEF Of
    <3> QED  BY <1>3, <3>1, <3>2 DEF Bind
  <2>3. user' \in [Conn -> Users \cup {NoUser}]
    BY <1>3, <2>1 DEF Bind, TypeInv, TypeOK
  <2>4. /\ cmds' = Tail(cmds)
        /\ UNCHANGED <<main, accepted, registered, task, gone, late, pg, listening,
                       accounts, chats, rows, log,
                       identifies, shown, route, discarded, delivered>>
    BY <1>3 DEF Bind, database, history
  <2> QED
    BY <1>0, <2>2, <2>3, <2>4, CommandTaken
    DEF TypeInv, TypeOK, Numbering, BlockedHolds, QueuedEvents
<1> QED
  BY <1>1, <1>2, <1>3 DEF HandleIdentify, At

LEMMA TypeInvEvent ==
  ASSUME TypeInv, HandleEvent
  PROVE  TypeInv'
<1> DEFINE e == Head(cmds).event
<1>0. cmds # <<>> /\ Head(cmds).type = "event"
  BY DEF HandleEvent, Next1stCommand
<1>1. e \in 1..Len(log) /\ Forwarded(log[e].shape) /\ e \in Event
  BY <1>0, CommandTaken, GatewayAssumption
  DEF TypeInv, TypeOK, QueuedEvents, Event
<1>2. CASE Panic
  BY <1>2, TypeInvPanic
<1>3. CASE Route(e)
  <2>1. registered \subseteq Conn /\ Conn \subseteq 0..MaxConns
    BY GatewayAssumption DEF TypeInv, TypeOK, Conn
  <2>2. log[e].shape \in Shapes
    <3>1. \A n \in 1..Len(log) : log[n] \in EventRecord
      BY DEF TypeInv, TypeOK
    <3> QED  BY <1>1, <3>1 DEF EventRecord
  <2>3. /\ frame' \in [Conn -> Seq(Frame)] /\ route' \in [Event -> 0..MaxConns]
        /\ \A d \in Conn : frame[d] # <<>> => frame'[d] # <<>>
    <3> DEFINE f == [opcode |-> Opcode(Variant(log[e].shape)), event |-> e]
    <3>1. f \in Frame
      BY <1>1, <2>2, FramesTyped
    <3>2. CASE UNCHANGED <<frame, route>>
      BY <3>2 DEF TypeInv, TypeOK
    <3>3. ASSUME NEW c \in Of(Addressee(e)), Enqueue(c, f),
                 route' = [route EXCEPT ![e] = c]
          PROVE  /\ frame' \in [Conn -> Seq(Frame)] /\ route' \in [Event -> 0..MaxConns]
                 /\ \A x \in Conn : frame[x] # <<>> => frame'[x] # <<>>
      <4>1. c \in Conn /\ c \in 0..MaxConns
        BY <2>1 DEF Of
      <4>2. route' \in [Event -> 0..MaxConns]
        BY <3>3, <4>1 DEF TypeInv, TypeOK
      <4> HIDE DEF f
      <4> QED  BY <3>1, <3>3, <4>1, <4>2, EnqueueTyped
    <3> QED  BY <1>3, <3>2, <3>3 DEF Route
  <2>4. /\ cmds' = Tail(cmds)
        /\ UNCHANGED <<main, accepted, registered, user, task, gone, late, pg, listening,
                       accounts, chats, rows, log, identifies, shown, discarded, delivered>>
    BY <1>3 DEF Route, database
  <2> QED
    BY <1>0, <2>3, <2>4, CommandTaken
    DEF TypeInv, TypeOK, Numbering, BlockedHolds, QueuedEvents
<1> QED
  BY <1>2, <1>3 DEF HandleEvent

-----------------------------------------------------------------------------
(* Committing events lengthens the log and, while the listener is alive,   *)
(* the notifications on their way to it.                                   *)
LEMMA CommitTyped ==
  ASSUME TypeInv, NEW records \in Seq(EventRecord), Commit(records)
  PROVE  /\ log' \in Seq(EventRecord) /\ Len(log') <= MaxEvents
         /\ Len(log') = Len(log) + Len(records)
         /\ \A i \in 1..Len(log) : log'[i] = log[i]
         /\ pg' \in Seq(Event)
         /\ QueuedEvents'
<1> USE GatewayAssumption DEF TypeInv, TypeOK, QueuedEvents
<1>1. /\ log' \in Seq(EventRecord) /\ Len(log') <= MaxEvents
      /\ Len(log') = Len(log) + Len(records)
      /\ \A i \in 1..Len(log) : log'[i] = log[i]
  BY ConcatProperties DEF Commit
<1> DEFINE fresh == [i \in 1..Len(records) |-> Len(log) + i]
<1>2. /\ fresh \in Seq(Event) /\ Len(fresh) = Len(records)
      /\ \A i \in 1..Len(fresh) : fresh[i] <= Len(log')
  BY SMTT(20), <1>1 DEF Event
<1> HIDE DEF fresh
<1>3. /\ pg \o fresh \in Seq(Event)
      /\ \A i \in 1..Len(pg \o fresh) : (pg \o fresh)[i] <= Len(log')
  <2>1. \A i \in 1..Len(pg) : (pg \o fresh)[i] <= Len(log')
    BY SMTT(20), <1>1, <1>2, ConcatProperties DEF Event
  <2>2. \A i \in 1..Len(fresh) : (pg \o fresh)[Len(pg) + i] <= Len(log')
    BY <1>2, ConcatProperties
  <2>3. \A i \in 1..Len(pg \o fresh) :
          i \in 1..Len(pg) \/ \E j \in 1..Len(fresh) : i = Len(pg) + j
    <3>1. pg \in Seq(Event) /\ fresh \in Seq(Event)
      BY <1>2
    <3>2. Len(pg \o fresh) = Len(pg) + Len(fresh)
      BY ONLY <3>1, ConcatProperties
    <3>3. Len(pg) \in Nat /\ Len(fresh) \in Nat
      BY ONLY <3>1
    <3>4. ASSUME NEW i \in 1..Len(pg \o fresh), i \notin 1..Len(pg)
          PROVE  i - Len(pg) \in 1..Len(fresh) /\ i = Len(pg) + (i - Len(pg))
      BY ONLY <3>2, <3>3, <3>4
    <3> QED  BY <3>4
  <2> QED  BY <1>2, <2>1, <2>2, <2>3, ConcatProperties
<1>4. pg' = pg \/ pg' = pg \o fresh
  BY DEF Commit, fresh
<1>5. pg' \in Seq(Event) /\ \A i \in 1..Len(pg') : pg'[i] <= Len(log')
  <2>1. CASE pg' = pg
    BY <1>1, <2>1 DEF Event
  <2>2. CASE pg' = pg \o fresh
    BY <1>3, <2>2
  <2> QED  BY <1>4, <2>1, <2>2
<1>6. cmds' = cmds
  BY DEF Commit, gateway
<1>7. \A i \in 1..Len(cmds') : cmds'[i].type = "event" =>
        cmds'[i].event \in 1..Len(log') /\ Forwarded(log'[cmds'[i].event].shape)
  <2>1. Len(log) \in Nat /\ Len(log') \in Nat /\ Len(log') >= Len(log)
    BY <1>1
  <2>2. ASSUME NEW i \in 1..Len(cmds), cmds[i].type = "event"
        PROVE  cmds[i].event \in 1..Len(log') /\ Forwarded(log'[cmds[i].event].shape)
    <3>1. cmds[i].event \in 1..Len(log) /\ Forwarded(log[cmds[i].event].shape)
      BY <2>2
    <3>2. log'[cmds[i].event] = log[cmds[i].event]
      BY <1>1, <3>1
    <3> QED  BY <2>1, <3>1, <3>2
  <2> QED  BY <1>6, <2>2
<1> QED  BY <1>1, <1>5, <1>7

LEMMA TypeInvDatabase ==
  ASSUME TypeInv, Database
  PROVE  TypeInv'
<1>1. ASSUME NEW records \in Seq(EventRecord), Commit(records),
             accounts' \subseteq accounts, chats' \subseteq chats,
             rows' \subseteq 1..Len(log')
      PROVE  TypeInv'
  BY <1>1, CommitTyped
  DEF Commit, gateway, history, TypeInv, TypeOK, Numbering, BlockedHolds
<1>2. ASSUME NEW m \in rows, NEW shape \in Shapes
      PROVE  [log[m] EXCEPT !.shape = shape] \in EventRecord
  <2>1. log[m] \in EventRecord
    BY DEF TypeInv, TypeOK
  <2> QED  BY <2>1 DEF EventRecord
<1>3. ASSUME NEW k \in Chats, NEW u \in Users, PostMessage(k, u)
      PROVE  TypeInv'
  <2> DEFINE records == <<[shape |-> "created", chat |-> k, user |-> u]>>
  <2>1. records \in Seq(EventRecord) /\ Len(records) = 1
    BY DEF EventRecord, Shapes
  <2> HIDE DEF records
  <2>2. Commit(records)
    BY <1>3 DEF PostMessage, records
  <2>3. rows' \subseteq 1..Len(log')
    <3>1. Len(log) \in Nat
      BY DEF TypeInv, TypeOK
    <3>2. Len(log') = Len(log) + 1
      BY <2>1, <2>2, CommitTyped
    <3>3. rows \subseteq 1..Len(log)
      BY DEF TypeInv, TypeOK
    <3>4. rows' = rows \cup {Len(log) + 1}
      BY <1>3 DEF PostMessage
    <3>5. \A r \in rows' : r \in Nat /\ 1 <= r /\ r <= Len(log')
      BY ONLY <3>1, <3>2, <3>3, <3>4
    <3> QED  BY ONLY <3>1, <3>2, <3>5
  <2> QED  BY <1>1, <1>3, <2>1, <2>2, <2>3 DEF PostMessage
<1>4. ASSUME NEW m \in rows, UpdateMessage(m) \/ DeleteMessage(m)
      PROVE  TypeInv'
  <2>1. PICK shape \in {"updated", "deleted"} :
          Commit(<<[log[m] EXCEPT !.shape = shape]>>)
    BY <1>4 DEF UpdateMessage, DeleteMessage
  <2> DEFINE records == <<[log[m] EXCEPT !.shape = shape]>>
  <2>2. records \in Seq(EventRecord) /\ Len(records) = 1
    <3>1. [log[m] EXCEPT !.shape = shape] \in EventRecord
      BY <1>2 DEF Shapes
    <3> QED  BY <3>1
  <2>7. Commit(records)
    BY <2>1
  <2> HIDE DEF records
  <2>3. Len(log) \in Nat /\ Len(log') = Len(log) + 1
    <3>1. Len(log) \in Nat
      BY DEF TypeInv, TypeOK
    <3> QED  BY <2>2, <2>7, <3>1, CommitTyped
  <2>4. rows' \subseteq rows /\ accounts' = accounts /\ chats' = chats
    BY <1>4 DEF UpdateMessage, DeleteMessage
  <2>5. rows' \subseteq 1..Len(log')
    BY <2>3, <2>4 DEF TypeInv, TypeOK
  <2> QED  BY <1>1, <2>7, <2>2, <2>4, <2>5
<1>5. ASSUME NEW u \in Users, DeleteAccount(u)
      PROVE  TypeInv'
  <2>0. PICK n \in 0..MaxEvents : \E order \in [1..n -> rows] :
          Commit([i \in 1..n |-> [log[order[i]] EXCEPT !.shape = "deleted"]])
    <3> DEFINE own == {m \in rows : log[m].user = u}
    <3>1. PICK n \in 0..MaxEvents : \E order \in [1..n -> own] :
            Commit([i \in 1..n |-> [log[order[i]] EXCEPT !.shape = "deleted"]])
      BY <1>5, ZenonT(20) DEF DeleteAccount
    <3>2. \A order \in [1..n -> own] : order \in [1..n -> rows]
      BY DEF own
    <3> QED  BY <3>1, <3>2, Zenon
  <2>1. PICK order \in [1..n -> rows] :
          Commit([i \in 1..n |-> [log[order[i]] EXCEPT !.shape = "deleted"]])
    BY <2>0
  <2> DEFINE records == [i \in 1..n |-> [log[order[i]] EXCEPT !.shape = "deleted"]]
  <2>2. records \in Seq(EventRecord) /\ Len(records) = n
    <3>1. \A i \in 1..n : [log[order[i]] EXCEPT !.shape = "deleted"] \in EventRecord
      BY <1>2 DEF Shapes
    <3> QED  BY <3>1, GatewayAssumption
  <2>7. Commit(records)
    BY <2>1
  <2> HIDE DEF records
  <2>3. Len(log) \in Nat /\ Len(log') = Len(log) + n
    <3>1. Len(log) \in Nat
      BY DEF TypeInv, TypeOK
    <3> QED  BY <2>2, <2>7, <3>1, CommitTyped
  <2>4. rows' \subseteq rows /\ accounts' \subseteq accounts /\ chats' \subseteq chats
    BY <1>5 DEF DeleteAccount
  <2>5. rows' \subseteq 1..Len(log')
    BY <2>3, <2>4, GatewayAssumption DEF TypeInv, TypeOK
  <2> QED  BY <1>1, <2>7, <2>2, <2>4, <2>5
<1>6. ASSUME NEW u \in Users, NEW shape \in {"notification", "notification_object"},
             CreateNotification(shape, u)
      PROVE  TypeInv'
  <2> DEFINE records == <<[shape |-> shape, chat |-> NoChat, user |-> u]>>
  <2>1. records \in Seq(EventRecord) /\ Len(records) = 1
    BY DEF EventRecord, Shapes
  <2> HIDE DEF records
  <2>2. Commit(records) /\ UNCHANGED <<accounts, chats, rows>>
    BY <1>6 DEF CreateNotification, records
  <2>3. rows' \subseteq 1..Len(log')
    <3>1. Len(log) \in Nat
      BY DEF TypeInv, TypeOK
    <3>2. Len(log') = Len(log) + 1
      BY <2>1, <2>2, CommitTyped
    <3> QED  BY <2>2, <3>1, <3>2 DEF TypeInv, TypeOK
  <2> QED  BY <1>1, <2>1, <2>2, <2>3
<1> QED  BY <1>3, <1>4, <1>5, <1>6 DEF Database

LEMMA TypeInvListener ==
  ASSUME TypeInv, Notify \/ ListenerFails \/ Restart
  PROVE  TypeInv'
<1>1. CASE Notify
  <2>1. /\ Head(pg) \in Event /\ Head(pg) <= Len(log)
        /\ Tail(pg) \in Seq(Event)
        /\ \A i \in 1..Len(Tail(pg)) : Tail(pg)[i] <= Len(log)
    BY <1>1, TailProperties DEF Notify, TypeInv, TypeOK, QueuedEvents
  <2>2. /\ cmds' \in Seq(Command)
        /\ \A i \in 1..Len(cmds') : cmds'[i].type = "event" =>
             cmds'[i].event \in 1..Len(log) /\ Forwarded(log[cmds'[i].event].shape)
    <3>1. CASE cmds' = cmds
      BY <3>1 DEF TypeInv, TypeOK, QueuedEvents
    <3>2. CASE /\ Forwarded(log[Head(pg)].shape)
               /\ cmds' = Append(cmds, EventCommand(Head(pg)))
      <4>1. EventCommand(Head(pg)) \in Command
        BY <2>1, FramesTyped
      <4>2. /\ cmds' \in Seq(Command) /\ Len(cmds') = Len(cmds) + 1
            /\ \A i \in 1..Len(cmds) : cmds'[i] = cmds[i]
            /\ cmds'[Len(cmds) + 1] = EventCommand(Head(pg))
        BY <3>2, <4>1, AppendProperties DEF TypeInv, TypeOK
      <4>3. Head(pg) \in 1..Len(log)
        BY <2>1, GatewayAssumption DEF Event, TypeInv, TypeOK
      <4> QED
        BY <3>2, <4>2, <4>3 DEF EventCommand, TypeInv, TypeOK, QueuedEvents
    <3> QED  BY <1>1, <3>1, <3>2 DEF Notify
  <2>3. discarded' \subseteq Event
    BY <1>1, <2>1 DEF Notify, TypeInv, TypeOK
  <2>4. /\ pg' = Tail(pg)
        /\ UNCHANGED <<main, accepted, registered, user, task, gone, late, frame,
                       listening, accounts, chats, rows, log,
                       identifies, shown, route, delivered>>
    BY <1>1 DEF Notify, database
  <2> QED
    BY <2>1, <2>2, <2>3, <2>4
    DEF TypeInv, TypeOK, Numbering, BlockedHolds, QueuedEvents
<1>2. CASE ListenerFails
  BY <1>2 DEF ListenerFails, gateway, database, history,
     TypeInv, TypeOK, Numbering, BlockedHolds, QueuedEvents
<1>3. CASE Restart
  BY <1>3 DEF Restart, database, history,
     TypeInv, TypeOK, Numbering, BlockedHolds, QueuedEvents
<1> QED  BY <1>1, <1>2, <1>3

LEMMA TypeInvStep == TypeInv /\ [Next]_vars => TypeInv'
<1> SUFFICES ASSUME TypeInv, [Next]_vars
             PROVE  TypeInv'
  OBVIOUS
<1>1. CASE UNCHANGED vars
  BY <1>1 DEF vars, gateway, database, history,
     TypeInv, TypeOK, Numbering, BlockedHolds, QueuedEvents
<1>2. CASE Next
  BY <1>2, TypeInvTasks, TypeInvDisconnect, TypeInvIdentify, TypeInvEvent,
     TypeInvListener, TypeInvDatabase
  DEF Next, HandleCommand
<1> QED  BY <1>1, <1>2

(* The state of the gateway and of its queues is always well formed, however *)
(* connections, commands and notifications interleave.                      *)
THEOREM TypeCorrect == Spec => []TypeOK
<1>1. TypeInv => TypeOK
  BY DEF TypeInv
<1> QED  BY <1>1, TypeInvInit, TypeInvStep, PTL DEF Spec

-----------------------------------------------------------------------------
(* The gateway's list of connections stays in step with its tasks although *)
(* a Disconnect removes the oldest entry of its sender's address, whoever  *)
(* holds it.  The proof counts: at one address there are as many entries as *)
(* running tasks and queued Disconnects, the entries are those of the      *)
(* newest connections, and every connection but the newest has lost its    *)
(* peer or its task.  An Identify has fewer Disconnects of its address     *)
(* ahead of it than there are entries up to its sender's, so one of those  *)
(* is left when it is handled, and it is the sender's or one of a          *)
(* connection nobody is at.                                                *)

NewestHeld ==
  \A c \in registered, d \in Conn :
    c < d /\ d <= accepted /\ AddrOf[c] = AddrOf[d] => d \in registered

OlderLeft ==
  \A c, d \in Conn :
    c < d /\ d <= accepted /\ AddrOf[c] = AddrOf[d] => ~Live(c) \/ gone[c]

Balance ==
  \A a \in Addrs :
    Cardinality(At(a)) = Cardinality(Running(a)) + Cardinality(Removals(a))

SendersAccepted ==
  \A i \in 1..Len(cmds) :
    cmds[i].type \in {"disconnect", "identify"} => cmds[i].conn \in 1..accepted

RemovalsBefore(j, a) == {i \in Removals(a) : i < j}
EntriesUpTo(c) == {d \in registered : AddrOf[d] = AddrOf[c] /\ d <= c}

IdentifyInTurn ==
  \A j \in 1..Len(cmds), c \in Conn :
    cmds[j].type = "identify" /\ cmds[j].conn = c =>
      Cardinality(RemovalsBefore(j, AddrOf[c])) < Cardinality(EntriesUpTo(c))

SessionsShown ==
  \A j \in 1..Len(cmds) : cmds[j].type = "identify" =>
    (SessionUser[cmds[j].session] \in Users =>
       SessionUser[cmds[j].session] \in shown[cmds[j].conn])

UnboundOutside == \A c \in Conn \ registered : user[c] = NoUser

RegistryInv ==
  /\ NewestHeld /\ OlderLeft /\ Balance /\ SendersAccepted
  /\ IdentifyInTurn /\ SessionsShown
  /\ IdentityEarned /\ UnboundOutside
-----------------------------------------------------------------------------
(* Counting. *)

(* Positions in a queue move down by one when its head is taken. *)
LEMMA CountShift ==
  ASSUME NEW S, NEW T, IsFiniteSet(S),
         S \subseteq Nat \ {0}, T \subseteq Nat \ {0},
         \A i \in Nat \ {0} : i \in T <=> i + 1 \in S
  PROVE  /\ Cardinality(T) \in Nat /\ Cardinality(S) \in Nat
         /\ Cardinality(S) = Cardinality(T) + (IF 1 \in S THEN 1 ELSE 0)
<1> DEFINE f == [i \in T |-> i + 1]
<1>1. IsFiniteSet(S \ {1}) /\ Cardinality(S \ {1}) \in Nat /\ Cardinality(S) \in Nat
      /\ Cardinality(S) = Cardinality(S \ {1}) + (IF 1 \in S THEN 1 ELSE 0)
  <2>1. IsFiniteSet(S \ {1})
    BY FS_Subset
  <2>2. Cardinality(S \ {1}) \in Nat /\ Cardinality(S) \in Nat
    BY <2>1, FS_CardinalityType
  <2>3. Cardinality(S \ {1}) = (IF 1 \in S THEN Cardinality(S) - 1 ELSE Cardinality(S))
    BY FS_RemoveElement
  <2> QED  BY ONLY <2>1, <2>2, <2>3
<1>2. f \in Bijection(T, S \ {1})
  <2>1. f \in [T -> S \ {1}]
    <3>1. \A i \in T : i + 1 \in S \ {1}
      OBVIOUS
    <3> QED  BY <3>1
  <2>2. \A i, j \in T : f[i] = f[j] => i = j
    OBVIOUS
  <2>3. \A n \in S \ {1} : \E i \in T : f[i] = n
    <3>1. ASSUME NEW n \in S \ {1}
          PROVE  n - 1 \in T /\ (n - 1) + 1 = n
      OBVIOUS
    <3> QED  BY <3>1
  <2> HIDE DEF f
  <2> QED  BY <2>1, <2>2, <2>3 DEF Bijection, Injection, Surjection, IsInjective
<1>3. ExistsBijection(T, S \ {1})
  BY <1>2 DEF ExistsBijection
<1>4. ExistsBijection(S \ {1}, T)
  BY <1>3, Fun_ExistsBijSymmetric
<1>5. Cardinality(T) = Cardinality(S \ {1})
  BY <1>1, <1>4, FS_Bijection
<1> QED  BY <1>1, <1>5

LEMMA Finite ==
  ASSUME TypeInv
  PROVE  /\ registered \subseteq Conn /\ registered \subseteq 1..accepted
         /\ accepted \in Nat /\ \A c \in Conn : c \in Nat /\ c >= 1 /\ AddrOf[c] \in Addrs
         /\ \A a : IsFiniteSet(At(a)) /\ Cardinality(At(a)) \in Nat
         /\ \A a : IsFiniteSet(Running(a)) /\ Cardinality(Running(a)) \in Nat
         /\ \A a : IsFiniteSet(Removals(a)) /\ Cardinality(Removals(a)) \in Nat
         /\ \A j, a : /\ IsFiniteSet(RemovalsBefore(j, a))
                      /\ Cardinality(RemovalsBefore(j, a)) \in Nat
         /\ \A c : IsFiniteSet(EntriesUpTo(c)) /\ Cardinality(EntriesUpTo(c)) \in Nat
<1>1. /\ registered \subseteq Conn /\ registered \subseteq 1..accepted
      /\ accepted \in Nat /\ \A c \in Conn : c \in Nat /\ c >= 1 /\ AddrOf[c] \in Addrs
      /\ Len(cmds) \in Nat
  BY SMTT(20), GatewayAssumption DEF TypeInv, TypeOK, Conn
<1>2. IsFiniteSet(Conn) /\ IsFiniteSet(1..Len(cmds)) /\ IsFiniteSet(registered)
  <2>1. MaxConns \in Nat
    BY GatewayAssumption
  <2>2. IsFiniteSet(1..MaxConns) /\ IsFiniteSet(1..Len(cmds))
    BY <1>1, <2>1, FS_Interval
  <2> QED  BY <1>1, <2>2, FS_Subset DEF Conn
<1>3. \A S, T : IsFiniteSet(S) /\ T \subseteq S => IsFiniteSet(T) /\ Cardinality(T) \in Nat
  BY FS_Subset, FS_CardinalityType
<1>4. /\ \A a : At(a) \subseteq registered
      /\ \A a : Running(a) \subseteq Conn
      /\ \A a : Removals(a) \subseteq 1..Len(cmds)
      /\ \A j, a : RemovalsBefore(j, a) \subseteq 1..Len(cmds)
      /\ \A c : EntriesUpTo(c) \subseteq registered
  BY Zenon DEF At, Running, Removals, RemovalsBefore, EntriesUpTo
<1>5. \A a : IsFiniteSet(At(a)) /\ Cardinality(At(a)) \in Nat
  BY <1>2, <1>3, <1>4
<1>6. \A a : IsFiniteSet(Running(a)) /\ Cardinality(Running(a)) \in Nat
  BY <1>2, <1>3, <1>4
<1>7. \A a : IsFiniteSet(Removals(a)) /\ Cardinality(Removals(a)) \in Nat
  BY <1>2, <1>3, <1>4
<1>8. \A j, a : /\ IsFiniteSet(RemovalsBefore(j, a))
                /\ Cardinality(RemovalsBefore(j, a)) \in Nat
  BY <1>2, <1>3, <1>4
<1>9. \A c : IsFiniteSet(EntriesUpTo(c)) /\ Cardinality(EntriesUpTo(c)) \in Nat
  BY <1>2, <1>3, <1>4
<1> QED  BY <1>1, <1>5, <1>6, <1>7, <1>8, <1>9

LEMMA Counted ==
  /\ \A S, x : IsFiniteSet(S) /\ x \notin S =>
       Cardinality(S \cup {x}) = Cardinality(S) + 1
  /\ \A S, x : IsFiniteSet(S) /\ x \in S =>
       Cardinality(S \ {x}) = Cardinality(S) - 1
  /\ \A S : IsFiniteSet(S) /\ Cardinality(S) # 0 => S # {}
  /\ \A S : IsFiniteSet(S) /\ S # {} => Cardinality(S) \in Nat /\ Cardinality(S) >= 1
<1>1. \A S, x : IsFiniteSet(S) /\ x \notin S => Cardinality(S \cup {x}) = Cardinality(S) + 1
  BY FS_AddElement
<1>2. \A S, x : IsFiniteSet(S) /\ x \in S => Cardinality(S \ {x}) = Cardinality(S) - 1
  BY FS_RemoveElement
<1>3. \A S : IsFiniteSet(S) /\ Cardinality(S) # 0 => S # {}
  BY FS_EmptySet
<1>4. \A S : IsFiniteSet(S) /\ S # {} => Cardinality(S) \in Nat /\ Cardinality(S) >= 1
  <2>1. \A S : IsFiniteSet(S) => Cardinality(S) \in Nat /\ (Cardinality(S) = 0 <=> S = {})
    BY FS_CardinalityType, FS_EmptySet
  <2> QED  BY <2>1
<1> QED  BY <1>1, <1>2, <1>3, <1>4

(* A running task whose peer is there is the newest from its address, and  *)
(* its own entry makes the number of entries positive.                     *)
LEMMA ThereIsNewest ==
  ASSUME TypeInv, RegistryInv, NEW c \in Conn, Live(c), ~gone[c]
  PROVE  /\ c \in registered /\ c <= accepted
         /\ \A d \in registered : AddrOf[d] = AddrOf[c] => d <= c
         /\ c \in Running(AddrOf[c])
         /\ Cardinality(Running(AddrOf[c])) >= 1
<1>1. c <= accepted /\ c \in Nat /\ accepted \in Nat
  <2>1. task[c] # "new"
    BY DEF Live
  <2> QED  BY <2>1, Finite DEF TypeInv, Numbering
<1>2. \A d \in registered : d \in Nat /\ d \in Conn /\ d <= accepted
  BY Finite
<1>3. \A d \in registered : AddrOf[d] = AddrOf[c] => d <= c
  BY <1>1, <1>2 DEF RegistryInv, OlderLeft
<1>4. c \in Running(AddrOf[c])
  BY DEF Running
<1>5. Cardinality(Running(AddrOf[c])) >= 1
  BY <1>4, Finite, Counted
<1>6. At(AddrOf[c]) # {}
  <2>1. AddrOf[c] \in Addrs
    BY Finite
  <2>2. Cardinality(At(AddrOf[c])) # 0
    BY <1>5, <2>1, Finite DEF RegistryInv, Balance
  <2> QED  BY <2>2, Finite, Counted
<1>7. PICK d \in registered : AddrOf[d] = AddrOf[c]
  BY <1>6 DEF At
<1>8. c \in registered
  <2>1. d < c \/ d = c
    BY <1>1, <1>2, <1>3, <1>7
  <2> QED  BY <1>1, <1>7, <2>1 DEF RegistryInv, NewestHeld
<1> QED  BY <1>1, <1>3, <1>4, <1>5, <1>8
-----------------------------------------------------------------------------
LEMMA RegistryInit == Init => RegistryInv
<1> SUFFICES ASSUME Init
             PROVE  RegistryInv
  OBVIOUS
<1>1. registered = {} /\ cmds = <<>> /\ accepted = 0
      /\ task = [c \in Conn |-> "new"] /\ user = [c \in Conn |-> NoUser]
  BY DEF Init
<1>2. \A a : At(a) = {} /\ Running(a) = {} /\ Removals(a) = {}
  BY <1>1 DEF At, Running, Removals, Live
<1>3. Balance
  BY <1>2, FS_EmptySet DEF Balance
<1>4. NewestHeld /\ OlderLeft
  BY <1>1, GatewayAssumption DEF NewestHeld, OlderLeft, Conn
<1>5. SendersAccepted /\ IdentifyInTurn /\ SessionsShown
  BY <1>1 DEF SendersAccepted, IdentifyInTurn, SessionsShown
<1> QED
  BY <1>1, <1>3, <1>4, <1>5 DEF RegistryInv, IdentityEarned, UnboundOutside

(* Steps that leave commands, entries and the set of running tasks alone. *)
LEMMA RegistryFrame ==
  ASSUME TypeInv, RegistryInv,
         UNCHANGED <<accepted, registered, user, cmds>>,
         \A c \in Conn : Live(c)' <=> Live(c),
         \A c \in Conn : task[c] = "ended" => task'[c] = "ended",
         \A c \in Conn : gone[c] => gone'[c],
         \A c \in Conn : shown[c] \subseteq shown'[c]
  PROVE  RegistryInv'
<1> USE DEF RegistryInv
<1>1. registered \subseteq Conn /\ 1..accepted \subseteq Conn
  BY GatewayAssumption DEF TypeInv, TypeOK, Conn
<1>2. NewestHeld' /\ OlderLeft'
  BY DEF NewestHeld, OlderLeft
<1>3. \A a : /\ At(a)' = At(a) /\ Running(a)' = Running(a)
             /\ Removals(a)' = Removals(a)
  BY DEF At, Running, Removals
<1>4. Balance'
  BY <1>3 DEF Balance
<1>5. SendersAccepted'
  BY DEF SendersAccepted
<1>6. IdentifyInTurn'
  <2>1. ASSUME NEW j, NEW c
        PROVE  /\ RemovalsBefore(j, AddrOf[c])' = RemovalsBefore(j, AddrOf[c])
               /\ EntriesUpTo(c)' = EntriesUpTo(c)
    BY <1>3 DEF RemovalsBefore, EntriesUpTo
  <2> QED  BY <2>1 DEF IdentifyInTurn
<1>7. SessionsShown'
  BY <1>1 DEF SessionsShown, SendersAccepted
<1>8. IdentityEarned' /\ UnboundOutside'
  BY <1>1 DEF IdentityEarned, UnboundOutside
<1> QED  BY <1>2, <1>4, <1>5, <1>6, <1>7, <1>8

(* A new connection is the newest of its address, and whoever had the      *)
(* address before has left.                                                 *)
LEMMA RegistryHandshake ==
  ASSUME TypeInv, RegistryInv, HandshakeOk
  PROVE  RegistryInv'
<1> USE DEF RegistryInv
<1> DEFINE n == accepted + 1
<1>1. /\ n \in Conn /\ n \notin registered /\ task[n] = "new" /\ n \in Nat
      /\ AddrOf[n] \in Addrs /\ user[n] = NoUser
      /\ task \in [Conn -> {"new", "open", "blocked", "ended"}]
  <2>1. n \in Conn
    BY GatewayAssumption, Finite DEF HandshakeOk, Conn
  <2>2. n \notin registered /\ n > accepted /\ n \in Nat
    BY Finite
  <2>3. task[n] = "new"
    BY <2>1, <2>2 DEF TypeInv, Numbering
  <2> QED  BY <2>1, <2>2, <2>3, Finite DEF UnboundOutside, TypeInv, TypeOK
<1>2. /\ accepted' = n /\ registered' = registered \cup {n}
      /\ task' = [task EXCEPT ![n] = "open"]
      /\ UNCHANGED <<user, cmds, shown, gone>>
  BY DEF HandshakeOk, history
<1>3. /\ task'[n] = "open" /\ \A c \in Conn : c # n => task'[c] = task[c]
  BY <1>1, <1>2
<1>4. \A c \in Conn : /\ c \in Nat
                      /\ c <= n => c = n \/ c <= accepted
                      /\ c <= accepted => c <= n /\ c # n
  BY Finite
<1> HIDE DEF n
<1>5. NewestHeld'
  BY <1>1, <1>2, <1>4, Finite DEF NewestHeld
<1>6. OlderLeft'
  <2>1. ASSUME NEW c \in Conn, NEW d \in Conn, c < d, d <= n, AddrOf[c] = AddrOf[d]
        PROVE  ~(task'[c] \in {"open", "blocked"}) \/ gone[c]
    <3>1. c # n /\ task'[c] = task[c]
      BY <1>1, <1>3, <1>4, <2>1
    <3>2. CASE d = n
      BY <2>1, <3>1, <3>2 DEF HandshakeOk, Live, n
    <3>3. CASE d # n
      BY <1>4, <2>1, <3>1, <3>3 DEF OlderLeft, Live
    <3> QED  BY <3>2, <3>3
  <2> QED  BY <1>2, <2>1 DEF OlderLeft, Live
<1>7. Balance'
  <2>1. ASSUME NEW a \in Addrs
        PROVE  Cardinality(At(a))' = Cardinality(Running(a))' + Cardinality(Removals(a))'
    <3>1. Removals(a)' = Removals(a)
      BY <1>2 DEF Removals
    <3>2. CASE a # AddrOf[n]
      <4>1. At(a)' = At(a)
        BY <1>2, <3>2 DEF At
      <4>2. Running(a)' = Running(a)
        BY <1>3, <3>2 DEF Running, Live
      <4> QED  BY <2>1, <3>1, <4>1, <4>2 DEF Balance
    <3>3. CASE a = AddrOf[n]
      <4>1. At(a)' = At(a) \cup {n} /\ n \notin At(a)
        BY <1>1, <1>2, <3>3 DEF At
      <4>2. Running(a)' = Running(a) \cup {n} /\ n \notin Running(a)
        BY <1>1, <1>3, <3>3 DEF Running, Live
      <4>3. /\ Cardinality(At(a)') = Cardinality(At(a)) + 1
            /\ Cardinality(Running(a)') = Cardinality(Running(a)) + 1
            /\ Cardinality(Removals(a)') = Cardinality(Removals(a))
        BY <3>1, <4>1, <4>2, Finite, Counted
      <4>4. /\ Cardinality(At(a)) = Cardinality(Running(a)) + Cardinality(Removals(a))
            /\ Cardinality(Running(a)) \in Nat /\ Cardinality(Removals(a)) \in Nat
        BY <2>1, Finite DEF Balance
      <4> QED  BY ONLY <4>3, <4>4
    <3> QED  BY <3>2, <3>3
  <2> QED  BY <2>1 DEF Balance
<1>8. SendersAccepted'
  BY <1>2, Finite DEF SendersAccepted, n
<1>9. IdentifyInTurn'
  <2>1. ASSUME NEW j \in 1..Len(cmds), NEW c \in Conn,
               cmds[j].type = "identify", cmds[j].conn = c
        PROVE  Cardinality(RemovalsBefore(j, AddrOf[c]))' < Cardinality(EntriesUpTo(c))'
    <3>1. RemovalsBefore(j, AddrOf[c])' = RemovalsBefore(j, AddrOf[c])
      BY <1>2 DEF RemovalsBefore, Removals
    <3>2. c < n
      BY <1>4, <2>1, Finite DEF SendersAccepted, n
    <3>3. EntriesUpTo(c)' = EntriesUpTo(c)
      BY <1>1, <1>2, <1>4, <2>1, <3>2 DEF EntriesUpTo
    <3> QED  BY <2>1, <3>1, <3>3 DEF IdentifyInTurn
  <2> QED  BY <1>2, <2>1 DEF IdentifyInTurn
<1>10. SessionsShown'
  BY <1>2 DEF SessionsShown
<1>11. IdentityEarned' /\ UnboundOutside'
  <2>1. \A c \in registered : c # n /\ c \in Conn
    BY <1>1, Finite
  <2> QED  BY <1>1, <1>2, <1>3, <2>1 DEF IdentityEarned, UnboundOutside
<1> QED  BY <1>5, <1>6, <1>7, <1>8, <1>9, <1>10, <1>11

(* A task that ends leaves its place in the balance to its Disconnect. *)
LEMMA RegistryEnd ==
  ASSUME TypeInv, RegistryInv, NEW c \in Conn, Live(c), EndTask(c), UNCHANGED shown
  PROVE  RegistryInv'
<1> USE DEF RegistryInv
<1>1. /\ registered \subseteq Conn /\ accepted \in Nat /\ c \in 1..accepted
      /\ task \in [Conn -> {"new", "open", "blocked", "ended"}]
      /\ AddrOf[c] \in Addrs
  <2>1. ~(c > accepted)
    BY DEF TypeInv, Numbering, Live
  <2> QED  BY <2>1, Finite DEF TypeInv, TypeOK
<1>2. /\ UNCHANGED <<registered, accepted, user, shown, gone>>
      /\ task'[c] = "ended" /\ \A d \in Conn : d # c => task'[d] = task[d]
      /\ \A d \in Conn : task[d] = "ended" => task'[d] = "ended"
  BY <1>1 DEF EndTask
<1>3. /\ Len(cmds) \in Nat /\ Len(cmds') = Len(cmds) + 1
      /\ \A i \in 1..Len(cmds) : cmds'[i] = cmds[i]
      /\ cmds'[Len(cmds) + 1] = Disconnect(c)
  BY FramesTyped, AppendProperties DEF EndTask, TypeInv, TypeOK
<1>4. Disconnect(c).conn = c /\ Disconnect(c).type = "disconnect"
  BY DEF Disconnect
<1> DEFINE n == Len(cmds) + 1
<1>5. /\ \A i : i \in 1..n <=> i \in 1..Len(cmds) \/ i = n
      /\ n \notin 1..Len(cmds) /\ 1..Len(cmds') = 1..n
      /\ \A j \in 1..Len(cmds) : \A i \in 1..n : i < j => i \in 1..Len(cmds)
      /\ \A j \in 1..Len(cmds) : \A i \in 1..Len(cmds) : i < j => i \in 1..n
      /\ cmds'[n] = Disconnect(c)
  BY <1>3
<1> HIDE DEF n
<1>6. NewestHeld' /\ OlderLeft'
  BY <1>2 DEF NewestHeld, OlderLeft, Live
<1>7. /\ Removals(AddrOf[c])' = Removals(AddrOf[c]) \cup {n}
      /\ n \notin Removals(AddrOf[c])
      /\ \A a : a # AddrOf[c] => Removals(a)' = Removals(a)
  BY <1>3, <1>4, <1>5 DEF Removals
<1>8. Balance'
  <2>1. ASSUME NEW a \in Addrs
        PROVE  Cardinality(At(a))' = Cardinality(Running(a))' + Cardinality(Removals(a))'
    <3>1. At(a)' = At(a)
      BY <1>2 DEF At
    <3>2. CASE a # AddrOf[c]
      <4>1. Running(a)' = Running(a)
        BY <1>2, <3>2 DEF Running, Live
      <4> QED  BY <1>7, <2>1, <3>1, <3>2, <4>1 DEF Balance
    <3>3. CASE a = AddrOf[c]
      <4>1. Running(a)' = Running(a) \ {c} /\ c \in Running(a)
        BY <1>2, <3>3 DEF Running, Live
      <4>2. /\ Cardinality(At(a)') = Cardinality(At(a))
            /\ Cardinality(Running(a)') = Cardinality(Running(a)) - 1
            /\ Cardinality(Removals(a)') = Cardinality(Removals(a)) + 1
        BY <1>7, <3>1, <3>3, <4>1, Finite, Counted
      <4>3. /\ Cardinality(At(a)) = Cardinality(Running(a)) + Cardinality(Removals(a))
            /\ Cardinality(Running(a)) \in Nat /\ Cardinality(Removals(a)) \in Nat
        BY <2>1, Finite DEF Balance
      <4> QED  BY ONLY <4>2, <4>3
    <3> QED  BY <3>2, <3>3
  <2> QED  BY <2>1 DEF Balance
<1>9. SendersAccepted'
  BY <1>1, <1>2, <1>3, <1>4, <1>5 DEF SendersAccepted
<1>10. IdentifyInTurn'
  <2>1. ASSUME NEW j \in 1..n, NEW d \in Conn,
               cmds'[j].type = "identify", cmds'[j].conn = d
        PROVE  Cardinality(RemovalsBefore(j, AddrOf[d]))' < Cardinality(EntriesUpTo(d))'
    <3>1. j \in 1..Len(cmds) /\ cmds'[j] = cmds[j]
      BY <1>3, <1>4, <1>5, <2>1
    <3>2. RemovalsBefore(j, AddrOf[d])' = RemovalsBefore(j, AddrOf[d])
      BY <1>3, <1>5, <3>1 DEF RemovalsBefore, Removals
    <3>3. EntriesUpTo(d)' = EntriesUpTo(d)
      BY <1>2 DEF EntriesUpTo
    <3> QED  BY <2>1, <3>1, <3>2, <3>3 DEF IdentifyInTurn
  <2> QED  BY <1>5, <2>1 DEF IdentifyInTurn
<1>11. SessionsShown'
  BY <1>2, <1>3, <1>4, <1>5 DEF SessionsShown
<1>12. IdentityEarned' /\ UnboundOutside'
  BY <1>1, <1>2 DEF IdentityEarned, UnboundOutside
<1> QED  BY <1>6, <1>8, <1>9, <1>10, <1>11, <1>12

(* Whoever identifies is the newest from its address, so all entries there *)
(* are up to its own, and there is one more than Disconnects on their way. *)
LEMMA RegistryRecvIdentify ==
  ASSUME TypeInv, RegistryInv, NEW c \in Conn, NEW s \in Sessions, RecvIdentify(c, s)
  PROVE  RegistryInv'
<1> USE DEF RegistryInv
<1>1. /\ Live(c) /\ ~gone[c] /\ AddrOf[c] \in Addrs
      /\ registered \subseteq Conn /\ accepted \in Nat /\ 1..accepted \subseteq Conn
      /\ shown \in [Conn -> SUBSET Users]
  <2>1. Live(c) /\ ~gone[c]
    BY DEF RecvIdentify, Live
  <2>2. AddrOf[c] \in Addrs /\ registered \subseteq Conn /\ accepted \in Nat
    BY Finite
  <2>3. accepted \in 0..MaxConns /\ shown \in [Conn -> SUBSET Users]
    BY DEF TypeInv, TypeOK
  <2>4. 1..accepted \subseteq Conn
    BY <2>3, GatewayAssumption DEF Conn
  <2> QED  BY <2>1, <2>2, <2>3, <2>4
<1>2. /\ UNCHANGED <<registered, accepted, user, task, gone>>
      /\ \A d \in Conn : shown[d] \subseteq shown'[d]
      /\ SessionUser[s] \in Users => SessionUser[s] \in shown'[c]
  BY <1>1 DEF RecvIdentify
<1>3. /\ Len(cmds) \in Nat /\ Len(cmds') = Len(cmds) + 1
      /\ \A i \in 1..Len(cmds) : cmds'[i] = cmds[i]
      /\ cmds'[Len(cmds) + 1] = Identify(c, s)
  BY FramesTyped, AppendProperties DEF RecvIdentify, TypeInv, TypeOK
<1>4. /\ Identify(c, s).conn = c /\ Identify(c, s).type = "identify"
      /\ Identify(c, s).session = s
  BY DEF Identify
<1> DEFINE n == Len(cmds) + 1
<1>5. /\ \A i : i \in 1..n <=> i \in 1..Len(cmds) \/ i = n
      /\ n \notin 1..Len(cmds) /\ 1..Len(cmds') = 1..n
      /\ \A i \in 1..Len(cmds) : i < n
      /\ cmds'[n] = Identify(c, s)
  BY <1>3
<1> HIDE DEF n
<1>6. NewestHeld' /\ OlderLeft'
  BY <1>2 DEF NewestHeld, OlderLeft, Live
<1>7. \A a : /\ Removals(a)' = Removals(a) /\ At(a)' = At(a)
             /\ Running(a)' = Running(a)
  BY <1>2, <1>3, <1>4, <1>5 DEF Removals, At, Running, Live
<1>8. Balance'
  BY <1>7 DEF Balance
<1>9. c \in 1..accepted
  BY <1>1, ThereIsNewest, Finite
<1>10. SendersAccepted'
  BY <1>2, <1>3, <1>4, <1>5, <1>9 DEF SendersAccepted
<1>11. IdentifyInTurn'
  <2>1. ASSUME NEW j \in 1..n, NEW d \in Conn,
               cmds'[j].type = "identify", cmds'[j].conn = d
        PROVE  Cardinality(RemovalsBefore(j, AddrOf[d]))' < Cardinality(EntriesUpTo(d))'
    <3>1. RemovalsBefore(j, AddrOf[d])' = RemovalsBefore(j, AddrOf[d])
      BY <1>7 DEF RemovalsBefore
    <3>2. EntriesUpTo(d)' = EntriesUpTo(d)
      BY <1>2 DEF EntriesUpTo
    <3>3. CASE j \in 1..Len(cmds)
      BY <1>3, <2>1, <3>1, <3>2, <3>3 DEF IdentifyInTurn
    <3>4. CASE j = n
      <4>1. d = c
        BY <1>4, <1>5, <2>1, <3>4
      <4>2. RemovalsBefore(j, AddrOf[c]) = Removals(AddrOf[c])
        BY <1>5, <3>4 DEF RemovalsBefore, Removals
      <4>3. EntriesUpTo(c) = At(AddrOf[c])
        BY <1>1, ThereIsNewest DEF EntriesUpTo, At
      <4>4. /\ Cardinality(At(AddrOf[c])) =
                 Cardinality(Running(AddrOf[c])) + Cardinality(Removals(AddrOf[c]))
            /\ Cardinality(Running(AddrOf[c])) >= 1
            /\ Cardinality(Running(AddrOf[c])) \in Nat
            /\ Cardinality(Removals(AddrOf[c])) \in Nat
        BY <1>1, ThereIsNewest, Finite DEF Balance
      <4>5. Cardinality(Removals(AddrOf[c])) < Cardinality(At(AddrOf[c]))
        BY ONLY <4>4
      <4> QED  BY <3>1, <3>2, <4>1, <4>2, <4>3, <4>5
    <3> QED  BY <1>5, <3>3, <3>4
  <2> QED  BY <1>5, <2>1 DEF IdentifyInTurn
<1>12. SessionsShown'
  <2>1. ASSUME NEW j \in 1..n, cmds'[j].type = "identify",
               SessionUser[cmds'[j].session] \in Users
        PROVE  SessionUser[cmds'[j].session] \in shown'[cmds'[j].conn]
    <3>1. CASE j \in 1..Len(cmds)
      <4>1. cmds'[j] = cmds[j] /\ cmds[j].conn \in Conn
        BY <1>1, <1>3, <2>1, <3>1 DEF SendersAccepted
      <4> QED  BY <1>2, <2>1, <3>1, <4>1 DEF SessionsShown
    <3>2. CASE j = n
      BY <1>2, <1>4, <1>5, <2>1, <3>2
    <3> QED  BY <1>5, <3>1, <3>2
  <2> QED  BY <1>5, <2>1 DEF SessionsShown
<1>13. IdentityEarned' /\ UnboundOutside'
  BY <1>1, <1>2 DEF IdentityEarned, UnboundOutside
<1> QED  BY <1>6, <1>8, <1>10, <1>11, <1>12, <1>13

LEMMA RegistryNotify ==
  ASSUME TypeInv, RegistryInv, Notify
  PROVE  RegistryInv'
<1> USE DEF RegistryInv
<1>1. UNCHANGED <<accepted, registered, user, task, shown, gone>>
  BY DEF Notify
<1>2. CASE cmds' = cmds
  BY <1>1, <1>2, RegistryFrame DEF Live
<1>3. CASE cmds' = Append(cmds, EventCommand(Head(pg)))
  <2>1. Head(pg) \in Event
    BY TailProperties DEF Notify, TypeInv, TypeOK
  <2>2. /\ Len(cmds) \in Nat /\ Len(cmds') = Len(cmds) + 1
        /\ \A i \in 1..Len(cmds) : cmds'[i] = cmds[i]
        /\ cmds'[Len(cmds) + 1].type = "event"
    BY <1>3, <2>1, FramesTyped, AppendProperties DEF TypeInv, TypeOK, EventCommand
  <2> DEFINE n == Len(cmds) + 1
  <2>3. /\ \A i : i \in 1..Len(cmds') <=> i \in 1..Len(cmds) \/ i = n
        /\ cmds'[n].type = "event"
    BY <2>2
  <2> HIDE DEF n
  <2>4. NewestHeld' /\ OlderLeft' /\ IdentityEarned' /\ UnboundOutside'
    BY <1>1 DEF NewestHeld, OlderLeft, Live, IdentityEarned, UnboundOutside
  <2>5. \A a : /\ Removals(a)' = Removals(a) /\ At(a)' = At(a)
               /\ Running(a)' = Running(a)
    BY <1>1, <2>2, <2>3 DEF Removals, At, Running, Live
  <2>6. Balance'
    BY <2>5 DEF Balance
  <2>7. SendersAccepted' /\ SessionsShown'
    BY <1>1, <2>2, <2>3 DEF SendersAccepted, SessionsShown
  <2>8. IdentifyInTurn'
    <3>1. ASSUME NEW j \in 1..Len(cmds'), NEW c \in Conn,
                 cmds'[j].type = "identify", cmds'[j].conn = c
          PROVE  Cardinality(RemovalsBefore(j, AddrOf[c]))' < Cardinality(EntriesUpTo(c))'
      <4>1. j \in 1..Len(cmds) /\ cmds'[j] = cmds[j]
        BY <2>2, <2>3, <3>1
      <4>2. /\ RemovalsBefore(j, AddrOf[c])' = RemovalsBefore(j, AddrOf[c])
            /\ EntriesUpTo(c)' = EntriesUpTo(c)
        BY <1>1, <2>5 DEF RemovalsBefore, EntriesUpTo
      <4> QED  BY <3>1, <4>1, <4>2 DEF IdentifyInTurn
    <3> QED  BY <3>1 DEF IdentifyInTurn
  <2> QED  BY <2>4, <2>6, <2>7, <2>8
<1> QED  BY <1>2, <1>3 DEF Notify

LEMMA RegistryPanic ==
  ASSUME TypeInv, RegistryInv, Panic
  PROVE  RegistryInv'
<1>1. /\ registered' = {} /\ cmds' = <<>> /\ accepted' = accepted /\ accepted \in Nat
      /\ task' = [c \in Conn |-> IF c <= accepted THEN "ended" ELSE "new"]
      /\ user' = [c \in Conn |-> NoUser]
  BY DEF Panic, TypeInv, TypeOK
<1>2. \A c \in Conn : ~(task'[c] \in {"open", "blocked"})
  BY <1>1
<1>3. NewestHeld' /\ OlderLeft' /\ UnboundOutside' /\ IdentityEarned'
  BY <1>1, <1>2 DEF NewestHeld, OlderLeft, Live, UnboundOutside, IdentityEarned
<1>4. \A a : At(a)' = {} /\ Running(a)' = {} /\ Removals(a)' = {}
  BY <1>1, <1>2 DEF At, Running, Removals, Live
<1>5. Balance'
  BY <1>4, FS_EmptySet DEF Balance
<1>6. SendersAccepted' /\ IdentifyInTurn' /\ SessionsShown'
  BY <1>1 DEF SendersAccepted, IdentifyInTurn, SessionsShown
<1> QED  BY <1>3, <1>5, <1>6 DEF RegistryInv

(* The Disconnects that are left when the head of the queue is taken. *)
LEMMA RemovalsTaken ==
  ASSUME TypeInv, cmds # <<>>, cmds' = Tail(cmds), NEW a
  PROVE  /\ Cardinality(Removals(a))' =
              Cardinality(Removals(a)) - (IF 1 \in Removals(a) THEN 1 ELSE 0)
         /\ \A j \in 1..Len(cmds') :
              Cardinality(RemovalsBefore(j, a)') =
                Cardinality(RemovalsBefore(j + 1, a))
                - (IF 1 \in Removals(a) THEN 1 ELSE 0)
<1>1. /\ Len(cmds) \in Nat /\ Len(cmds') = Len(cmds) - 1 /\ Len(cmds) >= 1
      /\ \A i \in 1..Len(cmds') : cmds'[i] = cmds[i + 1] /\ i + 1 \in 1..Len(cmds)
  BY CommandTaken DEF TypeInv, TypeOK
<1>2. \A i \in Nat \ {0} : i \in 1..Len(cmds') <=> i + 1 \in 1..Len(cmds)
  BY <1>1
<1>3. /\ Removals(a) \subseteq Nat \ {0} /\ Removals(a)' \subseteq Nat \ {0}
      /\ \A i \in Nat \ {0} : i \in Removals(a)' <=> i + 1 \in Removals(a)
  BY <1>1, <1>2 DEF Removals
<1>4. Cardinality(Removals(a)') =
        Cardinality(Removals(a)) - (IF 1 \in Removals(a) THEN 1 ELSE 0)
  <2>1. IsFiniteSet(Removals(a))
    BY Finite
  <2>2. /\ Cardinality(Removals(a)') \in Nat /\ Cardinality(Removals(a)) \in Nat
        /\ Cardinality(Removals(a)) =
             Cardinality(Removals(a)') + (IF 1 \in Removals(a) THEN 1 ELSE 0)
    BY <1>3, <2>1, CountShift
  <2> QED  BY ONLY <2>2
<1>5. ASSUME NEW j \in 1..Len(cmds')
      PROVE  Cardinality(RemovalsBefore(j, a)') =
               Cardinality(RemovalsBefore(j + 1, a))
               - (IF 1 \in Removals(a) THEN 1 ELSE 0)
  <2>1. IsFiniteSet(RemovalsBefore(j + 1, a))
    BY Finite
  <2>2. j \in Nat /\ j >= 1
    BY <1>1, <1>5
  <2>3. /\ RemovalsBefore(j + 1, a) \subseteq Nat \ {0}
        /\ RemovalsBefore(j, a)' \subseteq Nat \ {0}
    BY <1>3 DEF RemovalsBefore
  <2>4. \A i \in Nat \ {0} : i < j <=> i + 1 < j + 1
    BY ONLY <2>2
  <2>5. \A i \in Nat \ {0} :
          i \in RemovalsBefore(j, a)' <=> i + 1 \in RemovalsBefore(j + 1, a)
    BY <1>3, <2>4 DEF RemovalsBefore
  <2>6. 1 \in RemovalsBefore(j + 1, a) <=> 1 \in Removals(a)
    BY <2>2 DEF RemovalsBefore
  <2>7. /\ Cardinality(RemovalsBefore(j, a)') \in Nat
        /\ Cardinality(RemovalsBefore(j + 1, a)) \in Nat
        /\ Cardinality(RemovalsBefore(j + 1, a)) =
             Cardinality(RemovalsBefore(j, a)')
             + (IF 1 \in RemovalsBefore(j + 1, a) THEN 1 ELSE 0)
    BY <2>1, <2>3, <2>5, CountShift
  <2> QED  BY ONLY <2>6, <2>7
<1> QED  BY <1>4, <1>5

(* Taking a command other than a Disconnect. *)
LEMMA RegistryTaken ==
  ASSUME TypeInv, RegistryInv, cmds # <<>>, Head(cmds).type # "disconnect",
         cmds' = Tail(cmds), UNCHANGED <<accepted, registered, task, gone, shown>>,
         IdentityEarned', UnboundOutside'
  PROVE  RegistryInv'
<1> USE DEF RegistryInv
<1>1. /\ Len(cmds) \in Nat /\ Len(cmds') = Len(cmds) - 1 /\ Len(cmds) >= 1
      /\ \A i \in 1..Len(cmds') : cmds'[i] = cmds[i + 1] /\ i + 1 \in 1..Len(cmds)
      /\ Head(cmds) = cmds[1]
  BY CommandTaken DEF TypeInv, TypeOK
<1>2. NewestHeld' /\ OlderLeft'
  BY DEF NewestHeld, OlderLeft, Live
<1>3. SendersAccepted' /\ SessionsShown'
  BY <1>1 DEF SendersAccepted, SessionsShown
<1>4. \A a : 1 \notin Removals(a)
  BY <1>1 DEF Removals
<1>5. Balance'
  <2>1. ASSUME NEW a \in Addrs
        PROVE  Cardinality(At(a))' = Cardinality(Running(a))' + Cardinality(Removals(a))'
    <3>1. At(a)' = At(a) /\ Running(a)' = Running(a)
      BY DEF At, Running, Live
    <3>2. Cardinality(Removals(a))' = Cardinality(Removals(a)) - 0
      BY <1>4, RemovalsTaken
    <3>3. Cardinality(Removals(a)) \in Nat
      BY Finite
    <3>4. Cardinality(Removals(a))' = Cardinality(Removals(a))
      BY ONLY <3>2, <3>3
    <3> QED  BY <2>1, <3>1, <3>4 DEF Balance
  <2> QED  BY <2>1 DEF Balance
<1>6. IdentifyInTurn'
  <2>1. ASSUME NEW j \in 1..Len(cmds'), NEW c \in Conn,
               cmds'[j].type = "identify", cmds'[j].conn = c
        PROVE  Cardinality(RemovalsBefore(j, AddrOf[c])') < Cardinality(EntriesUpTo(c)')
    <3>1. EntriesUpTo(c)' = EntriesUpTo(c)
      BY DEF EntriesUpTo
    <3>2. Cardinality(RemovalsBefore(j, AddrOf[c])') =
            Cardinality(RemovalsBefore(j + 1, AddrOf[c])) - 0
      BY <1>4, <2>1, RemovalsTaken
    <3>3. Cardinality(RemovalsBefore(j + 1, AddrOf[c])) \in Nat
      BY Finite
    <3>4. Cardinality(RemovalsBefore(j, AddrOf[c])') =
            Cardinality(RemovalsBefore(j + 1, AddrOf[c]))
      BY ONLY <3>2, <3>3
    <3> QED  BY <1>1, <2>1, <3>1, <3>4 DEF IdentifyInTurn
  <2> QED  BY <2>1 DEF IdentifyInTurn
<1> QED  BY <1>2, <1>3, <1>5, <1>6

(* A Disconnect takes the oldest entry of its sender's address, of which   *)
(* there is one, and an Identify queued behind it keeps one up to its own. *)
LEMMA RegistryDisconnect ==
  ASSUME TypeInv, RegistryInv, HandleDisconnect
  PROVE  RegistryInv'
<1> USE DEF RegistryInv
<1> DEFINE a0 == AddrOf[Head(cmds).conn]
<1>1. /\ Len(cmds) \in Nat /\ Len(cmds') = Len(cmds) - 1 /\ Len(cmds) >= 1
      /\ \A i \in 1..Len(cmds') : cmds'[i] = cmds[i + 1] /\ i + 1 \in 1..Len(cmds)
      /\ 1 \in 1..Len(cmds) /\ Head(cmds) = cmds[1]
      /\ cmds # <<>> /\ cmds' = Tail(cmds) /\ cmds[1].type = "disconnect"
  BY CommandTaken DEF HandleDisconnect, Next1stCommand, TypeInv, TypeOK
<1>2. a0 \in Addrs
  <2>1. cmds[1].conn \in 1..accepted /\ 1..accepted \subseteq Conn
    BY <1>1, GatewayAssumption DEF SendersAccepted, TypeInv, TypeOK, Conn
  <2> QED  BY <1>1, <2>1, Finite
<1>3. \A a : 1 \in Removals(a) <=> a = a0
  BY <1>1 DEF Removals
<1>4. At(a0) # {}
  <2>1. Cardinality(Removals(a0)) >= 1
    BY <1>3, Finite, Counted
  <2>2. Cardinality(At(a0)) # 0
    BY <1>2, <2>1, Finite DEF Balance
  <2> QED  BY <2>2, Finite, Counted
<1>5. PICK f \in At(a0) : /\ IsFirst(f, At(a0))
                          /\ registered' = registered \ {f}
                          /\ user' = [user EXCEPT ![f] = NoUser]
  BY <1>4, Zenon DEF HandleDisconnect
<1>6. UNCHANGED <<accepted, task, gone, shown>>
  BY DEF HandleDisconnect, history
<1> HIDE DEF a0
<1>7. /\ f \in registered /\ AddrOf[f] = a0 /\ f \in Conn /\ f \in Nat
      /\ \A d \in registered : AddrOf[d] = a0 => f <= d
      /\ \A d \in registered : d \in Nat /\ d \in Conn
  BY <1>5, Finite DEF At, IsFirst
<1>8. NewestHeld'
  <2>1. ASSUME NEW c \in registered', NEW d \in Conn,
               c < d, d <= accepted, AddrOf[c] = AddrOf[d]
        PROVE  d \in registered'
    <3>1. d \in registered /\ c \in registered
      BY <1>5, <2>1 DEF NewestHeld
    <3>2. d # f
      BY <1>7, <2>1, <3>1
    <3> QED  BY <1>5, <3>1, <3>2
  <2> QED  BY <1>6, <2>1 DEF NewestHeld
<1>9. OlderLeft'
  BY <1>6 DEF OlderLeft, Live
<1>10. SendersAccepted' /\ SessionsShown'
  BY <1>1, <1>6 DEF SendersAccepted, SessionsShown
<1>11. Balance'
  <2>1. ASSUME NEW a \in Addrs
        PROVE  Cardinality(At(a))' = Cardinality(Running(a))' + Cardinality(Removals(a))'
    <3>1. Running(a)' = Running(a)
      BY <1>6 DEF Running, Live
    <3>2. Cardinality(Removals(a))' =
            Cardinality(Removals(a)) - (IF 1 \in Removals(a) THEN 1 ELSE 0)
      BY <1>1, RemovalsTaken
    <3>3. /\ Cardinality(At(a)) = Cardinality(Running(a)) + Cardinality(Removals(a))
          /\ Cardinality(Running(a)) \in Nat /\ Cardinality(Removals(a)) \in Nat
      BY <2>1, Finite DEF Balance
    <3>4. CASE a = a0
      <4>1. At(a)' = At(a) \ {f} /\ f \in At(a)
        BY <1>5, <3>4 DEF At
      <4>2. Cardinality(At(a)') = Cardinality(At(a)) - 1
        BY <4>1, Finite, Counted
      <4>3. Cardinality(Removals(a))' = Cardinality(Removals(a)) - 1
        BY <1>3, <3>2, <3>4
      <4>4. Cardinality(Running(a)') = Cardinality(Running(a))
        BY <3>1
      <4> QED  BY ONLY <3>3, <4>2, <4>3, <4>4
    <3>5. CASE a # a0
      <4>1. At(a)' = At(a)
        BY <1>5, <1>7, <3>5 DEF At
      <4>2. Cardinality(Removals(a))' = Cardinality(Removals(a)) - 0
        BY <1>3, <3>2, <3>5
      <4>3. Cardinality(At(a)') = Cardinality(At(a))
            /\ Cardinality(Running(a)') = Cardinality(Running(a))
        BY <3>1, <4>1
      <4> QED  BY ONLY <3>3, <4>2, <4>3
    <3> QED  BY <3>4, <3>5
  <2> QED  BY <2>1 DEF Balance
<1>12. IdentifyInTurn'
  <2>1. ASSUME NEW j \in 1..Len(cmds'), NEW c \in Conn,
               cmds'[j].type = "identify", cmds'[j].conn = c
        PROVE  Cardinality(RemovalsBefore(j, AddrOf[c])') < Cardinality(EntriesUpTo(c)')
    <3> DEFINE a == AddrOf[c]
    <3>1. Cardinality(RemovalsBefore(j, a)') =
            Cardinality(RemovalsBefore(j + 1, a)) - (IF 1 \in Removals(a) THEN 1 ELSE 0)
      BY <1>1, <2>1, RemovalsTaken
    <3>2. /\ Cardinality(RemovalsBefore(j + 1, a)) < Cardinality(EntriesUpTo(c))
          /\ Cardinality(RemovalsBefore(j + 1, a)) \in Nat
          /\ Cardinality(EntriesUpTo(c)) \in Nat
      BY <1>1, <2>1, Finite DEF IdentifyInTurn
    <3>3. CASE a = a0
      <4>1. EntriesUpTo(c) # {}
        BY <3>2, Finite, Counted
      <4>2. PICK e \in registered : AddrOf[e] = a /\ e <= c
        BY <4>1 DEF EntriesUpTo
      <4>3. f <= c
        <5>1. f <= e /\ f \in Nat /\ e \in Nat /\ c \in Nat
          BY <1>7, <2>1, <3>3, <4>2, Finite
        <5> QED  BY ONLY <4>2, <5>1
      <4>4. EntriesUpTo(c)' = EntriesUpTo(c) \ {f} /\ f \in EntriesUpTo(c)
        BY <1>5, <1>7, <3>3, <4>3 DEF EntriesUpTo
      <4>5. Cardinality(EntriesUpTo(c)') = Cardinality(EntriesUpTo(c)) - 1
        BY <4>4, Finite, Counted
      <4>6. Cardinality(RemovalsBefore(j, a)') = Cardinality(RemovalsBefore(j + 1, a)) - 1
        BY <1>3, <3>1, <3>3
      <4> QED  BY ONLY <3>2, <4>5, <4>6
    <3>4. CASE a # a0
      <4>1. EntriesUpTo(c)' = EntriesUpTo(c)
        BY <1>5, <1>7, <3>4 DEF EntriesUpTo
      <4>2. Cardinality(EntriesUpTo(c)') = Cardinality(EntriesUpTo(c))
        BY <4>1
      <4>3. Cardinality(RemovalsBefore(j, a)') = Cardinality(RemovalsBefore(j + 1, a)) - 0
        BY <1>3, <3>1, <3>4
      <4> QED  BY ONLY <3>2, <4>2, <4>3
    <3> QED  BY <3>3, <3>4
  <2> QED  BY <2>1 DEF IdentifyInTurn
<1>13. IdentityEarned' /\ UnboundOutside'
  <2>1. user \in [Conn -> Users \cup {NoUser}]
    BY DEF TypeInv, TypeOK
  <2> QED  BY <1>5, <1>6, <1>7, <2>1 DEF IdentityEarned, UnboundOutside
<1> QED  BY <1>8, <1>9, <1>10, <1>11, <1>12, <1>13

LEMMA RegistryIdentify ==
  ASSUME TypeInv, RegistryInv, HandleIdentify
  PROVE  RegistryInv'
<1> DEFINE sender == Head(cmds).conn
           u == SessionUser[Head(cmds).session]
<1>1. /\ cmds # <<>> /\ Head(cmds) = cmds[1] /\ 1 \in 1..Len(cmds)
      /\ cmds[1].type = "identify"
  BY CommandTaken DEF HandleIdentify, Next1stCommand, TypeInv, TypeOK
<1>2. CASE Panic
  BY <1>2, RegistryPanic
<1>3. CASE /\ cmds' = Tail(cmds)
           /\ UNCHANGED <<accepted, registered, user, task, gone, shown>>
  <2>1. IdentityEarned' /\ UnboundOutside'
    BY <1>3 DEF RegistryInv, IdentityEarned, UnboundOutside
  <2> QED  BY <1>1, <1>3, <2>1, RegistryTaken
<1>4. ASSUME NEW c \in At(AddrOf[sender]), IsFirst(c, At(AddrOf[sender])),
             u \in Users, Bind(c, u)
      PROVE  RegistryInv'
  <2>1. sender \in 1..accepted /\ sender \in Conn /\ sender \in Nat
    <3>1. sender \in 1..accepted /\ 1..accepted \subseteq Conn
      BY <1>1, GatewayAssumption DEF RegistryInv, SendersAccepted, TypeInv, TypeOK, Conn
    <3> QED  BY <3>1
  <2>2. /\ \A d \in registered : d \in Nat /\ d \in Conn /\ d <= accepted
        /\ user \in [Conn -> Users \cup {NoUser}]
        /\ task \in [Conn -> {"new", "open", "blocked", "ended"}]
        /\ c \in registered /\ AddrOf[c] = AddrOf[sender]
    BY <1>4, Finite DEF TypeInv, TypeOK, At
  (* An entry up to the sender's is left, so the first is one of those. *)
  <2>3. c <= sender
    <3>1. Cardinality(RemovalsBefore(1, AddrOf[sender])) < Cardinality(EntriesUpTo(sender))
      BY <1>1, <2>1 DEF RegistryInv, IdentifyInTurn
    <3>2. Cardinality(EntriesUpTo(sender)) # 0
      <4>1. \A n, m \in Nat : n < m => m # 0
        BY ONLY SMT
      <4> QED  BY <3>1, <4>1, Finite
    <3>3. EntriesUpTo(sender) # {}
      BY <3>2, Finite, Counted
    <3>4. PICK e \in registered : AddrOf[e] = AddrOf[sender] /\ e <= sender
      BY <3>3 DEF EntriesUpTo
    <3>5. c <= e
      BY <1>4, <3>4 DEF IsFirst, At
    <3>6. c \in Nat /\ e \in Nat /\ sender \in Nat
      BY <2>1, <2>2
    <3> HIDE DEF sender
    <3> QED  BY ONLY <3>4, <3>5, <3>6
  <2>4. u \in shown[c] \/ gone[c] \/ task[c] = "ended"
    <3>1. CASE c = sender
      BY <1>1, <1>4, <3>1 DEF RegistryInv, SessionsShown
    <3>2. CASE c # sender
      <4>1. c < sender /\ sender <= accepted
        BY <2>1, <2>2, <2>3, <3>2
      <4>2. ~Live(c) \/ gone[c]
        BY <2>1, <2>2, <4>1 DEF RegistryInv, OlderLeft
      <4>3. task[c] # "new"
        <5>1. ~(c > accepted)
          BY <2>2, Finite
        <5> QED  BY <2>2, <5>1 DEF TypeInv, Numbering
      <4> QED  BY <2>2, <4>2, <4>3 DEF Live
    <3> QED  BY <3>1, <3>2
  <2>5. /\ cmds' = Tail(cmds) /\ user' = [user EXCEPT ![c] = u]
        /\ UNCHANGED <<accepted, registered, task, gone, shown>>
    BY <1>4 DEF Bind, history
  <2> HIDE DEF sender, u
  <2>6. IdentityEarned' /\ UnboundOutside'
    BY <2>2, <2>4, <2>5 DEF RegistryInv, IdentityEarned, UnboundOutside
  <2> QED  BY <1>1, <2>5, <2>6, RegistryTaken
<1>5. \/ /\ cmds' = Tail(cmds)
         /\ UNCHANGED <<main, accepted, registered, user, task, gone, late, frame>>
         /\ UNCHANGED <<pg, listening, database, history>>
      \/ Panic
      \/ /\ u \in Users
         /\ \E c \in At(AddrOf[sender]) : IsFirst(c, At(AddrOf[sender])) /\ Bind(c, u)
  BY Zenon DEF HandleIdentify
<1> QED  BY <1>2, <1>3, <1>4, <1>5 DEF history

LEMMA RegistryEvent ==
  ASSUME TypeInv, RegistryInv, HandleEvent
  PROVE  RegistryInv'
<1>1. /\ cmds # <<>> /\ Head(cmds).type = "event"
  BY DEF HandleEvent, Next1stCommand
<1>2. CASE Panic
  BY <1>2, RegistryPanic
<1>3. CASE Route(Head(cmds).event)
  <2>1. cmds' = Tail(cmds) /\ UNCHANGED <<accepted, registered, user, task, gone, shown>>
    BY <1>3 DEF Route
  <2>2. IdentityEarned' /\ UnboundOutside'
    BY <2>1 DEF RegistryInv, IdentityEarned, UnboundOutside
  <2> QED  BY <1>1, <2>1, <2>2, RegistryTaken
<1> QED  BY <1>2, <1>3 DEF HandleEvent

LEMMA RegistryTasks ==
  ASSUME TypeInv, RegistryInv, NEW c \in Conn, Client(c) \/ Task(c)
  PROVE  RegistryInv'
<1>1. task \in [Conn -> {"new", "open", "blocked", "ended"}]
      /\ gone \in [Conn -> BOOLEAN]
  BY DEF TypeInv, TypeOK
<1>2. ASSUME task[c] = "open", EndTask(c), UNCHANGED shown
      PROVE  RegistryInv'
  BY <1>2, RegistryEnd DEF Live
<1>3. ASSUME UNCHANGED <<accepted, registered, user, cmds, shown>>,
             \A d \in Conn : gone[d] => gone'[d],
             \/ task' = task
             \/ task[c] = "open" /\ task' = [task EXCEPT ![c] = "blocked"]
             \/ task[c] = "blocked" /\ task' = [task EXCEPT ![c] = "open"]
      PROVE  RegistryInv'
  <2>1. \A d \in Conn : Live(d)' <=> Live(d)
    BY <1>1, <1>3 DEF Live
  <2>2. \A d \in Conn : task[d] = "ended" => task'[d] = "ended"
    BY <1>1, <1>3
  <2> QED  BY <1>3, <2>1, <2>2, RegistryFrame
<1>4. ASSUME NEW s \in Sessions, RecvIdentify(c, s)
      PROVE  RegistryInv'
  BY <1>4, RegistryRecvIdentify
<1>5. CASE RecvClose(c)
  BY <1>2, <1>5 DEF RecvClose, history
<1>6. CASE RecvPong(c) \/ Vanish(c) \/ Expire(c)
  <2>1. \A d \in Conn : gone[d] => gone'[d]
    BY <1>1, <1>6 DEF RecvPong, Vanish, Expire
  <2> QED  BY <1>3, <1>6, <2>1 DEF RecvPong, Vanish, Expire, history
<1>7. CASE BlockWrite(c) \/ UnblockWrite(c)
  BY <1>3, <1>7 DEF BlockWrite, UnblockWrite, history
<1>8. CASE SendFrame(c)
  BY <1>2, <1>3, <1>8 DEF SendFrame
<1>9. CASE Tick(c)
  <2>1. \/ task[c] = "open" /\ EndTask(c)
        \/ UNCHANGED <<main, accepted, registered, user, task, gone, late, cmds>>
    BY <1>9, Zenon DEF Tick
  <2>2. UNCHANGED shown
    BY <1>9, Zenon DEF Tick, history
  <2> QED  BY <1>2, <1>3, <2>1, <2>2
<1> QED  BY <1>4, <1>5, <1>6, <1>7, <1>8, <1>9 DEF Client, Task

LEMMA RegistryStep == TypeInv /\ RegistryInv /\ [Next]_vars => RegistryInv'
<1> SUFFICES ASSUME TypeInv, RegistryInv, [Next]_vars
             PROVE  RegistryInv'
  OBVIOUS
<1>1. ASSUME UNCHANGED <<accepted, registered, user, task, gone, cmds, shown>>
      PROVE  RegistryInv'
  BY <1>1, RegistryFrame DEF Live
<1>2. CASE UNCHANGED vars
  BY <1>1, <1>2 DEF vars, gateway, history
<1>3. CASE Accept \/ HandshakeFail \/ Restart \/ ListenerFails
  BY <1>1, <1>3 DEF Accept, HandshakeFail, Restart, ListenerFails, gateway, history
<1>4. CASE Database
  <2>1. UNCHANGED <<gateway, listening, history>>
    BY <1>4 DEF Database, PostMessage, UpdateMessage, DeleteMessage, DeleteAccount,
                CreateNotification, Commit
  <2> QED  BY <1>1, <2>1 DEF gateway, history
<1>5. CASE Next
  BY <1>3, <1>4, <1>5, RegistryHandshake, RegistryTasks, RegistryDisconnect,
     RegistryIdentify, RegistryEvent, RegistryNotify
  DEF Next, HandleCommand
<1> QED  BY <1>2, <1>5
-----------------------------------------------------------------------------
(* Nobody whose peer is there is ever bound to a user whose session it has  *)
(* not presented, for every number of connections and every reuse of their  *)
(* addresses, that of a peer whose task still runs included.                *)
THEOREM IdentityIsEarned == Spec => []IdentityEarned
<1>1. RegistryInv => IdentityEarned
  BY DEF RegistryInv
<1> QED
  BY <1>1, TypeInvInit, TypeInvStep, RegistryInit, RegistryStep, PTL DEF Spec

(* The entries of every address are as many as its running tasks and the   *)
(* Disconnects on their way, and a task whose peer is there has its entry.  *)
THEOREM RegistryAgrees == Spec => []RegistryMatchesTasks
<1>1. ASSUME TypeInv, RegistryInv
      PROVE  RegistryMatchesTasks
  <2>1. \A c \in Conn : Live(c) /\ ~gone[c] => c \in registered
    BY <1>1, ThereIsNewest
  <2> QED  BY <1>1, <2>1 DEF RegistryMatchesTasks, RegistryInv, Balance
<1> QED
  BY <1>1, TypeInvInit, TypeInvStep, RegistryInit, RegistryStep, PTL DEF Spec
=============================================================================
