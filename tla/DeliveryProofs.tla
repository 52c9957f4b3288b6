---------------------------- MODULE DeliveryProofs ----------------------------
(* The gateway implements the promise of module Delivery, and never drops an *)
(* event queued to a working connection.  Three queues in a row (the         *)
(* listener's, the command channel, the connection's frames) each keep the   *)
(* order of the database's commits, a panic or a lost subscription empties   *)
(* a queue but reorders nothing, and an event leaves the command channel     *)
(* only once, for the connection that has earned its addressee's identity.   *)
EXTENDS GatewayProofs

-----------------------------------------------------------------------------
(* The events still on their way to the main loop come in commit order: those *)
(* in the command queue before those the listener has yet to read.            *)
QueuesInOrder ==
  /\ \A i, j \in 1..Len(pg) : i < j => pg[i] < pg[j]
  /\ \A i, j \in 1..Len(cmds) :
       i < j /\ cmds[i].type = "event" /\ cmds[j].type = "event" =>
         cmds[i].event < cmds[j].event
  /\ \A i \in 1..Len(cmds), j \in 1..Len(pg) :
       cmds[i].type = "event" => cmds[i].event < pg[j]

(* Event e was committed before everything that is still on its way. *)
Before(e) ==
  /\ \A i \in 1..Len(pg) : e < pg[i]
  /\ \A i \in 1..Len(cmds) : cmds[i].type = "event" => e < cmds[i].event

RoutedFirst ==
  \A e \in Event : route[e] # 0 =>
    e <= Len(log) /\ route[e] <= accepted /\ Before(e)

(* What was written to a connection and what waits in its channel come in   *)
(* commit order.                                                            *)
FramesInOrder ==
  \A c \in Conn :
    /\ \A i, j \in 1..Len(frame[c]) :
         i < j /\ frame[c][i].event # 0 /\ frame[c][j].event # 0 =>
           frame[c][i].event < frame[c][j].event
    /\ \A i \in 1..Len(delivered[c]), j \in 1..Len(frame[c]) :
         frame[c][j].event # 0 => delivered[c][i] < frame[c][j].event

(* An event is only in the channel of the connection it was queued to, which *)
(* has shown a session of its addressee, or which nobody is at.              *)
ToAddressee ==
  \A c \in Conn :
    /\ \A i \in 1..Len(frame[c]) : frame[c][i].event # 0 =>
         /\ route[frame[c][i].event] = c
         /\ Addressee(frame[c][i].event) \in shown[c] \/ gone[c]
    /\ \A i \in 1..Len(delivered[c]) : route[delivered[c][i]] = c

(* Every event of a message, and every message row, names a chat. *)
MessagesHaveChats ==
  /\ \A e \in 1..Len(log) : IsNotification(e) \/ log[e].chat \in Chats
  /\ \A m \in rows : log[m].chat \in Chats

DeliveryInv ==
  /\ QueuesInOrder /\ RoutedFirst /\ FramesInOrder /\ ToAddressee
  /\ MessagesHaveChats /\ NoSilentDrop
-----------------------------------------------------------------------------
LEMMA DeliveryInit == Init => DeliveryInv
  BY GatewayAssumption
  DEF Init, DeliveryInv, QueuesInOrder, RoutedFirst, FramesInOrder, ToAddressee,
      MessagesHaveChats, NoSilentDrop, Conn, Event

(* The lengths, types and ranges the proofs below keep needing. *)
LEMMA DeliveryTypes ==
  ASSUME TypeInv
  PROVE  /\ Len(log) \in Nat /\ accepted \in Nat /\ Len(log) <= MaxEvents
         /\ log \in Seq(EventRecord)
         /\ cmds \in Seq(Command) /\ pg \in Seq(Event)
         /\ \A c \in Conn : c \in Nat /\ c # 0
         /\ \A e \in Event : e \in Nat /\ e # 0
         /\ registered \subseteq Conn
         /\ frame \in [Conn -> Seq(Frame)]
         /\ delivered \in [Conn -> Seq(Event)]
         /\ shown \in [Conn -> SUBSET Users]
         /\ \A c \in Conn : \A i \in 1..Len(frame[c]) :
              frame[c][i].event = 0 \/ frame[c][i].event \in Event
         /\ \A c \in Conn : \A i \in 1..Len(delivered[c]) : delivered[c][i] \in Event
<1>1. /\ Len(log) \in Nat /\ accepted \in Nat /\ Len(log) <= MaxEvents
      /\ log \in Seq(EventRecord)
      /\ cmds \in Seq(Command) /\ pg \in Seq(Event)
      /\ registered \subseteq 1..accepted /\ accepted <= MaxConns
      /\ frame \in [Conn -> Seq(Frame)]
      /\ delivered \in [Conn -> Seq(Event)]
      /\ shown \in [Conn -> SUBSET Users]
  BY GatewayAssumption DEF TypeInv, TypeOK
<1>2. /\ \A c \in Conn : c \in Nat /\ c # 0
      /\ \A e \in Event : e \in Nat /\ e # 0
      /\ registered \subseteq Conn
  BY <1>1, GatewayAssumption DEF Conn, Event
<1>3. \A f \in Frame : f.event = 0 \/ f.event \in Event
  BY GatewayAssumption DEF Frame, Event
<1>4. ASSUME NEW c \in Conn, NEW i \in 1..Len(frame[c])
      PROVE  frame[c][i].event = 0 \/ frame[c][i].event \in Event
  <2>1. frame[c] \in Seq(Frame)
    BY <1>1
  <2>2. frame[c][i] \in Frame
    BY <2>1
  <2> QED  BY <1>3, <2>2
<1>5. ASSUME NEW c \in Conn, NEW i \in 1..Len(delivered[c])
      PROVE  delivered[c][i] \in Event
  <2>1. delivered[c] \in Seq(Event)
    BY <1>1
  <2> QED  BY <2>1
<1> QED  BY <1>1, <1>2, <1>4, <1>5

-----------------------------------------------------------------------------
(* What a step does to the two queues before the main loop: their order is   *)
(* kept, and whatever was committed before all they held still is.           *)
QueuesKept ==
  /\ QueuesInOrder'
  /\ \A e \in 1..Len(log) : Before(e) => Before(e)'

LEMMA QueuesUnchanged ==
  ASSUME QueuesInOrder, UNCHANGED <<cmds, pg>>
  PROVE  QueuesKept
  BY DEF QueuesKept, QueuesInOrder, Before

LEMMA QueuesCommand ==
  ASSUME TypeInv, QueuesInOrder, pg' = pg,
         NEW f \in Command, f.type # "event", cmds' = Append(cmds, f)
  PROVE  QueuesKept
<1>1. /\ Len(cmds) \in Nat /\ Len(cmds') = Len(cmds) + 1
      /\ \A i \in 1..Len(cmds) : cmds'[i] = cmds[i]
      /\ cmds'[Len(cmds) + 1] = f
  BY AppendProperties, DeliveryTypes
<1>2. \A i \in 1..Len(cmds') : cmds'[i].type = "event" =>
        i \in 1..Len(cmds) /\ cmds'[i] = cmds[i]
  BY <1>1
<1> QED  BY <1>2 DEF QueuesKept, QueuesInOrder, Before

LEMMA QueuesTaken ==
  ASSUME TypeInv, QueuesInOrder, pg' = pg, cmds # <<>>, cmds' = Tail(cmds)
  PROVE  /\ QueuesKept
         /\ Head(cmds).type = "event" =>
              \A e : e = Head(cmds).event => Before(e)'
<1>1. /\ Len(cmds) \in Nat /\ Len(cmds') = Len(cmds) - 1 /\ Head(cmds) = cmds[1]
      /\ \A i \in 1..Len(cmds') : cmds'[i] = cmds[i + 1]
  BY CommandTaken, DeliveryTypes
<1>2. /\ 1 \in 1..Len(cmds)
      /\ \A i \in 1..Len(cmds') : i + 1 \in 1..Len(cmds) /\ 1 < i + 1
      /\ \A i, j \in 1..Len(cmds') : i < j => i + 1 < j + 1
  BY <1>1, CommandTaken
<1>3. QueuesInOrder'
  BY <1>1, <1>2 DEF QueuesInOrder
<1>4. \A e : Before(e) => Before(e)'
  BY <1>1, <1>2 DEF Before
<1>5. Head(cmds).type = "event" => \A e : e = Head(cmds).event => Before(e)'
  BY <1>1, <1>2 DEF QueuesInOrder, Before
<1> QED  BY <1>3, <1>4, <1>5 DEF QueuesKept

LEMMA QueuesEmptied ==
  ASSUME QueuesInOrder, pg' = <<>>, cmds' = cmds \/ cmds' = <<>>
  PROVE  QueuesKept
<1>1. \A i \in 1..Len(pg') : FALSE
  OBVIOUS
<1>2. \A i \in 1..Len(cmds') : cmds' = cmds
  OBVIOUS
<1> QED  BY <1>1, <1>2 DEF QueuesKept, QueuesInOrder, Before

LEMMA QueuesNotify ==
  ASSUME TypeInv, QueuesInOrder, Notify
  PROVE  QueuesKept
<1>1. /\ Head(pg) \in Event /\ Head(pg) = pg[1] /\ 1 \in 1..Len(pg)
      /\ Len(pg') = Len(pg) - 1
      /\ \A i \in 1..Len(pg') : pg'[i] = pg[i + 1]
  BY TailProperties, DeliveryTypes DEF Notify
<1>2. /\ \A i \in 1..Len(pg') : i + 1 \in 1..Len(pg) /\ 1 < i + 1
      /\ \A i, j \in 1..Len(pg') : i < j => i + 1 < j + 1
  BY <1>1
<1>3. CASE cmds' = cmds
  BY <1>1, <1>2, <1>3 DEF QueuesKept, QueuesInOrder, Before
<1>4. CASE cmds' = Append(cmds, EventCommand(Head(pg)))
  <2>1. /\ Len(cmds) \in Nat /\ Len(cmds') = Len(cmds) + 1
        /\ \A i \in 1..Len(cmds) : cmds'[i] = cmds[i]
        /\ cmds'[Len(cmds) + 1].event = pg[1]
    BY <1>1, <1>4, FramesTyped, AppendProperties, DeliveryTypes DEF EventCommand
  <2>2. \A i \in 1..Len(cmds') : i \in 1..Len(cmds) \/ i = Len(cmds) + 1
    BY <2>1
  <2>3. \A i \in 1..Len(cmds') : cmds'[i].type = "event" =>
          \A j \in 1..Len(pg') : cmds'[i].event < pg'[j]
    BY <1>1, <1>2, <2>1, <2>2 DEF QueuesInOrder
  <2>4. ASSUME NEW i \in 1..Len(cmds'), NEW j \in 1..Len(cmds'), i < j,
               cmds'[i].type = "event", cmds'[j].type = "event"
        PROVE  cmds'[i].event < cmds'[j].event
    <3>1. i \in 1..Len(cmds)
      BY <2>1, <2>4
    <3> QED  BY <1>1, <2>1, <2>2, <2>4, <3>1 DEF QueuesInOrder
  <2>5. \A i, j \in 1..Len(pg') : i < j => pg'[i] < pg'[j]
    BY <1>1, <1>2 DEF QueuesInOrder
  <2>6. \A e : Before(e) => Before(e)'
    BY <1>1, <1>2, <2>1, <2>2 DEF Before
  <2> QED  BY <2>3, <2>4, <2>5, <2>6 DEF QueuesKept, QueuesInOrder
<1> QED  BY <1>3, <1>4 DEF Notify

LEMMA QueuesCommit ==
  ASSUME TypeInv, QueuesInOrder, NEW records \in Seq(EventRecord), Commit(records)
  PROVE  QueuesKept
<1> DEFINE fresh == [i \in 1..Len(records) |-> Len(log) + i]
<1>1. /\ Len(log) \in Nat /\ Len(log') = Len(log) + Len(records)
      /\ Len(log') <= MaxEvents /\ MaxEvents \in Nat
  BY CommitTyped, DeliveryTypes, GatewayAssumption
<1>2. /\ fresh \in Seq(Event) /\ Len(fresh) = Len(records) /\ Len(records) \in Nat
      /\ \A i \in 1..Len(fresh) : fresh[i] = Len(log) + i
  BY SMTT(20), <1>1 DEF Event
<1> HIDE DEF fresh
<1>3. /\ cmds' = cmds /\ (pg' = pg \/ pg' = pg \o fresh)
  BY DEF Commit, fresh, gateway
<1>4. CASE pg' = pg
  BY <1>3, <1>4, QueuesUnchanged
<1>5. CASE pg' = pg \o fresh
  <2>1. /\ Len(pg) \in Nat /\ Len(pg') = Len(pg) + Len(fresh)
        /\ \A i \in 1..Len(pg) : pg'[i] = pg[i]
        /\ \A i \in 1..Len(fresh) : pg'[Len(pg) + i] = Len(log) + i
    <3>1. pg \in Seq(Event) /\ Len(pg) \in Nat
      BY DeliveryTypes
    <3>2. fresh \in Seq(Event)
      BY <1>2
    <3>3. /\ Len(pg \o fresh) = Len(pg) + Len(fresh)
          /\ \A i \in 1..Len(pg) : (pg \o fresh)[i] = pg[i]
          /\ \A i \in 1..Len(fresh) : (pg \o fresh)[Len(pg) + i] = fresh[i]
      BY ONLY <3>1, <3>2, ConcatProperties
    <3> QED  BY <1>2, <1>5, <3>1, <3>3
  <2>2. ASSUME NEW i \in 1..Len(pg'), i \notin 1..Len(pg)
        PROVE  pg'[i] = Len(log) + (i - Len(pg)) /\ i - Len(pg) >= 1 /\ i > Len(pg)
    <3>1. /\ i - Len(pg) \in 1..Len(fresh) /\ i = Len(pg) + (i - Len(pg))
          /\ i - Len(pg) >= 1 /\ i > Len(pg)
      BY ONLY <1>2, <2>1, <2>2
    <3>2. pg'[Len(pg) + (i - Len(pg))] = Len(log) + (i - Len(pg))
      BY <2>1, <3>1
    <3> QED  BY <3>1, <3>2
  <2>3. /\ \A i \in 1..Len(pg) : pg[i] <= Len(log) /\ pg[i] \in Nat
        /\ \A i \in 1..Len(cmds) : cmds[i].type = "event" =>
             cmds[i].event <= Len(log) /\ cmds[i].event \in Nat
    BY DeliveryTypes DEF TypeInv, QueuedEvents
  <2>4. ASSUME NEW i \in 1..Len(pg'), NEW j \in 1..Len(pg'), i < j
        PROVE  pg'[i] < pg'[j]
    <3>1. CASE j \in 1..Len(pg)
      <4>1. i \in 1..Len(pg)
        BY <2>4, <3>1
      <4> QED  BY <2>1, <2>4, <3>1, <4>1 DEF QueuesInOrder
    <3>2. CASE j \notin 1..Len(pg) /\ i \in 1..Len(pg)
      BY <1>1, <2>1, <2>2, <2>3, <3>2
    <3>3. CASE j \notin 1..Len(pg) /\ i \notin 1..Len(pg)
      BY <1>1, <2>1, <2>2, <2>4, <3>3
    <3> QED  BY <3>1, <3>2, <3>3
  <2>5. \A i \in 1..Len(cmds), j \in 1..Len(pg') :
          cmds[i].type = "event" => cmds[i].event < pg'[j]
    BY <1>1, <2>1, <2>2, <2>3 DEF QueuesInOrder
  <2>6. ASSUME NEW e \in 1..Len(log), Before(e)
        PROVE  Before(e)'
    <3>1. \A j \in 1..Len(pg') : e < pg'[j]
      BY <1>1, <2>1, <2>2, <2>6 DEF Before
    <3> QED  BY <1>3, <2>6, <3>1 DEF Before
  <2> QED  BY <1>3, <2>4, <2>5, <2>6 DEF QueuesKept, QueuesInOrder
<1> QED  BY <1>3, <1>4, <1>5

(* The events queued to a connection stay ahead of what is on its way. *)
LEMMA RoutedStayFirst ==
  ASSUME TypeInv, RoutedFirst, QueuesKept, route' = route,
         accepted' \in Nat, accepted' >= accepted, Len(log') \in Nat, Len(log') >= Len(log)
  PROVE  RoutedFirst'
<1>1. Len(log) \in Nat /\ accepted \in Nat /\ \A e \in Event : e \in Nat /\ e # 0
  BY DeliveryTypes
<1>2. route \in [Event -> 0..MaxConns] /\ MaxConns \in Nat
  BY GatewayAssumption DEF TypeInv, TypeOK
<1>3. ASSUME NEW e \in Event, route[e] # 0
      PROVE  e <= Len(log') /\ route[e] <= accepted' /\ Before(e)'
  <2>1. e <= Len(log) /\ route[e] <= accepted /\ Before(e)
    BY <1>3 DEF RoutedFirst
  <2>2. e \in 1..Len(log) /\ route[e] \in Nat
    BY <1>1, <1>2, <2>1
  <2> QED  BY <1>1, <2>1, <2>2 DEF QueuesKept
<1> QED  BY <1>3 DEF RoutedFirst

-----------------------------------------------------------------------------
(* What a step does to the frame channels and to what was written. *)
FramesKept == FramesInOrder' /\ ToAddressee' /\ NoSilentDrop'

(* An event keeps its record, and a session that was shown stays shown. *)
Remembered ==
  /\ \A e \in 1..Len(log) : log'[e] = log[e]
  /\ \A c \in Conn : shown[c] \subseteq shown'[c]

LEMMA AddresseeKept ==
  ASSUME TypeInv, RoutedFirst, Remembered, NEW e \in Event, route[e] # 0
  PROVE  \A a : a = Addressee(e) => (\A x : x = e => Addressee(x)' = a)
<1>1. e \in 1..Len(log)
  BY DeliveryTypes DEF RoutedFirst
<1> QED  BY <1>1 DEF Remembered, Addressee, IsNotification

(* Steps that leave the channels alone, or that empty the channel of tasks  *)
(* that have ended.                                                         *)
LEMMA FramesDropped ==
  ASSUME TypeInv, RoutedFirst, FramesInOrder, ToAddressee, NoSilentDrop, Remembered,
         UNCHANGED <<route, delivered>>,
         \A c \in Conn : frame'[c] = frame[c] \/ frame'[c] = <<>>,
         \A c \in Conn : gone[c] => gone'[c],
         \A e \in Event : route[e] # 0 =>
           \/ frame'[route[e]] = frame[route[e]] /\ (task[route[e]] = "ended" => task'[route[e]] = "ended")
           \/ task'[route[e]] = "ended"
  PROVE  FramesKept
<1>1. \A c \in Conn : \A i \in 1..Len(frame'[c]) : frame'[c] = frame[c]
  BY DeliveryTypes
<1>2. FramesInOrder'
  BY <1>1 DEF FramesInOrder
<1>3. ToAddressee'
  <2>1. ASSUME NEW c \in Conn, NEW i \in 1..Len(frame'[c]), frame'[c][i].event # 0
        PROVE  /\ route[frame'[c][i].event] = c
               /\ \A x : x = frame'[c][i].event => Addressee(x)' \in shown'[c] \/ gone'[c]
    <3> DEFINE e == frame[c][i].event
    <3>1. frame'[c] = frame[c] /\ i \in 1..Len(frame[c]) /\ e # 0
      BY <1>1, <2>1
    <3>2. e \in Event /\ route[e] = c /\ c # 0 /\ (Addressee(e) \in shown[c] \/ gone[c])
      BY <3>1, DeliveryTypes DEF ToAddressee
    <3> HIDE DEF e
    <3>3. \A x : x = e => Addressee(x)' \in shown'[c] \/ gone'[c]
      BY <3>2, AddresseeKept DEF Remembered
    <3> QED  BY <3>1, <3>2, <3>3 DEF e
  <2> QED  BY <2>1 DEF ToAddressee
<1>4. NoSilentDrop'
  <2>1. ASSUME NEW e \in Event, route[e] # 0, NEW c, c = route[e],
               task'[c] # "ended", ~gone'[c]
        PROVE  \/ \E i \in 1..Len(frame'[c]) : frame'[c][i].event = e
               \/ \E i \in 1..Len(delivered[c]) : delivered[c][i] = e
    <3>1. c \in Conn
      BY <2>1, GatewayAssumption DEF TypeInv, TypeOK, Conn
    <3>2. frame'[c] = frame[c] /\ task[c] # "ended" /\ ~gone[c]
      BY <2>1, <3>1
    <3> QED  BY <2>1, <3>2 DEF NoSilentDrop
  <2> QED  BY <2>1 DEF NoSilentDrop
<1> QED  BY <1>2, <1>3, <1>4 DEF FramesKept

(* A ping or a close frame is queued. *)
LEMMA FramesControl ==
  ASSUME TypeInv, FramesInOrder, ToAddressee, NoSilentDrop,
         UNCHANGED <<route, delivered, task, gone, log, shown>>,
         NEW d \in Conn, NEW f \in Frame, f.event = 0, Enqueue(d, f)
  PROVE  FramesKept
<1>1. /\ frame \in [Conn -> Seq(Frame)] /\ frame[d] \in Seq(Frame)
      /\ Len(Append(frame[d], f)) = Len(frame[d]) + 1
      /\ \A i \in 1..Len(frame[d]) : Append(frame[d], f)[i] = frame[d][i]
      /\ Append(frame[d], f)[Len(frame[d]) + 1] = f
  BY DeliveryTypes, AppendProperties
<1>2. \A c \in Conn : frame'[c] = frame[c] \/ (c = d /\ frame'[c] = Append(frame[d], f))
  BY <1>1 DEF Enqueue
<1>3. ASSUME NEW c \in Conn
      PROVE  /\ \A i \in 1..Len(frame'[c]) : frame'[c][i].event # 0 =>
                  i \in 1..Len(frame[c]) /\ frame'[c][i] = frame[c][i]
             /\ \A i \in 1..Len(frame[c]) :
                  i \in 1..Len(frame'[c]) /\ frame'[c][i] = frame[c][i]
  <2>1. CASE frame'[c] = frame[c]
    BY <2>1
  <2>2. CASE c = d /\ frame'[c] = Append(frame[d], f)
    <3>1. Len(frame[d]) \in Nat
      BY <1>1
    <3>2. \A i \in 1..(Len(frame[d]) + 1) : i \in 1..Len(frame[d]) \/ i = Len(frame[d]) + 1
      BY <3>1
    <3> QED  BY <1>1, <2>2, <3>1, <3>2
  <2> QED  BY <1>2, <2>1, <2>2
<1>4. FramesInOrder'
  <2>1. ASSUME NEW c \in Conn, NEW i \in 1..Len(frame'[c]), NEW j \in 1..Len(frame'[c]),
               i < j, frame'[c][i].event # 0, frame'[c][j].event # 0
        PROVE  frame'[c][i].event < frame'[c][j].event
    BY <1>3, <2>1 DEF FramesInOrder
  <2>2. ASSUME NEW c \in Conn, NEW i \in 1..Len(delivered[c]), NEW j \in 1..Len(frame'[c]),
               frame'[c][j].event # 0
        PROVE  delivered[c][i] < frame'[c][j].event
    BY <1>3, <2>2 DEF FramesInOrder
  <2> QED  BY <2>1, <2>2 DEF FramesInOrder
<1>5. ToAddressee'
  <2>1. ASSUME NEW c \in Conn, NEW i \in 1..Len(frame'[c]), frame'[c][i].event # 0
        PROVE  /\ route[frame'[c][i].event] = c
               /\ \A x : x = frame'[c][i].event => Addressee(x)' \in shown[c] \/ gone[c]
    <3>1. i \in 1..Len(frame[c]) /\ frame'[c][i] = frame[c][i]
      BY <1>3, <2>1
    <3>2. \A x : Addressee(x)' = Addressee(x)
      BY DEF Addressee, IsNotification
    <3> QED  BY <2>1, <3>1, <3>2 DEF ToAddressee
  <2> QED  BY <2>1 DEF ToAddressee
<1>6. NoSilentDrop'
  <2>1. \A e \in Event : route[e] # 0 => route[e] \in Conn
    BY GatewayAssumption DEF TypeInv, TypeOK, Conn
  <2> QED  BY <1>3, <2>1 DEF NoSilentDrop
<1> QED  BY <1>4, <1>5, <1>6 DEF FramesKept

(* The frame at the head is written, or lost to a peer that has vanished. *)
LEMMA FramesWritten ==
  ASSUME TypeInv, FramesInOrder, ToAddressee, NoSilentDrop,
         UNCHANGED <<route, gone, log, shown>>,
         \A x \in Conn : task[x] = "ended" => task'[x] = "ended",
         NEW c \in Conn, frame[c] # <<>>,
         frame' = [frame EXCEPT ![c] = Tail(@)], Written(c, Head(frame[c]))
  PROVE  FramesKept
<1> DEFINE e == frame[c][1].event
<1>1. /\ frame[c] \in Seq(Frame) /\ Head(frame[c]) = frame[c][1]
      /\ 1 \in 1..Len(frame[c]) /\ Len(Tail(frame[c])) = Len(frame[c]) - 1
      /\ Len(frame[c]) \in Nat
      /\ \A i \in 1..Len(Tail(frame[c])) : Tail(frame[c])[i] = frame[c][i + 1]
  BY DeliveryTypes, TailProperties
<1>2. /\ frame'[c] = Tail(frame[c])
      /\ \A d \in Conn : d # c => frame'[d] = frame[d]
  BY DeliveryTypes
<1>3. ASSUME NEW d \in Conn
      PROVE  \E k \in {0, 1} :
               /\ k = 1 => d = c
               /\ \A i \in 1..Len(frame'[d]) :
                    i + k \in 1..Len(frame[d]) /\ frame'[d][i] = frame[d][i + k] /\ i + k > k
  <2>1. CASE d = c
    BY <1>1, <1>2, <2>1
  <2>2. CASE d # c
    <3>1. Len(frame[d]) \in Nat
      BY DeliveryTypes
    <3> QED  BY <1>2, <2>2, <3>1
  <2> QED  BY <2>1, <2>2
<1>4. /\ \A d \in Conn : d # c => delivered'[d] = delivered[d]
      /\ \/ delivered' = delivered /\ (e = 0 \/ gone[c])
         \/ e # 0 /\ delivered'[c] = Append(delivered[c], e)
  BY <1>1, DeliveryTypes DEF Written
<1>5. e = 0 \/ e \in Event
  BY <1>1, DeliveryTypes
<1>6. /\ delivered[c] \in Seq(Event) /\ Len(delivered[c]) \in Nat
      /\ e # 0 =>
           /\ Len(Append(delivered[c], e)) = Len(delivered[c]) + 1
           /\ \A i \in 1..Len(delivered[c]) : Append(delivered[c], e)[i] = delivered[c][i]
           /\ Append(delivered[c], e)[Len(delivered[c]) + 1] = e
  <2>1. delivered[c] \in Seq(Event)
    BY DeliveryTypes
  <2> HIDE DEF e
  <2> QED  BY <1>5, <2>1, AppendProperties
<1> HIDE DEF e
<1>7. ASSUME NEW d \in Conn
      PROVE  /\ \A i \in 1..Len(delivered[d]) :
                  i \in 1..Len(delivered'[d]) /\ delivered'[d][i] = delivered[d][i]
             /\ \A i \in 1..Len(delivered'[d]) :
                  \/ i \in 1..Len(delivered[d]) /\ delivered'[d][i] = delivered[d][i]
                  \/ d = c /\ e # 0 /\ delivered'[d][i] = e
             /\ d = c /\ e # 0 /\ ~gone[c] =>
                  Len(delivered[c]) + 1 \in 1..Len(delivered'[c])
                  /\ delivered'[c][Len(delivered[c]) + 1] = e
  <2>1. CASE delivered'[d] = delivered[d]
    BY <1>4, <1>6, <2>1
  <2>2. CASE d = c /\ e # 0 /\ delivered'[c] = Append(delivered[c], e)
    <3>1. \A i \in 1..(Len(delivered[c]) + 1) :
            i \in 1..Len(delivered[c]) \/ i = Len(delivered[c]) + 1
      BY <1>6
    <3> QED  BY <1>6, <2>2, <3>1
  <2> QED  BY <1>4, <2>1, <2>2
<1>8. FramesInOrder'
  <2>1. ASSUME NEW d \in Conn, NEW i \in 1..Len(frame'[d]), NEW j \in 1..Len(frame'[d]),
               i < j, frame'[d][i].event # 0, frame'[d][j].event # 0
        PROVE  frame'[d][i].event < frame'[d][j].event
    <3>1. PICK k \in {0, 1} : \A n \in 1..Len(frame'[d]) :
            n + k \in 1..Len(frame[d]) /\ frame'[d][n] = frame[d][n + k]
      BY <1>3
    <3>2. i + k < j + k
      BY <2>1
    <3> QED  BY <2>1, <3>1, <3>2 DEF FramesInOrder
  <2>2. ASSUME NEW d \in Conn, NEW i \in 1..Len(delivered'[d]), NEW j \in 1..Len(frame'[d]),
               frame'[d][j].event # 0
        PROVE  delivered'[d][i] < frame'[d][j].event
    <3>1. CASE i \in 1..Len(delivered[d]) /\ delivered'[d][i] = delivered[d][i]
      BY <1>3, <2>2, <3>1 DEF FramesInOrder
    <3>2. CASE d = c /\ e # 0 /\ delivered'[d][i] = e
      <4>0. /\ Len(frame'[c]) = Len(frame[c]) - 1 /\ j \in 1..Len(frame'[c])
            /\ \A n \in 1..Len(frame'[c]) : frame'[c][n] = frame[c][n + 1]
        BY <1>1, <1>2, <2>2, <3>2
      <4>1. j + 1 \in 1..Len(frame[c]) /\ 1 < j + 1 /\ frame'[c][j] = frame[c][j + 1]
        BY ONLY <1>1, <4>0
      <4> QED  BY <1>1, <2>2, <3>2, <4>1 DEF FramesInOrder, e
    <3> QED  BY <1>7, <3>1, <3>2
  <2> QED  BY <2>1, <2>2 DEF FramesInOrder
<1>9. ToAddressee'
  <2>1. ASSUME NEW d \in Conn, NEW i \in 1..Len(frame'[d]), frame'[d][i].event # 0
        PROVE  /\ route[frame'[d][i].event] = d
               /\ \A x : x = frame'[d][i].event => Addressee(x)' \in shown[d] \/ gone[d]
    <3>1. PICK n \in 1..Len(frame[d]) : frame'[d][i] = frame[d][n]
      BY <1>3
    <3>2. \A x : Addressee(x)' = Addressee(x)
      BY DEF Addressee, IsNotification
    <3> QED  BY <2>1, <3>1, <3>2 DEF ToAddressee
  <2>2. e # 0 => route[e] = c
    BY <1>1 DEF ToAddressee, e
  <2>3. \A d \in Conn : \A i \in 1..Len(delivered'[d]) : route[delivered'[d][i]] = d
    BY <1>7, <2>2 DEF ToAddressee
  <2>4. UNCHANGED <<route, gone, shown>>
    OBVIOUS
  <2> QED  BY ONLY <2>1, <2>3, <2>4 DEF ToAddressee
<1>10. NoSilentDrop'
  <2>1. ASSUME NEW x \in Event, route[x] # 0, NEW d, d = route[x],
               task'[d] # "ended", ~gone[d]
        PROVE  \/ \E i \in 1..Len(frame'[d]) : frame'[d][i].event = x
               \/ \E i \in 1..Len(delivered'[d]) : delivered'[d][i] = x
    <3>1. d \in Conn
      BY <2>1, GatewayAssumption DEF TypeInv, TypeOK, Conn
    <3>2. \/ \E i \in 1..Len(frame[d]) : frame[d][i].event = x
          \/ \E i \in 1..Len(delivered[d]) : delivered[d][i] = x
      BY <2>1, <3>1 DEF NoSilentDrop
    <3>3. CASE \E i \in 1..Len(delivered[d]) : delivered[d][i] = x
      BY <1>7, <3>1, <3>3
    <3>4. ASSUME NEW i \in 1..Len(frame[d]), frame[d][i].event = x
          PROVE  \/ \E j \in 1..Len(frame'[d]) : frame'[d][j].event = x
                 \/ \E j \in 1..Len(delivered'[d]) : delivered'[d][j] = x
      <4>1. CASE d # c
        BY <1>2, <3>1, <3>4, <4>1
      <4>2. CASE d = c /\ i = 1
        <5>1. x # 0 /\ x = e
          BY <3>4, <4>2, DeliveryTypes DEF e
        <5> QED  BY <1>7, <2>1, <3>1, <4>2, <5>1
      <4>3. CASE d = c /\ i # 1
        <5>1. /\ i \in 1..Len(frame[c]) /\ i # 1 /\ Len(frame'[c]) = Len(frame[c]) - 1
              /\ \A n \in 1..Len(frame'[c]) : frame'[c][n] = frame[c][n + 1]
          BY <1>1, <1>2, <3>4, <4>3
        <5>2. i - 1 \in 1..Len(frame'[c]) /\ (i - 1) + 1 = i
          BY ONLY <5>1, <1>1
        <5>3. frame'[c][i - 1] = frame[c][i]
          BY <5>1, <5>2
        <5> QED  BY <3>4, <4>3, <5>2, <5>3
      <4> QED  BY <4>1, <4>2, <4>3
    <3> QED  BY <3>2, <3>3, <3>4
  <2> QED  BY <2>1 DEF NoSilentDrop
<1> QED  BY <1>8, <1>9, <1>10 DEF FramesKept

(* The record of an event gives its recipient, as module Delivery names it. *)
LEMMA RecipientIsUser ==
  ASSUME NEW r \in EventRecord,
         r.shape \in {"notification", "notification_object"} \/ r.chat \in Chats
  PROVE  Recipient(r) \in Users
<1>1. r.user \in Users
  BY DEF EventRecord
<1>2. ASSUME r.chat \in Chats
      PROVE  Members[r.chat][1] \in Users /\ Members[r.chat][2] \in Users
  <2>1. Members[r.chat] \in Users \X Users
    BY <1>2, GatewayAssumption
  <2> QED  BY <2>1
<1> QED  BY <1>1, <1>2 DEF Recipient

LEMMA AddresseeIsRecipient ==
  ASSUME TypeInv, MessagesHaveChats, NEW e \in 1..Len(log)
  PROVE  /\ Addressee(e) = Recipient(log[e])
         /\ Addressee(e) \in Users
<1>1. log[e] \in EventRecord
  BY DeliveryTypes
<1>2. Recipient(log[e]) \in Users
  BY <1>1, RecipientIsUser DEF MessagesHaveChats, IsNotification
<1>3. Addressee(e) = Recipient(log[e])
  <2>1. CASE IsNotification(e)
    BY <2>1 DEF Addressee, IsNotification, Recipient
  <2>2. CASE ~IsNotification(e)
    BY <2>2 DEF Addressee, IsNotification, Recipient, Opposite
  <2> QED  BY <2>1, <2>2
<1> QED  BY <1>2, <1>3

(* The main loop queues an event to the connection bound to its addressee. *)
LEMMA RouteKeeps ==
  ASSUME TypeInv, RegistryInv, DeliveryInv, NEW e,
         cmds # <<>>, Head(cmds).type = "event", e = Head(cmds).event, Route(e)
  PROVE  FramesKept /\ RoutedFirst' /\ QueuesInOrder'
<1> USE DEF DeliveryInv
<1> DEFINE f == [opcode |-> Opcode(Variant(log[e].shape)), event |-> e]
<1>1. /\ e \in 1..Len(log) /\ e \in Event /\ Forwarded(log[e].shape)
      /\ cmds[1].type = "event" /\ e = cmds[1].event /\ 1 \in 1..Len(cmds)
  BY CommandTaken, DeliveryTypes, GatewayAssumption
  DEF TypeInv, QueuedEvents, Event
<1>2. UNCHANGED <<accepted, task, gone, log, shown, delivered, pg>> /\ cmds' = Tail(cmds)
  BY DEF Route, database
<1>3. QueuesKept /\ QueuesInOrder' /\ Before(e)'
  <2>1. QueuesKept /\ \A x : x = e => Before(x)'
    BY <1>2, QueuesTaken
  <2> QED  BY <2>1 DEF QueuesKept
<1>4. CASE UNCHANGED <<frame, route>>
  <2>1. RoutedFirst'
    BY <1>2, <1>3, <1>4, RoutedStayFirst, DeliveryTypes
  <2>2. Remembered
    BY <1>2 DEF Remembered
  <2>3. FramesKept
    BY <1>2, <1>4, <2>2, FramesDropped
  <2> QED  BY <1>3, <2>1, <2>3
<1>5. ASSUME NEW c \in Of(Addressee(e)), Enqueue(c, f), route' = [route EXCEPT ![e] = c]
      PROVE  FramesKept /\ RoutedFirst'
  (* An event queued before this one was also committed before it. *)
  <2>1. \A x \in Event : route[x] # 0 => x < e
    BY <1>1 DEF RoutedFirst, Before
  <2>2. /\ c \in registered /\ c \in Conn /\ c <= accepted /\ c \in Nat /\ c # 0
        /\ user[c] = Addressee(e)
    BY <1>5, DeliveryTypes DEF Of, TypeInv, TypeOK
  <2>3. Addressee(e) \in shown[c] \/ gone[c] \/ task[c] = "ended"
    <3>1. Addressee(e) \in Users
      BY <1>1, AddresseeIsRecipient
    <3>2. user[c] # NoUser
      BY <2>2, <3>1, GatewayAssumption
    <3> QED  BY <2>2, <3>2 DEF RegistryInv, IdentityEarned
  <2>4. /\ route'[e] = c /\ \A x \in Event : x # e => route'[x] = route[x]
        /\ route[e] = 0
    <3>1. route \in [Event -> 0..MaxConns] /\ e \in Nat
      BY <1>1, DeliveryTypes DEF TypeInv, TypeOK
    <3> QED  BY <1>1, <1>5, <2>1, <3>1
  <2>5. RoutedFirst'
    <3>1. ASSUME NEW x \in Event, route'[x] # 0
          PROVE  x <= Len(log) /\ route'[x] <= accepted /\ Before(x)'
      <4>1. CASE x = e
        BY <1>1, <1>3, <2>2, <2>4, <4>1, DeliveryTypes
      <4>2. CASE x # e
        <5>1. x <= Len(log) /\ route[x] <= accepted /\ Before(x) /\ route'[x] = route[x]
          BY <2>4, <3>1, <4>2 DEF RoutedFirst
        <5>2. x \in 1..Len(log)
          BY <5>1, DeliveryTypes
        <5> QED  BY <1>3, <5>1, <5>2 DEF QueuesKept
      <4> QED  BY <4>1, <4>2
    <3> QED  BY <1>2, <3>1 DEF RoutedFirst
  <2>6. f.event = e /\ f \in Frame
    <3>1. log[e].shape \in Shapes
      <4>1. log[e] \in EventRecord
        BY <1>1, DeliveryTypes
      <4> QED  BY <4>1 DEF EventRecord
    <3> QED  BY <1>1, <3>1, FramesTyped
  <2> HIDE DEF f
  <2>7. /\ Len(frame[c]) \in Nat
        /\ Len(Append(frame[c], f)) = Len(frame[c]) + 1
        /\ \A i \in 1..Len(frame[c]) : Append(frame[c], f)[i] = frame[c][i]
        /\ Append(frame[c], f)[Len(frame[c]) + 1] = f
    <3>1. frame[c] \in Seq(Frame)
      BY <2>2, DeliveryTypes
    <3> QED  BY <2>6, <3>1, AppendProperties
  <2>8. /\ \A d \in Conn : d # c => frame'[d] = frame[d]
        /\ frame'[c] = frame[c] \/ frame'[c] = Append(frame[c], f)
        /\ task[c] # "ended" => frame'[c] = Append(frame[c], f)
        /\ task[c] = "ended" => frame'[c] = frame[c]
    BY <1>5, <2>2, DeliveryTypes DEF Enqueue
  <2>9. ASSUME NEW d \in Conn
        PROVE  /\ \A i \in 1..Len(frame'[d]) :
                    \/ i \in 1..Len(frame[d]) /\ frame'[d][i] = frame[d][i]
                    \/ /\ d = c /\ i = Len(frame[c]) + 1 /\ frame'[c][i] = f
                       /\ task[c] # "ended"
               /\ \A i \in 1..Len(frame[d]) :
                    i \in 1..Len(frame'[d]) /\ frame'[d][i] = frame[d][i]
    <3>1. CASE frame'[d] = frame[d]
      BY <3>1
    <3>2. CASE d = c /\ frame'[c] = Append(frame[c], f) /\ task[c] # "ended"
      <4>1. \A i \in 1..(Len(frame[c]) + 1) : i \in 1..Len(frame[c]) \/ i = Len(frame[c]) + 1
        BY <2>7
      <4> QED  BY <2>7, <3>2, <4>1
    <3> QED  BY <2>8, <3>1, <3>2
  (* Everything queued or written before came from an older event. *)
  <2>10. ASSUME NEW d \in Conn
         PROVE  /\ \A i \in 1..Len(frame[d]) : frame[d][i].event # 0 =>
                     frame[d][i].event \in Event /\ route[frame[d][i].event] = d
                     /\ frame[d][i].event < e
                /\ \A i \in 1..Len(delivered[d]) :
                     delivered[d][i] \in Event /\ route[delivered[d][i]] = d
                     /\ delivered[d][i] < e
    <3>1. ASSUME NEW i \in 1..Len(frame[d]), frame[d][i].event # 0
          PROVE  /\ frame[d][i].event \in Event /\ route[frame[d][i].event] = d
                 /\ frame[d][i].event < e
      <4>1. frame[d][i].event \in Event /\ route[frame[d][i].event] = d /\ d # 0
        BY <3>1, DeliveryTypes DEF ToAddressee
      <4> QED  BY <2>1, <4>1
    <3>2. ASSUME NEW i \in 1..Len(delivered[d])
          PROVE  /\ delivered[d][i] \in Event /\ route[delivered[d][i]] = d
                 /\ delivered[d][i] < e
      <4>1. delivered[d][i] \in Event /\ route[delivered[d][i]] = d /\ d # 0
        BY <3>2, DeliveryTypes DEF ToAddressee
      <4> QED  BY <2>1, <4>1
    <3> QED  BY <3>1, <3>2
  <2>11. FramesInOrder'
    <3>1. ASSUME NEW d \in Conn, NEW i \in 1..Len(frame'[d]), NEW j \in 1..Len(frame'[d]),
                 i < j, frame'[d][i].event # 0, frame'[d][j].event # 0
          PROVE  frame'[d][i].event < frame'[d][j].event
      <4>1. CASE j \in 1..Len(frame[d]) /\ frame'[d][j] = frame[d][j]
        <5>1. i \in 1..Len(frame[d])
          BY <3>1, <4>1
        <5> QED  BY <2>9, <3>1, <4>1, <5>1 DEF FramesInOrder
      <4>2. CASE d = c /\ j = Len(frame[c]) + 1 /\ frame'[c][j] = f
        <5>1. i \in 1..Len(frame[c])
          BY <2>7, <3>1, <4>2
        <5> QED  BY <2>6, <2>9, <2>10, <3>1, <4>2, <5>1
      <4> QED  BY <2>9, <4>1, <4>2
    <3>2. ASSUME NEW d \in Conn, NEW i \in 1..Len(delivered[d]), NEW j \in 1..Len(frame'[d]),
                 frame'[d][j].event # 0
          PROVE  delivered[d][i] < frame'[d][j].event
      <4>1. CASE j \in 1..Len(frame[d]) /\ frame'[d][j] = frame[d][j]
        BY <3>2, <4>1 DEF FramesInOrder
      <4>2. CASE d = c /\ frame'[c][j] = f
        BY <2>6, <2>10, <4>2
      <4> QED  BY <2>9, <4>1, <4>2
    <3> QED  BY <1>2, <3>1, <3>2 DEF FramesInOrder
  <2>12. ToAddressee'
    <3>1. \A x : Addressee(x)' = Addressee(x)
      BY <1>2 DEF Addressee, IsNotification
    <3>2. ASSUME NEW d \in Conn, NEW i \in 1..Len(frame'[d]), frame'[d][i].event # 0
          PROVE  /\ route'[frame'[d][i].event] = d
                 /\ \A x : x = frame'[d][i].event => Addressee(x)' \in shown'[d] \/ gone'[d]
      <4>1. CASE i \in 1..Len(frame[d]) /\ frame'[d][i] = frame[d][i]
        <5>1. /\ frame[d][i].event # e /\ frame[d][i].event \in Event
              /\ route[frame[d][i].event] = d
          <6>1. frame[d][i].event # 0
            BY <3>2, <4>1
          <6>2. d # 0
            BY DeliveryTypes
          <6>3. \A x : route[x] = d => x # e
            BY <2>4, <6>2
          <6>4. frame[d][i].event \in Event /\ route[frame[d][i].event] = d
            BY <2>10, <4>1, <6>1
          <6> QED  BY ONLY <6>3, <6>4
        <5> QED  BY <1>2, <2>4, <3>1, <3>2, <4>1, <5>1 DEF ToAddressee
      <4>2. CASE d = c /\ frame'[c][i] = f /\ task[c] # "ended"
        BY <1>2, <2>3, <2>4, <2>6, <3>1, <4>2
      <4> QED  BY <2>9, <4>1, <4>2
    <3>3. \A d \in Conn : \A i \in 1..Len(delivered[d]) : route'[delivered[d][i]] = d
      <4>1. \A d \in Conn : d # 0
        BY DeliveryTypes
      <4> QED  BY <2>4, <2>10, <4>1
    <3> QED  BY <1>2, <3>2, <3>3 DEF ToAddressee
  <2>13. NoSilentDrop'
    <3>1. ASSUME NEW x \in Event, NEW d, route'[x] = d, d # 0, task[d] # "ended", ~gone[d]
          PROVE  \/ \E i \in 1..Len(frame'[d]) : frame'[d][i].event = x
                 \/ \E i \in 1..Len(delivered[d]) : delivered[d][i] = x
      <4>1. CASE x = e
        BY <2>4, <2>6, <2>7, <2>8, <3>1, <4>1
      <4>2. CASE x # e
        <5>1. route[x] = d /\ d \in Conn
          BY <2>4, <3>1, <4>2, GatewayAssumption DEF TypeInv, TypeOK, Conn
        <5> QED  BY <2>9, <3>1, <5>1 DEF NoSilentDrop
      <4> QED  BY <4>1, <4>2
    <3> QED  BY <1>2, <3>1 DEF NoSilentDrop
  <2> QED  BY <2>5, <2>11, <2>12, <2>13 DEF FramesKept
<1> QED  BY <1>3, <1>4, <1>5 DEF Route

-----------------------------------------------------------------------------
(* Steps of the tasks, the listener and the loop that change no record of   *)
(* the log, no session shown and no choice of the main loop.                *)
LEMMA DeliverySettled ==
  ASSUME TypeInv, DeliveryInv, QueuesKept, FramesKept,
         UNCHANGED <<route, log, rows>>, accepted' \in Nat, accepted' >= accepted
  PROVE  DeliveryInv'
<1>1. RoutedFirst'
  <2>1. Len(log') \in Nat /\ Len(log') >= Len(log)
    BY DeliveryTypes
  <2> QED  BY <2>1, RoutedStayFirst DEF DeliveryInv
<1>2. MessagesHaveChats'
  BY DEF DeliveryInv, MessagesHaveChats, IsNotification
<1> QED  BY <1>1, <1>2 DEF DeliveryInv, QueuesKept, FramesKept

(* Channels and their tasks untouched, sessions only added. *)
LEMMA DeliveryAside ==
  ASSUME TypeInv, DeliveryInv, QueuesKept,
         UNCHANGED <<route, log, rows, delivered, frame>>,
         accepted' \in Nat, accepted' >= accepted,
         \A c \in Conn : shown[c] \subseteq shown'[c],
         \A c \in Conn : gone[c] => gone'[c],
         \A c \in Conn : task[c] = "ended" => task'[c] = "ended"
  PROVE  DeliveryInv'
<1>1. Remembered
  BY DEF Remembered
<1>2. \A e \in Event : route[e] # 0 => route[e] \in Conn
  BY GatewayAssumption DEF TypeInv, TypeOK, Conn
<1>3. FramesKept
  BY <1>1, <1>2, FramesDropped DEF DeliveryInv
<1> QED  BY <1>3, DeliverySettled

LEMMA DeliveryEnd ==
  ASSUME TypeInv, DeliveryInv, NEW c \in Conn, EndTask(c),
         UNCHANGED <<pg, log, rows, route, shown, delivered>>
  PROVE  DeliveryInv'
<1>1. QueuesKept
  BY FramesTyped, QueuesCommand DEF EndTask, DeliveryInv, Disconnect
<1>2. /\ frame' = [frame EXCEPT ![c] = <<>>] /\ task' = [task EXCEPT ![c] = "ended"]
      /\ frame \in [Conn -> Seq(Frame)]
      /\ task \in [Conn -> {"new", "open", "blocked", "ended"}]
      /\ gone' = gone /\ accepted' = accepted
  BY DEF EndTask, TypeInv, TypeOK
<1>3. \A e \in Event : route[e] # 0 => route[e] \in Conn
  BY GatewayAssumption DEF TypeInv, TypeOK, Conn
<1>4. Remembered
  BY DEF Remembered
<1>5. FramesKept
  BY <1>2, <1>3, <1>4, FramesDropped DEF DeliveryInv
<1> QED  BY <1>1, <1>2, <1>5, DeliverySettled, DeliveryTypes

LEMMA DeliveryControl ==
  ASSUME TypeInv, DeliveryInv, QueuesKept, NEW c \in Conn, NEW f \in Frame, f.event = 0,
         Enqueue(c, f),
         UNCHANGED <<accepted, task, gone, log, rows, route, shown, delivered>>
  PROVE  DeliveryInv'
<1>1. FramesKept
  BY FramesControl DEF DeliveryInv
<1> QED  BY <1>1, DeliverySettled, DeliveryTypes

LEMMA DeliveryWrite ==
  ASSUME TypeInv, DeliveryInv, NEW c \in Conn, frame[c] # <<>>,
         frame' = [frame EXCEPT ![c] = Tail(@)], Written(c, Head(frame[c])),
         \A x \in Conn : task[x] = "ended" => task'[x] = "ended",
         UNCHANGED <<accepted, gone, cmds, pg, log, rows, route, shown>>
  PROVE  DeliveryInv'
<1>1. QueuesKept
  BY QueuesUnchanged DEF DeliveryInv
<1>2. FramesKept
  BY FramesWritten DEF DeliveryInv
<1> QED  BY <1>1, <1>2, DeliverySettled, DeliveryTypes

LEMMA DeliveryPanic ==
  ASSUME TypeInv, DeliveryInv, Panic
  PROVE  DeliveryInv'
<1>1. QueuesKept
  BY QueuesEmptied DEF Panic, DeliveryInv
<1>2. UNCHANGED <<accepted, gone, log, rows, route, shown, delivered>>
  BY DEF Panic, database, history
<1>3. \A e \in Event : route[e] # 0 => route[e] \in Conn /\ route[e] <= accepted
  BY GatewayAssumption DEF DeliveryInv, RoutedFirst, TypeInv, TypeOK, Conn
<1>4. /\ \A c \in Conn : frame'[c] = <<>>
      /\ \A e \in Event : route[e] # 0 => task'[route[e]] = "ended"
  BY <1>3 DEF Panic
<1>5. Remembered
  BY <1>2 DEF Remembered
<1>6. FramesKept
  BY <1>2, <1>4, <1>5, FramesDropped DEF DeliveryInv
<1> QED  BY <1>1, <1>2, <1>6, DeliverySettled, DeliveryTypes

LEMMA DeliveryTasks ==
  ASSUME TypeInv, DeliveryInv, NEW c \in Conn, Client(c) \/ Task(c)
  PROVE  DeliveryInv'
<1>1. task \in [Conn -> {"new", "open", "blocked", "ended"}] /\ gone \in [Conn -> BOOLEAN]
  BY DEF TypeInv, TypeOK
<1>2. accepted \in Nat /\ frame \in [Conn -> Seq(Frame)] /\ shown \in [Conn -> SUBSET Users]
  BY DeliveryTypes
<1>3. UNCHANGED <<cmds, pg>> => QueuesKept
  BY QueuesUnchanged DEF DeliveryInv
<1>4. ASSUME NEW s \in Sessions, RecvIdentify(c, s)
      PROVE  DeliveryInv'
  <2>1. QueuesKept
    BY <1>4, FramesTyped, QueuesCommand DEF RecvIdentify, DeliveryInv, Identify
  <2>2. \A d \in Conn : shown[d] \subseteq shown'[d]
    BY <1>2, <1>4 DEF RecvIdentify
  <2>3. UNCHANGED <<route, log, rows, delivered, frame, accepted, gone, task>>
    BY <1>4 DEF RecvIdentify, database
  <2> QED  BY <1>2, <2>1, <2>2, <2>3, DeliveryAside
<1>5. CASE RecvClose(c)
  BY <1>5, DeliveryEnd DEF RecvClose, database, history
<1>6. CASE RecvPong(c) \/ Vanish(c) \/ Expire(c) \/ BlockWrite(c)
  <2>1. UNCHANGED <<route, log, rows, delivered, frame, accepted, cmds, pg, shown>>
    BY <1>6 DEF RecvPong, Vanish, Expire, BlockWrite, database, history
  <2>2. /\ \A d \in Conn : gone[d] => gone'[d]
        /\ \A d \in Conn : task[d] = "ended" => task'[d] = "ended"
    BY <1>1, <1>6 DEF RecvPong, Vanish, Expire, BlockWrite
  <2> QED  BY <1>2, <1>3, <2>1, <2>2, DeliveryAside
<1>7. CASE SendFrame(c)
  <2>1. CASE EndTask(c) /\ UNCHANGED delivered
    BY <1>7, <2>1, DeliveryEnd DEF SendFrame, database
  <2>2. CASE /\ frame' = [frame EXCEPT ![c] = Tail(@)]
             /\ Written(c, Head(frame[c]))
             /\ UNCHANGED <<main, accepted, registered, user, task, gone, late, cmds>>
    BY <1>7, <2>2, DeliveryWrite DEF SendFrame, database
  <2> QED  BY <1>7, <2>1, <2>2 DEF SendFrame
<1>8. CASE UnblockWrite(c)
  <2>1. frame[c] # <<>>
    BY <1>8 DEF UnblockWrite, TypeInv, BlockedHolds
  <2>2. \A x \in Conn : task[x] = "ended" => task'[x] = "ended"
    BY <1>1, <1>8 DEF UnblockWrite
  <2> QED  BY <1>8, <2>1, <2>2, DeliveryWrite DEF UnblockWrite, database
<1>9. CASE Tick(c)
  <2>1. CASE EndTask(c)
    BY <1>9, <2>1, DeliveryEnd DEF Tick, database, history
  <2>2. CASE /\ Enqueue(c, PingFrame)
             /\ UNCHANGED <<main, accepted, registered, user, task, gone, late, cmds>>
    <3>1. UNCHANGED <<pg, log, rows, route, shown, delivered>>
      BY <1>9, Zenon DEF Tick, database, history
    <3>2. PingFrame \in Frame /\ PingFrame.event = 0
      BY FramesTyped DEF PingFrame
    <3> QED  BY <1>3, <2>2, <3>1, <3>2, DeliveryControl
  <2> QED  BY <1>9, <2>1, <2>2, Zenon DEF Tick
<1> QED  BY <1>4, <1>5, <1>6, <1>7, <1>8, <1>9 DEF Client, Task

LEMMA DeliveryCommand ==
  ASSUME TypeInv, RegistryInv, DeliveryInv, HandleCommand
  PROVE  DeliveryInv'
<1>1. CASE Panic
  BY <1>1, DeliveryPanic
<1>2. ASSUME cmds # <<>>, cmds' = Tail(cmds), pg' = pg
      PROVE  QueuesKept
  BY <1>2, QueuesTaken DEF DeliveryInv
<1>3. ASSUME cmds # <<>>, cmds' = Tail(cmds),
             UNCHANGED <<accepted, task, gone, frame, pg, log, rows, route, shown, delivered>>
      PROVE  DeliveryInv'
  BY <1>2, <1>3, DeliveryAside, DeliveryTypes
<1>4. CASE HandleDisconnect
  BY <1>3, <1>4 DEF HandleDisconnect, Next1stCommand, database, history
<1>5. ASSUME NEW u \in Users, NEW c \in registered, cmds # <<>>, Bind(c, u)
      PROVE  DeliveryInv'
  <2>1. UNCHANGED <<accepted, task, gone, pg, log, rows, route, shown, delivered>>
    BY <1>5 DEF Bind, database, history
  <2>2. CASE UNCHANGED frame
    BY <1>3, <1>5, <2>1, <2>2 DEF Bind
  <2>3. ASSUME NEW d \in Of(u), Enqueue(d, CloseFrame)
        PROVE  DeliveryInv'
    <3>1. d \in Conn
      BY <2>3, DeliveryTypes DEF Of
    <3>2. CloseFrame \in Frame /\ CloseFrame.event = 0
      BY FramesTyped DEF CloseFrame
    <3>3. QueuesKept
      BY <1>2, <1>5, <2>1 DEF Bind
    <3> QED  BY <2>1, <2>3, <3>1, <3>2, <3>3, DeliveryControl
  <2> QED  BY <1>5, <2>2, <2>3 DEF Bind
<1>6. CASE HandleIdentify
  BY <1>1, <1>3, <1>5, <1>6
  DEF HandleIdentify, Next1stCommand, At, database, history
<1>7. CASE HandleEvent
  <2>1. ASSUME NEW e, e = Head(cmds).event, Route(e)
        PROVE  DeliveryInv'
    <3>1. FramesKept /\ RoutedFirst' /\ QueuesInOrder'
      BY <1>7, <2>1, RouteKeeps DEF HandleEvent, Next1stCommand
    <3>2. MessagesHaveChats'
      BY <2>1 DEF Route, database, DeliveryInv, MessagesHaveChats, IsNotification
    <3> QED  BY <3>1, <3>2 DEF DeliveryInv, FramesKept
  <2> QED  BY <1>1, <1>7, <2>1 DEF HandleEvent
<1> QED  BY <1>4, <1>6, <1>7 DEF HandleCommand

-----------------------------------------------------------------------------
(* A transaction announces messages of chats, and notifications. *)
Announces(records) ==
  /\ Commit(records)
  /\ \A i \in 1..Len(records) :
       \/ records[i].shape \in {"notification", "notification_object"}
       \/ records[i].chat \in Chats
  /\ \A m \in rows' : m \in rows \/ \E i \in 1..Len(records) :
       m = Len(log) + i /\ records[i].chat \in Chats

LEMMA DeliveryCommit ==
  ASSUME TypeInv, DeliveryInv, NEW records \in Seq(EventRecord), Announces(records)
  PROVE  DeliveryInv'
<1> USE DEF DeliveryInv, Announces
<1>1. UNCHANGED <<accepted, task, gone, frame, cmds, route, shown, delivered>>
  BY DEF Commit, gateway, history
<1>2. /\ Len(log) \in Nat /\ Len(records) \in Nat
      /\ Len(log') = Len(log) + Len(records)
      /\ \A i \in 1..Len(log) : log'[i] = log[i]
      /\ \A i \in 1..Len(records) : log'[Len(log) + i] = records[i]
  <2>1. log \in Seq(EventRecord)
    BY DeliveryTypes
  <2>2. log' = log \o records
    BY DEF Commit
  <2> QED  BY <2>1, <2>2, ConcatProperties
<1>3. RoutedFirst' /\ QueuesInOrder'
  BY <1>1, <1>2, QueuesCommit, RoutedStayFirst, DeliveryTypes DEF QueuesKept
<1>4. FramesKept
  <2>1. Remembered
    BY <1>1, <1>2 DEF Remembered
  <2> QED  BY <1>1, <2>1, FramesDropped
<1>5. MessagesHaveChats'
  <2>1. ASSUME NEW e \in 1..Len(log')
        PROVE  \/ e \in 1..Len(log)
               \/ \E i \in 1..Len(records) : e = Len(log) + i
    <3>1. e \notin 1..Len(log) =>
            e - Len(log) \in 1..Len(records) /\ e = Len(log) + (e - Len(log))
      BY ONLY <1>2, <2>1
    <3> QED  BY <3>1
  <2>2. ASSUME NEW e \in 1..Len(log')
        PROVE  \/ log'[e].shape \in {"notification", "notification_object"}
               \/ log'[e].chat \in Chats
    <3>1. CASE e \in 1..Len(log)
      BY <1>2, <3>1 DEF MessagesHaveChats, IsNotification
    <3>2. CASE \E i \in 1..Len(records) : e = Len(log) + i
      BY <1>2, <3>2
    <3> QED  BY <2>1, <3>1, <3>2
  <2>3. ASSUME NEW m \in rows'
        PROVE  log'[m].chat \in Chats
    <3>1. CASE m \in rows
      BY <1>2, <3>1 DEF MessagesHaveChats, TypeInv, TypeOK
    <3>2. CASE \E i \in 1..Len(records) : m = Len(log) + i /\ records[i].chat \in Chats
      BY <1>2, <3>2
    <3> QED  BY <3>1, <3>2
  <2> QED  BY <2>2, <2>3 DEF MessagesHaveChats, IsNotification
<1> QED  BY <1>3, <1>4, <1>5 DEF FramesKept

LEMMA DatabaseAnnounces ==
  ASSUME TypeInv, DeliveryInv, Database
  PROVE  \E records \in Seq(EventRecord) : Announces(records)
<1>1. ASSUME NEW m \in rows, NEW shape \in Shapes
      PROVE  /\ [log[m] EXCEPT !.shape = shape] \in EventRecord
             /\ [log[m] EXCEPT !.shape = shape].chat \in Chats
  <2>1. log[m] \in EventRecord /\ log[m].chat \in Chats
    BY DEF TypeInv, TypeOK, DeliveryInv, MessagesHaveChats
  <2> QED  BY <2>1 DEF EventRecord
<1>2. ASSUME NEW k \in Chats, NEW u \in Users, PostMessage(k, u)
      PROVE  \E records \in Seq(EventRecord) : Announces(records)
  <2> DEFINE sent == <<[shape |-> "created", chat |-> k, user |-> u]>>
  <2>1. sent \in Seq(EventRecord) /\ Len(sent) = 1 /\ sent[1].chat \in Chats
    BY DEF EventRecord, Shapes
  <2>2. Commit(sent) /\ rows' = rows \cup {Len(log) + 1}
    BY <1>2 DEF PostMessage
  <2> HIDE DEF sent
  <2>3. 1 \in 1..Len(sent) /\ \A i \in 1..Len(sent) : i = 1
    BY <2>1
  <2> QED  BY <2>1, <2>2, <2>3 DEF Announces
<1>3. ASSUME NEW m \in rows, UpdateMessage(m) \/ DeleteMessage(m)
      PROVE  \E records \in Seq(EventRecord) : Announces(records)
  <2>1. PICK shape \in {"updated", "deleted"} :
          Commit(<<[log[m] EXCEPT !.shape = shape]>>)
    BY <1>3 DEF UpdateMessage, DeleteMessage
  <2> DEFINE r == [log[m] EXCEPT !.shape = shape]
             sent == <<r>>
  <2>2. r \in EventRecord /\ r.chat \in Chats
    BY <1>1 DEF Shapes
  <2>3. Commit(sent) /\ rows' \subseteq rows
    BY <1>3, <2>1 DEF UpdateMessage, DeleteMessage
  <2> HIDE DEF r
  <2>4. /\ sent \in Seq(EventRecord) /\ Len(sent) = 1 /\ sent[1] = r
    BY <2>2
  <2> HIDE DEF sent
  <2>5. \A i \in 1..Len(sent) : i = 1
    BY <2>4
  <2> QED  BY <2>2, <2>3, <2>4, <2>5 DEF Announces
<1>4. ASSUME NEW u \in Users, DeleteAccount(u)
      PROVE  \E records \in Seq(EventRecord) : Announces(records)
  <2>0. PICK n \in 0..MaxEvents : \E order \in [1..n -> rows] :
          Commit([i \in 1..n |-> [log[order[i]] EXCEPT !.shape = "deleted"]])
    <3> DEFINE own == {m \in rows : log[m].user = u}
    <3>1. PICK n \in 0..MaxEvents : \E order \in [1..n -> own] :
            Commit([i \in 1..n |-> [log[order[i]] EXCEPT !.shape = "deleted"]])
      BY <1>4, ZenonT(20) DEF DeleteAccount
    <3>2. \A order \in [1..n -> own] : order \in [1..n -> rows]
      BY DEF own
    <3> QED  BY <3>1, <3>2, Zenon
  <2>1. PICK order \in [1..n -> rows] :
          Commit([i \in 1..n |-> [log[order[i]] EXCEPT !.shape = "deleted"]])
    BY <2>0
  <2> DEFINE sent == [i \in 1..n |-> [log[order[i]] EXCEPT !.shape = "deleted"]]
  <2>2. ASSUME NEW i \in 1..n
        PROVE  sent[i] \in EventRecord /\ sent[i].chat \in Chats
    <3>1. order[i] \in rows /\ "deleted" \in Shapes
      BY DEF Shapes
    <3> QED  BY <1>1, <3>1
  <2>3. sent \in Seq(EventRecord) /\ Len(sent) = n
    <3>1. \A i \in 1..n : [log[order[i]] EXCEPT !.shape = "deleted"] \in EventRecord
      BY <2>2
    <3> QED  BY <3>1, GatewayAssumption
  <2>4. Commit(sent) /\ rows' \subseteq rows
    BY <1>4, <2>1 DEF DeleteAccount
  <2> HIDE DEF sent
  <2> QED  BY <2>2, <2>3, <2>4 DEF Announces
<1>5. ASSUME NEW u \in Users, NEW shape \in {"notification", "notification_object"},
             CreateNotification(shape, u)
      PROVE  \E records \in Seq(EventRecord) : Announces(records)
  <2> DEFINE sent == <<[shape |-> shape, chat |-> NoChat, user |-> u]>>
  <2>1. /\ sent \in Seq(EventRecord) /\ Len(sent) = 1
        /\ sent[1].shape \in {"notification", "notification_object"}
    BY DEF EventRecord, Shapes
  <2>2. Commit(sent) /\ rows' = rows
    BY <1>5 DEF CreateNotification
  <2> HIDE DEF sent
  <2>3. \A i \in 1..Len(sent) : i = 1
    BY <2>1
  <2> QED  BY <2>1, <2>2, <2>3 DEF Announces
<1> QED  BY <1>2, <1>3, <1>4, <1>5 DEF Database

LEMMA DeliveryDatabase ==
  ASSUME TypeInv, DeliveryInv, Database
  PROVE  DeliveryInv'
  BY DatabaseAnnounces, DeliveryCommit

LEMMA DeliveryStep ==
  TypeInv /\ RegistryInv /\ DeliveryInv /\ [Next]_vars => DeliveryInv'
<1> SUFFICES ASSUME TypeInv, RegistryInv, DeliveryInv, [Next]_vars
             PROVE  DeliveryInv'
  OBVIOUS
<1>1. accepted \in Nat /\ QueuesInOrder
  BY DeliveryTypes DEF DeliveryInv
<1>2. ASSUME UNCHANGED <<accepted, task, gone, frame, log, rows, route, shown, delivered>>,
             QueuesKept
      PROVE  DeliveryInv'
  BY <1>1, <1>2, DeliveryAside
<1>3. CASE UNCHANGED vars \/ Accept \/ HandshakeFail \/ Restart
  <2>1. UNCHANGED <<accepted, task, gone, frame, cmds, pg, log, rows, route, shown, delivered>>
    BY <1>3 DEF vars, Accept, HandshakeFail, Restart, gateway, database, history
  <2> QED  BY <1>1, <1>2, <2>1, QueuesUnchanged
<1>4. CASE HandshakeOk
  <2>1. /\ UNCHANGED <<gone, frame, cmds, pg, log, rows, route, shown, delivered>>
        /\ accepted' = accepted + 1
    BY <1>4 DEF HandshakeOk, database, history
  <2>2. \A c \in Conn : task[c] = "ended" => task'[c] = "ended"
    <3>1. task' = [task EXCEPT ![accepted + 1] = "open"] /\ accepted < MaxConns
      BY <1>4 DEF HandshakeOk
    <3>2. accepted + 1 \in Conn /\ task \in [Conn -> {"new", "open", "blocked", "ended"}]
      BY <1>1, <3>1, GatewayAssumption DEF Conn, TypeInv, TypeOK
    <3>3. task[accepted + 1] = "new"
      BY <1>1, <3>2 DEF TypeInv, Numbering
    <3> QED  BY <3>1, <3>2, <3>3
  <2> QED  BY <1>1, <2>1, <2>2, QueuesUnchanged, DeliveryAside
<1>5. CASE Notify
  <2>1. UNCHANGED <<accepted, task, gone, frame, log, rows, route, shown, delivered>>
    BY <1>5 DEF Notify, database
  <2> QED  BY <1>1, <1>2, <1>5, <2>1, QueuesNotify
<1>6. CASE ListenerFails
  <2>1. UNCHANGED <<accepted, task, gone, frame, log, rows, route, shown, delivered, cmds>>
        /\ pg' = <<>>
    BY <1>6 DEF ListenerFails, gateway, database, history
  <2> QED  BY <1>1, <1>2, <2>1, QueuesEmptied
<1>7. CASE Next
  BY <1>3, <1>4, <1>5, <1>6, <1>7, DeliveryTasks, DeliveryCommand, DeliveryDatabase
  DEF Next
<1> QED  BY <1>3, <1>7

(* An event queued to a connection is never dropped while the connection    *)
(* works, for every number of connections, users, chats and events.         *)
THEOREM NothingIsDropped == Spec => []NoSilentDrop
<1>1. DeliveryInv => NoSilentDrop
  BY DEF DeliveryInv
<1> QED
  BY <1>1, TypeInvInit, TypeInvStep, RegistryInit, RegistryStep,
     DeliveryInit, DeliveryStep, PTL DEF Spec

-----------------------------------------------------------------------------
(* The refinement of module Delivery. *)
Published == [i \in 1..Len(log) |-> Recipient(log[i])]

LEMMA DeliveryRefinesInit == Init => D!Init
<1> SUFFICES ASSUME Init
             PROVE  D!Init
  OBVIOUS
<1>1. log = <<>> /\ shown = [c \in Conn |-> {}] /\ delivered = [c \in Conn |-> <<>>]
  BY DEF Init
<1>2. [i \in 1..Len(log) |-> Recipient(log[i])] = <<>>
  BY <1>1
<1> QED  BY <1>1, <1>2 DEF D!Init

LEMMA PublishedTyped ==
  ASSUME log \in Seq(EventRecord)
  PROVE  /\ Len(Published) = Len(log)
         /\ \A i \in 1..Len(log) : Published[i] = Recipient(log[i])
  BY DEF Published

LEMMA RefinesCommit ==
  ASSUME TypeInv, TypeInv', DeliveryInv, DeliveryInv',
         NEW records \in Seq(EventRecord), Commit(records)
  PROVE  D!Publish
<1>1. /\ Len(log) \in Nat /\ Len(records) \in Nat
      /\ Len(log') = Len(log) + Len(records)
      /\ \A i \in 1..Len(log) : log'[i] = log[i]
      /\ log \in Seq(EventRecord) /\ log' \in Seq(EventRecord)
  BY CommitTyped, DeliveryTypes
<1>2. /\ Len(Published) = Len(log) /\ Len(Published') = Len(log')
      /\ \A i \in 1..Len(log) : Published[i] = Recipient(log[i])
      /\ \A i \in 1..Len(log') : Published'[i] = Recipient(log'[i])
  BY <1>1 DEF Published
<1>3. \A i \in 1..Len(log') : Recipient(log'[i]) \in Users
  <2>1. ASSUME NEW i \in 1..Len(log')
        PROVE  Recipient(log'[i]) \in Users
    <3>1. log'[i] \in EventRecord
      BY <1>1
    <3>2. \/ log'[i].shape \in {"notification", "notification_object"}
          \/ log'[i].chat \in Chats
      BY DEF DeliveryInv, MessagesHaveChats, IsNotification
    <3> QED  BY <3>1, <3>2, RecipientIsUser
  <2> QED  BY <2>1
<1>4. UNCHANGED <<shown, delivered>>
  BY DEF Commit, history
<1>5. /\ Len(Published') >= Len(Published)
      /\ \A i \in 1..Len(Published) : Published'[i] = Published[i]
      /\ \A i \in 1..Len(Published') : Published'[i] \in Users
  BY <1>1, <1>2, <1>3
<1> QED  BY <1>4, <1>5 DEF D!Publish, Published

LEMMA RefinesWrite ==
  ASSUME TypeInv, DeliveryInv, NEW c \in Conn, frame[c] # <<>>,
         Written(c, Head(frame[c])), UNCHANGED <<log, shown>>
  PROVE  [D!Next]_(D!vars)
<1> USE DEF DeliveryInv
<1> DEFINE e == frame[c][1].event
<1>1. /\ Head(frame[c]) = frame[c][1] /\ 1 \in 1..Len(frame[c])
  <2>1. frame[c] \in Seq(Frame)
    BY DeliveryTypes
  <2> QED  BY <2>1, TailProperties
<1>2. CASE delivered' = delivered
  BY <1>2 DEF D!vars
<1>3. CASE e # 0 /\ ~gone[c] /\ delivered' = [delivered EXCEPT ![c] = Append(@, e)]
  <2>1. e \in Event /\ route[e] = c /\ Addressee(e) \in shown[c] /\ c # 0
    BY <1>1, <1>3, DeliveryTypes DEF ToAddressee
  <2>2. e \in 1..Len(log) /\ log \in Seq(EventRecord)
    BY <2>1, DeliveryTypes DEF RoutedFirst
  <2>3. Len(Published) = Len(log) /\ Published[e] \in shown[c]
    BY <2>1, <2>2, AddresseeIsRecipient, PublishedTyped
  <2>4. \A i \in 1..Len(delivered[c]) : delivered[c][i] < e
    BY <1>1, <1>3 DEF FramesInOrder
  <2>5. ASSUME NEW d \in Conn, NEW i \in 1..Len(delivered[d]), delivered[d][i] = e
        PROVE  FALSE
    <3>1. d = c
      BY <2>1, <2>5 DEF ToAddressee
    <3>2. e < e /\ e \in Nat
      BY <2>1, <2>4, <2>5, <3>1, DeliveryTypes
    <3> QED  BY ONLY <3>2
  <2> HIDE DEF e
  <2>6. D!Deliver(c, e)
    BY <1>3, <2>3, <2>4, <2>5 DEF D!Deliver, Published
  <2> QED  BY <2>2, <2>3, <2>6 DEF D!Next, Published
<1>4. \/ delivered' = delivered
      \/ e # 0 /\ ~gone[c] /\ delivered' = [delivered EXCEPT ![c] = Append(@, e)]
  BY <1>1 DEF Written
<1> QED  BY <1>2, <1>3, <1>4

LEMMA RefinesStep ==
  TypeInv /\ TypeInv' /\ DeliveryInv /\ DeliveryInv' /\ [Next]_vars => [D!Next]_(D!vars)
<1> SUFFICES ASSUME TypeInv, TypeInv', DeliveryInv, DeliveryInv', [Next]_vars
             PROVE  [D!Next]_(D!vars)
  OBVIOUS
<1>1. ASSUME UNCHANGED <<log, shown, delivered>>
      PROVE  [D!Next]_(D!vars)
  BY <1>1 DEF D!vars
<1>2. CASE UNCHANGED vars
  BY <1>1, <1>2 DEF vars, database, history
<1>3. CASE Accept \/ HandshakeOk \/ HandshakeFail \/ Restart \/ Notify \/ ListenerFails
  BY <1>1, <1>3 DEF Accept, HandshakeOk, HandshakeFail, Restart, Notify, ListenerFails,
                    database, history
<1>4. CASE HandleCommand
  <2>1. CASE Panic
    BY <1>1, <2>1 DEF Panic, database, history
  <2>2. \A c, u : Bind(c, u) => UNCHANGED <<log, shown, delivered>>
    BY DEF Bind, database, history
  <2>3. \A e : Route(e) => UNCHANGED <<log, shown, delivered>>
    BY DEF Route, database
  <2> QED
    BY <1>1, <1>4, <2>1, <2>2, <2>3
    DEF HandleCommand, HandleDisconnect, HandleIdentify, HandleEvent, database, history
<1>5. ASSUME NEW c \in Conn, Client(c)
      PROVE  [D!Next]_(D!vars)
  <2>1. CASE RecvPong(c) \/ RecvClose(c) \/ Vanish(c)
    BY <1>1, <2>1 DEF RecvPong, RecvClose, Vanish, database, history
  <2>2. ASSUME NEW s \in Sessions, RecvIdentify(c, s)
        PROVE  [D!Next]_(D!vars)
    <3>1. /\ shown' = [shown EXCEPT ![c] = @ \cup ({SessionUser[s]} \cap Users)]
          /\ shown \in [Conn -> SUBSET Users]
          /\ UNCHANGED <<log, delivered>>
      BY <2>2, DeliveryTypes DEF RecvIdentify, database
    <3>2. CASE SessionUser[s] \in Users
      <4>1. shown' = [shown EXCEPT ![c] = @ \cup {SessionUser[s]}]
        BY <3>1, <3>2
      <4>2. D!Show(c, SessionUser[s])
        BY <3>1, <4>1 DEF D!Show
      <4> QED  BY <3>2, <4>2 DEF D!Next
    <3>3. CASE SessionUser[s] \notin Users
      <4>1. shown' = shown
        BY <3>1, <3>3
      <4> QED  BY <1>1, <3>1, <4>1
    <3> QED  BY <3>2, <3>3
  <2> QED  BY <1>5, <2>1, <2>2 DEF Client
<1>6. ASSUME NEW c \in Conn, Task(c)
      PROVE  [D!Next]_(D!vars)
  <2>1. CASE BlockWrite(c) \/ Expire(c) \/ Tick(c)
    <3>1. UNCHANGED <<log, shown, delivered>>
      BY <2>1, Zenon DEF BlockWrite, Expire, Tick, database, history
    <3> QED  BY <1>1, <3>1
  <2>2. CASE SendFrame(c)
    BY <1>1, <2>2, RefinesWrite DEF SendFrame, database
  <2>3. CASE UnblockWrite(c)
    BY <2>3, RefinesWrite DEF UnblockWrite, TypeInv, BlockedHolds, database
  <2> QED  BY <1>6, <2>1, <2>2, <2>3 DEF Task
<1>7. CASE Database
  BY <1>7, DatabaseAnnounces, RefinesCommit DEF Announces, D!Next
<1> QED  BY <1>2, <1>3, <1>4, <1>5, <1>6, <1>7 DEF Next

(* What reaches the clients is what module Delivery promises, for every     *)
(* number of connections, users, chats and events.                          *)
THEOREM DeliveryIsImplemented == Spec => DeliverySpec
<1> QED
  BY TypeInvInit, TypeInvStep, RegistryInit, RegistryStep,
     DeliveryInit, DeliveryStep, DeliveryRefinesInit, RefinesStep, PTL
  DEF Spec, DeliverySpec, D!Spec
=============================================================================
