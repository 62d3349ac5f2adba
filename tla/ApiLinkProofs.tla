--------------------------- MODULE ApiLinkProofs ---------------------------
(***************************************************************************)
(* The API server for any number of clients, values and events: no slot    *)
(* leaks, a client that subscribes at any moment ends with the current     *)
(* value, and without a fault the main loop counts the clients there are.  *)
(*                                                                         *)
(* The argument about values is about a connection that nothing is being   *)
(* sent to.  If its channel holds anything, the last it holds is current;  *)
(* if not, the snapshots not yet dispatched are, and if there are none the *)
(* client shows it.  A connection outside its loop holds nothing.          *)
(*                                                                         *)
(* The argument about the count follows the messages on their way: each    *)
(* leads from one count to the next, from that of the main loop to the     *)
(* number of clients, and none that a counted client sent meets a zero.    *)
(***************************************************************************)
EXTENDS ApiLink, TLAPS, SequenceTheorems, FiniteSetTheorems

Snapshots(c) == {i \in DOMAIN events[c] : events[c][i].kind = "state"}

\* What a connection holds of the value, while no set_state is under way.
Current(c) ==
  /\ queue[c] # <<>> => queue[c][Len(queue[c])] = state
  /\ queue[c] = <<>> => \A i \in Snapshots(c) : events[c][i].value = state
  /\ queue[c] = <<>> /\ subscribed[c] /\ Snapshots(c) = {} => view[c] = state

Fresh(c) ==
  /\ stage[c] = "dispatch" => events[c] # <<>>
  /\ stage[c] = "fanout" => events[c] = <<>>
  /\ ~Serving(c) => events[c] = <<>> /\ queue[c] = <<>>
  /\ stage[c] = "free" => ~subscribed[c]
  /\ Serving(c) /\ ~sending => Current(c)

Occupied == {c \in Conns : stage[c] # "free"}

\* The inductive invariant.
ApiInv ==
  /\ TypeOK
  /\ \A c \in Conns : Fresh(c)

-----------------------------------------------------------------------------
(***************************************************************************)
(* Slots.                                                                  *)
(***************************************************************************)
LEMMA OccupiedFinite == IsFiniteSet(Occupied)
  BY BoundsAssumption, FS_Subset DEF Occupied

\* The listener spawns a thread and counts it.
LEMMA SlotTaken ==
  ASSUME TypeOK, SlotsExact, NEW c \in Conns, Connect(c)
  PROVE  SlotsExact'
<1>1. c \notin Occupied /\ Occupied' = Occupied \cup {c}
  BY DEF Connect, Goto, Occupied, TypeOK
<1>2. Cardinality(Occupied \cup {c}) = Cardinality(Occupied) + 1
  BY <1>1, OccupiedFinite, FS_AddElement
<1>3. active' = active + 1 /\ active < MaxClients /\ active \in Nat
  BY DEF Connect, TypeOK
<1>4. QED
  BY <1>1, <1>2, <1>3, BoundsAssumption DEF SlotsExact, Occupied

\* A thread that ends gives its slot back.
LEMMA SlotGivenBack ==
  ASSUME TypeOK, SlotsExact, NEW c \in Conns, End(c)
  PROVE  SlotsExact'
<1>1. c \in Occupied /\ Occupied' = Occupied \ {c}
  BY DEF End, Goto, Occupied, TypeOK
<1>2. Cardinality(Occupied \ {c}) = Cardinality(Occupied) - 1
  BY <1>1, OccupiedFinite, FS_RemoveElement
<1>3. active' = active - 1 /\ active \in Nat
  BY DEF End, TypeOK
<1>4. QED
  BY <1>1, <1>2, <1>3, BoundsAssumption DEF SlotsExact, Occupied

\* Every other step of a thread leaves its slot taken.
LEMMA SlotKept ==
  ASSUME TypeOK, SlotsExact, NEW c \in Conns, stage[c] # "free",
         UNCHANGED active,
         stage' = stage \/ \E where \in Stages \ {"free"} : Goto(c, where)
  PROVE  SlotsExact'
<1>1. Occupied' = Occupied
  BY DEF Goto, Occupied, TypeOK
<1>2. QED
  BY <1>1 DEF SlotsExact, Occupied

\* Every step keeps the count of slots.
LEMMA SlotsStep ==
  ASSUME TypeOK, SlotsExact, [Next]_vars
  PROVE  SlotsExact'
<1>1. ASSUME NEW c \in Conns, Connect(c) \/ End(c)
      PROVE  SlotsExact'
  BY <1>1, SlotTaken, SlotGivenBack
<1>2. ASSUME NEW c \in Conns,
             \/ IdlePasses(c) \/ ReadDone(c) \/ Dispatch(c) \/ Fanout(c) \/ Keepalive(c) \/ Leave(c)
             \/ \E how \in Peers : PeerFails(c, how)
             \/ \E m \in Requests : Receive(c, m)
      PROVE  SlotsExact'
  <2>1. UNCHANGED active /\ stage[c] # "free"
    BY <1>2 DEF IdlePasses, ReadDone, Dispatch, Fanout, Keepalive, Leave, PeerFails, Receive, Serving
  <2>2. stage' = stage \/ \E where \in Stages \ {"free"} : Goto(c, where)
    BY <1>2 DEF IdlePasses, ReadDone, Dispatch, Fanout, Keepalive, Leave, PeerFails, Receive,
                Over, Abort, Listen, Stages
  <2>3. QED
    BY <2>1, <2>2, SlotKept
<1>3. CASE MainLoop \/ UNCHANGED vars
  <2>1. UNCHANGED <<active, stage>>
    BY <1>3 DEF MainLoop, HandleMsg, Record, Push, vars
  <2>2. QED
    BY <2>1 DEF SlotsExact, Occupied
<1>4. QED
  BY <1>1, <1>2, <1>3 DEF Next, Thread

-----------------------------------------------------------------------------
(***************************************************************************)
(* Types.                                                                  *)
(***************************************************************************)
LEMMA EventTypes ==
  /\ \A kind \in {"subscribed", "command", "strayCommand", "close"} :
       Ev(kind) \in Events /\ Ev(kind).kind = kind
  /\ TypeOK => Snapshot \in Events /\ Snapshot.kind = "state" /\ Snapshot.value = state
  BY BoundsAssumption DEF Ev, Events, Snapshot, TypeOK

\* What one message adds to the events of its chunk.
Answers(c, m) ==
  IF phase[c] # "AwaitHello" THEN Handled(m, subscribed[c])
  ELSE IF m = "hello" THEN <<>> ELSE <<Ev("close")>>

\* What a session answers is a sequence of events.
LEMMA AnswersType ==
  ASSUME TypeOK, NEW c \in Conns, NEW m \in Requests
  PROVE  Answers(c, m) \in Seq(Events)
  BY EventTypes DEF Answers, Handled

\* Leaving the loop, by whatever way, keeps the types.
LEMMA OverType ==
  ASSUME TypeOK, NEW c \in Conns, NEW where \in Stages, Over(c, where),
         UNCHANGED <<active, main, inbox>>, faults' \in 0..MaxFaults
  PROVE  TypeOK'
<1>1. <<>> \in Seq(Events) /\ <<>> \in Seq(0..MaxUpdates)
  BY EmptySeq
<1>2. QED
  BY <1>1 DEF Over, Goto, TypeOK, Peers, Stages, main

\* A fault is counted up to its bound.
LEMMA FaultType ==
  ASSUME TypeOK
  PROVE  Fault => faults' \in 0..MaxFaults
  BY BoundsAssumption DEF Fault, TypeOK

\* Every step keeps the types; the count of threads needs SlotsExact.
LEMMA TypeStep ==
  ASSUME ApiInv, SlotsExact', [Next]_vars
  PROVE  TypeOK'
<1>0. TypeOK
  BY DEF ApiInv
<1> USE <1>0
<1>1. ASSUME NEW c \in Conns, Connect(c)
      PROVE  TypeOK'
  BY <1>1 DEF Connect, Goto, TypeOK, Peers, Stages, session, main
<1>2. ASSUME NEW c \in Conns, NEW how \in Peers, PeerFails(c, how)
      PROVE  TypeOK'
  BY <1>2 DEF PeerFails, TypeOK, session, main
<1>3. ASSUME NEW c \in Conns, IdlePasses(c)
      PROVE  TypeOK'
  <2>1. idle[c] + 1 \in 0..2
    BY <1>3 DEF IdlePasses
  <2>2. QED
    BY <1>3, <2>1 DEF IdlePasses, TypeOK, main
<1>4. ASSUME NEW c \in Conns, NEW m \in Requests, Receive(c, m)
      PROVE  TypeOK'
  <2>1. events[c] \in Seq(Events) /\ Answers(c, m) \in Seq(Events)
    BY AnswersType DEF TypeOK
  <2>2. events' = [events EXCEPT ![c] = @ \o Answers(c, m)]
    BY <1>4 DEF Receive, Answers
  <2>3. events' \in [Conns -> Seq(Events)]
    BY <2>1, <2>2, ConcatProperties DEF TypeOK
  <2>4. phase' \in [Conns -> {"AwaitHello", "Connected", "Closing"}]
    BY <1>4 DEF Receive, TypeOK
  <2>5. subscribed' \in [Conns -> BOOLEAN] /\ idle' \in [Conns -> 0..2] /\ pinged' \in [Conns -> BOOLEAN]
    BY <1>4 DEF Receive, TypeOK
  <2>6. faults' \in 0..MaxFaults
    BY <1>4, FaultType DEF Receive, TypeOK
  <2>7. QED
    BY <1>4, <2>3, <2>4, <2>5, <2>6 DEF Receive, TypeOK, main
<1>5. ASSUME NEW c \in Conns, ReadDone(c)
      PROVE  TypeOK'
  <2>1. CASE Over(c, "leaving")
    BY <1>5, <2>1, OverType DEF ReadDone, Stages, TypeOK
  <2>2. CASE UNCHANGED <<peer, session>> /\ stage' \in [Conns -> Stages]
    BY <1>5, <2>2 DEF ReadDone, TypeOK, session, main
  <2>3. QED
    BY <1>5, <2>1, <2>2 DEF ReadDone, Goto, TypeOK, Stages
<1>6. ASSUME NEW c \in Conns, Dispatch(c)
      PROVE  TypeOK'
  <2>0. events[c] # <<>>
    BY <1>6 DEF Dispatch, ApiInv, Fresh
  <2>1. /\ events[c] \in Seq(Events) /\ Head(events[c]) \in Events /\ Tail(events[c]) \in Seq(Events)
    BY <2>0, HeadTailProperties DEF TypeOK
  <2>2. CASE Over(c, "leaving")
    <3>1. UNCHANGED <<active, main, inbox>> /\ faults' \in 0..MaxFaults
      BY <1>6, <2>2, FaultType DEF Dispatch, WriteFails, TypeOK, Over, Goto
    <3>2. QED
      BY <2>2, <3>1, OverType DEF Stages
  <2>3. CASE ~Over(c, "leaving")
    <3>1. /\ events' = [events EXCEPT ![c] = Tail(@)]
          /\ IF Len(events[c]) = 1 THEN Goto(c, "fanout") ELSE UNCHANGED stage
          /\ UNCHANGED <<peer, phase, subscribed, queue, idle, pinged, faults, active, main>>
          /\ \/ view' = [view EXCEPT ![c] = Head(events[c]).value] /\ UNCHANGED inbox
             \/ UNCHANGED view /\ \E msg \in Msgs : Tell(msg)
      BY <1>6, <2>3 DEF Dispatch, Msgs
    <3>2. events' \in [Conns -> Seq(Events)] /\ stage' \in [Conns -> Stages]
      BY <2>1, <3>1 DEF TypeOK, Goto, Stages
    <3>3. view' \in [Conns -> {Unseen} \cup 0..MaxUpdates]
      BY <2>1, <3>1 DEF TypeOK, Events
    <3>4. inbox' \in Seq(Msgs)
      <4>1. CASE UNCHANGED inbox
        BY <4>1 DEF TypeOK
      <4>2. ASSUME NEW msg \in Msgs, inbox' = Append(inbox, msg)
            PROVE  inbox' \in Seq(Msgs)
        BY <4>2, AppendProperties DEF TypeOK
      <4>3. QED
        BY <3>1, <4>1, <4>2 DEF Tell
    <3>5. QED
      BY <3>1, <3>2, <3>3, <3>4 DEF TypeOK, main
  <2>4. QED
    BY <2>2, <2>3
<1>7. ASSUME NEW c \in Conns, Fanout(c)
      PROVE  TypeOK'
  <2>1. queue[c] \in Seq(0..MaxUpdates) /\ Head(queue[c]) \in 0..MaxUpdates /\ Tail(queue[c]) \in Seq(0..MaxUpdates)
    BY <1>7, HeadTailProperties DEF Fanout, TypeOK
  <2>2. CASE Abort(c)
    BY <1>7, <2>2, OverType, FaultType DEF Fanout, Abort, WriteFails, Stages
  <2>3. CASE ~Abort(c)
    <3>1. /\ view' = IF subscribed[c] THEN [view EXCEPT ![c] = Head(queue[c])] ELSE view
          /\ queue' = [queue EXCEPT ![c] = Tail(@)]
          /\ UNCHANGED <<peer, stage, phase, subscribed, events, idle, pinged, faults, active, main, inbox>>
      BY <1>7, <2>3 DEF Fanout
    <3>2. view' \in [Conns -> {Unseen} \cup 0..MaxUpdates] /\ queue' \in [Conns -> Seq(0..MaxUpdates)]
      BY <2>1, <3>1 DEF TypeOK
    <3>3. QED
      BY <3>1, <3>2 DEF TypeOK, main
  <2>4. QED
    BY <2>2, <2>3
<1>8. ASSUME NEW c \in Conns, Keepalive(c)
      PROVE  TypeOK'
  <2>1. CASE Over(c, "leaving") /\ UNCHANGED faults
    BY <1>8, <2>1, OverType DEF Keepalive, Stages, TypeOK
  <2>2. CASE Abort(c)
    BY <1>8, <2>2, OverType, FaultType DEF Keepalive, Abort, WriteFails, Stages
  <2>3. CASE Listen(c) /\ pinged' \in [Conns -> BOOLEAN] /\ UNCHANGED faults
    BY <1>8, <2>3 DEF Keepalive, Listen, Goto, Stages, TypeOK, main
  <2>4. QED
    BY <1>8, <2>1, <2>2, <2>3 DEF Keepalive, TypeOK
<1>9. ASSUME NEW c \in Conns, Leave(c) \/ End(c)
      PROVE  TypeOK'
  <2>1. CASE Leave(c)
    <3>1. inbox' \in Seq(Msgs)
      BY <2>1 DEF Leave, Tell, TypeOK, Msgs
    <3>2. QED
      BY <2>1, <3>1 DEF Leave, Goto, Stages, TypeOK, session, main
  <2>2. CASE End(c)
    <3>1. active' \in Nat
      BY FS_CardinalityType, FS_Subset, BoundsAssumption DEF SlotsExact, Occupied
    <3>2. QED
      BY <2>2, <3>1 DEF End, Goto, Stages, TypeOK, main
  <2>3. QED
    BY <1>9, <2>1, <2>2
<1>10. CASE HandleMsg
  <2>1. inbox' \in Seq(Msgs)
    BY <1>10, HeadTailProperties DEF HandleMsg, TypeOK
  <2>2. haClients' \in Nat
    BY <1>10 DEF HandleMsg, SaturatingSub, TypeOK
  <2>3. connected' \in BOOLEAN
    BY <1>10 DEF HandleMsg, StillConnected, TypeOK
  <2>4. QED
    BY <1>10, <2>1, <2>2, <2>3 DEF HandleMsg, TypeOK, session
<1>11. CASE Record
  BY <1>11, BoundsAssumption DEF Record, TypeOK, session
<1>12. CASE Push
  <2>1. queue' \in [Conns -> Seq(0..MaxUpdates)]
    <3>1. \A c \in Conns : Append(queue[c], state) \in Seq(0..MaxUpdates)
      BY AppendProperties DEF TypeOK
    <3>2. QED
      BY <1>12, <3>1 DEF Push, TypeOK
  <2>2. QED
    BY <1>12, <2>1 DEF Push, TypeOK
<1>13. CASE UNCHANGED vars
  BY <1>13 DEF vars, session, main, TypeOK
<1>14. QED
  BY <1>1, <1>2, <1>3, <1>4, <1>5, <1>6, <1>7, <1>8, <1>9, <1>10, <1>11, <1>12, <1>13
  DEF Next, Thread, MainLoop

-----------------------------------------------------------------------------
(***************************************************************************)
(* Values.                                                                 *)
(***************************************************************************)

\* What Fresh says of a connection depends on nothing else.
Same(c) ==
  /\ UNCHANGED <<stage[c], subscribed[c], events[c], queue[c], view[c]>>
  /\ UNCHANGED <<state, sending>>

\* A connection nothing happens to stays as current as it was.
LEMMA FreshSame ==
  ASSUME NEW c \in Conns, Fresh(c), Same(c)
  PROVE  Fresh(c)'
  BY DEF Same, Fresh, Current, Snapshots, Serving

\* A connection that left its loop holds nothing.
LEMMA FreshOver ==
  ASSUME TypeOK, NEW c \in Conns, NEW where \in {"leaving", "ended"}, Over(c, where)
  PROVE  Fresh(c)'
  BY DEF Over, Goto, TypeOK, Fresh, Serving

\* One step of a connection's thread, or of its listener and network.
Moves(c) ==
  \/ Connect(c) \/ IdlePasses(c) \/ Thread(c)
  \/ \E how \in Peers : PeerFails(c, how)
  \/ \E m \in Requests : Receive(c, m)

\* A step of one connection leaves the others alone.
LEMMA OthersSame ==
  ASSUME TypeOK, NEW c \in Conns, Moves(c), NEW d \in Conns \ {c}
  PROVE  Same(d)
<1>1. ASSUME NEW where, Over(c, where)
      PROVE  UNCHANGED <<stage[d], subscribed[d], events[d], queue[d], view[d]>>
  BY <1>1 DEF Over, Goto, TypeOK
<1>2. UNCHANGED main
  BY DEF Moves, Thread, Connect, IdlePasses, ReadDone, Dispatch, Fanout, Keepalive, Leave, End,
         PeerFails, Receive
<1>3. CASE Connect(c) \/ IdlePasses(c) \/ \E how \in Peers : PeerFails(c, how)
  BY <1>2, <1>3 DEF Connect, IdlePasses, PeerFails, Goto, TypeOK, Same, session, main
<1>4. ASSUME NEW m \in Requests, Receive(c, m)
      PROVE  Same(d)
  BY <1>2, <1>4 DEF Receive, TypeOK, Same, main
<1>5. CASE ReadDone(c)
  BY <1>1, <1>2, <1>5 DEF ReadDone, Goto, TypeOK, Same, session, main
<1>6. CASE Dispatch(c)
  BY <1>1, <1>2, <1>6 DEF Dispatch, Goto, TypeOK, Same, main
<1>7. CASE Fanout(c)
  BY <1>1, <1>2, <1>7 DEF Fanout, Abort, TypeOK, Same, main
<1>8. CASE Keepalive(c)
  BY <1>1, <1>2, <1>8 DEF Keepalive, Abort, Listen, Goto, TypeOK, Same, main
<1>9. CASE Leave(c) \/ End(c)
  BY <1>2, <1>9 DEF Leave, End, Goto, TypeOK, Same, session, main
<1>10. QED
  BY <1>3, <1>4, <1>5, <1>6, <1>7, <1>8, <1>9 DEF Moves, Thread

\* What is last stays last when the first is taken.
LEMMA LastOfTail ==
  ASSUME NEW S, NEW q \in Seq(S), q # <<>>
  PROVE  /\ Tail(q) = <<>> => Head(q) = q[Len(q)]
         /\ Tail(q) # <<>> => Tail(q)[Len(Tail(q))] = q[Len(q)]
<1>1. PICK n \in Nat : n = Len(q)
  BY LenProperties
<1>2. n # 0
  BY <1>1, EmptySeq
<1>3. /\ Tail(q) \in Seq(S) /\ Head(q) = q[1]
      /\ \A i \in 1..n - 1 : Tail(q)[i] = q[i + 1]
  BY <1>1, HeadTailProperties
<1>4. Len(Tail(q)) = n - 1
  BY <1>1, HeadTailProperties
<1>5. Tail(q) = <<>> <=> n - 1 = 0
  BY <1>3, <1>4, EmptySeq
<1>6. CASE n = 1
  BY <1>1, <1>3, <1>5, <1>6
<1>7. CASE n # 1
  <2>1. n - 1 \in 1..n - 1 /\ (n - 1) + 1 = n
    BY <1>2, <1>7
  <2>2. Tail(q)[n - 1] = q[n]
    BY <1>3, <2>1
  <2>3. QED
    BY <1>1, <1>4, <1>5, <1>7, <2>2
<1>8. QED
  BY <1>6, <1>7

\* A request read queues its answers behind the events that are left.
LEMMA FreshReceive ==
  ASSUME ApiInv, NEW c \in Conns, NEW m \in Requests, Receive(c, m)
  PROVE  Fresh(c)'
<1>1. TypeOK /\ Fresh(c) /\ stage[c] = "read" /\ stage' = stage /\ UNCHANGED <<queue, view, main>>
  BY DEF Receive, ApiInv
<1>2. events[c] \in Seq(Events) /\ Answers(c, m) \in Seq(Events)
  BY <1>1, AnswersType DEF TypeOK
<1>3. events'[c] = events[c] \o Answers(c, m)
  BY <1>1 DEF Receive, Answers, TypeOK
<1>4. \A i \in DOMAIN Answers(c, m) : Answers(c, m)[i].kind = "state" => Answers(c, m)[i].value = state
  BY <1>1, EventTypes DEF Answers, Handled
<1>5. \/ Answers(c, m) # <<>> /\ Answers(c, m)[1].kind = "state"
      \/ subscribed'[c] = subscribed[c]
  BY <1>1, EventTypes DEF Answers, Handled, Receive, TypeOK
<1>6. SUFFICES ASSUME ~sending
      PROVE  Current(c)'
  BY <1>1 DEF Fresh, Serving, main
<1>7. Current(c)
  BY <1>1, <1>6 DEF Fresh, Serving
<1>8. CASE queue[c] # <<>>
  BY <1>1, <1>7, <1>8 DEF Current, main
<1>9. CASE queue[c] = <<>>
  <2>1. ASSUME NEW i \in Snapshots(c)'
        PROVE  events'[c][i].value = state
    <3>1. CASE i <= Len(events[c])
      <4>1. i \in DOMAIN events[c] /\ events'[c][i] = events[c][i]
        BY <1>2, <1>3, <2>1, <3>1, ConcatProperties DEF Snapshots
      <4>2. QED
        BY <1>7, <1>9, <2>1, <4>1 DEF Current, Snapshots
    <3>2. CASE i > Len(events[c])
      <4> DEFINE j == i - Len(events[c])
      <4>1. j \in DOMAIN Answers(c, m) /\ events'[c][i] = Answers(c, m)[j]
        BY <1>2, <1>3, <2>1, <3>2, ConcatProperties DEF Snapshots
      <4>2. QED
        BY <1>4, <2>1, <4>1 DEF Snapshots
    <3>3. i \in Int /\ Len(events[c]) \in Int
      BY <1>2, <1>3, <2>1, ConcatProperties DEF Snapshots
    <3>4. QED
      BY <3>1, <3>2, <3>3
  <2>2. ASSUME subscribed'[c], Snapshots(c)' = {}
        PROVE  view[c] = state
    <3>1. Snapshots(c) = {}
      <4>1. ASSUME NEW i \in Snapshots(c)
            PROVE  i \in Snapshots(c)'
        BY <1>2, <1>3, <4>1, ConcatProperties DEF Snapshots
      <4>2. QED
        BY <2>2, <4>1
    <3>2. subscribed[c]
      <4>1. ASSUME Answers(c, m) # <<>>, Answers(c, m)[1].kind = "state"
            PROVE  Len(events[c]) + 1 \in Snapshots(c)'
        BY <1>2, <1>3, <4>1, ConcatProperties, EmptySeq DEF Snapshots
      <4>2. QED
        BY <1>5, <2>2, <4>1
    <3>3. QED
      BY <1>7, <1>9, <3>1, <3>2 DEF Current
  <2>3. QED
    BY <1>1, <1>9, <2>1, <2>2 DEF Current, main
<1>10. QED
  BY <1>8, <1>9

\* An event taken is shown to the client or answered; the newest snapshot stays the
\* newest.
LEMMA FreshDispatch ==
  ASSUME ApiInv, NEW c \in Conns, Dispatch(c)
  PROVE  Fresh(c)'
<1>1. TypeOK /\ Fresh(c) /\ stage[c] = "dispatch" /\ UNCHANGED main /\ events[c] # <<>>
  BY DEF Dispatch, ApiInv, Fresh
<1>2. CASE Over(c, "leaving")
  BY <1>1, <1>2, FreshOver
<1>3. CASE ~Over(c, "leaving")
  <2>1. /\ events[c] \in Seq(Events) /\ Head(events[c]) = events[c][1]
        /\ Tail(events[c]) \in Seq(Events)
        /\ Len(Tail(events[c])) = Len(events[c]) - 1
        /\ \A i \in 1..Len(Tail(events[c])) : Tail(events[c])[i] = events[c][i + 1]
    BY <1>1, HeadTailProperties DEF TypeOK
  <2>2. /\ events'[c] = Tail(events[c])
        /\ IF Len(events[c]) = 1 THEN stage'[c] = "fanout" ELSE stage'[c] = stage[c]
        /\ UNCHANGED <<subscribed, queue>>
        /\ IF Head(events[c]).kind = "state" THEN view'[c] = Head(events[c]).value ELSE view' = view
    BY <1>1, <1>3 DEF Dispatch, Goto, TypeOK
  <2>3. Serving(c) /\ Serving(c)'
    BY <1>1, <2>2 DEF Serving
  <2>4. /\ stage'[c] = "fanout" => events'[c] = <<>>
        /\ stage'[c] = "dispatch" => events'[c] # <<>>
        /\ stage'[c] # "free"
    <3>1. Tail(events[c]) = <<>> <=> Len(Tail(events[c])) = 0
      BY <2>1, EmptySeq
    <3>2. Tail(events[c]) = <<>> <=> Len(events[c]) = 1
      BY <2>1, <3>1
    <3>3. QED
      BY <1>1, <2>2, <3>2
  <2>5. SUFFICES ASSUME ~sending
        PROVE  Current(c)'
    BY <1>1, <2>3, <2>4 DEF Fresh, main
  <2>6. Current(c)
    BY <1>1, <2>3, <2>5 DEF Fresh
  <2>7. ASSUME NEW i \in Snapshots(c)'
        PROVE  i + 1 \in Snapshots(c) /\ events'[c][i] = events[c][i + 1]
    BY <2>1, <2>2, <2>7 DEF Snapshots
  <2>8. ASSUME NEW i \in Snapshots(c), i # 1
        PROVE  i - 1 \in Snapshots(c)'
    <3>1. i - 1 \in 1..Len(Tail(events[c])) /\ i = (i - 1) + 1
      BY <2>1, <2>8 DEF Snapshots
    <3>2. Tail(events[c])[i - 1] = events[c][i]
      BY <2>1, <3>1
    <3>3. QED
      BY <2>1, <2>2, <2>8, <3>1, <3>2 DEF Snapshots
  <2>9. CASE queue[c] # <<>>
    BY <1>1, <2>2, <2>6, <2>9 DEF Current, main
  <2>10. CASE queue[c] = <<>>
    <3>1. ASSUME NEW i \in Snapshots(c)'
          PROVE  events'[c][i].value = state
      BY <2>6, <2>7, <2>10, <3>1 DEF Current
    <3>2. ASSUME subscribed[c], Snapshots(c)' = {}
          PROVE  view'[c] = state
      <4>1. CASE Head(events[c]).kind = "state"
        <5>1. 1 \in Snapshots(c)
          BY <1>1, <2>1, <4>1, EmptySeq DEF Snapshots
        <5>2. QED
          BY <2>1, <2>2, <2>6, <2>10, <4>1, <5>1 DEF Current
      <4>2. CASE Head(events[c]).kind # "state"
        <5>1. Snapshots(c) = {}
          BY <2>1, <2>8, <3>2, <4>2 DEF Snapshots
        <5>2. QED
          BY <2>2, <2>6, <2>10, <3>2, <4>2, <5>1 DEF Current
      <4>3. QED
        BY <4>1, <4>2
    <3>3. QED
      BY <1>1, <2>2, <2>10, <3>1, <3>2 DEF Current, main
  <2>11. QED
    BY <2>9, <2>10
<1>4. QED
  BY <1>2, <1>3

\* A value taken from the channel is older than what the channel still holds.
LEMMA FreshFanout ==
  ASSUME ApiInv, NEW c \in Conns, Fanout(c)
  PROVE  Fresh(c)'
<1>1. /\ TypeOK /\ Fresh(c) /\ stage[c] = "fanout" /\ UNCHANGED main
      /\ queue[c] # <<>> /\ events[c] = <<>>
  BY DEF Fanout, ApiInv, Fresh
<1>2. CASE Abort(c)
  BY <1>1, <1>2, FreshOver DEF Abort
<1>3. CASE ~Abort(c)
  <2>1. /\ queue'[c] = Tail(queue[c])
        /\ UNCHANGED <<stage, subscribed, events>>
        /\ subscribed[c] => view'[c] = Head(queue[c])
    BY <1>1, <1>3 DEF Fanout, TypeOK
  <2>2. SUFFICES ASSUME ~sending
        PROVE  Current(c)'
    BY <1>1, <2>1 DEF Fresh, Serving, main
  <2>3. queue[c][Len(queue[c])] = state
    BY <1>1, <2>2 DEF Fresh, Serving, Current
  <2>4. Snapshots(c)' = {}
    BY <1>1, <2>1 DEF Snapshots
  <2>5. queue[c] \in Seq(0..MaxUpdates)
    BY <1>1 DEF TypeOK
  <2>6. CASE Tail(queue[c]) = <<>>
    <3>1. Head(queue[c]) = state
      BY <1>1, <2>3, <2>5, <2>6, LastOfTail
    <3>2. QED
      BY <1>1, <2>1, <2>4, <2>6, <3>1 DEF Current, main
  <2>7. CASE Tail(queue[c]) # <<>>
    <3>1. Tail(queue[c])[Len(Tail(queue[c]))] = state
      BY <1>1, <2>3, <2>5, <2>7, LastOfTail
    <3>2. QED
      BY <1>1, <2>1, <2>7, <3>1 DEF Current, main
  <2>8. QED
    BY <2>6, <2>7
<1>4. QED
  BY <1>2, <1>3

\* Whatever a connection does, it stays current.
LEMMA FreshMoves ==
  ASSUME ApiInv, NEW c \in Conns, Moves(c)
  PROVE  Fresh(c)'
<1>0. TypeOK /\ Fresh(c)
  BY DEF ApiInv
<1>1. CASE Connect(c)
  <2>1. /\ events'[c] = <<>> /\ queue'[c] = <<>> /\ ~subscribed'[c]
        /\ stage'[c] = "read"
    BY <1>0, <1>1 DEF Connect, Goto, session, Fresh, Serving, TypeOK
  <2>2. QED
    BY <2>1 DEF Fresh, Current, Snapshots, Serving
<1>2. CASE IdlePasses(c) \/ \E how \in Peers : PeerFails(c, how)
  <2>1. Same(c)
    BY <1>2 DEF IdlePasses, PeerFails, Same, session, main
  <2>2. QED
    BY <1>0, <2>1, FreshSame
<1>3. CASE ReadDone(c)
  <2>1. CASE Over(c, "leaving")
    BY <1>0, <2>1, FreshOver
  <2>2. CASE ~Over(c, "leaving")
    <3>1. /\ UNCHANGED <<session, main>>
          /\ stage[c] = "read"
          /\ stage'[c] = IF events[c] = <<>> THEN "fanout" ELSE "dispatch"
      BY <1>0, <1>3, <2>2 DEF ReadDone, Goto, TypeOK
    <3>2. QED
      BY <1>0, <3>1 DEF Fresh, Current, Snapshots, Serving, session, main
  <2>3. QED
    BY <2>1, <2>2
<1>4. CASE Keepalive(c)
  <2>1. CASE Over(c, "leaving") \/ Abort(c)
    BY <1>0, <2>1, FreshOver DEF Abort
  <2>2. CASE ~Over(c, "leaving") /\ ~Abort(c)
    <3>1. /\ UNCHANGED <<subscribed, events, queue, view, main>>
          /\ stage[c] = "fanout" /\ stage'[c] = "read"
      BY <1>0, <1>4, <2>2 DEF Keepalive, Listen, Goto, TypeOK
    <3>2. QED
      BY <1>0, <3>1 DEF Fresh, Current, Snapshots, Serving, main
  <2>3. QED
    BY <2>1, <2>2
<1>5. CASE Leave(c) \/ End(c)
  <2>1. /\ UNCHANGED <<events, queue>>
        /\ stage[c] \in {"leaving", "ended"} /\ stage'[c] \in {"ended", "free"}
        /\ stage'[c] = "free" => ~subscribed'[c]
    BY <1>0, <1>5 DEF Leave, End, Goto, TypeOK, session
  <2>2. QED
    BY <1>0, <2>1 DEF Fresh, Serving
<1>6. QED
  BY <1>1, <1>2, <1>3, <1>4, <1>5, FreshReceive, FreshDispatch, FreshFanout DEF Moves, Thread

\* Whatever any thread does, every connection stays current.
LEMMA FreshStep ==
  ASSUME ApiInv, [Next]_vars, NEW d \in Conns
  PROVE  Fresh(d)'
<1>0. TypeOK /\ Fresh(d)
  BY DEF ApiInv
<1>1. ASSUME NEW c \in Conns, Moves(c)
      PROVE  Fresh(d)'
  <2>1. CASE d = c
    BY <1>1, <2>1, FreshMoves
  <2>2. CASE d # c
    BY <1>0, <1>1, <2>2, OthersSame, FreshSame
  <2>3. QED
    BY <2>1, <2>2
<1>2. CASE HandleMsg \/ UNCHANGED vars
  <2>1. Same(d)
    BY <1>2 DEF HandleMsg, vars, session, main, Same
  <2>2. QED
    BY <1>0, <2>1, FreshSame
<1>3. CASE Record
  BY <1>0, <1>3 DEF Record, session, Fresh, Serving
<1>4. CASE Push
  <2>1. /\ UNCHANGED <<stage, subscribed, events, view, state>>
        /\ queue'[d] = IF Serving(d) THEN Append(queue[d], state) ELSE queue[d]
        /\ queue[d] \in Seq(0..MaxUpdates) /\ state \in 0..MaxUpdates
    BY <1>0, <1>4 DEF Push, TypeOK
  <2>2. CASE Serving(d)
    <3>1. queue'[d] # <<>> /\ queue'[d][Len(queue'[d])] = state
      BY <2>1, <2>2, AppendProperties, EmptySeq
    <3>2. Current(d)'
      BY <2>1, <3>1 DEF Current
    <3>3. QED
      BY <1>0, <2>1, <2>2, <3>2 DEF Fresh, Serving
  <2>3. CASE ~Serving(d)
    BY <1>0, <2>1, <2>3 DEF Fresh, Serving
  <2>4. QED
    BY <2>2, <2>3
<1>5. QED
  BY <1>1, <1>2, <1>3, <1>4 DEF Next, MainLoop, Moves

-----------------------------------------------------------------------------
(***************************************************************************)
(* The theorems.                                                           *)
(***************************************************************************)
LEMMA ApiStart ==
  ASSUME Init
  PROVE  ApiInv /\ SlotsExact
<1>1. TypeOK
  <2>1. <<>> \in Seq(Events) /\ <<>> \in Seq(0..MaxUpdates) /\ <<>> \in Seq(Msgs)
    BY EmptySeq
  <2>2. /\ peer \in [Conns -> Peers] /\ stage \in [Conns -> Stages]
        /\ phase \in [Conns -> {"AwaitHello", "Connected", "Closing"}]
        /\ subscribed \in [Conns -> BOOLEAN] /\ pinged \in [Conns -> BOOLEAN]
        /\ idle \in [Conns -> 0..2] /\ view \in [Conns -> {Unseen} \cup 0..MaxUpdates]
    BY DEF Init, Peers, Stages
  <2>3. /\ events \in [Conns -> Seq(Events)] /\ queue \in [Conns -> Seq(0..MaxUpdates)]
        /\ inbox \in Seq(Msgs)
    BY <2>1 DEF Init
  <2>4. 0 \in 0..MaxUpdates /\ 0 \in 0..MaxFaults
    BY BoundsAssumption
  <2>5. /\ active \in Nat /\ haClients \in Nat /\ state \in 0..MaxUpdates
        /\ faults \in 0..MaxFaults
        /\ sending \in BOOLEAN /\ connected \in BOOLEAN
    BY <2>4 DEF Init
  <2>6. QED
    BY <2>2, <2>3, <2>5 DEF TypeOK
<1>2. \A c \in Conns : Fresh(c)
  BY DEF Init, Fresh, Serving
<1>3. SlotsExact
  <2>1. {c \in Conns : stage[c] # "free"} = {}
    BY DEF Init
  <2>2. active = 0 /\ 0 <= MaxClients
    BY BoundsAssumption DEF Init
  <2>3. QED
    BY <2>1, <2>2, FS_EmptySet DEF SlotsExact
<1>4. QED
  BY <1>1, <1>2, <1>3 DEF ApiInv

\* The invariant and the count of slots are kept together.
LEMMA ApiInduction ==
  ASSUME ApiInv, SlotsExact, [Next]_vars
  PROVE  ApiInv' /\ SlotsExact'
<1>1. SlotsExact'
  BY SlotsStep DEF ApiInv
<1>2. TypeOK' /\ \A c \in Conns : Fresh(c)'
  BY <1>1, TypeStep, FreshStep
<1>3. QED
  BY <1>1, <1>2 DEF ApiInv

\* The inductive invariant of the server's threads.
THEOREM ApiInvariant == Spec => [](ApiInv /\ SlotsExact)
<1>1. Init => ApiInv /\ SlotsExact
  BY ApiStart
<1>2. ApiInv /\ SlotsExact /\ [Next]_vars => (ApiInv /\ SlotsExact)'
  BY ApiInduction
<1>3. QED
  BY <1>1, <1>2, PTL DEF Spec

\* The listener's count is the number of threads there are, and never above
\* MAX_CLIENTS, whatever ends a connection (main.rs, the listener).
THEOREM ApiSlots == Spec => []SlotsExact
  BY ApiInvariant, PTL

\* A subscribed client that was sent everything shows the current value, for
\* every order of subscriptions, publications and sends (server.rs, runner.rs).
THEOREM ApiViews == Spec => []ViewsCatchUp
<1>1. ASSUME ApiInv, NEW c \in Conns, Serving(c), subscribed[c], events[c] = <<>>,
             queue[c] = <<>>, ~sending
      PROVE  view[c] = state
  BY <1>1 DEF ApiInv, Fresh, Current, Snapshots
<1>2. ApiInv => ViewsCatchUp
  BY <1>1 DEF ViewsCatchUp
<1>3. QED
  BY <1>2, ApiInvariant, PTL

-----------------------------------------------------------------------------
(***************************************************************************)
(* The count of clients.                                                   *)
(***************************************************************************)

\* Where a message stands in a queue.
Places(q, msg) == {i \in DOMAIN q : q[i] = msg}

\* A message has finitely many places in the channel.
LEMMA PlacesFinite ==
  ASSUME NEW q \in Seq(Msgs), NEW msg
  PROVE  IsFiniteSet(Places(q, msg)) /\ Cardinality(Places(q, msg)) \in Nat
<1>1. Len(q) \in Nat /\ DOMAIN q = 1..Len(q)
  BY LenProperties
<1>2. IsFiniteSet(1..Len(q))
  BY <1>1, FS_Interval
<1>3. Places(q, msg) \subseteq 1..Len(q)
  BY <1>1 DEF Places
<1>4. IsFiniteSet(Places(q, msg))
  BY <1>2, <1>3, FS_Subset
<1>5. QED
  BY <1>4, FS_CardinalityType

\* Appending a message adds one to its places and none to another's.
LEMMA PlacesOfAppend ==
  ASSUME NEW q \in Seq(Msgs), NEW x \in Msgs, NEW msg
  PROVE  Cardinality(Places(Append(q, x), msg)) =
           Cardinality(Places(q, msg)) + IF x = msg THEN 1 ELSE 0
<1>1. /\ Len(q) \in Nat /\ DOMAIN q = 1..Len(q)
      /\ Append(q, x) \in Seq(Msgs) /\ DOMAIN Append(q, x) = 1..Len(q) + 1
      /\ \A i \in 1..Len(q) : Append(q, x)[i] = q[i]
      /\ Append(q, x)[Len(q) + 1] = x
  BY AppendProperties, LenProperties
<1>2. IsFiniteSet(Places(q, msg))
  BY PlacesFinite
<1>3. Cardinality(Places(q, msg)) \in Nat
  BY PlacesFinite
<1>4. CASE x = msg
  <2>1. Places(Append(q, x), msg) = Places(q, msg) \cup {Len(q) + 1} /\ Len(q) + 1 \notin Places(q, msg)
    BY <1>1, <1>4 DEF Places
  <2>2. Cardinality(Places(q, msg) \cup {Len(q) + 1}) = Cardinality(Places(q, msg)) + 1
    BY <1>2, <2>1, FS_AddElement
  <2>3. QED
    BY <1>2, <1>3, <1>4, <2>1, <2>2
<1>5. CASE x # msg
  <2>1. Places(Append(q, x), msg) = Places(q, msg)
    BY <1>1, <1>5 DEF Places
  <2>2. QED
    BY <1>2, <1>3, <1>5, <2>1
<1>6. QED
  BY <1>4, <1>5

\* Taking a message removes one of its places and none of another's.
LEMMA PlacesOfTail ==
  ASSUME NEW q \in Seq(Msgs), q # <<>>, NEW msg
  PROVE  Cardinality(Places(q, msg)) =
           Cardinality(Places(Tail(q), msg)) + IF Head(q) = msg THEN 1 ELSE 0
<1>1. /\ Len(q) \in Nat /\ DOMAIN q = 1..Len(q) /\ Len(q) > 0 /\ q[1] = Head(q)
      /\ Tail(q) \in Seq(Msgs) /\ DOMAIN Tail(q) = 1..Len(q) - 1
      /\ \A i \in 1..Len(q) - 1 : Tail(q)[i] = q[i + 1]
  BY HeadTailProperties, LenProperties, EmptySeq
<1> DEFINE rest == Places(Tail(q), msg)
<1> DEFINE later == Places(q, msg) \ {1}
<1> DEFINE up == [i \in rest |-> i + 1]
<1>2. IsFiniteSet(rest) /\ IsFiniteSet(Places(q, msg))
  BY <1>1, PlacesFinite
<1>3. Cardinality(later) = Cardinality(rest)
  <2>1. up \in [rest -> later]
    BY <1>1 DEF Places
  <2>2. \A i, j \in rest : up[i] = up[j] => i = j
    BY <1>1 DEF Places
  <2>3. \A k \in later : k - 1 \in rest /\ up[k - 1] = k
    BY <1>1 DEF Places
  <2> HIDE DEF up, rest, later
  <2>4. up \in Injection(rest, later)
    BY <2>1, <2>2 DEF Injection, IsInjective
  <2>5. up \in Surjection(rest, later)
    BY <2>1, <2>3 DEF Surjection
  <2>6. ExistsBijection(rest, later)
    BY <2>4, <2>5 DEF ExistsBijection, Bijection
  <2>7. QED
    BY <1>2, <2>6, FS_Bijection
<1>4. Cardinality(rest) \in Nat /\ Cardinality(Places(q, msg)) \in Nat
  BY <1>1, PlacesFinite
<1>5. Cardinality(later) = IF 1 \in Places(q, msg) THEN Cardinality(Places(q, msg)) - 1
                           ELSE Cardinality(Places(q, msg))
  BY <1>2, FS_RemoveElement
<1>6. 1 \in Places(q, msg) <=> Head(q) = msg
  BY <1>1 DEF Places
<1> HIDE DEF rest, later
<1>7. QED
  BY <1>3, <1>4, <1>5, <1>6 DEF rest

\* What a message makes of the count, when it counts down only from one that is there.
After(msg, n) ==
  IF msg = "ClientSubscribed" THEN n + 1 ELSE IF msg = "GoneSubscribed" THEN n - 1 ELSE n

\* These come from clients that are counted.
FromCounted == {"GoneSubscribed", "SwitchSubscribed"}

\* The messages of q lead from the count n to the count m, one at a time, and
\* each that comes from a client that is counted finds a count.
Leads(q, b) ==
  /\ b \in [0..Len(q) -> Nat]
  /\ \A i \in 1..Len(q) : b[i] = After(q[i], b[i - 1]) /\ (q[i] \in FromCounted => b[i - 1] > 0)

Balanced(q, n, m) == \E b : Leads(q, b) /\ b[0] = n /\ b[Len(q)] = m

\* A message sent moves the number the channel leads to.
LEMMA BalancedAppend ==
  ASSUME NEW q \in Seq(Msgs), NEW msg \in Msgs, NEW n, NEW m, Balanced(q, n, m),
         msg \in FromCounted => m > 0
  PROVE  Balanced(Append(q, msg), n, After(msg, m))
<1>1. PICK b : Leads(q, b) /\ b[0] = n /\ b[Len(q)] = m
  BY DEF Balanced
<1>2. /\ Len(q) \in Nat /\ Len(Append(q, msg)) = Len(q) + 1
      /\ \A i \in 1..Len(q) : Append(q, msg)[i] = q[i]
      /\ Append(q, msg)[Len(q) + 1] = msg
  BY AppendProperties, LenProperties
<1>3. /\ b \in [0..Len(q) -> Nat] /\ m \in Nat
      /\ \A i \in 1..Len(q) : b[i] = After(q[i], b[i - 1]) /\ (q[i] \in FromCounted => b[i - 1] > 0)
  BY <1>1, <1>2 DEF Leads
<1>4. After(msg, m) \in Nat
  BY <1>3 DEF After, FromCounted
<1> DEFINE e == [i \in 0..Len(q) + 1 |-> IF i = Len(q) + 1 THEN After(msg, m) ELSE b[i]]
<1>5. e \in [0..Len(q) + 1 -> Nat] /\ e[Len(q) + 1] = After(msg, m) /\ \A i \in 0..Len(q) : e[i] = b[i]
  BY <1>2, <1>3, <1>4
<1> HIDE DEF e
<1>6. ASSUME NEW i \in 1..Len(q) + 1
      PROVE  /\ e[i] = After(Append(q, msg)[i], e[i - 1])
             /\ Append(q, msg)[i] \in FromCounted => e[i - 1] > 0
  <2>1. CASE i = Len(q) + 1
    <3>1. i - 1 = Len(q) /\ Len(q) \in 0..Len(q)
      BY <1>2, <2>1
    <3>2. e[i - 1] = m /\ Append(q, msg)[i] = msg
      BY <1>1, <1>2, <1>5, <2>1, <3>1
    <3>3. QED
      BY <1>5, <2>1, <3>2
  <2>2. CASE i # Len(q) + 1
    <3>1. i \in 1..Len(q) /\ i \in 0..Len(q) /\ i - 1 \in 0..Len(q)
      BY <1>2, <2>2
    <3>2. e[i] = b[i] /\ e[i - 1] = b[i - 1] /\ Append(q, msg)[i] = q[i]
      BY <1>2, <1>5, <3>1
    <3>3. QED
      BY <1>3, <3>1, <3>2
  <2>3. QED
    BY <2>1, <2>2
<1>7. Leads(Append(q, msg), e)
  BY <1>2, <1>5, <1>6 DEF Leads
<1>8. e[0] = n /\ e[Len(Append(q, msg))] = After(msg, m)
  BY <1>1, <1>2, <1>5
<1>9. QED
  BY <1>7, <1>8 DEF Balanced

\* A message taken moves the number the channel leads from, and meets no zero.
LEMMA BalancedTail ==
  ASSUME NEW q \in Seq(Msgs), q # <<>>, NEW n, NEW m, Balanced(q, n, m)
  PROVE  /\ n \in Nat /\ (Head(q) \in FromCounted => n > 0)
         /\ Balanced(Tail(q), After(Head(q), n), m)
<1>1. PICK b : Leads(q, b) /\ b[0] = n /\ b[Len(q)] = m
  BY DEF Balanced
<1>2. /\ Len(q) \in Nat /\ Len(q) > 0 /\ q[1] = Head(q) /\ Len(Tail(q)) = Len(q) - 1
      /\ \A i \in 1..Len(q) - 1 : Tail(q)[i] = q[i + 1]
  BY HeadTailProperties, LenProperties, EmptySeq
<1>3. /\ b \in [0..Len(q) -> Nat]
      /\ \A i \in 1..Len(q) : b[i] = After(q[i], b[i - 1]) /\ (q[i] \in FromCounted => b[i - 1] > 0)
  BY <1>1 DEF Leads
<1>4. n \in Nat /\ (Head(q) \in FromCounted => n > 0) /\ b[1] = After(Head(q), n)
  <2>1. 1 \in 1..Len(q) /\ 0 \in 0..Len(q) /\ 1 - 1 = 0
    BY <1>2
  <2>2. QED
    BY <1>1, <1>2, <1>3, <2>1
<1> DEFINE e == [i \in 0..Len(q) - 1 |-> b[i + 1]]
<1>5. e \in [0..Len(q) - 1 -> Nat] /\ \A i \in 0..Len(q) - 1 : e[i] = b[i + 1]
  BY <1>2, <1>3
<1> HIDE DEF e
<1>6. ASSUME NEW i \in 1..Len(q) - 1
      PROVE  e[i] = After(Tail(q)[i], e[i - 1]) /\ (Tail(q)[i] \in FromCounted => e[i - 1] > 0)
  <2>1. i + 1 \in 1..Len(q) /\ i \in 0..Len(q) - 1 /\ i - 1 \in 0..Len(q) - 1 /\ (i + 1) - 1 = i /\ (i - 1) + 1 = i
    BY <1>2
  <2>2. e[i] = b[i + 1] /\ e[i - 1] = b[i] /\ Tail(q)[i] = q[i + 1]
    BY <1>2, <1>5, <2>1
  <2>3. b[i + 1] = After(q[i + 1], b[i]) /\ (q[i + 1] \in FromCounted => b[i] > 0)
    BY <1>3, <2>1
  <2>4. QED
    BY <2>2, <2>3
<1>7. Leads(Tail(q), e)
  BY <1>2, <1>5, <1>6 DEF Leads
<1>8. e[0] = After(Head(q), n) /\ e[Len(Tail(q))] = m
  BY <1>1, <1>2, <1>4, <1>5
<1>9. QED
  BY <1>4, <1>7, <1>8 DEF Balanced

\* The messages of q account for the difference between the counts n and m.
Accounts(q, n, m) ==
  /\ Balanced(q, n, m)
  /\ n \in Nat /\ m \in Nat
  /\ n + Cardinality(Places(q, "ClientSubscribed")) = m + Cardinality(Places(q, "GoneSubscribed"))

\* The same, with the difference between the clients that came and went.
LEMMA AccountsAppend ==
  ASSUME NEW q \in Seq(Msgs), NEW msg \in Msgs, NEW n, NEW m, Accounts(q, n, m),
         msg \in FromCounted => m > 0
  PROVE  Accounts(Append(q, msg), n, After(msg, m))
<1>1. Balanced(Append(q, msg), n, After(msg, m))
  BY BalancedAppend DEF Accounts
<1> DEFINE came == Cardinality(Places(q, "ClientSubscribed"))
           went == Cardinality(Places(q, "GoneSubscribed"))
<1>2. n \in Nat /\ m \in Nat /\ came \in Nat /\ went \in Nat /\ n + came = m + went
  BY PlacesFinite DEF Accounts
<1>3. /\ Cardinality(Places(Append(q, msg), "ClientSubscribed")) = came + IF msg = "ClientSubscribed" THEN 1 ELSE 0
      /\ Cardinality(Places(Append(q, msg), "GoneSubscribed")) = went + IF msg = "GoneSubscribed" THEN 1 ELSE 0
  BY PlacesOfAppend
<1> HIDE DEF came, went
<1>4. After(msg, m) \in Nat
  BY <1>2 DEF After, FromCounted
<1>5. n + (came + IF msg = "ClientSubscribed" THEN 1 ELSE 0) = After(msg, m) + (went + IF msg = "GoneSubscribed" THEN 1 ELSE 0)
  BY <1>2, <1>4 DEF After
<1>6. QED
  BY <1>1, <1>2, <1>3, <1>4, <1>5 DEF Accounts

\* What the main loop takes next finds a count that fits.
LEMMA AccountsTail ==
  ASSUME NEW q \in Seq(Msgs), q # <<>>, NEW n, NEW m, Accounts(q, n, m)
  PROVE  (Head(q) \in FromCounted => n > 0) /\ Accounts(Tail(q), After(Head(q), n), m)
<1>1. /\ Head(q) \in FromCounted => n > 0
      /\ Balanced(Tail(q), After(Head(q), n), m)
  BY BalancedTail DEF Accounts
<1> DEFINE came == Cardinality(Places(Tail(q), "ClientSubscribed"))
           went == Cardinality(Places(Tail(q), "GoneSubscribed"))
<1>2. /\ Cardinality(Places(q, "ClientSubscribed")) = came + IF Head(q) = "ClientSubscribed" THEN 1 ELSE 0
      /\ Cardinality(Places(q, "GoneSubscribed")) = went + IF Head(q) = "GoneSubscribed" THEN 1 ELSE 0
  BY PlacesOfTail
<1>3. /\ n \in Nat /\ m \in Nat /\ came \in Nat /\ went \in Nat
      /\ n + Cardinality(Places(q, "ClientSubscribed")) = m + Cardinality(Places(q, "GoneSubscribed"))
  <2>1. Tail(q) \in Seq(Msgs)
    BY HeadTailProperties
  <2>2. QED
    BY <2>1, PlacesFinite DEF Accounts
<1> HIDE DEF came, went
<1>4. After(Head(q), n) \in Nat
  BY <1>1, <1>3 DEF After, FromCounted
<1>5. After(Head(q), n) + came = m + went
  BY <1>2, <1>3 DEF After
<1>6. QED
  BY <1>1, <1>3, <1>4, <1>5 DEF Accounts, came, went

\* The events of a kind a connection has not dispatched.
Pending(c, kind) == {i \in DOMAIN events[c] : events[c][i].kind = kind}

\* The events of a chunk while nothing fails: a client subscribes once, its commands
\* follow, and the end of the connection is the last.
Orderly(c) ==
  /\ \A i \in Pending(c, "subscribed") :
       events[c][i] = Ev("subscribed") /\ subscribed[c] /\ \A j \in Pending(c, "subscribed") : j = i
  /\ \A i \in Pending(c, "command") : subscribed[c] /\ \A j \in Pending(c, "subscribed") : j < i
  /\ \A i \in Pending(c, "close") : i = Len(events[c]) /\ phase[c] = "Closing"

CountedClients == {c \in Conns : Counted(c)}

\* The invariant of the count.
CountInv ==
  /\ connected <=> haClients > 0
  /\ faults = 0 => /\ \A c \in Conns : Orderly(c)
                   /\ Accounts(inbox, haClients, Cardinality(CountedClients))

\* Who is counted: a connection that lives, subscribed and has said so.
LEMMA CountedIs ==
  ASSUME NEW c \in Conns, Orderly(c)
  PROVE  Counted(c) <=> stage[c] \notin {"free", "ended"} /\ subscribed[c] /\ Pending(c, "subscribed") = {}
<1>1. Ev("subscribed").kind = "subscribed"
  BY DEF Ev
<1>2. \A i \in DOMAIN events[c] : events[c][i] = Ev("subscribed") <=> i \in Pending(c, "subscribed")
  BY <1>1 DEF Orderly, Pending
<1>3. QED
  BY <1>2 DEF Counted, Pending

\* What a step of c does to the count.
Tells(c, msg) ==
  /\ inbox' = Append(inbox, msg)
  /\ msg = "ClientSubscribed" => ~Counted(c) /\ Counted(c)'
  /\ msg = "GoneSubscribed" => Counted(c) /\ ~Counted(c)'
  /\ msg \notin {"ClientSubscribed", "GoneSubscribed"} => (Counted(c)' <=> Counted(c))
  /\ msg = "SwitchSubscribed" => Counted(c)

CountsRight(c) ==
  /\ Orderly(c)'
  /\ \/ UNCHANGED inbox /\ (Counted(c)' <=> Counted(c))
     \/ \E msg \in Msgs : Tells(c, msg)

\* A connection none of whose events is about the count.
LEMMA NoEvents ==
  ASSUME NEW c \in Conns, events[c] = <<>>
  PROVE  Orderly(c) /\ \A kind : Pending(c, kind) = {}
  BY DEF Orderly, Pending

\* Without events nothing is pending.
LEMMA NoEventsLeft ==
  ASSUME NEW c \in Conns, events'[c] = <<>>
  PROVE  Orderly(c)' /\ \A kind : Pending(c, kind)' = {}
  BY DEF Orderly, Pending

\* The connection ends with nothing pending that is about the count.
LEMMA OverCounts ==
  ASSUME TypeOK, NEW c \in Conns, Orderly(c), Pending(c, "subscribed") = {},
         stage[c] \notin {"free", "ended"}, Over(c, "leaving"), UNCHANGED inbox
  PROVE  CountsRight(c)
<1>1. events'[c] = <<>> /\ stage'[c] = "leaving" /\ subscribed' = subscribed
  BY DEF Over, Goto, TypeOK
<1>2. Orderly(c)' /\ Pending(c, "subscribed")' = {}
  BY <1>1, NoEventsLeft
<1>3. Counted(c)' <=> stage'[c] \notin {"free", "ended"} /\ subscribed'[c]
  BY <1>1 DEF Counted
<1>4. QED
  BY <1>1, <1>2, <1>3, CountedIs DEF CountsRight

\* Nothing changes that the count depends on.
LEMMA StillCounts ==
  ASSUME TypeOK, NEW c \in Conns, Orderly(c), UNCHANGED <<inbox, subscribed, events, phase>>,
         stage[c] \in {"free", "ended"} <=> stage'[c] \in {"free", "ended"}
  PROVE  CountsRight(c)
  BY DEF CountsRight, Orderly, Pending, Counted

\* A request: what it adds to the chunk keeps the chunk orderly.
LEMMA ReceiveCounts ==
  ASSUME TypeOK, NEW c \in Conns, Orderly(c), NEW m \in Requests, Receive(c, m), UNCHANGED faults
  PROVE  CountsRight(c)
<1> DEFINE q == events[c]
<1>1. /\ stage' = stage /\ stage[c] = "read" /\ phase[c] # "Closing" /\ UNCHANGED inbox
      /\ q \in Seq(Events) /\ Len(q) \in Nat /\ DOMAIN q = 1..Len(q)
      /\ faults \in 0..MaxFaults /\ Snapshot \in Events /\ Snapshot.kind = "state"
  BY LenProperties, EventTypes DEF Receive, TypeOK
<1>2. /\ events'[c] = q \o Answers(c, m)
      /\ subscribed'[c] = (subscribed[c] \/ (phase[c] # "AwaitHello" /\ m = "subscribe"))
      /\ phase'[c] = IF (phase[c] = "AwaitHello" /\ m # "hello") \/ m = "disconnect" THEN "Closing" ELSE "Connected"
  BY DEF Receive, Answers, TypeOK
<1>3. phase[c] # "AwaitHello" /\ m = "subscribe" => ~subscribed[c]
  BY <1>1 DEF Receive, Fault
<1>4. Pending(c, "close") = {}
  BY <1>1 DEF Orderly
<1> HIDE DEF q
<1>5. CASE Answers(c, m) = <<>>
  <2>1. events'[c] = events[c]
    BY <1>1, <1>2, <1>5, ConcatEmptySeq DEF q
  <2>2. subscribed'[c] = subscribed[c]
    <3>1. ~(phase[c] # "AwaitHello" /\ m = "subscribe")
      BY <1>5 DEF Answers, Handled
    <3>2. QED
      BY <1>2, <3>1 DEF TypeOK
  <2>3. QED
    BY <1>1, <1>4, <2>1, <2>2 DEF CountsRight, Orderly, Pending, Counted
<1>6. ASSUME NEW kind \in {"command", "strayCommand", "close"}, Answers(c, m) = <<Ev(kind)>>,
             kind = "command" => subscribed[c],
             kind = "close" => phase'[c] = "Closing",
             ~(phase[c] # "AwaitHello" /\ m = "subscribe")
      PROVE  CountsRight(c)
  <2>1. Ev(kind) \in Events /\ Ev(kind).kind = kind /\ kind # "subscribed" /\ Ev(kind) # Ev("subscribed")
    <3>1. Ev(kind) \in Events /\ Ev(kind).kind = kind /\ Ev("subscribed").kind = "subscribed"
      BY EventTypes
    <3>2. QED
      BY <3>1
  <2>2. events'[c] = Append(q, Ev(kind))
    BY <1>1, <1>2, <1>6, <2>1, AppendIsConcat
  <2>3. /\ DOMAIN events'[c] = 1..Len(q) + 1 /\ Len(events'[c]) = Len(q) + 1
        /\ \A i \in 1..Len(q) : events'[c][i] = q[i]
        /\ events'[c][Len(q) + 1] = Ev(kind)
    BY <1>1, <2>1, <2>2, AppendProperties, LenProperties
  <2>4. subscribed'[c] = subscribed[c]
    BY <1>2, <1>6 DEF TypeOK
  <2>5. Pending(c, "subscribed")' = Pending(c, "subscribed")
    BY <1>1, <2>1, <2>3 DEF Pending, q
  <2>6. \A i \in Pending(c, "command")' : i \in Pending(c, "command") \/ (i = Len(q) + 1 /\ kind = "command")
    BY <1>1, <2>1, <2>3 DEF Pending, q
  <2>7. \A i \in Pending(c, "close")' : i = Len(q) + 1 /\ kind = "close"
    BY <1>1, <1>4, <2>1, <2>3 DEF Pending, q
  <2>8. Pending(c, "subscribed") \subseteq 1..Len(q)
    BY <1>1 DEF Pending, q
  <2>9. Orderly(c)'
    <3>1. \A i \in Pending(c, "subscribed")' :
            /\ events'[c][i] = Ev("subscribed") /\ subscribed'[c]
            /\ \A j \in Pending(c, "subscribed")' : j = i
      BY <2>3, <2>4, <2>5, <2>8 DEF Orderly, q
    <3>2. \A i \in Pending(c, "command")' : subscribed'[c] /\ \A j \in Pending(c, "subscribed")' : j < i
      BY <1>1, <1>6, <2>4, <2>5, <2>6, <2>8 DEF Orderly
    <3>3. \A i \in Pending(c, "close")' : i = Len(events'[c]) /\ phase'[c] = "Closing"
      BY <1>6, <2>3, <2>7
    <3>4. QED
      BY <3>1, <3>2, <3>3 DEF Orderly
  <2>10. Counted(c)' <=> Counted(c)
    <3>1. Counted(c)' <=> stage'[c] \notin {"free", "ended"} /\ subscribed'[c] /\ Pending(c, "subscribed")' = {}
      BY <2>1, <2>3, <2>9 DEF Counted, Orderly, Pending, Ev
    <3>2. QED
      BY <1>1, <2>4, <2>5, <3>1, CountedIs
  <2>11. QED
    BY <1>1, <2>9, <2>10 DEF CountsRight
<1>7. CASE phase[c] # "AwaitHello" /\ m = "subscribe"
  <2>1. Answers(c, m) = <<Snapshot, Ev("subscribed")>>
    BY <1>7 DEF Answers, Handled
  <2>2. Ev("subscribed") \in Events /\ Ev("subscribed").kind = "subscribed"
    BY EventTypes
  <2>3. events'[c] = q \o <<Snapshot, Ev("subscribed")>>
    BY <1>2, <2>1
  <2>4. /\ DOMAIN events'[c] = 1..Len(q) + 2 /\ Len(events'[c]) = Len(q) + 2
        /\ \A i \in 1..Len(q) : events'[c][i] = q[i]
        /\ events'[c][Len(q) + 1] = Snapshot /\ events'[c][Len(q) + 2] = Ev("subscribed")
    BY <1>1, <2>2, <2>3
  <2>5. ~subscribed[c] /\ subscribed'[c]
    BY <1>2, <1>3, <1>7
  <2>6. Pending(c, "subscribed") = {} /\ Pending(c, "command") = {}
    BY <2>5 DEF Orderly
  <2>7. /\ Pending(c, "subscribed")' = {Len(q) + 2}
        /\ Pending(c, "command")' = {} /\ Pending(c, "close")' = {}
    <3>1. ASSUME NEW kind, NEW i \in Pending(c, kind)', Pending(c, kind) = {}
          PROVE  events'[c][i].kind = kind /\ i \in {Len(q) + 1, Len(q) + 2}
      <4>1. i \in 1..Len(q) + 2 /\ events'[c][i].kind = kind
        BY <2>4, <3>1 DEF Pending
      <4>2. \A j \in 1..Len(q) : q[j].kind # kind
        BY <1>1, <3>1 DEF Pending, q
      <4>3. i \notin 1..Len(q)
        BY <2>4, <4>1, <4>2
      <4>4. Len(q) \in Nat
        BY <1>1
      <4>5. i = Len(q) + 1 \/ i = Len(q) + 2
        BY <4>1, <4>3, <4>4
      <4>6. QED
        BY <4>1, <4>5
    <3>2. /\ Len(q) + 2 \in DOMAIN events'[c]
          /\ events'[c][Len(q) + 1].kind = "state" /\ events'[c][Len(q) + 2].kind = "subscribed"
      BY <1>1, <2>2, <2>4
    <3>3. Pending(c, "subscribed")' = {Len(q) + 2}
      <4>1. Len(q) + 2 \in Pending(c, "subscribed")'
        BY <3>2 DEF Pending
      <4>2. QED
        BY <2>6, <3>1, <3>2, <4>1
    <3>4. Pending(c, "command")' = {}
      BY <2>6, <3>1, <3>2
    <3>5. Pending(c, "close")' = {}
      BY <1>4, <3>1, <3>2
    <3>6. QED
      BY <3>3, <3>4, <3>5
  <2>8. Orderly(c)'
    BY <2>4, <2>5, <2>7 DEF Orderly
  <2>9. ~Counted(c) /\ ~Counted(c)'
    <3>1. Len(q) + 2 \in DOMAIN events'[c]
      BY <1>1, <2>4
    <3>2. QED
      BY <2>4, <2>5, <3>1 DEF Counted
  <2>10. QED
    BY <1>1, <2>8, <2>9 DEF CountsRight
<1>8. CASE ~(phase[c] # "AwaitHello" /\ m = "subscribe")
  <2>1. CASE phase[c] = "AwaitHello"
    <3>1. CASE m = "hello"
      BY <1>5, <2>1, <3>1 DEF Answers
    <3>2. CASE m # "hello"
      <4>1. Answers(c, m) = <<Ev("close")>> /\ phase'[c] = "Closing"
        BY <1>2, <2>1, <3>2 DEF Answers
      <4>2. QED
        BY <1>6, <1>8, <4>1
    <3>3. QED
      BY <3>1, <3>2
  <2>2. CASE phase[c] # "AwaitHello"
    <3>1. CASE m = "hello"
      BY <1>5, <2>2, <3>1 DEF Answers, Handled
    <3>2. CASE m = "switch" /\ subscribed[c]
      <4>1. Answers(c, m) = <<Ev("command")>>
        BY <2>2, <3>2 DEF Answers, Handled
      <4>2. QED
        BY <1>6, <1>8, <3>2, <4>1
    <3>3. CASE m = "switch" /\ ~subscribed[c]
      <4>1. Answers(c, m) = <<Ev("strayCommand")>>
        BY <2>2, <3>3 DEF Answers, Handled
      <4>2. QED
        BY <1>6, <1>8, <4>1
    <3>4. CASE m = "disconnect"
      <4>1. Answers(c, m) = <<Ev("close")>> /\ phase'[c] = "Closing"
        BY <1>2, <2>2, <3>4 DEF Answers, Handled
      <4>2. QED
        BY <1>6, <1>8, <4>1
    <3>5. QED
      BY <1>8, <2>2, <3>1, <3>2, <3>3, <3>4 DEF Requests
  <2>3. QED
    BY <2>1, <2>2
<1>9. QED
  BY <1>7, <1>8

\* An event dispatched.
LEMMA DispatchCounts ==
  ASSUME ApiInv, NEW c \in Conns, Orderly(c), Dispatch(c), UNCHANGED faults
  PROVE  CountsRight(c)
<1> DEFINE q == events[c]
<1>1. /\ TypeOK /\ stage[c] = "dispatch" /\ q # <<>> /\ q \in Seq(Events) /\ faults \in 0..MaxFaults
  BY DEF Dispatch, ApiInv, Fresh, TypeOK
<1>2. /\ Len(q) \in Nat /\ Len(q) > 0 /\ DOMAIN q = 1..Len(q) /\ q[1] = Head(q) /\ Head(q) \in Events
      /\ DOMAIN Tail(q) = 1..Len(q) - 1 /\ Len(Tail(q)) = Len(q) - 1
      /\ \A i \in 1..Len(q) - 1 : Tail(q)[i] = q[i + 1]
  BY <1>1, HeadTailProperties, LenProperties, EmptySeq
<1>3. CASE Head(q).kind = "close"
  <2>1. Over(c, "leaving") /\ UNCHANGED inbox
    BY <1>3 DEF Dispatch
  <2>2. 1 \in Pending(c, "close")
    BY <1>2, <1>3 DEF Pending
  <2>3. Len(q) = 1
    BY <2>2 DEF Orderly
  <2>4. Pending(c, "subscribed") = {}
    BY <1>2, <1>3, <2>3 DEF Pending
  <2>5. QED
    BY <1>1, <2>1, <2>4, OverCounts
<1>4. CASE Head(q).kind # "close"
  <2>0. ~WriteFails(c)
    BY <1>1 DEF WriteFails, Fault
  <2>1. /\ events' = [events EXCEPT ![c] = Tail(@)]
        /\ IF Len(events[c]) = 1 THEN Goto(c, "fanout") ELSE UNCHANGED stage
        /\ UNCHANGED <<phase, subscribed>>
        /\ IF Head(q).kind = "state" THEN UNCHANGED inbox
           ELSE Tell(CASE Head(q).kind = "subscribed" -> "ClientSubscribed"
                       [] Head(q).kind = "command" -> "SwitchSubscribed"
                       [] OTHER -> "Switch")
    BY <1>4, <2>0 DEF Dispatch
  <2>2. events'[c] = Tail(q) /\ stage'[c] \notin {"free", "ended"} /\ subscribed'[c] = subscribed[c] /\ phase'[c] = phase[c]
    BY <1>1, <2>1 DEF TypeOK, Goto
  <2>3. \A kind : \A i \in Pending(c, kind)' : i + 1 \in Pending(c, kind) /\ i \in 1..Len(q) - 1
    BY <1>2, <2>2 DEF Pending
  <2>4. \A kind : \A i \in Pending(c, kind) : i # 1 => i - 1 \in Pending(c, kind)' /\ i \in 1..Len(q)
    BY <1>2, <2>2 DEF Pending
  <2>5. \A i \in Pending(c, "subscribed")' : events'[c][i] = events[c][i + 1]
    BY <1>2, <2>2, <2>3
  <2>6. Orderly(c)'
    <3>1. \A i \in Pending(c, "subscribed")' :
            /\ events'[c][i] = Ev("subscribed") /\ subscribed'[c]
            /\ \A j \in Pending(c, "subscribed")' : j = i
      BY <1>2, <2>2, <2>3, <2>5 DEF Orderly
    <3>2. \A i \in Pending(c, "command")' : subscribed'[c] /\ \A j \in Pending(c, "subscribed")' : j < i
      BY <1>2, <2>2, <2>3 DEF Orderly
    <3>3. \A i \in Pending(c, "close")' : i = Len(events'[c]) /\ phase'[c] = "Closing"
      BY <1>2, <2>2, <2>3 DEF Orderly
    <3>4. QED
      BY <3>1, <3>2, <3>3 DEF Orderly
  <2>7. Counted(c)' <=> subscribed[c] /\ Pending(c, "subscribed")' = {}
    <3>1. \A i \in DOMAIN events'[c] : events'[c][i] = Ev("subscribed") <=> i \in Pending(c, "subscribed")'
      BY <2>6, EventTypes DEF Orderly, Pending
    <3>2. QED
      BY <2>2, <3>1 DEF Counted, Pending
  <2>8. Counted(c) <=> subscribed[c] /\ Pending(c, "subscribed") = {}
    BY <1>1, CountedIs
  <2>9. CASE Head(q).kind = "subscribed"
    <3>1. 1 \in Pending(c, "subscribed")
      BY <1>2, <2>9 DEF Pending
    <3>2. subscribed[c] /\ Pending(c, "subscribed")' = {}
      <4>1. subscribed[c] /\ \A j \in Pending(c, "subscribed") : j = 1
        BY <3>1 DEF Orderly
      <4>2. ASSUME NEW i \in Pending(c, "subscribed")' PROVE FALSE
        BY <1>2, <2>3, <4>1, <4>2
      <4>3. QED
        BY <4>1, <4>2
    <3>3. Tells(c, "ClientSubscribed")
      BY <2>1, <2>7, <2>8, <2>9, <3>1, <3>2 DEF Tells, Tell
    <3>4. QED
      BY <2>6, <3>3 DEF CountsRight, Msgs
  <2>10. CASE Head(q).kind # "subscribed"
    <3>1. Pending(c, "subscribed")' = {} <=> Pending(c, "subscribed") = {}
      <4>1. 1 \notin Pending(c, "subscribed")
        BY <1>2, <2>10 DEF Pending
      <4>2. QED
        BY <2>3, <2>4, <4>1
    <3>2. Counted(c)' <=> Counted(c)
      BY <2>7, <2>8, <3>1
    <3>3. CASE Head(q).kind = "state"
      BY <2>1, <2>6, <3>2, <3>3 DEF CountsRight
    <3>4. CASE Head(q).kind = "command"
      <4>1. 1 \in Pending(c, "command")
        BY <1>2, <3>4 DEF Pending
      <4>2. subscribed[c] /\ \A j \in Pending(c, "subscribed") : j < 1
        BY <4>1 DEF Orderly
      <4>3. Pending(c, "subscribed") = {}
        BY <1>2, <4>2 DEF Pending
      <4>4. Tells(c, "SwitchSubscribed")
        BY <2>1, <2>8, <3>2, <3>4, <4>2, <4>3 DEF Tells, Tell
      <4>5. QED
        BY <2>6, <4>4 DEF CountsRight, Msgs
    <3>5. CASE Head(q).kind = "strayCommand"
      <4>1. Tells(c, "Switch")
        BY <2>1, <3>2, <3>5 DEF Tells, Tell
      <4>2. QED
        BY <2>6, <4>1 DEF CountsRight, Msgs
    <3>6. QED
      BY <1>2, <1>4, <2>10, <3>3, <3>4, <3>5 DEF Events
  <2>11. QED
    BY <2>9, <2>10
<1>5. QED
  BY <1>3, <1>4

\* A step of a connection without a fault changes the count by what it sends about it.
LEMMA MovesCount ==
  ASSUME ApiInv, NEW c \in Conns, Orderly(c), Moves(c), UNCHANGED faults
  PROVE  CountsRight(c)
<1>0. /\ TypeOK /\ Fresh(c) /\ faults \in 0..MaxFaults
  BY DEF ApiInv, TypeOK
<1>1. CASE Connect(c)
  <2>1. stage[c] = "free" /\ stage'[c] = "read" /\ UNCHANGED <<inbox, subscribed, events, phase>>
    BY <1>0, <1>1 DEF Connect, Goto, TypeOK, session
  <2>2. ~subscribed[c]
    BY <1>0, <2>1 DEF Fresh
  <2>3. QED
    BY <2>1, <2>2 DEF CountsRight, Orderly, Pending, Counted
<1>2. CASE IdlePasses(c) \/ \E how \in Peers : PeerFails(c, how)
  BY <1>0, <1>2, StillCounts DEF IdlePasses, PeerFails, session
<1>3. CASE ReadDone(c)
  <2>1. CASE events[c] = <<>> /\ peer[c] = "closed"
    <3>1. Over(c, "leaving") /\ UNCHANGED inbox /\ stage[c] = "read"
      BY <1>3, <2>1 DEF ReadDone
    <3>2. QED
      BY <1>0, <2>1, <3>1, NoEvents, OverCounts
  <2>2. CASE ~(events[c] = <<>> /\ peer[c] = "closed")
    BY <1>0, <1>3, <2>2, StillCounts DEF ReadDone, Goto, TypeOK, session
  <2>3. QED
    BY <2>1, <2>2
<1>4. CASE Fanout(c)
  <2>1. ~Abort(c)
    BY <1>0 DEF Abort, WriteFails, Fault
  <2>2. UNCHANGED <<inbox, stage, subscribed, events, phase>>
    BY <1>4, <2>1 DEF Fanout
  <2>3. QED
    BY <1>0, <2>2, StillCounts
<1>5. CASE Keepalive(c)
  <2>1. ~Abort(c)
    BY <1>0 DEF Abort, WriteFails, Fault
  <2>2. stage[c] = "fanout" /\ events[c] = <<>> /\ UNCHANGED inbox
    BY <1>0, <1>5 DEF Keepalive, Fresh
  <2>3. CASE Over(c, "leaving")
    BY <1>0, <2>2, <2>3, NoEvents, OverCounts
  <2>4. CASE Listen(c)
    <3>1. stage'[c] = "read" /\ UNCHANGED <<subscribed, events, phase>>
      BY <1>0, <2>4 DEF Listen, Goto, TypeOK
    <3>2. QED
      BY <1>0, <2>2, <3>1, StillCounts
  <2>5. QED
    BY <1>5, <2>1, <2>3, <2>4 DEF Keepalive
<1>6. CASE Leave(c)
  <2>1. /\ stage[c] = "leaving" /\ stage'[c] = "ended" /\ events[c] = <<>>
        /\ UNCHANGED <<subscribed, events, phase>>
        /\ inbox' = Append(inbox, IF subscribed[c] THEN "GoneSubscribed" ELSE "Gone")
    BY <1>0, <1>6 DEF Leave, Tell, Goto, TypeOK, session, Fresh, Serving
  <2>2. ~Counted(c)' /\ (Counted(c) <=> subscribed[c]) /\ Orderly(c)'
    BY <2>1, NoEvents, NoEventsLeft DEF Counted
  <2>3. CASE subscribed[c]
    <3>1. Tells(c, "GoneSubscribed")
      BY <2>1, <2>2, <2>3 DEF Tells
    <3>2. QED
      BY <2>2, <3>1 DEF CountsRight, Msgs
  <2>4. CASE ~subscribed[c]
    <3>1. Tells(c, "Gone")
      BY <2>1, <2>2, <2>4 DEF Tells
    <3>2. QED
      BY <2>2, <3>1 DEF CountsRight, Msgs
  <2>5. QED
    BY <2>3, <2>4
<1>7. CASE End(c)
  <2>1. stage[c] = "ended" /\ stage'[c] = "free" /\ events'[c] = <<>> /\ UNCHANGED inbox
    BY <1>0, <1>7 DEF End, Goto, TypeOK, Fresh, Serving
  <2>2. QED
    BY <2>1, NoEventsLeft DEF CountsRight, Counted
<1>8. QED
  BY <1>0, <1>1, <1>2, <1>3, <1>4, <1>5, <1>6, <1>7, ReceiveCounts, DispatchCounts DEF Moves, Thread

\* What the count depends on belongs to the connection that moves.
LEMMA OthersOrderly ==
  ASSUME TypeOK, NEW c \in Conns, Moves(c), NEW d \in Conns \ {c}, Orderly(d)
  PROVE  Orderly(d)' /\ (Counted(d)' <=> Counted(d))
<1>1. UNCHANGED <<stage[d], subscribed[d], events[d]>>
  BY OthersSame DEF Same
<1>2. UNCHANGED phase[d]
  <2>1. ASSUME NEW where, Over(c, where) PROVE UNCHANGED phase[d]
    BY <2>1 DEF Over, TypeOK
  <2>2. QED
    BY <2>1 DEF Moves, Thread, Connect, IdlePasses, ReadDone, Dispatch, Fanout, Keepalive, Leave, End,
                PeerFails, Receive, Abort, Listen, TypeOK, session
<1>3. QED
  BY <1>1, <1>2 DEF Orderly, Pending, Counted

\* Without a fault none was before.
LEMMA NoFault ==
  ASSUME TypeOK, [Next]_vars, faults' = 0
  PROVE  faults = 0
<1>1. faults \in Nat /\ ~Fault
  BY BoundsAssumption DEF TypeOK, Fault
<1>2. ASSUME NEW c \in Conns, Moves(c) PROVE UNCHANGED faults
  BY <1>1, <1>2 DEF Moves, Thread, Connect, IdlePasses, ReadDone, Dispatch, Fanout, Keepalive, Leave, End,
                    PeerFails, Receive, Abort, Listen, WriteFails
<1>3. CASE MainLoop \/ UNCHANGED vars
  BY <1>3 DEF MainLoop, HandleMsg, Record, Push, vars
<1>4. QED
  BY <1>2, <1>3 DEF Next, Moves

\* Every step keeps the account of clients.
LEMMA CountStep ==
  ASSUME ApiInv, CountInv, [Next]_vars
  PROVE  CountInv'
<1>0. /\ TypeOK /\ inbox \in Seq(Msgs) /\ haClients \in Nat
      /\ connected \in BOOLEAN /\ (connected <=> haClients > 0)
  BY DEF ApiInv, CountInv, TypeOK
<1>1. ASSUME NEW c \in Conns, Moves(c)
      PROVE  CountInv'
  <2>1. UNCHANGED <<haClients, connected>>
    BY <1>0, <1>1 DEF Moves, Thread, Connect, IdlePasses, ReadDone, Dispatch, Fanout, Keepalive, Leave, End,
                PeerFails, Receive, main
  <2>2. ASSUME faults' = 0
        PROVE  (\A d \in Conns : Orderly(d)') /\ Accounts(inbox', haClients', Cardinality(CountedClients'))
    <3>1. faults = 0 /\ UNCHANGED faults
      BY <1>0, <2>2, NoFault
    <3>2. (\A d \in Conns : Orderly(d)) /\ Accounts(inbox, haClients, Cardinality(CountedClients))
      BY <3>1 DEF CountInv
    <3>3. CountsRight(c)
      BY <1>1, <3>1, <3>2, MovesCount
    <3>4. \A d \in Conns \ {c} : Orderly(d)' /\ (Counted(d)' <=> Counted(d))
      BY <1>0, <1>1, <3>2, OthersOrderly
    <3>5. \A d \in Conns : Orderly(d)'
      BY <3>3, <3>4 DEF CountsRight
    <3>6. IsFiniteSet(CountedClients) /\ Cardinality(CountedClients) \in Nat
      BY BoundsAssumption, FS_Subset, FS_CardinalityType DEF CountedClients
    <3>7. (Counted(c)' <=> Counted(c)) => CountedClients' = CountedClients
      BY <3>4 DEF CountedClients
    <3>8. CASE UNCHANGED inbox /\ (Counted(c)' <=> Counted(c))
      BY <2>1, <3>2, <3>5, <3>7, <3>8
    <3>9. ASSUME NEW msg \in Msgs, Tells(c, msg)
          PROVE  Accounts(inbox', haClients', Cardinality(CountedClients'))
      <4>1. Counted(c) => Cardinality(CountedClients) > 0
        <5>1. Counted(c) => CountedClients # {}
          BY DEF CountedClients
        <5>2. QED
          BY <3>6, <5>1, FS_EmptySet
      <4>2. msg \in FromCounted => Cardinality(CountedClients) > 0
        BY <3>9, <4>1 DEF Tells, FromCounted
      <4>3. Cardinality(CountedClients') = After(msg, Cardinality(CountedClients))
        <5>1. CASE msg = "ClientSubscribed"
          <6>1. c \notin CountedClients /\ CountedClients' = CountedClients \cup {c}
            BY <3>4, <3>9, <5>1 DEF Tells, CountedClients
          <6>2. QED
            BY <3>6, <5>1, <6>1, FS_AddElement DEF After
        <5>2. CASE msg = "GoneSubscribed"
          <6>1. c \in CountedClients /\ CountedClients' = CountedClients \ {c}
            BY <3>4, <3>9, <5>2 DEF Tells, CountedClients
          <6>2. QED
            BY <3>6, <5>2, <6>1, FS_RemoveElement DEF After
        <5>3. CASE msg \notin {"ClientSubscribed", "GoneSubscribed"}
          BY <3>7, <3>9, <5>3 DEF Tells, After
        <5>4. QED
          BY <5>1, <5>2, <5>3
      <4>4. Accounts(Append(inbox, msg), haClients, After(msg, Cardinality(CountedClients)))
        BY <1>0, <3>2, <4>2, AccountsAppend
      <4>5. QED
        BY <2>1, <3>9, <4>3, <4>4 DEF Tells
    <3>10. QED
      BY <3>3, <3>5, <3>8, <3>9 DEF CountsRight
  <2>3. QED
    BY <1>0, <2>1, <2>2 DEF CountInv
<1>2. CASE HandleMsg
  <2>1. /\ inbox # <<>> /\ inbox' = Tail(inbox)
        /\ UNCHANGED <<stage, subscribed, events, phase, faults>>
    BY <1>2 DEF HandleMsg, session
  <2>2. connected' <=> haClients' > 0
    <3>1. CASE Head(inbox) = "ClientSubscribed"
      <4>1. haClients' = haClients + 1 /\ connected' = (connected \/ haClients' = 1)
        BY <1>2, <3>1 DEF HandleMsg
      <4>2. (haClients > 0 \/ haClients' = 1) <=> haClients' > 0
        BY <1>0, <4>1
      <4>3. QED
        BY <1>0, <4>1, <4>2, Zenon
    <3>2. CASE Head(inbox) = "GoneSubscribed"
      <4>1. /\ haClients' = IF haClients = 0 THEN 0 ELSE haClients - 1
            /\ connected' = (connected /\ haClients' # 0)
        BY <1>2, <3>2 DEF HandleMsg, SaturatingSub, StillConnected
      <4>2. (haClients > 0 /\ haClients' # 0) <=> haClients' > 0
        BY <1>0, <4>1
      <4>3. QED
        BY <1>0, <4>1, <4>2, Zenon
    <3>3. CASE Head(inbox) \notin {"ClientSubscribed", "GoneSubscribed"}
      BY <1>0, <1>2, <3>3 DEF HandleMsg
    <3>4. QED
      BY <3>1, <3>2, <3>3
  <2>3. (\A d \in Conns : Orderly(d)' <=> Orderly(d)) /\ CountedClients' = CountedClients
    BY <2>1 DEF Orderly, Pending, CountedClients, Counted
  <2>4. ASSUME Accounts(inbox, haClients, Cardinality(CountedClients))
        PROVE  Accounts(inbox', haClients', Cardinality(CountedClients'))
    <3>1. /\ Head(inbox) \in FromCounted => haClients > 0
          /\ Accounts(Tail(inbox), After(Head(inbox), haClients), Cardinality(CountedClients))
      BY <1>0, <2>1, <2>4, AccountsTail
    <3>2. haClients' = After(Head(inbox), haClients)
      BY <1>0, <1>2, <3>1 DEF HandleMsg, SaturatingSub, After, FromCounted
    <3>3. QED
      BY <2>1, <2>3, <3>1, <3>2
  <2>5. QED
    BY <2>1, <2>2, <2>3, <2>4 DEF CountInv
<1>3. CASE Record \/ Push \/ UNCHANGED vars
  <2>1. UNCHANGED <<stage, subscribed, events, phase, inbox, haClients, connected, faults>>
    BY <1>3 DEF Record, Push, vars, session, main
  <2>2. (\A d \in Conns : Orderly(d)' <=> Orderly(d)) /\ CountedClients' = CountedClients
    BY <2>1 DEF Orderly, Pending, CountedClients, Counted
  <2>3. QED
    BY <2>1, <2>2 DEF CountInv
<1>4. QED
  BY <1>1, <1>2, <1>3 DEF Next, MainLoop, Moves

\* Nobody is counted at first.
LEMMA CountStart == Init => CountInv
<1> SUFFICES ASSUME Init PROVE CountInv
  OBVIOUS
<1>1. /\ inbox = <<>> /\ haClients = 0 /\ connected = FALSE
      /\ \A c \in Conns : events[c] = <<>> /\ stage[c] = "free"
  BY DEF Init
<1>2. \A c \in Conns : Orderly(c)
  BY <1>1, NoEvents
<1>3. Cardinality(CountedClients) = 0
  <2>1. CountedClients = {}
    BY <1>1 DEF CountedClients, Counted
  <2>2. QED
    BY <2>1, FS_EmptySet
<1>4. Balanced(inbox, 0, 0)
  <2>1. Leads(inbox, [i \in 0..0 |-> 0])
    BY <1>1 DEF Leads
  <2>2. [i \in 0..0 |-> 0][0] = 0 /\ Len(inbox) = 0
    BY <1>1
  <2>3. QED
    BY <2>1, <2>2 DEF Balanced
<1>5. \A msg : Cardinality(Places(inbox, msg)) = 0
  <2>1. \A msg : Places(inbox, msg) = {}
    BY <1>1 DEF Places
  <2>2. QED
    BY <2>1, FS_EmptySet
<1>6. Accounts(inbox, 0, 0)
  BY <1>4, <1>5 DEF Accounts
<1>7. QED
  BY <1>1, <1>2, <1>3, <1>6 DEF CountInv

\* Unless a write failed or a client subscribed twice, the count of the main loop and
\* the messages on their way account for every subscribed client, so that a command
\* of one never finds the arbiter without a client (main.rs, the client count).
THEOREM ApiCount == Spec => []CountExact
<1>1. ApiInv /\ CountInv => CountExact
  <2> SUFFICES ASSUME ApiInv, CountInv PROVE CountExact
    OBVIOUS
  <2>1. inbox \in Seq(Msgs) /\ haClients \in Nat /\ (connected <=> haClients > 0)
    BY DEF ApiInv, TypeOK, CountInv
  <2>2. ASSUME faults = 0
        PROVE  /\ haClients + Waiting("ClientSubscribed")
                    = Cardinality({c \in Conns : Counted(c)}) + Waiting("GoneSubscribed")
               /\ inbox # <<>> /\ Head(inbox) = "SwitchSubscribed" => haClients > 0
    <3>1. Accounts(inbox, haClients, Cardinality(CountedClients))
      BY <2>2 DEF CountInv
    <3>2. inbox # <<>> /\ Head(inbox) = "SwitchSubscribed" => haClients > 0
      BY <2>1, <3>1, AccountsTail DEF FromCounted
    <3>3. QED
      BY <3>1, <3>2 DEF Accounts, Waiting, Places, CountedClients
  <2>3. QED
    BY <2>1, <2>2 DEF CountExact
<1>2. Init => CountInv
  BY CountStart
<1>3. ApiInv /\ CountInv /\ [Next]_vars => CountInv'
  BY CountStep
<1>4. QED
  BY <1>1, <1>2, <1>3, ApiInvariant, PTL DEF Spec
=============================================================================
