------------------------------ MODULE ApiLink ------------------------------
(***************************************************************************)
(* The native API server as threads: the listener, one thread per client   *)
(* (runner.rs serve around a session.rs Session) and the main loop, which  *)
(* publishes states through server.rs and counts the subscribed clients to *)
(* tell the arbiter whether Home Assistant is connected.                   *)
(*                                                                         *)
(* Abstractions.  Codec and frames are left out: a client sends messages.  *)
(* There is one entity; its value is the number of times it was published, *)
(* so a set_state that changes nothing is no step.  Log lines and replies  *)
(* travel and fail like states and are left out.  A connection refused at  *)
(* MAX_CLIENTS leaves no trace.                                            *)
(***************************************************************************)
EXTENDS Integers, Sequences, FiniteSets

CONSTANTS
  Conns,          \* identities of connections
  MaxClients,     \* MAX_CLIENTS of the listener
  MaxEvents,      \* bound: a chunk goes on while it made fewer events
  MaxInbox,       \* bound on the main loop's queue
  MaxUpdates,     \* bound on published values
  MaxFaults       \* bound on `faults`

ASSUME BoundsAssumption ==
  /\ IsFiniteSet(Conns)
  /\ MaxClients \in Nat \ {0}
  /\ MaxEvents \in Nat
  /\ MaxInbox \in Nat \ {0}
  /\ MaxUpdates \in Nat
  /\ MaxFaults \in Nat

Peers == {"up", "closed", "silent"}     \* closed: FIN or RST; silent: no answer
Stages == {"free", "read", "dispatch", "fanout", "leaving", "ended"}
Requests == {"hello", "subscribe", "switch", "disconnect"}   \* hello again: no effect
Events == [kind : {"state", "subscribed", "command", "strayCommand", "close"}, value : 0..MaxUpdates]
Unseen == -1
Msgs == {"ClientSubscribed", "Gone", "GoneSubscribed", "Switch", "SwitchSubscribed"}

VARIABLES
  peer,         \* what is at the other end of the connection
  stage,        \* where the connection's thread is in serve
  phase,        \* Session.phase
  subscribed,   \* Session.subscribed
  events,       \* events of the last chunk not yet dispatched
  queue,        \* the connection's outbound channel
  view,         \* the value last written to the client, Unseen before
  idle,         \* 0 fresh, 1 past KEEPALIVE_IDLE, 2 past KEEPALIVE_DEAD
  pinged,       \* ping_sent
  active,       \* the listener's count of threads
  state,        \* Shared.states
  sending,      \* set_state is between the insert and the fan-out
  inbox,        \* the main loop's channel
  haClients,    \* ha_clients of the main loop
  connected,    \* ha_connected of the arbiter
  faults        \* writes that failed and repeated subscriptions (observed, not read)

session == <<phase, subscribed, events, queue, view, idle, pinged>>
main == <<state, sending, haClients, connected>>
vars == <<peer, stage, session, active, main, inbox, faults>>

\* The thread is in the loop of serve, its connection attached to the server.
Serving(c) == stage[c] \in {"read", "dispatch", "fanout"}

Fault == faults < MaxFaults /\ faults' = faults + 1

Goto(c, where) == stage' = [stage EXCEPT ![c] = where]

-----------------------------------------------------------------------------
(***************************************************************************)
(* Listener and network.                                                   *)
(***************************************************************************)

\* Only the listener raises `active`, so its check and its increment count as
\* one step; if the thread cannot be spawned the increment is taken back.  What
\* is published before the thread attaches is in the snapshot it sends later.
Connect(c) ==
  /\ stage[c] = "free"
  /\ active < MaxClients
  /\ active' = active + 1
  /\ Goto(c, "read")
  /\ peer' = [peer EXCEPT ![c] = "up"]
  /\ UNCHANGED <<session, main, inbox, faults>>

\* The client goes away, or the network to it.
PeerFails(c, how) ==
  /\ Serving(c) /\ peer[c] = "up"
  /\ peer' = [peer EXCEPT ![c] = how]
  /\ UNCHANGED <<stage, session, active, main, inbox, faults>>

\* Nothing is received for a while; a live client answers the ping in time.
IdlePasses(c) ==
  /\ Serving(c)
  /\ idle[c] = 0 \/ (idle[c] = 1 /\ peer[c] # "up")
  /\ idle' = [idle EXCEPT ![c] = @ + 1]
  /\ UNCHANGED <<peer, stage, phase, subscribed, events, queue, view, pinged,
                 active, main, inbox, faults>>

-----------------------------------------------------------------------------
(***************************************************************************)
(* A connection's thread.                                                  *)
(***************************************************************************)
Ev(kind) == [kind |-> kind, value |-> 0]
Snapshot == [kind |-> "state", value |-> state]

\* Session::handle, in phase Connected: the events of a request.  A command
\* remembers whether its client had subscribed (observed, not in the code).
Handled(m, had) ==
  CASE m = "subscribe" -> <<Snapshot, Ev("subscribed")>>
    [] m = "switch" -> <<Ev(IF had THEN "command" ELSE "strayCommand")>>
    [] m = "disconnect" -> <<Ev("close")>>
    [] OTHER -> <<>>

\* One more message of the chunk that was read: before the hello anything else
\* is an error, and an error or a disconnect ends the chunk.
Receive(c, m) ==
  LET greeting == phase[c] = "AwaitHello"
      subscribes == ~greeting /\ m = "subscribe"
  IN /\ stage[c] = "read" /\ peer[c] = "up" /\ phase[c] # "Closing"
     /\ Len(events[c]) <= MaxEvents
     /\ phase' = [phase EXCEPT ![c] =
          IF (greeting /\ m # "hello") \/ m = "disconnect" THEN "Closing"
          ELSE "Connected"]
     /\ events' = [events EXCEPT ![c] =
          @ \o (IF ~greeting THEN Handled(m, subscribed[c]) ELSE IF m = "hello" THEN <<>> ELSE <<Ev("close")>>)]
     /\ subscribed' = [subscribed EXCEPT ![c] = @ \/ subscribes]
     /\ idle' = [idle EXCEPT ![c] = 0]
     /\ pinged' = [pinged EXCEPT ![c] = FALSE]
     /\ IF subscribes /\ subscribed[c] THEN Fault ELSE UNCHANGED faults
     /\ UNCHANGED <<peer, stage, queue, view, active, main, inbox>>

\* The connection is over: the thread goes to `where`, what it had not sent is
\* dropped.
Over(c, where) ==
  /\ Goto(c, where)
  /\ peer' = [peer EXCEPT ![c] = "closed"]
  /\ phase' = [phase EXCEPT ![c] = "AwaitHello"]
  /\ events' = [events EXCEPT ![c] = <<>>]
  /\ queue' = [queue EXCEPT ![c] = <<>>]
  /\ view' = [view EXCEPT ![c] = Unseen]
  /\ idle' = [idle EXCEPT ![c] = 0]
  /\ pinged' = [pinged EXCEPT ![c] = FALSE]
  /\ UNCHANGED subscribed

\* The chunk is complete, or the read timed out, or it found the connection closed.
ReadDone(c) ==
  /\ stage[c] = "read"
  /\ IF events[c] = <<>> /\ peer[c] = "closed" THEN Over(c, "leaving")
     ELSE /\ Goto(c, IF events[c] = <<>> THEN "fanout" ELSE "dispatch")
          /\ UNCHANGED <<peer, session>>
  /\ UNCHANGED <<active, main, inbox, faults>>

\* write_all to a client that is there succeeds; to one that is gone it may
\* still succeed, into the send buffer.
WriteFails(c) == peer[c] # "up" /\ Fault

Tell(msg) == Len(inbox) < MaxInbox /\ inbox' = Append(inbox, msg)

\* dispatch: the events in order; after a failed write the rest is dropped.
Dispatch(c) ==
  LET e == Head(events[c])
      consumed == /\ events' = [events EXCEPT ![c] = Tail(@)]
                  /\ IF Len(events[c]) = 1 THEN Goto(c, "fanout") ELSE UNCHANGED stage
                  /\ UNCHANGED <<peer, phase, subscribed, queue, idle, pinged>>
  IN /\ stage[c] = "dispatch"
     /\ \/ /\ e.kind = "state"
           /\ consumed
           /\ view' = [view EXCEPT ![c] = e.value]
           /\ UNCHANGED <<inbox, faults>>
        \/ e.kind = "state" /\ WriteFails(c) /\ Over(c, "leaving") /\ UNCHANGED inbox
        \/ /\ e.kind \in {"subscribed", "command", "strayCommand"}
           /\ consumed
           /\ Tell(CASE e.kind = "subscribed" -> "ClientSubscribed"
                     [] e.kind = "command" -> "SwitchSubscribed"
                     [] OTHER -> "Switch")
           /\ UNCHANGED <<view, faults>>
        \/ e.kind = "close" /\ Over(c, "leaving") /\ UNCHANGED <<inbox, faults>>
     /\ UNCHANGED <<active, main>>

\* A failed write in the fan-out or the keepalive returns from serve at once,
\* without the ClientGone that the end of its loop sends.
Abort(c) == WriteFails(c) /\ Over(c, "ended")

\* Mutant: of the values that wait only the oldest is sent.
FanoutOne(c) ==
  /\ stage[c] = "fanout" /\ queue[c] # <<>>
  /\ \/ /\ view' = IF subscribed[c] THEN [view EXCEPT ![c] = Head(queue[c])] ELSE view
        /\ queue' = [queue EXCEPT ![c] = <<>>]
        /\ UNCHANGED <<peer, stage, phase, subscribed, events, idle, pinged, faults>>
     \/ subscribed[c] /\ Abort(c)
  /\ UNCHANGED <<active, main, inbox>>

\* One message of the outbound channel; only a subscribed client is sent it.
Fanout(c) ==
  /\ stage[c] = "fanout" /\ queue[c] # <<>>
  /\ \/ /\ view' = IF subscribed[c] THEN [view EXCEPT ![c] = Head(queue[c])] ELSE view
        /\ queue' = [queue EXCEPT ![c] = Tail(@)]
        /\ UNCHANGED <<peer, stage, phase, subscribed, events, idle, pinged, faults>>
     \/ subscribed[c] /\ Abort(c)
  /\ UNCHANGED <<active, main, inbox>>

Listen(c) ==
  /\ Goto(c, "read")
  /\ UNCHANGED <<peer, phase, subscribed, events, queue, view, idle>>

\* Mutant: the client is given up only when the ping cannot be sent.
KeepalivePatient(c) ==
  /\ stage[c] = "fanout" /\ queue[c] = <<>>
  /\ \/ idle[c] = 0 /\ Listen(c) /\ UNCHANGED <<pinged, faults>>
     \/ idle[c] > 0 /\ Listen(c) /\ pinged' = [pinged EXCEPT ![c] = TRUE] /\ UNCHANGED faults
     \/ idle[c] > 0 /\ Abort(c)
  /\ UNCHANGED <<active, main, inbox>>

\* After KEEPALIVE_IDLE ping once, after KEEPALIVE_DEAD give up.
Keepalive(c) ==
  LET ping == idle[c] = 1 /\ ~pinged[c]
  IN /\ stage[c] = "fanout" /\ queue[c] = <<>>
     /\ \/ idle[c] = 2 /\ Over(c, "leaving") /\ UNCHANGED faults
        \/ idle[c] < 2 /\ Listen(c) /\ pinged' = [pinged EXCEPT ![c] = @ \/ ping]
                       /\ UNCHANGED faults
        \/ ping /\ Abort(c)
     /\ UNCHANGED <<active, main, inbox>>

\* Mutant: the end of every connection counts as that of a subscribed one.
LeaveCounted(c) ==
  /\ stage[c] = "leaving"
  /\ Tell("GoneSubscribed")
  /\ Goto(c, "ended")
  /\ UNCHANGED <<peer, session, active, main, faults>>

\* After the loop of serve.
Leave(c) ==
  /\ stage[c] = "leaving"
  /\ Tell(IF subscribed[c] THEN "GoneSubscribed" ELSE "Gone")
  /\ Goto(c, "ended")
  /\ UNCHANGED <<peer, session, active, main, faults>>

\* Mutant: the slot is given back only by a thread whose client had subscribed.
EndKeepsSlot(c) ==
  /\ stage[c] = "ended"
  /\ Goto(c, "free")
  /\ active' = IF subscribed[c] THEN active - 1 ELSE active
  /\ subscribed' = [subscribed EXCEPT ![c] = FALSE]
  /\ UNCHANGED <<peer, phase, events, queue, view, idle, pinged, main, inbox, faults>>

\* serve has returned, and the thread ends.
End(c) ==
  /\ stage[c] = "ended"
  /\ Goto(c, "free")
  /\ active' = active - 1
  /\ subscribed' = [subscribed EXCEPT ![c] = FALSE]
  /\ UNCHANGED <<peer, phase, events, queue, view, idle, pinged, main, inbox, faults>>

-----------------------------------------------------------------------------
(***************************************************************************)
(* The main loop.                                                          *)
(***************************************************************************)
SaturatingSub(n) == IF n = 0 THEN 0 ELSE n - 1

\* After a client went the arbiter still has one if `count` are left.
StillConnected(count) == connected /\ count # 0

HandleMsg ==
  /\ ~sending /\ inbox # <<>>
  /\ inbox' = Tail(inbox)
  /\ haClients' = CASE Head(inbox) = "ClientSubscribed" -> haClients + 1
                    [] Head(inbox) = "GoneSubscribed" -> SaturatingSub(haClients)
                    [] OTHER -> haClients
  /\ connected' = CASE Head(inbox) = "ClientSubscribed" -> connected \/ haClients' = 1
                    [] Head(inbox) = "GoneSubscribed" -> StillConnected(haClients')
                    [] OTHER -> connected
  /\ UNCHANGED <<peer, stage, session, active, state, sending, faults>>

\* set_state: record the new value, then, under another lock, send it to every
\* connection in its loop.
Record ==
  /\ ~sending /\ state < MaxUpdates
  /\ state' = state + 1
  /\ sending' = TRUE
  /\ UNCHANGED <<peer, stage, session, active, inbox, haClients, connected, faults>>

Push ==
  /\ sending
  /\ sending' = FALSE
  /\ queue' = [c \in Conns |-> IF Serving(c) THEN Append(queue[c], state) ELSE queue[c]]
  /\ UNCHANGED <<peer, stage, phase, subscribed, events, view, idle, pinged, active,
                 state, inbox, haClients, connected, faults>>

Init ==
  /\ peer = [c \in Conns |-> "closed"]
  /\ stage = [c \in Conns |-> "free"]
  /\ phase = [c \in Conns |-> "AwaitHello"]
  /\ subscribed = [c \in Conns |-> FALSE]
  /\ events = [c \in Conns |-> <<>>]
  /\ queue = [c \in Conns |-> <<>>]
  /\ view = [c \in Conns |-> Unseen]
  /\ idle = [c \in Conns |-> 0]
  /\ pinged = [c \in Conns |-> FALSE]
  /\ active = 0
  /\ state = 0
  /\ sending = FALSE
  /\ inbox = <<>>
  /\ haClients = 0
  /\ connected = FALSE
  /\ faults = 0

Thread(c) == ReadDone(c) \/ Dispatch(c) \/ Fanout(c) \/ Keepalive(c) \/ Leave(c) \/ End(c)

MainLoop == HandleMsg \/ Record \/ Push

Next ==
  \/ \E c \in Conns :
       \/ Connect(c) \/ IdlePasses(c) \/ Thread(c)
       \/ \E how \in Peers \ {"up"} : PeerFails(c, how)
       \/ \E m \in Requests : Receive(c, m)
  \/ MainLoop

Spec == Init /\ [][Next]_vars

\* The threads are scheduled, and time passes for a connection that is silent.
Fairness ==
  /\ \A c \in Conns : WF_vars(Thread(c)) /\ WF_vars(IdlePasses(c))
  /\ WF_vars(HandleMsg \/ Push)

FairSpec == Spec /\ Fairness

-----------------------------------------------------------------------------
TypeOK ==
  /\ peer \in [Conns -> Peers]
  /\ stage \in [Conns -> Stages]
  /\ phase \in [Conns -> {"AwaitHello", "Connected", "Closing"}]
  /\ subscribed \in [Conns -> BOOLEAN]
  /\ events \in [Conns -> Seq(Events)]
  /\ queue \in [Conns -> Seq(0..MaxUpdates)]
  /\ view \in [Conns -> {Unseen} \cup 0..MaxUpdates]
  /\ idle \in [Conns -> 0..2]
  /\ pinged \in [Conns -> BOOLEAN]
  /\ active \in Nat
  /\ state \in 0..MaxUpdates
  /\ sending \in BOOLEAN
  /\ inbox \in Seq(Msgs)
  /\ haClients \in Nat
  /\ connected \in BOOLEAN
  /\ faults \in 0..MaxFaults

\* A thread slot is taken exactly by the threads there are, however their
\* connections ended: MAX_CLIENTS is never exceeded and no slot leaks.
SlotsExact ==
  /\ active = Cardinality({c \in Conns : stage[c] # "free"})
  /\ active <= MaxClients

\* The main loop has been told, or is about to be, that the client subscribed.
Counted(c) ==
  stage[c] \notin {"free", "ended"} /\ subscribed[c] /\ ~\E i \in DOMAIN events[c] : events[c][i] = Ev("subscribed")

Waiting(msg) == Cardinality({i \in DOMAIN inbox : inbox[i] = msg})

\* As long as no write failed and no client subscribed twice, the main loop's
\* count and the messages on their way account for every subscribed client, so
\* that a command of one is not ignored as offline, whatever others come and go.
\* The arbiter is connected exactly while the count, which never wraps below
\* zero, is not zero.
CountExact ==
  /\ faults = 0 => haClients + Waiting("ClientSubscribed")
                    = Cardinality({c \in Conns : Counted(c)}) + Waiting("GoneSubscribed")
  /\ faults = 0 /\ inbox # <<>> /\ Head(inbox) = "SwitchSubscribed" => connected
  /\ haClients >= 0 /\ (connected <=> haClients > 0)

\* A subscribed client that has been sent everything shows the current value,
\* also when it subscribed in the middle of a set_state.
ViewsCatchUp ==
  \A c \in Conns :
    Serving(c) /\ subscribed[c] /\ events[c] = <<>> /\ queue[c] = <<>> /\ ~sending
      => view[c] = state

\* Nobody is there any more.
Deserted == \A c \in Conns : stage[c] = "free" \/ peer[c] # "up"

\* When every client has gone or fallen silent, and none comes back, the board
\* goes offline, provided that no write failed and none subscribed twice.
OfflineNoticed == Deserted ~> (~connected \/ ~Deserted \/ faults > 0)
=============================================================================
