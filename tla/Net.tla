-------------------------------- MODULE Net --------------------------------
(***************************************************************************)
(* The station, the setup access point (AP) and the two threads that share *)
(* them: the main loop decides (firmware/src/main.rs), the WiFi thread     *)
(* drives the radio (wifi.rs).  They talk through two channels, so each    *)
(* acts on what it last heard of the other, and the radio changes by       *)
(* itself.  The policy: the AP opens after a long outage, so that the      *)
(* credentials can be corrected, and closes when the board is back online. *)
(*                                                                         *)
(* Abstractions.  Credentials are a value each; TooLong are those the      *)
(* driver's fixed-size strings cannot hold.  Every call of the driver may  *)
(* fail, as often as it likes but for connect().  The two long delays of   *)
(* the policy are counted in a coarse unit and saturate; the short ones    *)
(* (connect timeout, backoff, rate limit of scans) may end at any moment.  *)
(* Ticks, button and setup page send to the same channel as the WiFi       *)
(* thread; as they may send at any time they are handled at any time.      *)
(***************************************************************************)
EXTENDS Naturals, Sequences

CONSTANTS
  Networks,       \* credentials the driver can take
  TooLong,        \* credentials it rejects
  NoNetwork,      \* the empty ssid
  None,           \* Option::None
  OfflineUnits,   \* PORTAL_AFTER_OFFLINE in units
  IdleUnits,      \* PORTAL_IDLE in units
  MaxQueue,       \* bound on the length of a channel
  MaxEvents       \* bound on presses, saves, scans, clients, refusals and restarts

ASSUME NetAssumption ==
  /\ NoNetwork \notin Networks \cup TooLong
  /\ Networks \cap TooLong = {}
  /\ None \notin Nat
  /\ OfflineUnits \in Nat
  /\ IdleUnits \in Nat
  /\ MaxQueue \in Nat \ {0}
  /\ MaxEvents \in Nat

VARIABLES
  main,     \* the main loop's view and its timers
  led,      \* the colour of the RGB LED
  sta,      \* the WiFi thread
  status,   \* what the WiFi thread reports to the setup page
  radio,    \* the driver: station phase, its configuration, the AP on air, and
            \* whether the last configuration went through
  cmds,     \* from the main loop to the WiFi thread
  msgs,     \* from the WiFi thread to the main loop
  left      \* what is left of MaxEvents

vars == <<main, led, sta, status, radio, cmds, msgs, left>>

Credentials == Networks \cup TooLong \cup {NoNetwork}

Spend == left > 0 /\ left' = left - 1

-----------------------------------------------------------------------------
(***************************************************************************)
(* The main loop.                                                          *)
(***************************************************************************)

\* What the LED is set to when the AP closes and when the station comes up.
Colour(m) == CASE m.ap -> "blue"
               [] ~m.ap /\ ~m.up -> "red"
               [] ~m.ap /\ m.up /\ m.clients > 0 -> "green"
               [] ~m.ap /\ m.up /\ m.clients = 0 -> "amber"

\* Mutant: the open AP is not asked.
RepaintAlways(m) == IF m.up THEN "amber" ELSE "red"

\* The other handlers leave the LED alone while the AP is open.
Repaint(m) == IF m.ap THEN led ELSE Colour(m)

Over(age, limit) == age # None /\ age > limit

OpenDue(m) == ~m.ap /\ m.creds # NoNetwork /\ Over(m.downFor, OfflineUnits)

CloseDue(m) == m.ap /\ m.creds # NoNetwork /\ m.up /\ Over(m.apFor, IdleUnits)

\* Mutant: the opening is not timed.
OpenedUntimed(m) == [m EXCEPT !.ap = TRUE]

Opened(m) == [m EXCEPT !.ap = TRUE, !.apFor = 0]
Closed(m) == [m EXCEPT !.ap = FALSE, !.apFor = None]

Send(cmd) == Len(cmds) < MaxQueue /\ cmds' = Append(cmds, cmd)
Cmd(op) == [op |-> op, creds |-> NoNetwork]

\* Msg::Tick, the portal policy.  An AP just opened is not due to close.
Policy ==
  /\ \/ OpenDue(main) /\ main' = Opened(main) /\ Send(Cmd("StartAp"))
     \/ CloseDue(main) /\ main' = Closed(main) /\ Send(Cmd("StopAp"))
  /\ led' = Colour(main')
  /\ UNCHANGED <<sta, status, radio, msgs, left>>

\* Msg::LongPress
LongPress ==
  /\ Spend
  /\ main' = IF main.ap THEN Closed(main) ELSE Opened(main)
  /\ Send(Cmd(IF main.ap THEN "StopAp" ELSE "StartAp"))
  /\ led' = Colour(main')
  /\ UNCHANGED <<sta, status, radio, msgs>>

\* Msg::PortalScan, when the last scan is long enough ago.
PortalScan ==
  /\ Spend
  /\ Send(Cmd("Scan"))
  /\ UNCHANGED <<main, led, sta, status, radio, msgs>>

\* Msg::Provision: the main loop keeps believing the station is up.
Provision(c) ==
  /\ Spend
  /\ main' = [main EXCEPT !.creds = c, !.downFor = 0]
  /\ Send([op |-> "SetStation", creds |-> c])
  /\ UNCHANGED <<led, sta, status, radio, msgs>>

WentUp(m) == [m EXCEPT !.up = TRUE, !.downFor = None]

\* Mutant: only a station that was up starts the clock of the outage.
WentDownOnce(m) == [m EXCEPT !.up = FALSE, !.downFor = IF m.up THEN 0 ELSE None]

WentDown(m) ==
  [m EXCEPT !.up = FALSE, !.downFor = IF m.up \/ m.downFor = None THEN 0 ELSE @]

\* Msg::WifiUp, Msg::WifiDown
HandleMsg ==
  /\ msgs # <<>>
  /\ msgs' = Tail(msgs)
  /\ main' = IF Head(msgs) = "WifiUp" THEN WentUp(main) ELSE WentDown(main)
  /\ led' = Repaint(main')
  /\ UNCHANGED <<sta, status, radio, cmds, left>>

\* Command::ClientSubscribed and Command::ClientGone: here, what they do to the LED.
ClientSubscribed ==
  /\ Spend
  /\ main' = [main EXCEPT !.clients = @ + 1]
  /\ led' = IF main.ap THEN led ELSE "green"
  /\ UNCHANGED <<sta, status, radio, cmds, msgs>>

ClientGone ==
  /\ main.clients > 0
  /\ main' = [main EXCEPT !.clients = @ - 1]
  /\ led' = IF main'.clients > 0 THEN led ELSE Repaint(main')
  /\ UNCHANGED <<sta, status, radio, cmds, msgs, left>>

\* is_connected of the driver: associated, with an address or without.
IsConn(r) == r.phase \in {"associated", "up"}

Older(age, limit) == IF age = None \/ age > limit THEN age ELSE age + 1

\* Every delay is long against the steps of the threads, and a unit is long
\* against the short delays: none ends while something sent is not handled.
Quiet == cmds = <<>> /\ msgs = <<>>

TimePasses ==
  /\ Quiet /\ ~sta.apply
  /\ sta.joining = "late" => IsConn(radio)
  /\ main' = [main EXCEPT !.downFor = Older(@, OfflineUnits), !.apFor = Older(@, IdleUnits)]
  /\ main' # main
  /\ sta' = IF sta.joining = "yes" THEN [sta EXCEPT !.joining = "late"] ELSE sta
  /\ UNCHANGED <<led, status, radio, cmds, msgs, left>>

-----------------------------------------------------------------------------
(***************************************************************************)
(* The WiFi thread: one turn of its loop applies the configuration, scans, *)
(* looks at the station (Turn), then waits for a command (Receive).        *)
(***************************************************************************)

\* apply: station and AP are configured together, and the radio starts afresh.
Configured(s) ==
  [phase |-> IF s.creds = NoNetwork /\ ~s.ap THEN "stopped" ELSE "idle",
   creds |-> s.creds, air |-> s.ap, applied |-> TRUE]

\* stop, set_configuration or start fails: what the calls before it did stays done.
\* The error is logged and nobody tries again.
HalfApplied(s) ==
  {[radio EXCEPT !.phase = IF @ = "stopped" THEN @ ELSE "idle", !.applied = FALSE]} \cup
  {[phase |-> "stopped", creds |-> c, air |-> FALSE, applied |-> FALSE] : c \in {radio.creds, s.creds}}

\* Credentials the driver cannot take fail before the radio is touched.
AppliedRadios(s) ==
  IF s.creds \in TooLong THEN {[radio EXCEPT !.applied = FALSE]}
  ELSE {Configured(s)} \cup HalfApplied(s)

AppliedSta(s) == [s EXCEPT !.connected = FALSE, !.joining = "no", !.wait = FALSE, !.apply = FALSE]

AppliedStatus(s) == [creds |-> s.creds, connected |-> FALSE]

\* scan: an association in progress is dropped, and tried again at once.
ScannedRadio(s, r) == IF s.scan /\ r.phase = "joining" THEN [r EXCEPT !.phase = "idle"] ELSE r

ScannedSta(s) ==
  LET t == [s EXCEPT !.scan = FALSE]
  IN IF s.scan /\ s.creds # NoNetwork /\ ~s.connected
     THEN [t EXCEPT !.joining = "no", !.wait = FALSE] ELSE t

\* Mutant: the timeout leaves the attempt standing.
TimedOutStuck(s) == [s EXCEPT !.wait = TRUE]

TimedOut(s) == [s EXCEPT !.joining = "no", !.wait = TRUE]

\* The station state machine, one disjunct per branch; s and r are what the
\* configuration and the scan left, `report` the status so far.
Station(s, r, report) ==
  \/ /\ s.creds = NoNetwork
     /\ sta' = [s EXCEPT !.pc = "receive"]
     /\ radio' = r /\ status' = report /\ UNCHANGED <<msgs, left>>
  \/ /\ s.creds # NoNetwork /\ r.phase = "up" /\ ~s.connected
     /\ sta' = [s EXCEPT !.pc = "receive", !.connected = TRUE, !.joining = "no"]
     /\ status' = [report EXCEPT !.connected = TRUE]
     /\ msgs' = Append(msgs, "WifiUp")
     /\ radio' = r /\ UNCHANGED left
  \/ /\ s.creds # NoNetwork /\ ~IsConn(r) /\ s.connected
     /\ sta' = [s EXCEPT !.pc = "receive", !.connected = FALSE, !.wait = TRUE]
     /\ status' = [report EXCEPT !.connected = FALSE]
     /\ msgs' = Append(msgs, "WifiDown")
     /\ radio' = r /\ UNCHANGED left
  \/ /\ s.creds # NoNetwork /\ ~IsConn(r) /\ ~s.connected /\ s.joining = "late"
     /\ sta' = [TimedOut(s) EXCEPT !.pc = "receive"]
     /\ radio' = IF r.phase = "joining" THEN [r EXCEPT !.phase = "idle"] ELSE r
     /\ msgs' = Append(msgs, "WifiDown")
     /\ status' = report /\ UNCHANGED left
  \/ /\ s.creds # NoNetwork /\ ~IsConn(r) /\ ~s.connected /\ s.joining = "no" /\ ~s.wait
     /\ \/ /\ r.phase # "stopped"
           /\ radio' = [r EXCEPT !.phase = "joining"]
           /\ sta' = [s EXCEPT !.pc = "receive", !.joining = "yes"]
           /\ UNCHANGED left
        \/ /\ sta' = [s EXCEPT !.pc = "receive", !.wait = TRUE]
           /\ radio' = r
           /\ IF r.phase = "stopped" THEN UNCHANGED left ELSE Spend
     /\ status' = report /\ UNCHANGED msgs
  \/ /\ s.creds # NoNetwork
     /\ \/ IsConn(r) /\ (s.connected \/ r.phase = "associated")
        \/ ~IsConn(r) /\ ~s.connected /\ (s.joining = "yes" \/ (s.joining = "no" /\ s.wait))
     /\ sta' = [s EXCEPT !.pc = "receive"]
     /\ radio' = r /\ status' = report /\ UNCHANGED <<msgs, left>>

Turn ==
  /\ sta.pc = "turn"
  /\ Len(msgs) < MaxQueue
  /\ LET applied == IF sta.apply THEN AppliedSta(sta) ELSE sta
         report == IF sta.apply THEN AppliedStatus(sta) ELSE status
     IN \E r \in IF sta.apply THEN AppliedRadios(sta) ELSE {radio} :
          Station(ScannedSta(applied), ScannedRadio(applied, r), report)
  /\ UNCHANGED <<main, led, cmds>>

\* Mutant: a command to open the AP is not followed by a new configuration.
ObeyedNoApply(s, cmd) ==
  CASE cmd.op = "SetStation" -> [s EXCEPT !.creds = cmd.creds, !.apply = TRUE]
    [] cmd.op = "StartAp" -> [s EXCEPT !.ap = TRUE, !.scan = TRUE]
    [] cmd.op = "StopAp" -> [s EXCEPT !.ap = FALSE, !.apply = TRUE]
    [] cmd.op = "Scan" -> [s EXCEPT !.scan = TRUE]

Obeyed(s, cmd) ==
  CASE cmd.op = "SetStation" -> [s EXCEPT !.creds = cmd.creds, !.apply = TRUE]
    [] cmd.op = "StartAp" -> IF s.ap THEN s
                             ELSE [s EXCEPT !.ap = TRUE, !.apply = TRUE, !.scan = TRUE]
    [] cmd.op = "StopAp" -> IF ~s.ap THEN s ELSE [s EXCEPT !.ap = FALSE, !.apply = TRUE]
    [] cmd.op = "Scan" -> [s EXCEPT !.scan = TRUE]

Receive ==
  /\ sta.pc = "receive"
  /\ \/ /\ cmds # <<>>
        /\ sta' = [Obeyed(sta, Head(cmds)) EXCEPT !.pc = "turn"]
        /\ cmds' = Tail(cmds)
     \/ /\ cmds = <<>>
        /\ sta' = [sta EXCEPT !.pc = "turn"]
        /\ UNCHANGED cmds
  /\ UNCHANGED <<main, led, status, radio, msgs, left>>

\* CONNECT_TIMEOUT is over; next_attempt is reached.
JoinIsLate ==
  /\ Quiet /\ sta.joining = "yes"
  /\ sta' = [sta EXCEPT !.joining = "late"]
  /\ UNCHANGED <<main, led, status, radio, cmds, msgs, left>>

WaitIsOver ==
  /\ Quiet /\ sta.wait
  /\ sta' = [sta EXCEPT !.wait = FALSE]
  /\ UNCHANGED <<main, led, status, radio, cmds, msgs, left>>

-----------------------------------------------------------------------------
(***************************************************************************)
(* The radio by itself, and restarts.                                      *)
(***************************************************************************)
RadioMoves(from, to) ==
  /\ radio.phase = from
  /\ radio' = [radio EXCEPT !.phase = to]
  /\ UNCHANGED <<main, led, sta, status, cmds, msgs, left>>

Associates == RadioMoves("joining", "associated")
JoinFails == RadioMoves("joining", "idle")
GetsAddress == RadioMoves("associated", "up")
LosesAddress == RadioMoves("up", "associated")
Dropped == RadioMoves("associated", "idle")
LosesNetwork == RadioMoves("up", "idle")

\* A boot with credentials c; without any the AP is open from the start.
BootMain(c) ==
  LET m == [creds |-> c, up |-> FALSE, downFor |-> 0, ap |-> FALSE, apFor |-> None, clients |-> 0]
  IN IF c = NoNetwork THEN Opened(m) ELSE m

BootSta(c) ==
  [creds |-> c, ap |-> c = NoNetwork, connected |-> FALSE, joining |-> "no", wait |-> FALSE,
   apply |-> TRUE, scan |-> TRUE, pc |-> "turn"]

BootStatus == [creds |-> NoNetwork, connected |-> FALSE]
BootRadio == [phase |-> "stopped", creds |-> NoNetwork, air |-> FALSE, applied |-> TRUE]

Init ==
  /\ \E c \in Credentials : main = BootMain(c) /\ sta = BootSta(c)
  /\ led = Colour(main)
  /\ status = BootStatus
  /\ radio = BootRadio
  /\ cmds = <<>>
  /\ msgs = <<>>
  /\ left = MaxEvents

\* A power cut or a restart; the credentials are in flash.
Restart ==
  /\ Spend
  /\ main' = BootMain(main.creds)
  /\ sta' = BootSta(main.creds)
  /\ led' = Colour(main')
  /\ status' = BootStatus
  /\ radio' = BootRadio
  /\ cmds' = <<>>
  /\ msgs' = <<>>

MainLoop ==
  \/ Policy \/ LongPress \/ PortalScan \/ HandleMsg \/ ClientSubscribed \/ ClientGone
  \/ \E c \in Networks \cup TooLong : Provision(c)

WifiThread == Turn \/ Receive

Environment ==
  \/ TimePasses \/ JoinIsLate \/ WaitIsOver \/ Restart
  \/ Associates \/ JoinFails \/ GetsAddress \/ LosesAddress \/ Dropped \/ LosesNetwork

Next == MainLoop \/ WifiThread \/ Environment

\* The threads are scheduled and time passes.
Scheduled ==
  /\ WF_vars(Policy) /\ WF_vars(HandleMsg) /\ WF_vars(Turn) /\ WF_vars(Receive)
  /\ SF_vars(TimePasses) /\ WF_vars(JoinIsLate) /\ WF_vars(WaitIsOver)

Spec == Init /\ [][Next]_vars /\ Scheduled

-----------------------------------------------------------------------------
\* Neither a command on its way nor one received but not applied.
Settled == cmds = <<>> /\ ~sta.apply

\* When the two threads have settled they agree, however openings, closings and
\* saves crossed: the AP is on air exactly if the main loop thinks so, unless the
\* driver failed to do it, and a station that is up is known to it, with no outage
\* timed: else the AP would open on a healthy network.
ThreadsAgree ==
  Settled =>
    /\ radio.applied => radio.air = main.ap
    /\ msgs = <<>> /\ sta.connected => main.up /\ main.downFor = None

\* What the board tells its owner is true: the setup page reports a network joined
\* only if it is the one that is joined, unless the driver failed to leave another,
\* and the handlers that set the LED agree on what the main loop believes, but for
\* green after a client subscribed while the station is down.
BoardTells ==
  /\ status.connected /\ radio.phase = "up" /\ radio.applied => radio.creds = status.creds
  /\ led = Colour(main) \/ (led = "green" /\ main.clients > 0 /\ ~main.up /\ ~main.ap)

\* The purpose of PORTAL_AFTER_OFFLINE (main.rs:50): if the station is in no network
\* for good the AP is put on air, and again if it is closed, unless the driver failed
\* to do it.  A station in a network without an address is no outage to the board: the
\* thread notices neither an address that is lost nor one that is not given again.
OutageOpensAp ==
  <>[](main.creds # NoNetwork /\ ~IsConn(radio) /\ radio.applied) => []<>radio.air

\* Once the station stays up the AP does not stay open.
ApCloses == <>[](main.creds # NoNetwork /\ radio.phase = "up" /\ radio.applied) => <>[]~radio.air

\* No path of timeouts, scans, drops and new configurations leaves the station with
\* neither an attempt nor a retry due, as long as its driver runs: nobody starts a
\* driver again that a failed configuration left stopped.
TriesForever ==
  <>[](main.creds # NoNetwork /\ radio.phase # "stopped") => []<>(radio.phase # "idle")
=============================================================================
