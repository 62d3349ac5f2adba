------------------------------ MODULE NetProofs ------------------------------
(***************************************************************************)
(* The main loop and the WiFi thread agree, and what they tell the owner   *)
(* is true, for any number of networks, any length of the channels and any *)
(* number of presses, saves and restarts, whatever credentials the driver  *)
(* takes and whichever of its calls fail: what it failed to do is said     *)
(* (radio.applied), and nothing else may differ.                           *)
(*                                                                         *)
(* The argument is about what is on its way: the last command about the AP *)
(* says what the main loop believes, and the last message what the WiFi    *)
(* thread knows, unless a command that starts the station afresh is under  *)
(* way.                                                                    *)
(***************************************************************************)
EXTENDS Net, TLAPS, SequenceTheorems

Commands == [op : {"SetStation", "StartAp", "StopAp", "Scan"}, creds : Credentials]

AboutAp(cmd) == cmd.op \in {"StartAp", "StopAp"}

Ages == Nat \cup {None}

MainType ==
  [creds : Credentials, up : BOOLEAN, downFor : Ages, ap : BOOLEAN, apFor : Ages, clients : Nat]

StaType ==
  [creds : Credentials, ap : BOOLEAN, connected : BOOLEAN, joining : {"no", "yes", "late"},
   wait : BOOLEAN, apply : BOOLEAN, scan : BOOLEAN, pc : {"turn", "receive"}]

RadioType ==
  [phase : {"stopped", "idle", "joining", "associated", "up"}, creds : Credentials, air : BOOLEAN,
   applied : BOOLEAN]

TypeInv ==
  /\ main \in MainType
  /\ sta \in StaType
  /\ status \in [creds : Credentials, connected : BOOLEAN]
  /\ radio \in RadioType
  /\ cmds \in Seq(Commands)
  /\ msgs \in Seq({"WifiUp", "WifiDown"})

\* The last command about the AP, if any, says what the main loop believes.
ApAgreed(q, ap, believed) ==
  /\ (\A i \in DOMAIN q : ~AboutAp(q[i])) => ap = believed
  /\ \A i \in DOMAIN q :
       AboutAp(q[i]) /\ (\A j \in DOMAIN q : i < j => ~AboutAp(q[j])) => (believed <=> q[i].op = "StartAp")

\* A station that is up is known to the main loop, or will be.
UpAgreed ==
  sta.connected /\ ~sta.apply /\ (\A i \in DOMAIN cmds : cmds[i].op # "SetStation") =>
    IF msgs = <<>> THEN main.up /\ main.downFor = None ELSE msgs[Len(msgs)] = "WifiUp"

LedTrue == led = Colour(main) \/ (led = "green" /\ main.clients > 0 /\ ~main.up /\ ~main.ap)

\* The inductive invariant.
NetInv ==
  /\ TypeInv
  /\ ApAgreed(cmds, sta.ap, main.ap)
  /\ ~sta.apply /\ radio.applied => radio.air = sta.ap
  /\ UpAgreed
  /\ radio.applied => radio.creds = status.creds
  /\ LedTrue

-----------------------------------------------------------------------------
(***************************************************************************)
(* The channels.                                                           *)
(***************************************************************************)

\* A queue with one more at its end.
LEMMA Appended ==
  ASSUME NEW S, NEW q \in Seq(S), NEW x \in S
  PROVE  /\ Append(q, x) \in Seq(S)
         /\ Append(q, x) # <<>>
         /\ Append(q, x)[Len(Append(q, x))] = x
         /\ DOMAIN q \subseteq Int /\ Len(q) \in Int
         /\ \A i \in DOMAIN q : i \in DOMAIN Append(q, x) /\ Append(q, x)[i] = q[i] /\ i < Len(q) + 1
         /\ Len(q) + 1 \in DOMAIN Append(q, x) /\ Append(q, x)[Len(q) + 1] = x
         /\ \A i \in DOMAIN Append(q, x) : i \in DOMAIN q \/ i = Len(q) + 1
  BY AppendProperties, LenProperties

\* A queue without its first.
LEMMA Taken ==
  ASSUME NEW S, NEW q \in Seq(S), q # <<>>
  PROVE  /\ Tail(q) \in Seq(S) /\ Head(q) \in S
         /\ 1 \in DOMAIN q /\ Head(q) = q[1]
         /\ DOMAIN q \subseteq Int /\ \A j \in DOMAIN q : j >= 1
         /\ \A i \in DOMAIN Tail(q) : i \in Int /\ i + 1 \in DOMAIN q /\ Tail(q)[i] = q[i + 1]
         /\ \A j \in DOMAIN q : j # 1 => j - 1 \in DOMAIN Tail(q) /\ Tail(q)[j - 1] = q[j]
         /\ Tail(q) = <<>> => q[Len(q)] = q[1]
         /\ Tail(q) # <<>> => Tail(q)[Len(Tail(q))] = q[Len(q)]
<1>1. /\ Tail(q) \in Seq(S) /\ Head(q) \in S
      /\ Len(q) \in Nat /\ Len(q) # 0
      /\ Len(Tail(q)) = Len(q) - 1
      /\ \A i \in 1..Len(Tail(q)) : Tail(q)[i] = q[i + 1]
  BY HeadTailProperties, EmptySeq, LenProperties
<1>2. DOMAIN q = 1..Len(q) /\ DOMAIN Tail(q) = 1..Len(q) - 1 /\ Head(q) = q[1]
  BY <1>1, LenProperties
<1>3. Tail(q) = <<>> => Len(q) = 1
  <2>1. Tail(q) = <<>> => Len(Tail(q)) = 0
    <3>1. \A t : t = <<>> => Len(t) = 0
      OBVIOUS
    <3> DEFINE t == Tail(q)
    <3>2. t = <<>> => Len(t) = 0
      <4> HIDE DEF t
      <4>1. QED
        BY <3>1
    <3>3. QED
      BY <3>2
  <2>2. Len(Tail(q)) = 0 => Len(q) = 1
    <3>1. \A n \in Nat : n - 1 = 0 => n = 1
      OBVIOUS
    <3>2. QED
      BY <1>1, <3>1, Zenon
  <2>3. QED
    BY <2>1, <2>2
<1>4. Tail(q) # <<>> => Tail(q)[Len(Tail(q))] = q[Len(q)]
  <2>1. SUFFICES ASSUME Tail(q) # <<>> PROVE Tail(q)[Len(Tail(q))] = q[Len(q)]
    OBVIOUS
  <2>2. Len(Tail(q)) \in Nat /\ Len(Tail(q)) # 0
    BY <1>1, <2>1, EmptySeq, LenProperties
  <2>3. Len(Tail(q)) \in 1..Len(Tail(q)) /\ Len(Tail(q)) + 1 = Len(q)
    BY <1>1, <2>2
  <2>4. QED
    BY <1>1, <2>3
<1>5. \A j \in DOMAIN q : j # 1 => j - 1 \in DOMAIN Tail(q) /\ Tail(q)[j - 1] = q[j]
  <2> SUFFICES ASSUME NEW j \in DOMAIN q, j # 1
               PROVE  j - 1 \in DOMAIN Tail(q) /\ Tail(q)[j - 1] = q[j]
    OBVIOUS
  <2>1. j - 1 \in 1..Len(Tail(q)) /\ (j - 1) + 1 = j
    BY <1>1, <1>2
  <2>2. QED
    BY <1>1, <1>2, <2>1
<1>6. Tail(q) = <<>> => q[Len(q)] = q[1]
  BY <1>3
<1>7. \A i \in DOMAIN Tail(q) : i \in Int /\ i + 1 \in DOMAIN q /\ Tail(q)[i] = q[i + 1]
  BY <1>1, <1>2
<1>8. 1 \in DOMAIN q /\ DOMAIN q \subseteq Int /\ \A j \in DOMAIN q : j >= 1
  BY <1>1, <1>2
<1>9. QED
  BY <1>1, <1>2, <1>4, <1>5, <1>6, <1>7, <1>8

\* A command sent says what the main loop then believes.
LEMMA SentAp ==
  ASSUME NEW q \in Seq(Commands), NEW cmd \in Commands, NEW ap, NEW was, NEW is \in BOOLEAN,
         ApAgreed(q, ap, was),
         IF AboutAp(cmd) THEN is <=> cmd.op = "StartAp" ELSE is = was
  PROVE  ApAgreed(Append(q, cmd), ap, is)
<1> DEFINE t == Append(q, cmd)
           n == Len(q) + 1
<1>1. /\ n \in DOMAIN t /\ t[n] = cmd
      /\ DOMAIN q \subseteq Int
      /\ \A i \in DOMAIN q : i \in DOMAIN t /\ t[i] = q[i] /\ i < n
      /\ \A i \in DOMAIN t : i \in DOMAIN q \/ i = n
      /\ n \in Int
  BY Appended
<1> HIDE DEF t, n
<1>2. CASE AboutAp(cmd)
  <2>1. \A i \in DOMAIN t :
          AboutAp(t[i]) /\ (\A j \in DOMAIN t : i < j => ~AboutAp(t[j])) => i = n
    BY <1>1, <1>2
  <2>2. QED
    BY <1>1, <1>2, <2>1 DEF ApAgreed, t
<1>3. CASE ~AboutAp(cmd)
  <2>1. (\A i \in DOMAIN t : ~AboutAp(t[i])) => ap = is
    BY <1>1, <1>3 DEF ApAgreed
  <2>2. ASSUME NEW i \in DOMAIN t, AboutAp(t[i]), \A j \in DOMAIN t : i < j => ~AboutAp(t[j])
        PROVE  is <=> t[i].op = "StartAp"
    BY <1>1, <1>3, <2>2 DEF ApAgreed
  <2>3. QED
    BY <2>1, <2>2 DEF ApAgreed, t
<1>4. QED
  BY <1>2, <1>3

\* A command obeyed leaves the others to be.
LEMMA ObeyedAp ==
  ASSUME NEW q \in Seq(Commands), q # <<>>, NEW ap, NEW now \in BOOLEAN, NEW believed \in BOOLEAN,
         ApAgreed(q, ap, believed),
         now = IF AboutAp(Head(q)) THEN Head(q).op = "StartAp" ELSE ap
  PROVE  ApAgreed(Tail(q), now, believed)
<1> DEFINE t == Tail(q)
<1>1. /\ 1 \in DOMAIN q /\ Head(q) = q[1]
      /\ DOMAIN q \subseteq Int /\ \A j \in DOMAIN q : j >= 1
      /\ \A i \in DOMAIN t : i \in Int /\ i + 1 \in DOMAIN q /\ t[i] = q[i + 1]
      /\ \A j \in DOMAIN q : j # 1 => j - 1 \in DOMAIN t /\ t[j - 1] = q[j]
  BY Taken
<1> HIDE DEF t
<1>2. (\A i \in DOMAIN t : ~AboutAp(t[i])) => now = believed
  <2>1. SUFFICES ASSUME \A i \in DOMAIN t : ~AboutAp(t[i]) PROVE now = believed
    OBVIOUS
  <2>2. \A j \in DOMAIN q : j # 1 => ~AboutAp(q[j])
    BY <1>1, <2>1
  <2>3. CASE AboutAp(q[1])
    <3>1. believed <=> q[1].op = "StartAp"
      BY <1>1, <2>2, <2>3 DEF ApAgreed
    <3>2. QED
      BY <1>1, <2>3, <3>1
  <2>4. CASE ~AboutAp(q[1])
    BY <1>1, <2>2, <2>4 DEF ApAgreed
  <2>5. QED
    BY <2>3, <2>4
<1>3. ASSUME NEW i \in DOMAIN t, AboutAp(t[i]), \A j \in DOMAIN t : i < j => ~AboutAp(t[j])
      PROVE  believed <=> t[i].op = "StartAp"
  <2>1. i \in Int /\ i + 1 \in DOMAIN q /\ t[i] = q[i + 1]
    BY <1>1
  <2>2. ASSUME NEW j \in DOMAIN q, i + 1 < j
        PROVE  ~AboutAp(q[j])
    <3>1. j \in Int /\ 1 \in DOMAIN q /\ i + 1 >= 1
      BY <1>1, <2>1
    <3>2. j # 1 /\ i < j - 1
      BY <2>1, <2>2, <3>1
    <3>3. QED
      BY <1>1, <1>3, <3>2
  <2>3. QED
    BY <1>3, <2>1, <2>2 DEF ApAgreed
<1>4. QED
  BY <1>2, <1>3 DEF ApAgreed, t

-----------------------------------------------------------------------------
(***************************************************************************)
(* The main loop.                                                          *)
(***************************************************************************)

\* What the main loop does without a word from the WiFi thread: it may open or close
\* the AP, or save credentials, and sends that.
LEMMA SendInv ==
  ASSUME NetInv, NEW cmd \in Commands, Send(cmd),
         main' \in MainType,
         IF AboutAp(cmd) THEN main'.ap <=> cmd.op = "StartAp" ELSE main'.ap = main.ap,
         cmd.op # "SetStation" => main'.up = main.up /\ main'.downFor = main.downFor,
         LedTrue',
         UNCHANGED <<sta, status, radio, msgs>>
  PROVE  NetInv'
<1>1. cmds' = Append(cmds, cmd) /\ cmds \in Seq(Commands) /\ main.ap \in BOOLEAN /\ main'.ap \in BOOLEAN
  BY DEF NetInv, TypeInv, Send, MainType
<1>2. TypeInv'
  BY <1>1, AppendProperties DEF NetInv, TypeInv
<1>3. ApAgreed(cmds', sta.ap, main'.ap)
  BY <1>1, SentAp DEF NetInv
<1>4. UpAgreed'
  <2> SUFFICES ASSUME sta.connected, ~sta.apply, \A i \in DOMAIN cmds' : cmds'[i].op # "SetStation"
               PROVE  IF msgs = <<>> THEN main'.up /\ main'.downFor = None ELSE msgs[Len(msgs)] = "WifiUp"
    BY DEF UpAgreed
  <2>1. cmd.op # "SetStation" /\ \A i \in DOMAIN cmds : cmds[i].op # "SetStation"
    BY <1>1, Appended
  <2>2. QED
    BY <2>1 DEF NetInv, UpAgreed
<1>5. QED
  BY <1>2, <1>3, <1>4 DEF NetInv

\* Whoever sets the LED sets it to what the main loop believes.
LEMMA LedSet ==
  ASSUME led' = Colour(main')
  PROVE  LedTrue'
  BY DEF LedTrue

\* The commands, told apart by their operation.
LEMMA Commanded ==
  /\ \A op \in {"StartAp", "StopAp", "Scan"} : Cmd(op) \in Commands /\ Cmd(op).op = op
  /\ \A c \in Credentials : /\ [op |-> "SetStation", creds |-> c] \in Commands
                            /\ [op |-> "SetStation", creds |-> c].op = "SetStation"
  BY DEF Cmd, Commands, Credentials

\* Opening and closing the AP changes nothing else.
LEMMA OpenedClosed ==
  ASSUME NEW m \in MainType
  PROVE  /\ Opened(m) \in MainType /\ Opened(m).ap = TRUE
         /\ Opened(m).up = m.up /\ Opened(m).downFor = m.downFor
         /\ Closed(m) \in MainType /\ Closed(m).ap = FALSE
         /\ Closed(m).up = m.up /\ Closed(m).downFor = m.downFor
  BY DEF MainType, Opened, Closed, Ages

\* The main loop opens or closes the AP and sends the command for it.
LEMMA ApInv ==
  ASSUME NetInv, Policy \/ LongPress
  PROVE  NetInv'
<1>1. main \in MainType
  BY DEF NetInv, TypeInv
<1>2. led' = Colour(main') /\ UNCHANGED <<sta, status, radio, msgs>>
  BY DEF Policy, LongPress
<1>3. CASE main' = Opened(main) /\ Send(Cmd("StartAp"))
  <2>1. Cmd("StartAp") \in Commands /\ Cmd("StartAp").op = "StartAp"
    BY Commanded
  <2>2. QED
    BY <1>1, <1>2, <1>3, <2>1, OpenedClosed, LedSet, SendInv DEF MainType, AboutAp
<1>4. CASE main' = Closed(main) /\ Send(Cmd("StopAp"))
  <2>1. Cmd("StopAp") \in Commands /\ Cmd("StopAp").op = "StopAp"
    BY Commanded
  <2>2. QED
    BY <1>1, <1>2, <1>4, <2>1, OpenedClosed, LedSet, SendInv DEF MainType, AboutAp
<1>5. QED
  BY <1>3, <1>4 DEF Policy, LongPress

\* A scan that is asked for changes no belief.
LEMMA ScanInv ==
  ASSUME NetInv, PortalScan
  PROVE  NetInv'
<1>1. Cmd("Scan") \in Commands /\ Cmd("Scan").op = "Scan"
  BY Commanded
<1>2. LedTrue'
  BY DEF NetInv, LedTrue, PortalScan, Colour
<1>3. QED
  BY <1>1, <1>2, SendInv DEF PortalScan, NetInv, TypeInv, AboutAp

\* Other credentials are sent to the WiFi thread.
LEMMA ProvisionInv ==
  ASSUME NetInv, NEW c \in Networks \cup TooLong, Provision(c)
  PROVE  NetInv'
<1> DEFINE cmd == [op |-> "SetStation", creds |-> c]
<1>1. cmd \in Commands /\ cmd.op = "SetStation" /\ c \in Credentials
  BY Commanded DEF Credentials
<1>2. /\ main' = [main EXCEPT !.creds = c, !.downFor = 0] /\ Send(cmd)
      /\ UNCHANGED <<led, sta, status, radio, msgs>>
  BY DEF Provision
<1>3. main \in MainType
  BY DEF NetInv, TypeInv
<1>4. /\ main' \in MainType
      /\ main'.ap = main.ap /\ main'.up = main.up /\ main'.clients = main.clients
  BY <1>1, <1>2, <1>3 DEF MainType, Ages
<1>5. LedTrue'
  BY <1>2, <1>4 DEF NetInv, LedTrue, Colour
<1> HIDE DEF cmd
<1>6. QED
  BY <1>1, <1>2, <1>4, <1>5, SendInv DEF MainType, AboutAp

\* The main loop takes a message and believes it.
LEMMA HandleMsgInv ==
  ASSUME NetInv, HandleMsg
  PROVE  NetInv'
<1>1. /\ msgs # <<>> /\ msgs' = Tail(msgs)
      /\ main' = IF Head(msgs) = "WifiUp" THEN WentUp(main) ELSE WentDown(main)
      /\ led' = Repaint(main')
      /\ UNCHANGED <<sta, status, radio, cmds>>
  BY DEF HandleMsg
<1>2. main \in MainType /\ msgs \in Seq({"WifiUp", "WifiDown"})
  BY DEF NetInv, TypeInv
<1>3. /\ msgs' \in Seq({"WifiUp", "WifiDown"}) /\ Head(msgs) = msgs[1]
      /\ msgs' = <<>> => msgs[Len(msgs)] = msgs[1]
      /\ msgs' # <<>> => msgs'[Len(msgs')] = msgs[Len(msgs)]
  BY <1>1, <1>2, Taken
<1>4. /\ WentUp(main) \in MainType /\ WentUp(main).ap = main.ap
      /\ WentUp(main).up = TRUE /\ WentUp(main).downFor = None
      /\ WentDown(main) \in MainType /\ WentDown(main).ap = main.ap
  BY <1>2 DEF MainType, WentUp, WentDown, Ages
<1>5. main' \in MainType /\ main'.ap = main.ap
  BY <1>1, <1>4
<1>6. LedTrue'
  <2>1. CASE main'.ap
    <3>1. led = "blue"
      BY <1>5, <2>1 DEF NetInv, LedTrue, Colour
    <3>2. QED
      BY <1>1, <2>1, <3>1 DEF LedTrue, Colour, Repaint
  <2>2. CASE ~main'.ap
    BY <1>1, <2>2 DEF LedTrue, Repaint
  <2>3. QED
    BY <2>1, <2>2
<1>7. UpAgreed'
  <2> SUFFICES ASSUME sta.connected, ~sta.apply, \A i \in DOMAIN cmds : cmds[i].op # "SetStation"
               PROVE  IF msgs' = <<>> THEN main'.up /\ main'.downFor = None ELSE msgs'[Len(msgs')] = "WifiUp"
    BY <1>1 DEF UpAgreed
  <2>1. msgs[Len(msgs)] = "WifiUp"
    BY <1>1 DEF NetInv, UpAgreed
  <2>2. QED
    BY <1>1, <1>3, <1>4, <2>1
<1>8. QED
  BY <1>1, <1>3, <1>5, <1>6, <1>7 DEF NetInv, TypeInv, MainType

\* A client that comes or goes changes the LED alone.
LEMMA ClientsInv ==
  ASSUME NetInv, ClientSubscribed \/ ClientGone
  PROVE  NetInv'
<1>1. main \in MainType
  BY DEF NetInv, TypeInv
<1>2. UNCHANGED <<sta, status, radio, cmds, msgs>>
  BY DEF ClientSubscribed, ClientGone
<1>3. PICK n \in Nat : main' = [main EXCEPT !.clients = n]
  BY <1>1 DEF ClientSubscribed, ClientGone, MainType
<1>4. /\ main' \in MainType /\ main'.clients = n
      /\ main'.ap = main.ap /\ main'.up = main.up /\ main'.downFor = main.downFor
  BY <1>1, <1>3 DEF MainType
<1>5. LedTrue'
  <2>1. CASE main.ap
    <3>1. led = "blue"
      BY <2>1 DEF NetInv, LedTrue, Colour
    <3>2. led' = "blue"
      BY <1>4, <2>1, <3>1 DEF ClientSubscribed, ClientGone, Repaint
    <3>3. QED
      BY <1>4, <2>1, <3>2 DEF LedTrue, Colour
  <2>2. CASE ~main.ap /\ ClientSubscribed
    <3>1. n > 0 /\ led' = "green"
      BY <1>1, <1>4, <2>2 DEF ClientSubscribed, MainType
    <3>2. QED
      BY <1>4, <2>2, <3>1 DEF LedTrue, Colour, MainType
  <2>3. CASE ~main.ap /\ ClientGone /\ n = 0
    BY <1>4, <2>3 DEF LedTrue, ClientGone, Repaint
  <2>4. CASE ~main.ap /\ ClientGone /\ n # 0
    <3>1. n > 0 /\ main.clients > 0 /\ led' = led
      BY <1>4, <2>4 DEF ClientGone
    <3>2. QED
      BY <1>1, <1>4, <2>4, <3>1 DEF NetInv, LedTrue, Colour, MainType
  <2>5. QED
    BY <2>1, <2>2, <2>3, <2>4
<1>6. QED
  BY <1>2, <1>4, <1>5 DEF NetInv, TypeInv, MainType, UpAgreed

\* Time passes while nothing is on its way.
LEMMA TimeInv ==
  ASSUME NetInv, TimePasses
  PROVE  NetInv'
<1>1. /\ main' = [main EXCEPT !.downFor = Older(@, OfflineUnits), !.apFor = Older(@, IdleUnits)]
      /\ sta' = IF sta.joining = "yes" THEN [sta EXCEPT !.joining = "late"] ELSE sta
      /\ UNCHANGED <<led, status, radio, cmds, msgs>>
  BY DEF TimePasses
<1>2. main \in MainType
  BY DEF NetInv, TypeInv
<1>3. \A age \in Ages : \A limit \in Nat : Older(age, limit) \in Ages
  BY DEF Older, Ages
<1>4. /\ main' \in MainType
      /\ main'.ap = main.ap /\ main'.up = main.up /\ main'.clients = main.clients
      /\ main.downFor = None => main'.downFor = None
  BY <1>1, <1>2, <1>3, NetAssumption DEF MainType, Older
<1>5. /\ sta' \in StaType
      /\ sta'.ap = sta.ap /\ sta'.apply = sta.apply /\ sta'.connected = sta.connected
  BY <1>1 DEF NetInv, TypeInv, StaType
<1>6. LedTrue'
  BY <1>1, <1>4 DEF NetInv, LedTrue, Colour
<1>7. QED
  BY <1>1, <1>4, <1>5, <1>6 DEF NetInv, TypeInv, MainType, UpAgreed

-----------------------------------------------------------------------------
(***************************************************************************)
(* The WiFi thread.                                                        *)
(***************************************************************************)

\* A command changes the intent, and asks for a fresh start when that differs.
LEMMA ObeyedSta ==
  ASSUME NEW s \in StaType, NEW cmd \in Commands
  PROVE  /\ [Obeyed(s, cmd) EXCEPT !.pc = "turn"] \in StaType
         /\ LET t == [Obeyed(s, cmd) EXCEPT !.pc = "turn"]
            IN /\ t.ap = IF AboutAp(cmd) THEN cmd.op = "StartAp" ELSE s.ap
               /\ t.connected = s.connected
               /\ ~t.apply => ~s.apply /\ t.ap = s.ap /\ cmd.op # "SetStation"
<1>1. cmd.op \in {"SetStation", "StartAp", "StopAp", "Scan"} /\ cmd.creds \in Credentials
  BY DEF Commands
<1>2. CASE cmd.op = "SetStation"
  BY <1>1, <1>2 DEF Obeyed, StaType, AboutAp
<1>3. CASE cmd.op = "StartAp"
  BY <1>1, <1>3 DEF Obeyed, StaType, AboutAp
<1>4. CASE cmd.op = "StopAp"
  BY <1>1, <1>4 DEF Obeyed, StaType, AboutAp
<1>5. CASE cmd.op = "Scan"
  BY <1>1, <1>5 DEF Obeyed, StaType, AboutAp
<1>6. QED
  BY <1>1, <1>2, <1>3, <1>4, <1>5

\* The WiFi thread takes a command, or its wait ends.
LEMMA ReceiveInv ==
  ASSUME NetInv, Receive
  PROVE  NetInv'
<1>1. UNCHANGED <<main, led, status, radio, msgs>>
  BY DEF Receive
<1>2. sta \in StaType /\ cmds \in Seq(Commands) /\ main.ap \in BOOLEAN
  BY DEF NetInv, TypeInv, MainType
<1>3. LedTrue'
  BY <1>1 DEF NetInv, LedTrue, Colour
<1>4. CASE cmds # <<>> /\ sta' = [Obeyed(sta, Head(cmds)) EXCEPT !.pc = "turn"] /\ cmds' = Tail(cmds)
  <2>1. Head(cmds) \in Commands /\ cmds' \in Seq(Commands)
    BY <1>2, <1>4, Taken
  <2>2. /\ sta' \in StaType
        /\ sta'.ap = IF AboutAp(Head(cmds)) THEN Head(cmds).op = "StartAp" ELSE sta.ap
        /\ sta'.connected = sta.connected
        /\ ~sta'.apply => ~sta.apply /\ sta'.ap = sta.ap /\ Head(cmds).op # "SetStation"
    BY <1>2, <1>4, <2>1, ObeyedSta
  <2>3. ApAgreed(cmds', sta'.ap, main.ap)
    <3>1. sta'.ap \in BOOLEAN
      BY <2>2 DEF StaType
    <3>2. QED
      BY <1>2, <1>4, <2>2, <3>1, ObeyedAp DEF NetInv
  <2>4. UpAgreed'
    <3> SUFFICES ASSUME sta'.connected, ~sta'.apply, \A i \in DOMAIN cmds' : cmds'[i].op # "SetStation"
                 PROVE  IF msgs = <<>> THEN main.up /\ main.downFor = None ELSE msgs[Len(msgs)] = "WifiUp"
      BY <1>1 DEF UpAgreed
    <3>1. sta.connected /\ ~sta.apply /\ Head(cmds).op # "SetStation"
      BY <2>2
    <3>2. ASSUME NEW i \in DOMAIN cmds
          PROVE  cmds[i].op # "SetStation"
      <4>1. Head(cmds) = cmds[1] /\ (i # 1 => i - 1 \in DOMAIN cmds' /\ cmds'[i - 1] = cmds[i])
        BY <1>2, <1>4, Taken
      <4>2. QED
        BY <3>1, <4>1
    <3>3. QED
      BY <3>1, <3>2 DEF NetInv, UpAgreed
  <2>5. ~sta'.apply /\ radio.applied => radio.air = sta'.ap
    BY <2>2 DEF NetInv
  <2>6. QED
    BY <1>1, <1>3, <2>1, <2>2, <2>3, <2>4, <2>5 DEF NetInv, TypeInv
<1>5. CASE cmds = <<>> /\ sta' = [sta EXCEPT !.pc = "turn"] /\ UNCHANGED cmds
  <2>1. /\ sta' \in StaType
        /\ sta'.ap = sta.ap /\ sta'.connected = sta.connected /\ sta'.apply = sta.apply
    BY <1>2, <1>5 DEF StaType
  <2>2. QED
    BY <1>1, <1>3, <1>5, <2>1 DEF NetInv, TypeInv, UpAgreed
<1>6. QED
  BY <1>4, <1>5 DEF Receive

StatusType == [creds : Credentials, connected : BOOLEAN]

\* What the station state machine does: it leaves the intent and the AP alone, and
\* ends connected only if it was, or says so.
LEMMA StationMoves ==
  ASSUME NEW s \in StaType, NEW r \in RadioType, NEW report \in StatusType,
         Station(s, r, report)
  PROVE  /\ sta' \in StaType /\ sta'.ap = s.ap /\ sta'.apply = s.apply
         /\ radio' \in RadioType /\ radio'.air = r.air /\ radio'.creds = r.creds
         /\ radio'.applied = r.applied
         /\ status' \in StatusType /\ status'.creds = report.creds
         /\ \E m \in {"WifiUp", "WifiDown"} : msgs' = msgs \/ msgs' = Append(msgs, m)
         /\ sta'.connected => (s.connected /\ msgs' = msgs) \/ msgs' = Append(msgs, "WifiUp")
<1>1. CASE \/ s.creds = NoNetwork /\ sta' = [s EXCEPT !.pc = "receive"]
              /\ radio' = r /\ status' = report /\ UNCHANGED msgs
           \/ /\ sta' = [s EXCEPT !.pc = "receive"]
              /\ radio' = r /\ status' = report /\ UNCHANGED msgs
  <2>1. msgs' = msgs /\ \E m \in {"WifiUp", "WifiDown"} : msgs' = msgs
    BY <1>1
  <2>2. QED
    BY <1>1, <2>1 DEF StaType, RadioType, StatusType
<1>2. CASE /\ sta' = [s EXCEPT !.pc = "receive", !.connected = TRUE, !.joining = "no"]
           /\ status' = [report EXCEPT !.connected = TRUE]
           /\ msgs' = Append(msgs, "WifiUp")
           /\ radio' = r
  BY <1>2 DEF StaType, RadioType, StatusType
<1>3. CASE /\ sta' = [s EXCEPT !.pc = "receive", !.connected = FALSE, !.wait = TRUE]
           /\ status' = [report EXCEPT !.connected = FALSE]
           /\ msgs' = Append(msgs, "WifiDown")
           /\ radio' = r
  BY <1>3 DEF StaType, RadioType, StatusType
<1>4. CASE /\ ~s.connected
           /\ sta' = [TimedOut(s) EXCEPT !.pc = "receive"]
           /\ radio' = IF r.phase = "joining" THEN [r EXCEPT !.phase = "idle"] ELSE r
           /\ msgs' = Append(msgs, "WifiDown")
           /\ status' = report
  BY <1>4 DEF StaType, RadioType, StatusType, TimedOut
<1>5. CASE /\ ~s.connected
           /\ \/ /\ radio' = [r EXCEPT !.phase = "joining"]
                 /\ sta' = [s EXCEPT !.pc = "receive", !.joining = "yes"]
              \/ /\ sta' = [s EXCEPT !.pc = "receive", !.wait = TRUE]
                 /\ radio' = r
           /\ status' = report /\ UNCHANGED msgs
  <2>1. msgs' = msgs /\ \E m \in {"WifiUp", "WifiDown"} : msgs' = msgs
    BY <1>5
  <2>2. QED
    BY <1>5, <2>1 DEF StaType, RadioType, StatusType
<1>6. QED
  BY <1>1, <1>2, <1>3, <1>4, <1>5 DEF Station

\* A configuration that goes through leaves the radio as it was told to; one that
\* fails says so.
LEMMA ConfiguredRadio ==
  ASSUME NEW s \in StaType, NEW r \in AppliedRadios(s), radio \in RadioType
  PROVE  r \in RadioType /\ (r.applied => r.air = s.ap /\ r.creds = s.creds)
<1>1. CASE r = Configured(s)
  BY <1>1 DEF Configured, RadioType, StaType
<1>2. CASE r = [radio EXCEPT !.applied = FALSE]
  BY <1>2 DEF RadioType
<1>3. CASE r \in HalfApplied(s)
  <2>1. CASE r = [radio EXCEPT !.phase = IF @ = "stopped" THEN @ ELSE "idle", !.applied = FALSE]
    BY <2>1 DEF RadioType
  <2>2. CASE \E c \in {radio.creds, s.creds} :
               r = [phase |-> "stopped", creds |-> c, air |-> FALSE, applied |-> FALSE]
    BY <2>2 DEF RadioType, StaType
  <2>3. QED
    BY <1>3, <2>1, <2>2 DEF HalfApplied
<1>4. QED
  BY <1>1, <1>2, <1>3 DEF AppliedRadios

\* One turn of the WiFi thread.
LEMMA TurnInv ==
  ASSUME NetInv, Turn
  PROVE  NetInv'
<1> DEFINE applied == IF sta.apply THEN AppliedSta(sta) ELSE sta
           report == IF sta.apply THEN AppliedStatus(sta) ELSE status
           s == ScannedSta(applied)
<1>0. PICK r \in IF sta.apply THEN AppliedRadios(sta) ELSE {radio} :
        Station(s, ScannedRadio(applied, r), report)
  BY DEF Turn
<1> DEFINE q == ScannedRadio(applied, r)
<1>1. Station(s, q, report) /\ UNCHANGED <<main, led, cmds>>
  BY <1>0 DEF Turn
<1>2. sta \in StaType /\ radio \in RadioType /\ status \in StatusType
  BY DEF NetInv, TypeInv, StatusType
<1>3. /\ applied \in StaType /\ applied.ap = sta.ap /\ ~applied.apply
      /\ applied.connected => sta.connected /\ ~sta.apply
  BY <1>2 DEF AppliedSta, StaType
<1>4. /\ r \in RadioType /\ report \in StatusType
      /\ r.applied => r.air = sta.ap /\ r.creds = report.creds
  <2>1. CASE sta.apply
    <3>1. r \in RadioType /\ (r.applied => r.air = sta.ap /\ r.creds = sta.creds)
      BY <1>2, <2>1, ConfiguredRadio
    <3>2. report \in StatusType /\ report.creds = sta.creds
      BY <1>2, <2>1 DEF AppliedStatus, StatusType, StaType
    <3>3. QED
      BY <3>1, <3>2
  <2>2. CASE ~sta.apply
    <3>1. r = radio
      BY <2>2
    <3>2. QED
      BY <1>2, <2>2, <3>1 DEF NetInv
  <2>3. QED
    BY <2>1, <2>2
<1> HIDE DEF applied, report
<1>5. s \in StaType /\ s.ap = sta.ap /\ ~s.apply /\ (s.connected => sta.connected /\ ~sta.apply)
  BY <1>3 DEF ScannedSta, StaType
<1>6. /\ q \in RadioType
      /\ q.applied => q.air = sta.ap /\ q.creds = report.creds
  BY <1>4 DEF ScannedRadio, RadioType
<1> HIDE DEF s, q
<1>7. /\ sta' \in StaType /\ sta'.ap = sta.ap /\ ~sta'.apply
      /\ radio' \in RadioType /\ radio'.air = q.air /\ radio'.creds = q.creds
      /\ radio'.applied = q.applied
      /\ status' \in StatusType /\ status'.creds = report.creds
      /\ \E m \in {"WifiUp", "WifiDown"} : msgs' = msgs \/ msgs' = Append(msgs, m)
      /\ sta'.connected => (s.connected /\ msgs' = msgs) \/ msgs' = Append(msgs, "WifiUp")
  BY <1>1, <1>4, <1>5, <1>6, StationMoves
<1>8. msgs \in Seq({"WifiUp", "WifiDown"})
  BY DEF NetInv, TypeInv
<1>9. msgs' \in Seq({"WifiUp", "WifiDown"})
  BY <1>7, <1>8, AppendProperties
<1>10. UpAgreed'
  <2> SUFFICES ASSUME sta'.connected, \A i \in DOMAIN cmds : cmds[i].op # "SetStation"
               PROVE  IF msgs' = <<>> THEN main.up /\ main.downFor = None ELSE msgs'[Len(msgs')] = "WifiUp"
    BY <1>1 DEF UpAgreed
  <2>1. CASE s.connected /\ msgs' = msgs
    BY <1>5, <2>1 DEF NetInv, UpAgreed
  <2>2. CASE msgs' = Append(msgs, "WifiUp")
    BY <1>8, <2>2, Appended
  <2>3. QED
    BY <1>7, <2>1, <2>2
<1>11. LedTrue'
  BY <1>1 DEF NetInv, LedTrue, Colour
<1>12. QED
  BY <1>1, <1>6, <1>7, <1>9, <1>10, <1>11 DEF NetInv, TypeInv, StatusType

-----------------------------------------------------------------------------
(***************************************************************************)
(* The environment, and the theorems.                                      *)
(***************************************************************************)

\* The radio moves and the short delays end.
LEMMA RadioInv ==
  ASSUME NetInv,
         \/ Associates \/ JoinFails \/ GetsAddress \/ LosesAddress \/ Dropped \/ LosesNetwork
         \/ JoinIsLate \/ WaitIsOver
  PROVE  NetInv'
<1>1. sta \in StaType /\ radio \in RadioType
  BY DEF NetInv, TypeInv
<1>2. UNCHANGED <<main, led, status, cmds, msgs>>
  BY DEF Associates, JoinFails, GetsAddress, LosesAddress, Dropped, LosesNetwork, RadioMoves,
         JoinIsLate, WaitIsOver
<1>3. /\ sta' \in StaType
      /\ sta'.ap = sta.ap /\ sta'.apply = sta.apply /\ sta'.connected = sta.connected
  BY <1>1 DEF Associates, JoinFails, GetsAddress, LosesAddress, Dropped, LosesNetwork, RadioMoves,
              JoinIsLate, WaitIsOver, StaType
<1>4. /\ radio' \in RadioType /\ radio'.air = radio.air /\ radio'.creds = radio.creds
      /\ radio'.applied = radio.applied
  BY <1>1 DEF Associates, JoinFails, GetsAddress, LosesAddress, Dropped, LosesNetwork, RadioMoves,
              JoinIsLate, WaitIsOver, RadioType
<1>5. QED
  BY <1>2, <1>3, <1>4 DEF NetInv, TypeInv, UpAgreed, LedTrue, Colour

\* A boot: the WiFi thread starts with what the main loop believes.
LEMMA BootInv ==
  ASSUME NEW c \in Credentials
  PROVE  /\ BootMain(c) \in MainType /\ BootSta(c) \in StaType
         /\ BootStatus \in StatusType /\ BootRadio \in RadioType
         /\ BootSta(c).ap = BootMain(c).ap /\ BootSta(c).apply
         /\ BootRadio.creds = BootStatus.creds
<1>1. [creds |-> c, up |-> FALSE, downFor |-> 0, ap |-> FALSE, apFor |-> None, clients |-> 0] \in MainType
  BY DEF MainType, Ages
<1>2. /\ BootMain(c) \in MainType
      /\ BootMain(c).ap = (c = NoNetwork)
  BY <1>1, OpenedClosed DEF BootMain
<1>3. BootSta(c) \in StaType /\ BootSta(c).ap = (c = NoNetwork) /\ BootSta(c).apply
  BY DEF BootSta, StaType
<1>4. BootStatus \in StatusType /\ BootRadio \in RadioType /\ BootRadio.creds = BootStatus.creds
  BY DEF BootStatus, BootRadio, StatusType, RadioType, Credentials
<1>5. QED
  BY <1>2, <1>3, <1>4

\* Both threads start with the same picture.
LEMMA InitNet ==
  ASSUME Init
  PROVE  NetInv
<1>1. PICK c \in Credentials : main = BootMain(c) /\ sta = BootSta(c)
  BY DEF Init
<1>2. led = Colour(main) /\ status = BootStatus /\ radio = BootRadio /\ cmds = <<>> /\ msgs = <<>>
  BY DEF Init
<1>3. ApAgreed(cmds, sta.ap, main.ap)
  BY <1>1, <1>2, BootInv DEF ApAgreed
<1>4. QED
  BY <1>1, <1>2, <1>3, BootInv DEF NetInv, TypeInv, UpAgreed, LedTrue, StatusType

\* After a restart both start afresh.
LEMMA RestartInv ==
  ASSUME NetInv, Restart
  PROVE  NetInv'
<1>1. main.creds \in Credentials
  BY DEF NetInv, TypeInv, MainType
<1>2. /\ main' = BootMain(main.creds) /\ sta' = BootSta(main.creds) /\ led' = Colour(main')
      /\ status' = BootStatus /\ radio' = BootRadio /\ cmds' = <<>> /\ msgs' = <<>>
  BY DEF Restart
<1>3. ApAgreed(cmds', sta'.ap, main'.ap)
  BY <1>1, <1>2, BootInv DEF ApAgreed
<1>4. LedTrue'
  BY <1>2, LedSet
<1>5. QED
  BY <1>1, <1>2, <1>3, <1>4, BootInv DEF NetInv, TypeInv, UpAgreed, StatusType

\* Every step keeps the invariant.
LEMMA StepNet ==
  ASSUME NetInv, [Next]_vars
  PROVE  NetInv'
<1>1. CASE MainLoop
  BY <1>1, ApInv, ScanInv, HandleMsgInv, ClientsInv, ProvisionInv DEF MainLoop
<1>2. CASE WifiThread
  BY <1>2, TurnInv, ReceiveInv DEF WifiThread
<1>3. CASE Environment
  BY <1>3, TimeInv, RadioInv, RestartInv DEF Environment
<1>4. CASE UNCHANGED vars
  BY <1>4 DEF vars, NetInv, TypeInv, UpAgreed, LedTrue, Colour
<1>5. QED
  BY <1>1, <1>2, <1>3, <1>4 DEF Next

\* The states of the two threads: the last command and the last message on their way
\* say what the other side believes, whatever the driver fails to do.
THEOREM NetInvariant == Spec => []NetInv
<1>1. Init => NetInv
  BY InitNet
<1>2. NetInv /\ [Next]_vars => NetInv'
  BY StepNet
<1>3. QED
  BY <1>1, <1>2, PTL DEF Spec

\* When the main loop and the WiFi thread have settled they agree on the AP and on
\* the station, for channels of any length and openings, closings, saves, losses and
\* restarts in any order, unless the driver failed to open or close the AP.
THEOREM NetAgrees == Spec => []ThreadsAgree
<1>1. NetInv => ThreadsAgree
  BY DEF NetInv, ApAgreed, UpAgreed, ThreadsAgree, Settled
<1>2. QED
  BY <1>1, NetInvariant, PTL

\* The setup page reports a network as joined only if it is the one that is, unless the
\* driver failed to leave another, and the LED shows what the main loop believes, but
\* for green after a client subscribed.
THEOREM NetTells == Spec => []BoardTells
<1>1. NetInv => BoardTells
  BY DEF NetInv, LedTrue, BoardTells
<1>2. QED
  BY <1>1, NetInvariant, PTL
=============================================================================
