------------------------------ MODULE MCLimits ------------------------------
(***************************************************************************)
(* The arbiter with maximum on-times and daily caps on two relays of one   *)
(* exclusive set, across local midnight, with on-time restored at boot.    *)
(***************************************************************************)
EXTENDS Arbiter

MCBlock == [days |-> 0..WeekLen - 1, from |-> 0, to |-> 2]

MCConfigs ==
  {[mode |-> "Auto", maxOn |-> [ch \in Ch |-> IF ch = 1 THEN 2 ELSE 0],
    maxDaily |-> [ch \in Ch |-> IF ch = 1 THEN 0 ELSE 2],
    safeState |-> {}, powerOn |-> {1}, exclusiveSet |-> [ch \in Ch |-> set],
    grace |-> 0, schedule |-> [ch \in Ch |-> {MCBlock}]] :
      set \in 0..MaxSets}

MCUsages == {None, [day |-> 1, onToday |-> [ch \in Ch |-> 1]]}

LimitsNext ==
  \/ Tick \/ Advance \/ TimeKnown \/ HaConnected \/ HaDisconnected
  \/ \E ch \in Ch, on \in BOOLEAN : HaCommand(ch, on)
  \/ \E limit \in Limits : SetMaxOn(1, limit) \/ SetMaxDaily(2, limit)

LimitsSpec == Init /\ [][LimitsNext]_vars

\* The heartbeat grace is 0 and no hold is set: lastSeen and epoch influence
\* nothing.
LimitsView ==
  <<cfg, ctl.relays, ctl.onSince, ctl.schedPrev, ctl.connected, ctl.timeKnown, ctl.link,
    ctl.onToday, ctl.capped, ctl.today, ctl.lastAccount, now, wall>>
=============================================================================
