----------------------------- MODULE MCTakeover -----------------------------
(***************************************************************************)
(* The arbiter on two relays, one with a block and one without: who is in  *)
(* charge, takeover in both directions, rain hold, modes.  No limits and   *)
(* no interlock.                                                           *)
(***************************************************************************)
EXTENDS Arbiter

MCBlock == [days |-> 0..WeekLen - 1, from |-> 1, to |-> 3]
MCSchedule == [ch \in Ch |-> IF ch = 1 THEN {MCBlock} ELSE {}]

MCConfigs ==
  {[mode |-> "Auto", maxOn |-> [ch \in Ch |-> 0], maxDaily |-> [ch \in Ch |-> 0],
    safeState |-> safe, powerOn |-> power, exclusiveSet |-> [ch \in Ch |-> 0],
    grace |-> 0, schedule |-> MCSchedule] :
      safe \in {{}, {1}}, power \in {{}, {2}}}

MCSchedules == {[ch \in Ch |-> {}], [ch \in Ch |-> {MCBlock}]}
MCUsages == {None}
MCInitHolds == {0, 3}

TakeoverNext ==
  \/ Tick \/ Clock \/ HaConnected \/ HaDisconnected \/ Command \/ AllOffButton
  \/ \E s \in Schedules : SetSchedule(s)
  \/ \E on \in BOOLEAN : SetPowerOn(2, on) \/ SetSafeState(1, on)
  \/ \E hold \in Holds : SetRainHold(hold)
  \/ \E mode \in Modes : SetMode(mode)

TakeoverSpec == Init /\ [][TakeoverNext]_vars

\* No limit is set and the heartbeat grace is 0, so nothing that these fields
\* leave out (the timers and the on-time accounts) can influence the rest.
TakeoverView ==
  <<cfg, ctl.relays, ctl.schedPrev, ctl.connected, ctl.timeKnown, ctl.link,
    ctl.epoch, ctl.holdUntil, wall, now>>
=============================================================================
