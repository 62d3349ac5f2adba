---------------------------- MODULE MCInterlock ----------------------------
(***************************************************************************)
(* The arbiter's interlock on three relays that are moved between sets     *)
(* while commands, power-up states, safe states and the schedule switch    *)
(* them, in every mode, with and without a heartbeat grace and a last will *)
(* of Home Assistant.                                                      *)
(***************************************************************************)
EXTENDS Arbiter

MCBlock == [days |-> {0}, from |-> 0, to |-> 1]

MCConfigs ==
  {[mode |-> mode, maxOn |-> [ch \in Ch |-> 0], maxDaily |-> [ch \in Ch |-> 0],
    safeState |-> {1, 3}, powerOn |-> power, exclusiveSet |-> [ch \in Ch |-> set],
    grace |-> 0, schedule |-> [ch \in Ch |-> IF ch = 3 THEN {} ELSE {MCBlock}]] :
      mode \in Modes, power \in {{}, Ch}, set \in {0, 1}}

MCUsages == {None}

InterlockNext ==
  \/ Tick \/ Clock \/ HaLink \/ Command \/ Override \/ AllOffButton
  \/ \E ch \in Ch, set \in 0..MaxSets : SetExclusiveSet(ch, set)
  \/ \E mode \in Modes : SetMode(mode)
  \/ \E secs \in Graces : SetOfflineGrace(secs)

InterlockSpec == Init /\ [][InterlockNext]_vars

\* Without limits and holds the timers and accounts influence nothing, and the
\* signs of life only of a Home Assistant that is connected.
InterlockView ==
  <<cfg, ctl.relays, ctl.schedPrev, ctl.connected, ctl.timeKnown, ctl.link, wall, now,
    ctl.connected /\ ctl.declaredOffline, IF ctl.connected THEN ctl.lastSeen ELSE None>>
=============================================================================
