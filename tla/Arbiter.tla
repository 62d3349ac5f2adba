------------------------------ MODULE Arbiter ------------------------------
(***************************************************************************)
(* The relay arbiter of relay-core (core/src/controller.rs with            *)
(* safeguard.rs, schedule.rs and config.rs): it decides whether Home       *)
(* Assistant or the stored weekly schedule switches the relays, enforces   *)
(* the interlock, the maximum on-time and the daily cap, and holds the     *)
(* schedule back after rain.                                               *)
(*                                                                         *)
(* The code is one struct and methods that take `&mut self`, a monotonic   *)
(* clock and, when the wall clock is valid, the local time.  Here the      *)
(* struct is two records, `cfg` (Config and Schedule) and `ctl` (the rest),*)
(* a method is an operator from records to a record, and the actions at    *)
(* the end are the calls the firmware's main loop makes.                   *)
(*                                                                         *)
(* Abstractions.  Time is counted in one unit (a minute, the resolution of *)
(* every limit) and stops at MaxNow.  Arrays of bool are sets of channels. *)
(* The lifetime counter total_ms and the Action list returned for          *)
(* publishing are left out: no decision reads them.                        *)
(***************************************************************************)
EXTENDS Relays

CONSTANTS
  DayLen,         \* time units in a local day
  WeekLen,        \* days in a week
  MaxNow,         \* bound on the monotonic clock
  InitConfigs,    \* configurations the board may boot with
  InitUsages,     \* saved on-time counters it may boot with
  InitHolds,      \* saved values of rain_hold_until
  Clocks,         \* wall-clock values SNTP, the RTC or HA may set
  Schedules,      \* schedules HA may send
  Limits,         \* values of max_on_min and max_daily_min
  Holds,          \* rain-hold lengths
  Graces          \* values of offline_grace_s

Modes == {"Auto", "Manual", "Off"}
Links == {"Online", "OfflineSchedule", "OfflineUnknownTime"}
Wishes == {"unset", "off", "on"}      \* Option<bool> of sched_prev

Block == [days : SUBSET (0..WeekLen - 1), from : Nat, to : Nat]
LocalTime == [day : Nat, weekday : 0..WeekLen - 1, minute : Nat]

Config == [mode : Modes, maxOn : [Ch -> Nat], maxDaily : [Ch -> Nat],
           safeState : SUBSET Ch, powerOn : SUBSET Ch,
           exclusiveSet : [Ch -> 0..MaxSets], grace : Nat,
           schedule : [Ch -> SUBSET Block]]

Usage == [day : Nat, onToday : [Ch -> Nat]]

Controller == [relays : SUBSET Ch, onSince : [Ch -> Nat \cup {None}],
               schedPrev : [Ch -> Wishes], connected : BOOLEAN,
               declaredOffline : BOOLEAN, lastSeen : Nat \cup {None},
               timeKnown : BOOLEAN, link : Links \cup {None},
               epoch : Nat \cup {None}, holdUntil : Nat,
               onToday : [Ch -> Nat], capped : SUBSET Ch,
               today : Nat \cup {None}, lastAccount : Nat \cup {None}]

\* What the source guarantees about the values: the sizes are positive and the
\* inputs are well-formed.
ASSUME SizesAssumption ==
  /\ DayLen \in Nat \ {0}
  /\ WeekLen \in Nat \ {0}
  /\ MaxNow \in Nat

ASSUME NoneAssumption == None \notin Links /\ None \notin LocalTime

ASSUME InputsAssumption ==
  /\ InitConfigs \subseteq Config
  /\ InitUsages \subseteq Usage \cup {None}
  /\ InitHolds \subseteq Nat
  /\ Clocks \subseteq Nat
  /\ Schedules \subseteq [Ch -> SUBSET Block]
  /\ Limits \subseteq Nat
  /\ Holds \subseteq Nat
  /\ Graces \subseteq Nat

VARIABLES
  cfg,    \* Config and the stored Schedule
  ctl,    \* the other fields of Controller
  now,    \* the monotonic clock
  wall    \* the wall clock, None until it is valid

vars == <<cfg, ctl, now, wall>>

-----------------------------------------------------------------------------
(***************************************************************************)
(* The safeguard.                                                          *)
(***************************************************************************)

\* Safeguard::expired
Expired(g, c, t) ==
  {ch \in Ch : /\ g.maxOn[ch] > 0
               /\ c.onSince[ch] # None
               /\ t - c.onSince[ch] >= g.maxOn[ch]}

PollSafeguard(g, c, t) == SetRelays(g, c, t, {}, Expired(g, c, t))

-----------------------------------------------------------------------------
(***************************************************************************)
(* Re-evaluation: accounting, link, schedule, safe state, safeguard.       *)
(***************************************************************************)

\* Block::active and Schedule::wants_on
Active(b, lt) == lt.weekday \in b.days /\ lt.minute >= b.from /\ lt.minute < b.to
WantsOn(g, ch, lt) == \E b \in g.schedule[ch] : Active(b, lt)

\* Mutant: the operands of the subtraction are swapped.
ElapsedBackwards(c, t) == IF c.lastAccount = None THEN 0 ELSE c.lastAccount - t

Elapsed(c, t) == IF c.lastAccount = None THEN 0 ELSE t - c.lastAccount

\* Mutant: the relay is allowed one unit more than its cap.
CapReachedLate(g, ch, onTime) == g.maxDaily[ch] > 0 /\ onTime > g.maxDaily[ch]

CapReached(g, ch, onTime) == g.maxDaily[ch] > 0 /\ onTime >= g.maxDaily[ch]

\* Book the on-time since the last call on the relays that are on, roll the
\* day, and switch off and block the relays that reached their daily cap.
Account(g, c, t, lt) ==
  LET rolled == lt # None /\ c.today # None /\ c.today # lt.day
      delta == Elapsed(c, t)
      onToday == [ch \in Ch |-> (IF rolled THEN 0 ELSE c.onToday[ch])
                                  + (IF ch \in c.relays THEN delta ELSE 0)]
      reached == {ch \in c.relays : CapReached(g, ch, onToday[ch])}
      booked == [c EXCEPT
        !.onToday = onToday,
        !.schedPrev = [ch \in Ch |-> IF rolled /\ ch \in c.capped THEN "unset" ELSE @[ch]],
        !.capped = (IF rolled THEN {} ELSE @) \cup reached,
        !.today = IF lt = None THEN @ ELSE lt.day,
        !.lastAccount = t]
  IN SetRelays(g, booked, t, {}, reached)

HaAlive(g, c, t) ==
  /\ c.connected
  /\ ~c.declaredOffline
  /\ \/ g.grace = 0
     \/ c.lastSeen # None /\ t - c.lastSeen < g.grace

ComputeLink(g, c, t) ==
  IF HaAlive(g, c, t) THEN "Online"
  ELSE IF c.timeKnown THEN "OfflineSchedule" ELSE "OfflineUnknownTime"

\* With the time unknown a hold counts as standing.
RainHoldActive(c) == c.holdUntil > 0 /\ (c.epoch = None \/ c.epoch < c.holdUntil)

Forget(c) == [c EXCEPT !.schedPrev = [ch \in Ch |-> "unset"]]

ExpireHold(c) ==
  IF c.holdUntil > 0 /\ ~RainHoldActive(c) THEN Forget([c EXCEPT !.holdUntil = 0]) ELSE c

\* The channels the schedule wants on: one without blocks is held in its
\* power-up state, which a rain hold does not touch.
Targets(g, c, lt) ==
  {ch \in Ch : IF g.schedule[ch] = {} THEN ch \in g.powerOn
               ELSE ~RainHoldActive(c) /\ WantsOn(g, ch, lt)}

Wish(targets) == [ch \in Ch |-> IF ch \in targets THEN "on" ELSE "off"]

ScheduleRules(g, c) == c.link = "OfflineSchedule" /\ g.mode = "Auto"

\* Mutants: a takeover drives edges only; every call drives every channel; the
\* first wish after an unset one is only noted; the link is not asked.
DrivenOnEdges(g, c, wish, changed) ==
  {ch \in Ch : ScheduleRules(g, c) /\ c.schedPrev[ch] # wish[ch]}
DrivenAlways(g, c, wish, changed) == {ch \in Ch : ScheduleRules(g, c)}
DrivenOnceKnown(g, c, wish, changed) ==
  {ch \in Ch : /\ ScheduleRules(g, c)
               /\ changed \/ c.schedPrev[ch] \notin {"unset", wish[ch]}}
DrivenOnline(g, c, wish, changed) ==
  {ch \in Ch : g.mode = "Auto" /\ (changed \/ c.schedPrev[ch] # wish[ch])}

\* Offline in Auto mode the schedule drives every channel when the link has just
\* changed, and else those whose wish changed.
Driven(g, c, wish, changed) ==
  {ch \in Ch : ScheduleRules(g, c) /\ (changed \/ c.schedPrev[ch] # wish[ch])}

\* Note what the schedule wants, and apply it where it drives.
FollowSchedule(g, c, t, lt, changed) ==
  IF lt = None THEN c
  ELSE LET targets == Targets(g, c, lt)
           wish == Wish(targets)
           driven == Driven(g, c, wish, changed)
       IN SetRelays(g, [c EXCEPT !.schedPrev = wish], t,
                    driven \cap targets, driven \ targets)

SafeStates(g) == g.safeState \cup g.powerOn

HoldSafeState(g, c, t, changed) ==
  IF changed /\ c.link = "OfflineUnknownTime"
  THEN SetRelays(g, c, t, SafeStates(g), Ch \ SafeStates(g))
  ELSE c

\* Controller::refresh.  Mode Off stops before the schedule is looked at.
Evaluate(g, c, t, lt, changed) ==
  IF g.mode = "Off" THEN c
  ELSE HoldSafeState(g, FollowSchedule(g, c, t, lt, changed), t, changed)

Refresh(g, c, t, lt) ==
  LET a == Account(g, c, t, lt)
      link == ComputeLink(g, a, t)
      b == ExpireHold([a EXCEPT !.link = link])
  IN PollSafeguard(g, Evaluate(g, b, t, lt, link # a.link), t)

\* Mutant: the mode is looked at before the connection.
DriverModeFirst(g, c) ==
  IF g.mode = "Off" THEN "off"
  ELSE IF g.mode = "Manual" THEN "manual_no_ha"
  ELSE IF c.link = "Online" THEN "home_assistant"
  ELSE IF c.link # "OfflineSchedule" THEN "safe_state_no_clock"
  ELSE IF RainHoldActive(c) THEN "schedule_held" ELSE "schedule"

\* Controller::driver, what the pages show as deciding the relays.  Before the
\* first re-evaluation there is no link, which counts as no clock and no server.
Driver(g, c) ==
  IF g.mode = "Off" THEN "off"
  ELSE IF c.link = "Online" THEN "home_assistant"
  ELSE IF g.mode = "Manual" THEN "manual_no_ha"
  ELSE IF c.link # "OfflineSchedule" THEN "safe_state_no_clock"
  ELSE IF RainHoldActive(c) THEN "schedule_held" ELSE "schedule"

-----------------------------------------------------------------------------
(***************************************************************************)
(* Power-up: Controller::new, restore_usage and boot.                      *)
(***************************************************************************)
NewController ==
  [relays |-> {}, onSince |-> [ch \in Ch |-> None], schedPrev |-> [ch \in Ch |-> "unset"],
   connected |-> FALSE, declaredOffline |-> FALSE, lastSeen |-> None,
   timeKnown |-> FALSE, link |-> None, epoch |-> None, holdUntil |-> 0,
   onToday |-> [ch \in Ch |-> 0], capped |-> {}, today |-> None, lastAccount |-> None]

RestoreUsage(g, c, u) ==
  IF u = None THEN c
  ELSE [c EXCEPT !.onToday = u.onToday,
                 !.today = IF u.day = 0 THEN None ELSE u.day,
                 !.capped = {ch \in Ch : CapReached(g, ch, u.onToday[ch])}]

\* The power-on relays go on; of an exclusive set only the lowest that may.
Boot(g, c, t) ==
  IF g.mode = "Off" THEN c
  ELSE SetRelays(g, c, t, LowestOfSets(g, g.powerOn \ c.capped), {})

-----------------------------------------------------------------------------
(***************************************************************************)
(* The calls of the main loop.  It samples the clocks before each message  *)
(* (main.rs 302-304), so every call sees the epoch of this moment.         *)
(***************************************************************************)
Local(w) == IF w = None THEN None
            ELSE [day |-> w \div DayLen + 1,
                  weekday |-> (w \div DayLen) % WeekLen,
                  minute |-> w % DayLen]

Sampled == [ctl EXCEPT !.epoch = wall]

Init ==
  /\ cfg \in InitConfigs
  /\ now = 0
  /\ wall \in Clocks \cup {None}
  /\ \E u \in InitUsages, h \in InitHolds :
       ctl = Boot(cfg, RestoreUsage(cfg, [NewController EXCEPT !.holdUntil = h], u), 0)

\* Time passes, for the monotonic clock and for a valid wall clock.
Advance ==
  /\ now < MaxNow
  /\ now' = now + 1
  /\ wall' = IF wall = None THEN None ELSE wall + 1
  /\ UNCHANGED <<cfg, ctl>>

\* SNTP or the RTC sets the wall clock, perhaps backwards.
SetClock(w) ==
  /\ wall' = w
  /\ UNCHANGED <<cfg, ctl, now>>

Call(g, c) ==
  /\ cfg' = g
  /\ ctl' = c
  /\ UNCHANGED <<now, wall>>

Tick == Call(cfg, Refresh(cfg, Sampled, now, Local(wall)))

HaConnected ==
  Call(cfg, Refresh(cfg, [Sampled EXCEPT !.connected = TRUE, !.declaredOffline = FALSE,
                                         !.lastSeen = now], now, None))

HaDisconnected ==
  Call(cfg, Refresh(cfg, [Sampled EXCEPT !.connected = FALSE], now, Local(wall)))

Seen == [Sampled EXCEPT !.declaredOffline = FALSE, !.lastSeen = now]

HaSeen == Call(cfg, Refresh(cfg, Seen, now, None))

HaOffline ==
  Call(cfg, Refresh(cfg, [Sampled EXCEPT !.declaredOffline = TRUE], now, Local(wall)))

\* on_time_known, called at most once: from a tick that finds the clock valid,
\* or when Home Assistant sends the time.  The latter sets the clock after the
\* epoch was sampled, so that call still sees the epoch from before.
TimeKnown ==
  /\ wall # None
  /\ ~ctl.timeKnown
  /\ Call(cfg, Refresh(cfg, [Sampled EXCEPT !.timeKnown = TRUE], now, Local(wall)))

HaTime(w) ==
  /\ wall' = w
  /\ ctl' = IF ctl.timeKnown THEN Sampled
            ELSE Refresh(cfg, [Sampled EXCEPT !.timeKnown = TRUE], now, Local(w))
  /\ UNCHANGED <<cfg, now>>

\* A command is also a sign of life; it is executed only online and not in Off.
HaCommand(ch, on) ==
  LET c == Refresh(cfg, Seen, now, None)
  IN Call(cfg, IF cfg.mode = "Off" \/ c.link # "Online" THEN c
               ELSE CommandRelay(cfg, c, now, ch, on))

\* The local override of the library; the firmware has no caller for it.
LocalCommand(ch, on) ==
  /\ cfg.mode # "Off"
  /\ Call(cfg, SetRelays(cfg, Sampled, now, IF on THEN {ch} ELSE {}, IF on THEN {} ELSE {ch}))

AllOffButton == Call(cfg, AllOff(cfg, Sampled, now))

SetSchedule(s) ==
  LET g == [cfg EXCEPT !.schedule = s]
  IN Call(g, Refresh(g, Forget(Sampled), now, Local(wall)))

SetMaxOn(ch, limit) ==
  LET g == [cfg EXCEPT !.maxOn[ch] = limit]
  IN Call(g, PollSafeguard(g, Sampled, now))

\* Mutant: any change of the cap unblocks the relay.
SetMaxDailyUnblocks(ch, limit) ==
  LET g == [cfg EXCEPT !.maxDaily[ch] = limit]
  IN Call(g, Account(g, [Sampled EXCEPT !.capped = @ \ {ch}], now, None))

SetMaxDaily(ch, limit) ==
  LET g == [cfg EXCEPT !.maxDaily[ch] = limit]
      c == IF limit = 0 /\ ch \in ctl.capped
           THEN [Sampled EXCEPT !.capped = @ \ {ch}, !.schedPrev[ch] = "unset"]
           ELSE Sampled
  IN Call(g, Account(g, c, now, None))

SetSafeState(ch, on) ==
  LET g == [cfg EXCEPT !.safeState = IF on THEN @ \cup {ch} ELSE @ \ {ch}]
  IN Call(g, Refresh(g, Sampled, now, None))

SetPowerOn(ch, on) ==
  LET g == [cfg EXCEPT !.powerOn = IF on THEN @ \cup {ch} ELSE @ \ {ch}]
  IN Call(g, Refresh(g, [Sampled EXCEPT !.schedPrev[ch] = "unset"], now, Local(wall)))

\* Mutant: the new set is not enforced on relays that are already on.
SetExclusiveSetLazy(ch, set) == Call([cfg EXCEPT !.exclusiveSet[ch] = set], Sampled)

SetExclusiveSet(ch, set) ==
  LET g == [cfg EXCEPT !.exclusiveSet[ch] = set]
  IN Call(g, EnforceExclusive(g, Sampled, now))

\* With the clock unknown no hold can be stored.
SetRainHold(hold) ==
  LET until == IF hold = 0 \/ wall = None THEN 0 ELSE wall + hold
  IN Call(cfg, Refresh(cfg, Forget([Sampled EXCEPT !.holdUntil = until]), now, Local(wall)))

SetOfflineGrace(secs) ==
  LET g == [cfg EXCEPT !.grace = secs]
  IN Call(g, Refresh(g, Sampled, now, Local(wall)))

\* Mutant: Off leaves the relays on.
SetModeLeavesOn(mode) ==
  LET g == [cfg EXCEPT !.mode = mode]
  IN Call(g, Refresh(g, Forget(Sampled), now, Local(wall)))

SetMode(mode) ==
  LET g == [cfg EXCEPT !.mode = mode]
      c == IF mode = "Off" THEN AllOff(g, Forget(Sampled), now) ELSE Forget(Sampled)
  IN Call(g, Refresh(g, c, now, Local(wall)))

HaLink == HaConnected \/ HaDisconnected \/ HaSeen \/ HaOffline

Command == \E ch \in Ch, on \in BOOLEAN : HaCommand(ch, on)

Override == \E ch \in Ch, on \in BOOLEAN : LocalCommand(ch, on)

Clock == Advance \/ TimeKnown \/ (\E w \in Clocks : SetClock(w) \/ HaTime(w))

Setting ==
  \/ \E s \in Schedules : SetSchedule(s)
  \/ \E ch \in Ch, limit \in Limits : SetMaxOn(ch, limit) \/ SetMaxDaily(ch, limit)
  \/ \E ch \in Ch, on \in BOOLEAN : SetSafeState(ch, on) \/ SetPowerOn(ch, on)
  \/ \E ch \in Ch, set \in 0..MaxSets : SetExclusiveSet(ch, set)
  \/ \E hold \in Holds : SetRainHold(hold)
  \/ \E secs \in Graces : SetOfflineGrace(secs)
  \/ \E mode \in Modes : SetMode(mode)

Next == Tick \/ Clock \/ HaLink \/ Command \/ Override \/ AllOffButton \/ Setting

Spec == Init /\ [][Next]_vars

\* What the firmware makes of the library: offline_grace_s keeps its default, since
\* no entity sets it, and nothing calls on_local_command.
FirmwareNext ==
  /\ Tick \/ Clock \/ HaLink \/ Command \/ AllOffButton \/ Setting
  /\ cfg'.grace = 0

FirmwareSpec == Init /\ cfg.grace = 0 /\ [][FirmwareNext]_vars

-----------------------------------------------------------------------------
(***************************************************************************)
(* Properties.                                                             *)
(***************************************************************************)

\* Every field has its type.
TypeOK ==
  /\ cfg \in Config
  /\ ctl \in Controller
  /\ now \in Nat
  /\ wall \in Nat \cup {None}

\* At most one relay of an exclusive set is on, whoever switched them and
\* however relays were moved between sets.
ExclusiveInv ==
  \A ch, other \in ctl.relays : ~Interlocked(cfg, ch, other)

\* In mode Off nothing is on: no path leaves a relay on or switches one on.
OffMeansOff == cfg.mode = "Off" => ctl.relays = {}

\* A relay blocked by its daily cap is off, whoever asks for it.
CappedOff == ctl.relays \cap ctl.capped = {}

\* The safeguard times exactly the relays that are on, and never from the
\* future: a relay without a timer would stay on for ever.
TimersMatchRelays ==
  \A ch \in Ch : IF ch \in ctl.relays THEN ctl.onSince[ch] \in 0..now
                 ELSE ctl.onSince[ch] = None

\* A property of FirmwareSpec, like the next three: while the stored schedule is
\* in charge no relay is on against its wish.
ScheduleOwnsRelays ==
  cfg.mode = "Auto" /\ ctl.link = "OfflineSchedule"
    => \A ch \in ctl.relays : ctl.schedPrev[ch] # "off"

\* While Home Assistant is in charge only its ON command switches a relay on:
\* neither a tick, its (re)connection nor a change of settings does.
OnlyHaSwitchesOn ==
  [][ctl'.link = "Online"
       => \A ch \in ctl'.relays \ ctl.relays : HaCommand(ch, TRUE)]_vars

\* The channels of `targets` that are on, or that something other than the
\* schedule keeps off: the cap, a later channel of the set, the safeguard.
Served(targets) ==
  {ch \in targets : \/ ch \in ctl'.relays \cup ctl'.capped \cup Expired(cfg', ctl, now)
                    \/ \E other \in targets : ch < other /\ Interlocked(cfg', ch, other)}

\* When the schedule takes over every channel is brought to its target.
SnapOnTakeover ==
  [][/\ ctl.link # "OfflineSchedule" /\ ctl'.link = "OfflineSchedule"
     /\ cfg'.mode = "Auto"
     => LET targets == Targets(cfg', ctl', Local(wall'))
        IN ctl'.relays \subseteq targets /\ targets = Served(targets)]_vars

ScheduleDrives == cfg.mode = "Auto" /\ ctl.link = "OfflineSchedule"

\* After a tick with the schedule in charge no relay is on that the schedule,
\* or the power-up state of a relay without blocks, does not want on now: in a
\* rain hold that means no scheduled relay at all.  When the hold has just run
\* out the schedule has resumed, in mid-block too.
TickFollowsTargets ==
  [][Tick /\ ScheduleDrives' /\ wall # None
       => LET targets == Targets(cfg, ctl', Local(wall))
          IN /\ ctl'.relays \subseteq targets
             /\ ctl.holdUntil > 0 /\ ctl'.holdUntil = 0 => targets = Served(targets)]_vars

SwitchedOn == ctl'.relays \ ctl.relays

\* The channels that the one shown as deciding the relays may switch on.
MaySwitchOn(driver) ==
  CASE driver \in {"off", "manual_no_ha"} -> {}
    [] driver = "home_assistant" -> {ch \in Ch : HaCommand(ch, TRUE)}
    [] driver = "safe_state_no_clock" -> SafeStates(cfg')
    [] driver = "schedule_held" -> {ch \in cfg'.powerOn : cfg'.schedule[ch] = {}}
    [] driver = "schedule" -> IF wall' = None THEN {} ELSE Targets(cfg', ctl', Local(wall'))

\* The board loses Home Assistant, or boots, with the clock unknown.
LosesAll == ctl.link # "OfflineUnknownTime" /\ ctl'.link = "OfflineUnknownTime"

SwitchesAsShown ==
  SwitchedOn # {} =>
    \/ SwitchedOn \subseteq MaySwitchOn(Driver(cfg', ctl'))
    \/ cfg'.mode = "Manual" /\ LosesAll /\ SwitchedOn \subseteq SafeStates(cfg')

\* What goes on in any call is what the one shown as deciding after it may switch
\* on: the pages never say that the schedule is held, or that the board waits for
\* Home Assistant, while something else switches a relay on.  In mode Manual there
\* is an exception: the safe state is held in that mode too, when the link becomes the
\* unknown one.
DriverTruthful == [][SwitchesAsShown]_vars

\* What the safeguard or an interlock switched off, a tick does not switch on
\* again before the wish of the schedule changes (a channel the cap blocked is
\* looked at afresh at midnight).
TripNotUndone ==
  [][Tick /\ ctl'.link = ctl.link /\ ctl'.holdUntil = ctl.holdUntil
       => \A ch \in ctl'.relays \ ctl.relays :
            ctl.schedPrev[ch] # "on" \/ ch \in ctl.capped]_vars

\* No tick leaves a relay on past its maximum on-time, or past its daily cap
\* if it was already on.
TickEnforcesLimits ==
  [][Tick => /\ Expired(cfg, ctl', now) = {}
             /\ \A ch \in ctl.relays \cap ctl'.relays :
                  cfg.maxDaily[ch] = 0 \/ ctl'.onToday[ch] < cfg.maxDaily[ch]]_vars

\* A capped relay stays capped until the local day changes or its cap is
\* removed.
CapHoldsUntilMidnight ==
  [][\A ch \in ctl.capped \ ctl'.capped :
       ctl'.today # ctl.today \/ SetMaxDaily(ch, 0)]_vars

=============================================================================
