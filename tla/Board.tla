------------------------------- MODULE Board -------------------------------
(***************************************************************************)
(* What the main loop of the firmware keeps in flash, and what a restart   *)
(* at any moment makes of it (firmware/src/main.rs with settings.rs and    *)
(* clock.rs).  Handling a message is several steps: change the controller, *)
(* save, publish, then save the on-time counters; power may fail between   *)
(* any two of them, and a save may fail, which the code only logs.         *)
(*                                                                         *)
(* Abstractions.  A configuration and a schedule are opaque values; of a   *)
(* schedule the time zone is kept.  One relay stands for all, its on-time  *)
(* is counted in ticks.  A key missing in flash and its default are the    *)
(* same.  A save is atomic (the NVS library).                              *)
(***************************************************************************)
EXTENDS Integers, Sequences

CONSTANTS
  Configs, DefaultConfig,   \* values of Config
  Plans, NoPlan,            \* values of Schedule, NoPlan without blocks
  Zones, NoZone,            \* POSIX time zones, NoZone is ""
  Tz(_),                    \* the time zone a schedule carries
  Period,                   \* ticks between periodic saves of the counters
  MaxTicks,                 \* bound on the ticks between restarts
  MaxUsage,                 \* bound on the on-time
  MaxFaults                 \* bound on `faults`

ASSUME BoardAssumption ==
  /\ DefaultConfig \in Configs
  /\ NoPlan \in Plans
  /\ NoZone \notin Zones
  /\ \A p \in Plans : Tz(p) \in Zones \cup {NoZone}
  /\ Period \in Nat \ {0}
  /\ Tz(NoPlan) = NoZone
  /\ MaxTicks \in Nat
  /\ MaxUsage \in Nat
  /\ MaxFaults \in Nat

VARIABLES
  ram,      \* configuration, schedule, zone and counter in use
  flash,    \* the same as saved
  shown,    \* configuration and schedule as published to the clients
  todo,     \* what is left to do for the message being handled
  on,       \* a relay is on
  ticks,    \* tick_count
  valid,    \* the wall clock is valid
  sampled,  \* it was when the message was taken
  known,    \* time_known of the main loop
  told,     \* time_known of the arbiter
  faults    \* saves that failed (observed, not read)

time == <<valid, sampled, known, told>>
vars == <<ram, flash, shown, todo, on, ticks, time, faults>>

Shown == {"cfg", "plan"}  \* the keys that clients see

Save(key, value) == [op |-> "save", key |-> key, value |-> value]
Show(key, value) == [op |-> "show", key |-> key, value |-> value]
Use(key, value) == [op |-> "use", key |-> key, value |-> value]
SeeTime == [op |-> "time", key |-> "zone", value |-> NoZone]
Reboot == [op |-> "reboot", key |-> "zone", value |-> NoZone]

-----------------------------------------------------------------------------
(***************************************************************************)
(* The message loop: take a message when the last one is done.  Whatever   *)
(* the message, the relay may end up in another state, is.                 *)
(***************************************************************************)

\* Mutant: a relay that goes off does not save the counters.
UsageDuePeriodic(periodic, was, is) == is /\ periodic

\* The counters are saved when a relay goes off, and every Period ticks while
\* one is on.
UsageDue(periodic, was, is) == (was /\ ~is) \/ (is /\ periodic)

\* The counters are saved after the message's own steps and before what the
\* actions it caused ask for, `rest`.
Handle(steps, is, periodic, usage, rest) ==
  /\ todo = <<>>
  /\ todo' = steps
                \o (IF UsageDue(periodic, on, is) THEN <<Save("usage", usage)>> ELSE <<>>)
                \o rest
  /\ on' = is
  /\ sampled' = valid

\* Mutant: the new value is published before it is saved.
SettingStepsShowFirst(c) == <<Show("cfg", c), Save("cfg", c)>>

SettingSteps(c) == <<Save("cfg", c), Show("cfg", c)>>

\* A setting is changed by a client or the setup page.
Setting(c, is) ==
  /\ Handle(SettingSteps(c), is, FALSE, ram.usage, <<>>)
  /\ ram' = [ram EXCEPT !.cfg = c]
  /\ UNCHANGED <<flash, shown, ticks, valid, known, told, faults>>

\* Clock::set_tz: an empty zone, or the one in use, changes nothing and is not
\* saved.
ZoneChanges(z) == z # NoZone /\ z # ram.zone

ZoneAfter(z) == IF ZoneChanges(z) THEN z ELSE ram.zone

ZoneSteps(z) == IF ZoneChanges(z) THEN <<Save("zone", z)>> ELSE <<>>

\* Mutant: the zone of a schedule is used but not saved on its own.
PlanStepsNoZone(p) == <<Save("plan", p), Use("plan", p), Show("plan", p)>>

PlanSteps(p) == ZoneSteps(Tz(p)) \o <<Save("plan", p), Use("plan", p), Show("plan", p)>>

\* set_schedule, or clear_schedule if p is NoPlan.
SetSchedule(p, is) ==
  /\ Handle(PlanSteps(p), is, FALSE, ram.usage, <<>>)
  /\ ram' = [ram EXCEPT !.zone = ZoneAfter(Tz(p))]
  /\ UNCHANGED <<flash, shown, ticks, valid, known, told, faults>>

\* Home Assistant answers with the time and its zone.
HaTime(z, is) ==
  /\ Handle(ZoneSteps(z), is, FALSE, ram.usage, <<>>)
  /\ ram' = [ram EXCEPT !.zone = ZoneAfter(z)]
  /\ valid' = TRUE
  /\ known' = TRUE
  /\ told' = (told \/ ~known)
  /\ UNCHANGED <<flash, shown, ticks, faults>>

\* A rain hold that ended while the message was handled has changed the
\* configuration to c.  Settings, schedules and zones are taken not to end one: the
\* save of a setting holds the end as well, and after that of a schedule or a zone
\* the same two steps follow.
HoldSteps(c) == IF c # ram.cfg THEN SettingSteps(c) ELSE <<>>

\* A tick books the on-time.
Tick(c, is) ==
  LET onTime == ram.usage + (IF on THEN 1 ELSE 0)
  IN /\ ticks < MaxTicks
     /\ onTime <= MaxUsage
     /\ ticks' = ticks + 1
     /\ ram' = [ram EXCEPT !.usage = onTime, !.cfg = c]
     /\ Handle(<<SeeTime>>, is, ticks' % Period = 0, onTime, HoldSteps(c))
     /\ UNCHANGED <<flash, shown, valid, known, told, faults>>

\* A command, the loss of Home Assistant and the like only switch relays, and may
\* be what finds a hold over.
Switch(c, is) ==
  /\ Handle(<<>>, is, FALSE, ram.usage, HoldSteps(c))
  /\ ram' = [ram EXCEPT !.cfg = c]
  /\ UNCHANGED <<flash, shown, ticks, valid, known, told, faults>>

\* The keys of a previous owner are removed; the counters stay.
FactoryReset ==
  /\ Handle(<<Save("cfg", DefaultConfig), Save("plan", NoPlan), Save("zone", NoZone), Reboot>>,
            on, FALSE, ram.usage, <<>>)
  /\ UNCHANGED <<ram, flash, shown, ticks, valid, known, told, faults>>

-----------------------------------------------------------------------------
(***************************************************************************)
(* The steps of handling a message.                                        *)
(***************************************************************************)
Doing(op) == todo # <<>> /\ Head(todo).op = op /\ todo' = Tail(todo)

DoSave ==
  /\ Doing("save")
  /\ \/ flash' = [flash EXCEPT ![Head(todo).key] = Head(todo).value] /\ UNCHANGED faults
     \/ faults < MaxFaults /\ faults' = faults + 1 /\ UNCHANGED flash
  /\ UNCHANGED <<ram, shown, on, ticks, time>>

DoShow ==
  /\ Doing("show")
  /\ shown' = [shown EXCEPT ![Head(todo).key] = Head(todo).value]
  /\ UNCHANGED <<ram, flash, on, ticks, time, faults>>

DoUse ==
  /\ Doing("use")
  /\ ram' = [ram EXCEPT ![Head(todo).key] = Head(todo).value]
  /\ UNCHANGED <<flash, shown, on, ticks, time, faults>>

\* The tick that first finds the clock valid tells the arbiter, if it has a
\* local time; that one was computed when the message was taken.
DoSeeTime ==
  /\ Doing("time")
  /\ known' = (known \/ valid)
  /\ told' = (told \/ (~known /\ valid /\ sampled))
  /\ UNCHANGED <<ram, flash, shown, on, ticks, valid, sampled, faults>>

-----------------------------------------------------------------------------
(***************************************************************************)
(* SNTP, and restarts.                                                     *)
(***************************************************************************)

\* SNTP has a thread of its own.
SntpSync ==
  /\ ~valid
  /\ valid' = TRUE
  /\ UNCHANGED <<ram, flash, shown, todo, on, ticks, sampled, known, told, faults>>

\* The zone of a boot: the saved one, else that of the saved schedule.
BootZone(f) == IF f.zone # NoZone THEN f.zone ELSE Tz(f.plan)

Loaded(f) == [f EXCEPT !.zone = BootZone(f)]

\* A power cut, a panic, the watchdog or a requested restart: any moment will do.
\* The wall clock may survive, or be read from an RTC.
Restart ==
  /\ ram' = Loaded(flash)
  /\ shown' = [key \in Shown |-> flash[key]]
  /\ todo' = <<>>
  /\ on' \in BOOLEAN
  /\ ticks' = 0
  /\ valid' \in BOOLEAN
  /\ sampled' = FALSE
  /\ known' = FALSE
  /\ told' = FALSE
  /\ UNCHANGED <<flash, faults>>

Init ==
  /\ flash = [cfg |-> DefaultConfig, plan |-> NoPlan, zone |-> NoZone, usage |-> 0]
  /\ ram = Loaded(flash)
  /\ shown = [key \in Shown |-> flash[key]]
  /\ todo = <<>>
  /\ on \in BOOLEAN
  /\ ticks = 0
  /\ valid \in BOOLEAN
  /\ sampled = FALSE
  /\ known = FALSE
  /\ told = FALSE
  /\ faults = 0

Message ==
  \/ \E c \in Configs, is \in BOOLEAN : Setting(c, is) \/ Tick(c, is) \/ Switch(c, is)
  \/ \E p \in Plans, is \in BOOLEAN : SetSchedule(p, is)
  \/ \E z \in Zones \cup {NoZone}, is \in BOOLEAN : HaTime(z, is)
  \/ FactoryReset

Next == Message \/ DoSave \/ DoShow \/ DoUse \/ DoSeeTime \/ SntpSync \/ Restart

Spec == Init /\ [][Next]_vars

-----------------------------------------------------------------------------
Pending(op, key) == \E i \in DOMAIN todo : todo[i].op = op /\ todo[i].key = key

Resetting == \E i \in DOMAIN todo : todo[i].op = "reboot"

\* The settings are saved, then shown: a client never sees a value that a restart
\* would not bring back, and no value is saved without being shown, at any step
\* of any message and with a restart between any two, until a save fails.
SavedThenShown ==
  INSTANCE Durable WITH
    Keys <- Shown, Values <- Configs \cup Plans,
    saved <- [key \in Shown |-> flash[key]],
    due <- {key \in Shown : Resetting \/ Pending("show", key)},
    failed <- faults > 0

Durably == SavedThenShown!Spec

\* Between messages a restart would change nothing that is in use: neither
\* configuration nor schedule, nor the time zone, which has two sources.
RestartKeepsSettings ==
  faults = 0 /\ todo = <<>>
    => LET next == Loaded(flash)
       IN next.cfg = ram.cfg /\ next.plan = ram.plan /\ next.zone = ram.zone

\* A power cut loses at most Period ticks of a relay's daily on-time, however the
\* relay was switched.
UsageLossBounded == faults = 0 => ram.usage - flash.usage <= Period
=============================================================================
