# Formal model of the relay board firmware

Specifications and proofs for the Rust firmware in
`src/waveshare/ESP32-S3-Relay-6CH`: six relays that Home Assistant (HA)
switches over the ESPHome native API while it is reachable, and that a stored
weekly schedule switches when it is not. Paths below are relative to that
directory.

Contents: [the system](#the-system) · [modules](#modules) ·
[runs](#runs) · [findings](#findings) · [proofs](#proofs) ·
[not modelled](#what-is-not-modelled) · [what is left](#what-is-left)

## The system

| Part | Source | State | Operations |
| --- | --- | --- | --- |
| Relay arbiter | `core/src/controller.rs`, `safeguard.rs` | which relays are on, wishes of the schedule, link, on-time accounts, caps, timers, configuration, schedule | one method per input; all but a few end in `refresh` |
| Weekly schedule | `core/src/schedule.rs` | blocks per channel | `wanted(local time)`, JSON |
| Configuration | `core/src/config.rs` | mode, limits, sets, safe and power-up states, rain hold | JSON, migration |
| API connections | `esphome/src/runner.rs`, `session.rs`, `server.rs` | per connection: phase, subscribed, outbound channel, idle time; shared: states | one thread per client, snapshot and fan-out |
| Wire codecs | `esphome/src/{codec,frame,varint,noise}.rs` | receive buffer, Noise handshake | encode, decode |
| Messages and entities | `esphome/src/{entity,proto}`, `firmware/src/{main,device}.rs` | the registry of entities | list, publish, take a command |
| Main loop | `firmware/src/main.rs` | client count, WiFi and portal flags, OTA flag, `time_known` | one message at a time from one channel |
| Clock and RTC | `firmware/src/{clock,rtc}.rs`, `core/src/rtc.rs` | wall clock, time zone | set by RTC at boot, by SNTP from its own thread, by HA |
| Settings | `firmware/src/settings.rs` | flash (NVS): configuration, schedule, counters, network settings | load, save, seed, factory reset |
| Firmware update | `firmware/src/{ota,updater}.rs` | OTA partitions | check and download threads, confirmation, rollback |
| WiFi, portal | `firmware/src/{wifi,portal}.rs` | station and access point (AP) | a thread that takes commands, a setup page |
| Diagnostics | `firmware/src/{logger,crash,buzzer}.rs` | – | – |

**Interaction.** Every thread (ticker and button, WiFi, HTTP server, update
check, download, one per API client) sends messages to one channel. The main
loop is the only one that touches the arbiter: it samples the clocks, handles
the message with one or more arbiter calls, saves what changed, puts the returned
actions on the pins and publishes them through `Server::set_state`, which the
connection threads fan out. The loop counts subscribed clients; the first one
makes the arbiter *connected*, the end of the last one *disconnected*. It sends
commands to the WiFi thread over a second channel, and starts download threads
that report through the first.

**What is hard.** The arbiter is a single-threaded object, but its calls come in
any order and half of them carry no local time; decisions are edge-triggered on
state noted by earlier calls. The API server is concurrent and fails in the
middle of writes. The main loop and the WiFi thread each act on what they last
heard of the other. Clocks become valid late and jump. Power may fail between two
saves, two keys of one save, or before a new image is confirmed. The list of
hazards, each at its line and with the properties that watch it, is in
`PROJECT.json`.

**What makes each part correct.**

- Arbiter: one source of authority at a time (HA online, the schedule offline,
  nothing in Off), a clean takeover in both directions, and limits (interlock,
  maximum on-time, daily cap, rain hold) that no path escapes.
- Pins: what the arbiter believes, and never two relays of a set, not even for
  the moment between two writes.
- API connections: the count of clients equals the clients there are, slots are
  given back, a silent client is noticed, a subscriber ends with current values.
- Codecs: what is handled is what was sent, in whatever pieces it arrives, and a
  client that is refused is told why.
- Settings and clock: what a client is shown is what a restart brings back, a
  restart comes up with what was in use, a power cut loses a bounded part of the
  on-time, text forms read back what they wrote, the RTC keeps the time.
- WiFi and portal: the two threads agree, an outage is always retried and opens
  the AP, which closes when the station stays up.
- Network settings: the key clients need is the one in flash, a factory reset
  forgets what the owner gave the board.
- Firmware update: one download at a time, its progress is what is shown, an
  attempt ends.

## Modules

| Module | Models | Correspondence |
| --- | --- | --- |
| `Relays` | `set_relay` and the loops that call it | a loop over channels is one operator on sets (`SetRelays`); `CommandRelay` is `restart_timer` |
| `Arbiter` | the controller with safeguard, schedule and configuration | the struct is two records, `cfg` (Config and Schedule) and `ctl`; each private method is an operator from record to record (`Account`, `ComputeLink`, `ExpireHold`, `FollowSchedule`, `HoldSafeState`, `PollSafeguard`, composed by `Refresh`), each public method an action; `Driver` is what the pages show as deciding |
| `RelayLoop` | the loops channel by channel, the actions they return, the pins | `Turn` is one iteration, `Apply` one action; shown to come to what `Relays` says |
| `ApiLink` | listener, connection threads, sessions, publishing, client count | `stage` is the program counter of `serve`; `Receive`/`ReadDone` the read and `on_bytes`, `Dispatch`, `Fanout`, `Keepalive`, `Leave`, `End` the rest of the loop; `Record`/`Push` the two critical sections of `set_state`; `HandleMsg` the client messages in the main loop |
| `Durable` | abstract: what the board promises of a setting | a client is shown a value only when a restart would bring it back, and nothing a client sees is saved without being shown |
| `Board` | what the main loop saves, publishes and uses, in which order; restarts; SNTP and the first valid clock | `ram`, `flash`, `shown` are the values in use, in NVS and at the clients; `todo` holds the steps of the handler that are left, each message action (`Setting`, `SetSchedule`, `HaTime`, `Tick`, `Switch`, `FactoryReset`) queues its own; `Restart` may come between any two. Implements `Durable` through `SavedThenShown` |
| `Net` | station, AP, LED, status page | `main` and `led` belong to the main loop, `sta` and `status` to the WiFi thread, `radio` to the driver; `cmds` and `msgs` are the two channels. `Turn` is the WiFi thread's loop body, `Receive` the wait that ends it, `Policy` the part of the tick that opens and closes the AP; joins, losses and drops are the radio's own |
| `Provisioning` | seed of the build, saves from the setup page, network keys in flash, factory reset | `doing` holds the rest of the boot, save or reset, one write of one key a step; a save is computed from `current` and handled later |
| `Update` | requests, checks, download threads, confirmation, bootloader | `slots` is the otadata, `download` the threads, `mail` their reports on the way to the main loop (`app`) |
| `Lifecycle` | composes `Provisioning` and `Update` | they meet in the restarts, which each may cause under the other; `PowerCut` in the middle of a save, before a confirmation, at any moment |
| `Wire` | codecs, handshake and the session's loop below the messages | a frame arrives in pieces (indicator, header, payload); `Read`, `Decode`, `Dispatch` are the thread, `Greet` and `Say` a client with the board's key, another one or none |
| `Calendar` | `core/src/rtc.rs`, `firmware/src/rtc.rs`, local time | registers in BCD and 12/24-hour form, days from the civil date, against a calendar that counts day by day |
| `Forms` | JSON of plan and configuration, migration, options of the selects | a JSON object is a function on the keys it has |
| `Headers` | varints and frame headers | both readers, `Parse` on a buffer and `Read` on a slice, and their writer; `ParseHeader` also refuses a payload that is too long |
| `Messages` | identifiers and fields of the messages the board sends or reads | tags and types of the fields, and with them the encoding, are left to the protobuf library the structures are derived with |
| `Entities` | the registry of entities, what is published at boot, the arms of the main loop that take commands | a listing and a state message per entity; an arm takes a command by the key it carries |
| `MCTakeover`, `MCLimits`, `MCInterlock` | instances of `Arbiter` | each picks the calls, inputs and a VIEW for one question |
| `MCApiLink`, `MCBoard`, `MCLifecycle` | instances of the modules of that name | values of constants; `MCApiLink` also a statement of the manual that does not hold |
| `MCForms` | `Calendar`, `Forms`, `Headers`, `Entities` together | each state is one input of a pure function; the years are walked day by day |
| `ArbiterProofs`, `RelayLoopProofs`, `ApiLinkProofs`, `BoardProofs`, `LifecycleProofs`, `NetProofs`, `WireProofs`, `FormsProofs` | – | theorems, see [proofs](#proofs) |

Definitions whose comment starts with *Mutant* are deliberately wrong variants
of the definition that follows them. They are used by no specification; with one
of them in place of the original the property it is listed with must fail, which
shows that the property speaks about the code.

### Abstractions

- **Arbiter.** Time is counted in one unit (a minute, the resolution of all
  limits) by a clock that stops at `MaxNow`. The wall clock is `None` until
  valid, and may be set to another value at any moment. Actions are method calls;
  the main loop may make two calls for one message (`on_time_known` then `tick`),
  which are two steps here, so the states between them are checked too. The
  lifetime counter and the actions returned only for publishing are left out:
  nothing decides on them.
- **ApiLink.** Codec, logs and replies are left out; there is one entity whose
  value counts its publications. `faults` counts failed writes and repeated
  subscriptions; properties observe it and nothing else reads it. A command
  remembers whether its client had subscribed when it was received; the code does
  not, only `CountExact` reads it.
- **Board.** A configuration and a schedule are opaque values, of a schedule only
  the time zone matters; one relay stands for all and its on-time is counted in
  ticks. A key missing in flash is its default. Saving one key is atomic, as the
  NVS library has it. That a rain hold has ended is saved and published after the
  message that found it (`HoldSteps`): a tick or a switch may be that message here, a
  setting, a schedule or a zone is taken not to be.
- **Net.** Credentials are values, those of `TooLong` do not fit the driver's
  strings. Every call of the driver may fail, as often as it likes, but for
  `connect`. `radio.applied` says whether the last configuration was done as a
  whole; only the properties read it. The two long delays of the portal policy are
  counted in coarse units and saturate; the short ones (connect timeout, backoff,
  scan limit) may end at any moment.
- **Provisioning.** A network is its ssid together with the password. Node name
  and friendly name are handled like the key and left out.
- **Update.** Percentages are left out, a status is its first word. The choice of
  the bootloader is the one of ESP-IDF: an unconfirmed image that restarts gives
  way to the one before.
- **Lifecycle.** Restarts in the middle of something (`cuts`) and failed writes
  (`fails`) are bounded apart. `broken` remembers that one of them hit the last
  factory reset; nothing but `forgotten` and the properties depends on it.
- **Wire.** Encryption is the key that made a frame: what another key made cannot
  be read. Frames are never corrupted; the ciphers are a library.
- **Calendar.** Times are a day and a second of it, because an instant in seconds
  does not fit the checker's 32 bits.
- **Headers.** `Base` values of a group and `Modulus` numbers are 128 and 2^32 in
  the program; any others will do that have five groups, of which the last is cut
  short. `MaxPayload` is any number that fits.
- Home Assistant is assumed to know the time: an answer before 2024 makes the
  clock invalid again, and the arbiter is not told.

## Runs

All but the one marked *violation* must pass.

| Run | Instance | Properties |
| --- | --- | --- |
| `takeover` | 2 relays, blocks on two weekdays, 4 clock units a day | `OffMeansOff`, `ScheduleOwnsRelays`, `OnlyHaSwitchesOn`, `SnapOnTakeover`, `TickFollowsTargets`, `DriverTruthful` |
| `limits` | 2 relays, one set, max on-time and daily cap 0 or 2, over a midnight | `TypeOK`, `CappedOff`, `TimersMatchRelays`, `TripNotUndone`, `TickEnforcesLimits`, `CapHoldsUntilMidnight` |
| `interlock` | 3 relays, 2 sets, all membership changes; grace 0 or 1, last will | `ExclusiveInv` |
| `relay_loop` | 3 relays, 1 set, all requests, 2 loops per message | `LoopIsOneStep`, `PinsNeverOverlap` |
| `api_count` | 2 clients, 1 fault, no values | `SlotsExact`, `CountExact`, `OfflineNoticed` |
| `api_views` | 1 client, 2 values, 2 faults, chunks of several requests | `ViewsCatchUp` |
| `board` | 2 configurations, 3 schedules, 2 zones, 5 ticks, 1 failed save | `RestartKeepsSettings`, `UsageLossBounded`, `Durably` |
| `net` | 2 networks and one too long for the driver, both delays one unit, queues of 2, 2 events of owner and clients | `ThreadsAgree`, `BoardTells`, `OutageOpensAp`, `ApCloses`, `TriesForever` |
| `lifecycle` | a seeded image and a newer one without seed, 2 download threads, 2 power cuts, 1 failed write, 3 requests | `ResetForgets`, `KeyInForce`, `ProgressTruthful`, `OneDownload`, `AttemptEnds` |
| `wire` | 2 keys, none, 3 messages, any pieces | `HandledAsSent`, `RefusalExplained`, `Answered` |
| `forms` | one input a state; every day of 1999–2105 | `RtcKeepsTime`, `SettingsReadBack`, `HeadersAgree`, `EntitiesServed` |
| `api_gone` (violation) | 1 client, 1 value, 1 fault | `UnreachableNoticed` |

What they show:

- **Authority.** While the schedule is in charge no relay is on against the wish
  it noted (`ScheduleOwnsRelays`), a takeover brings every relay to its target
  (`SnapOnTakeover`), and after every tick no relay is on that the plan does not
  want now (`TickFollowsTargets`), also right after a rain hold ended in the
  middle of a block. While HA is in charge only its ON command switches a relay
  on (`OnlyHaSwitchesOn`). Whoever the pages name as deciding is the one that may
  have switched on what went on (`DriverTruthful`), but for finding 4.
- **Limits.** The interlock holds while relays are moved between sets. The
  safeguard's timers belong to exactly the relays that are on. A capped relay is
  off and stays blocked until the day changes. A tick leaves no relay on past a
  limit, and does not undo a trip.
- **Loops.** A loop of `set_relay` calls in ascending order equals the one step
  `Relays` takes for it, timers included, and the pins never overlap.
- **Connections.** Unless a write fails or a client subscribes twice, the count
  in the main loop plus the messages on the way equal the subscribed clients at
  every moment, a command of a subscribed client never arrives while the arbiter
  thinks it has none, and when all clients have gone the board goes offline.
  Whatever fails, slots are given back, and a subscriber ends with the current
  value.
- **Restarts.** As long as no save fails, a client is never shown a setting or a
  schedule that a restart would take back (`Durably`), the time zone of a boot is
  the one that was in use although it has two sources, and at most one period of
  on-time is lost to a power cut, also when the relay is switched between saves.
- **Network.** When both threads have settled they agree on AP and station,
  however openings, closings and saves crossed; LED and status page tell the
  truth; a station that stays in no network opens the AP, one that stays up closes
  it, and the board never stops trying. What the driver failed to do is excepted
  (findings 7 and 9), and a station without an address is no outage to the board
  (finding 8).
- **From the first boot on.** A factory reset whose own steps were done leaves
  nothing of the owner's that was not given again, and the key of the listener is
  the one in flash unless a restart is due. Failed writes and cuts anywhere else do
  not change that; those in the reset itself do (findings 13 and 14). The update
  shown in progress is the one that runs; there is one download at a time (but for
  finding 15); an attempt ends in a report or a restart. Seeds, saves, resets,
  updates and restarts interrupt each other.
- **Wire.** Whatever pieces the bytes arrive in, messages are handled as they
  were sent, whole and in order, and only with the board's own key; a client with
  a wrong key or none is told so before the connection closes.
- **Forms.** Each function agrees with its reference on every input of the run;
  what is written is read back, old configurations are migrated once, a plan with a
  bad block or channel is refused whole, and a header that announces more than the
  board takes is refused as soon as it is read.

### Bounds

| Bound | Where | Why it is enough |
| --- | --- | --- |
| `MaxNow` 1–4 | arbiter | covers a block edge, a limit, a midnight and the state after each; no rule looks back further than the last call, the on-time and the day |
| `DayLen` 2–4, `WeekLen` 1–2 | arbiter | a block that starts after midnight and ends with or before the day; the weekday is only compared |
| `N` 2–3 | arbiter | a set needs two relays to interlock and a third to be moved between sets; the proofs cover every N |
| `MaxRounds` 2 | `RelayLoop` | loops of one message whose actions are applied together |
| `MaxClients`, `Conns` | `ApiLink` | two clients interleave; the count cannot tell more apart |
| `MaxEvents` | `ApiLink` | a chunk holds the hello and one request (`api_count`), or several requests (`api_views`) |
| `MaxInbox` | `ApiLink` | the real channel is unbounded; a sender that waits is one that has not been scheduled |
| `MaxUpdates`, `MaxFaults` | `ApiLink` | a value before, during and after a subscription; one failure, or two |
| `MaxTicks`, `MaxUsage`, `Period` | `Board` | two periods and a tick, enough to lose more than a period if a save were missing |
| `MaxFaults` 1 | `Board` | whether a save has failed is all that is read of it |
| `OfflineUnits`, `IdleUnits` 1 | `Net` | the delays are compared with their limit only; before it, at it |
| `MaxQueue` 2 | `Net` | two commands and two messages cross; the real channels are unbounded |
| `MaxEvents` 2 | `Net` | two of: the owner opens the AP, saves other credentials, a client comes or goes, the board restarts; in any order, at any step of either thread. Failures of the driver are not bounded; the proofs cover any number of events |
| `TooLong`, one value | `Net` | the driver refuses all of them alike |
| `MaxCuts` 2, `MaxFails` 1, `MaxEvents` 3 | `Lifecycle` | two requests and one more that meets both; a reset or save that is cut, the boot behind it cut too, and a write that fails after either |
| `MaxMail`, `MaxInbox` 2 | `Lifecycle` | a report of a thread that ends, behind one of a thread that starts |
| `Threads` 2 | `Lifecycle` | a second download beside the first is what `OneDownload` forbids |
| `MaxKeys` 5 | `Lifecycle` | a key for every request and boot the other bounds allow |
| `MaxMessages` 3 | `Wire` | one whole, one cut and one behind it |
| `Base` 4, `Modulus` 512, `MaxPayload` 70 | `Headers` | every sequence of bytes up to three, and up to six of numbers that go on; numbers on both sides of the limit |

The VIEWs of the arbiter runs leave out fields that cannot influence the rest in
that instance (each says why). No symmetry is used. Deadlock is checked except
in `relay_loop`, `lifecycle`, `wire` and `forms`, where a bound on loops or
requests, a closed connection or the end of a walk really ends the behaviour.

### Fairness

Every assumption is about the board's own threads, or about time:

- `ApiLink`: the connection threads and the main loop are scheduled (FreeRTOS
  runs every ready thread; reads and writes have timeouts, `runner.rs` 20–22, so
  no step blocks for ever), and time passes for a silent connection.
- `Net`: the main loop handles its messages and its tick, the WiFi thread takes
  its turns (`recv_timeout` ends the wait, `wifi.rs` 221), time passes and
  timeouts end. `TimePasses` is strongly fair because messages may hold it up
  again and again without stopping the clock. Nothing is assumed about the
  radio: a network need not accept the station, give it an address or drop it.
- `Lifecycle`: the main loop goes on with what it is doing and handles reports, a
  restart that is due happens, and a download ends (it is finite, and its reads
  time out).
- `Wire`: the connection thread is scheduled.

Nothing is assumed about clients, the owner, or a network coming back.

## Findings

One run shows a violation; the others were met while modelling, and each is
listed in `PROJECT.json` with the lines it quotes.

1. **A client that dies during a write is never counted out** (`api_gone`).
   `runner.rs` 54–55, 59–60 and 75 leave `serve` with `?`, past the `ClientGone`
   of line 80. The counterexample: a client subscribes, falls silent, a value is
   published, its write fails, the thread ends; the arbiter stays Online, so the
   stored schedule never takes over. The manual (131–132) promises that the board
   notices.
2. **The arbiter may never learn that the clock is valid.** A tick samples the
   local time at `main.rs` 303 and asks whether the clock is valid at line 321. If
   SNTP sets the clock in between, `time_known` becomes true but `on_time_known`
   is not called, then or ever (line 706 asks `time_known` too): the stored
   schedule does not run until the next restart. `Board` has the steps (`valid`,
   `sampled`, `known`, `told`).
3. **The highest-numbered power-up relay of a set wins** when the link is first
   evaluated (`controller.rs` 520), although boot, the comment at 307 and the
   manual (line 100) say the lowest does.
4. **Mode Manual holds the safe state.** A board in Manual that loses HA with the
   clock unknown switches on its safe-state and power-up relays (`controller.rs`
   519), although the pages then show `ManualNoHa`, "nothing switches relays until
   it returns" (line 42). It takes three messages: HA connects, the mode is set, HA
   leaves. `DriverTruthful` excepts exactly this (`LosesAll`).
5. **Counters saved without a day** count for the first day that becomes known
   (`controller.rs` 425), against the comment at 185.
6. The comment at `controller.rs` 361 says relays resume at the next block edge
   after a rain hold; the code (482–486) resumes at once, as `TickFollowsTargets`
   shows.
7. **Credentials too long for the driver** are saved, and then refuse the AP too,
   because both are configured together (`wifi.rs` 114, 264–295). `Net` has them
   (`TooLong`); `OutageOpensAp` excepts an AP the driver refused.
8. **A station without an address is taken for connected.** The WiFi thread reports
   a loss only of a station that is no longer associated (`wifi.rs` 177, 187), so
   one that keeps its network and loses its address, or gets none again after the AP
   was closed, leaves the board believing that it is up: the AP stays closed,
   although the manual (194) promises it after 10 minutes. `OutageOpensAp` therefore
   speaks of a station that is in no network; with "has no address" in its place it
   fails.
9. **A configuration that fails half way is not repeated.** `apply` stops the radio
   first (`wifi.rs` 291–297); when what follows fails the error is logged, and every
   later `connect` fails on a stopped radio, until something asks for a new
   configuration. The manual (194) says the board tries again for ever;
   `TriesForever` speaks of a radio that is not stopped.
10. The AP closes 15 minutes after it opened, not after the station came back as
    the comment at `main.rs` 51 says.
11. Compiled-in credentials overwrite those in flash whenever their fingerprint
    changes (`main.rs` 150); `settings.rs` 83 says only when NVS is empty.
12. **A good image may be rolled back.** The new image is confirmed once, and while
    a download holds the updater that fails silently (`main.rs` 354, `ota.rs`
    59–64).
13. **A cut factory reset leaves the API key.** The network is removed first and
    the key third (`settings.rs` 99), and no boot takes the reset up again. The
    board makes up a key; if that cannot be written the old one comes back once
    a network is saved. `KeyInForce` excepts what follows such a reset (`broken`).
14. **A factory reset ignores what it could not remove.** The errors of its removes
    are thrown away (`settings.rs` 99–104), that of the mark is logged, and
    `main.rs` 428–431 restarts: the old network or key is then in use again.
    `ResetForgets` and `KeyInForce` except what follows such a reset (`broken`).
15. **A second download may start.** "rejected url" of another request, handled
    while a download runs or its failure waits to be handled, clears
    `ota_running` (`main.rs` 497). `OneDownload` excepts exactly this (`crossed`).
16. The length of an encrypted frame is cut to 16 bits without a check
    (`noise.rs` 77).
17. The RTC is written with whatever HA answers, before the clock has judged it
    (`main.rs` 696): 0 is read back as the year 2070.
18. The remaining hours of a rain hold are shown wrong while the clock is unknown
    (`main.rs` 571, 879).
19. `DayMask::parse` (`schedule.rs` 64) refuses characters its comment (53)
    allows.

## Proofs

Eight modules of theorems, checked for every value of the constants from the
named assumptions of the modules alone (sizes are positive or natural, inputs are
well-formed, a constant that stands for "none" is none of the values, the years of
the calendar walk are within 1–2199, numbers take five groups).

| Module | Theorem | Statement |
| --- | --- | --- |
| `ArbiterProofs` | `ArbiterInvariant` | `Spec => []IInv` |
| | `ArbiterTypeOK`, `ArbiterExclusive`, `ArbiterOffMeansOff`, `ArbiterCappedOff`, `ArbiterTimers` | `TypeOK`, `ExclusiveInv`, `OffMeansOff`, `CappedOff`, `TimersMatchRelays` |
| | `LimitsCapHolds`, `LimitsEnforced`, `LimitsTripStays` | `CapHoldsUntilMidnight`, `TickEnforcesLimits`, `TripNotUndone` |
| | `TakeoverInvariant` | `FirmwareSpec => []TInv` |
| | `TakeoverOwnsRelays`, `TakeoverOnlyHaSwitchesOn`, `TakeoverSnaps`, `TakeoverTickFollows`, `TakeoverDriverTruthful` | `ScheduleOwnsRelays`, `OnlyHaSwitchesOn`, `SnapOnTakeover`, `TickFollowsTargets`, `DriverTruthful`, of `FirmwareSpec` |
| `RelayLoopProofs` | `LoopInvariant` | the inductive invariant |
| | `LoopOutcome`, `BreakBeforeMake` | `LoopIsOneStep`, `PinsNeverOverlap` |
| `ApiLinkProofs` | `ApiInvariant` | `Spec => []ApiInv` |
| | `ApiSlots`, `ApiCount`, `ApiViews` | `SlotsExact`, `CountExact`, `ViewsCatchUp` |
| `BoardProofs` | `BoardInvariant` | `Spec => []BoardInv` |
| | `BoardDurably`, `UsageLoss` | `Spec => SavedThenShown!Spec`, `UsageLossBounded` |
| | `RestartKeeps` | `RestartKeepsSettings` |
| `LifecycleProofs` | `UpdateInvariant`, `ProvInvariant` | the inductive invariants of the two halves |
| | `LifecycleOneDownload`, `LifecycleTruthful` | `OneDownload`, `ProgressTruthful` |
| | `LifecycleForgets`, `LifecycleKey` | `ResetForgets`, `KeyInForce` |
| `NetProofs` | `NetInvariant` | `Spec => []NetInv` |
| | `NetAgrees`, `NetTells` | `ThreadsAgree`, `BoardTells` |
| `WireProofs` | `WireInvariant` | `Spec => []WireInv` |
| | `WireHandles`, `WireExplains` | `HandledAsSent`, `RefusalExplained` |
| `FormsProofs` | `EveryDayCounted`, `EveryTimeReadBack`, `ChipRead` | of every date from year 1 on; of every second of 2024–2199; of whatever digits the chip shows |
| | `DaysReadBack`, `PlanReadBack`, `ConfigReadBack`, `OldSetsRead` | of every text, plan, configuration, old relay |
| | `ReadersAgree`, `HeaderReadBack`, `CommandsServed` | of every sequence of bytes; of every length and identifier; of every command for every entity |
| | `RtcInvariant`, `SettingsInvariant`, `HeadersInvariant`, `EntitiesInvariant` | `RtcKeepsTime`, `SettingsReadBack`, `HeadersAgree`, `EntitiesServed` |

**Arbiter.** None of the five properties is inductive alone. Types need
`lastAccount <= now`, or the on-time booked could be negative. The interlock needs
to know that what goes on is one relay of a set and that its rivals went off.
Timers and caps need each other because `Account` switches relays off while it
books. `IInv` is their conjunction with `Booked`. The argument follows the code:
an operator on records keeps the record `Sound` (one lemma each:
`AccountSound`, `ForgetSound`, `ExpireHoldSound`, `FollowScheduleSound`,
`HoldSafeStateSound`, `PollSafeguardSound`); all rest on `SetRelaysSound`, which
says what switching does to relays and timers; `RefreshSound` composes them; one
lemma per group of calls closes the induction.

**Limits.** The three action properties are about one re-evaluation, `Refresh`. It
books the on-time first and then decides the link, ends a hold, follows the plan
and polls the safeguard; each of these leaves the booked day alone (caps, budgets,
the date), so what is capped after the call was decided by `Account`, and what the
plan switched on is polled once more before the call returns. With `IInv` all
that run `limits` checks is a theorem.

**Takeover.** The five properties about who is in charge are not theorems of
`Spec`, because the library offers two things the firmware does not use: a local
override (`on_local_command`) and a heartbeat whose grace may run out while no
local time is at hand. `FirmwareSpec` is `Spec` without them: nothing calls
`on_local_command` or `set_offline_grace_s`, and the default grace is 0 (`config.rs`
119). Every step of the run `takeover` is one of its steps. Nothing else is given
up: caps, limits, exclusive sets, holds and every setting may come in any order,
which the run leaves out. `LinkInv` adds to `IInv` that the link, once evaluated, is
the one that connection and clock call for, so a takeover can only happen in a
call that re-evaluates with the local time; and that a clock known to the
controller is valid. Every step is then one of three kinds. A *review* puts
a prepared controller, with nothing on that was off, through `Refresh`. A *quiet*
step switches nothing on and leaves link, hold and noted wishes alone, but that it
may forget them. An *obeyed* command is one of HA while it is in charge. One lemma
per group of calls says of which kind they are, and each property has to be argued
for the three kinds only: what goes on in a review was wished by the schedule, and
what a wish keeps off went off when it was noted. `DriverTruthful` asks where in a
review each relay went on: on adopting an unknown link it is of the safe state
(`Adopted`), in a review the schedule does not rule nothing else can have gone on
(`RefreshUnruled`), and otherwise the plan in force wants it.

**Loops.** `Arbiter` takes a loop over channels for one step on sets; this is what
justifies it. After the turn of channel *n* the record is what the step makes of
the channels up to *n*; a lemma each says that one more relay on, one more off,
one command and one turn of boot extend the outcome. For the pins the invariant
follows them through the actions still to be applied: they reach the relays of the
controller over states none of which has two relays of a set on, because at most
one relay of a set gives way and it does so first.

**Connections.** `SlotsExact` is inductive as it stands, by counting. For the views
the invariant says where the newest value of a subscriber is: last in its channel,
or else in a snapshot it has not dispatched, or else in its view; a client
accepted between the two critical sections of `set_state` gets the value twice,
never an older one last. For `CountExact` it says that each message on its way
leads from one count to the next, from `haClients` to the number of counted
clients, and that none a counted client sent meets a zero; this rests on the
order of the events of a connection: one "subscribed", commands behind it, the
end last.

**Settings.** `BoardInv` is about the steps of the handler that are left: a value
that is to be shown is saved before or is what flash holds, nothing a client sees
is saved without being shown, and a reset ends in a restart. With it each step of
`Board` is one of `Durable`, or a stutter. `RestartKeepsSettings` is harder than it
looks because the time zone has a key of its own and one in the schedule:
`RestartInv` adds that, while no save has failed, a schedule with a zone is in flash
only with a zone beside it, and that the steps left save a zone before the schedule
that brings it and remove it after.

**Lifecycle.** The two halves share the restarts and nothing else, so each has its
own invariant. Updates: unless a refusal was taken for its end, at most one attempt
is not over, by its thread or by the one failure on its way, and `ota_running` is
set while there is one; behind every report of a thread that is gone its end is
still to come. Network settings: of the writes left to do, whether and in which
order they write network and key. A boot comes to the key it chose; a save to the
key of the board or to a restart; unless the last reset was broken a flash without a
network has no key either; and the seed cannot come back because until it is marked the
board runs the image it was flashed with and has no update.

**Network.** Everything that crosses is in one of two channels, so `NetInv` says of
each channel what its last message of a kind means: the last command about the AP
says what the main loop believes, the last message what the WiFi thread knows,
unless new credentials are on their way or about to be applied. `ThreadsAgree` is
the case of empty channels. The driver may fail at any call and leave the radio
anywhere between the old configuration and the new; what the radio does is then only
claimed when `applied` says that the last configuration was done as a whole.

**Wire.** The client's key says what its *n*-th frame is (two greetings or none,
then messages by number), and until the first error the number of frames taken says
what the state of the codec is. So a frame decides the answer, one lemma for each
codec. A refusal's reason comes before its error in the events, and the thread
writes events in order: when it closes the reason is written.

**Calendar and RTC.** `days_from_civil` counts eras of 400 years that begin in
March. The proof takes a date apart into era, year of the era and day of that year,
shows that each part is found again by the divisions of the reverse function, and
that the first of a month follows the last of the month before. So the count steps
by one from day to day of a calendar that knows only the lengths of the months, for
every date from year 1 on and not only for the years the run walks. A date whose
day rolls over is never read back as it was (`RealDates`), which is what the
firmware's check of the chip rests on. Digits are read back because a byte has
room for two of them; the century bit reaches to 2199, which is why
`YearsAssumption` ends the walk there. `RtcInvariant` follows from these and from
`InputInv`: the walk stays on real dates.

**Settings.** The text forms are theorems about each function: a plan
that was not refused is a function on all channels whose numbers are their own
keys, so writing and reading it gives the same; reading a configuration moves an
old flag into sets and drops it, so a second reading changes nothing.
`SettingsInvariant` applies this to the inputs of the run, plans with a bad block or
channel among them.

**Headers.** A number has at most five groups, so what a fold over bytes computes is
written out and needs no induction: `RestsShrink` says what is left of a number
before each group and that nothing is left after the fifth (what the assumption on
`Base` and `Modulus` is for), `EncodedGroups` that the groups written
make the number again, whatever the buffer holds behind them. A buffer either ends a
number at a byte both readers find (`NumberTaken`) or is still open; `ReadersAgree`
and `HeaderReadBack` follow, and with them `HeadersInvariant` for the 7 and 32 bits of
the program as well as for the small ones of the run. A payload that is too long is
refused exactly when both numbers of the header are whole.

**Entities.** `KindsOfGroups` lists the entities of each kind. For each command,
`Serve` says of its arms what the first that takes a key does: it sets the entity
of that key exactly for the kind the command is for, although an arm above it might
have taken the key, and what it publishes is published at boot too, with the type its
kind can encode (`PublishedFit`). The run tries the keys of three channels;
`CommandsServed` is for any channel.

**Only model-checked:** `OfflineNoticed`, `AttemptEnds`, `Answered`, `OutageOpensAp`,
`ApCloses` and `TriesForever`, because liveness under fairness is out of the prover's
reach. Every other property of a passing run is a theorem, those of
`takeover` of `FirmwareSpec`.

## What is not modelled

- **Diagnostics** (`logger`, `crash`, `buzzer`, heap and uptime
  figures): no decision depends on them.
- **Home Assistant package**: a blueprint and a card that call the board; their
  behaviour is Home Assistant's.
- **Generated protocol code**: the messages the board neither sends nor reads, the
  tags and types of fields, and the generator. `Messages` has identifiers and fields
  of the others.
- **HTTP pages, captive DNS, list of networks found**: I/O without a state the
  rest reads. What the setup page saves and what it shows is in `Provisioning` and
  `Net`.
- **The ciphers of Noise** and the TLS of downloads are libraries; `Wire` assumes
  that only the same key reads a frame.
- **GPIO writes that fail** are only logged (`main.rs` 817); no other state
  follows from them. **A panic of a connection thread** (no drop guard for the
  slot, `main.rs` 1047) and **out of memory** have no defined outcome to model.
- **The lifetime counter** (`total_ms`): only published.
- Corrupted flash and the wear of NVS: the library's.

## What is left

1. Composition of `ApiLink` with `Arbiter`: the connect and disconnect inputs as
   an implementation of the environment the arbiter assumes.
2. `LifecycleProofs` and `BoardProofs` share the flash: one module of the keys
   would let a reset and a schedule's save be interleaved in one statement.
