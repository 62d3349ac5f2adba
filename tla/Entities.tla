------------------------------ MODULE Entities ------------------------------
(***************************************************************************)
(* The entities the board shows to Home Assistant: how they are listed and *)
(* their states encoded (esphome/src/entity.rs), which there are           *)
(* (firmware/src/entities.rs), what is published of them at boot and what  *)
(* the main loop does with a command for one (firmware/src/main.rs).       *)
(*                                                                         *)
(* A key is the group of an entity and its channel, 0 for those that exist *)
(* once: the hash of the object id, which the board refuses to start with  *)
(* twice.  Of a state its type is kept, of a command its message.          *)
(***************************************************************************)
EXTENDS Messages, Integers, Sequences

CONSTANT NoMessage  \* None

ASSUME NoMessageAssumption == NoMessage \notin Messages

-----------------------------------------------------------------------------
(***************************************************************************)
(* entity.rs                                                               *)
(***************************************************************************)
ListMessage ==
  [switch |-> ListEntitiesSwitchResponse, number |-> ListEntitiesNumberResponse,
   select |-> ListEntitiesSelectResponse, binary_sensor |-> ListEntitiesBinarySensorResponse,
   sensor |-> ListEntitiesSensorResponse, text_sensor |-> ListEntitiesTextSensorResponse,
   button |-> ListEntitiesButtonResponse, update |-> ListEntitiesUpdateResponse,
   service |-> ListEntitiesServicesResponse]

Kinds == DOMAIN ListMessage

HasState(kind) == kind \notin {"button", "service"}

StateMessage(kind, type) ==
  CASE kind = "switch" /\ type = "Bool" -> SwitchStateResponse
    [] kind = "binary_sensor" /\ type = "Bool" -> BinarySensorStateResponse
    [] kind = "number" /\ type = "Float" -> NumberStateResponse
    [] kind = "sensor" /\ type = "Float" -> SensorStateResponse
    [] kind = "select" /\ type = "Text" -> SelectStateResponse
    [] kind = "text_sensor" /\ type = "Text" -> TextSensorStateResponse
    [] kind = "update" /\ type = "Update" -> UpdateStateResponse
    [] OTHER -> NoMessage

-----------------------------------------------------------------------------
(***************************************************************************)
(* entities.rs                                                             *)
(***************************************************************************)
OfRelay ==
  [relay |-> "switch", max_on |-> "number", tripped |-> "binary_sensor", safe_state |-> "switch",
   power_on |-> "switch", exclusive_set |-> "select", max_daily |-> "number", on_today |-> "sensor",
   total |-> "sensor", daily_capped |-> "binary_sensor"]

OfBoard ==
  [mode |-> "select", link |-> "text_sensor", local_time |-> "text_sensor",
   schedule_loaded |-> "binary_sensor", schedule_rev |-> "sensor", schedule_info |-> "text_sensor",
   uptime |-> "sensor", rssi |-> "sensor", all_off |-> "button", restart |-> "button",
   set_schedule |-> "service", clear_schedule |-> "service", ota |-> "service",
   ota_status |-> "text_sensor", buzzer |-> "switch", heap |-> "sensor",
   rain_hold_hours |-> "number", rain_hold |-> "text_sensor", update |-> "update",
   rtc |-> "text_sensor", last_crash |-> "text_sensor", clear_crash |-> "button",
   debug_crash |-> "service", reset_reason |-> "text_sensor", heap_min |-> "sensor"]

KindOf(group) == IF group \in DOMAIN OfRelay THEN OfRelay[group] ELSE OfBoard[group]

Key(group, ch) == <<group, ch>>

Registry(channels) ==
  {Key(g, ch) : g \in DOMAIN OfRelay, ch \in channels} \cup {Key(g, 0) : g \in DOMAIN OfBoard}

-----------------------------------------------------------------------------
(***************************************************************************)
(* main.rs: what is published before the first client may connect.         *)
(***************************************************************************)
Published(group, type) == [group |-> group, type |-> type]

HeapPublished == {Published("heap", "Float"), Published("heap_min", "Float")}

SchedulePublished ==
  {Published("schedule_loaded", "Bool"), Published("schedule_rev", "Float"), Published("schedule_info", "Text")}

RainHoldPublished == {Published("rain_hold", "Text"), Published("rain_hold_hours", "Float")}

PublishAll ==
  {Published(g, "Bool") : g \in {"relay", "tripped", "safe_state", "power_on", "daily_capped", "buzzer"}}
    \cup {Published(g, "Float") : g \in {"max_on", "max_daily", "on_today", "total", "uptime"}}
    \cup {Published(g, "Text") : g \in {"exclusive_set", "mode", "link", "local_time", "reset_reason", "last_crash"}}
    \cup RainHoldPublished \cup HeapPublished \cup SchedulePublished

BootPublished ==
  PublishAll \cup {Published("update", "Update"), Published("rtc", "Text"), Published("ota_status", "Text")}

\* What the main loop publishes when its message is not a command: ticks, the WiFi
\* thread, the download, and the actions of the controller.
OtherPublished ==
  {Published("uptime", "Float"), Published("local_time", "Text"), Published("rtc", "Text"),
   Published("rssi", "Float"), Published("update", "Update"), Published("ota_status", "Text"),
   Published("relay", "Bool"), Published("tripped", "Bool"), Published("link", "Text"),
   Published("on_today", "Float"), Published("total", "Float"), Published("daily_capped", "Bool")}
    \cup HeapPublished \cup RainHoldPublished

-----------------------------------------------------------------------------
(***************************************************************************)
(* session.rs and main.rs: which arm takes a command.  An arm looks at the *)
(* key unless it takes every key; the first of a command's arms that       *)
(* matches wins.  It acts on `sets`, of the channel of the key, and        *)
(* publishes the entities in `shows`.                                      *)
(***************************************************************************)
CommandOf(id) ==
  CASE id = SwitchCommandRequest.id -> "Switch" [] id = NumberCommandRequest.id -> "Number"
    [] id = SelectCommandRequest.id -> "Select" [] id = ButtonCommandRequest.id -> "Button"
    [] id = UpdateCommandRequest.id -> "Update" [] id = ExecuteServiceRequest.id -> "Service"
    [] OTHER -> "none"

\* The arms that ask the key ...
Arm(group, shows) == [keys |-> {group}, sets |-> group, shows |-> shows]

Groups == DOMAIN OfRelay \cup DOMAIN OfBoard

\* ... and the last one of each command, which asks it inside, or does nothing.
LastArm(group, shows) == [keys |-> Groups, sets |-> group, shows |-> shows]

SwitchArms ==
  << Arm("buzzer", {Published("buzzer", "Bool")}),
     Arm("power_on", {Published("power_on", "Bool")}),
     Arm("safe_state", {Published("safe_state", "Bool")}),
     LastArm("relay", {Published("relay", "Bool")}) >>

\* Mutant: the arm that asks the key inside comes before another one.
NumberArmsSwapped ==
  << Arm("rain_hold_hours", RainHoldPublished),
     LastArm("max_on", {Published("max_on", "Float")}),
     Arm("max_daily", {Published("max_daily", "Float"), Published("daily_capped", "Bool")}) >>

NumberArms ==
  << Arm("rain_hold_hours", RainHoldPublished),
     Arm("max_daily", {Published("max_daily", "Float"), Published("daily_capped", "Bool")}),
     LastArm("max_on", {Published("max_on", "Float")}) >>

SelectArms ==
  << Arm("mode", {Published("mode", "Text")}),
     Arm("exclusive_set", {Published("exclusive_set", "Text")}),
     LastArm("nothing", {}) >>

ButtonArms ==
  << Arm("all_off", {}), Arm("clear_crash", {Published("last_crash", "Text")}),
     Arm("restart", {}), LastArm("nothing", {}) >>

ServiceArms ==
  << Arm("set_schedule", SchedulePublished), Arm("clear_schedule", SchedulePublished),
     Arm("ota", {}), Arm("debug_crash", {}), LastArm("nothing", {}) >>

UpdateArms == << Arm("update", {}), LastArm("nothing", {}) >>

ArmsOf(command) ==
  CASE command = "Switch" -> SwitchArms [] command = "Number" -> NumberArms [] command = "Select" -> SelectArms
    [] command = "Button" -> ButtonArms [] command = "Service" -> ServiceArms [] command = "Update" -> UpdateArms

\* The arm for a command that came as a message with this identifier.
ArmFor(id, key) ==
  LET arms == ArmsOf(CommandOf(id))
  IN arms[CHOOSE i \in DOMAIN arms : key[1] \in arms[i].keys /\ \A j \in 1 .. i - 1 : key[1] \notin arms[j].keys]

\* relay_channel and max_on_channel find nothing for the key of another group.
Acts(id, key) == ArmFor(id, key).sets = key[1]
=============================================================================
