------------------------------ MODULE Messages ------------------------------
(***************************************************************************)
(* The messages of the native API that the board sends or reads            *)
(* (esphome/src/proto/api.rs and ids.rs): for each its identifier and the  *)
(* names of its fields.  Their tags and types, and with them the encoding, *)
(* are left to the protobuf library that the structures are derived with.  *)
(***************************************************************************)
Message(id, fields) == [id |-> id, fields |-> fields]

-----------------------------------------------------------------------------
(***************************************************************************)
(* The connection.                                                         *)
(***************************************************************************)
HelloRequest == Message(1, {"client_info", "api_version_major", "api_version_minor"})
HelloResponse == Message(2, {"api_version_major", "api_version_minor", "server_info", "name"})
AuthenticationRequest == Message(3, {"password"})
DisconnectRequest == Message(5, {"reason"})
DisconnectResponse == Message(6, {})
PingRequest == Message(7, {})
PingResponse == Message(8, {})
DeviceInfoRequest == Message(9, {})
DeviceInfoResponse == Message(10,
  {"uses_password", "name", "mac_address", "esphome_version", "compilation_time", "model",
   "has_deep_sleep", "project_name", "project_version", "webserver_port",
   "legacy_bluetooth_proxy_version", "manufacturer", "friendly_name",
   "legacy_voice_assistant_version", "bluetooth_proxy_feature_flags", "suggested_area",
   "voice_assistant_feature_flags", "bluetooth_mac_address", "api_encryption_supported",
   "devices", "areas", "area", "zwave_proxy_feature_flags", "zwave_home_id", "serial_proxies",
   "api_encryption_provisionable"})
DeviceCapabilitiesRequest == Message(149, {})
DeviceCapabilitiesResponse == Message(150,
  {"bluetooth_proxy", "voice_assistant", "zwave_proxy", "serial_proxies"})
ListEntitiesRequest == Message(11, {})
ListEntitiesDoneResponse == Message(19, {})
SubscribeStatesRequest == Message(20, {})
SubscribeLogsRequest == Message(28, {"level", "dump_config"})
SubscribeLogsResponse == Message(29, {"level", "message"})
GetTimeRequest == Message(36, {})
GetTimeResponse == Message(37, {"epoch_seconds", "timezone", "parsed_timezone"})

-----------------------------------------------------------------------------
(***************************************************************************)
(* Entities: listing, state and command of each kind.                      *)
(***************************************************************************)
Named == {"object_id", "key", "name"}
WithIcon == Named \cup {"icon"}
Stateful == {"key", "state", "missing_state", "device_id"}

ListEntitiesBinarySensorResponse == Message(12, Named \cup
  {"device_class", "is_status_binary_sensor", "disabled_by_default", "icon", "entity_category",
   "device_id"})
BinarySensorStateResponse == Message(21, Stateful)
ListEntitiesSensorResponse == Message(16, WithIcon \cup
  {"unit_of_measurement", "accuracy_decimals", "force_update", "device_class", "state_class",
   "legacy_last_reset_type", "disabled_by_default", "entity_category", "device_id"})
SensorStateResponse == Message(25, Stateful)
ListEntitiesSwitchResponse == Message(17, WithIcon \cup
  {"assumed_state", "disabled_by_default", "entity_category", "device_class", "device_id"})
SwitchStateResponse == Message(26, {"key", "state", "device_id"})
SwitchCommandRequest == Message(33, {"key", "state", "device_id"})
ListEntitiesTextSensorResponse == Message(18, WithIcon \cup
  {"disabled_by_default", "entity_category", "device_class", "device_id"})
TextSensorStateResponse == Message(27, Stateful)
ListEntitiesServicesArgument == Message(0, {"name", "type", "description", "example"})
ListEntitiesServicesResponse == Message(41,
  {"name", "key", "args", "supports_response", "description"})
ExecuteServiceArgument == Message(0,
  {"bool", "legacy_int", "float", "string", "int", "bool_array", "int_array", "float_array",
   "string_array"})
ExecuteServiceRequest == Message(42, {"key", "args", "call_id", "return_response"})
ListEntitiesNumberResponse == Message(49, WithIcon \cup
  {"min_value", "max_value", "step", "disabled_by_default", "entity_category",
   "unit_of_measurement", "mode", "device_class", "device_id"})
NumberStateResponse == Message(50, Stateful)
NumberCommandRequest == Message(51, {"key", "state", "device_id"})
ListEntitiesSelectResponse == Message(52, WithIcon \cup
  {"options", "disabled_by_default", "entity_category", "device_id"})
SelectStateResponse == Message(53, Stateful)
SelectCommandRequest == Message(54, {"key", "state", "device_id"})
ListEntitiesButtonResponse == Message(61, WithIcon \cup
  {"disabled_by_default", "entity_category", "device_class", "device_id"})
ButtonCommandRequest == Message(62, {"key", "device_id"})
ListEntitiesUpdateResponse == Message(116, WithIcon \cup
  {"disabled_by_default", "entity_category", "device_class", "device_id"})
UpdateStateResponse == Message(117,
  {"key", "missing_state", "in_progress", "has_progress", "progress", "current_version",
   "latest_version", "title", "release_summary", "release_url", "device_id"})
UpdateCommandRequest == Message(118, {"key", "command", "device_id"})

Requests ==
  {HelloRequest, AuthenticationRequest, DisconnectRequest, DisconnectResponse, PingRequest,
   PingResponse, DeviceInfoRequest, DeviceCapabilitiesRequest, ListEntitiesRequest,
   SubscribeStatesRequest, SubscribeLogsRequest, GetTimeRequest, GetTimeResponse,
   SwitchCommandRequest, NumberCommandRequest, SelectCommandRequest, ButtonCommandRequest,
   UpdateCommandRequest, ExecuteServiceRequest}

Responses ==
  {HelloResponse, DisconnectResponse, PingRequest, PingResponse, DeviceInfoResponse,
   DeviceCapabilitiesResponse, ListEntitiesDoneResponse, SubscribeLogsResponse, GetTimeRequest,
   GetTimeResponse, ListEntitiesBinarySensorResponse, BinarySensorStateResponse,
   ListEntitiesSensorResponse, SensorStateResponse, ListEntitiesSwitchResponse,
   SwitchStateResponse, ListEntitiesTextSensorResponse, TextSensorStateResponse,
   ListEntitiesServicesResponse, ListEntitiesNumberResponse, NumberStateResponse,
   ListEntitiesSelectResponse, SelectStateResponse, ListEntitiesButtonResponse,
   ListEntitiesUpdateResponse, UpdateStateResponse}

Messages == Requests \cup Responses
=============================================================================
