----------------------------- MODULE EventTopics -----------------------------
(***************************************************************************)
(* What an event of the bus publishes: the topics and payloads, in order   *)
(* (src/src/eventPublisher.js).  Constant operators only.  The readings of *)
(* the security application are in SecurityPanel.                          *)
(*                                                                         *)
(* An event is a reading of a decoder,                                     *)
(*   [kind |-> ..., fields |-> the fields the decoder could tell],         *)
(* or a group's event,                                                     *)
(*   [kind |-> "group", role, level, action, source]                       *)
(* where role is what settings and overrides make of the group, and the    *)
(* action is on, off or ramp.                                              *)
(***************************************************************************)
EXTENDS Integers, Sequences

CONSTANT None    \* no level, no source unit

Pub(topic, payload) == <<[topic |-> topic, payload |-> payload]>>
When(c, pubs)       == IF c THEN pubs ELSE <<>>
OnOff(b)            == IF b THEN "ON" ELSE "OFF"

\* A field the reading does not carry publishes nothing: its topic is retained.
Carried(r, f, topic) == When(f \in DOMAIN r, Pub(topic, r[f]))
Flag(r, f)           == When(f \in DOMAIN r, Pub(f, OnOff(r[f])))

-----------------------------------------------------------------------------
(* Readings *)

TemperatureReading(r) ==
  Carried(r, "celsius", "current_temperature") \o Carried(r, "sensorStatus", "sensor_status")
    \o When("sensorStatus" \in DOMAIN r, Pub("sensor_problem", OnOff(r.sensorStatus >= 2)))

ModeReading(r) ==
  Carried(r, "mode", "mode") \o Carried(r, "setpoint", "setpoint")
    \o Carried(r, "fanMode", "fan_mode") \o Carried(r, "fanSpeed", "fan_speed")
    \o Carried(r, "fanSpeedPercent", "fan_speed_percent") \o Carried(r, "comfortLevel", "comfort_level")

PlantProblem(r) ==
  ("error" \in DOMAIN r /\ r.error) \/ ("errorCode" \in DOMAIN r /\ r.errorCode > 0)

ActionReading(r) ==
  Pub("action", r.action) \o Flag(r, "damper") \o Flag(r, "busy") \o Flag(r, "expansion")
    \o Carried(r, "type", "plant_type") \o Carried(r, "type", "plant_type_description")
    \o Carried(r, "errorCode", "error") \o Carried(r, "errorCode", "error_description")
    \o When(DOMAIN r \cap {"error", "errorCode"} # {}, Pub("problem", OnOff(PlantProblem(r))))

HumidityReading(r) == Carried(r, "humidity", "current_humidity")

HumidityModeReading(r) ==
  Carried(r, "mode", "humidity_mode") \o Carried(r, "humiditySetpoint", "humidity_setpoint")

ClockReading(r) == Pub(r.variant, r.value)

MeasurementReading(r) == Pub("value", r.value) \o Pub("unit", IF "unit" \in DOMAIN r THEN r.unit ELSE "")

\* publishReading: a kind without a handler publishes nothing.
Reading(kind, r) ==
  CASE kind = "temperature"     -> TemperatureReading(r)
    [] kind = "mode"            -> ModeReading(r)
    [] kind = "state"           -> Pub("state", OnOff(r.on))
    [] kind = "action"          -> ActionReading(r)
    [] kind = "humidity"        -> HumidityReading(r)
    [] kind = "humidity_mode"   -> HumidityModeReading(r)
    [] kind = "humidity_action" -> Pub("humidity_action", r.action)
    [] kind = "clock"           -> ClockReading(r)
    [] kind = "measurement"     -> MeasurementReading(r)
    [] OTHER                    -> <<>>

-----------------------------------------------------------------------------
(* Events of groups *)

\* Math.round(level / 255 * 100): level 1 is 0 %.
Percent(level) == (200 * level + 255) \div 510
TurnsOn(e)      == e.action = "on"
LevelPercent(e) == IF e.level # None THEN Percent(e.level) ELSE IF TurnsOn(e) THEN 100 ELSE 0

\* A motion sensor is on by the action, everything else by the raw level, if any.
IsOn(e) == IF e.role = "pir" \/ e.level = None THEN TurnsOn(e) ELSE e.level > 0

\* Lighting, cover and motion: state; level except for motion; position for a cover.
\* Mutation: the position is left as it was.
StatusWithoutPosition(e) ==
  Pub("state", OnOff(IsOn(e))) \o When(e.role # "pir", Pub("level", LevelPercent(e)))
    \o When(e.role = "cover" /\ e.level = None, Pub("position", LevelPercent(e)))
StatusEvent(e) ==
  Pub("state", OnOff(IsOn(e)))
    \o When(e.role # "pir", Pub("level", LevelPercent(e)))
    \o When(e.role = "cover", Pub("position", LevelPercent(e)))

\* The level is a temperature in half degrees, and both measured and set.
HvacEvent(e) ==
  When(e.level # None, Pub("current_temperature", e.level) \o Pub("setpoint", e.level))
    \o Pub("mode", IF e.action = "off" THEN "off" ELSE "auto")

TiltEvent(e) == Pub("tilt", LevelPercent(e))

\* publishEvent, but for a trigger: its event is not retained.
Publications(e) ==
  IF e.kind # "group" THEN Reading(e.kind, e.fields)
  ELSE When(e.source # None, Pub("source_unit", e.source))
         \o (CASE e.role = "trigger" -> <<>>
               [] e.role = "hvac"    -> HvacEvent(e)
               [] e.role = "tilt"    -> TiltEvent(e)
               [] OTHER              -> StatusEvent(e))

-----------------------------------------------------------------------------
(* What events can be of one address *)

\* An event whose level is shown, and one whose state is: of a group, or of a zone.
ShowsLevel(e) == e.kind = "group" /\ e.role \notin {"trigger", "hvac", "tilt", "pir"}
ShowsState(e) == e.kind = "state" \/ ShowsLevel(e) \/ (e.kind = "group" /\ e.role = "pir")

\* What the parsers make of a level and of the clock.
IsEvent(e) ==
  /\ e.kind = "group" => e.level = None \/ e.level \in Int
  /\ e.kind = "clock" => e.fields.variant \in {"date", "time"}

\* Events of one address: where one shows a level, every one that shows a state does,
\* and it is a cover or it is not.
OneAddress(events) ==
  \A e, f \in events :
    ShowsLevel(e) /\ ShowsState(f) => ShowsLevel(f) /\ (e.role = "cover" <=> f.role = "cover")
=============================================================================
