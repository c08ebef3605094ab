----------------------------- MODULE AirconControl -----------------------------
(***************************************************************************)
(* Control of the native C-Bus thermostats of one ward: the climate        *)
(* commands of Home Assistant (src/src/mqttCommandRouter.js), the state    *)
(* learned from the thermostats (src/src/airconControlRegistry.js) and     *)
(* the broadcasts it is learned from (src/src/airconEventHandler.js).      *)
(*                                                                         *)
(* Commands reach the ward and broadcasts come back in order, each after   *)
(* any delay.  Levels are in degrees, the code's divided by 256.  The      *)
(* thermostats of a ward differ in their zone list, so the unit stands for *)
(* ward, zones and unit; the refused requests, which only log, are the     *)
(* requests an action's guard excludes.                                    *)
(***************************************************************************)
EXTENDS Integers, Sequences, SequencesExt, FiniteSets

CONSTANTS
  Unit,      \* the thermostats of the ward
  OnMode,    \* the HVAC modes in use
  Asked,     \* the setpoints Home Assistant asks for
  Dialled,   \* the targets dialled in at a thermostat, implausible ones included
  Speed,     \* fan speeds in use, 0 the default speed
  MaxAsks,   \* bound: requests of Home Assistant
  MaxTurns   \* bound: changes made at the thermostats

Off     == 0
Heat    == 1
FanOnly == 4

FanLevel     == 127   \* FAN_LEVEL_SENTINEL
MaxLevel     == 50    \* 12800
DefaultLevel == 21    \* DEFAULT_SETPOINT_C
NoLevel      == 0     \* nothing learned, and the level of an off broadcast

Plant   == 3          \* the plant type the thermostats report while running
AnyType == 255        \* the plant type of an off broadcast
NoType  == 0          \* nothing learned: written as 0

\* Nothing shown, or asked for, yet.
NoMode  == -1

ASSUME UnitAssumption == IsFiniteSet(Unit) /\ Unit # {}
ASSUME OnModeAssumption == {Heat} \subseteq OnMode /\ OnMode \subseteq 1..4
ASSUME LevelsAssumption == Asked \subseteq Int /\ Dialled \subseteq 1..FanLevel /\ Dialled # {}
ASSUME SpeedAssumption == Speed \subseteq 0..63 /\ 0 \in Speed
ASSUME BoundsAssumption == MaxAsks \in Nat /\ MaxTurns \in Nat

Mode == {Off} \union OnMode
Aux  == [cont : BOOLEAN, speed : Speed]   \* Aux Level: bit 6 and bits 0-5
DefaultAux == [cont |-> FALSE, speed |-> 0]

VARIABLES
  therm,      \* environment: mode, level, raw, useaux and aux of each thermostat
  wire,       \* commands queued or on their way to the ward
  air,        \* broadcasts on their way back
  registry,   \* AirconControlRegistry._byUnit
  timer,      \* _airconSetpointTimers: the setpoint to send, or NoLevel
  refreshed,  \* the ward is in _refreshedWards
  shown,      \* the read topics mode, setpoint and fan_mode of each unit
  wish,       \* history: the last mode and the last request accepted for each unit
  hist,       \* history: the last temperature target broadcast in each mode
  asks, turns \* counters of the bounds

bus  == <<therm, wire, air, hist>>
vars == <<bus, registry, timer, refreshed, shown, wish, asks, turns>>

-----------------------------------------------------------------------------
(* The broadcasts of a thermostat, as airconDecoder decodes them *)

ModeReading(u, t) ==
  IF t.mode = Off
  THEN [kind |-> "mode", unit |-> u, mode |-> Off, raw |-> FALSE, level |-> NoLevel,
        type |-> AnyType, useaux |-> t.useaux, aux |-> t.aux]
  ELSE [kind |-> "mode", unit |-> u, mode |-> t.mode, raw |-> t.raw, level |-> t.level,
        type |-> Plant, useaux |-> t.useaux, aux |-> t.aux]

TemperatureReading(u) == [kind |-> "temperature", unit |-> u]

\* The thermostats of S broadcast their modes, in any order, from the states T.
Broadcast(S, T) ==
  /\ \E order \in SetToSeqs(S) :
        air' = air \o [i \in DOMAIN order |-> ModeReading(order[i], T[order[i]])]
  /\ hist' = [u \in Unit |->
                IF u \in S /\ T[u].mode # Off /\ ~T[u].raw
                THEN [hist[u] EXCEPT ![T[u].mode] = T[u].level] ELSE hist[u]]

-----------------------------------------------------------------------------
(* Learning *)

\* The reading carries a temperature target: no off sentinel and no raw level.
HasTarget(r) == r.mode # Off /\ ~r.raw /\ r.level > 0

LearnType(prev, r) == IF r.mode # Off THEN r.type ELSE prev.type

\* Mutation: the targets of the other modes are not carried over.
LearnOneMode(prev, r) ==
  IF HasTarget(r) THEN [m \in OnMode |-> IF m = r.mode THEN r.level ELSE NoLevel]
                  ELSE prev.byMode

LearnByMode(prev, r) ==
  IF HasTarget(r) THEN [prev.byMode EXCEPT ![r.mode] = r.level] ELSE prev.byMode

\* recordModeReading.
RecordModeReading(r) ==
  registry' = [registry EXCEPT ![r.unit] =
    [known |-> TRUE, mode |-> r.mode,
     type |-> LearnType(@, r),
     level |-> IF HasTarget(r) THEN r.level ELSE @.level,
     byMode |-> LearnByMode(@, r),
     useaux |-> r.useaux, aux |-> r.aux]]

\* publishReading of a mode reading; an implausible setpoint is not published.
PublishReading(r) ==
  shown' = [shown EXCEPT ![r.unit] =
    [mode |-> r.mode,
     level |-> IF ~r.raw /\ r.level \in 1..MaxLevel THEN r.level ELSE @.level,
     cont |-> r.aux.cont]]

\* Mutation: only a mode reading asks for the refresh.
MaybeRefreshWardOnMode(r) ==
  IF refreshed \/ r.kind # "mode" THEN UNCHANGED <<refreshed, wire>>
  ELSE refreshed' = TRUE /\ wire' = Append(wire, [verb |-> "REFRESH"])

\* _maybeRefreshWard: the first broadcast heard asks the ward for its full state.
MaybeRefreshWard(r) ==
  IF refreshed THEN UNCHANGED <<refreshed, wire>>
  ELSE refreshed' = TRUE /\ wire' = Append(wire, [verb |-> "REFRESH"])

\* handleLine.
HandleLine ==
  /\ air # <<>>
  /\ LET r == Head(air)
     IN  /\ IF r.kind = "mode" THEN RecordModeReading(r) /\ PublishReading(r)
                               ELSE UNCHANGED <<registry, shown>>
         /\ MaybeRefreshWard(r)
  /\ air' = Tail(air)
  /\ UNCHANGED <<therm, hist, timer, wish, asks, turns>>

-----------------------------------------------------------------------------
(* Commands *)

Clamp(c) == IF c < 10 THEN 10 ELSE IF c > 32 THEN 32 ELSE c

\* _airconLevelForModeRaw.
LevelForMode(s, m) ==
  IF m = FanOnly THEN [raw |-> TRUE, level |-> FanLevel]
  ELSE [raw |-> FALSE,
        level |-> IF s.byMode[m] \in 1..MaxLevel THEN s.byMode[m]
                  ELSE IF s.level \in 1..MaxLevel THEN s.level
                  ELSE DefaultLevel]

\* _airconFlagEcho.
FlagEcho(s) == [useaux |-> s.useaux, aux |-> IF s.useaux THEN s.aux ELSE DefaultAux]

\* buildSetZoneHvacMode; origin, the handler that built it, is for the properties.
SetZoneHvacMode(u, m, lv, flags, origin) ==
  [verb |-> "SET_ZONE_HVAC_MODE", unit |-> u, mode |-> m, raw |-> lv.raw, level |-> lv.level,
   type |-> registry[u].type, useaux |-> flags.useaux, aux |-> flags.aux, origin |-> origin]

SetWardOff(u) == [verb |-> "SET_WARD_OFF", unit |-> u]

\* The running mode a setpoint or fan write keeps.
KeptMode(s) == IF s.mode # Off THEN s.mode ELSE Heat

\* Mutation: a mode change leaves the pending setpoint alone.
KeepPendingSetpoint(u) == timer' = timer

\* _cancelPendingAirconSetpoint.
CancelPendingSetpoint(u) == timer' = [timer EXCEPT ![u] = NoLevel]

\* Mutation: one timer for the ward, not one per thermostat.
DebounceByWard(u, c) == timer' = [v \in Unit |-> IF v = u THEN c ELSE NoLevel]

\* _debounceAirconSetpoint.
DebounceSetpoint(u, c) == timer' = [timer EXCEPT ![u] = c]

\* Home Assistant asks something of unit u that the learned state allows.
Ask(u) == registry[u].known /\ asks < MaxAsks /\ asks' = asks + 1

\* _handleNativeAirconSetpoint.
HandleSetpoint(u, c) ==
  /\ Ask(u) /\ registry[u].mode # Off
  /\ shown' = [shown EXCEPT ![u].level = Clamp(c)]
  /\ DebounceSetpoint(u, Clamp(c))
  /\ wish' = [wish EXCEPT ![u].last = "setpoint", ![u].level = Clamp(c)]
  /\ UNCHANGED <<bus, registry, refreshed, turns>>

\* The debounce timer: _sendAirconSetpoint and noteSetpointWrite.
SendSetpoint(u) ==
  /\ timer[u] # NoLevel
  /\ LET s == registry[u]
         m == KeptMode(s)
         lv == [raw |-> FALSE, level |-> timer[u]]
     IN  /\ wire' = Append(wire, SetZoneHvacMode(u, m, lv, FlagEcho(s), "setpoint"))
         /\ registry' = [registry EXCEPT ![u].level = timer[u], ![u].byMode[m] = timer[u]]
  /\ timer' = [timer EXCEPT ![u] = NoLevel]
  /\ UNCHANGED <<therm, air, hist, refreshed, shown, wish, asks, turns>>

\* _handleNativeAirconMode, 'off'.  The command names the ward: the other
\* thermostats lose what was asked of them.
HandleModeOff(u) ==
  /\ Ask(u)
  /\ CancelPendingSetpoint(u)
  /\ wire' = Append(wire, SetWardOff(u))
  /\ shown' = [shown EXCEPT ![u].mode = Off]
  /\ wish' = [v \in Unit |-> IF v = u THEN [wish[u] EXCEPT !.last = "mode", !.mode = Off]
                                      ELSE [wish[v] EXCEPT !.last = "none", !.mode = NoMode]]
  /\ UNCHANGED <<therm, air, hist, registry, refreshed, turns>>

\* _handleNativeAirconMode, any other mode.
HandleModeOn(u, m) ==
  /\ Ask(u)
  /\ CancelPendingSetpoint(u)
  /\ wire' = Append(wire, SetZoneHvacMode(u, m, LevelForMode(registry[u], m),
                                          FlagEcho(registry[u]), "mode"))
  /\ shown' = [shown EXCEPT ![u].mode = m]
  /\ wish' = [wish EXCEPT ![u].last = "mode", ![u].mode = m]
  /\ UNCHANGED <<therm, air, hist, registry, refreshed, turns>>

\* The flags of a fan write: 'continuous' sets bit 6 and keeps the learned speed.
FanFlags(s, continuous) ==
  IF continuous THEN [useaux |-> TRUE, aux |-> [cont |-> TRUE, speed |-> s.aux.speed]]
                ELSE [useaux |-> FALSE, aux |-> DefaultAux]

\* _handleNativeAirconFanMode and noteAuxLevelWrite.
HandleFanMode(u, continuous) ==
  /\ Ask(u) /\ registry[u].mode # Off
  /\ LET s == registry[u]
         flags == FanFlags(s, continuous)
     IN  /\ wire' = Append(wire, SetZoneHvacMode(u, s.mode, LevelForMode(s, s.mode), flags, "fan"))
         /\ registry' = [registry EXCEPT ![u].useaux = flags.useaux,
                                         ![u].aux = IF continuous THEN flags.aux ELSE s.aux]
  /\ CancelPendingSetpoint(u)
  /\ shown' = [shown EXCEPT ![u].cont = continuous]
  /\ wish' = [wish EXCEPT ![u].last = "fan", ![u].cont = continuous]
  /\ UNCHANGED <<therm, air, hist, refreshed, turns>>

-----------------------------------------------------------------------------
(* Environment: the thermostats carry out commands and echo them *)

\* A plant type of "Any" does not drive a plant.
Obey(c) ==
  IF c.type = AnyType THEN therm
  ELSE [therm EXCEPT ![c.unit] =
          [mode |-> c.mode, level |-> c.level, raw |-> c.raw, useaux |-> c.useaux, aux |-> c.aux]]

Execute ==
  /\ wire # <<>>
  /\ LET c == Head(wire)
     IN  therm' = CASE c.verb = "SET_ZONE_HVAC_MODE" -> Obey(c)
                    [] c.verb = "SET_WARD_OFF" -> [u \in Unit |-> [therm[u] EXCEPT !.mode = Off]]
                    [] c.verb = "REFRESH" -> therm
  /\ Broadcast(IF Head(wire).verb = "SET_ZONE_HVAC_MODE" THEN {Head(wire).unit} ELSE Unit, therm')
  /\ wire' = Tail(wire)
  /\ UNCHANGED <<registry, timer, refreshed, shown, wish, asks, turns>>

\* Someone turns a dial at thermostat u; what was asked of it no longer counts.
Turn(u, t) ==
  /\ turns < MaxTurns /\ turns' = turns + 1
  /\ t # therm[u]
  /\ therm' = [therm EXCEPT ![u] = t]
  /\ Broadcast({u}, therm')
  /\ wish' = [wish EXCEPT ![u].last = "none", ![u].mode = NoMode]
  /\ UNCHANGED <<wire, registry, timer, refreshed, shown, asks>>

\* The settings of a thermostat that runs in mode m with the target l.
Running(t, m, l) ==
  IF m = FanOnly THEN [t EXCEPT !.mode = m, !.raw = TRUE, !.level = FanLevel]
                 ELSE [t EXCEPT !.mode = m, !.raw = FALSE, !.level = l]

TurnMode(u)  == \E m \in OnMode, l \in Dialled : Turn(u, Running(therm[u], m, l))
TurnOff(u)   == Turn(u, [therm[u] EXCEPT !.mode = Off])
TurnSpeed(u) == \E s \in Speed : Turn(u, [therm[u] EXCEPT !.useaux = TRUE, !.aux.speed = s])

\* A thermostat reports the temperature of its zone.
ReportTemperature(u) ==
  /\ turns < MaxTurns /\ turns' = turns + 1
  /\ air' = Append(air, TemperatureReading(u))
  /\ UNCHANGED <<therm, wire, hist, registry, timer, refreshed, shown, wish, asks>>

-----------------------------------------------------------------------------
(* Specification *)

Start(m, l) ==
  Running([mode |-> Off, level |-> l, raw |-> FALSE, useaux |-> TRUE, aux |-> DefaultAux], m, l)

\* An implausible target is dialled in later.
Init ==
  /\ \E l \in {d \in Dialled : d <= MaxLevel} :
        therm \in [Unit -> {Start(Off, l), Start(Heat, l)}]
  /\ wire = <<>> /\ air = <<>>
  /\ registry = [u \in Unit |->
       [known |-> FALSE, mode |-> Off, type |-> NoType, level |-> NoLevel,
        byMode |-> [m \in OnMode |-> NoLevel], useaux |-> TRUE, aux |-> DefaultAux]]
  /\ timer = [u \in Unit |-> NoLevel]
  /\ refreshed = FALSE
  /\ shown = [u \in Unit |-> [mode |-> NoMode, level |-> NoLevel, cont |-> FALSE]]
  /\ wish = [u \in Unit |-> [last |-> "none", mode |-> NoMode, level |-> NoLevel, cont |-> FALSE]]
  /\ hist = [u \in Unit |-> [m \in OnMode |-> NoLevel]]
  /\ asks = 0 /\ turns = 0

Next ==
  \/ HandleLine
  \/ Execute
  \/ \E u \in Unit :
       \/ \E c \in Asked : HandleSetpoint(u, c)
       \/ SendSetpoint(u)
       \/ HandleModeOff(u)
       \/ \E m \in OnMode : HandleModeOn(u, m)
       \/ \E continuous \in BOOLEAN : HandleFanMode(u, continuous)
       \/ TurnMode(u)
       \/ TurnOff(u)
       \/ TurnSpeed(u)
       \/ ReportTemperature(u)

Spec == Init /\ [][Next]_vars

\* Queued commands are sent, broadcasts arrive and timers fire.
FairSpec ==
  Spec /\ WF_vars(HandleLine) /\ WF_vars(Execute) /\ \A u \in Unit : WF_vars(SendSetpoint(u))

-----------------------------------------------------------------------------
(* Properties *)

Level == 0..FanLevel
Types == {NoType, Plant, AnyType}

Command ==
  [verb : {"SET_ZONE_HVAC_MODE"}, unit : Unit, mode : OnMode, raw : BOOLEAN, level : Level,
   type : Types, useaux : BOOLEAN, aux : Aux, origin : {"setpoint", "mode", "fan"}]
  \union [verb : {"SET_WARD_OFF"}, unit : Unit] \union [verb : {"REFRESH"}]

Reading ==
  [kind : {"mode"}, unit : Unit, mode : Mode, raw : BOOLEAN, level : Level,
   type : Types, useaux : BOOLEAN, aux : Aux]
  \union [kind : {"temperature"}, unit : Unit]

\* Every variable has its type; in particular an off broadcast never leaves "Any" as the
\* learned plant type, and a timer never holds a target outside the clamp.
TypeOK ==
  /\ therm \in [Unit -> [mode : Mode, level : Level, raw : BOOLEAN, useaux : BOOLEAN, aux : Aux]]
  /\ wire \in Seq(Command) /\ air \in Seq(Reading)
  /\ registry \in [Unit -> [known : BOOLEAN, mode : Mode, type : {NoType, Plant}, level : Level,
                            byMode : [OnMode -> Level], useaux : BOOLEAN, aux : Aux]]
  /\ timer \in [Unit -> {NoLevel} \union 10..32]
  /\ refreshed \in BOOLEAN
  /\ shown \in [Unit -> [mode : Mode \union {NoMode}, level : Level, cont : BOOLEAN]]
  /\ wish \in [Unit -> [last : {"none", "mode", "setpoint", "fan"}, mode : Mode \union {NoMode},
                        level : Level, cont : BOOLEAN]]
  /\ hist \in [Unit -> [OnMode -> Level]]
  /\ asks \in 0..MaxAsks /\ turns \in 0..MaxTurns

\* Nothing is queued, on its way or waiting for its timer.
Settled == wire = <<>> /\ air = <<>> /\ \A u \in Unit : timer[u] = NoLevel

Fulfils(t, w) ==
  CASE w.last = "none" -> TRUE
    [] w.last = "mode" -> t.mode = w.mode
    [] w.last = "setpoint" -> t.mode # Off /\ ~t.raw /\ t.level = w.level
    [] w.last = "fan" -> t.aux.cont = w.cont

\* The latest explicit action wins: once everything has settled, the last thing asked of a
\* thermostat is what it does, however the request raced a debounced setpoint, other
\* requests and the echoes, unless somebody has been at the thermostat or switched the
\* ward off since.
LatestRequestWins == Settled => \A u \in Unit : Fulfils(therm[u], wish[u])

\* Optimistic publishing never leaves the climate card wrong: once everything has settled it
\* shows the mode, fan mode and plausible target of the thermostat, whatever requests were
\* refused or overtaken.
CardAgrees ==
  Settled => \A u \in Unit : registry[u].known =>
    /\ shown[u].mode = therm[u].mode
    /\ shown[u].cont = therm[u].aux.cont
    /\ therm[u].mode # Off /\ ~therm[u].raw /\ therm[u].level <= MaxLevel
         => shown[u].level = therm[u].level

\* What a mode change will recall is right: once everything has settled the registry holds
\* the thermostat's mode and, for each mode, the target the thermostat last had in it.
LearnedAgrees ==
  Settled => \A u \in Unit : registry[u].known =>
    /\ registry[u].mode = therm[u].mode
    /\ \A m \in OnMode : hist[u][m] # NoLevel => registry[u].byMode[m] = hist[u][m]

\* No thermostat is ever sent a temperature outside (0, 50], though a sentinel, a raw fan
\* level or an implausible target may have been broadcast.
NoImplausibleTarget ==
  \A i \in DOMAIN wire :
    wire[i].verb = "SET_ZONE_HVAC_MODE" /\ ~wire[i].raw => wire[i].level \in 1..MaxLevel

\* At rest the card and the registry are right, and at no time has a thermostat been
\* sent what is not a temperature (airconControlRegistry.js, mqttCommandRouter.js:1187-1404).
ViewsAgree == TypeOK /\ CardAgrees /\ LearnedAgrees /\ NoImplausibleTarget

\* Once anything has been heard of the ward every thermostat of it can be controlled, those
\* that have not changed since the bridge started included.
WardLearned == air # <<>> ~> \A u \in Unit : registry[u].known

\* Every request is carried out eventually unless another request or a hand at the
\* thermostat replaces it first.
RequestServed ==
  \A u \in Unit : \A w \in [last : {"setpoint"}, level : {Clamp(c) : c \in Asked}] :
    wish[u].last = w.last /\ wish[u].level = w.level
      ~> (Fulfils(therm[u], w) \/ wish[u].last # w.last \/ wish[u].level # w.level)

-----------------------------------------------------------------------------
(* What the documents say and the code does not *)

\* mqttCommandRouter.js:1193: adjusting a target must never power a unit up, least of all
\* one the registry knows to be off.
NeverPoweredUpBySetpoint ==
  [][\A u \in Unit : SendSetpoint(u) => registry[u].mode # Off]_vars
=============================================================================
