----------------------------- MODULE SecurityPanel -----------------------------
(***************************************************************************)
(* One network's C-Bus security panel as the bridge tracks it              *)
(* (src/src/securityPanelState.js, src/src/securityEventHandler.js), with  *)
(* the resync of a Home Assistant that was restarted                       *)
(* (src/src/stateResyncCoordinator.js) and the file the conditions the     *)
(* panel cannot be asked for are kept in across restarts of the bridge.    *)
(*                                                                         *)
(* The panel, the event connection, the broker and Home Assistant are      *)
(* environment.  Broadcasts arrive in order; what is broadcast while the   *)
(* event connection is down is lost.  Topics are not retained (the default *)
(* of retainreads), so a publish that finds the broker or Home Assistant   *)
(* away is lost too.  The panel follows the captures the source quotes: an *)
(* alarm ends in alarm_off and a system_arm, a disarm clears what          *)
(* CLEARED_ON_DISARM lists, and only a panel that is armed starts an entry *)
(* delay.                                                                  *)
(***************************************************************************)
EXTENDS Integers, Sequences, SequencesExt, FiniteSets

CONSTANTS
  Zone,         \* the zones of the panel
  First,        \* those of them status_report_1 covers; report 2 covers the rest
  Condition,    \* the trouble conditions in use
  ArmMode,      \* the arm modes in use, manufacturer sub-modes included
  MaxChanges,   \* bound: changes of the panel and upsets together
  MaxLag,       \* bound: broadcasts that wait while the panel sends another
  MaxUpsets     \* bound: restarts of the bridge or of Home Assistant, losses of the
                \* event connection and "Network sync ok" notifications

PanelCondition == {"mains", "battery", "tamper", "panic", "line", "arm_failed",
                   "fire", "gas", "other_alarm"}

ASSUME ZoneAssumption == IsFiniteSet(Zone) /\ First \subseteq Zone
ASSUME ConditionAssumption == Condition \subseteq PanelCondition
ASSUME ArmModeAssumption == ArmMode \subseteq Nat \ {0}
ASSUME BoundsAssumption == {MaxChanges, MaxLag, MaxUpsets} \subseteq Nat

\* PANEL_CONDITIONS with clearedOnDisarm and clearedOnArm, and the conditions a
\* status report carries.
ClearedOnDisarm == Condition \intersect {"panic", "arm_failed", "fire", "gas", "other_alarm"}
ClearedOnArm    == Condition \intersect {"arm_failed"}
Reported        == Condition \intersect {"tamper", "panic"}
ClearedBy(mode) == IF mode = 0 THEN ClearedOnDisarm ELSE ClearedOnArm

\* null: nothing learned, or nothing to revert to.
Nothing == "none"
NoMode  == -1

\* ALARM_STATE_BY_ARM_MODE and alarmStateForArmMode.
StateForArmMode(mode) ==
  CASE mode = 0 -> "disarmed"
    [] mode = 2 -> "armed_night"
    [] mode = 3 -> "armed_home"
    [] mode = 4 -> "armed_vacation"
    [] OTHER    -> "armed_away"      \* 1, and UNKNOWN_ARM_MODE_STATE

ArmedState == {"armed_away", "armed_night", "armed_home", "armed_vacation"}
AlarmState == ArmedState \union {"disarmed", "arming", "pending", "triggered"}
ZoneState  == {"sealed", "unsealed"}

VARIABLES
  \* environment
  panel,      \* phase, mode, trouble, bypassed zones and zone states of the panel
  wire,       \* broadcasts on the event connection: a reading, and whether the
              \* panel was armed when it sent it
  asked,      \* pairs of status requests on their way to the panel
  ha,         \* Home Assistant is running
  shown,      \* what it shows: the alarm card, the condition sensors, the zone
              \* sensors and their isolated attribute
  \* the bridge
  up,         \* "down", "connecting" (no broker yet), "online" (not all
              \* connected yet), "ready", "dropped" (event connection lost)
  alarm,      \* SecurityPanelState._alarmByNetwork
  cond,       \* _byNetwork: the conditions that are active
  states,     \* _zonesByNetwork.states
  isolated,   \* _zonesByNetwork.isolated
  file,       \* the persisted snapshot of cond and isolated
  slots,      \* SecurityEventHandler._syncState
  announced,  \* the network is in HaDiscovery._securityPanelSeen
  resync,     \* StateResyncCoordinator._pending
  \* history and bounds
  answered,   \* status_report_1 was heard since the panel entered its phase
  missed,     \* a broadcast of this session was not heard, or its publish was lost
  lost,       \* what the last broadcast about it did not reach the bridge
  unseen,     \* conditions whose last publish did not reach Home Assistant
  events,     \* changes of the panel so far
  upsets      \* upsets so far

tracker == <<alarm, cond, states, isolated, announced>>
world   == <<panel, ha>>
count   == <<events, upsets>>
vars == <<panel, wire, asked, ha, shown, up, alarm, cond, states, isolated, file, slots,
          announced, resync, answered, missed, lost, unseen, count>>

NewAlarm == [state |-> Nothing, pre |-> Nothing, blocking |-> Nothing, mode |-> NoMode]
Blank == [card |-> "unknown", lamp |-> [c \in Condition |-> "unknown"],
          zone |-> [z \in Zone |-> "unknown"], attr |-> [z \in Zone |-> "unknown"]]

Init ==
  /\ panel = [phase |-> "idle", mode |-> 0, trouble |-> {}, bypassed |-> {},
              zone |-> [z \in Zone |-> "sealed"]]
  /\ wire = <<>> /\ asked = 0
  /\ ha = TRUE /\ shown = Blank
  /\ up = "down"
  /\ alarm = NewAlarm /\ cond = {} /\ states = [z \in Zone |-> Nothing] /\ isolated = {}
  /\ file = [cond |-> {}, isolated |-> {}]
  /\ slots = {} /\ announced = FALSE /\ resync = FALSE
  /\ answered = FALSE /\ missed = FALSE /\ lost = {} /\ unseen = {}
  /\ events = 0 /\ upsets = 0

Upset == /\ upsets < MaxUpsets /\ events + upsets < MaxChanges
         /\ upsets' = upsets + 1 /\ UNCHANGED events

-----------------------------------------------------------------------------
(* What the bridge publishes, and whether Home Assistant gets it. *)

Delivered == ha /\ up \in {"online", "ready", "dropped"}

\* _publishZoneReading for the zones zs, _publishPanelCondition for the conditions
\* cs and the alarm state if it is to be published, from the tracker as the handler
\* leaves it.
Publish(zs, cs, publishAlarm) ==
  /\ unseen' = IF Delivered THEN unseen \ cs ELSE IF ha THEN unseen \union cs ELSE unseen
  /\ shown' = IF ~Delivered THEN shown ELSE
      [card |-> IF publishAlarm THEN alarm'.state ELSE shown.card,
       lamp |-> [c \in Condition |-> IF c \in cs THEN IF c \in cond' THEN "ON" ELSE "OFF"
                                       ELSE shown.lamp[c]],
       zone |-> [z \in Zone |-> IF z \in zs /\ states'[z] # Nothing THEN states'[z]
                                ELSE shown.zone[z]],
       attr |-> [z \in Zone |-> IF z \in zs THEN IF z \in isolated' THEN "isolated" ELSE "plain"
                                ELSE shown.attr[z]]]

\* _publishPanelChanges: discovery exists once all is connected, and the first
\* announcement seeds every condition (initialStates).
Announces == ~announced /\ up \in {"ready", "dropped"}
ConditionsToPublish(changed) == IF Announces THEN Condition ELSE changed
Persist == file' = [cond |-> cond', isolated |-> isolated']

-----------------------------------------------------------------------------
(* applyAlarmReading: the alarm record after a reading. *)

\* Mutation: arm_ready counts as a disarm from every state.
IsAnything == TRUE
IsIdle == alarm.state \in {Nothing, "disarmed"}

Target(r) ==
  CASE r.kind \in {"system_arm", "status_report_1"} -> StateForArmMode(r.mode)
    [] r.kind = "exit_delay_started"                -> "arming"
    [] r.kind = "entry_delay_started" /\ alarm.state # "triggered" -> "pending"
    [] r.kind \in {"arm_ready", "arm_not_ready"} /\ IsIdle -> "disarmed"
    [] r.kind = "alarm_on"                          -> "triggered"
    [] r.kind = "alarm_off"                         -> alarm.pre
    [] OTHER                                        -> Nothing

PreAlarm(r) ==
  CASE r.kind = "entry_delay_started" /\ alarm.state \in ArmedState -> alarm.state
    [] r.kind = "alarm_on" /\ alarm.state \notin {"triggered", "pending"} -> alarm.state
    [] r.kind = "alarm_off" -> Nothing
    [] OTHER -> alarm.pre

ApplyAlarmReading(r) ==
  alarm' = IF Target(r) = Nothing THEN [alarm EXCEPT !.pre = PreAlarm(r)]
           ELSE [state |-> Target(r), pre |-> PreAlarm(r),
                 blocking |-> IF r.kind = "arm_not_ready" THEN r.zone ELSE Nothing,
                 mode |-> IF r.kind \in {"system_arm", "status_report_1"} THEN r.mode
                          ELSE alarm.mode]
Transition == [alarm' EXCEPT !.pre = alarm.pre] # alarm

Forget == [alarm EXCEPT !.state = Nothing, !.blocking = Nothing]

-----------------------------------------------------------------------------
(* requestStatusSync *)

\* Mutation: a resync uses up the post-sync slot.
SlotOfAny(trigger) == IF trigger \in {"connect", "traffic"} THEN {"early"} ELSE {"postSync"}
SlotOf(trigger) == CASE trigger \in {"connect", "traffic"} -> {"early"}
                     [] trigger = "sync" -> {"postSync"}
                     [] OTHER -> {}
Due(trigger) == SlotOf(trigger) \intersect slots = {}

AskPanel(trigger) ==
  /\ slots' = slots \union SlotOf(trigger)
  /\ asked' = IF Due(trigger) THEN asked + 1 ELSE asked

\* Every trigger but traffic makes the tracker forget what it has published.
RequestStatusSync(trigger) ==
  /\ AskPanel(trigger)
  /\ alarm' = IF Due(trigger) THEN Forget ELSE alarm

-----------------------------------------------------------------------------
(* _clearZoneIsolation: every zone whose isolation ended is published again. *)

\* Mutation: isolation ends without a publish.
EndedUnseen == {}
Ended == isolated \ isolated'

-----------------------------------------------------------------------------
(* handleLine: one action per entry of LINE_KIND_HANDLERS.  Every reading but a
   password entry also asks for a status sync, once a session. *)

Hear(kinds) ==
  /\ wire # <<>> /\ Head(wire).reading.kind \in kinds
  /\ wire' = Tail(wire)
  /\ missed' = (missed \/ up = "connecting")
  /\ UNCHANGED <<world, up, resync, answered, lost, count>>
Reading == Head(wire).reading

HandleZone ==
  /\ Hear({"zone"})
  /\ states' = [states EXCEPT ![Reading.zone] = Reading.to]
  /\ UNCHANGED <<alarm, cond, isolated, announced, file>>
  /\ Publish({Reading.zone}, {}, FALSE)
  /\ AskPanel("traffic")

HandleTrouble ==
  /\ Hear({"panel_trouble"})
  /\ cond' = IF Reading.active THEN cond \union {Reading.condition} ELSE cond \ {Reading.condition}
  /\ announced' = (announced \/ Announces)
  /\ UNCHANGED <<alarm, states, isolated>>
  /\ Publish({}, ConditionsToPublish(SymDiff(cond, cond')), FALSE)
  /\ Persist
  /\ AskPanel("traffic")

HandleSystemArm ==
  /\ Hear({"system_arm"})
  /\ cond' = cond \ ClearedBy(Reading.mode)
  /\ isolated' = IF Reading.mode = 0 THEN {} ELSE isolated
  /\ ApplyAlarmReading(Reading)
  /\ announced' = (announced \/ Announces)
  /\ UNCHANGED states
  /\ Publish(Ended, ConditionsToPublish(cond \ cond'), Transition)
  /\ Persist
  /\ AskPanel("traffic")

HandleZoneIsolated ==
  /\ Hear({"zone_isolated"})
  /\ isolated' = isolated \union {Reading.zone}
  /\ UNCHANGED <<alarm, cond, states, announced>>
  /\ Publish(isolated' \ isolated, {}, FALSE)
  /\ Persist
  /\ AskPanel("traffic")

\* A report that says the panel is disarmed ends every isolation: the zones it does
\* not cover are published from what is remembered of them.
HandleStatusReport ==
  /\ Hear({"status_report_1", "status_report_2"})
  /\ states' = [z \in Zone |-> IF z \in DOMAIN Reading.zones THEN Reading.zones[z] ELSE states[z]]
  /\ IF Reading.kind = "status_report_1"
     THEN /\ isolated' = IF Reading.mode = 0 THEN {} ELSE isolated
          /\ cond' = (cond \ Reported) \union Reading.trouble
          /\ ApplyAlarmReading(Reading)
          /\ announced' = (announced \/ Announces)
          /\ Publish(First \union Ended, ConditionsToPublish(SymDiff(cond, cond')),
                     Transition)
          /\ Persist
     ELSE /\ UNCHANGED <<alarm, cond, isolated, announced, file>>
          /\ Publish(Zone \ First, {}, FALSE)
  /\ AskPanel("traffic")

HandleSystemState ==
  /\ Hear({"exit_delay_started", "entry_delay_started", "arm_ready", "arm_not_ready",
           "alarm_on", "alarm_off"})
  /\ ApplyAlarmReading(Reading)
  /\ UNCHANGED <<cond, states, isolated, announced, file>>
  /\ Publish({}, {}, Transition)
  /\ AskPanel("traffic")

\* _publishPasswordEntry announces the panel without seeding its conditions.
HandlePasswordEntry ==
  /\ Hear({"password_entry"})
  /\ announced' = (announced \/ Announces)
  /\ UNCHANGED <<alarm, cond, states, isolated, file, slots, asked, shown, unseen>>

-----------------------------------------------------------------------------
(* Syncs the bridge starts itself. *)

\* The debounce of requestResync ends: _runResync.
ResyncFires ==
  /\ resync /\ resync' = FALSE
  /\ RequestStatusSync("resync")
  /\ UNCHANGED <<world, wire, shown, unseen, up, cond, states, isolated, file, announced, answered,
                 missed, lost, count>>

\* A 762 on either port.
NetworkSyncComplete ==
  /\ up # "down" /\ Upset
  /\ RequestStatusSync("sync")
  /\ resync' = TRUE
  /\ UNCHANGED <<world, wire, shown, unseen, up, cond, states, isolated, file, announced, answered,
                 missed, lost>>

\* handleAllConnected, at the end of startup and after the event connection is back.
AllConnected ==
  /\ up \in {"online", "dropped"} /\ up' = "ready"
  /\ RequestStatusSync("connect")
  /\ UNCHANGED <<world, wire, shown, unseen, cond, states, isolated, file, announced, resync,
                 answered, missed, lost, count>>

-----------------------------------------------------------------------------
(* The bridge's process and its connections. *)

\* The conditions an arming or disarming ends on the panel.
Ends(mode) == Condition \intersect
  IF mode = 0 THEN {"panic", "arm_failed", "fire", "gas", "other_alarm"} ELSE {"arm_failed"}

\* What a broadcast is about, of the things that cannot be asked for.
About(r) ==
  CASE r.kind = "panel_trouble"   -> {r.condition}
    [] r.kind = "system_arm"      -> Ends(r.mode) \union IF r.mode = 0 THEN {"isolation"} ELSE {}
    [] r.kind = "status_report_1" -> Reported \union IF r.mode = 0 THEN {"isolation"} ELSE {}
    [] r.kind = "zone_isolated"   -> {"isolation"}
    [] OTHER                      -> {}
AboutAll(readings) == UNION {About(r) : r \in readings}
OnWire == {wire[i].reading : i \in DOMAIN wire}

\* Requests still in the bridge's command queue go with it.
Crash ==
  /\ up # "down" /\ Upset
  /\ up' = "down" /\ wire' = <<>>
  /\ lost' = lost \union AboutAll(OnWire)
  /\ asked' \in {asked, 0}
  /\ resync' = FALSE
  /\ UNCHANGED <<world, shown, unseen, tracker, file, slots, answered, missed>>

BridgeStarts ==
  /\ up = "down" /\ up' = "connecting"
  /\ alarm' = NewAlarm /\ states' = [z \in Zone |-> Nothing]
  /\ cond' = file.cond /\ isolated' = file.isolated      \* _loadPanelState
  /\ slots' = {} /\ announced' = FALSE /\ missed' = FALSE
  /\ UNCHANGED <<world, wire, asked, shown, unseen, file, resync, answered, lost, count>>

BrokerConnected ==
  /\ up = "connecting" /\ up' = "online"
  /\ UNCHANGED <<world, wire, asked, shown, unseen, tracker, file, slots, resync, answered, missed,
                 lost, count>>

EventConnectionLost ==
  /\ up = "ready" /\ Upset
  /\ up' = "dropped" /\ wire' = <<>>
  /\ lost' = lost \union AboutAll(OnWire)
  /\ missed' = (missed \/ wire # <<>>)
  /\ UNCHANGED <<world, asked, shown, unseen, tracker, file, slots, resync, answered>>

\* Home Assistant drops the state of every entity when it stops; its birth message
\* is heard by a bridge that has subscribed.
HaStops ==
  /\ ha /\ Upset
  /\ ha' = FALSE /\ shown' = Blank /\ unseen' = {}
  /\ UNCHANGED <<panel, wire, asked, up, tracker, file, slots, resync, answered, missed, lost>>
HaStarts ==
  /\ ~ha /\ ha' = TRUE
  /\ resync' = (resync \/ up \in {"online", "ready", "dropped"})
  /\ UNCHANGED <<panel, wire, asked, shown, unseen, up, tracker, file, slots, answered, missed, lost,
                 count>>
bridge == <<asked, ha, shown, unseen, up, tracker, file, slots, resync>>

-----------------------------------------------------------------------------
(* The panel. *)

Heard == up \notin {"down", "dropped"}
Settles(r) == IF r.kind = "zone_isolated" THEN {} ELSE About(r)

Send(readings) ==
  LET new  == {readings[i] : i \in DOMAIN readings}
      sent == [i \in DOMAIN readings |-> [reading |-> readings[i], armed |-> panel'.mode # 0]]
  IN /\ wire' = IF Heard THEN wire \o sent ELSE wire
     /\ missed' = (missed \/ up = "dropped")
     /\ lost' = IF Heard THEN lost \ UNION {Settles(r) : r \in new}
                ELSE lost \union AboutAll(new)

Broadcast(readings) ==
  /\ events + upsets < MaxChanges /\ events' = events + 1
  /\ Len(wire) <= MaxLag
  /\ Send(readings)
  /\ answered' = (answered /\ panel'.phase = panel.phase)
  /\ UNCHANGED <<bridge, upsets>>

Verb(kind) == [kind |-> kind]
SystemArm(mode) == [kind |-> "system_arm", mode |-> mode]

ZoneMoves ==
  \E z \in Zone :
    LET to == IF panel.zone[z] = "sealed" THEN "unsealed" ELSE "sealed"
    IN /\ panel' = [panel EXCEPT !.zone[z] = to]
       /\ Broadcast(<<[kind |-> "zone", zone |-> z, to |-> to]>>)

TroubleChanges ==
  \E c \in Condition :
    /\ panel' = [panel EXCEPT !.trouble = SymDiff(@, {c})]
    /\ Broadcast(<<[kind |-> "panel_trouble", condition |-> c, active |-> c \notin panel.trouble]>>)

ArmingStarts ==
  /\ panel.phase = "idle"
  /\ panel' = [panel EXCEPT !.phase = "exit"]
  /\ Broadcast(<<Verb("exit_delay_started")>>)

\* The open zones of a panel that arms all the same are bypassed.
Armed ==
  \E mode \in ArmMode :
    LET open == {z \in Zone : panel.zone[z] = "unsealed"}
        isolations == [i \in 1..Cardinality(open) |->
                         [kind |-> "zone_isolated", zone |-> SetToSeq(open)[i]]]
    IN /\ panel.phase \in {"idle", "exit"}
       /\ panel' = [panel EXCEPT !.phase = "armed", !.mode = mode, !.bypassed = open,
                                 !.trouble = @ \ Ends(mode)]
       /\ Broadcast(<<SystemArm(mode)>> \o isolations)

\* Sent while arming and by an armed panel as well as by one that is ready.
ArmReady ==
  /\ panel.phase \in {"idle", "exit", "armed"} /\ UNCHANGED panel
  /\ Broadcast(<<Verb("arm_ready")>>)

ArmRefused ==
  \E z \in Zone :
    /\ panel.phase = "idle" /\ panel.zone[z] = "unsealed" /\ UNCHANGED panel
    /\ Broadcast(<<[kind |-> "arm_not_ready", zone |-> z]>>)

EntryDelay ==
  /\ panel.phase = "armed"
  /\ panel' = [panel EXCEPT !.phase = "entry"]
  /\ Broadcast(<<Verb("entry_delay_started")>>)

SirenStarts ==
  /\ panel.phase # "alarm"
  /\ panel' = [panel EXCEPT !.phase = "alarm"]
  /\ Broadcast(<<Verb("alarm_on")>>)

\* The siren of an armed panel times out.
SirenStops ==
  /\ panel.phase = "alarm" /\ panel.mode # 0
  /\ panel' = [panel EXCEPT !.phase = "armed", !.trouble = @ \ Ends(panel.mode)]
  /\ Broadcast(<<Verb("alarm_off"), SystemArm(panel.mode)>>)

Disarmed ==
  /\ panel.phase # "idle"
  /\ panel' = [panel EXCEPT !.phase = "idle", !.mode = 0, !.bypassed = {},
                            !.trouble = @ \ Ends(0)]
  /\ Broadcast((IF panel.phase = "alarm" THEN <<Verb("alarm_off")>> ELSE <<>>) \o <<SystemArm(0)>>)

CodeEntered ==
  /\ UNCHANGED panel
  /\ Broadcast(<<Verb("password_entry")>>)

\* The answers to a pair of status requests, on the event connection.
Report1 == [kind |-> "status_report_1", mode |-> panel.mode,
            trouble |-> panel.trouble \intersect Reported,
            zones |-> [z \in First |-> panel.zone[z]]]
Report2 == [kind |-> "status_report_2", zones |-> [z \in Zone \ First |-> panel.zone[z]]]

Answer ==
  /\ asked > 0 /\ asked' = asked - 1
  /\ Len(wire) <= MaxLag
  /\ UNCHANGED panel /\ Send(<<Report1, Report2>>)
  /\ answered' = (answered \/ Heard)
  /\ UNCHANGED <<ha, shown, unseen, up, tracker, file, slots, resync, count>>

Handle == \/ HandleZone \/ HandleTrouble \/ HandleSystemArm \/ HandleZoneIsolated
          \/ HandleStatusReport \/ HandleSystemState \/ HandlePasswordEntry
Panel  == \/ ZoneMoves \/ TroubleChanges \/ ArmingStarts \/ Armed \/ ArmReady \/ ArmRefused
          \/ EntryDelay \/ SirenStarts \/ SirenStops \/ Disarmed \/ CodeEntered

Next == \/ Handle \/ ResyncFires \/ NetworkSyncComplete \/ AllConnected
        \/ Crash \/ BridgeStarts \/ BrokerConnected \/ EventConnectionLost
        \/ HaStops \/ HaStarts \/ Panel \/ Answer

Spec == Init /\ [][Next]_vars

\* What has been received is handled, timers fire, the panel answers, and what went
\* away comes back.
Fairness == /\ WF_vars(Handle) /\ WF_vars(ResyncFires) /\ WF_vars(AllConnected)
            /\ WF_vars(BridgeStarts) /\ WF_vars(BrokerConnected) /\ WF_vars(HaStarts)
            /\ WF_vars(Answer)
FairSpec == Spec /\ Fairness

-----------------------------------------------------------------------------
Phase == {"idle", "exit", "armed", "entry", "alarm"}

TypeOK ==
  /\ panel.phase \in Phase /\ panel.mode \in ArmMode \union {0}
  /\ panel.trouble \subseteq Condition /\ panel.bypassed \subseteq Zone
  /\ panel.zone \in [Zone -> ZoneState]
  /\ asked \in Nat /\ ha \in BOOLEAN
  /\ shown.card \in AlarmState \union {"unknown"}
  /\ shown.lamp \in [Condition -> {"ON", "OFF", "unknown"}]
  /\ shown.zone \in [Zone -> ZoneState \union {"unknown"}]
  /\ shown.attr \in [Zone -> {"isolated", "plain", "unknown"}]
  /\ up \in {"down", "connecting", "online", "ready", "dropped"}
  /\ alarm.state \in AlarmState \union {Nothing} /\ alarm.pre \in AlarmState \union {Nothing}
  /\ cond \subseteq Condition /\ isolated \subseteq Zone
  /\ states \in [Zone -> ZoneState \union {Nothing}]
  /\ file.cond \subseteq Condition /\ file.isolated \subseteq Zone
  /\ slots \subseteq {"early", "postSync"} /\ announced \in BOOLEAN /\ resync \in BOOLEAN
  /\ answered \in BOOLEAN /\ missed \in BOOLEAN /\ lost \subseteq Condition \union {"isolation"} /\ unseen \subseteq Condition

\* Everything sent has been heard and handled, by a bridge that missed nothing.
AtRest == /\ up = "ready" /\ ha /\ ~missed /\ ~resync
          /\ wire = <<>> /\ asked = 0

PhaseCard == CASE panel.phase = "exit"  -> "arming"
               [] panel.phase = "entry" -> "pending"
               [] panel.phase = "alarm" -> "triggered"
               [] OTHER                 -> StateForArmMode(panel.mode)

\* At rest the alarm card shows the phase the panel is in, or, where a status report
\* was heard since that phase began, the arm mode the report carries: after restarts
\* of the bridge and of Home Assistant alike (requestStatusSync, forgetAlarmState and
\* the transitions of applyAlarmReading).
CardAgrees ==
  AtRest => \/ shown.card = PhaseCard
            \/ answered /\ shown.card = StateForArmMode(panel.mode)

\* Every zone sensor shows the state of its zone and the isolation the tracker
\* knows, also where the isolation ended with a report that did not cover the zone
\* (_clearZoneIsolation, zonesPublishedSeparately).
ZonesShown == \A z \in Zone : /\ shown.zone[z] = panel.zone[z]
                              /\ shown.attr[z] = "isolated" <=> z \in isolated

\* A condition sensor shows what the tracker knows, or nothing at all, unless the
\* change was published while the bridge had no broker.
LampsShown == \A c \in Condition \ unseen :
                shown.lamp[c] \in {"unknown", IF c \in cond THEN "ON" ELSE "OFF"}

\* At rest no sensor is wrong, whatever was restarted (securityEventHandler.js:330-348,
\* 566-588).
SensorsAgree == AtRest => ZonesShown /\ LampsShown

\* A disarmed panel has no isolated zone, whatever was not heard of its disarming;
\* and where nothing about isolation was lost the tracker knows the zones the panel
\* bypasses (toJSON, restore, armState 0).
IsolationTracked == /\ panel.mode = 0 => isolated = {}
                    /\ "isolation" \notin lost => isolated = panel.bypassed

\* Each condition is what its last broadcast, or the arming or disarming that ended
\* it, made it: for tamper and panic also when that broadcast was lost (applyReading
\* and seedFromStatusReport).
TroubleTracked == \A c \in Condition \ lost : c \in cond <=> c \in panel.trouble

\* At rest the tracker is right about what it cannot ask for, also when the bridge was
\* restarted since (securityEventHandler.js:197-222).
TrackerAgrees == AtRest => IsolationTracked /\ TroubleTracked

\* At rest the card, the sensors and the tracker are right: the three parts of what a
\* panel is known by (securityPanelState.js:280-514, securityEventHandler.js:161-345).
PanelAgrees == TypeOK /\ CardAgrees /\ SensorsAgree /\ TrackerAgrees

\* A broadcast of an armed panel turns the card to disarmed.
Reassured == /\ wire # <<>> /\ wire' = Tail(wire) /\ Head(wire).armed /\ ~missed
             /\ shown'.card = "disarmed" /\ shown.card # "disarmed"

\* The card is told that an armed panel is disarmed only where a report or a
\* system_arm that corrects it is on its way (isIdleAlarmState, preAlarmState, and
\* the syncs that make the tracker forget).
ReassuranceCorrected ==
  [][ Reassured => \/ asked' > 0
                   \/ \E i \in DOMAIN wire' :
                        wire'[i].reading.kind \in {"system_arm", "status_report_1"} ]_vars

\* A card that is blank after a restart is filled again (the syncs of startup and of
\* the resync coordinator, with the transition forgetAlarmState makes of the answer).
CardFilled == []<>(missed \/ shown.card # "unknown")

\* securityPanelState.js: arm_ready "may only seed or restore the idle state, never
\* downgrade one".  A broadcast an armed panel sent never turns the card to disarmed
\* once the tracker has been told an arm mode (forgetAlarmState keeps armMode).
NeverDowngraded == [][ Reassured => alarm.mode \in {NoMode, 0} ]_vars
=============================================================================
