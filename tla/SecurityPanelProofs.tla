-------------------------- MODULE SecurityPanelProofs --------------------------
(***************************************************************************)
(* Proofs about the security panel, for any zones, conditions and arm      *)
(* modes, any number of changes, restarts and losses of the event          *)
(* connection, and any delay of broadcasts.                                *)
(*                                                                         *)
(* The invariant says of each thing that is known about the panel (the     *)
(* state of the alarm, a zone, a condition, an isolation): of the          *)
(* broadcasts still on the event connection that tell of it, the newest    *)
(* one tells what is; when there is none, the tracker and Home Assistant   *)
(* know it, unless a status request that will tell it is on its way or a   *)
(* broadcast was lost.  SequenceLemmas says how the newest one changes.    *)
(***************************************************************************)
EXTENDS SecurityPanel, SequenceLemmas

-----------------------------------------------------------------------------
(* What is on the event connection *)

Mode == ArmMode \union {0}

\* A reading whose kind says it all, and the others.
PlainReading    == [kind : {"exit_delay_started", "entry_delay_started", "arm_ready",
                            "alarm_on", "alarm_off", "password_entry"}]
ZoneReading     == [kind : {"zone"}, zone : Zone, to : ZoneState]
TroubleReading  == [kind : {"panel_trouble"}, condition : Condition, active : BOOLEAN]
ArmReading      == [kind : {"system_arm"}, mode : Mode]
NotReadyReading == [kind : {"arm_not_ready"}, zone : Zone]
IsolatedReading == [kind : {"zone_isolated"}, zone : Zone]
FirstReading    == [kind : {"status_report_1"}, mode : Mode, trouble : SUBSET Reported,
                    zones : [First -> ZoneState]]
SecondReading   == [kind : {"status_report_2"}, zones : [Zone \ First -> ZoneState]]

AnyReading == UNION {PlainReading, ZoneReading, TroubleReading, ArmReading, NotReadyReading,
                     IsolatedReading, FirstReading, SecondReading}

\* A broadcast; an armed panel does not tell that it is disarmed.
Telling == {"system_arm", "status_report_1"}
Message ==
  {m \in [reading : AnyReading, armed : BOOLEAN] :
     m.armed /\ m.reading.kind \in Telling => m.reading.mode # 0}

OfKinds(kinds) == {m \in Message : m.reading.kind \in kinds}

\* What settles the state of the alarm, and the state it says; right is what says the
\* phase the panel is in, and a report since it entered that phase.
Setters == OfKinds({"exit_delay_started", "entry_delay_started", "alarm_on", "system_arm",
                    "status_report_1"})
Says(r) == CASE r.kind = "exit_delay_started"  -> "arming"
             [] r.kind = "entry_delay_started" -> "pending"
             [] r.kind = "alarm_on"            -> "triggered"
             [] OTHER                          -> StateForArmMode(r.mode)
RightSetters == {m \in Setters : \/ Says(m.reading) = PhaseCard
                                 \/ /\ m.reading.kind = "status_report_1" /\ answered
                                    /\ m.reading.mode = panel.mode}

\* What tells an arm mode.
Modes == OfKinds(Telling)
RightModes == {m \in Modes : m.reading.mode = panel.mode}

\* What tells of zone z, and says what it is.
ZoneNews(z) ==
  {m \in Message : \/ m.reading.kind = "zone" /\ m.reading.zone = z
                   \/ m.reading.kind = "status_report_1" /\ z \in First
                   \/ m.reading.kind = "status_report_2" /\ z \notin First}
Said(r, z) == IF r.kind = "zone" THEN r.to ELSE r.zones[z]
RightZones(z) ==
  {m \in ZoneNews(z) : Said(m.reading, z) = panel.zone[z]}

\* What tells of condition c, and says what it is.
TroubleNews(c) == {m \in Message : c \in About(m.reading)}
Active(r, c) == CASE r.kind = "panel_trouble"   -> r.active
                  [] r.kind = "status_report_1" -> c \in r.trouble
                  [] OTHER                      -> FALSE
RightTroubles(c) == {m \in TroubleNews(c) : Active(m.reading, c) <=> c \in panel.trouble}

\* What isolates zone z, and what ends every isolation.
Isolating(z) == {m \in OfKinds({"zone_isolated"}) : m.reading.zone = z}
Clears(r)    == r.kind \in Telling /\ r.mode = 0
Clearing     == {m \in Message : Clears(m.reading)}
IsolationNews(z) == Isolating(z) \union Clearing
RightIsolations(z) == IF z \in panel.bypassed THEN Isolating(z) ELSE Clearing

-----------------------------------------------------------------------------
(* The invariant *)

PanelType ==
  /\ panel \in [phase : Phase, mode : Mode, trouble : SUBSET Condition, bypassed : SUBSET Zone,
                zone : [Zone -> ZoneState]]
  /\ answered \in BOOLEAN /\ ha \in BOOLEAN /\ asked \in Nat

WireType ==
  /\ wire \in Seq(Message)
  /\ up \in {"down", "connecting", "online", "ready", "dropped"}
  /\ up \in {"down", "dropped"} => wire = <<>>
  /\ missed \in BOOLEAN /\ lost \subseteq Condition \union {"isolation"}

ShownType ==
  /\ shown \in [card : AlarmState \union {"unknown"},
                lamp : [Condition -> {"ON", "OFF", "unknown"}],
                zone : [Zone -> ZoneState \union {"unknown"}],
                attr : [Zone -> {"isolated", "plain", "unknown"}]]
  /\ ~ha => shown = Blank
  /\ unseen \subseteq Condition

AlarmType == alarm \in [state : AlarmState \union {Nothing}, pre : AlarmState \union {Nothing},
                        blocking : Zone \union {Nothing}, mode : Mode \union {NoMode}]

TrackerType ==
  /\ AlarmType /\ alarm.pre # "triggered"
  /\ cond \subseteq Condition /\ isolated \subseteq Zone
  /\ states \in [Zone -> ZoneState \union {Nothing}]
  /\ file = [cond |-> cond, isolated |-> isolated]
  /\ slots \subseteq {"early", "postSync"} /\ announced \in BOOLEAN /\ resync \in BOOLEAN

PanelSound ==
  /\ panel.phase \in {"idle", "exit"} => panel.mode = 0
  /\ panel.phase \in {"armed", "entry"} => panel.mode # 0
  /\ panel.mode = 0 => panel.bypassed = {}

\* The broadcasts of a session of the bridge have all been heard; and the status the
\* session asked for has come.
Steady  == ~missed /\ up # "down"
Settled == Steady /\ "early" \in slots /\ asked = 0

SessionSound ==
  /\ up = "ready" => "early" \in slots
  /\ up = "connecting" /\ ~missed => "early" \notin slots /\ alarm.state = Nothing

TroubleRight == \A c \in Condition \ lost :
  /\ Newest(TroubleNews(c), wire, RightTroubles(c))
  /\ Absent(TroubleNews(c), wire) => (c \in cond <=> c \in panel.trouble)

IsolationRight == "isolation" \notin lost => \A z \in Zone :
  /\ Newest(IsolationNews(z), wire, RightIsolations(z))
  /\ Absent(IsolationNews(z), wire) => (z \in isolated <=> z \in panel.bypassed)

IsolationEnds == Settled /\ panel.mode = 0 => \A z \in Zone :
  /\ Newest(IsolationNews(z), wire, Clearing)
  /\ Absent(IsolationNews(z), wire) => z \notin isolated

ZonesRight == \A z \in Zone :
  /\ Newest(ZoneNews(z), wire, RightZones(z))
  /\ Steady /\ Absent(ZoneNews(z), wire) =>
       /\ states[z] \in {Nothing, panel.zone[z]}
       /\ Settled /\ ~resync /\ ha => /\ shown.zone[z] = panel.zone[z]
                                      /\ shown.attr[z] = "isolated" <=> z \in isolated

CardRight ==
  /\ Newest(Setters, wire, RightSetters)
  /\ Settled /\ Absent(Setters, wire) =>
       \/ alarm.state = PhaseCard
       \/ answered /\ alarm.state = StateForArmMode(panel.mode)
  /\ Steady /\ ha /\ ~resync /\ alarm.state # Nothing => shown.card = alarm.state

\* An alarm that is over was followed by an arming or a disarming.
AlarmEnds ==
  /\ Newest(OfKinds({"alarm_off", "system_arm"}), wire, OfKinds({"system_arm"}))
  /\ panel.phase # "alarm" =>
       /\ Newest(OfKinds({"alarm_on", "system_arm"}), wire, OfKinds({"system_arm"}))
       /\ Steady /\ Absent(OfKinds({"alarm_on", "system_arm"}), wire) => alarm.state # "triggered"

\* The arm mode the tracker will know.
ModeRight ==
  /\ Newest(Modes, wire, RightModes)
  /\ panel.mode = 0 => Newest({m \in Message : m.armed} \union OfKinds({"system_arm"}), wire,
                              OfKinds({"system_arm"}))
  /\ Settled /\ panel.mode # 0 /\ Absent(Modes, wire) => alarm.state \notin {Nothing, "disarmed"}

Typed == PanelType /\ WireType /\ ShownType /\ TrackerType

SecInv == /\ Typed
          /\ PanelSound /\ SessionSound /\ LampsShown /\ TroubleRight /\ IsolationRight
          /\ IsolationEnds /\ ZonesRight /\ CardRight /\ AlarmEnds /\ ModeRight

-----------------------------------------------------------------------------
(* Readings *)

Kind == {"exit_delay_started", "entry_delay_started", "arm_ready", "alarm_on", "alarm_off",
         "password_entry", "zone", "panel_trouble", "system_arm", "arm_not_ready",
         "zone_isolated", "status_report_1", "status_report_2"}

\* What a reading of each kind carries.
LEMMA ReadingFields ==
  \A r \in AnyReading :
    /\ r.kind \in Kind
    /\ r.kind = "zone" => r.zone \in Zone /\ r.to \in ZoneState
    /\ r.kind = "panel_trouble" => r.condition \in Condition /\ r.active \in BOOLEAN
    /\ r.kind \in {"arm_not_ready", "zone_isolated"} => r.zone \in Zone
    /\ r.kind \in Telling => r.mode \in Mode
    /\ r.kind = "status_report_1" => r.trouble \subseteq Reported /\ r.zones \in [First -> ZoneState]
    /\ r.kind = "status_report_2" => r.zones \in [Zone \ First -> ZoneState]
<1> TAKE r \in AnyReading
<1>1. CASE r \in PlainReading
  BY <1>1 DEF PlainReading, Kind, Telling
<1>2. CASE r \in ZoneReading
  BY <1>2 DEF ZoneReading, Kind, Telling
<1>3. CASE r \in TroubleReading
  BY <1>3 DEF TroubleReading, Kind, Telling
<1>4. CASE r \in ArmReading
  BY <1>4 DEF ArmReading, Kind, Telling
<1>5. CASE r \in NotReadyReading
  BY <1>5 DEF NotReadyReading, Kind, Telling
<1>6. CASE r \in IsolatedReading
  BY <1>6 DEF IsolatedReading, Kind, Telling
<1>7. CASE r \in FirstReading
  BY <1>7 DEF FirstReading, Kind, Telling
<1>8. CASE r \in SecondReading
  BY <1>8 DEF SecondReading, Kind, Telling
<1>9. QED
  BY <1>1, <1>2, <1>3, <1>4, <1>5, <1>6, <1>7, <1>8 DEF AnyReading

\* The readings there are.
LEMMA ReadingsOf ==
  /\ \A k \in {"exit_delay_started", "entry_delay_started", "arm_ready", "alarm_on", "alarm_off",
               "password_entry"} : [kind |-> k] \in AnyReading
  /\ \A z \in Zone : \A to \in ZoneState : [kind |-> "zone", zone |-> z, to |-> to] \in AnyReading
  /\ \A c \in Condition : \A b \in BOOLEAN :
       [kind |-> "panel_trouble", condition |-> c, active |-> b] \in AnyReading
  /\ \A m \in Mode : [kind |-> "system_arm", mode |-> m] \in AnyReading
  /\ \A z \in Zone : /\ [kind |-> "arm_not_ready", zone |-> z] \in AnyReading
                     /\ [kind |-> "zone_isolated", zone |-> z] \in AnyReading
<1>1. UNION {PlainReading, ZoneReading, TroubleReading, ArmReading, NotReadyReading, IsolatedReading}
        \subseteq AnyReading
  BY DEF AnyReading
<1>2. \A k \in {"exit_delay_started", "entry_delay_started", "arm_ready", "alarm_on", "alarm_off",
               "password_entry"} : [kind |-> k] \in AnyReading
  BY <1>1 DEF PlainReading
<1>3. \A z \in Zone : \A to \in ZoneState : [kind |-> "zone", zone |-> z, to |-> to] \in AnyReading
  BY <1>1 DEF ZoneReading
<1>4. \A c \in Condition : \A b \in BOOLEAN :
        [kind |-> "panel_trouble", condition |-> c, active |-> b] \in AnyReading
  BY <1>1 DEF TroubleReading
<1>5. \A m \in Mode : [kind |-> "system_arm", mode |-> m] \in AnyReading
  BY <1>1 DEF ArmReading
<1>6. \A z \in Zone : /\ [kind |-> "arm_not_ready", zone |-> z] \in AnyReading
                      /\ [kind |-> "zone_isolated", zone |-> z] \in AnyReading
  BY <1>1 DEF NotReadyReading, IsolatedReading
<1>7. QED
  BY <1>2, <1>3, <1>4, <1>5, <1>6

\* What a message carries,
LEMMA MessageFields ==
  \A m \in Message : /\ m.reading \in AnyReading /\ m.armed \in BOOLEAN
                     /\ m.armed /\ m.reading.kind \in Telling => m.reading.mode # 0
BY DEF Message

\* and how one is made.
LEMMA MessageOf ==
  ASSUME NEW r \in AnyReading, NEW b \in BOOLEAN, b /\ r.kind \in Telling => r.mode # 0
  PROVE  /\ [reading |-> r, armed |-> b] \in Message
         /\ [reading |-> r, armed |-> b].reading = r /\ [reading |-> r, armed |-> b].armed = b
BY DEF Message

\* Which messages tell of what, by the kind of their readings.
LEMMA NewsByKind ==
  ASSUME NEW m \in Message
  PROVE  /\ \A kinds : m \in OfKinds(kinds) <=> m.reading.kind \in kinds
         /\ m \in Setters <=> m.reading.kind \in {"exit_delay_started", "entry_delay_started",
                                                  "alarm_on", "system_arm", "status_report_1"}
         /\ m \in Modes <=> m.reading.kind \in Telling
         /\ m \in Clearing <=> Clears(m.reading)
         /\ \A z : m \in ZoneNews(z) <=>
              \/ m.reading.kind = "zone" /\ m.reading.zone = z
              \/ m.reading.kind = "status_report_1" /\ z \in First
              \/ m.reading.kind = "status_report_2" /\ z \notin First
         /\ \A c : m \in TroubleNews(c) <=> c \in About(m.reading)
         /\ \A z : m \in Isolating(z) <=> m.reading.kind = "zone_isolated" /\ m.reading.zone = z
         /\ \A z : m \in IsolationNews(z) <=> m \in Isolating(z) \/ m \in Clearing
BY DEF OfKinds, Setters, Modes, Clearing, ZoneNews, TroubleNews, Isolating, IsolationNews

\* Which of them are right.
LEMMA RightByKind ==
  /\ \A m : m \in RightSetters <=>
       /\ m \in Setters
       /\ \/ Says(m.reading) = PhaseCard
          \/ m.reading.kind = "status_report_1" /\ answered /\ m.reading.mode = panel.mode
  /\ \A m : m \in RightModes <=> m \in Modes /\ m.reading.mode = panel.mode
  /\ \A z, m : m \in RightZones(z) <=> m \in ZoneNews(z) /\ Said(m.reading, z) = panel.zone[z]
  /\ \A c, m : m \in RightTroubles(c) <=>
       m \in TroubleNews(c) /\ (Active(m.reading, c) <=> c \in panel.trouble)
  /\ \A z, m : m \in RightIsolations(z) <=> m \in (IF z \in panel.bypassed THEN Isolating(z) ELSE Clearing)
BY DEF RightSetters, RightModes, RightZones, RightTroubles, RightIsolations

\* The messages that will be right, by what they say.
LEMMA RightByKindNext ==
  /\ \A m : m \in RightSetters' <=>
       /\ m \in Setters
       /\ \/ Says(m.reading) = PhaseCard'
          \/ m.reading.kind = "status_report_1" /\ answered' /\ m.reading.mode = panel'.mode
  /\ \A m : m \in RightModes' <=> m \in Modes /\ m.reading.mode = panel'.mode
  /\ \A z, m : m \in RightZones(z)' <=> m \in ZoneNews(z) /\ Said(m.reading, z) = panel'.zone[z]
  /\ \A c, m : m \in RightTroubles(c)' <=>
       m \in TroubleNews(c) /\ (Active(m.reading, c) <=> c \in panel'.trouble)
  /\ \A z, m : m \in RightIsolations(z)' <=> m \in (IF z \in panel'.bypassed THEN Isolating(z) ELSE Clearing)
BY DEF RightSetters, RightModes, RightZones, RightTroubles, RightIsolations

\* What a reading is about.
LEMMA AboutByKind ==
  \A r \in AnyReading :
    /\ r.kind = "panel_trouble" => About(r) = {r.condition}
    /\ r.kind = "system_arm" =>
         About(r) = Ends(r.mode) \union (IF r.mode = 0 THEN {"isolation"} ELSE {})
    /\ r.kind = "status_report_1" =>
         About(r) = Reported \union (IF r.mode = 0 THEN {"isolation"} ELSE {})
    /\ r.kind = "zone_isolated" => About(r) = {"isolation"}
    /\ r.kind \notin {"panel_trouble", "system_arm", "status_report_1", "zone_isolated"} =>
         About(r) = {}
BY DEF About

\* An isolation is no condition of the panel.
LEMMA NotACondition == "isolation" \notin Condition
BY ConditionAssumption DEF PanelCondition

\* The readings about isolations.
LEMMA Isolation ==
  \A r \in AnyReading :
    /\ "isolation" \in About(r) <=> Clears(r) \/ r.kind = "zone_isolated"
    /\ About(r) \subseteq Condition \union {"isolation"}
<1> TAKE r \in AnyReading
<1>1. /\ \A mode : Ends(mode) \subseteq Condition
      /\ Reported \subseteq Condition
  BY DEF Ends, Reported
<1>2. r.kind = "panel_trouble" => r.condition \in Condition
  BY ReadingFields
<1>3. QED
  BY <1>1, <1>2, NotACondition, AboutByKind DEF Clears, Telling

\* The states an arm mode and a phase stand for.
LEMMA ArmModes ==
  \A mode : /\ StateForArmMode(mode) \in ArmedState \union {"disarmed"}
            /\ StateForArmMode(mode) = "disarmed" <=> mode = 0
BY DEF StateForArmMode, ArmedState

-----------------------------------------------------------------------------
(* Handling a broadcast *)

\* What handling the broadcast m does: to the status requests, to what the tracker knows,
\* and to what Home Assistant shows.
Asks(m) ==
  IF m.reading.kind = "password_entry" THEN UNCHANGED <<slots, asked>>
  ELSE /\ slots' = slots \union {"early"}
       /\ asked' = IF "early" \in slots THEN asked ELSE asked + 1

KnowsTroubles(m) == \A c \in Condition :
  c \in cond' <=> IF m \in TroubleNews(c) THEN Active(m.reading, c) ELSE c \in cond

KnowsIsolations(m) == \A z \in Zone :
  z \in isolated' <=> IF m \in IsolationNews(z) THEN m \in Isolating(z) ELSE z \in isolated

KnowsZones(m) == \A z \in Zone :
  states'[z] = IF m \in ZoneNews(z) THEN Said(m.reading, z) ELSE states[z]

Unheard(m) == m.reading.kind = "entry_delay_started" /\ alarm.state = "triggered"
KnowsAlarm(m) ==
  /\ m \in Setters /\ ~Unheard(m) => alarm'.state = Says(m.reading)
  /\ m \notin Setters \/ Unheard(m) =>
       \/ alarm'.state = alarm.state
       \/ m.reading.kind = "alarm_off" /\ alarm'.state # "triggered"
       \/ /\ m.reading.kind \in {"arm_ready", "arm_not_ready"}
          /\ alarm.state = Nothing /\ alarm'.state = "disarmed"

ShowsAlarm == /\ shown'.card \in {shown.card, alarm'.state}
              /\ alarm'.state # alarm.state => shown'.card = alarm'.state

ShowsZones(m) == \A z \in Zone :
  /\ \/ shown'.zone[z] = shown.zone[z]
     \/ states'[z] # Nothing /\ shown'.zone[z] = states'[z]
  /\ \/ shown'.attr[z] = "isolated" <=> z \in isolated'
     \/ shown'.attr[z] = shown.attr[z] /\ (z \in isolated' <=> z \in isolated)
  /\ m \in ZoneNews(z) => /\ shown'.zone[z] = states'[z]
                          /\ shown'.attr[z] = "isolated" <=> z \in isolated'

Taken(m) ==
  /\ m \in Message /\ m = Head(wire) /\ wire # <<>> /\ wire' = Tail(wire)
  /\ up \notin {"down", "dropped"}
  /\ UNCHANGED <<panel, ha, up, resync, answered, lost>>
  /\ missed' = (missed \/ up = "connecting")

Effect(m) ==
  /\ Taken(m) /\ Asks(m)
  /\ KnowsTroubles(m) /\ KnowsIsolations(m) /\ KnowsZones(m) /\ KnowsAlarm(m)
  /\ IF Delivered THEN ShowsAlarm /\ ShowsZones(m) ELSE shown' = shown
  /\ LampsShown'

\* Hearing takes the front of the connection.
LEMMA HearsOne ==
  ASSUME WireType, NEW kinds, Hear(kinds), NEW m, m = Head(wire)
  PROVE  Taken(m) /\ m.reading = Reading /\ m.reading.kind \in kinds /\ WireType'
<1>1. wire \in Seq(Message) /\ wire # <<>> /\ up \notin {"down", "dropped"}
  BY DEF WireType, Hear
<1>2. Head(wire) \in Message /\ Tail(wire) \in Seq(Message)
  BY <1>1
<1>3. /\ wire' = Tail(wire) /\ UNCHANGED <<panel, ha, up, resync, answered, lost>>
      /\ missed' = (missed \/ up = "connecting") /\ Head(wire).reading.kind \in kinds
  BY DEF Hear, world, count
<1>4. WireType'
  BY <1>1, <1>2, <1>3 DEF WireType
<1>5. QED
  BY <1>1, <1>2, <1>3, <1>4 DEF Reading, Taken

\* What is published.
LEMMA Publishes ==
  ASSUME ShownType, TrackerType', UNCHANGED ha,
         NEW zs, NEW cs \in SUBSET Condition, NEW pa \in BOOLEAN, Publish(zs, cs, pa),
         pa => alarm'.state # Nothing,
         LampsShown, \A c \in Condition \ cs : c \in cond' <=> c \in cond
  PROVE  /\ ShownType' /\ LampsShown'
         /\ ~Delivered => shown' = shown
         /\ Delivered =>
              /\ shown'.card = IF pa THEN alarm'.state ELSE shown.card
              /\ \A z \in Zone :
                   /\ shown'.zone[z] = IF z \in zs /\ states'[z] # Nothing THEN states'[z]
                                       ELSE shown.zone[z]
                   /\ shown'.attr[z] = IF z \in zs THEN IF z \in isolated' THEN "isolated" ELSE "plain"
                                       ELSE shown.attr[z]
<1>0. /\ cond' \subseteq Condition /\ states' \in [Zone -> ZoneState \union {Nothing}]
      /\ alarm'.state \in AlarmState \union {Nothing}
  BY DEF TrackerType, AlarmType
<1>1. CASE ~Delivered
  <2>1. shown' = shown
    BY <1>1 DEF Publish
  <2>2. unseen' = IF ha THEN unseen \union cs ELSE unseen
    BY <1>1 DEF Publish
  <2>3. ShownType'
    BY <2>1, <2>2 DEF ShownType, Blank
  <2>4. LampsShown'
    <3> SUFFICES ASSUME NEW c \in Condition \ unseen'
                 PROVE  shown'.lamp[c] \in {"unknown", IF c \in cond' THEN "ON" ELSE "OFF"}
      BY DEF LampsShown
    <3>1. CASE ha
      BY <2>1, <2>2, <3>1 DEF LampsShown
    <3>2. CASE ~ha
      BY <2>1, <3>2 DEF ShownType, Blank
    <3>3. QED
      BY <3>1, <3>2
  <2>5. QED
    BY <1>1, <2>1, <2>3, <2>4
<1>2. CASE Delivered
  <2>1. unseen' = unseen \ cs
    BY <1>2 DEF Publish
  <2> DEFINE lamp == [c \in Condition |-> IF c \in cs THEN IF c \in cond' THEN "ON" ELSE "OFF"
                                          ELSE shown.lamp[c]]
             zone == [z \in Zone |-> IF z \in zs /\ states'[z] # Nothing THEN states'[z]
                                     ELSE shown.zone[z]]
             attr == [z \in Zone |-> IF z \in zs THEN IF z \in isolated' THEN "isolated" ELSE "plain"
                                     ELSE shown.attr[z]]
             card == IF pa THEN alarm'.state ELSE shown.card
  <2>2. shown' = [card |-> card, lamp |-> lamp, zone |-> zone, attr |-> attr]
    BY <1>2 DEF Publish
  <2>3. /\ lamp \in [Condition -> {"ON", "OFF", "unknown"}]
        /\ zone \in [Zone -> ZoneState \union {"unknown"}]
        /\ attr \in [Zone -> {"isolated", "plain", "unknown"}]
        /\ card \in AlarmState \union {"unknown"}
    BY <1>0 DEF ShownType
  <2>4. /\ \A c \in Condition : lamp[c] = IF c \in cs THEN IF c \in cond' THEN "ON" ELSE "OFF"
                                          ELSE shown.lamp[c]
        /\ \A z \in Zone :
             /\ zone[z] = IF z \in zs /\ states'[z] # Nothing THEN states'[z] ELSE shown.zone[z]
             /\ attr[z] = IF z \in zs THEN IF z \in isolated' THEN "isolated" ELSE "plain"
                          ELSE shown.attr[z]
    OBVIOUS
  <2>5. card = IF pa THEN alarm'.state ELSE shown.card
    OBVIOUS
  <2> HIDE DEF lamp, zone, attr, card
  <2>6. shown'.card = card /\ shown'.lamp = lamp /\ shown'.zone = zone /\ shown'.attr = attr
    BY <2>2
  <2>7. ShownType'
    BY <1>2, <2>1, <2>2, <2>3 DEF ShownType, Delivered
  <2>8. LampsShown'
    <3> SUFFICES ASSUME NEW c \in Condition \ unseen'
                 PROVE  shown'.lamp[c] \in {"unknown", IF c \in cond' THEN "ON" ELSE "OFF"}
      BY DEF LampsShown
    <3>1. CASE c \in cs
      BY <2>4, <2>6, <3>1
    <3>2. CASE c \notin cs
      BY <2>1, <2>4, <2>6, <3>2 DEF LampsShown
    <3>3. QED
      BY <3>1, <3>2
  <2>9. QED
    BY <1>2, <2>4, <2>5, <2>6, <2>7, <2>8
<1>3. QED
  BY <1>1, <1>2

AlarmKinds == {"system_arm", "status_report_1", "exit_delay_started", "entry_delay_started",
               "arm_ready", "arm_not_ready", "alarm_on", "alarm_off"}

\* What an alarm reading makes of the record of the alarm.
LEMMA AppliesAlarm ==
  ASSUME AlarmType, alarm.pre # "triggered", NEW m \in Message, m.reading.kind \in AlarmKinds,
         ApplyAlarmReading(m.reading)
  PROVE  /\ AlarmType' /\ alarm'.pre # "triggered" /\ KnowsAlarm(m)
         /\ alarm'.state # alarm.state => Transition
         /\ Transition => alarm'.state # Nothing
<1>1. PICK r \in AnyReading : r = m.reading
  BY MessageFields
<1>2. PICK target : target = Target(r)
  OBVIOUS
<1>3. PICK pre : pre = PreAlarm(r)
  OBVIOUS
<1>a. /\ alarm \in [state : AlarmState \union {Nothing}, pre : AlarmState \union {Nothing},
                    blocking : Zone \union {Nothing}, mode : Mode \union {NoMode}]
      /\ r.kind \in AlarmKinds
  BY <1>1 DEF AlarmType
<1>4. target \in AlarmState \union {Nothing}
  <2>1. \A mode : StateForArmMode(mode) \in AlarmState
    BY ArmModes DEF AlarmState
  <2>2. {"arming", "pending", "disarmed", "triggered"} \subseteq AlarmState
    BY DEF AlarmState
  <2>3. QED
    BY <1>2, <1>a, <2>1, <2>2 DEF Target
<1>5. pre \in AlarmState \union {Nothing} /\ pre # "triggered"
  <2>1. alarm.pre \in AlarmState \union {Nothing} /\ alarm.state \in AlarmState \union {Nothing}
    BY <1>a
  <2>2. "triggered" \notin ArmedState /\ Nothing # "triggered"
    BY DEF ArmedState, Nothing
  <2>3. QED
    BY <1>3, <2>1, <2>2 DEF PreAlarm
<1>6. alarm' = IF target = Nothing THEN [alarm EXCEPT !.pre = pre]
               ELSE [state |-> target, pre |-> pre,
                     blocking |-> IF r.kind = "arm_not_ready" THEN r.zone ELSE Nothing,
                     mode |-> IF r.kind \in Telling THEN r.mode ELSE alarm.mode]
  BY <1>1, <1>2, <1>3 DEF ApplyAlarmReading, Telling
<1>7. CASE target = Nothing
  <2>1. alarm' = [alarm EXCEPT !.pre = pre]
    BY <1>6, <1>7
  <2>2. AlarmType' /\ alarm'.pre # "triggered" /\ alarm'.state = alarm.state
    BY <1>5, <1>a, <2>1 DEF AlarmType
  <2>3. ~Transition
    BY <1>a, <2>1 DEF Transition
  <2>4. KnowsAlarm(m)
    <3>1. \A mode : StateForArmMode(mode) # Nothing
      BY ArmModes DEF ArmedState, Nothing
    <3>2. r.kind \notin {"system_arm", "status_report_1", "exit_delay_started", "alarm_on"}
      BY <1>2, <1>7, <3>1 DEF Target, Nothing
    <3>3. r.kind = "entry_delay_started" => alarm.state = "triggered"
      BY <1>2, <1>7 DEF Target, Nothing
    <3>4. m \in Setters => Unheard(m)
      BY <1>1, <3>2, <3>3, NewsByKind DEF Unheard
    <3>5. QED
      BY <2>2, <3>4 DEF KnowsAlarm
  <2>5. QED
    BY <2>2, <2>3, <2>4
<1>8. CASE target # Nothing
  <2>1. PICK b \in Zone \union {Nothing} :
          b = IF r.kind = "arm_not_ready" THEN r.zone ELSE Nothing
    BY ReadingFields
  <2>2. PICK mode \in Mode \union {NoMode} : mode = IF r.kind \in Telling THEN r.mode ELSE alarm.mode
    BY <1>a, ReadingFields
  <2>3. alarm' = [state |-> target, pre |-> pre, blocking |-> b, mode |-> mode]
    BY <1>6, <1>8, <2>1, <2>2
  <2>4. AlarmType' /\ alarm'.pre # "triggered" /\ alarm'.state = target
    BY <1>4, <1>5, <2>3 DEF AlarmType
  <2>5. alarm'.state # alarm.state => Transition
    BY <1>a, <2>3 DEF Transition
  <2>6. KnowsAlarm(m)
    <3>1. /\ r.kind \in Telling => target = StateForArmMode(r.mode)
          /\ r.kind = "exit_delay_started" => target = "arming"
          /\ r.kind = "entry_delay_started" => target = "pending" /\ alarm.state # "triggered"
          /\ r.kind \in {"arm_ready", "arm_not_ready"} =>
               target = "disarmed" /\ alarm.state \in {Nothing, "disarmed"}
          /\ r.kind = "alarm_on" => target = "triggered"
          /\ r.kind = "alarm_off" => target = alarm.pre
      BY <1>2, <1>8 DEF Target, IsIdle, Telling
    <3>2. m \in Setters <=> r.kind \in {"exit_delay_started", "entry_delay_started", "alarm_on",
                                        "system_arm", "status_report_1"}
      BY <1>1, NewsByKind
    <3>3. m \in Setters => target = Says(r)
      BY <3>1, <3>2 DEF Says, Telling
    <3>4. ~Unheard(m)
      BY <1>1, <3>1 DEF Unheard
    <3>5. m \notin Setters =>
            \/ r.kind = "alarm_off" /\ target # "triggered"
            \/ r.kind \in {"arm_ready", "arm_not_ready"} /\ target = "disarmed"
      BY <1>a, <3>1, <3>2 DEF AlarmKinds
    <3>6. r.kind \in {"arm_ready", "arm_not_ready"} => alarm.state \in {Nothing, "disarmed"}
      BY <3>1
    <3>7. QED
      BY <1>1, <2>4, <3>3, <3>4, <3>5, <3>6 DEF KnowsAlarm
  <2>7. QED
    BY <1>8, <2>4, <2>5, <2>6
<1>9. QED
  BY <1>7, <1>8

\* What publishing the state makes of the topics.
LEMMA Shows ==
  ASSUME ShownType, TrackerType', UNCHANGED ha, LampsShown, NEW m \in Message,
         NEW zs, NEW cs \in SUBSET Condition, NEW pa \in BOOLEAN, Publish(zs, cs, pa),
         pa => alarm'.state # Nothing, alarm'.state # alarm.state => pa,
         \A c \in Condition \ cs : c \in cond' <=> c \in cond,
         \A z \in Zone \ zs : m \notin ZoneNews(z) /\ (z \in isolated' <=> z \in isolated),
         KnowsZones(m)
  PROVE  /\ ShownType' /\ LampsShown'
         /\ IF Delivered THEN ShowsAlarm /\ ShowsZones(m) ELSE shown' = shown
<1>1. /\ ShownType' /\ LampsShown'
      /\ ~Delivered => shown' = shown
      /\ Delivered =>
           /\ shown'.card = IF pa THEN alarm'.state ELSE shown.card
           /\ \A z \in Zone :
                /\ shown'.zone[z] = IF z \in zs /\ states'[z] # Nothing THEN states'[z]
                                    ELSE shown.zone[z]
                /\ shown'.attr[z] = IF z \in zs THEN IF z \in isolated' THEN "isolated" ELSE "plain"
                                    ELSE shown.attr[z]
  BY Publishes
<1>2. ASSUME Delivered
      PROVE  ShowsAlarm
  BY <1>1, <1>2 DEF ShowsAlarm
<1>3. ASSUME Delivered, NEW z \in Zone
      PROVE  /\ \/ shown'.zone[z] = shown.zone[z]
                \/ states'[z] # Nothing /\ shown'.zone[z] = states'[z]
             /\ \/ shown'.attr[z] = "isolated" <=> z \in isolated'
                \/ shown'.attr[z] = shown.attr[z] /\ (z \in isolated' <=> z \in isolated)
             /\ m \in ZoneNews(z) => /\ shown'.zone[z] = states'[z]
                                     /\ shown'.attr[z] = "isolated" <=> z \in isolated'
  <2>1. /\ shown'.zone[z] = IF z \in zs /\ states'[z] # Nothing THEN states'[z] ELSE shown.zone[z]
        /\ shown'.attr[z] = IF z \in zs THEN IF z \in isolated' THEN "isolated" ELSE "plain"
                            ELSE shown.attr[z]
    BY <1>1, <1>3
  <2>2. m \in ZoneNews(z) => z \in zs /\ states'[z] # Nothing
    <3>1. SUFFICES ASSUME m \in ZoneNews(z)
                   PROVE  z \in zs /\ states'[z] # Nothing
      OBVIOUS
    <3>2. states'[z] = Said(m.reading, z)
      BY <3>1 DEF KnowsZones
    <3>3. m.reading \in AnyReading
      BY MessageFields
    <3>4. Said(m.reading, z) \in ZoneState
      BY <3>1, <3>3, ReadingFields, NewsByKind DEF Said
    <3>5. Nothing \notin ZoneState
      BY DEF Nothing, ZoneState
    <3>6. QED
      BY <3>1, <3>2, <3>4, <3>5
  <2>3. z \in zs => (shown'.attr[z] = "isolated" <=> z \in isolated')
    BY <2>1
  <2>4. z \notin zs => shown'.attr[z] = shown.attr[z] /\ (z \in isolated' <=> z \in isolated)
    BY <2>1
  <2>5. QED
    BY <2>1, <2>2, <2>3, <2>4
<1>4. Delivered => ShowsZones(m)
  BY <1>3 DEF ShowsZones
<1>5. QED
  BY <1>1, <1>2, <1>4

\* The report that a message from the panel sets off is asked for once.
LEMMA AsksForTraffic ==
  ASSUME AskPanel("traffic"), asked \in Nat, slots \subseteq {"early", "postSync"}
  PROVE  /\ slots' = slots \union {"early"}
         /\ asked' = IF "early" \in slots THEN asked ELSE asked + 1
         /\ asked' \in Nat /\ slots' \subseteq {"early", "postSync"}
BY DEF AskPanel, Due, SlotOf

\* Each handler has the effect its message calls for: a zone,
LEMMA HandlesZone ==
  ASSUME Typed, LampsShown, HandleZone, NEW m, m = Head(wire)
  PROVE  Effect(m) /\ Typed'
<1>1. /\ Taken(m) /\ m.reading = Reading /\ m.reading.kind = "zone" /\ WireType'
      /\ PanelType /\ ShownType /\ TrackerType
  BY HearsOne DEF HandleZone, Typed
<1>r. PICK r \in AnyReading : r = m.reading
  BY <1>1, MessageFields DEF Taken
<1>2. /\ states' = [states EXCEPT ![r.zone] = r.to] /\ r.zone \in Zone /\ r.to \in ZoneState
      /\ UNCHANGED <<alarm, cond, isolated, announced, file, resync>>
      /\ Publish({r.zone}, {}, FALSE)
  BY <1>1, <1>r, ReadingFields DEF HandleZone, Taken
<1>3. /\ slots' = slots \union {"early"}
      /\ asked' = IF "early" \in slots THEN asked ELSE asked + 1
      /\ asked' \in Nat /\ slots' \subseteq {"early", "postSync"}
  BY <1>1, AsksForTraffic DEF HandleZone, PanelType, TrackerType
<1>4. TrackerType'
  BY <1>1, <1>2, <1>3 DEF TrackerType, AlarmType
<1>5. PanelType'
  BY <1>1, <1>3 DEF PanelType, Taken
<1>6. m \in Message /\ \A z : m \in ZoneNews(z) <=> z = r.zone
  BY <1>1, <1>r, NewsByKind DEF Taken
<1>7. KnowsZones(m)
  BY <1>1, <1>2, <1>6, <1>r DEF KnowsZones, Said, TrackerType
<1>8. ShownType' /\ LampsShown' /\ IF Delivered THEN ShowsAlarm /\ ShowsZones(m) ELSE shown' = shown
  <2>1. UNCHANGED ha /\ FALSE \in BOOLEAN /\ {} \in SUBSET Condition
    BY <1>1 DEF Taken
  <2>2. \A z \in Zone \ {r.zone} : m \notin ZoneNews(z) /\ (z \in isolated' <=> z \in isolated)
    BY <1>2, <1>6
  <2>3. QED
    BY <1>1, <1>2, <1>4, <1>6, <1>7, <2>1, <2>2, Shows
<1>9. KnowsTroubles(m)
  BY <1>1, <1>2, <1>6, <1>r, NewsByKind, AboutByKind DEF KnowsTroubles
<1>10. KnowsIsolations(m)
  BY <1>1, <1>2, <1>6, <1>r, NewsByKind DEF KnowsIsolations, Clears, Telling
<1>11. KnowsAlarm(m)
  BY <1>1, <1>2, <1>6, <1>r, NewsByKind DEF KnowsAlarm, Unheard
<1>12. Asks(m)
  BY <1>1, <1>3 DEF Asks
<1>13. QED
  BY <1>1, <1>4, <1>5, <1>7, <1>8, <1>9, <1>10, <1>11, <1>12 DEF Effect, Typed

\* a trouble,
LEMMA HandlesTrouble ==
  ASSUME Typed, LampsShown, HandleTrouble, NEW m, m = Head(wire)
  PROVE  Effect(m) /\ Typed'
<1>1. /\ Taken(m) /\ m.reading = Reading /\ m.reading.kind = "panel_trouble" /\ WireType'
      /\ PanelType /\ ShownType /\ TrackerType
  BY HearsOne DEF HandleTrouble, Typed
<1>r. PICK r \in AnyReading : r = m.reading
  BY <1>1, MessageFields DEF Taken
<1>c. PICK cs : cs = ConditionsToPublish(SymDiff(cond, cond'))
  OBVIOUS
<1>2. /\ cond' = IF r.active THEN cond \union {r.condition} ELSE cond \ {r.condition}
      /\ r.condition \in Condition /\ r.active \in BOOLEAN
      /\ UNCHANGED <<alarm, states, isolated, resync>>
      /\ announced' = (announced \/ Announces) /\ file' = [cond |-> cond', isolated |-> isolated']
      /\ Publish({}, cs, FALSE)
  BY <1>1, <1>r, <1>c, ReadingFields DEF HandleTrouble, Taken, Persist
<1>3. /\ slots' = slots \union {"early"}
      /\ asked' = IF "early" \in slots THEN asked ELSE asked + 1
      /\ asked' \in Nat /\ slots' \subseteq {"early", "postSync"}
  BY <1>1, AsksForTraffic DEF HandleTrouble, PanelType, TrackerType
<1>4. TrackerType'
  <2>1. cond' \subseteq Condition
    BY <1>1, <1>2 DEF TrackerType
  <2>2. announced' \in BOOLEAN
    BY <1>1, <1>2 DEF TrackerType, Announces
  <2>3. AlarmType'
    BY <1>1, <1>2 DEF TrackerType, AlarmType
  <2>4. QED
    BY <1>1, <1>2, <1>3, <2>1, <2>2, <2>3 DEF TrackerType
<1>5. PanelType'
  BY <1>1, <1>3 DEF PanelType, Taken
<1>6. /\ m \in Message /\ \A z : m \notin ZoneNews(z) /\ m \notin IsolationNews(z)
      /\ \A c : m \in TroubleNews(c) <=> c = r.condition
  BY <1>1, <1>r, NewsByKind, AboutByKind DEF Taken, Clears, Telling
<1>7. KnowsZones(m)
  BY <1>2, <1>6 DEF KnowsZones
<1>8. ShownType' /\ LampsShown' /\ IF Delivered THEN ShowsAlarm /\ ShowsZones(m) ELSE shown' = shown
  <2>1. UNCHANGED ha /\ FALSE \in BOOLEAN
    BY <1>1 DEF Taken
  <2>2. cs \in SUBSET Condition /\ \A c \in Condition \ cs : c \in cond' <=> c \in cond
    BY <1>c, <1>1, <1>2 DEF ConditionsToPublish, SymDiff, TrackerType
  <2>3. alarm'.state = alarm.state /\ \A z \in Zone \ {} : z \in isolated' <=> z \in isolated
    BY <1>2
  <2>4. QED
    BY <1>1, <1>2, <1>4, <1>6, <1>7, <2>1, <2>2, <2>3, Shows
<1>9. KnowsTroubles(m)
  BY <1>1, <1>2, <1>6, <1>r DEF KnowsTroubles, Active
<1>10. KnowsIsolations(m)
  BY <1>2, <1>6 DEF KnowsIsolations
<1>11. KnowsAlarm(m)
  BY <1>1, <1>2, <1>6, <1>r, NewsByKind DEF KnowsAlarm, Unheard
<1>12. Asks(m)
  BY <1>1, <1>3 DEF Asks
<1>13. QED
  BY <1>1, <1>4, <1>5, <1>7, <1>8, <1>9, <1>10, <1>11, <1>12 DEF Effect, Typed

\* The conditions an arm reading clears are those it ends.
LEMMA ClearedEnds == \A mode \in Mode : ClearedBy(mode) = Ends(mode)
BY DEF ClearedBy, Ends, ClearedOnDisarm, ClearedOnArm

\* an arming,
LEMMA HandlesSystemArm ==
  ASSUME Typed, LampsShown, HandleSystemArm, NEW m, m = Head(wire)
  PROVE  Effect(m) /\ Typed'
<1>1. /\ Taken(m) /\ m.reading = Reading /\ m.reading.kind = "system_arm" /\ WireType'
      /\ PanelType /\ ShownType /\ TrackerType
  BY HearsOne DEF HandleSystemArm, Typed
<1>r. PICK r \in AnyReading : r = m.reading
  BY <1>1, MessageFields DEF Taken
<1>c. PICK cs : cs = ConditionsToPublish(cond \ cond')
  OBVIOUS
<1>p. PICK pa \in BOOLEAN : pa <=> Transition
  OBVIOUS
<1>z. PICK zs : zs = Ended
  OBVIOUS
<1>2. /\ cond' = cond \ Ends(r.mode) /\ r.mode \in Mode
      /\ isolated' = IF r.mode = 0 THEN {} ELSE isolated
      /\ UNCHANGED <<states, resync>>
      /\ announced' = (announced \/ Announces) /\ file' = [cond |-> cond', isolated |-> isolated']
      /\ Publish(zs, cs, pa)
  <2>1. r.mode \in Mode
    BY <1>1, <1>r, ReadingFields DEF Telling
  <2>2. Publish(Ended, ConditionsToPublish(cond \ cond'), Transition)
    BY DEF HandleSystemArm
  <2>3. Publish(zs, cs, pa)
    BY <1>c, <1>p, <1>z, <2>2 DEF Publish
  <2>4. QED
    BY <1>1, <1>r, <2>1, <2>3, ClearedEnds DEF HandleSystemArm, Taken, Persist
<1>3. /\ slots' = slots \union {"early"}
      /\ asked' = IF "early" \in slots THEN asked ELSE asked + 1
      /\ asked' \in Nat /\ slots' \subseteq {"early", "postSync"}
  BY <1>1, AsksForTraffic DEF HandleSystemArm, PanelType, TrackerType
<1>a. /\ AlarmType' /\ alarm'.pre # "triggered" /\ KnowsAlarm(m)
      /\ alarm'.state # alarm.state => Transition
      /\ Transition => alarm'.state # Nothing
  BY <1>1, AppliesAlarm DEF HandleSystemArm, Taken, TrackerType, AlarmKinds
<1>4. TrackerType'
  <2>1. cond' \subseteq Condition /\ isolated' \subseteq Zone
    BY <1>1, <1>2 DEF TrackerType
  <2>2. announced' \in BOOLEAN
    BY <1>1, <1>2 DEF TrackerType, Announces
  <2>3. QED
    BY <1>1, <1>2, <1>3, <1>a, <2>1, <2>2 DEF TrackerType
<1>5. PanelType'
  BY <1>1, <1>3 DEF PanelType, Taken
<1>6. /\ m \in Message /\ \A z : m \notin ZoneNews(z) /\ m \notin Isolating(z)
      /\ \A z : m \in IsolationNews(z) <=> r.mode = 0
      /\ \A c \in Condition : m \in TroubleNews(c) <=> c \in Ends(r.mode)
  BY <1>1, <1>r, NewsByKind, AboutByKind, NotACondition DEF Taken, Clears, Telling
<1>7. KnowsZones(m)
  BY <1>2, <1>6 DEF KnowsZones
<1>8. ShownType' /\ LampsShown' /\ IF Delivered THEN ShowsAlarm /\ ShowsZones(m) ELSE shown' = shown
  <2>1. UNCHANGED ha
    BY <1>1 DEF Taken
  <2>2. cs \in SUBSET Condition /\ \A c \in Condition \ cs : c \in cond' <=> c \in cond
    BY <1>c, <1>1, <1>2 DEF ConditionsToPublish, TrackerType
  <2>3. \A z \in Zone \ zs : z \in isolated' <=> z \in isolated
    BY <1>1, <1>2, <1>z DEF Ended, TrackerType
  <2>4. (pa => alarm'.state # Nothing) /\ (alarm'.state # alarm.state => pa)
    BY <1>a, <1>p
  <2>5. QED
    BY <1>1, <1>2, <1>4, <1>6, <1>7, <2>1, <2>2, <2>3, <2>4, Shows
<1>9. KnowsTroubles(m)
  BY <1>1, <1>2, <1>6, <1>r DEF KnowsTroubles, Active
<1>10. KnowsIsolations(m)
  BY <1>2, <1>6 DEF KnowsIsolations
<1>12. Asks(m)
  BY <1>1, <1>3 DEF Asks
<1>13. QED
  BY <1>1, <1>4, <1>5, <1>7, <1>8, <1>9, <1>10, <1>a, <1>12 DEF Effect, Typed

\* an isolation,
LEMMA HandlesZoneIsolated ==
  ASSUME Typed, LampsShown, HandleZoneIsolated, NEW m, m = Head(wire)
  PROVE  Effect(m) /\ Typed'
<1>1. /\ Taken(m) /\ m.reading = Reading /\ m.reading.kind = "zone_isolated" /\ WireType'
      /\ PanelType /\ ShownType /\ TrackerType
  BY HearsOne DEF HandleZoneIsolated, Typed
<1>r. PICK r \in AnyReading : r = m.reading
  BY <1>1, MessageFields DEF Taken
<1>z. PICK zs : zs = isolated' \ isolated
  OBVIOUS
<1>2. /\ isolated' = isolated \union {r.zone} /\ r.zone \in Zone
      /\ UNCHANGED <<alarm, cond, states, announced, resync>>
      /\ file' = [cond |-> cond', isolated |-> isolated']
      /\ Publish(zs, {}, FALSE)
  BY <1>1, <1>r, <1>z, ReadingFields DEF HandleZoneIsolated, Taken, Persist
<1>3. /\ slots' = slots \union {"early"}
      /\ asked' = IF "early" \in slots THEN asked ELSE asked + 1
      /\ asked' \in Nat /\ slots' \subseteq {"early", "postSync"}
  BY <1>1, AsksForTraffic DEF HandleZoneIsolated, PanelType, TrackerType
<1>4. TrackerType'
  <2>1. isolated' \subseteq Zone
    BY <1>1, <1>2 DEF TrackerType
  <2>2. AlarmType'
    BY <1>1, <1>2 DEF TrackerType, AlarmType
  <2>3. QED
    BY <1>1, <1>2, <1>3, <2>1, <2>2 DEF TrackerType
<1>5. PanelType'
  BY <1>1, <1>3 DEF PanelType, Taken
<1>6. /\ m \in Message /\ \A z : m \notin ZoneNews(z) /\ (m \in Isolating(z) <=> z = r.zone)
      /\ \A z : m \in IsolationNews(z) <=> z = r.zone
      /\ \A c \in Condition : m \notin TroubleNews(c)
  BY <1>1, <1>r, NewsByKind, AboutByKind, NotACondition DEF Taken, Clears, Telling
<1>7. KnowsZones(m)
  BY <1>2, <1>6 DEF KnowsZones
<1>8. ShownType' /\ LampsShown' /\ IF Delivered THEN ShowsAlarm /\ ShowsZones(m) ELSE shown' = shown
  <2>1. UNCHANGED ha /\ FALSE \in BOOLEAN /\ {} \in SUBSET Condition
    BY <1>1 DEF Taken
  <2>2. alarm'.state = alarm.state /\ \A c \in Condition : c \in cond' <=> c \in cond
    BY <1>2
  <2>3. \A z \in Zone \ zs : z \in isolated' <=> z \in isolated
    BY <1>2, <1>z
  <2>4. QED
    BY <1>1, <1>2, <1>4, <1>6, <1>7, <2>1, <2>2, <2>3, Shows
<1>9. KnowsTroubles(m)
  BY <1>2, <1>6 DEF KnowsTroubles
<1>10. KnowsIsolations(m)
  BY <1>2, <1>6 DEF KnowsIsolations
<1>11. KnowsAlarm(m)
  BY <1>1, <1>2, <1>6, <1>r, NewsByKind DEF KnowsAlarm, Unheard
<1>12. Asks(m)
  BY <1>1, <1>3 DEF Asks
<1>13. QED
  BY <1>1, <1>4, <1>5, <1>7, <1>8, <1>9, <1>10, <1>11, <1>12 DEF Effect, Typed

\* A report makes the zones it covers known.
LEMMA ReportsZones ==
  ASSUME NEW r \in AnyReading, r.kind \in {"status_report_1", "status_report_2"},
         states \in [Zone -> ZoneState \union {Nothing}],
         states' = [z \in Zone |-> IF z \in DOMAIN r.zones THEN r.zones[z] ELSE states[z]]
  PROVE  /\ states' \in [Zone -> ZoneState \union {Nothing}]
         /\ r.kind = "status_report_1" =>
              \A z \in Zone : states'[z] = IF z \in First THEN r.zones[z] ELSE states[z]
         /\ r.kind = "status_report_2" =>
              \A z \in Zone : states'[z] = IF z \notin First THEN r.zones[z] ELSE states[z]
<1>1. CASE r.kind = "status_report_1"
  <2>1. DOMAIN r.zones = First /\ \A z \in First : r.zones[z] \in ZoneState
    BY <1>1, ReadingFields
  <2>2. \A z \in Zone : states'[z] = IF z \in First THEN r.zones[z] ELSE states[z]
    BY <2>1
  <2>3. states' \in [Zone -> ZoneState \union {Nothing}]
    BY <2>1
  <2>4. QED
    BY <1>1, <2>2, <2>3
<1>2. CASE r.kind = "status_report_2"
  <2>1. DOMAIN r.zones = Zone \ First /\ \A z \in Zone \ First : r.zones[z] \in ZoneState
    BY <1>2, ReadingFields
  <2>2. \A z \in Zone : states'[z] = IF z \notin First THEN r.zones[z] ELSE states[z]
    BY <2>1
  <2>3. states' \in [Zone -> ZoneState \union {Nothing}]
    BY <2>1
  <2>4. QED
    BY <1>2, <2>2, <2>3
<1>3. QED
  BY <1>1, <1>2

\* the first status report,
LEMMA HandlesFirstReport ==
  ASSUME Typed, LampsShown, HandleStatusReport, NEW m, m = Head(wire),
         m.reading.kind = "status_report_1"
  PROVE  Effect(m) /\ Typed'
<1>1. /\ Taken(m) /\ m.reading = Reading /\ m.reading.kind = "status_report_1" /\ WireType'
      /\ PanelType /\ ShownType /\ TrackerType
  BY HearsOne DEF HandleStatusReport, Typed
<1>r. PICK r \in AnyReading : r = m.reading
  BY <1>1, MessageFields DEF Taken
<1>c. PICK cs : cs = ConditionsToPublish(SymDiff(cond, cond'))
  OBVIOUS
<1>p. PICK pa \in BOOLEAN : pa <=> Transition
  OBVIOUS
<1>z. PICK zs : zs = First \union Ended
  OBVIOUS
<1>2. /\ cond' = (cond \ Reported) \union r.trouble /\ r.mode \in Mode /\ r.trouble \subseteq Reported
      /\ isolated' = IF r.mode = 0 THEN {} ELSE isolated
      /\ UNCHANGED resync
      /\ announced' = (announced \/ Announces) /\ file' = [cond |-> cond', isolated |-> isolated']
      /\ Publish(zs, cs, pa)
  <2>1. r.mode \in Mode /\ r.trouble \subseteq Reported
    BY <1>1, <1>r, ReadingFields DEF Telling
  <2>2. Publish(First \union Ended, ConditionsToPublish(SymDiff(cond, cond')), Transition)
    BY <1>1 DEF HandleStatusReport
  <2>3. Publish(zs, cs, pa)
    BY <1>c, <1>p, <1>z, <2>2 DEF Publish
  <2>4. QED
    BY <1>1, <1>r, <2>1, <2>3 DEF HandleStatusReport, Taken, Persist
<1>3. /\ slots' = slots \union {"early"}
      /\ asked' = IF "early" \in slots THEN asked ELSE asked + 1
      /\ asked' \in Nat /\ slots' \subseteq {"early", "postSync"}
  BY <1>1, AsksForTraffic DEF HandleStatusReport, PanelType, TrackerType
<1>a. /\ AlarmType' /\ alarm'.pre # "triggered" /\ KnowsAlarm(m)
      /\ alarm'.state # alarm.state => Transition
      /\ Transition => alarm'.state # Nothing
  BY <1>1, AppliesAlarm DEF HandleStatusReport, Taken, TrackerType, AlarmKinds
<1>s. /\ states' \in [Zone -> ZoneState \union {Nothing}]
      /\ \A z \in Zone : states'[z] = IF z \in First THEN r.zones[z] ELSE states[z]
  <2>1. states' = [z \in Zone |-> IF z \in DOMAIN r.zones THEN r.zones[z] ELSE states[z]]
    BY <1>1, <1>r DEF HandleStatusReport
  <2>2. QED
    BY <1>1, <1>r, <2>1, ReportsZones DEF TrackerType
<1>4. TrackerType'
  <2>1. cond' \subseteq Condition /\ isolated' \subseteq Zone
    BY <1>1, <1>2 DEF TrackerType, Reported
  <2>2. announced' \in BOOLEAN
    BY <1>1, <1>2 DEF TrackerType, Announces
  <2>3. QED
    BY <1>1, <1>2, <1>3, <1>a, <1>s, <2>1, <2>2 DEF TrackerType
<1>5. PanelType'
  BY <1>1, <1>3 DEF PanelType, Taken
<1>6. /\ m \in Message /\ \A z : (m \in ZoneNews(z) <=> z \in First) /\ m \notin Isolating(z)
      /\ \A z : m \in IsolationNews(z) <=> r.mode = 0
      /\ \A c \in Condition : m \in TroubleNews(c) <=> c \in Reported
  BY <1>1, <1>r, NewsByKind, AboutByKind, NotACondition DEF Taken, Clears, Telling
<1>7. KnowsZones(m)
  BY <1>1, <1>6, <1>r, <1>s DEF KnowsZones, Said
<1>8. ShownType' /\ LampsShown' /\ IF Delivered THEN ShowsAlarm /\ ShowsZones(m) ELSE shown' = shown
  <2>1. UNCHANGED ha
    BY <1>1 DEF Taken
  <2>2. cs \in SUBSET Condition /\ \A c \in Condition \ cs : c \in cond' <=> c \in cond
    BY <1>c, <1>1, <1>2 DEF ConditionsToPublish, SymDiff, TrackerType, Reported
  <2>3. \A z \in Zone \ zs : m \notin ZoneNews(z) /\ (z \in isolated' <=> z \in isolated)
    BY <1>1, <1>2, <1>6, <1>z DEF Ended, TrackerType
  <2>4. (pa => alarm'.state # Nothing) /\ (alarm'.state # alarm.state => pa)
    BY <1>a, <1>p
  <2>5. QED
    BY <1>1, <1>2, <1>4, <1>6, <1>7, <2>1, <2>2, <2>3, <2>4, Shows
<1>9. KnowsTroubles(m)
  BY <1>1, <1>2, <1>6, <1>r DEF KnowsTroubles, Active
<1>10. KnowsIsolations(m)
  BY <1>2, <1>6 DEF KnowsIsolations
<1>12. Asks(m)
  BY <1>1, <1>3 DEF Asks
<1>13. QED
  BY <1>1, <1>4, <1>5, <1>7, <1>8, <1>9, <1>10, <1>a, <1>12 DEF Effect, Typed

\* the second,
LEMMA HandlesSecondReport ==
  ASSUME Typed, LampsShown, HandleStatusReport, NEW m, m = Head(wire),
         m.reading.kind # "status_report_1"
  PROVE  Effect(m) /\ Typed'
<1>1. /\ Taken(m) /\ m.reading = Reading /\ m.reading.kind = "status_report_2" /\ WireType'
      /\ PanelType /\ ShownType /\ TrackerType
  BY HearsOne DEF HandleStatusReport, Typed
<1>r. PICK r \in AnyReading : r = m.reading
  BY <1>1, MessageFields DEF Taken
<1>2. /\ UNCHANGED <<alarm, cond, isolated, announced, file, resync>>
      /\ Publish(Zone \ First, {}, FALSE)
  BY <1>1 DEF HandleStatusReport, Taken
<1>3. /\ slots' = slots \union {"early"}
      /\ asked' = IF "early" \in slots THEN asked ELSE asked + 1
      /\ asked' \in Nat /\ slots' \subseteq {"early", "postSync"}
  BY <1>1, AsksForTraffic DEF HandleStatusReport, PanelType, TrackerType
<1>s. /\ states' \in [Zone -> ZoneState \union {Nothing}]
      /\ \A z \in Zone : states'[z] = IF z \notin First THEN r.zones[z] ELSE states[z]
  <2>1. states' = [z \in Zone |-> IF z \in DOMAIN r.zones THEN r.zones[z] ELSE states[z]]
    BY <1>1, <1>r DEF HandleStatusReport
  <2>2. QED
    BY <1>1, <1>r, <2>1, ReportsZones DEF TrackerType
<1>4. TrackerType'
  BY <1>1, <1>2, <1>3, <1>s DEF TrackerType, AlarmType
<1>5. PanelType'
  BY <1>1, <1>3 DEF PanelType, Taken
<1>6. /\ m \in Message /\ \A z : (m \in ZoneNews(z) <=> z \notin First) /\ m \notin IsolationNews(z)
      /\ \A c \in Condition : m \notin TroubleNews(c)
  BY <1>1, <1>r, NewsByKind, AboutByKind DEF Taken, Clears, Telling
<1>7. KnowsZones(m)
  BY <1>1, <1>6, <1>r, <1>s DEF KnowsZones, Said
<1>8. ShownType' /\ LampsShown' /\ IF Delivered THEN ShowsAlarm /\ ShowsZones(m) ELSE shown' = shown
  <2>1. UNCHANGED ha /\ FALSE \in BOOLEAN /\ {} \in SUBSET Condition
    BY <1>1 DEF Taken
  <2>2. alarm'.state = alarm.state /\ \A c \in Condition : c \in cond' <=> c \in cond
    BY <1>2
  <2>3. \A z \in Zone \ (Zone \ First) : m \notin ZoneNews(z) /\ (z \in isolated' <=> z \in isolated)
    BY <1>2, <1>6
  <2>4. QED
    BY <1>1, <1>2, <1>4, <1>6, <1>7, <2>1, <2>2, <2>3, Shows
<1>9. KnowsTroubles(m)
  BY <1>2, <1>6 DEF KnowsTroubles
<1>10. KnowsIsolations(m)
  BY <1>2, <1>6 DEF KnowsIsolations
<1>11. KnowsAlarm(m)
  BY <1>1, <1>2, <1>6, <1>r, NewsByKind DEF KnowsAlarm, Unheard
<1>12. Asks(m)
  BY <1>1, <1>3 DEF Asks
<1>13. QED
  BY <1>1, <1>4, <1>5, <1>7, <1>8, <1>9, <1>10, <1>11, <1>12 DEF Effect, Typed

\* a state of the system,
LEMMA HandlesSystemState ==
  ASSUME Typed, LampsShown, HandleSystemState, NEW m, m = Head(wire)
  PROVE  Effect(m) /\ Typed'
<1> DEFINE kinds == {"exit_delay_started", "entry_delay_started", "arm_ready", "arm_not_ready",
                     "alarm_on", "alarm_off"}
<1>1. /\ Taken(m) /\ m.reading = Reading /\ m.reading.kind \in kinds /\ WireType'
      /\ PanelType /\ ShownType /\ TrackerType
  BY HearsOne DEF HandleSystemState, Typed
<1>r. PICK r \in AnyReading : r = m.reading
  BY <1>1, MessageFields DEF Taken
<1>p. PICK pa \in BOOLEAN : pa <=> Transition
  OBVIOUS
<1>2. /\ UNCHANGED <<cond, states, isolated, announced, file, resync>>
      /\ Publish({}, {}, pa)
  <2>1. Publish({}, {}, Transition)
    BY DEF HandleSystemState
  <2>2. Publish({}, {}, pa)
    BY <1>p, <2>1 DEF Publish
  <2>3. QED
    BY <1>1, <2>2 DEF HandleSystemState, Taken
<1>3. /\ slots' = slots \union {"early"}
      /\ asked' = IF "early" \in slots THEN asked ELSE asked + 1
      /\ asked' \in Nat /\ slots' \subseteq {"early", "postSync"}
  BY <1>1, AsksForTraffic DEF HandleSystemState, PanelType, TrackerType
<1>a. /\ AlarmType' /\ alarm'.pre # "triggered" /\ KnowsAlarm(m)
      /\ alarm'.state # alarm.state => Transition
      /\ Transition => alarm'.state # Nothing
  BY <1>1, AppliesAlarm DEF HandleSystemState, Taken, TrackerType, AlarmKinds
<1>4. TrackerType'
  BY <1>1, <1>2, <1>3, <1>a DEF TrackerType
<1>5. PanelType'
  BY <1>1, <1>3 DEF PanelType, Taken
<1>6. /\ m \in Message /\ \A z : m \notin ZoneNews(z) /\ m \notin IsolationNews(z)
      /\ \A c \in Condition : m \notin TroubleNews(c)
  BY <1>1, <1>r, NewsByKind, AboutByKind DEF Taken, Clears, Telling
<1>7. KnowsZones(m)
  BY <1>2, <1>6 DEF KnowsZones
<1>8. ShownType' /\ LampsShown' /\ IF Delivered THEN ShowsAlarm /\ ShowsZones(m) ELSE shown' = shown
  <2>1. UNCHANGED ha /\ {} \in SUBSET Condition
    BY <1>1 DEF Taken
  <2>2. \A c \in Condition : c \in cond' <=> c \in cond
    BY <1>2
  <2>3. \A z \in Zone \ {} : m \notin ZoneNews(z) /\ (z \in isolated' <=> z \in isolated)
    BY <1>2, <1>6
  <2>4. (pa => alarm'.state # Nothing) /\ (alarm'.state # alarm.state => pa)
    BY <1>a, <1>p
  <2>5. QED
    BY <1>1, <1>2, <1>4, <1>6, <1>7, <2>1, <2>2, <2>3, <2>4, Shows
<1>9. KnowsTroubles(m)
  BY <1>2, <1>6 DEF KnowsTroubles
<1>10. KnowsIsolations(m)
  BY <1>2, <1>6 DEF KnowsIsolations
<1>12. Asks(m)
  BY <1>1, <1>3 DEF Asks
<1>13. QED
  BY <1>1, <1>4, <1>5, <1>7, <1>8, <1>9, <1>10, <1>a, <1>12 DEF Effect, Typed

\* and a password entry.
LEMMA HandlesPasswordEntry ==
  ASSUME Typed, LampsShown, HandlePasswordEntry, NEW m, m = Head(wire)
  PROVE  Effect(m) /\ Typed'
<1>1. /\ Taken(m) /\ m.reading = Reading /\ m.reading.kind = "password_entry" /\ WireType'
      /\ PanelType /\ ShownType /\ TrackerType
  BY HearsOne DEF HandlePasswordEntry, Typed
<1>r. PICK r \in AnyReading : r = m.reading
  BY <1>1, MessageFields DEF Taken
<1>2. /\ UNCHANGED <<alarm, cond, states, isolated, file, slots, asked, shown, unseen, resync, ha>>
      /\ announced' = (announced \/ Announces)
  BY <1>1 DEF HandlePasswordEntry, Taken
<1>3. announced' \in BOOLEAN
  BY <1>1, <1>2 DEF TrackerType, Announces
<1>4. TrackerType' /\ ShownType' /\ PanelType' /\ LampsShown'
  BY <1>1, <1>2, <1>3 DEF TrackerType, AlarmType, ShownType, PanelType, Taken, LampsShown
<1>6. /\ m \in Message /\ \A z : m \notin ZoneNews(z) /\ m \notin IsolationNews(z)
      /\ m \notin Setters
      /\ \A c \in Condition : m \notin TroubleNews(c)
  BY <1>1, <1>r, NewsByKind, AboutByKind DEF Taken, Clears, Telling
<1>7. KnowsZones(m) /\ KnowsTroubles(m) /\ KnowsIsolations(m)
  BY <1>2, <1>6 DEF KnowsZones, KnowsTroubles, KnowsIsolations
<1>8. ShowsAlarm /\ ShowsZones(m)
  BY <1>2, <1>6 DEF ShowsAlarm, ShowsZones
<1>9. KnowsAlarm(m) /\ Asks(m)
  BY <1>1, <1>2, <1>6, <1>r DEF KnowsAlarm, Unheard, Asks
<1>10. QED
  BY <1>1, <1>2, <1>4, <1>7, <1>8, <1>9 DEF Effect, Typed

\* So has every handler.
LEMMA HandlesOne ==
  ASSUME Typed, LampsShown, Handle, NEW m, m = Head(wire)
  PROVE  Effect(m) /\ Typed'
BY HandlesZone, HandlesTrouble, HandlesSystemArm, HandlesZoneIsolated, HandlesFirstReport,
   HandlesSecondReport, HandlesSystemState, HandlesPasswordEntry DEF Handle

-----------------------------------------------------------------------------
(* The invariant after a broadcast was handled *)

\* What is right stays so while the panel does not change.
LEMMA RightsStay ==
  ASSUME UNCHANGED <<panel, answered>>
  PROVE  /\ RightSetters' = RightSetters /\ RightModes' = RightModes
         /\ \A z \in Zone : RightZones(z)' = RightZones(z)
         /\ \A z \in Zone : RightIsolations(z)' = RightIsolations(z)
         /\ \A c \in Condition : RightTroubles(c)' = RightTroubles(c)
         /\ PhaseCard' = PhaseCard
BY DEF RightSetters, RightModes, RightZones, RightIsolations, RightTroubles, PhaseCard

\* The newest of a kind when the front of the connection is taken.
LEMMA Taking ==
  ASSUME WireType, NEW m, Taken(m), NEW M, NEW V, Newest(M, wire, V)
  PROVE  /\ Newest(M, wire', V)
         /\ Absent(M, wire') /\ m \in M => m \in V
         /\ Absent(M, wire') /\ m \notin M => Absent(M, wire)
<1>1. wire \in Seq(Message) /\ wire # <<>> /\ wire' = Tail(wire) /\ m = Head(wire)
  BY DEF WireType, Taken
<1>2. /\ Newest(M, Tail(wire), V)
      /\ Absent(M, Tail(wire)) /\ Head(wire) \in M => Head(wire) \in V
      /\ Absent(M, Tail(wire)) /\ Head(wire) \notin M => Absent(M, wire)
  BY <1>1, NewestTail
<1>3. QED
  BY <1>1, <1>2

\* A status that has come had come before the broadcast, and what the bridge publishes of
\* it arrives.
LEMMA StillSettled ==
  ASSUME PanelType, WireType, NEW m, Effect(m)
  PROVE  /\ Steady' => Steady /\ (ha => Delivered)
         /\ Settled' => Settled
<1>1. Steady' => Steady /\ up \notin {"down", "connecting", "dropped"}
  BY DEF Steady, Effect, Taken
<1>2. Steady' => (ha => Delivered)
  BY <1>1 DEF WireType, Delivered
<1>3. Settled' => Settled
  <2>1. asked + 1 # 0
    BY DEF PanelType
  <2>2. QED
    BY <1>1, <2>1 DEF Settled, Effect, Asks
<1>4. QED
  BY <1>1, <1>2, <1>3

\* A message that is handled keeps each part of the invariant: the session,
LEMMA HandledSession ==
  ASSUME SecInv, NEW m, Effect(m)
  PROVE  PanelSound' /\ SessionSound'
<1>1. PanelSound'
  BY DEF SecInv, PanelSound, Effect, Taken
<1>2. SessionSound'
  BY DEF SecInv, SessionSound, Effect, Taken, Asks
<1>3. QED
  BY <1>1, <1>2

\* the troubles,
LEMMA HandledTrouble ==
  ASSUME SecInv, NEW m, Effect(m)
  PROVE  TroubleRight'
<1> SUFFICES ASSUME NEW c \in Condition \ lost'
             PROVE  /\ Newest(TroubleNews(c), wire', RightTroubles(c)')
                    /\ Absent(TroubleNews(c), wire') => (c \in cond' <=> c \in panel'.trouble)
  BY DEF TroubleRight
<1>1. /\ WireType /\ Taken(m) /\ KnowsTroubles(m) /\ UNCHANGED <<panel, answered, lost>>
      /\ Newest(TroubleNews(c), wire, RightTroubles(c))
      /\ Absent(TroubleNews(c), wire) => (c \in cond <=> c \in panel.trouble)
  BY DEF SecInv, Typed, TroubleRight, Effect, Taken
<1>2. /\ Newest(TroubleNews(c), wire', RightTroubles(c))
      /\ Absent(TroubleNews(c), wire') /\ m \in TroubleNews(c) => m \in RightTroubles(c)
      /\ Absent(TroubleNews(c), wire') /\ m \notin TroubleNews(c) => Absent(TroubleNews(c), wire)
  BY <1>1, Taking
<1>3. c \in cond' <=> IF m \in TroubleNews(c) THEN Active(m.reading, c) ELSE c \in cond
  BY <1>1 DEF KnowsTroubles
<1>4. QED
  BY <1>1, <1>2, <1>3, RightsStay, RightByKind

\* the isolations,
LEMMA HandledIsolation ==
  ASSUME SecInv, NEW m, Effect(m)
  PROVE  IsolationRight' /\ IsolationEnds'
<1>1. /\ WireType /\ PanelType /\ Taken(m) /\ KnowsIsolations(m)
      /\ UNCHANGED <<panel, answered, lost>>
  BY DEF SecInv, Typed, Effect, Taken
<1>2. ASSUME NEW z \in Zone
      PROVE  z \in isolated' <=> IF m \in IsolationNews(z) THEN m \in Isolating(z) ELSE z \in isolated
  BY <1>1 DEF KnowsIsolations
<1>m. m \notin Clearing \/ \A z : m \notin Isolating(z)
  BY <1>1, NewsByKind DEF Clears, Telling, Taken
<1>3. IsolationRight'
  <2> SUFFICES ASSUME "isolation" \notin lost', NEW z \in Zone
               PROVE  /\ Newest(IsolationNews(z), wire', RightIsolations(z)')
                      /\ Absent(IsolationNews(z), wire') => (z \in isolated' <=> z \in panel'.bypassed)
    BY DEF IsolationRight
  <2>1. /\ Newest(IsolationNews(z), wire, RightIsolations(z))
        /\ Absent(IsolationNews(z), wire) => (z \in isolated <=> z \in panel.bypassed)
    BY <1>1 DEF SecInv, IsolationRight
  <2>2. /\ Newest(IsolationNews(z), wire', RightIsolations(z))
        /\ Absent(IsolationNews(z), wire') /\ m \in IsolationNews(z) => m \in RightIsolations(z)
        /\ Absent(IsolationNews(z), wire') /\ m \notin IsolationNews(z) => Absent(IsolationNews(z), wire)
    BY <1>1, <2>1, Taking
  <2>3. m \in RightIsolations(z) => (m \in Isolating(z) <=> z \in panel.bypassed)
    BY <1>m, RightByKind
  <2>4. QED
    BY <1>1, <1>2, <2>1, <2>2, <2>3, RightsStay
<1>4. IsolationEnds'
  <2> SUFFICES ASSUME Settled', panel'.mode = 0, NEW z \in Zone
               PROVE  /\ Newest(IsolationNews(z), wire', Clearing)
                      /\ Absent(IsolationNews(z), wire') => z \notin isolated'
    BY DEF IsolationEnds
  <2>1. /\ Newest(IsolationNews(z), wire, Clearing)
        /\ Absent(IsolationNews(z), wire) => z \notin isolated
    BY <1>1, StillSettled DEF SecInv, IsolationEnds
  <2>2. /\ Newest(IsolationNews(z), wire', Clearing)
        /\ Absent(IsolationNews(z), wire') /\ m \in IsolationNews(z) => m \in Clearing
        /\ Absent(IsolationNews(z), wire') /\ m \notin IsolationNews(z) => Absent(IsolationNews(z), wire)
    BY <1>1, <2>1, Taking
  <2>3. QED
    BY <1>2, <1>m, <2>1, <2>2
<1>5. QED
  BY <1>3, <1>4

\* the zones,
LEMMA HandledZones ==
  ASSUME SecInv, NEW m, Effect(m)
  PROVE  ZonesRight'
<1> SUFFICES ASSUME NEW z \in Zone
             PROVE  /\ Newest(ZoneNews(z), wire', RightZones(z)')
                    /\ Steady' /\ Absent(ZoneNews(z), wire') =>
                         /\ states'[z] \in {Nothing, panel'.zone[z]}
                         /\ Settled' /\ ~resync' /\ ha' =>
                              /\ shown'.zone[z] = panel'.zone[z]
                              /\ shown'.attr[z] = "isolated" <=> z \in isolated'
  BY DEF ZonesRight
<1>1. /\ WireType /\ PanelType /\ Taken(m) /\ KnowsZones(m)
      /\ UNCHANGED <<panel, answered, resync, ha>>
      /\ IF Delivered THEN ShowsZones(m) ELSE shown' = shown
  BY DEF SecInv, Typed, Effect, Taken
<1>2. /\ Newest(ZoneNews(z), wire, RightZones(z))
      /\ Steady /\ Absent(ZoneNews(z), wire) =>
           /\ states[z] \in {Nothing, panel.zone[z]}
           /\ Settled /\ ~resync /\ ha => /\ shown.zone[z] = panel.zone[z]
                                          /\ shown.attr[z] = "isolated" <=> z \in isolated
  BY DEF SecInv, ZonesRight
<1>3. /\ Newest(ZoneNews(z), wire', RightZones(z))
      /\ Absent(ZoneNews(z), wire') /\ m \in ZoneNews(z) => m \in RightZones(z)
      /\ Absent(ZoneNews(z), wire') /\ m \notin ZoneNews(z) => Absent(ZoneNews(z), wire)
  BY <1>1, <1>2, Taking
<1>4. states'[z] = IF m \in ZoneNews(z) THEN Said(m.reading, z) ELSE states[z]
  BY <1>1 DEF KnowsZones
<1>5. m \in RightZones(z) => Said(m.reading, z) = panel.zone[z]
  BY RightByKind
<1>6. ASSUME Steady', Absent(ZoneNews(z), wire')
      PROVE  states'[z] \in {Nothing, panel'.zone[z]}
  BY <1>1, <1>2, <1>3, <1>4, <1>5, <1>6, StillSettled
<1>7. ASSUME Settled', Absent(ZoneNews(z), wire'), ~resync', ha'
      PROVE  /\ shown'.zone[z] = panel'.zone[z]
             /\ shown'.attr[z] = "isolated" <=> z \in isolated'
  <2>1. Settled /\ Steady /\ Delivered /\ ~resync /\ ha
    BY <1>1, <1>7, StillSettled DEF Settled
  <2>2. ShowsZones(m)
    BY <1>1, <2>1
  <2>3. CASE m \in ZoneNews(z)
    BY <1>1, <1>3, <1>4, <1>5, <1>7, <2>2, <2>3 DEF ShowsZones
  <2>4. CASE m \notin ZoneNews(z)
    <3>1. /\ states[z] \in {Nothing, panel.zone[z]} /\ states'[z] = states[z]
          /\ shown.zone[z] = panel.zone[z]
          /\ shown.attr[z] = "isolated" <=> z \in isolated
      BY <1>2, <1>3, <1>4, <1>7, <2>1, <2>4
    <3>2. /\ \/ shown'.zone[z] = shown.zone[z]
             \/ states'[z] # Nothing /\ shown'.zone[z] = states'[z]
          /\ \/ shown'.attr[z] = "isolated" <=> z \in isolated'
             \/ shown'.attr[z] = shown.attr[z] /\ (z \in isolated' <=> z \in isolated)
      BY <2>2 DEF ShowsZones
    <3>3. QED
      BY <1>1, <3>1, <3>2
  <2>5. QED
    BY <2>3, <2>4
<1>8. QED
  BY <1>1, <1>3, <1>6, <1>7, RightsStay

\* the alarm card,
LEMMA HandledCard ==
  ASSUME SecInv, NEW m, Effect(m), Typed'
  PROVE  CardRight'
<1>1. /\ WireType /\ PanelType /\ Taken(m) /\ KnowsAlarm(m)
      /\ UNCHANGED <<panel, answered, resync, ha>>
      /\ IF Delivered THEN ShowsAlarm ELSE shown' = shown
  BY DEF SecInv, Typed, Effect, Taken
<1>2. /\ Newest(Setters, wire, RightSetters)
      /\ Settled /\ Absent(Setters, wire) =>
           \/ alarm.state = PhaseCard
           \/ answered /\ alarm.state = StateForArmMode(panel.mode)
      /\ Steady /\ ha /\ ~resync /\ alarm.state # Nothing => shown.card = alarm.state
  BY DEF SecInv, CardRight
<1>3. /\ Newest(Setters, wire', RightSetters)
      /\ Absent(Setters, wire') /\ m \in Setters => m \in RightSetters
      /\ Absent(Setters, wire') /\ m \notin Setters => Absent(Setters, wire)
  BY <1>1, <1>2, Taking
<1>k. m \in Message /\ \A kinds : m \in OfKinds(kinds) <=> m.reading.kind \in kinds
  BY <1>1, NewsByKind DEF Taken
<1>4. ASSUME Settled', Absent(Setters, wire'), m \in Setters
      PROVE  \/ alarm'.state = PhaseCard
             \/ answered /\ alarm'.state = StateForArmMode(panel.mode)
  <2>1. /\ \/ Says(m.reading) = PhaseCard
           \/ m.reading.kind = "status_report_1" /\ answered /\ m.reading.mode = panel.mode
        /\ Settled /\ Steady
    BY <1>1, <1>3, <1>4, RightByKind, StillSettled DEF Settled
  <2>2. ~Unheard(m)
    <3> SUFFICES ASSUME m.reading.kind = "entry_delay_started"
                 PROVE  alarm.state # "triggered"
      BY DEF Unheard
    <3>1. PhaseCard = "pending"
      BY <2>1 DEF Says
    <3>2. panel.phase # "alarm"
      BY <3>1 DEF PhaseCard
    <3> DEFINE M == OfKinds({"alarm_on", "system_arm"})
    <3>3. m \notin M /\ \A i \in DOMAIN wire' : wire'[i] \notin M
      <4>1. \A x : x \in M => x \in Setters
        BY DEF OfKinds, Setters
      <4>2. QED
        BY <1>4, <1>k, <4>1 DEF Absent
    <3>4. Absent(M, wire')
      BY <3>3 DEF Absent
    <3>5. /\ Newest(M, wire, OfKinds({"system_arm"}))
          /\ Steady /\ Absent(M, wire) => alarm.state # "triggered"
      BY <3>2 DEF SecInv, AlarmEnds
    <3>6. Absent(M, wire)
      BY <1>1, <3>3, <3>4, <3>5, Taking
    <3>7. QED
      BY <2>1, <3>5, <3>6
  <2>3. alarm'.state = Says(m.reading)
    BY <1>1, <1>4, <2>2 DEF KnowsAlarm
  <2>4. m.reading.kind = "status_report_1" => Says(m.reading) = StateForArmMode(m.reading.mode)
    BY DEF Says
  <2>5. QED
    BY <2>1, <2>3, <2>4
<1>5. ASSUME Settled', Absent(Setters, wire'), m \notin Setters
      PROVE  \/ alarm'.state = PhaseCard
             \/ answered /\ alarm'.state = StateForArmMode(panel.mode)
  <2>1. /\ \/ alarm.state = PhaseCard
           \/ answered /\ alarm.state = StateForArmMode(panel.mode)
        /\ Absent(Setters, wire)
    BY <1>1, <1>2, <1>3, <1>5, StillSettled
  <2>2. alarm.state # Nothing
    <3>1. \A mode : StateForArmMode(mode) # Nothing
      BY ArmModes DEF ArmedState, Nothing
    <3>2. PhaseCard # Nothing
      BY <3>1 DEF PhaseCard, Nothing
    <3>3. QED
      BY <2>1, <3>1, <3>2
  <2>3. m.reading.kind # "alarm_off"
    <3> DEFINE M == OfKinds({"alarm_off", "system_arm"})
    <3>1. Newest(M, wire, OfKinds({"system_arm"}))
      BY DEF SecInv, AlarmEnds
    <3>2. \A x \in Message : x \in OfKinds({"system_arm"}) => x \in Setters
      BY DEF OfKinds, Setters
    <3>3. \A i \in DOMAIN wire' : wire'[i] \notin OfKinds({"system_arm"})
      BY <1>5, <3>2 DEF Absent, OfKinds
    <3>4. m \notin OfKinds({"system_arm"})
      BY <1>5, <1>k, <3>2
    <3>5. SUFFICES ASSUME m.reading.kind = "alarm_off"
                   PROVE  FALSE
      OBVIOUS
    <3>6. m \in M
      BY <1>k, <3>5
    <3>7. ~Absent(M, wire')
      BY <1>1, <3>1, <3>4, <3>6, Taking
    <3>8. Newest(M, wire', OfKinds({"system_arm"}))
      BY <1>1, <3>1, Taking
    <3>9. wire' \in Seq(Message)
      BY DEF Typed, WireType
    <3>10. \E i \in DOMAIN wire' : wire'[i] \in OfKinds({"system_arm"})
      BY <3>7, <3>8, <3>9, NewestThere
    <3>11. QED
      BY <3>3, <3>10
  <2>4. alarm'.state = alarm.state
    BY <1>1, <1>5, <2>2, <2>3 DEF KnowsAlarm
  <2>5. QED
    BY <2>1, <2>4
<1>6. ASSUME Steady', ha, ~resync, alarm'.state # Nothing
      PROVE  shown'.card = alarm'.state
  <2>1. Steady /\ Delivered /\ ShowsAlarm
    BY <1>1, <1>6, StillSettled
  <2>2. CASE alarm'.state = alarm.state
    BY <1>2, <1>6, <2>1, <2>2 DEF ShowsAlarm
  <2>3. CASE alarm'.state # alarm.state
    BY <2>1, <2>3 DEF ShowsAlarm
  <2>4. QED
    BY <2>2, <2>3
<1>7. RightSetters' = RightSetters /\ PhaseCard' = PhaseCard
  BY <1>1, RightsStay
<1>8. QED
  BY <1>1, <1>3, <1>4, <1>5, <1>6, <1>7 DEF CardRight

\* the end of an alarm,
LEMMA HandledAlarmEnds ==
  ASSUME SecInv, NEW m, Effect(m), Typed'
  PROVE  AlarmEnds'
<1> DEFINE A == OfKinds({"alarm_off", "system_arm"})
           B == OfKinds({"alarm_on", "system_arm"})
           V == OfKinds({"system_arm"})
<1>1. /\ WireType /\ PanelType /\ Taken(m) /\ KnowsAlarm(m) /\ panel' = panel
  BY DEF SecInv, Typed, Effect, Taken
<1>2. /\ Newest(A, wire, V)
      /\ panel.phase # "alarm" =>
           /\ Newest(B, wire, V)
           /\ Steady /\ Absent(B, wire) => alarm.state # "triggered"
  BY DEF SecInv, AlarmEnds
<1>3. Newest(A, wire', V)
  BY <1>1, <1>2, Taking
<1>4. ASSUME panel.phase # "alarm"
      PROVE  Newest(B, wire', V) /\ (Steady' /\ Absent(B, wire') => alarm'.state # "triggered")
  <2>1. /\ Newest(B, wire', V)
        /\ Absent(B, wire') /\ m \in B => m \in V
        /\ Absent(B, wire') /\ m \notin B => Absent(B, wire)
    BY <1>1, <1>2, <1>4, Taking
  <2>2. ASSUME Steady', Absent(B, wire')
        PROVE  alarm'.state # "triggered"
    <3>k. m \in Message /\ \A kinds : m \in OfKinds(kinds) <=> m.reading.kind \in kinds
      BY <1>1, NewsByKind DEF Taken
    <3>1. CASE m \in B
      <4>1. m.reading.kind = "system_arm" /\ m \in Setters
        BY <2>1, <2>2, <3>1, <3>k, NewsByKind
      <4>2. alarm'.state = Says(m.reading)
        BY <1>1, <4>1 DEF KnowsAlarm, Unheard
      <4>3. QED
        BY <4>1, <4>2, ArmModes DEF Says, ArmedState
    <3>2. CASE m \notin B
      <4>1. alarm.state # "triggered"
        BY <1>1, <1>2, <1>4, <2>1, <2>2, <3>2, StillSettled
      <4>2. m.reading.kind # "alarm_on"
        BY <3>2, <3>k
      <4>3. Says(m.reading) # "triggered"
        BY <4>2, ArmModes DEF Says, ArmedState
      <4>4. QED
        BY <1>1, <4>1, <4>3 DEF KnowsAlarm
    <3>3. QED
      BY <3>1, <3>2
  <2>3. QED
    BY <2>1, <2>2
<1>5. QED
  BY <1>1, <1>3, <1>4 DEF AlarmEnds

\* and the mode.
LEMMA HandledModes ==
  ASSUME SecInv, NEW m, Effect(m), Typed'
  PROVE  ModeRight'
<1> DEFINE A == {x \in Message : x.armed} \union OfKinds({"system_arm"})
           V == OfKinds({"system_arm"})
<1>1. /\ WireType /\ PanelType /\ Taken(m) /\ KnowsAlarm(m) /\ UNCHANGED <<panel, answered>>
  BY DEF SecInv, Typed, Effect, Taken
<1>2. /\ Newest(Modes, wire, RightModes)
      /\ panel.mode = 0 => Newest(A, wire, V)
      /\ Settled /\ panel.mode # 0 /\ Absent(Modes, wire) => alarm.state \notin {Nothing, "disarmed"}
  BY DEF SecInv, ModeRight
<1>3. /\ Newest(Modes, wire', RightModes)
      /\ Absent(Modes, wire') /\ m \in Modes => m \in RightModes
      /\ Absent(Modes, wire') /\ m \notin Modes => Absent(Modes, wire)
  BY <1>1, <1>2, Taking
<1>4. panel.mode = 0 => Newest(A, wire', V)
  BY <1>1, <1>2, Taking
<1>5. ASSUME Settled', panel.mode # 0, Absent(Modes, wire')
      PROVE  alarm'.state \notin {Nothing, "disarmed"}
  <2>k. /\ m \in Message /\ (m \in Modes <=> m.reading.kind \in Telling)
        /\ m \in Setters <=> m.reading.kind \in {"exit_delay_started", "entry_delay_started",
                                                 "alarm_on", "system_arm", "status_report_1"}
    BY <1>1, NewsByKind DEF Taken
  <2>1. CASE m \in Modes
    <3>1. m.reading.mode = panel.mode /\ m.reading.kind \in Telling
      BY <1>3, <1>5, <2>1, <2>k, RightByKind
    <3>2. alarm'.state = StateForArmMode(panel.mode)
      BY <1>1, <2>k, <3>1 DEF KnowsAlarm, Unheard, Says, Telling
    <3>3. QED
      BY <1>5, <3>2, ArmModes DEF ArmedState, Nothing
  <2>2. CASE m \notin Modes
    <3>1. alarm.state \notin {Nothing, "disarmed"}
      BY <1>1, <1>2, <1>3, <1>5, <2>2, StillSettled
    <3>2. m.reading.kind # "alarm_off"
      <4> DEFINE O == OfKinds({"alarm_off", "system_arm"})
      <4>1. Newest(O, wire, V)
        BY DEF SecInv, AlarmEnds
      <4>2. SUFFICES ASSUME m.reading.kind = "alarm_off"
                     PROVE  FALSE
        OBVIOUS
      <4>3. m \in O /\ m \notin V
        BY <2>k, <4>2, NewsByKind
      <4>4. ~Absent(O, wire') /\ Newest(O, wire', V)
        BY <1>1, <4>1, <4>3, Taking
      <4>5. wire' \in Seq(Message)
        BY DEF Typed, WireType
      <4>6. \E i \in DOMAIN wire' : wire'[i] \in V
        BY <4>4, <4>5, NewestThere
      <4>7. QED
        BY <1>5, <4>6 DEF Absent, Modes, OfKinds, Telling
    <3>3. Says(m.reading) \notin {Nothing, "disarmed"} \/ m \notin Setters
      BY <2>2, <2>k DEF Says, Telling, Nothing
    <3>4. QED
      BY <1>1, <3>1, <3>2, <3>3 DEF KnowsAlarm
  <2>3. QED
    BY <2>1, <2>2
<1>6. RightModes' = RightModes
  BY <1>1, RightsStay
<1>7. QED
  BY <1>1, <1>3, <1>4, <1>5, <1>6 DEF ModeRight

\* So handling a message keeps the invariant.
LEMMA HandlePreserves == SecInv /\ Handle => SecInv'
<1> SUFFICES ASSUME SecInv, Handle
             PROVE  SecInv'
  OBVIOUS
<1>1. PICK m : m = Head(wire)
  OBVIOUS
<1>2. Effect(m) /\ Typed'
  BY <1>1, HandlesOne DEF SecInv
<1>3. LampsShown'
  BY <1>2 DEF Effect
<1>4. QED
  BY <1>2, <1>3, HandledSession, HandledTrouble, HandledIsolation, HandledZones, HandledCard,
     HandledAlarmEnds, HandledModes DEF SecInv

-----------------------------------------------------------------------------
(* The steps of the bridge and of Home Assistant *)

\* A step that leaves the event connection alone and makes the tracker learn nothing.
LEMMA QuietStep ==
  ASSUME SecInv, Typed', SessionSound', LampsShown',
         UNCHANGED <<panel, answered, wire, lost, cond, isolated>>,
         \A z \in Zone : states'[z] \in {Nothing, states[z]},
         alarm'.state \in {Nothing, alarm.state},
         Steady' => \/ Steady
                    \/ alarm'.state = Nothing /\ \A z \in Zone : states'[z] = Nothing,
         Settled' => Settled /\ alarm'.state = alarm.state,
         Settled' /\ ~resync' /\ ha' => ~resync /\ ha /\ shown' = shown,
         Steady' /\ ha' /\ ~resync' /\ alarm'.state # Nothing =>
           Steady /\ ha /\ ~resync /\ shown' = shown
  PROVE  SecInv'
<1>1. /\ RightSetters' = RightSetters /\ RightModes' = RightModes /\ PhaseCard' = PhaseCard
      /\ \A z \in Zone : RightZones(z)' = RightZones(z)
      /\ \A z \in Zone : RightIsolations(z)' = RightIsolations(z)
      /\ \A c \in Condition : RightTroubles(c)' = RightTroubles(c)
  BY RightsStay
<1>2. PanelSound'
  BY DEF SecInv, PanelSound
<1>3. TroubleRight'
  BY <1>1 DEF SecInv, TroubleRight
<1>4. IsolationRight'
  BY <1>1 DEF SecInv, IsolationRight
<1>5. IsolationEnds'
  BY DEF SecInv, IsolationEnds
<1>6. ZonesRight'
  <2> SUFFICES ASSUME NEW z \in Zone
               PROVE  /\ Newest(ZoneNews(z), wire', RightZones(z)')
                      /\ Steady' /\ Absent(ZoneNews(z), wire') =>
                           /\ states'[z] \in {Nothing, panel'.zone[z]}
                           /\ Settled' /\ ~resync' /\ ha' =>
                                /\ shown'.zone[z] = panel'.zone[z]
                                /\ shown'.attr[z] = "isolated" <=> z \in isolated'
    BY DEF ZonesRight
  <2>1. /\ Newest(ZoneNews(z), wire, RightZones(z))
        /\ Steady /\ Absent(ZoneNews(z), wire) =>
             /\ states[z] \in {Nothing, panel.zone[z]}
             /\ Settled /\ ~resync /\ ha => /\ shown.zone[z] = panel.zone[z]
                                            /\ shown.attr[z] = "isolated" <=> z \in isolated
    BY DEF SecInv, ZonesRight
  <2>2. states'[z] \in {Nothing, states[z]} /\ (Steady' => Steady \/ states'[z] = Nothing)
    OBVIOUS
  <2>3. Settled' => Steady
    BY DEF Settled
  <2>4. QED
    BY <1>1, <2>1, <2>2, <2>3
<1>7. CardRight'
  BY <1>1 DEF SecInv, CardRight
<1>8. AlarmEnds'
  <2>1. alarm.state # "triggered" => alarm'.state # "triggered"
    BY DEF Nothing
  <2>2. alarm'.state = Nothing => alarm'.state # "triggered"
    BY DEF Nothing
  <2>3. QED
    BY <2>1, <2>2 DEF SecInv, AlarmEnds
<1>9. ModeRight'
  BY <1>1 DEF SecInv, ModeRight
<1>10. QED
  BY <1>2, <1>3, <1>4, <1>5, <1>6, <1>7, <1>8, <1>9 DEF SecInv

\* What was on the event connection is lost.
LEMMA WireIsLost ==
  ASSUME SecInv, Typed', SessionSound', LampsShown',
         UNCHANGED <<panel, answered, cond, isolated>>,
         wire' = <<>>, lost' = lost \union AboutAll(OnWire), ~Steady'
  PROVE  SecInv'
<1>1. \A M, V : Newest(M, wire', V) /\ Absent(M, wire')
  BY NewestEmpty
<1>2. \A x : x \notin lost' => x \notin lost /\ \A i \in DOMAIN wire : x \notin About(wire[i].reading)
  BY DEF AboutAll, OnWire
<1>3. \A i \in DOMAIN wire : wire[i] \in Message /\ wire[i].reading \in AnyReading
  <2>1. wire \in Seq(Message)
    BY DEF SecInv, Typed, WireType
  <2>2. QED
    BY <2>1, MessageFields
<1>4. TroubleRight'
  <2>1. \A c \in Condition : c \notin lost' => Absent(TroubleNews(c), wire)
    BY <1>2 DEF Absent, TroubleNews
  <2>2. QED
    BY <1>1, <1>2, <2>1 DEF SecInv, TroubleRight
<1>5. IsolationRight'
  <2>1. "isolation" \notin lost' => \A z \in Zone : Absent(IsolationNews(z), wire)
    <3> SUFFICES ASSUME "isolation" \notin lost', NEW z \in Zone, NEW i \in DOMAIN wire
                 PROVE  wire[i] \notin IsolationNews(z)
      BY DEF Absent
    <3>1. ~Clears(wire[i].reading) /\ wire[i].reading.kind # "zone_isolated"
      BY <1>2, <1>3, Isolation
    <3>2. QED
      BY <1>3, <3>1, NewsByKind
  <2>2. QED
    BY <1>1, <1>2, <2>1 DEF SecInv, IsolationRight
<1>6. IsolationEnds' /\ ZonesRight' /\ CardRight' /\ AlarmEnds' /\ ModeRight' /\ PanelSound'
  BY <1>1 DEF SecInv, Settled, IsolationEnds, ZonesRight, CardRight, AlarmEnds, ModeRight, PanelSound
<1>7. QED
  BY <1>4, <1>5, <1>6 DEF SecInv

\* The tracker forgets the state of the alarm where a sync is due.
LEMMA Syncs ==
  ASSUME Typed, NEW trigger, RequestStatusSync(trigger)
  PROVE  /\ slots' = slots \union SlotOf(trigger) /\ slots' \subseteq {"early", "postSync"}
         /\ asked' \in Nat
         /\ \/ asked' = asked /\ alarm' = alarm /\ SlotOf(trigger) \intersect slots # {}
            \/ asked' > 0 /\ alarm'.state = Nothing
         /\ AlarmType' /\ alarm'.pre = alarm.pre
<1>1. asked \in Nat /\ slots \subseteq {"early", "postSync"} /\ AlarmType
  BY DEF Typed, PanelType, TrackerType
<1>2. /\ slots' = slots \union SlotOf(trigger)
      /\ asked' = IF Due(trigger) THEN asked + 1 ELSE asked
      /\ alarm' = IF Due(trigger) THEN Forget ELSE alarm
  BY DEF RequestStatusSync, AskPanel
<1>3. SlotOf(trigger) \in {{"early"}, {"postSync"}, {}}
  BY DEF SlotOf
<1>4. asked + 1 \in Nat /\ asked + 1 > 0
  BY <1>1
<1> DEFINE new == Forget
<1>5. new \in [state : AlarmState \union {Nothing}, pre : AlarmState \union {Nothing},
               blocking : Zone \union {Nothing}, mode : Mode \union {NoMode}]
  BY <1>1 DEF AlarmType, Forget
<1>6. new.state = Nothing /\ new.pre = alarm.pre
  BY <1>1 DEF AlarmType, Forget
<1> HIDE DEF new
<1>7. CASE Due(trigger)
  <2>1. alarm' = new /\ asked' = asked + 1
    BY <1>2, <1>7 DEF new
  <2>2. QED
    BY <1>1, <1>2, <1>3, <1>4, <1>5, <1>6, <2>1 DEF AlarmType
<1>8. CASE ~Due(trigger)
  <2>1. SlotOf(trigger) \intersect slots # {}
    BY <1>8 DEF Due
  <2>2. alarm' = alarm /\ asked' = asked
    BY <1>2, <1>8
  <2>3. QED
    BY <1>1, <1>2, <1>3, <2>1, <2>2 DEF AlarmType
<1>9. QED
  BY <1>7, <1>8

\* A step that asks for a sync, and its connections come up at most.
LEMMA SyncPreserves ==
  ASSUME SecInv, NEW trigger, RequestStatusSync(trigger),
         UNCHANGED <<world, wire, shown, unseen, cond, states, isolated, file, announced, answered,
                     missed, lost>>,
         \/ resync' = resync
         \/ resync' = TRUE
         \/ resync' = FALSE /\ SlotOf(trigger) = {},
         \/ up' = up /\ SlotOf(trigger) \subseteq {"postSync"}
         \/ up \in {"online", "dropped"} /\ up' = "ready" /\ SlotOf(trigger) = {"early"}
  PROVE  SecInv'
<1>1. /\ PanelType /\ WireType /\ ShownType /\ TrackerType /\ LampsShown /\ SessionSound
  BY DEF SecInv, Typed
<1>2. /\ slots' = slots \union SlotOf(trigger) /\ slots' \subseteq {"early", "postSync"}
      /\ asked' \in Nat
      /\ \/ asked' = asked /\ alarm' = alarm /\ SlotOf(trigger) \intersect slots # {}
         \/ asked' > 0 /\ alarm'.state = Nothing
      /\ AlarmType' /\ alarm'.pre = alarm.pre
  BY Syncs DEF SecInv
<1>3. UNCHANGED <<panel, ha, wire, shown, unseen, cond, states, isolated, file, announced, answered,
                  missed, lost>>
  BY DEF world
<1>4. Typed' /\ LampsShown'
  <2>1. up' \in {"down", "connecting", "online", "ready", "dropped"}
    BY <1>1 DEF WireType
  <2>2. up' \in {"down", "dropped"} => up' = up
    OBVIOUS
  <2>3. resync' \in BOOLEAN
    BY <1>1 DEF TrackerType
  <2>4. PanelType'
    BY <1>1, <1>2, <1>3 DEF PanelType
  <2>5. WireType'
    BY <1>1, <1>3, <2>1, <2>2 DEF WireType
  <2>6. ShownType' /\ LampsShown'
    BY <1>1, <1>3 DEF ShownType, LampsShown
  <2>7. TrackerType'
    BY <1>1, <1>2, <1>3, <2>3 DEF TrackerType
  <2>8. QED
    BY <2>4, <2>5, <2>6, <2>7 DEF Typed
<1>5. asked' > 0 => ~Settled'
  BY DEF Settled
<1>6. Steady' => Steady
  BY <1>3 DEF Steady
<1>7. asked' = asked /\ Settled' => Settled
  BY <1>2, <1>3, <1>6 DEF Settled
<1>8. SessionSound'
  BY <1>1, <1>2, <1>3 DEF SessionSound
<1>9. alarm'.state \in {Nothing, alarm.state} /\ \A z \in Zone : states'[z] \in {Nothing, states[z]}
  BY <1>2, <1>3
<1>10. Settled' => Settled /\ alarm'.state = alarm.state
  BY <1>2, <1>5, <1>7
<1>11. Settled' /\ ~resync' /\ ha' => ~resync /\ ha /\ shown' = shown
  BY <1>2, <1>3, <1>5
<1>12. alarm'.state # Nothing /\ ~resync' => ~resync
  BY <1>2
<1>13. QED
  BY <1>3, <1>4, <1>6, <1>8, <1>9, <1>10, <1>11, <1>12, QuietStep

\* The slots of the requests for a report.
LEMMA Slots == /\ SlotOf("resync") = {} /\ SlotOf("sync") = {"postSync"}
               /\ SlotOf("connect") = {"early"}
BY DEF SlotOf

\* So do the requests for a status report,
LEMMA SyncsPreserve ==
  SecInv /\ (ResyncFires \/ NetworkSyncComplete \/ AllConnected) => SecInv'
<1>1. ASSUME SecInv, ResyncFires
      PROVE  SecInv'
  BY <1>1, Slots, SyncPreserves DEF ResyncFires
<1>2. ASSUME SecInv, NetworkSyncComplete
      PROVE  SecInv'
  BY <1>2, Slots, SyncPreserves DEF NetworkSyncComplete
<1>3. ASSUME SecInv, AllConnected
      PROVE  SecInv'
  BY <1>3, Slots, SyncPreserves DEF AllConnected
<1>4. QED
  BY <1>1, <1>2, <1>3

\* a crash,
LEMMA CrashPreserves == SecInv /\ Crash => SecInv'
<1> SUFFICES ASSUME SecInv, Crash
             PROVE  SecInv'
  OBVIOUS
<1>1. /\ PanelType /\ WireType /\ ShownType /\ TrackerType /\ LampsShown
  BY DEF SecInv, Typed
<1>2. /\ up' = "down" /\ wire' = <<>> /\ lost' = lost \union AboutAll(OnWire)
      /\ asked' \in {asked, 0} /\ resync' = FALSE
      /\ UNCHANGED <<panel, ha, shown, unseen, alarm, cond, states, isolated, announced, file, slots,
                     answered, missed>>
  BY DEF Crash, world, tracker
<1>3. AboutAll(OnWire) \subseteq Condition \union {"isolation"}
  <2>1. \A i \in DOMAIN wire : wire[i] \in Message
    BY <1>1 DEF WireType
  <2>2. \A i \in DOMAIN wire : About(wire[i].reading) \subseteq Condition \union {"isolation"}
    BY <2>1, MessageFields, Isolation
  <2>3. QED
    BY <2>2 DEF AboutAll, OnWire
<1>4. Typed'
  <2>1. PanelType' /\ asked' \in Nat
    BY <1>1, <1>2 DEF PanelType
  <2>2. WireType'
    BY <1>1, <1>2, <1>3 DEF WireType
  <2>3. ShownType'
    BY <1>1, <1>2 DEF ShownType
  <2>4. TrackerType'
    BY <1>1, <1>2 DEF TrackerType, AlarmType
  <2>5. QED
    BY <2>1, <2>2, <2>3, <2>4 DEF Typed
<1>5. LampsShown' /\ ~Steady' /\ SessionSound'
  BY <1>1, <1>2 DEF LampsShown, Steady, SessionSound
<1>6. QED
  BY <1>2, <1>4, <1>5, WireIsLost

\* a connection that is lost,
LEMMA ConnectionLostPreserves == SecInv /\ EventConnectionLost => SecInv'
<1> SUFFICES ASSUME SecInv, EventConnectionLost
             PROVE  SecInv'
  OBVIOUS
<1>1. /\ PanelType /\ WireType /\ ShownType /\ TrackerType /\ LampsShown
  BY DEF SecInv, Typed
<1>2. /\ up = "ready" /\ up' = "dropped" /\ wire' = <<>> /\ lost' = lost \union AboutAll(OnWire)
      /\ missed' = (missed \/ wire # <<>>)
      /\ UNCHANGED <<panel, ha, asked, shown, unseen, alarm, cond, states, isolated, announced, file,
                     slots, resync, answered>>
  BY DEF EventConnectionLost, world, tracker
<1>3. \A i \in DOMAIN wire : About(wire[i].reading) \subseteq Condition \union {"isolation"}
  <2>1. \A i \in DOMAIN wire : wire[i] \in Message
    BY <1>1 DEF WireType
  <2>2. QED
    BY <2>1, MessageFields, Isolation
<1>4. Typed'
  <2>1. AboutAll(OnWire) \subseteq Condition \union {"isolation"}
    BY <1>3 DEF AboutAll, OnWire
  <2>2. PanelType'
    BY <1>1, <1>2 DEF PanelType
  <2>3. WireType'
    BY <1>1, <1>2, <2>1 DEF WireType
  <2>4. ShownType'
    BY <1>1, <1>2 DEF ShownType
  <2>5. TrackerType'
    BY <1>1, <1>2 DEF TrackerType, AlarmType
  <2>6. QED
    BY <2>2, <2>3, <2>4, <2>5 DEF Typed
<1>5. LampsShown' /\ SessionSound'
  BY <1>1, <1>2 DEF LampsShown, SessionSound
<1>6. CASE wire # <<>>
  <2>1. ~Steady'
    BY <1>2, <1>6 DEF Steady
  <2>2. QED
    BY <1>2, <1>4, <1>5, <2>1, WireIsLost
<1>7. CASE wire = <<>>
  <2>1. lost' = lost
    <3>1. AboutAll(OnWire) = {}
      BY <1>7 DEF AboutAll, OnWire
    <3>2. QED
      BY <1>2, <3>1
  <2>2. (Steady' => Steady) /\ (Settled' => Settled)
    BY <1>1, <1>2, <1>7 DEF WireType, Steady, Settled
  <2>3. \A z \in Zone : states'[z] \in {Nothing, states[z]}
    BY <1>2
  <2>4. QED
    BY <1>2, <1>4, <1>5, <1>7, <2>1, <2>2, <2>3, QuietStep
<1>8. QED
  BY <1>6, <1>7

\* the start of the bridge,
LEMMA StartPreserves == SecInv /\ BridgeStarts => SecInv'
<1> SUFFICES ASSUME SecInv, BridgeStarts
             PROVE  SecInv'
  OBVIOUS
<1>1. /\ PanelType /\ WireType /\ ShownType /\ TrackerType /\ LampsShown
  BY DEF SecInv, Typed
<1>2. /\ up = "down" /\ up' = "connecting"
      /\ alarm' = NewAlarm /\ states' = [z \in Zone |-> Nothing]
      /\ cond' = file.cond /\ isolated' = file.isolated
      /\ slots' = {} /\ announced' = FALSE /\ missed' = FALSE
      /\ UNCHANGED <<panel, ha, wire, asked, shown, unseen, file, resync, answered, lost>>
  BY DEF BridgeStarts, world
<1>3. cond' = cond /\ isolated' = isolated
  BY <1>1, <1>2 DEF TrackerType
<1>4. /\ AlarmType' /\ alarm'.state = Nothing /\ alarm'.pre # "triggered"
  BY <1>2 DEF AlarmType, NewAlarm, Nothing, NoMode
<1>5. Typed'
  <2>1. PanelType'
    BY <1>1, <1>2 DEF PanelType
  <2>2. WireType'
    BY <1>1, <1>2 DEF WireType
  <2>3. ShownType'
    BY <1>1, <1>2 DEF ShownType
  <2>4. TrackerType'
    BY <1>1, <1>2, <1>3, <1>4 DEF TrackerType
  <2>5. QED
    BY <2>1, <2>2, <2>3, <2>4 DEF Typed
<1>6. LampsShown' /\ SessionSound' /\ ~Settled'
  BY <1>1, <1>2, <1>3, <1>4 DEF LampsShown, SessionSound, Settled
<1>7. \A z \in Zone : states'[z] = Nothing
  BY <1>2
<1>8. QED
  BY <1>2, <1>3, <1>4, <1>5, <1>6, <1>7, QuietStep

\* a broker that is back,
LEMMA BrokerPreserves == SecInv /\ BrokerConnected => SecInv'
<1> SUFFICES ASSUME SecInv, BrokerConnected
             PROVE  SecInv'
  OBVIOUS
<1>1. /\ PanelType /\ WireType /\ ShownType /\ TrackerType /\ LampsShown
  BY DEF SecInv, Typed
<1>2. /\ up = "connecting" /\ up' = "online"
      /\ UNCHANGED <<panel, ha, wire, asked, shown, unseen, alarm, cond, states, isolated, announced,
                     file, slots, resync, answered, missed, lost>>
  BY DEF BrokerConnected, world, tracker
<1>3. Typed'
  <2>1. PanelType'
    BY <1>1, <1>2 DEF PanelType
  <2>2. WireType'
    BY <1>1, <1>2 DEF WireType
  <2>3. ShownType'
    BY <1>1, <1>2 DEF ShownType
  <2>4. TrackerType'
    BY <1>1, <1>2 DEF TrackerType, AlarmType
  <2>5. QED
    BY <2>1, <2>2, <2>3, <2>4 DEF Typed
<1>4. LampsShown' /\ SessionSound'
  BY <1>1, <1>2 DEF LampsShown, SessionSound
<1>5. (Steady' => Steady) /\ (Settled' => Settled)
  BY <1>2 DEF Steady, Settled
<1>6. \A z \in Zone : states'[z] \in {Nothing, states[z]}
  BY <1>2
<1>7. QED
  BY <1>2, <1>3, <1>4, <1>5, <1>6, QuietStep

\* and Home Assistant that goes or comes.
LEMMA HaPreserves == SecInv /\ (HaStops \/ HaStarts) => SecInv'
<1> SUFFICES ASSUME SecInv, HaStops \/ HaStarts
             PROVE  SecInv'
  OBVIOUS
<1>1. /\ PanelType /\ WireType /\ ShownType /\ TrackerType /\ LampsShown /\ SessionSound
  BY DEF SecInv, Typed
<1>2. /\ UNCHANGED <<panel, wire, asked, up, alarm, cond, states, isolated, announced, file, slots,
                     answered, missed, lost>>
      /\ \/ ha' = FALSE /\ shown' = Blank /\ unseen' = {} /\ resync' = resync
         \/ ha' = TRUE /\ ~ha /\ UNCHANGED <<shown, unseen>>
            /\ resync' = (resync \/ up \in {"online", "ready", "dropped"})
  BY DEF HaStops, HaStarts, tracker
<1>3. Typed'
  <2>1. PanelType'
    BY <1>1, <1>2 DEF PanelType
  <2>2. WireType'
    BY <1>1, <1>2 DEF WireType
  <2>3. ShownType'
    <3>1. Blank \in [card : AlarmState \union {"unknown"},
                     lamp : [Condition -> {"ON", "OFF", "unknown"}],
                     zone : [Zone -> ZoneState \union {"unknown"}],
                     attr : [Zone -> {"isolated", "plain", "unknown"}]]
      BY DEF Blank
    <3>2. Blank' = Blank
      BY DEF Blank
    <3>3. QED
      BY <1>1, <1>2, <3>1, <3>2 DEF ShownType
  <2>4. resync' \in BOOLEAN
    BY <1>1, <1>2 DEF TrackerType
  <2>5. TrackerType'
    BY <1>1, <1>2, <2>4 DEF TrackerType, AlarmType
  <2>6. QED
    BY <2>1, <2>2, <2>3, <2>5 DEF Typed
<1>4. LampsShown' /\ SessionSound'
  <2>1. LampsShown'
    BY <1>1, <1>2 DEF LampsShown, Blank
  <2>2. QED
    BY <1>1, <1>2, <2>1 DEF SessionSound
<1>5. (Steady' => Steady) /\ (Settled' => Settled)
  BY <1>2 DEF Steady, Settled
<1>6. \A z \in Zone : states'[z] \in {Nothing, states[z]}
  BY <1>2
<1>7. ha' /\ ~resync' /\ Steady => "early" \notin slots /\ alarm.state = Nothing
  BY <1>1, <1>2 DEF Steady, SessionSound, WireType
<1>8. Settled => "early" \in slots /\ Steady
  BY DEF Settled
<1>9. QED
  BY <1>2, <1>3, <1>4, <1>5, <1>6, <1>7, <1>8, QuietStep

-----------------------------------------------------------------------------
(* The steps of the panel *)

\* The messages sent go out on the event connection, or are lost with it.
Sends(sent) ==
  /\ sent \in Seq(Message)
  /\ wire' = IF Heard THEN wire \o sent ELSE wire
  /\ missed' = (missed \/ up = "dropped")
  /\ \A x : x \in lost' <=>
       IF Heard THEN x \in lost /\ \A i \in DOMAIN sent : x \notin Settles(sent[i].reading)
       ELSE x \in lost \/ \E i \in DOMAIN sent : x \in About(sent[i].reading)
  /\ UNCHANGED <<ha, shown, unseen, up, alarm, cond, states, isolated, announced, file, slots, resync>>

\* The message m says what is after the step.
Correct(m) ==
  /\ m \in Setters => m \in RightSetters'
  /\ m \in Modes => m \in RightModes'
  /\ \A z \in Zone : /\ m \in ZoneNews(z) => m \in RightZones(z)'
                     /\ m \in IsolationNews(z) => m \in RightIsolations(z)'
  /\ \A c \in Condition : m \in TroubleNews(c) => m \in RightTroubles(c)'
  /\ panel'.mode = 0 => ~m.armed

\* What the messages sent say nothing about stays as it is.
Silent(sent) ==
  /\ Absent(Setters, sent) => PhaseCard' = PhaseCard /\ answered' = answered
  /\ Absent(Modes, sent) => panel'.mode = panel.mode
  /\ \A z \in Zone :
       /\ Absent(ZoneNews(z), sent) => panel'.zone[z] = panel.zone[z]
       /\ Absent(IsolationNews(z), sent) => (z \in panel'.bypassed <=> z \in panel.bypassed)
  /\ \A c \in Condition :
       Absent(TroubleNews(c), sent) => (c \in panel'.trouble <=> c \in panel.trouble)

\* An alarm ends in an arming or a disarming, and only a disarming ends an arm mode.
Ending(sent) ==
  /\ Newest(OfKinds({"alarm_off", "system_arm"}), sent, OfKinds({"system_arm"}))
  /\ panel'.phase # "alarm" =>
       /\ Newest(OfKinds({"alarm_on", "system_arm"}), sent, OfKinds({"system_arm"}))
       /\ panel.phase # "alarm" \/ ~Absent(OfKinds({"alarm_on", "system_arm"}), sent)
  /\ panel'.mode = 0 /\ panel.mode # 0 =>
       /\ ~Absent(OfKinds({"system_arm"}), sent)
       /\ \A z \in Zone : ~Absent(IsolationNews(z), sent)

\* The last answer that is awaited says everything a report says.
Answers(sent) == asked' # asked =>
  /\ ~Absent(Setters, sent) /\ ~Absent(Modes, sent)
  /\ \A z \in Zone : /\ ~Absent(ZoneNews(z), sent)
                     /\ panel'.mode = 0 => ~Absent(IsolationNews(z), sent)

Tells(sent) == /\ Sends(sent)
               /\ Heard => \A i \in DOMAIN sent : Correct(sent[i])
               /\ Silent(sent) /\ Ending(sent) /\ Answers(sent)
               /\ PanelType' /\ PanelSound'

\* The readings that settle something are about it.
LEMMA SettlesAbout == \A r \in AnyReading :
  /\ \A c \in Condition : c \in Settles(r) <=> c \in About(r) 
  /\ "isolation" \in Settles(r) <=> Clears(r)
<1> TAKE r \in AnyReading
<1>1. \A c \in Condition : c # "isolation"
  BY NotACondition
<1>2. CASE r.kind = "zone_isolated"
  BY <1>1, <1>2, AboutByKind DEF Settles, Clears, Telling
<1>3. CASE r.kind # "zone_isolated"
  BY <1>3, Isolation DEF Settles
<1>4. QED
  BY <1>2, <1>3

\* What was sent and not heard.
LEMMA UnheardPreserves ==
  ASSUME SecInv, NEW sent, Tells(sent), ~Heard
  PROVE  SecInv'
<1>1. /\ PanelType /\ WireType /\ ShownType /\ TrackerType /\ LampsShown /\ SessionSound
      /\ TroubleRight /\ IsolationRight
  BY DEF SecInv, Typed
<1>2. /\ sent \in Seq(Message) /\ missed' = (missed \/ up = "dropped")
      /\ \A x : x \in lost' <=> x \in lost \/ \E i \in DOMAIN sent : x \in About(sent[i].reading)
      /\ UNCHANGED <<ha, shown, unseen, up, alarm, cond, states, isolated, announced, file, slots,
                     resync, wire>>
      /\ PanelType' /\ PanelSound'
  BY DEF Tells, Sends
<1>3. up \in {"down", "dropped"} /\ wire = <<>> /\ wire' = <<>> /\ ~Steady'
  BY <1>1, <1>2 DEF WireType, Heard, Steady
<1>4. \A i \in DOMAIN sent : sent[i] \in Message /\ sent[i].reading \in AnyReading
  BY <1>2, MessageFields
<1>5. Typed'
  <2>1. lost' \subseteq Condition \union {"isolation"}
    BY <1>1, <1>2, <1>4, Isolation DEF WireType
  <2>2. WireType'
    BY <1>1, <1>2, <1>3, <2>1 DEF WireType
  <2>3. ShownType' /\ TrackerType'
    BY <1>1, <1>2 DEF ShownType, TrackerType, AlarmType
  <2>4. QED
    BY <1>2, <2>2, <2>3 DEF Typed
<1>6. LampsShown' /\ SessionSound'
  BY <1>1, <1>2, <1>3 DEF LampsShown, SessionSound
<1>7. \A M, V : Newest(M, wire, V) /\ Absent(M, wire) /\ Newest(M, wire', V) /\ Absent(M, wire')
  BY <1>3, NewestEmpty
<1>8. TroubleRight'
  <2> SUFFICES ASSUME NEW c \in Condition, c \notin lost'
               PROVE  c \in cond' <=> c \in panel'.trouble
    BY <1>7 DEF TroubleRight
  <2>1. c \notin lost /\ Absent(TroubleNews(c), sent)
    BY <1>2 DEF Absent, TroubleNews
  <2>2. c \in panel'.trouble <=> c \in panel.trouble
    BY <2>1 DEF Tells, Silent
  <2>3. c \in cond <=> c \in panel.trouble
    BY <1>1, <1>7, <2>1 DEF TroubleRight
  <2>4. QED
    BY <1>2, <2>2, <2>3
<1>9. IsolationRight'
  <2> SUFFICES ASSUME "isolation" \notin lost', NEW z \in Zone
               PROVE  z \in isolated' <=> z \in panel'.bypassed
    BY <1>7 DEF IsolationRight
  <2>1. "isolation" \notin lost
    BY <1>2
  <2>2. Absent(IsolationNews(z), sent)
    <3> SUFFICES ASSUME NEW i \in DOMAIN sent
                 PROVE  sent[i] \notin IsolationNews(z)
      BY DEF Absent
    <3>1. ~Clears(sent[i].reading) /\ sent[i].reading.kind # "zone_isolated"
      BY <1>2, <1>4, Isolation
    <3>2. QED
      BY <1>4, <3>1, NewsByKind
  <2>3. z \in panel'.bypassed <=> z \in panel.bypassed
    BY <2>2 DEF Tells, Silent
  <2>4. z \in isolated <=> z \in panel.bypassed
    BY <1>1, <1>7, <2>1 DEF IsolationRight
  <2>5. QED
    BY <1>2, <2>3, <2>4
<1>10. IsolationEnds' /\ ZonesRight' /\ CardRight' /\ AlarmEnds' /\ ModeRight'
  BY <1>3, <1>7 DEF Settled, IsolationEnds, ZonesRight, CardRight, AlarmEnds, ModeRight
<1>11. QED
  BY <1>2, <1>5, <1>6, <1>8, <1>9, <1>10 DEF SecInv

\* What was sent and will be heard: the invariant part by part.
LEMMA HeardFacts ==
  ASSUME SecInv, NEW sent, Tells(sent), Heard
  PROVE  /\ wire \in Seq(Message) /\ sent \in Seq(Message) /\ wire' = wire \o sent
         /\ UNCHANGED <<ha, shown, unseen, up, alarm, cond, states, isolated, announced, file, slots,
                        resync, missed>>
         /\ \A i \in DOMAIN sent : Correct(sent[i]) /\ sent[i] \in Message
         /\ Steady' <=> Steady
         /\ Settled' /\ asked' = asked => Settled
<1>1. WireType
  BY DEF SecInv, Typed
<1>2. up \notin {"down", "dropped"}
  BY DEF Heard
<1>3. missed' = missed
  BY <1>1, <1>2 DEF Tells, Sends, WireType
<1>4. QED
  BY <1>1, <1>2, <1>3 DEF Tells, Sends, WireType, Steady, Settled

\* Something the panel sends keeps each part of the invariant: the types,
LEMMA HeardTyped ==
  ASSUME SecInv, NEW sent, Tells(sent), Heard
  PROVE  Typed' /\ LampsShown' /\ SessionSound' /\ PanelSound'
<1>1. /\ WireType /\ ShownType /\ TrackerType /\ LampsShown /\ SessionSound
  BY DEF SecInv, Typed
<1>2. /\ wire \in Seq(Message) /\ sent \in Seq(Message) /\ wire' = wire \o sent
      /\ UNCHANGED <<ha, shown, unseen, up, alarm, cond, states, isolated, announced, file, slots,
                     resync, missed>>
  BY HeardFacts
<1>3. wire' \in Seq(Message) /\ up \notin {"down", "dropped"}
  BY <1>2 DEF Heard
<1>4. lost' \subseteq lost
  BY DEF Tells, Sends
<1>5. WireType'
  BY <1>1, <1>2, <1>3, <1>4 DEF WireType
<1>6. ShownType' /\ TrackerType'
  BY <1>1, <1>2 DEF ShownType, TrackerType, AlarmType
<1>7. LampsShown' /\ SessionSound'
  BY <1>1, <1>2 DEF LampsShown, SessionSound
<1>8. QED
  BY <1>5, <1>6, <1>7 DEF Tells, Typed

\* the troubles,
LEMMA HeardTroubles ==
  ASSUME SecInv, NEW sent, Tells(sent), Heard
  PROVE  TroubleRight'
<1> SUFFICES ASSUME NEW c \in Condition \ lost'
             PROVE  /\ Newest(TroubleNews(c), wire', RightTroubles(c)')
                    /\ Absent(TroubleNews(c), wire') => (c \in cond' <=> c \in panel'.trouble)
  BY DEF TroubleRight
<1> DEFINE M == TroubleNews(c)
           V == RightTroubles(c)'
<1>1. /\ wire \in Seq(Message) /\ sent \in Seq(Message) /\ wire' = wire \o sent
      /\ cond' = cond
      /\ \A i \in DOMAIN sent : Correct(sent[i]) /\ sent[i] \in Message
  BY HeardFacts
<1>2. \A i \in DOMAIN sent : sent[i] \in M => sent[i] \in V
  BY <1>1 DEF Correct
<1>3. ASSUME Absent(M, sent)
      PROVE  Newest(M, wire, V) /\ (Absent(M, wire) => (c \in cond <=> c \in panel'.trouble))
  <2>1. c \notin lost
    <3> SUFFICES ASSUME c \in lost
                 PROVE  FALSE
      OBVIOUS
    <3>1. PICK i \in DOMAIN sent : c \in Settles(sent[i].reading)
      BY DEF Tells, Sends
    <3>2. sent[i] \in Message /\ sent[i].reading \in AnyReading
      BY <1>1, MessageFields
    <3>3. c \in About(sent[i].reading)
      BY <3>1, <3>2, SettlesAbout
    <3>4. QED
      BY <1>3, <3>2, <3>3, NewsByKind DEF Absent
  <2>2. c \in panel'.trouble <=> c \in panel.trouble
    BY <1>3 DEF Tells, Silent
  <2>3. Newest(M, wire, RightTroubles(c)) /\ (Absent(M, wire) => (c \in cond <=> c \in panel.trouble))
    BY <2>1 DEF SecInv, TroubleRight
  <2>4. V = RightTroubles(c)
    BY <2>2 DEF RightTroubles
  <2>5. QED
    BY <2>2, <2>3, <2>4
<1> HIDE DEF M, V
<1>4. /\ Newest(M, wire \o sent, V)
      /\ Absent(M, wire \o sent) <=> Absent(M, wire) /\ Absent(M, sent)
  BY <1>1, <1>2, <1>3, NewestConcat
<1>5. QED
  BY <1>1, <1>3, <1>4 DEF M, V

\* the isolations,
LEMMA HeardIsolations ==
  ASSUME SecInv, NEW sent, Tells(sent), Heard
  PROVE  IsolationRight' /\ IsolationEnds'
<1>1. /\ wire \in Seq(Message) /\ sent \in Seq(Message) /\ wire' = wire \o sent
      /\ isolated' = isolated
      /\ \A i \in DOMAIN sent : Correct(sent[i]) /\ sent[i] \in Message
      /\ Settled' /\ asked' = asked => Settled
  BY HeardFacts
<1>2. ASSUME "isolation" \notin lost', NEW z \in Zone
      PROVE  /\ Newest(IsolationNews(z), wire', RightIsolations(z)')
             /\ Absent(IsolationNews(z), wire') => (z \in isolated' <=> z \in panel'.bypassed)
  <2> DEFINE M == IsolationNews(z)
             V == RightIsolations(z)'
  <2>1. \A i \in DOMAIN sent : sent[i] \in M => sent[i] \in V
    BY <1>1 DEF Correct
  <2>2. ASSUME Absent(M, sent)
        PROVE  Newest(M, wire, V) /\ (Absent(M, wire) => (z \in isolated <=> z \in panel'.bypassed))
    <3>1. "isolation" \notin lost
      <4> SUFFICES ASSUME "isolation" \in lost
                   PROVE  FALSE
        OBVIOUS
      <4>1. PICK i \in DOMAIN sent : "isolation" \in Settles(sent[i].reading)
        BY <1>2 DEF Tells, Sends
      <4>2. sent[i] \in Message /\ sent[i].reading \in AnyReading
        BY <1>1, MessageFields
      <4>3. Clears(sent[i].reading)
        BY <4>1, <4>2, SettlesAbout
      <4>4. QED
        BY <2>2, <4>2, <4>3, NewsByKind DEF Absent
    <3>2. z \in panel'.bypassed <=> z \in panel.bypassed
      BY <2>2 DEF Tells, Silent
    <3>3. Newest(M, wire, RightIsolations(z)) /\ (Absent(M, wire) => (z \in isolated <=> z \in panel.bypassed))
      BY <3>1 DEF SecInv, IsolationRight
    <3>4. V = RightIsolations(z)
      BY <3>2 DEF RightIsolations
    <3>5. QED
      BY <3>2, <3>3, <3>4
  <2> HIDE DEF M, V
  <2>3. /\ Newest(M, wire \o sent, V)
        /\ Absent(M, wire \o sent) <=> Absent(M, wire) /\ Absent(M, sent)
    BY <1>1, <2>1, <2>2, NewestConcat
  <2>4. QED
    BY <1>1, <2>2, <2>3 DEF M, V
<1>3. ASSUME Settled', panel'.mode = 0, NEW z \in Zone
      PROVE  /\ Newest(IsolationNews(z), wire', Clearing)
             /\ Absent(IsolationNews(z), wire') => z \notin isolated'
  <2> DEFINE M == IsolationNews(z)
  <2>1. \A i \in DOMAIN sent : sent[i] \in M => sent[i] \in Clearing
    <3>1. RightIsolations(z)' = Clearing
      BY <1>3 DEF Tells, PanelSound, RightIsolations, Clearing, Message
    <3>2. QED
      BY <1>1, <3>1 DEF Correct
  <2>2. ASSUME Absent(M, sent)
        PROVE  Newest(M, wire, Clearing) /\ (Absent(M, wire) => z \notin isolated)
    <3>1. panel.mode = 0
      BY <1>3, <2>2 DEF Tells, Ending
    <3>2. asked' = asked
      BY <1>3, <2>2 DEF Tells, Answers
    <3>3. QED
      BY <1>1, <1>3, <3>1, <3>2 DEF SecInv, IsolationEnds
  <2> HIDE DEF M
  <2>3. /\ Newest(M, wire \o sent, Clearing)
        /\ Absent(M, wire \o sent) <=> Absent(M, wire) /\ Absent(M, sent)
    BY <1>1, <2>1, <2>2, NewestConcat
  <2>4. QED
    BY <1>1, <2>2, <2>3 DEF M
<1>4. IsolationRight'
  BY <1>2 DEF IsolationRight
<1>5. Clearing' = Clearing
  BY DEF Clearing
<1>6. IsolationEnds'
  BY <1>3, <1>5 DEF IsolationEnds
<1>7. QED
  BY <1>4, <1>6

\* the zones,
LEMMA HeardZones ==
  ASSUME SecInv, NEW sent, Tells(sent), Heard
  PROVE  ZonesRight'
<1> SUFFICES ASSUME NEW z \in Zone
             PROVE  /\ Newest(ZoneNews(z), wire', RightZones(z)')
                    /\ Steady' /\ Absent(ZoneNews(z), wire') =>
                         /\ states'[z] \in {Nothing, panel'.zone[z]}
                         /\ Settled' /\ ~resync' /\ ha' =>
                              /\ shown'.zone[z] = panel'.zone[z]
                              /\ shown'.attr[z] = "isolated" <=> z \in isolated'
  BY DEF ZonesRight
<1> DEFINE M == ZoneNews(z)
           V == RightZones(z)'
<1>1. /\ wire \in Seq(Message) /\ sent \in Seq(Message) /\ wire' = wire \o sent
      /\ UNCHANGED <<ha, shown, states, isolated, resync>>
      /\ \A i \in DOMAIN sent : Correct(sent[i]) /\ sent[i] \in Message
      /\ Steady' <=> Steady
      /\ Settled' /\ asked' = asked => Settled
  BY HeardFacts
<1>2. \A i \in DOMAIN sent : sent[i] \in M => sent[i] \in V
  BY <1>1 DEF Correct
<1>3. ASSUME Absent(M, sent)
      PROVE  panel'.zone[z] = panel.zone[z] /\ asked' = asked /\ Newest(M, wire, V)
  <2>1. panel'.zone[z] = panel.zone[z]
    BY <1>3 DEF Tells, Silent
  <2>2. asked' = asked
    BY <1>3 DEF Tells, Answers
  <2>3. Newest(M, wire, RightZones(z))
    BY DEF SecInv, ZonesRight
  <2>4. V = RightZones(z)
    BY <2>1 DEF RightZones
  <2>5. QED
    BY <2>1, <2>2, <2>3, <2>4
<1>4. Steady /\ Absent(M, wire) =>
        /\ states[z] \in {Nothing, panel.zone[z]}
        /\ Settled /\ ~resync /\ ha => /\ shown.zone[z] = panel.zone[z]
                                       /\ shown.attr[z] = "isolated" <=> z \in isolated
  BY DEF SecInv, ZonesRight
<1> HIDE DEF M, V
<1>5. /\ Newest(M, wire \o sent, V)
      /\ Absent(M, wire \o sent) <=> Absent(M, wire) /\ Absent(M, sent)
  BY <1>1, <1>2, <1>3, NewestConcat
<1>6. QED
  BY <1>1, <1>3, <1>4, <1>5 DEF M, V

\* the alarm card,
LEMMA HeardCard ==
  ASSUME SecInv, NEW sent, Tells(sent), Heard
  PROVE  CardRight'
<1> DEFINE M == Setters
           V == RightSetters'
<1>1. /\ wire \in Seq(Message) /\ sent \in Seq(Message) /\ wire' = wire \o sent
      /\ UNCHANGED <<ha, shown, alarm, resync>>
      /\ \A i \in DOMAIN sent : Correct(sent[i]) /\ sent[i] \in Message
      /\ Steady' <=> Steady
      /\ Settled' /\ asked' = asked => Settled
  BY HeardFacts
<1>2. \A i \in DOMAIN sent : sent[i] \in M => sent[i] \in V
  BY <1>1 DEF Correct
<1>3. ASSUME Absent(M, sent)
      PROVE  /\ PhaseCard' = PhaseCard /\ answered' = answered /\ panel'.mode = panel.mode
             /\ asked' = asked /\ Newest(M, wire, V)
  <2>1. PhaseCard' = PhaseCard /\ answered' = answered
    BY <1>3 DEF Tells, Silent
  <2>2. asked' = asked
    BY <1>3 DEF Tells, Answers
  <2>3. panel'.mode = panel.mode
    <3>1. Absent(Modes, sent)
      BY <1>3 DEF Absent, Modes, Setters, OfKinds, Telling
    <3>2. QED
      BY <3>1 DEF Tells, Silent
  <2>4. Newest(M, wire, RightSetters)
    BY DEF SecInv, CardRight
  <2>5. V = RightSetters
    BY <2>1, <2>3 DEF RightSetters
  <2>6. QED
    BY <2>1, <2>2, <2>3, <2>4, <2>5
<1>4. /\ Settled /\ Absent(M, wire) => \/ alarm.state = PhaseCard
                                       \/ answered /\ alarm.state = StateForArmMode(panel.mode)
      /\ Steady /\ ha /\ ~resync /\ alarm.state # Nothing => shown.card = alarm.state
  BY DEF SecInv, CardRight
<1> HIDE DEF M, V
<1>5. /\ Newest(M, wire \o sent, V)
      /\ Absent(M, wire \o sent) <=> Absent(M, wire) /\ Absent(M, sent)
  BY <1>1, <1>2, <1>3, NewestConcat
<1>6. M' = M
  BY DEF M, Setters, OfKinds, Message
<1>7. Settled' /\ Absent(M, wire') => \/ alarm'.state = PhaseCard'
                                      \/ answered' /\ alarm'.state = StateForArmMode(panel'.mode)
  BY <1>1, <1>3, <1>4, <1>5
<1>8. Steady' /\ ha' /\ ~resync' /\ alarm'.state # Nothing => shown'.card = alarm'.state
  BY <1>1, <1>4
<1>9. Newest(M, wire', V)
  BY <1>1, <1>5
<1>10. QED
  BY <1>6, <1>7, <1>8, <1>9 DEF CardRight, M, V

\* the end of an alarm,
LEMMA HeardAlarmEnds ==
  ASSUME SecInv, NEW sent, Tells(sent), Heard
  PROVE  AlarmEnds'
<1> DEFINE V == OfKinds({"system_arm"})
           M == OfKinds({"alarm_off", "system_arm"})
           N == OfKinds({"alarm_on", "system_arm"})
<1>1. /\ wire \in Seq(Message) /\ sent \in Seq(Message) /\ wire' = wire \o sent
      /\ alarm' = alarm
      /\ Steady' <=> Steady
  BY HeardFacts
<1>2. /\ Newest(M, wire, V) /\ Newest(M, sent, V)
      /\ panel'.phase # "alarm" => Newest(N, sent, V)
                                   /\ (panel.phase # "alarm" \/ ~Absent(N, sent))
      /\ panel.phase # "alarm" =>
           Newest(N, wire, V) /\ (Steady /\ Absent(N, wire) => alarm.state # "triggered")
  BY DEF SecInv, AlarmEnds, Tells, Ending
<1> HIDE DEF V, M, N
<1>3. Newest(M, wire \o sent, V)
  BY <1>1, <1>2, NewestJoin
<1>4. ASSUME panel'.phase # "alarm"
      PROVE  Newest(N, wire \o sent, V) /\ (Steady' /\ Absent(N, wire \o sent) => alarm'.state # "triggered")
  <2>1. Absent(N, sent) => Newest(N, wire, V)
    BY <1>2, <1>4
  <2>2. /\ Newest(N, wire \o sent, V)
        /\ Absent(N, wire \o sent) <=> Absent(N, wire) /\ Absent(N, sent)
    BY <1>1, <1>2, <1>4, <2>1, NewestJoin
  <2>3. QED
    BY <1>1, <1>2, <1>4, <2>2
<1>5. V' = V /\ M' = M /\ N' = N
  BY DEF V, M, N, OfKinds
<1>6. QED
  BY <1>1, <1>3, <1>4, <1>5 DEF AlarmEnds, V, M, N

\* and the mode.
LEMMA HeardModes ==
  ASSUME SecInv, NEW sent, Tells(sent), Heard
  PROVE  ModeRight'
<1> DEFINE V == OfKinds({"system_arm"})
           A == {m \in Message : m.armed} \union V
           R == RightModes'
<1>1. /\ wire \in Seq(Message) /\ sent \in Seq(Message) /\ wire' = wire \o sent
      /\ alarm' = alarm
      /\ \A i \in DOMAIN sent : Correct(sent[i]) /\ sent[i] \in Message
      /\ Settled' /\ asked' = asked => Settled
  BY HeardFacts
<1>2. /\ Newest(Modes, wire, RightModes)
      /\ panel.mode = 0 => Newest(A, wire, V)
      /\ Settled /\ panel.mode # 0 /\ Absent(Modes, wire) => alarm.state \notin {Nothing, "disarmed"}
  BY DEF SecInv, ModeRight
<1>3. ASSUME Absent(Modes, sent)
      PROVE  panel'.mode = panel.mode /\ asked' = asked /\ Newest(Modes, wire, R)
  <2>1. panel'.mode = panel.mode /\ asked' = asked
    BY <1>3 DEF Tells, Silent, Answers
  <2>2. R = RightModes
    BY <2>1 DEF RightModes
  <2>3. QED
    BY <1>2, <2>1, <2>2
<1>4. \A i \in DOMAIN sent : sent[i] \in Modes => sent[i] \in R
  BY <1>1 DEF Correct
<1>5. panel'.mode = 0 => \A i \in DOMAIN sent : sent[i] \in A => sent[i] \in V
  BY <1>1 DEF Correct
<1>6. panel'.mode = 0 /\ Absent(A, sent) => Newest(A, wire, V)
  BY <1>2 DEF Tells, Ending, Absent
<1> HIDE DEF V, A, R
<1>7. /\ Newest(Modes, wire \o sent, R)
      /\ Absent(Modes, wire \o sent) <=> Absent(Modes, wire) /\ Absent(Modes, sent)
  BY <1>1, <1>3, <1>4, NewestConcat
<1>8. panel'.mode = 0 => Newest(A, wire \o sent, V)
  BY <1>1, <1>5, <1>6, NewestConcat
<1>9. Settled' /\ panel'.mode # 0 /\ Absent(Modes, wire \o sent) => alarm'.state \notin {Nothing, "disarmed"}
  BY <1>1, <1>2, <1>3, <1>7
<1>10. V' = V /\ A' = A /\ Modes' = Modes
  BY DEF V, A, OfKinds, Modes
<1>11. QED
  BY <1>1, <1>7, <1>8, <1>9, <1>10 DEF ModeRight, V, A, R

\* What the panel tells preserves the invariant.
LEMMA TellsPreserves ==
  ASSUME SecInv, NEW sent, Tells(sent)
  PROVE  SecInv'
<1>1. CASE ~Heard
  BY <1>1, UnheardPreserves
<1>2. CASE Heard
  BY <1>2, HeardTyped, HeardTroubles, HeardIsolations, HeardZones, HeardCard, HeardAlarmEnds,
     HeardModes DEF SecInv
<1>3. QED
  BY <1>1, <1>2

\* The messages that carry readings.
LEMMA Sending ==
  ASSUME Typed, PanelType', NEW readings \in Seq(AnyReading), Send(readings),
         UNCHANGED <<ha, shown, unseen, up, alarm, cond, states, isolated, announced, file, slots,
                     resync>>,
         \A i \in DOMAIN readings : readings[i].kind \in Telling => readings[i].mode = panel'.mode
  PROVE  \E sent :
           /\ Sends(sent) /\ Len(sent) = Len(readings) /\ DOMAIN sent = DOMAIN readings
           /\ \A i \in DOMAIN sent : /\ sent[i] \in Message /\ sent[i].reading = readings[i]
                                     /\ sent[i].armed <=> panel'.mode # 0
<1> DEFINE sent == [i \in DOMAIN readings |-> [reading |-> readings[i], armed |-> panel'.mode # 0]]
<1>1. /\ Len(readings) \in Nat /\ DOMAIN readings = 1..Len(readings)
      /\ \A i \in DOMAIN readings : readings[i] \in AnyReading
  OBVIOUS
<1>2. \A i \in DOMAIN readings : /\ sent[i] \in Message /\ sent[i].reading = readings[i]
                                 /\ sent[i].armed <=> panel'.mode # 0
  <2> TAKE i \in DOMAIN readings
  <2>1. sent[i] = [reading |-> readings[i], armed |-> panel'.mode # 0]
    OBVIOUS
  <2>2. (panel'.mode # 0) \in BOOLEAN
    OBVIOUS
  <2>3. (panel'.mode # 0) /\ readings[i].kind \in Telling => readings[i].mode # 0
    OBVIOUS
  <2>4. readings[i] \in AnyReading
    BY <1>1
  <2> HIDE DEF sent
  <2>5. PICK b \in BOOLEAN : b = (panel'.mode # 0)
    BY <2>2
  <2>6. /\ [reading |-> readings[i], armed |-> b] \in Message
        /\ [reading |-> readings[i], armed |-> b].reading = readings[i]
        /\ [reading |-> readings[i], armed |-> b].armed = b
    BY <2>3, <2>4, <2>5, MessageOf
  <2>7. QED
    BY <2>1, <2>5, <2>6
<1>3. DOMAIN sent = 1..Len(readings)
  BY <1>1
<1>4. wire' = IF Heard THEN wire \o sent ELSE wire
  BY DEF Send
<1>5. missed' = (missed \/ up = "dropped")
  BY DEF Send
<1>6. lost' = IF Heard THEN lost \ UNION {Settles(r) : r \in {readings[i] : i \in DOMAIN readings}}
              ELSE lost \union AboutAll({readings[i] : i \in DOMAIN readings})
  BY DEF Send
<1> HIDE DEF sent
<1>7. sent \in Seq(Message) /\ Len(sent) = Len(readings) /\ DOMAIN sent = DOMAIN readings
  <2>1. sent \in [1..Len(readings) -> Message]
    <3>1. sent = [i \in 1..Len(readings) |-> sent[i]]
      BY <1>1 DEF sent
    <3>2. QED
      BY <1>1, <1>2, <3>1
  <2>2. QED
    BY <1>1, <1>3, <2>1
<1>8. \A x : x \in lost' <=>
        IF Heard THEN x \in lost /\ \A i \in DOMAIN sent : x \notin Settles(sent[i].reading)
        ELSE x \in lost \/ \E i \in DOMAIN sent : x \in About(sent[i].reading)
  <2>1. CASE Heard
    BY <1>2, <1>6, <1>7, <2>1
  <2>2. CASE ~Heard
    BY <1>2, <1>6, <1>7, <2>2 DEF AboutAll
  <2>3. QED
    BY <2>1, <2>2
<1>9. Sends(sent)
  BY <1>4, <1>5, <1>7, <1>8 DEF Sends
<1>10. QED
  BY <1>2, <1>7, <1>9

\* One message, that carries r.
LEMMA SendingOne ==
  ASSUME Typed, PanelType', NEW r \in AnyReading, Send(<<r>>),
         UNCHANGED <<ha, shown, unseen, up, alarm, cond, states, isolated, announced, file, slots,
                     resync>>,
         r.kind \in Telling => r.mode = panel'.mode
  PROVE  \E m \in Message : /\ Sends(<<m>>) /\ m.reading = r
                            /\ m.armed <=> panel'.mode # 0
<1>1. PICK readings \in Seq(AnyReading) :
        readings = <<r>> /\ Len(readings) = 1 /\ DOMAIN readings = {1} /\ readings[1] = r
  OBVIOUS
<1>2. Send(readings) /\ \A i \in DOMAIN readings : readings[i].kind \in Telling => readings[i].mode = panel'.mode
  BY <1>1
<1>3. PICK sent :
        /\ Sends(sent) /\ Len(sent) = Len(readings) /\ DOMAIN sent = DOMAIN readings
        /\ \A i \in DOMAIN sent : /\ sent[i] \in Message /\ sent[i].reading = readings[i]
                                  /\ sent[i].armed <=> panel'.mode # 0
  BY <1>2, Sending
<1>4. sent \in Seq(Message)
  BY <1>3 DEF Sends
<1>5. sent = <<sent[1]>> /\ 1 \in DOMAIN sent
  BY <1>1, <1>3, <1>4
<1>6. /\ Sends(<<sent[1]>>) /\ sent[1] \in Message /\ sent[1].reading = r
      /\ sent[1].armed <=> panel'.mode # 0
  BY <1>1, <1>3, <1>5
<1>7. QED
  BY <1>6

\* Two messages, that carry q and r.
LEMMA SendingTwo ==
  ASSUME Typed, PanelType', NEW q \in AnyReading, NEW r \in AnyReading, Send(<<q, r>>),
         UNCHANGED <<ha, shown, unseen, up, alarm, cond, states, isolated, announced, file, slots,
                     resync>>,
         q.kind \in Telling => q.mode = panel'.mode,
         r.kind \in Telling => r.mode = panel'.mode
  PROVE  \E l \in Message, m \in Message :
           /\ Sends(<<l, m>>) /\ l.reading = q /\ m.reading = r
           /\ l.armed <=> panel'.mode # 0
           /\ m.armed <=> panel'.mode # 0
<1>1. PICK readings \in Seq(AnyReading) :
        /\ readings = <<q, r>> /\ Len(readings) = 2 /\ DOMAIN readings = {1, 2}
        /\ readings[1] = q /\ readings[2] = r
  <2>1. <<q, r>> \in Seq(AnyReading)
    OBVIOUS
  <2>2. /\ Len(<<q, r>>) = 2 /\ DOMAIN <<q, r>> = {1, 2}
        /\ <<q, r>>[1] = q /\ <<q, r>>[2] = r
    OBVIOUS
  <2>3. QED
    BY <2>1, <2>2
<1>2. Send(readings) /\ \A i \in DOMAIN readings : readings[i].kind \in Telling => readings[i].mode = panel'.mode
  BY <1>1
<1>3. PICK sent :
        /\ Sends(sent) /\ Len(sent) = Len(readings) /\ DOMAIN sent = DOMAIN readings
        /\ \A i \in DOMAIN sent : /\ sent[i] \in Message /\ sent[i].reading = readings[i]
                                  /\ sent[i].armed <=> panel'.mode # 0
  BY <1>2, Sending
<1>4. sent \in Seq(Message)
  BY <1>3 DEF Sends
<1>5. sent = <<sent[1], sent[2]>> /\ 1 \in DOMAIN sent /\ 2 \in DOMAIN sent
  BY <1>1, <1>3, <1>4
<1>6. /\ Sends(<<sent[1], sent[2]>>) /\ sent[1] \in Message /\ sent[2] \in Message
      /\ sent[1].reading = q /\ sent[2].reading = r
      /\ sent[1].armed <=> panel'.mode # 0
      /\ sent[2].armed <=> panel'.mode # 0
  BY <1>1, <1>3, <1>5
<1>7. QED
  BY <1>6

\* One message that tells no arm mode and no isolation.
LEMMA OneTells ==
  ASSUME NEW m \in Message, Sends(<<m>>), NEW r \in AnyReading, m.reading = r,
         m.armed <=> panel'.mode # 0,
         r.kind \notin {"system_arm", "status_report_1", "status_report_2", "zone_isolated", "alarm_off"},
         UNCHANGED asked, PanelType', PanelSound',
         panel'.mode = panel.mode, panel'.bypassed = panel.bypassed,
         r.kind = "zone" => panel'.zone[r.zone] = r.to,
         \A z \in Zone : panel'.zone[z] = panel.zone[z] \/ (r.kind = "zone" /\ z = r.zone),
         r.kind = "panel_trouble" => (r.active <=> r.condition \in panel'.trouble),
         \A c \in Condition : \/ c \in panel'.trouble <=> c \in panel.trouble
                              \/ r.kind = "panel_trouble" /\ c = r.condition,
         IF r.kind \in {"exit_delay_started", "entry_delay_started", "alarm_on"}
         THEN Says(r) = PhaseCard' ELSE PhaseCard' = PhaseCard /\ answered' = answered,
         panel'.phase # "alarm" => panel.phase # "alarm" /\ r.kind # "alarm_on"
  PROVE  Tells(<<m>>)
<1>1. /\ \A kinds : m \in OfKinds(kinds) <=> r.kind \in kinds
      /\ m \in Setters <=> r.kind \in {"exit_delay_started", "entry_delay_started", "alarm_on"}
      /\ m \notin Modes /\ m \notin Clearing
      /\ \A z : m \in ZoneNews(z) <=> r.kind = "zone" /\ r.zone = z
      /\ \A c : m \in TroubleNews(c) <=> r.kind = "panel_trouble" /\ c = r.condition
      /\ \A z : m \notin IsolationNews(z)
  BY NewsByKind, AboutByKind DEF Clears, Telling
<1>2. <<m>> \in Seq(Message) /\ \A i \in DOMAIN <<m>> : <<m>>[i] = m
  OBVIOUS
<1>3. Correct(m)
  <2>1. m \in Setters => m \in RightSetters'
    BY <1>1, RightByKindNext
  <2>2. \A z \in Zone : m \in ZoneNews(z) => m \in RightZones(z)'
    BY <1>1, RightByKindNext DEF Said
  <2>3. \A c \in Condition : m \in TroubleNews(c) => m \in RightTroubles(c)'
    BY <1>1, RightByKindNext DEF Active
  <2>4. QED
    BY <1>1, <2>1, <2>2, <2>3 DEF Correct
<1>4. \A M, V : /\ Absent(M, <<m>>) <=> m \notin M
                /\ Newest(M, <<m>>, V) <=> (m \in M => m \in V)
  BY NewestOne
<1>5. Silent(<<m>>)
  BY <1>1, <1>4 DEF Silent
<1>6. Ending(<<m>>)
  BY <1>1, <1>4 DEF Ending
<1>7. Answers(<<m>>)
  BY DEF Answers
<1>8. QED
  BY <1>2, <1>3, <1>5, <1>6, <1>7 DEF Tells

\* What a broadcast of the panel leaves alone.
LEMMA Broadcasts ==
  ASSUME NEW readings, Broadcast(readings)
  PROVE  /\ Send(readings)
         /\ UNCHANGED <<ha, shown, unseen, up, alarm, cond, states, isolated, announced, file, slots,
                        resync, asked>>
         /\ answered' = (answered /\ panel'.phase = panel.phase)
BY DEF Broadcast, bridge, tracker

\* A zone that moves keeps the invariant,
LEMMA ZoneMovesPreserves == SecInv /\ ZoneMoves => SecInv'
<1> SUFFICES ASSUME SecInv, ZoneMoves
             PROVE  SecInv'
  OBVIOUS
<1>1. Typed /\ PanelType /\ PanelSound
  BY DEF SecInv, Typed
<1>2. PICK z \in Zone, to \in ZoneState :
        /\ panel' = [panel EXCEPT !.zone[z] = to]
        /\ Broadcast(<<[kind |-> "zone", zone |-> z, to |-> to]>>)
  BY <1>1 DEF ZoneMoves, ZoneState
<1> DEFINE r == [kind |-> "zone", zone |-> z, to |-> to]
<1>3. r \in AnyReading /\ r.kind = "zone" /\ r.zone = z /\ r.to = to
  BY ReadingsOf
<1>4. /\ panel' \in [phase : Phase, mode : Mode, trouble : SUBSET Condition, bypassed : SUBSET Zone,
                     zone : [Zone -> ZoneState]]
      /\ panel'.phase = panel.phase /\ panel'.mode = panel.mode
      /\ panel'.trouble = panel.trouble /\ panel'.bypassed = panel.bypassed
      /\ panel'.zone = [panel.zone EXCEPT ![z] = to]
  BY <1>1, <1>2 DEF PanelType
<1>5. panel'.zone[z] = to /\ \A y \in Zone : panel'.zone[y] = panel.zone[y] \/ y = z
  BY <1>1, <1>4 DEF PanelType
<1> HIDE DEF r
<1>6. Broadcast(<<r>>)
  BY <1>2 DEF r
<1>7. PanelType' /\ PanelSound' /\ answered' = answered
  BY <1>1, <1>4, <1>6, Broadcasts DEF PanelType, PanelSound
<1>8. PICK m \in Message : /\ Sends(<<m>>) /\ m.reading = r
                           /\ m.armed <=> panel'.mode # 0
  BY <1>1, <1>3, <1>6, <1>7, Broadcasts, SendingOne DEF Telling
<1>9. PhaseCard' = PhaseCard
  BY <1>4 DEF PhaseCard
<1>10. asked' = asked
  BY <1>6, Broadcasts
<1>11. Tells(<<m>>)
  BY <1>3, <1>4, <1>5, <1>7, <1>8, <1>9, <1>10, OneTells
<1>12. QED
  BY <1>11, TellsPreserves

\* so does a trouble that comes or goes,
LEMMA TroubleChangesPreserves == SecInv /\ TroubleChanges => SecInv'
<1> SUFFICES ASSUME SecInv, TroubleChanges
             PROVE  SecInv'
  OBVIOUS
<1>1. Typed /\ PanelType /\ PanelSound
  BY DEF SecInv, Typed
<1>2. PICK c \in Condition :
        /\ panel' = [panel EXCEPT !.trouble = SymDiff(@, {c})]
        /\ Broadcast(<<[kind |-> "panel_trouble", condition |-> c, active |-> c \notin panel.trouble]>>)
  BY DEF TroubleChanges
<1>3. PICK b \in BOOLEAN : b = (c \notin panel.trouble)
  OBVIOUS
<1> DEFINE r == [kind |-> "panel_trouble", condition |-> c, active |-> b]
<1>4. r \in AnyReading /\ r.kind = "panel_trouble" /\ r.condition = c /\ r.active = b
  BY ReadingsOf
<1>5. SymDiff(panel.trouble, {c}) \in SUBSET Condition
  BY <1>1 DEF PanelType, SymDiff
<1>6. /\ panel' \in [phase : Phase, mode : Mode, trouble : SUBSET Condition, bypassed : SUBSET Zone,
                     zone : [Zone -> ZoneState]]
      /\ panel'.phase = panel.phase /\ panel'.mode = panel.mode /\ panel'.zone = panel.zone
      /\ panel'.trouble = SymDiff(panel.trouble, {c}) /\ panel'.bypassed = panel.bypassed
  BY <1>1, <1>2, <1>5 DEF PanelType
<1>7. /\ c \in panel'.trouble <=> c \notin panel.trouble
      /\ \A d \in Condition : (d \in panel'.trouble <=> d \in panel.trouble) \/ d = c
  BY <1>6 DEF SymDiff
<1>8. Broadcast(<<r>>)
  BY <1>2, <1>3
<1> HIDE DEF r
<1>9. PanelType' /\ PanelSound' /\ answered' = answered
  BY <1>1, <1>6, <1>8, Broadcasts DEF PanelType, PanelSound
<1>10. PICK m \in Message : /\ Sends(<<m>>) /\ m.reading = r
                            /\ m.armed <=> panel'.mode # 0
  BY <1>1, <1>4, <1>8, <1>9, Broadcasts, SendingOne DEF Telling
<1>11. PhaseCard' = PhaseCard
  BY <1>6 DEF PhaseCard
<1>12. asked' = asked
  BY <1>8, Broadcasts
<1>13. r.active <=> r.condition \in panel'.trouble
  BY <1>3, <1>4, <1>7
<1>14. Tells(<<m>>)
  BY <1>4, <1>6, <1>7, <1>9, <1>10, <1>11, <1>12, <1>13, OneTells
<1>15. QED
  BY <1>14, TellsPreserves

\* A broadcast that tells the phase, or nothing that is kept.
LEMMA PhaseBroadcast ==
  ASSUME SecInv, NEW r \in AnyReading, Broadcast(<<r>>),
         r.kind \in {"exit_delay_started", "entry_delay_started", "alarm_on", "arm_ready",
                     "arm_not_ready", "password_entry"},
         panel' \in [phase : Phase, mode : Mode, trouble : SUBSET Condition, bypassed : SUBSET Zone,
                     zone : [Zone -> ZoneState]],
         panel'.mode = panel.mode, panel'.trouble = panel.trouble,
         panel'.bypassed = panel.bypassed, panel'.zone = panel.zone,
         CASE r.kind = "exit_delay_started"  -> panel'.phase = "exit" /\ panel.phase = "idle"
           [] r.kind = "entry_delay_started" -> panel'.phase = "entry" /\ panel.phase = "armed"
           [] r.kind = "alarm_on"            -> panel'.phase = "alarm"
           [] OTHER                          -> panel'.phase = panel.phase
  PROVE  SecInv'
<1>1. Typed /\ PanelType /\ PanelSound
  BY DEF SecInv, Typed
<1>2. /\ answered' = (answered /\ panel'.phase = panel.phase) /\ asked' = asked /\ ha' = ha
  BY Broadcasts
<1>3. PanelType' /\ PanelSound'
  <2>1. answered' \in BOOLEAN
    BY <1>1, <1>2 DEF PanelType
  <2>2. PanelType'
    BY <1>1, <1>2, <2>1 DEF PanelType
  <2>3. PanelSound'
    BY <1>1 DEF PanelSound
  <2>4. QED
    BY <2>2, <2>3
<1>4. PICK m \in Message : /\ Sends(<<m>>) /\ m.reading = r
                           /\ m.armed <=> panel'.mode # 0
  BY <1>1, <1>3, Broadcasts, SendingOne DEF Telling
<1>5. r.kind \in {"exit_delay_started", "entry_delay_started", "alarm_on"} => Says(r) = PhaseCard'
  BY DEF Says, PhaseCard
<1>6. r.kind \notin {"exit_delay_started", "entry_delay_started", "alarm_on"} =>
        PhaseCard' = PhaseCard /\ answered' = answered
  <2> SUFFICES ASSUME r.kind \notin {"exit_delay_started", "entry_delay_started", "alarm_on"}
               PROVE  PhaseCard' = PhaseCard /\ answered' = answered
    OBVIOUS
  <2>1. panel'.phase = panel.phase
    OBVIOUS
  <2>2. QED
    BY <1>1, <1>2, <2>1 DEF PhaseCard, PanelType
<1>7. panel'.phase # "alarm" => panel.phase # "alarm" /\ r.kind # "alarm_on"
  OBVIOUS
<1>8. Tells(<<m>>)
  BY <1>2, <1>3, <1>4, <1>5, <1>6, <1>7, OneTells
<1>9. QED
  BY <1>8, TellsPreserves

\* a change of phase that leaves the mode,
LEMMA PhasesPreserve ==
  SecInv /\ (ArmingStarts \/ ArmReady \/ ArmRefused \/ EntryDelay \/ SirenStarts \/ CodeEntered)
    => SecInv'
<1> SUFFICES ASSUME SecInv, ArmingStarts \/ ArmReady \/ ArmRefused \/ EntryDelay \/ SirenStarts
                            \/ CodeEntered
             PROVE  SecInv'
  OBVIOUS
<1>1. panel \in [phase : Phase, mode : Mode, trouble : SUBSET Condition, bypassed : SUBSET Zone,
                 zone : [Zone -> ZoneState]]
  BY DEF SecInv, Typed, PanelType
<1>2. \A phase \in Phase :
        LET new == [panel EXCEPT !.phase = phase]
        IN /\ new \in [phase : Phase, mode : Mode, trouble : SUBSET Condition, bypassed : SUBSET Zone,
                       zone : [Zone -> ZoneState]]
           /\ new.phase = phase /\ new.mode = panel.mode /\ new.trouble = panel.trouble
           /\ new.bypassed = panel.bypassed /\ new.zone = panel.zone
  BY <1>1
<1>3. \A kind \in {"exit_delay_started", "entry_delay_started", "arm_ready", "alarm_on", "password_entry"} :
        Verb(kind) \in AnyReading /\ Verb(kind).kind = kind
  BY ReadingsOf DEF Verb
<1>4. CASE ArmingStarts
  <2>1. /\ panel.phase = "idle" /\ panel' = [panel EXCEPT !.phase = "exit"]
        /\ Broadcast(<<Verb("exit_delay_started")>>) /\ "exit" \in Phase
    BY <1>4 DEF ArmingStarts, Phase
  <2>2. QED
    BY <1>2, <1>3, <2>1, PhaseBroadcast
<1>5. CASE ArmReady
  <2>1. panel' = panel /\ Broadcast(<<Verb("arm_ready")>>)
    BY <1>5 DEF ArmReady
  <2>2. QED
    BY <1>1, <1>3, <2>1, PhaseBroadcast
<1>6. CASE ArmRefused
  <2>1. PICK z \in Zone : panel' = panel /\ Broadcast(<<[kind |-> "arm_not_ready", zone |-> z]>>)
    BY <1>6 DEF ArmRefused
  <2>2. PICK r \in AnyReading : r = [kind |-> "arm_not_ready", zone |-> z]
    BY ReadingsOf
  <2>3. r.kind = "arm_not_ready" /\ Broadcast(<<r>>)
    BY <2>1, <2>2
  <2>4. QED
    BY <1>1, <2>1, <2>3, PhaseBroadcast
<1>7. CASE EntryDelay
  <2>1. /\ panel.phase = "armed" /\ panel' = [panel EXCEPT !.phase = "entry"]
        /\ Broadcast(<<Verb("entry_delay_started")>>) /\ "entry" \in Phase
    BY <1>7 DEF EntryDelay, Phase
  <2>2. QED
    BY <1>2, <1>3, <2>1, PhaseBroadcast
<1>8. CASE SirenStarts
  <2>1. /\ panel' = [panel EXCEPT !.phase = "alarm"]
        /\ Broadcast(<<Verb("alarm_on")>>) /\ "alarm" \in Phase
    BY <1>8 DEF SirenStarts, Phase
  <2>2. QED
    BY <1>2, <1>3, <2>1, PhaseBroadcast
<1>9. CASE CodeEntered
  <2>1. panel' = panel /\ Broadcast(<<Verb("password_entry")>>)
    BY <1>9 DEF CodeEntered
  <2>2. QED
    BY <1>1, <1>3, <2>1, PhaseBroadcast
<1>10. QED
  BY <1>4, <1>5, <1>6, <1>7, <1>8, <1>9

\* An arming or a disarming says what is, of all it tells of.
LEMMA ArmCorrect ==
  ASSUME NEW m \in Message, NEW mode \in Mode, m.reading = SystemArm(mode),
         m.armed <=> panel'.mode # 0,
         panel'.mode = mode, panel'.phase \in {"armed", "idle"},
         panel'.trouble = panel.trouble \ Ends(mode), mode = 0 => panel'.bypassed = {}
  PROVE  /\ Correct(m) /\ m \in Setters /\ m \in Modes
         /\ \A kinds : m \in OfKinds(kinds) <=> "system_arm" \in kinds
         /\ \A c \in Condition : m \in TroubleNews(c) <=> c \in Ends(mode)
         /\ \A z : m \in IsolationNews(z) <=> mode = 0
<1>1. PICK r \in AnyReading : r = m.reading /\ r.kind = "system_arm" /\ r.mode = mode
  BY ReadingsOf DEF SystemArm
<1>2. /\ \A kinds : m \in OfKinds(kinds) <=> "system_arm" \in kinds
      /\ m \in Setters /\ m \in Modes
      /\ \A z : m \notin ZoneNews(z)
      /\ \A z : m \notin Isolating(z)
      /\ m \in Clearing <=> mode = 0
      /\ \A z : m \in IsolationNews(z) <=> m \in Isolating(z) \/ m \in Clearing
      /\ \A c : m \in TroubleNews(c) <=> c \in About(r)
  BY <1>1, NewsByKind DEF Clears, Telling
<1>3. \A c \in Condition : c \in About(r) <=> c \in Ends(mode)
  BY <1>1, AboutByKind, NotACondition
<1>4. m \in RightSetters'
  <2>1. Says(m.reading) = StateForArmMode(mode)
    BY <1>1 DEF Says
  <2>2. PhaseCard' = StateForArmMode(mode)
    BY DEF PhaseCard
  <2>3. QED
    BY <1>2, <2>1, <2>2, RightByKindNext
<1>5. m \in RightModes'
  BY <1>1, <1>2, RightByKindNext
<1>6. \A z \in Zone : m \in IsolationNews(z) => m \in RightIsolations(z)'
  BY <1>2, RightByKindNext
<1>7. \A c \in Condition : m \in TroubleNews(c) => m \in RightTroubles(c)'
  BY <1>1, <1>2, <1>3, RightByKindNext DEF Active
<1>8. Correct(m)
  BY <1>2, <1>4, <1>5, <1>6, <1>7 DEF Correct
<1>9. QED
  BY <1>2, <1>3, <1>8

\* An arming or a disarming that is the last of what is sent.
LEMMA ArmTells ==
  ASSUME NEW m \in Message, NEW mode \in Mode, m.reading = SystemArm(mode),
         m.armed <=> panel'.mode # 0,
         NEW sent, Sends(sent),
         \/ sent = <<m>>
         \/ \E l \in Message : sent = <<l, m>> /\ l.reading = Verb("alarm_off")
                               /\ (l.armed <=> panel'.mode # 0),
         UNCHANGED asked, PanelType', PanelSound',
         panel'.mode = mode, panel'.phase \in {"armed", "idle"},
         panel'.trouble = panel.trouble \ Ends(mode), panel'.zone = panel.zone,
         panel'.bypassed = IF mode = 0 THEN {} ELSE panel.bypassed
  PROVE  Tells(sent)
<1>1. /\ Correct(m) /\ m \in Setters /\ m \in Modes
      /\ \A kinds : m \in OfKinds(kinds) <=> "system_arm" \in kinds
      /\ \A c \in Condition : m \in TroubleNews(c) <=> c \in Ends(mode)
      /\ \A z : m \in IsolationNews(z) <=> mode = 0
  BY ArmCorrect
<1>2. \A i \in DOMAIN sent : Correct(sent[i])
  <2>1. CASE sent = <<m>>
    BY <1>1, <2>1
  <2>2. ASSUME NEW l \in Message, sent = <<l, m>>, l.reading = Verb("alarm_off"),
               l.armed <=> panel'.mode # 0
        PROVE  \A i \in DOMAIN sent : Correct(sent[i])
    <3>1. l.reading.kind = "alarm_off" /\ l.reading \in AnyReading
      BY <2>2, ReadingsOf DEF Verb
    <3>2. /\ l \notin Setters /\ l \notin Modes
          /\ \A z : l \notin ZoneNews(z) /\ l \notin IsolationNews(z)
          /\ \A c : l \notin TroubleNews(c)
      BY <3>1, NewsByKind, AboutByKind DEF Clears, Telling
    <3>3. Correct(l)
      BY <2>2, <3>2 DEF Correct
    <3>4. DOMAIN sent = {1, 2} /\ sent[1] = l /\ sent[2] = m
      BY <2>2
    <3>5. QED
      BY <1>1, <3>3, <3>4
  <2>3. QED
    BY <2>1, <2>2
<1>3. \A M : m \in M => ~Absent(M, sent)
  BY NewestOne, NewestTwo
<1>4. \A M, V : m \in M /\ m \in V => Newest(M, sent, V)
  BY NewestOne, NewestTwo
<1>5. Silent(sent)
  BY <1>1, <1>3 DEF Silent
<1>6. Ending(sent)
  BY <1>1, <1>3, <1>4 DEF Ending
<1>7. Answers(sent)
  BY DEF Answers
<1>8. QED
  BY <1>2, <1>5, <1>6, <1>7 DEF Tells

\* a siren that stops,
LEMMA SirenStopsPreserves == SecInv /\ SirenStops => SecInv'
<1> SUFFICES ASSUME SecInv, SirenStops
             PROVE  SecInv'
  OBVIOUS
<1>1. /\ Typed /\ PanelType /\ PanelSound
      /\ panel \in [phase : Phase, mode : Mode, trouble : SUBSET Condition, bypassed : SUBSET Zone,
                    zone : [Zone -> ZoneState]]
  BY DEF SecInv, Typed, PanelType
<1>2. PICK mode \in Mode : mode = panel.mode /\ mode # 0
  BY <1>1 DEF SirenStops
<1>3. /\ panel' = [panel EXCEPT !.phase = "armed", !.trouble = @ \ Ends(mode)]
      /\ Broadcast(<<Verb("alarm_off"), SystemArm(mode)>>)
  BY <1>2 DEF SirenStops
<1>4. /\ panel' \in [phase : Phase, mode : Mode, trouble : SUBSET Condition, bypassed : SUBSET Zone,
                     zone : [Zone -> ZoneState]]
      /\ panel'.phase = "armed" /\ panel'.mode = mode /\ panel'.trouble = panel.trouble \ Ends(mode)
      /\ panel'.bypassed = panel.bypassed /\ panel'.zone = panel.zone
  BY <1>1, <1>2, <1>3 DEF Phase
<1>5. PanelType' /\ PanelSound' /\ asked' = asked
  BY <1>1, <1>2, <1>3, <1>4, Broadcasts DEF PanelType, PanelSound
<1>6. PICK q \in AnyReading : q = Verb("alarm_off") /\ q.kind \notin Telling
  BY ReadingsOf DEF Verb, Telling
<1>7. PICK r \in AnyReading : r = SystemArm(mode) /\ r.mode = mode
  BY ReadingsOf DEF SystemArm
<1>8. Broadcast(<<q, r>>)
  BY <1>3, <1>6, <1>7
<1>9. PICK l \in Message, m \in Message :
        /\ Sends(<<l, m>>) /\ l.reading = q /\ m.reading = r
        /\ l.armed <=> panel'.mode # 0
        /\ m.armed <=> panel'.mode # 0
  <2>1. /\ Send(<<q, r>>)
        /\ UNCHANGED <<ha, shown, unseen, up, alarm, cond, states, isolated, announced, file, slots,
                       resync>>
    BY <1>8, Broadcasts
  <2>2. r.kind \in Telling => r.mode = panel'.mode
    BY <1>4, <1>7
  <2>3. QED
    BY <1>1, <1>5, <1>6, <2>1, <2>2, SendingTwo
<1>10. PICK sent : sent = <<l, m>>
  OBVIOUS
<1>11. Tells(sent)
  BY <1>2, <1>4, <1>5, <1>6, <1>7, <1>9, <1>10, ArmTells
<1>12. QED
  BY <1>11, TellsPreserves

\* a disarming,
LEMMA DisarmedPreserves == SecInv /\ Disarmed => SecInv'
<1> SUFFICES ASSUME SecInv, Disarmed
             PROVE  SecInv'
  OBVIOUS
<1>1. /\ Typed /\ PanelType /\ PanelSound
      /\ panel \in [phase : Phase, mode : Mode, trouble : SUBSET Condition, bypassed : SUBSET Zone,
                    zone : [Zone -> ZoneState]]
  BY DEF SecInv, Typed, PanelType
<1>2. PICK mode \in Mode : mode = 0
  BY DEF Mode
<1>3. panel' = [panel EXCEPT !.phase = "idle", !.mode = 0, !.bypassed = {}, !.trouble = @ \ Ends(0)]
  BY DEF Disarmed
<1>4. /\ panel' \in [phase : Phase, mode : Mode, trouble : SUBSET Condition, bypassed : SUBSET Zone,
                     zone : [Zone -> ZoneState]]
      /\ panel'.phase = "idle" /\ panel'.mode = 0 /\ panel'.trouble = panel.trouble \ Ends(0)
      /\ panel'.bypassed = {} /\ panel'.zone = panel.zone
  BY <1>1, <1>2, <1>3 DEF Phase
<1>5. \E readings : Broadcast(readings)
  BY DEF Disarmed
<1>6. PanelType' /\ PanelSound' /\ asked' = asked
  BY <1>1, <1>4, <1>5, Broadcasts DEF PanelType, PanelSound
<1>7. PICK q \in AnyReading : q = Verb("alarm_off") /\ q.kind \notin Telling
  BY ReadingsOf DEF Verb, Telling
<1>8. PICK r \in AnyReading : r = SystemArm(mode) /\ r.mode = mode
  BY ReadingsOf DEF SystemArm
<1>9. CASE panel.phase = "alarm"
  <2>1. Broadcast(<<Verb("alarm_off")>> \o <<SystemArm(0)>>)
    BY <1>9 DEF Disarmed
  <2>2. <<q>> \o <<r>> = <<q, r>>
    BY Joined
  <2>3. Broadcast(<<q, r>>)
    BY <1>2, <1>7, <1>8, <2>1, <2>2
  <2>4. PICK l \in Message, m \in Message :
          /\ Sends(<<l, m>>) /\ l.reading = q /\ m.reading = r
          /\ l.armed <=> panel'.mode # 0
          /\ m.armed <=> panel'.mode # 0
    <3>1. /\ Send(<<q, r>>)
          /\ UNCHANGED <<ha, shown, unseen, up, alarm, cond, states, isolated, announced, file, slots,
                         resync>>
      BY <2>3, Broadcasts
    <3>2. r.kind \in Telling => r.mode = panel'.mode
      BY <1>2, <1>4, <1>8
    <3>3. QED
      BY <1>1, <1>6, <1>7, <3>1, <3>2, SendingTwo
  <2>5. PICK sent : sent = <<l, m>>
    OBVIOUS
  <2>6. Tells(sent)
    BY <1>2, <1>4, <1>6, <1>7, <1>8, <2>4, <2>5, ArmTells
  <2>7. QED
    BY <2>6, TellsPreserves
<1>10. CASE panel.phase # "alarm"
  <2>1. Broadcast(<<>> \o <<SystemArm(0)>>)
    BY <1>10 DEF Disarmed
  <2>2. <<>> \o <<r>> = <<r>>
    OBVIOUS
  <2>3. Broadcast(<<r>>)
    BY <1>2, <1>8, <2>1, <2>2
  <2>4. PICK m \in Message : /\ Sends(<<m>>) /\ m.reading = r
                             /\ m.armed <=> panel'.mode # 0
    BY <1>1, <1>2, <1>4, <1>6, <1>8, <2>3, Broadcasts, SendingOne
  <2>5. PICK sent : sent = <<m>>
    OBVIOUS
  <2>6. Tells(sent)
    BY <1>2, <1>4, <1>6, <1>8, <2>4, <2>5, ArmTells
  <2>7. QED
    BY <2>6, TellsPreserves
<1>11. QED
  BY <1>9, <1>10

\* The two reports say what the panel's state is.
LEMMA ReportsAreReadings ==
  ASSUME PanelType
  PROVE  /\ Report1 \in AnyReading /\ Report1.kind = "status_report_1" /\ Report1.mode = panel.mode
         /\ Report1.trouble = panel.trouble \intersect Reported
         /\ \A z \in First : z \in Zone /\ Report1.zones[z] = panel.zone[z]
         /\ Report2 \in AnyReading /\ Report2.kind = "status_report_2"
         /\ \A z \in Zone \ First : Report2.zones[z] = panel.zone[z]
<1> DEFINE first == [z \in First |-> panel.zone[z]]
           rest  == [z \in Zone \ First |-> panel.zone[z]]
           trouble == panel.trouble \intersect Reported
<1>1. /\ first \in [First -> ZoneState] /\ rest \in [Zone \ First -> ZoneState]
      /\ trouble \in SUBSET Reported /\ panel.mode \in Mode
  BY ZoneAssumption DEF PanelType
<1>2. /\ \A z \in First : z \in Zone /\ first[z] = panel.zone[z]
      /\ \A z \in Zone \ First : rest[z] = panel.zone[z]
  BY ZoneAssumption
<1> HIDE DEF first, rest, trouble
<1>3. Report1 = [kind |-> "status_report_1", mode |-> panel.mode, trouble |-> trouble, zones |-> first]
  BY DEF Report1, trouble, first
<1>4. Report2 = [kind |-> "status_report_2", zones |-> rest]
  BY DEF Report2, rest
<1>5. FirstReading \subseteq AnyReading /\ SecondReading \subseteq AnyReading
  BY DEF AnyReading
<1>6. Report1 \in FirstReading
  BY <1>1, <1>3 DEF FirstReading
<1>7. Report2 \in SecondReading
  BY <1>1, <1>4 DEF SecondReading
<1>8. /\ Report1.kind = "status_report_1" /\ Report1.mode = panel.mode
      /\ Report1.trouble = trouble /\ Report1.zones = first
      /\ Report2.kind = "status_report_2" /\ Report2.zones = rest
  BY <1>3, <1>4
<1>9. QED
  BY <1>2, <1>5, <1>6, <1>7, <1>8 DEF trouble

\* The answer to a request keeps the invariant,
LEMMA AnswerPreserves == SecInv /\ Answer => SecInv'
<1> SUFFICES ASSUME SecInv, Answer
             PROVE  SecInv'
  OBVIOUS
<1>1. Typed /\ PanelType /\ PanelSound /\ asked \in Nat
  BY DEF SecInv, Typed, PanelType
<1>2. /\ asked > 0 /\ asked' = asked - 1 /\ panel' = panel /\ answered' = (answered \/ Heard)
      /\ Send(<<Report1, Report2>>)
      /\ UNCHANGED <<ha, shown, unseen, up, alarm, cond, states, isolated, announced, file, slots,
                     resync>>
  BY DEF Answer, tracker
<1>3. /\ Report1 \in AnyReading /\ Report1.kind = "status_report_1" /\ Report1.mode = panel.mode
      /\ Report1.trouble = panel.trouble \intersect Reported
      /\ \A z \in First : z \in Zone /\ Report1.zones[z] = panel.zone[z]
      /\ Report2 \in AnyReading /\ Report2.kind = "status_report_2"
      /\ \A z \in Zone \ First : Report2.zones[z] = panel.zone[z]
  BY <1>1, ReportsAreReadings
<1>4. asked' \in Nat /\ asked' # asked
  BY <1>1, <1>2
<1>5. PanelType' /\ PanelSound'
  <2>1. answered' \in BOOLEAN
    BY <1>1, <1>2 DEF PanelType, Heard
  <2>2. QED
    BY <1>1, <1>2, <1>4, <2>1 DEF PanelType, PanelSound
<1>6. PICK l \in Message, m \in Message :
        /\ Sends(<<l, m>>) /\ l.reading = Report1 /\ m.reading = Report2
        /\ l.armed <=> panel'.mode # 0
        /\ m.armed <=> panel'.mode # 0
  <2>1. Report1.kind \in Telling => Report1.mode = panel'.mode
    BY <1>2, <1>3
  <2>2. Report2.kind \in Telling => Report2.mode = panel'.mode
    BY <1>3 DEF Telling
  <2>3. QED
    BY <1>1, <1>2, <1>3, <1>5, <2>1, <2>2, SendingTwo, ZenonT(60)
<1>7. /\ \A kinds : l \in OfKinds(kinds) <=> "status_report_1" \in kinds
      /\ l \in Setters /\ l \in Modes
      /\ l \in Clearing <=> panel.mode = 0
      /\ \A z : l \in ZoneNews(z) <=> z \in First
      /\ \A c : l \in TroubleNews(c) <=> c \in About(l.reading)
      /\ \A z : l \notin Isolating(z)
      /\ \A z : l \in IsolationNews(z) <=> l \in Isolating(z) \/ l \in Clearing
  BY <1>3, <1>6, NewsByKind DEF Clears, Telling
<1>8. /\ \A kinds : m \in OfKinds(kinds) <=> "status_report_2" \in kinds
      /\ m \notin Setters /\ m \notin Modes
      /\ \A z : m \in ZoneNews(z) <=> z \notin First
      /\ \A c : m \notin TroubleNews(c)
      /\ \A z : m \notin IsolationNews(z)
  BY <1>3, <1>6, NewsByKind, AboutByKind DEF Clears, Telling
<1>9. Heard => Correct(l)
  <2>1. Heard => l \in RightSetters'
    BY <1>2, <1>3, <1>6, <1>7, RightByKindNext
  <2>2. l \in RightModes'
    BY <1>2, <1>3, <1>6, <1>7, RightByKindNext
  <2>3. \A z \in Zone : l \in ZoneNews(z) => l \in RightZones(z)'
    BY <1>2, <1>3, <1>6, <1>7, RightByKindNext DEF Said
  <2>4. \A z \in Zone : l \in IsolationNews(z) => l \in RightIsolations(z)'
    BY <1>1, <1>2, <1>7, RightByKindNext DEF PanelSound
  <2>5. \A c \in Condition : l \in TroubleNews(c) => l \in RightTroubles(c)'
    <3> SUFFICES ASSUME NEW c \in Condition, l \in TroubleNews(c)
                 PROVE  Active(l.reading, c) <=> c \in panel'.trouble
      BY RightByKindNext
    <3>1. c \in Reported
      BY <1>3, <1>6, <1>7, AboutByKind, NotACondition
    <3>2. QED
      BY <1>2, <1>3, <1>6, <3>1 DEF Active
  <2>6. QED
    BY <1>6, <2>1, <2>2, <2>3, <2>4, <2>5 DEF Correct
<1>10. Correct(m)
  <2>1. \A z \in Zone : m \in ZoneNews(z) => m \in RightZones(z)'
    BY <1>2, <1>3, <1>6, <1>8, RightByKindNext DEF Said
  <2>2. QED
    BY <1>6, <1>8, <2>1 DEF Correct
<1>11. PICK sent : sent = <<l, m>>
  OBVIOUS
<1>12. Heard => \A i \in DOMAIN sent : Correct(sent[i])
  <2>1. DOMAIN sent = {1, 2} /\ sent[1] = l /\ sent[2] = m
    BY <1>11
  <2>2. QED
    BY <1>9, <1>10, <2>1
<1>13. \A M, V : /\ Absent(M, sent) <=> l \notin M /\ m \notin M
                 /\ Newest(M, sent, V) <=> IF m \in M THEN m \in V ELSE l \in M => l \in V
  BY <1>11, NewestTwo
<1>14. Silent(sent)
  BY <1>2, <1>7, <1>13 DEF Silent
<1>15. Ending(sent)
  BY <1>2, <1>7, <1>8, <1>13 DEF Ending
<1>16. Answers(sent)
  BY <1>2, <1>7, <1>8, <1>13 DEF Answers
<1>17. Sends(sent)
  BY <1>6, <1>11
<1>18. Tells(sent)
  BY <1>5, <1>12, <1>14, <1>15, <1>16, <1>17 DEF Tells
<1>19. QED
  BY <1>18, TellsPreserves

\* An arming is followed by the isolation of each open zone.
LEMMA ArmedReadings ==
  ASSUME NEW mode \in Mode, NEW open \in SUBSET Zone
  PROVE  LET isolations == [i \in 1..Cardinality(open) |->
                              [kind |-> "zone_isolated", zone |-> SetToSeq(open)[i]]]
             readings == <<SystemArm(mode)>> \o isolations
         IN /\ readings \in Seq(AnyReading) /\ 1 \in DOMAIN readings /\ readings[1] = SystemArm(mode)
            /\ \A i \in DOMAIN readings : i # 1 =>
                 /\ readings[i].kind = "zone_isolated" /\ readings[i].zone \in open
            /\ \A z \in open : \E i \in DOMAIN readings :
                 readings[i].kind = "zone_isolated" /\ readings[i].zone = z
<1> DEFINE n == Cardinality(open)
           order == SetToSeq(open)
           isolations == [i \in 1..n |-> [kind |-> "zone_isolated", zone |-> order[i]]]
           readings == <<SystemArm(mode)>> \o isolations
<1>1. IsFiniteSet(open)
  BY ZoneAssumption, FS_Subset
<1>2. /\ n \in Nat /\ order \in [1..n -> open]
      /\ \A z \in open : \E i \in 1..n : order[i] = z
  BY <1>1, SetToSeqHoldsAll
<1> HIDE DEF n, order
<1>3. \A i \in 1..n : /\ isolations[i] \in AnyReading /\ order[i] \in open
                      /\ isolations[i].kind = "zone_isolated" /\ isolations[i].zone = order[i]
  <2> TAKE i \in 1..n
  <2>1. order[i] \in open /\ order[i] \in Zone
    BY <1>2
  <2>2. isolations[i] = [kind |-> "zone_isolated", zone |-> order[i]]
    OBVIOUS
  <2> HIDE DEF isolations
  <2>3. PICK r \in AnyReading : r = [kind |-> "zone_isolated", zone |-> order[i]]
    BY <2>1, ReadingsOf
  <2>4. r.kind = "zone_isolated" /\ r.zone = order[i]
    BY <2>3
  <2>5. QED
    BY <2>1, <2>2, <2>3, <2>4
<1>4. isolations \in Seq(AnyReading) /\ Len(isolations) = n
  <2>1. isolations \in [1..n -> AnyReading]
    BY <1>3
  <2>2. QED
    BY <1>2, <2>1
<1>5. SystemArm(mode) \in AnyReading
  BY ReadingsOf DEF SystemArm
<1> HIDE DEF isolations
<1>6. PICK front \in Seq(AnyReading) :
        front = <<SystemArm(mode)>> /\ Len(front) = 1 /\ front[1] = SystemArm(mode)
  <2>1. PICK r \in AnyReading : r = SystemArm(mode)
    BY <1>5
  <2>2. <<r>> \in Seq(AnyReading) /\ Len(<<r>>) = 1 /\ <<r>>[1] = r
    OBVIOUS
  <2>3. QED
    BY <2>1, <2>2
<1>7. /\ front \o isolations \in Seq(AnyReading) /\ DOMAIN (front \o isolations) = 1..(n + 1)
      /\ (front \o isolations)[1] = SystemArm(mode)
      /\ \A i \in 1..n : (front \o isolations)[i + 1] = isolations[i]
  <2>1. front \o isolations \in Seq(AnyReading) /\ Len(front \o isolations) = n + 1
    BY <1>2, <1>4, <1>6
  <2>2. DOMAIN (front \o isolations) = 1..(n + 1)
    BY <2>1
  <2>3. (front \o isolations)[1] = SystemArm(mode)
    BY <1>2, <1>4, <1>6
  <2>4. \A i \in 1..n : (front \o isolations)[i + 1] = isolations[i]
    BY <1>2, <1>4, <1>6
  <2>5. QED
    BY <2>1, <2>2, <2>3, <2>4
<1>8. readings = front \o isolations
  BY <1>6
<1> HIDE DEF readings
<1>9. \A i \in DOMAIN readings : i # 1 => i - 1 \in 1..n /\ readings[i] = isolations[i - 1]
  <2> SUFFICES ASSUME NEW i \in 1..(n + 1), i # 1
               PROVE  i - 1 \in 1..n /\ readings[i] = isolations[i - 1]
    BY <1>7, <1>8
  <2>1. i - 1 \in 1..n /\ (i - 1) + 1 = i
    BY <1>2
  <2>2. QED
    BY <1>7, <1>8, <2>1
<1>10. \A i \in DOMAIN readings : i # 1 => readings[i].kind = "zone_isolated" /\ readings[i].zone \in open
  BY <1>3, <1>9
<1>11. \A z \in open : \E i \in DOMAIN readings : readings[i].kind = "zone_isolated" /\ readings[i].zone = z
  <2> SUFFICES ASSUME NEW z \in open
               PROVE  \E i \in DOMAIN readings : readings[i].kind = "zone_isolated" /\ readings[i].zone = z
    OBVIOUS
  <2>1. PICK i \in 1..n : order[i] = z
    BY <1>2
  <2>2. i + 1 \in 1..(n + 1)
    BY <1>2
  <2>3. readings[i + 1] = isolations[i]
    BY <1>7, <1>8
  <2>4. QED
    BY <1>3, <1>7, <1>8, <2>1, <2>2, <2>3
<1>12. 1 \in DOMAIN readings
  BY <1>2, <1>7, <1>8
<1>13. QED
  BY <1>7, <1>8, <1>10, <1>11, <1>12 DEF readings, isolations, n, order

\* and so does an arming.
LEMMA ArmedPreserves == SecInv /\ Armed => SecInv'
<1> SUFFICES ASSUME SecInv, Armed
             PROVE  SecInv'
  OBVIOUS
<1>1. /\ Typed /\ PanelType /\ PanelSound
      /\ panel \in [phase : Phase, mode : Mode, trouble : SUBSET Condition, bypassed : SUBSET Zone,
                    zone : [Zone -> ZoneState]]
  BY DEF SecInv, Typed, PanelType
<1> DEFINE open == {z \in Zone : panel.zone[z] = "unsealed"}
<1>2. PICK mode \in ArmMode :
        /\ panel.phase \in {"idle", "exit"}
        /\ panel' = [panel EXCEPT !.phase = "armed", !.mode = mode, !.bypassed = open,
                                  !.trouble = @ \ Ends(mode)]
        /\ Broadcast(<<SystemArm(mode)>> \o
                       [i \in 1..Cardinality(open) |->
                          [kind |-> "zone_isolated", zone |-> SetToSeq(open)[i]]])
  BY DEF Armed
<1>3. mode \in Mode /\ mode # 0
  BY <1>2, ArmModeAssumption DEF Mode
<1>4. PICK bypassed \in SUBSET Zone : bypassed = open
  OBVIOUS
<1>5. PICK readings \in Seq(AnyReading) :
        /\ Broadcast(readings)
        /\ 1 \in DOMAIN readings /\ readings[1] = SystemArm(mode)
        /\ \A i \in DOMAIN readings : i # 1 =>
             readings[i].kind = "zone_isolated" /\ readings[i].zone \in bypassed
        /\ \A z \in bypassed : \E i \in DOMAIN readings :
             readings[i].kind = "zone_isolated" /\ readings[i].zone = z
  <2>1. Broadcast(<<SystemArm(mode)>> \o
                    [i \in 1..Cardinality(bypassed) |->
                       [kind |-> "zone_isolated", zone |-> SetToSeq(bypassed)[i]]])
    BY <1>2, <1>4
  <2> HIDE DEF open
  <2>2. QED
    BY <1>3, <2>1, ArmedReadings
<1> HIDE DEF open
<1>6. /\ panel' \in [phase : Phase, mode : Mode, trouble : SUBSET Condition, bypassed : SUBSET Zone,
                     zone : [Zone -> ZoneState]]
      /\ panel'.phase = "armed" /\ panel'.mode = mode /\ panel'.trouble = panel.trouble \ Ends(mode)
      /\ panel'.bypassed = bypassed /\ panel'.zone = panel.zone
  BY <1>1, <1>2, <1>3, <1>4 DEF Phase
<1>7. /\ Send(readings) /\ asked' = asked
      /\ UNCHANGED <<ha, shown, unseen, up, alarm, cond, states, isolated, announced, file, slots,
                     resync>>
      /\ answered' = (answered /\ panel'.phase = panel.phase)
  BY <1>5, Broadcasts
<1>8. PanelType' /\ PanelSound'
  BY <1>1, <1>3, <1>6, <1>7 DEF PanelType, PanelSound
<1>9. PICK sent :
        /\ Sends(sent) /\ Len(sent) = Len(readings) /\ DOMAIN sent = DOMAIN readings
        /\ \A i \in DOMAIN sent : /\ sent[i] \in Message /\ sent[i].reading = readings[i]
                                  /\ sent[i].armed <=> panel'.mode # 0
  <2>1. \A i \in DOMAIN readings : readings[i].kind \in Telling => readings[i].mode = panel'.mode
    BY <1>5, <1>6 DEF SystemArm, Telling
  <2>2. QED
    BY <1>1, <1>7, <1>8, <2>1, Sending
<1>10. PICK m \in Message : m = sent[1] /\ m.reading = SystemArm(mode) /\ (m.armed <=> panel'.mode # 0)
  BY <1>5, <1>9
<1>11. /\ Correct(m) /\ m \in Setters /\ m \in Modes
       /\ \A kinds : m \in OfKinds(kinds) <=> "system_arm" \in kinds
       /\ \A c \in Condition : m \in TroubleNews(c) <=> c \in Ends(mode)
  BY <1>3, <1>6, <1>10, ArmCorrect
<1>12. ASSUME NEW i \in DOMAIN sent, i # 1
       PROVE  /\ Correct(sent[i]) /\ \A kinds : sent[i] \in OfKinds(kinds) <=> "zone_isolated" \in kinds
              /\ \A z : sent[i] \in IsolationNews(z) <=> sent[i].reading.zone = z
  <2>1. PICK l \in Message : l = sent[i] /\ l.reading.kind = "zone_isolated"
                             /\ l.reading.zone \in bypassed /\ (l.armed <=> panel'.mode # 0)
    BY <1>5, <1>9, <1>12
  <2>2. l.reading \in AnyReading /\ \A c \in Condition : c \notin About(l.reading)
    BY <2>1, MessageFields, AboutByKind, NotACondition
  <2>3. /\ \A kinds : l \in OfKinds(kinds) <=> "zone_isolated" \in kinds
        /\ l \notin Setters /\ l \notin Modes
        /\ \A z : l \notin ZoneNews(z)
        /\ \A c \in Condition : l \notin TroubleNews(c)
        /\ \A z : l \in Isolating(z) <=> l.reading.zone = z
        /\ \A z : l \in IsolationNews(z) <=> l.reading.zone = z
    BY <2>1, <2>2, NewsByKind DEF Clears, Telling
  <2>4. \A z \in Zone : l \in IsolationNews(z) => l \in RightIsolations(z)'
    BY <1>6, <2>1, <2>3, RightByKindNext
  <2>5. Correct(l)
    BY <1>3, <1>6, <2>3, <2>4 DEF Correct
  <2>6. QED
    BY <2>1, <2>3, <2>5
<1>13. \A i \in DOMAIN sent : Correct(sent[i])
  BY <1>10, <1>11, <1>12
<1>14. \A M : m \in M => ~Absent(M, sent)
  BY <1>5, <1>9, <1>10 DEF Absent
<1>15. Silent(sent)
  <2>1. ASSUME NEW z \in Zone, Absent(IsolationNews(z), sent)
        PROVE  z \in panel'.bypassed <=> z \in panel.bypassed
    <3>1. z \notin bypassed
      <4> SUFFICES ASSUME z \in bypassed
                   PROVE  FALSE
        OBVIOUS
      <4>1. PICK i \in DOMAIN readings : readings[i].kind = "zone_isolated" /\ readings[i].zone = z
        BY <1>5
      <4>2. i # 1
        BY <1>5, <4>1 DEF SystemArm
      <4>3. i \in DOMAIN sent /\ sent[i].reading.zone = z
        BY <1>9, <4>1
      <4>4. sent[i] \in IsolationNews(z)
        BY <1>12, <4>2, <4>3
      <4>5. QED
        BY <2>1, <4>3, <4>4 DEF Absent
    <3>2. panel.bypassed = {}
      BY <1>1, <1>2 DEF PanelSound
    <3>3. QED
      BY <1>6, <3>1, <3>2
  <2>2. \A c \in Condition : Absent(TroubleNews(c), sent) => (c \in panel'.trouble <=> c \in panel.trouble)
    BY <1>6, <1>11, <1>14
  <2>3. ~Absent(Setters, sent) /\ ~Absent(Modes, sent)
    BY <1>11, <1>14
  <2>4. panel'.zone = panel.zone
    BY <1>6
  <2>5. QED
    BY <2>1, <2>2, <2>3, <2>4 DEF Silent
<1>16. Ending(sent)
  <2> DEFINE V == OfKinds({"system_arm"})
  <2>1. \A i \in DOMAIN sent : \/ sent[i] = m
                               \/ /\ sent[i] \notin OfKinds({"alarm_off", "system_arm"})
                                  /\ sent[i] \notin OfKinds({"alarm_on", "system_arm"})
    BY <1>10, <1>12
  <2>2. m \in V
    BY <1>11
  <2>3. /\ Newest(OfKinds({"alarm_off", "system_arm"}), sent, V)
        /\ Newest(OfKinds({"alarm_on", "system_arm"}), sent, V)
    BY <2>1, <2>2 DEF Newest
  <2>4. panel.phase # "alarm" /\ panel'.mode # 0
    BY <1>2, <1>3, <1>6
  <2>5. QED
    BY <2>3, <2>4 DEF Ending
<1>17. Answers(sent)
  BY <1>7 DEF Answers
<1>18. Tells(sent)
  BY <1>8, <1>9, <1>13, <1>15, <1>16, <1>17 DEF Tells
<1>19. QED
  BY <1>18, TellsPreserves

-----------------------------------------------------------------------------
(* The theorems *)

\* At the start nothing was heard.
LEMMA SecInvInit == Init => SecInv
<1> SUFFICES ASSUME Init
             PROVE  SecInv
  OBVIOUS
<1>1. /\ panel = [phase |-> "idle", mode |-> 0, trouble |-> {}, bypassed |-> {},
                  zone |-> [z \in Zone |-> "sealed"]]
      /\ wire = <<>> /\ asked = 0 /\ ha = TRUE /\ shown = Blank /\ up = "down"
      /\ alarm = NewAlarm /\ cond = {} /\ states = [z \in Zone |-> Nothing] /\ isolated = {}
      /\ file = [cond |-> {}, isolated |-> {}]
      /\ slots = {} /\ announced = FALSE /\ resync = FALSE
      /\ answered = FALSE /\ missed = FALSE /\ lost = {} /\ unseen = {}
  BY DEF Init
<1>2. PanelType /\ PanelSound
  <2>1. [z \in Zone |-> "sealed"] \in [Zone -> ZoneState] /\ 0 \in Mode /\ "idle" \in Phase
    BY DEF ZoneState, Mode, Phase
  <2>2. QED
    BY <1>1, <2>1 DEF PanelType, PanelSound
<1>3. WireType
  <2>1. <<>> \in Seq(Message)
    OBVIOUS
  <2>2. QED
    BY <1>1, <2>1 DEF WireType
<1>4. ShownType
  BY <1>1 DEF ShownType, Blank
<1>5. TrackerType
  <2>1. AlarmType /\ alarm.pre # "triggered"
    BY <1>1 DEF AlarmType, NewAlarm, Nothing, NoMode
  <2>2. QED
    BY <1>1, <2>1 DEF TrackerType
<1>6. SessionSound /\ LampsShown /\ ~Steady
  BY <1>1 DEF SessionSound, LampsShown, Steady, Blank
<1>7. \A M, V : Newest(M, wire, V) /\ Absent(M, wire)
  BY <1>1, NewestEmpty
<1>8. TroubleRight /\ IsolationRight
  BY <1>1, <1>7 DEF TroubleRight, IsolationRight
<1>9. IsolationEnds /\ ZonesRight /\ CardRight /\ AlarmEnds /\ ModeRight
  BY <1>6, <1>7 DEF Settled, IsolationEnds, ZonesRight, CardRight, AlarmEnds, ModeRight
<1>10. QED
  BY <1>2, <1>3, <1>4, <1>5, <1>6, <1>8, <1>9 DEF SecInv, Typed

\* A step that changes nothing keeps the invariant.
LEMMA StutterPreserves == SecInv /\ UNCHANGED vars => SecInv'
<1> SUFFICES ASSUME SecInv, UNCHANGED vars
             PROVE  SecInv'
  OBVIOUS
<1>1. UNCHANGED <<panel, wire, asked, ha, shown, up, alarm, cond, states, isolated, file, slots,
                  announced, resync, answered, missed, lost, unseen>>
  BY DEF vars
<1>2. Typed' /\ LampsShown' /\ SessionSound'
  BY <1>1 DEF SecInv, Typed, PanelType, WireType, ShownType, TrackerType, AlarmType, LampsShown,
              SessionSound
<1>3. (Steady' => Steady) /\ (Settled' => Settled)
  BY <1>1 DEF Steady, Settled
<1>4. \A z \in Zone : states'[z] \in {Nothing, states[z]}
  BY <1>1
<1>5. Settled' /\ ~resync' /\ ha' => ~resync /\ ha /\ shown' = shown
  BY <1>1
<1>6. Steady' /\ ha' /\ ~resync' /\ alarm'.state # Nothing =>
        Steady /\ ha /\ ~resync /\ shown' = shown
  BY <1>1, <1>3
<1>7. QED
  BY <1>1, <1>2, <1>3, <1>4, <1>5, <1>6, QuietStep

\* Every step keeps the invariant.
LEMMA SecInvNext == SecInv /\ [Next]_vars => SecInv'
<1> SUFFICES ASSUME SecInv, [Next]_vars
             PROVE  SecInv'
  OBVIOUS
<1>1. CASE Handle
  BY <1>1, HandlePreserves
<1>2. CASE ResyncFires \/ NetworkSyncComplete \/ AllConnected
  BY <1>2, SyncsPreserve
<1>3. CASE Crash
  BY <1>3, CrashPreserves
<1>4. CASE BridgeStarts
  BY <1>4, StartPreserves
<1>5. CASE BrokerConnected
  BY <1>5, BrokerPreserves
<1>6. CASE EventConnectionLost
  BY <1>6, ConnectionLostPreserves
<1>7. CASE HaStops \/ HaStarts
  BY <1>7, HaPreserves
<1>8. CASE Panel
  BY <1>8, ZoneMovesPreserves, TroubleChangesPreserves, PhasesPreserve, ArmedPreserves,
     SirenStopsPreserves, DisarmedPreserves DEF Panel
<1>9. CASE Answer
  BY <1>9, AnswerPreserves
<1>10. CASE UNCHANGED vars
  BY <1>10, StutterPreserves
<1>11. QED
  BY <1>1, <1>2, <1>3, <1>4, <1>5, <1>6, <1>7, <1>8, <1>9, <1>10 DEF Next

\* The invariant holds (securityPanelState.js:280-514, securityEventHandler.js:161-345).
THEOREM SecurityInvariant == Spec => []SecInv
BY SecInvInit, SecInvNext, PTL DEF Spec

\* At rest the card, the sensors and the tracker are right, whatever was restarted, lost
\* or late before (securityPanelState.js:280-514, securityEventHandler.js:161-345).
THEOREM PanelIsRight == Spec => []PanelAgrees
<1>1. SecInv => PanelAgrees
  <2> SUFFICES ASSUME SecInv
               PROVE  PanelAgrees
    OBVIOUS
  <2>1. /\ PanelType /\ WireType /\ ShownType /\ TrackerType /\ LampsShown
    BY DEF SecInv, Typed
  <2>2. TypeOK
    BY <2>1 DEF TypeOK, PanelType, WireType, ShownType, TrackerType, AlarmType, Mode
  <2>3. ASSUME AtRest
        PROVE  Settled /\ Steady /\ ha /\ ~resync /\ \A M : Absent(M, wire)
    <3>1. Settled /\ Steady /\ ha /\ ~resync
      BY <2>3 DEF AtRest, SecInv, SessionSound, Settled, Steady
    <3>2. QED
      BY <2>3, <3>1, NewestEmpty DEF AtRest
  <2>4. CardAgrees
    <3> SUFFICES ASSUME AtRest
                 PROVE  \/ shown.card = PhaseCard
                        \/ answered /\ shown.card = StateForArmMode(panel.mode)
      BY DEF CardAgrees
    <3>1. /\ \/ alarm.state = PhaseCard
             \/ answered /\ alarm.state = StateForArmMode(panel.mode)
          /\ alarm.state # Nothing => shown.card = alarm.state
      BY <2>3 DEF SecInv, CardRight
    <3>2. PhaseCard # Nothing /\ StateForArmMode(panel.mode) # Nothing
      BY ArmModes DEF PhaseCard, Nothing, ArmedState
    <3>3. QED
      BY <3>1, <3>2
  <2>5. SensorsAgree
    <3>1. ASSUME AtRest, NEW z \in Zone
          PROVE  /\ shown.zone[z] = panel.zone[z]
                 /\ shown.attr[z] = "isolated" <=> z \in isolated
      BY <2>3, <3>1 DEF SecInv, ZonesRight
    <3>2. QED
      BY <2>1, <3>1 DEF SensorsAgree, ZonesShown
  <2>6. TrackerAgrees
    <3> SUFFICES ASSUME AtRest
                 PROVE  IsolationTracked /\ TroubleTracked
      BY DEF TrackerAgrees
    <3>1. panel.mode = 0 => \A z \in Zone : z \notin isolated
      BY <2>3 DEF SecInv, IsolationEnds
    <3>2. "isolation" \notin lost => \A z \in Zone : z \in isolated <=> z \in panel.bypassed
      BY <2>3 DEF SecInv, IsolationRight
    <3>3. isolated \subseteq Zone /\ panel.bypassed \subseteq Zone
      BY <2>1 DEF PanelType, TrackerType
    <3>4. IsolationTracked
      BY <3>1, <3>2, <3>3 DEF IsolationTracked
    <3>5. TroubleTracked
      BY <2>3 DEF SecInv, TroubleRight, TroubleTracked
    <3>6. QED
      BY <3>4, <3>5
  <2>7. QED
    BY <2>2, <2>4, <2>5, <2>6 DEF PanelAgrees
<1>2. QED
  BY <1>1, SecurityInvariant, PTL

\* What a broadcast of an armed panel leaves behind it on the event connection.
LEMMA ArmedLeaves ==
  ASSUME SecInv, NEW m, Effect(m), m.armed, m \notin OfKinds({"system_arm"}), panel.mode = 0
  PROVE  \E i \in DOMAIN wire' : wire'[i] \in OfKinds({"system_arm"})
<1> DEFINE V == OfKinds({"system_arm"})
           A == {l \in Message : l.armed} \union V
<1>1. WireType /\ Taken(m) /\ m \in Message /\ m \in A /\ m \notin V
  BY DEF SecInv, Typed, Effect, Taken
<1>2. Newest(A, wire, V)
  BY DEF SecInv, ModeRight
<1> HIDE DEF A, V
<1>3. ~Absent(A, wire') /\ Newest(A, wire', V)
  BY <1>1, <1>2, Taking
<1>4. wire' \in Seq(Message)
  BY <1>1 DEF WireType, Taken
<1>5. \E i \in DOMAIN wire' : wire'[i] \in V
  BY <1>3, <1>4, NewestThere
<1>6. QED
  BY <1>5 DEF V

\* A siren that was turned off leaves the arming on its way,
LEMMA OffLeaves ==
  ASSUME SecInv, NEW m, Effect(m), m.reading.kind = "alarm_off"
  PROVE  \E i \in DOMAIN wire' : wire'[i] \in OfKinds({"system_arm"})
<1> DEFINE V == OfKinds({"system_arm"})
           O == OfKinds({"alarm_off", "system_arm"})
<1>1. WireType /\ Taken(m) /\ m \in Message /\ m \in O /\ m \notin V
  BY NewsByKind DEF SecInv, Typed, Effect, Taken
<1>2. Newest(O, wire, V)
  BY DEF SecInv, AlarmEnds
<1> HIDE DEF O, V
<1>3. ~Absent(O, wire') /\ Newest(O, wire', V)
  BY <1>1, <1>2, Taking
<1>4. wire' \in Seq(Message)
  BY <1>1 DEF WireType, Taken
<1>5. \E i \in DOMAIN wire' : wire'[i] \in V
  BY <1>3, <1>4, NewestThere
<1>6. QED
  BY <1>5 DEF V

\* so a card that reassures will be corrected.
LEMMA HandledReassurance ==
  ASSUME SecInv, Handle, Reassured
  PROVE  \/ asked' > 0
         \/ \E i \in DOMAIN wire' : wire'[i].reading.kind \in {"system_arm", "status_report_1"}
<1>1. PICK m : m = Head(wire)
  OBVIOUS
<1>2. /\ Effect(m) /\ m \in Message /\ m.armed /\ ~missed
      /\ shown'.card = "disarmed" /\ shown.card # "disarmed" /\ PanelType /\ WireType
  BY <1>1, HandlesOne DEF SecInv, Typed, Effect, Taken, Reassured
<1>3. m.reading.kind # "password_entry"
  <2> SUFFICES ASSUME m.reading.kind = "password_entry"
               PROVE  shown' = shown
    BY <1>2
  <2>1. HandlePasswordEntry
    BY <1>1 DEF Handle, HandleZone, HandleTrouble, HandleSystemArm, HandleZoneIsolated,
                HandleStatusReport, HandleSystemState, Hear
  <2>2. QED
    BY <2>1 DEF HandlePasswordEntry
<1>4. alarm'.state = "disarmed"
  BY <1>2 DEF Effect, ShowsAlarm
<1>5. /\ m \in Setters <=> m.reading.kind \in {"exit_delay_started", "entry_delay_started",
                                               "alarm_on", "system_arm", "status_report_1"}
      /\ \A kinds : m \in OfKinds(kinds) <=> m.reading.kind \in kinds
      /\ m \in Modes <=> m.reading.kind \in Telling
  BY <1>2, NewsByKind
<1>6. m \notin Setters \/ Unheard(m)
  <2> SUFFICES ASSUME m \in Setters, ~Unheard(m)
               PROVE  FALSE
    OBVIOUS
  <2>1. Says(m.reading) = "disarmed"
    BY <1>2, <1>4 DEF Effect, KnowsAlarm
  <2>2. m.reading.kind \in Telling /\ StateForArmMode(m.reading.mode) = "disarmed"
    BY <1>5, <2>1 DEF Says, Telling
  <2>3. QED
    BY <1>2, <2>2, ArmModes, MessageFields
<1>7. m \notin Modes /\ m \notin OfKinds({"system_arm"})
  BY <1>5, <1>6 DEF Unheard, Telling
<1>8. CASE panel.mode = 0
  <2>1. \E i \in DOMAIN wire' : wire'[i] \in OfKinds({"system_arm"})
    BY <1>2, <1>7, <1>8, ArmedLeaves
  <2>2. QED
    BY <2>1 DEF OfKinds
<1>9. CASE m.reading.kind = "alarm_off"
  <2>1. \E i \in DOMAIN wire' : wire'[i] \in OfKinds({"system_arm"})
    BY <1>2, <1>9, OffLeaves
  <2>2. QED
    BY <2>1 DEF OfKinds
<1>10. CASE ~Settled
  <2>1. "early" \notin slots \/ asked > 0
    BY <1>2, <1>10 DEF Settled, Steady, Effect, Taken, PanelType
  <2>2. asked + 1 > 0
    BY <1>2 DEF PanelType
  <2>3. QED
    BY <1>2, <1>3, <2>1, <2>2 DEF Effect, Asks
<1>11. CASE Settled /\ panel.mode # 0 /\ m.reading.kind # "alarm_off"
  <2>1. alarm.state \in {Nothing, "disarmed"}
    BY <1>2, <1>4, <1>6, <1>11 DEF Effect, KnowsAlarm
  <2>2. ~Absent(Modes, wire) /\ Newest(Modes, wire, RightModes)
    BY <1>11, <2>1 DEF SecInv, ModeRight
  <2>3. ~Absent(Modes, wire') /\ Newest(Modes, wire', RightModes)
    BY <1>2, <1>7, <2>2, Taking DEF Effect
  <2>4. QED
    BY <2>3 DEF Absent, Modes, OfKinds, Telling
<1>12. QED
  BY <1>8, <1>9, <1>10, <1>11

\* The card is told that an armed panel is disarmed only where a report or a system_arm
\* that corrects it is on its way (isIdleAlarmState, preAlarmState,
\* securityPanelState.js:280-514, and the syncs that make the tracker forget).
THEOREM ReassuranceIsCorrected == Spec => ReassuranceCorrected
<1> DEFINE Corrected == \/ asked' > 0
                        \/ \E i \in DOMAIN wire' :
                             wire'[i].reading.kind \in {"system_arm", "status_report_1"}
<1>1. ASSUME SecInv, [Next]_vars, Reassured
      PROVE  Corrected
  <2>1. CASE Handle
    BY <1>1, <2>1, HandledReassurance
  <2>2. CASE shown' = shown
    BY <1>1, <2>2 DEF Reassured
  <2>3. CASE HaStops
    BY <1>1, <2>3 DEF Reassured, HaStops, Blank
  <2>4. ResyncFires \/ NetworkSyncComplete \/ AllConnected \/ Crash \/ BridgeStarts
          \/ BrokerConnected \/ EventConnectionLost \/ HaStarts => shown' = shown
    BY DEF ResyncFires, NetworkSyncComplete, AllConnected, Crash, BridgeStarts, BrokerConnected,
           EventConnectionLost, HaStarts
  <2>5. Panel \/ Answer \/ UNCHANGED vars => shown' = shown
    <3>1. Panel => \E readings : Broadcast(readings)
      BY DEF Panel, ZoneMoves, TroubleChanges, ArmingStarts, Armed, ArmReady, ArmRefused, EntryDelay,
             SirenStarts, SirenStops, Disarmed, CodeEntered
    <3>2. Panel => shown' = shown
      BY <3>1, Broadcasts
    <3>3. Answer \/ UNCHANGED vars => shown' = shown
      BY DEF Answer, vars
    <3>4. QED
      BY <3>2, <3>3
  <2>6. QED
    BY <1>1, <2>1, <2>2, <2>3, <2>4, <2>5 DEF Next
<1>2. SecInv /\ [Next]_vars => [Reassured => Corrected]_vars
  BY <1>1
<1>3. QED
  BY <1>2, SecurityInvariant, PTL DEF Spec, ReassuranceCorrected
=============================================================================
