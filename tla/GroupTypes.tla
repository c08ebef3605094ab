------------------------------ MODULE GroupTypes ------------------------------
(***************************************************************************)
(* What kind of Home Assistant entity a C-Bus group becomes: the tree of   *)
(* units (src/src/haDiscoveryTree.js), the category of a unit type         *)
(* (src/src/unitTypeClassifier.js), what a name says                       *)
(* (src/src/deviceTypeClassifier.js) and the precedence between them       *)
(* (src/src/haDiscoveryPublishers.js).  Constant operators only.           *)
(*                                                                         *)
(* Unit types and names are represented by one member of each class the    *)
(* patterns of the code tell apart.                                        *)
(***************************************************************************)
EXTENDS Naturals, FiniteSets, Sequences, SequencesExt

CONSTANTS
  Groups,       \* group addresses
  Application,  \* [Groups -> Applications], the role settings give its application
  CoverNames,   \* names with a cover keyword and without a light hint
  Prefix,       \* [names -> type its "domain." prefix asks for, or None]
  None

Applications == {"lighting", "cover", "switch", "relay", "pir", "trigger", "hvac", "tilt", "other"}

ASSUME ApplicationAssumption == Application \in [Groups -> Applications]
ASSUME NameAssumption == CoverNames \subseteq DOMAIN Prefix /\ None \notin DOMAIN Prefix

\* LABEL_PREFIX_TYPES.
PrefixTypes == {"light", "cover", "switch", "relay", "pir"}
ASSUME PrefixAssumption ==
  /\ None \notin PrefixTypes \cup {"binary_sensor"}
  /\ \A name \in DOMAIN Prefix : Prefix[name] \in PrefixTypes \cup {None}

Lighting == {g \in Groups : Application[g] = "lighting"}

-----------------------------------------------------------------------------
(* Units *)

\* categoriseUnitType.  "BLANK" stands for a unit without a readable type; it and
\* every type that is in none of the four sets is unrecognised.
Dimmers    == {"DIMDN8"}
Relays     == {"RELDN12"}
Inputs     == {"SENLL", "KEYGL5", "BCN4B"}
Management == {"PC_CNIED"}
UnitTypes  == Dimmers \cup Relays \cup Inputs \cup Management \cup {"BLANK"}

\* Families known to report empty <Groups> for ever.
GrouplessInputs == {"KEYGL5", "BCN4B"}

\* Unit == [type, real, groups]: real: it advertises an application other than
\* network management (255).
HasDeviceData(u)     == u.real /\ u.groups # {}
HasUnsyncedGroups(u) == u.real /\ u.groups = {} /\ u.type \notin GrouplessInputs

\* The tree while C-Gate has synchronised the groups of the units of synced only.
PartlySynced(units, synced) == {IF u \in synced THEN u ELSE [u EXCEPT !.groups = {}] : u \in units}

\* collectUnitGroups, for the applications discovery is about.
ListedGroups(units) == {g \in UNION {u.groups : u \in units} : Application[g] # "other"}

\* collectUnitTypeData: the types of every unit on the group, unrecognised or not.
TypesOn(g, units) == {u.type : u \in {v \in units : g \in v.groups}}

\* A load drives the group, or a unit nobody can tell is not one.
HasLoad(g, units) == ~(TypesOn(g, units) \subseteq Inputs \cup Management)

\* entityTypeForGroup.  Mutation: a tree that has not synchronised is believed.
UnitTypeBelieved(g, units, s) ==
  LET types == TypesOn(g, units)
  IN  IF ~(s.fromUnit /\ s.autoType) THEN None
      ELSE IF types \cap Dimmers # {} THEN "light-dimmable"
      ELSE IF types \cap Relays # {} THEN "light-onoff"
      ELSE IF types \cap Inputs # {} /\ ~HasLoad(g, units) THEN "binary_sensor"
      ELSE None

UnitType(g, units, s) ==
  LET incomplete == \E u \in units : HasUnsyncedGroups(u)
      types      == TypesOn(g, units)
  IN  IF ~(s.fromUnit /\ s.autoType) THEN None
      ELSE IF types \cap Dimmers # {} THEN "light-dimmable"
      ELSE IF types \cap Relays # {} THEN "light-onoff"
      ELSE IF types \cap Inputs # {} /\ ~HasLoad(g, units) /\ ~incomplete THEN "binary_sensor"
      ELSE None

-----------------------------------------------------------------------------
(* Precedence: override, label prefix, cover name, unit *)

\* classifyLightingGroup.
NameType(name, s) == IF s.autoType /\ s.heuristics /\ name \in CoverNames THEN "cover" ELSE None

\* "light." pins the domain, and leaves on/off or dimmable to the unit.
PrefixType(name, unitType, s) ==
  LET p == IF s.fromPrefix /\ name # None THEN Prefix[name] ELSE None
  IN  IF p = "light" /\ unitType = "light-onoff" THEN "light-onoff" ELSE p

FirstKnown(candidates) ==
  LET known == {i \in DOMAIN candidates : candidates[i] # None}
  IN  IF known = {} THEN "light" ELSE candidates[CHOOSE i \in known : \A j \in known : i <= j]

\* getDiscoveryConfig.
Configured == {"cover", "switch", "relay", "pir", "trigger", "trigger_button", "scene", "hvac"}

\* _tryCreateTypedEntity: the type a lighting group is published with.  Names of
\* types nobody recognises, and the unit's own while the feature is off, are lights.
LightingType(override, name, unitType, s) ==
  LET resolved == FirstKnown(<<override, PrefixType(name, unitType, s), NameType(name, s), unitType>>)
  IN  IF \/ resolved \in Configured
         \/ resolved \in {"light-onoff", "binary_sensor"} /\ s.fromUnit
        THEN resolved ELSE "light"

LightTypes == {"light", "light-onoff"}

\* Entities of a type, by Home Assistant component; the companions of a trigger have
\* topics of their own, which end in "_btn" and "_scene".
LightComponents == {"light"}
InputComponents == {"binary_sensor"}
HvacComponents  == {"climate"}
TriggerComponents(s) == {"event", "companion_button"} \cup (IF s.scenes THEN {"companion_scene"} ELSE {})

Components(type, s) ==
  CASE type \in LightTypes -> LightComponents
    [] type = "binary_sensor" -> InputComponents
    [] type = "pir" -> {"binary_sensor"}
    [] type \in {"switch", "relay"} -> {"switch"}
    [] type = "cover" -> {"cover"}
    [] type = "hvac" -> HvacComponents
    [] type = "trigger" -> TriggerComponents(s)
    [] type = "trigger_button" -> {"button"}
    [] type = "scene" -> {"scene"}
=============================================================================
