--------------------------- MODULE EntityDiscovery ---------------------------
(***************************************************************************)
(* The retained discovery configs of the entities of one C-Bus network:    *)
(* published by a run over the device tree, or the first time something is *)
(* heard on the bus, retracted, swept, replayed after a broker restart     *)
(* (src/src/haDiscovery.js, src/src/haDiscoveryPublishers.js).             *)
(*                                                                         *)
(* A config is named by a component and the group or entity it is about;   *)
(* its payload is abstracted to the type of the entity and the name it     *)
(* shows.  Every operation runs to its end before the next one starts.     *)
(* Fetching the tree is in TreeDiscovery.                                  *)
(***************************************************************************)
EXTENDS GroupTypes, Functions

CONSTANTS
  Entities,     \* what announces itself on the bus
  Kind,         \* [Entities -> Kinds]
  Projects,     \* Toolkit projects: [units, names]
  LabelFiles,   \* label data: [names, types, exclude]
  Options,      \* add-on options: [fromUnit, fromPrefix, autoType, heuristics, scenes,
                \*   unlisted, bypass]
  MaxUpsets     \* bound: changes of labels, removals, restarts

Kinds == {"zone", "panel", "aircon", "temperature", "measurement", "clock", "cni"}

ASSUME KindAssumption == Kind \in [Entities -> Kinds] /\ Entities \cap Groups = {}
ASSUME UpsetsAssumption == MaxUpsets \in Nat

\* A unit that lists groups advertises their application.
ASSUME ProjectAssumption ==
  \A p \in Projects :
    /\ p.names \in [Groups -> DOMAIN Prefix \cup {None}]
    /\ \A u \in p.units : /\ u \in [type : {u.type}, real : BOOLEAN, groups : SUBSET Groups]
                          /\ u.groups # {} => u.real

LabelData(l) == l \in [names : [Groups \cup Entities -> DOMAIN Prefix \cup {None}],
                       types : {l.types}, exclude : {l.exclude}]
ASSUME LabelAssumption == \A l \in LabelFiles : LabelData(l)

VARIABLES
  options,      \* settings of this process
  labels,       \* labelMap, typeOverrides, exclude
  d,            \* this process: published, eventDriven, cache, seen, treeGroups, unlisted; and
                \*   retained, the configs the broker holds
  lost,         \* the broker lost its retained messages, and no replay has run since
  run,          \* the last tree run of this process: its project and overrides; or None
  upsets

vars == <<options, labels, d, lost, run, upsets>>

\* _publishedTopics, _eventDrivenDiscoveryTopics, _publishedConfigPayloads, the Seen
\* sets, _treeDiscoveredGroups, _unlistedGroupSeen.
NewProcess(retained) ==
  [published |-> {}, eventDriven |-> {}, cache |-> <<>>, seen |-> {},
   treeGroups |-> {}, unlisted |-> {}, retained |-> retained]

-----------------------------------------------------------------------------
(* Publishing *)

\* The configs of the topics, each of the group or entity it is about.
Payloads(topics, type, name) == [t \in topics |-> [type |-> type[t[2]], name |-> name[t[2]]]]

WithoutTopics(f, topics) == Restrict(f, DOMAIN f \ topics)

\* The configs of f, and those of g that f has not.
Over(f, g) == [t \in DOMAIN f \cup DOMAIN g |-> IF t \in DOMAIN f THEN f[t] ELSE g[t]]

\* _publish of configs: the cache records what the broker is given.
Put(s, configs) == [s EXCEPT !.cache = Over(configs, @), !.retained = Over(configs, @)]

\* Empty payloads, and the topics forgotten.
Clear(s, topics) ==
  [s EXCEPT !.published = @ \ topics, !.cache = WithoutTopics(@, topics), !.retained = WithoutTopics(@, topics)]

-----------------------------------------------------------------------------
(* Groups *)

TopicsOf(g, type) == Components(type, options) \X {g}

\* The config a lighting group may be left with from an earlier type.
\* Mutation: nothing is cleared.
StaleNothing(g, type) == {}
StaleTopics(g, type) ==
  IF Application[g] # "lighting" THEN {}
  ELSE IF type \notin LightTypes THEN {<<"light", g>>}
  ELSE IF options.fromUnit THEN {<<"binary_sensor", g>>} ELSE {}

\* The custom label, or the name the tree gives the group.
GroupName(g, treeName) == IF labels.names[g] # None THEN labels.names[g] ELSE treeName

\* The type a group is published with.
TypeOf(g, treeName, units) ==
  IF Application[g] = "lighting"
    THEN LightingType(labels.types[g], GroupName(g, treeName), UnitType(g, units, options), options)
    ELSE Application[g]

\* _processOneLightingGroup, _processEnableControlGroups: publish, then clear what
\* the type supersedes; for the groups G of a tree with the names treeName.
Types(G, treeName, units) == [g \in G |-> TypeOf(g, treeName[g], units)]
GroupTopics(G, type)      == UNION {TopicsOf(g, type[g]) : g \in G}

PublishGroups(s, G, treeName, units) ==
  LET type == Types(G, treeName, units)
      name == [g \in G |-> GroupName(g, treeName[g])]
  IN  Clear(Put(s, Payloads(GroupTopics(G, type), type, name)), UNION {StaleTopics(g, type[g]) : g \in G})

-----------------------------------------------------------------------------
(* Entities heard on the bus *)

\* The configs of a kind; the conditions of the panel and the companions of a
\* thermostat are one each.
BypassConfigs == IF options.bypass THEN {"bypass"} ELSE {}
AlarmConfigs  == {"alarm"} \cup BypassConfigs
ZoneConfigs   == {"binary_sensor", "loop_fault"}
PanelConfigs  == {"conditions", "password"} \cup AlarmConfigs
AirconConfigs == {"climate", "companions"}
ClockConfigs  == {"date", "time"}
TemperatureConfigs == {"sensor"}
MeasurementConfigs == {"sensor"}
InterfaceConfigs   == {"binary_sensor"}

Configs(kind) ==
  CASE kind = "zone"   -> ZoneConfigs
    [] kind = "panel"  -> PanelConfigs
    [] kind = "aircon" -> AirconConfigs
    [] kind = "clock"  -> ClockConfigs
    [] kind = "temperature" -> TemperatureConfigs
    [] kind = "measurement" -> MeasurementConfigs
    [] kind = "cni"    -> InterfaceConfigs

EntityTopics(E) == UNION {Configs(Kind[e]) \X {e} : e \in E}

\* What the ensure function of a kind retracts when its entity is excluded: of the
\* panel not the bypass button, of the interface nothing, it cannot be excluded.
ZoneRetracted   == {"binary_sensor", "loop_fault"}
PanelRetracted  == {"conditions", "password", "alarm"}
AirconRetracted == {"climate", "companions"}
ClockRetracted  == {"date", "time"}
TemperatureRetracted == {"sensor"}
MeasurementRetracted == {"sensor"}

Retracted(kind) ==
  CASE kind = "zone"   -> ZoneRetracted
    [] kind = "panel"  -> PanelRetracted
    [] kind = "aircon" -> AirconRetracted
    [] kind = "clock"  -> ClockRetracted
    [] kind = "temperature" -> TemperatureRetracted
    [] kind = "measurement" -> MeasurementRetracted
    [] kind = "cni"    -> {}

RetractedTopics(E) == UNION {Retracted(Kind[e]) \X {e} : e \in E}

\* _finishEventDrivenEntity, for each config of the entities E.
\* Mutation: the configs are not protected from the sweep of a tree run.
AnnounceUnprotected(s, E, l) ==
  LET topics == EntityTopics(E)
  IN  [Put(s, Payloads(topics, Kind, l.names)) EXCEPT !.published = @ \cup topics, !.seen = @ \cup E]
Announce(s, E, l) ==
  LET topics == EntityTopics(E)
  IN  [Put(s, Payloads(topics, Kind, l.names)) EXCEPT
         !.published = @ \cup topics, !.eventDriven = @ \cup topics, !.seen = @ \cup E]

\* _retractEventDrivenConfig, for each config of the lists.
Retract(s, E) ==
  LET topics == RetractedTopics(E)
  IN  [Clear(s, topics) EXCEPT !.eventDriven = @ \ topics, !.seen = @ \cup E]

\* _ensureEventDrivenEntity with the label data l: once a session, unless excluded.
Ensure(s, E, l) ==
  LET excluded == {e \in E \ s.seen : e \in l.exclude /\ Kind[e] # "cni"}
  IN  Retract(Announce(s, (E \ s.seen) \ excluded, l), excluded)

EntityHeard(e) ==
  /\ d' = Ensure(d, {e}, labels)
  /\ UNCHANGED <<options, labels, lost, run, upsets>>

\* ensureUnlistedGroupDiscovery: a group on the bus that no tree listed.  It is
\* classified without a tree, and its configs become event-driven.
GroupHeard(g) ==
  LET wanted  == {g} \ labels.exclude
      unnamed == [h \in Groups |-> None]
      topics  == GroupTopics(wanted, Types(wanted, unnamed, {}))
      s       == PublishGroups(d, wanted, unnamed, {})
  IN  /\ options.unlisted
      /\ g \notin d.treeGroups \cup d.unlisted
      /\ Application[g] \notin {"trigger", "tilt", "other"}
      /\ d' = [s EXCEPT !.published = @ \cup topics, !.eventDriven = @ \cup topics,
                        !.unlisted = @ \cup {g}]
      /\ UNCHANGED <<options, labels, lost, run, upsets>>

-----------------------------------------------------------------------------
(* A run over the tree *)

Zones == {e \in Entities : Kind[e] = "zone"}

\* _supplementSecurityZonesFromLabels: these are announced without being heard.
LabelledZones(l) == {z \in Zones : l.names[z] # None}

\* _supplementFromLabels: labelled lighting groups the tree does not list.
Supplement(listed) == {g \in Lighting \ listed : labels.names[g] # None /\ g \notin labels.exclude}

\* The configs of an earlier run that this one did not publish.
Swept(s, current) == s.published \ (current \cup s.eventDriven)

\* _runDiscoveryFromTree, once the tree of project p was accepted with the groups
\* of the units of synced: groups, labelled groups, labelled zones, the sweep.
TreeRun(p, synced) ==
  LET units       == PartlySynced(p.units, synced)
      listed      == ListedGroups(units)
      treeName    == [g \in Groups |-> IF g \in listed THEN p.names[g] ELSE None]
      handled     == {g \in listed : Application[g] # "tilt"} \cup Supplement(listed)
      current     == handled \ labels.exclude
      topics      == GroupTopics(current, Types(current, treeName, units))
      grouped     == PublishGroups(d, current, treeName, units)
      zoned       == Ensure(grouped, LabelledZones(labels), labels)
      swept       == Clear(zoned, Swept(zoned, topics))
  IN  /\ \E u \in units : HasDeviceData(u)
      /\ d'   = [swept EXCEPT !.published = @ \cup topics, !.treeGroups = @ \cup handled]
      /\ run' = [units |-> p.units, types |-> labels.types]
      /\ UNCHANGED <<options, labels, lost, upsets>>

-----------------------------------------------------------------------------
(* Labels *)

Upset == upsets < MaxUpsets /\ upsets' = upsets + 1

Forget(zones) == [d EXCEPT !.seen = @ \ zones]

\* updateLabels.  A zone with a new name is announced again; one whose name is
\* gone will be at its next event.
Renamed(new) == {z \in Zones : new.names[z] # labels.names[z]}

UpdateLabels(new) ==
  /\ Upset /\ new # labels
  /\ labels' = new
  /\ d' = Ensure(Forget(Renamed(new)), Renamed(new) \cap LabelledZones(new), new)
  /\ UNCHANGED <<options, lost, run>>

\* applySecurityZoneName: C-Gate tells the name of a zone that has none.
ZoneNamed(z, name) ==
  /\ Upset /\ labels.names[z] = None
  /\ labels' = [labels EXCEPT !.names[z] = name]
  /\ d' = Ensure(Forget({z}), {z}, labels')
  /\ UNCHANGED <<options, lost, run>>

-----------------------------------------------------------------------------
(* Network, broker and process *)

\* handleNetworkRemoved: what was published is cleared; the Seen sets stay.
NetworkRemoved ==
  /\ Upset
  /\ d'   = Clear(d, d.published)
  /\ run' = None
  /\ UNCHANGED <<options, labels, lost>>

\* The broker restarts without its retained messages.
BrokerLosesRetained ==
  /\ Upset
  /\ d'    = [d EXCEPT !.retained = <<>>]
  /\ lost' = TRUE
  /\ UNCHANGED <<options, labels, run>>

\* republishDiscoveryConfigs: after a reconnection, or when Home Assistant starts.
Republish ==
  /\ d'    = [d EXCEPT !.retained = Over(d.cache, @)]
  /\ lost' = FALSE
  /\ UNCHANGED <<options, labels, run, upsets>>

\* The process starts again; options and the label file may have been edited.
Restart(o, l) ==
  /\ Upset
  /\ options' = o
  /\ labels'  = l
  /\ d'       = NewProcess(d.retained)
  /\ run'     = None
  /\ UNCHANGED lost

-----------------------------------------------------------------------------

Init ==
  /\ options \in Options /\ labels \in LabelFiles
  /\ d = NewProcess(<<>>) /\ lost = FALSE /\ run = None /\ upsets = 0

Next ==
  \/ \E e \in Entities : EntityHeard(e)
  \/ \E g \in Groups : GroupHeard(g)
  \/ \E p \in Projects : \E synced \in SUBSET {u \in p.units : u.groups # {}} : TreeRun(p, synced)
  \/ \E l \in LabelFiles : UpdateLabels(l) \/ \E o \in Options : Restart(o, l)
  \/ \E z \in Zones, name \in DOMAIN Prefix : ZoneNamed(z, name)
  \/ NetworkRemoved \/ BrokerLosesRetained \/ Republish

Spec == Init /\ [][Next]_vars

-----------------------------------------------------------------------------
(* Properties *)

TypesShown(g) == {d.cache[t].type : t \in {u \in d.published : u[2] = g}}

\* Of what this process publishes, a group is one entity, however its override,
\* its name, its units or the options have changed since it was last published.
\* Beside it the broker holds, not even from an earlier process, no light once the
\* group has a type of its own, and no binary sensor once it is a light and types
\* are taken from units.  That is all that is cleared across processes: what else
\* an earlier process left stays, see OverrideLeavesNothing.  A group announced
\* without a tree keeps its first config as well
\* (haDiscoveryPublishers.js:613-640, haDiscovery.js:553-573).
OneEntity ==
  \A g \in Groups \ d.unlisted :
    LET types == TypesShown(g)
    IN  /\ Cardinality(types) <= 1
        /\ Application[g] = "lighting" /\ types # {} =>
             /\ types \cap LightTypes = {} => <<"light", g>> \notin DOMAIN d.retained
             /\ types \subseteq LightTypes /\ options.fromUnit =>
                  <<"binary_sensor", g>> \notin DOMAIN d.retained

\* A replay after a broker restart restores what this process announced, as it
\* announced it, and never brings back what was retracted, excluded, swept or
\* removed with its network (haDiscovery.js:40-58, 176-186).
ReplayExact ==
  /\ DOMAIN d.cache = d.published
  /\ ~lost => d.published \subseteq DOMAIN d.retained
              /\ \A t \in d.published : d.retained[t] = d.cache[t]

\* What this process publishes is on the broker as it means it, a group once and
\* without the light or sensor it supersedes
\* (haDiscovery.js:40-58, 171-186, 553-581, haDiscoveryPublishers.js:613-640).
ConfigsRight == OneEntity /\ ReplayExact

\* "Stale discovery entries are cleared automatically when a type override changes
\* an entity's type" (homeassistant-addon/CHANGELOG.md:1214): the broker holds no
\* config of a published group but those of its type.  It does not hold: a switch,
\* cover or sensor of an earlier process is known to nobody
\* (haDiscoveryPublishers.js:613-640, haDiscovery.js:553-573).
OverrideLeavesNothing ==
  \A g \in Lighting \ d.unlisted :
    TypesShown(g) # {} => {t \in DOMAIN d.retained : t[2] = g} \subseteq d.published

\* A group with a load, or with a unit nobody can classify, never becomes a
\* read-only sensor on the word of its units: not even while the tree shows the
\* key input and not yet the relay (unitTypeClassifier.js, haDiscovery.js:504-512).
ReadOnlyHasNoLoad ==
  \A t \in d.published :
    /\ d.cache[t].type = "binary_sensor" /\ t[2] \notin d.unlisted
    /\ run # None /\ run.types[t[2]] # "binary_sensor"
    => ~HasLoad(t[2], run.units)

Announced(s, e) == EntityTopics({e}) \subseteq s.published

\* What announced itself on the bus stays announced, all of it, through the sweeps
\* of tree runs, renames and replays: it is in the Seen sets and would not be
\* announced again.  Only an exclusion, the removal of the network and a restart
\* end it; and a zone shows its current name (haDiscoveryPublishers.js:699-713,
\* haDiscovery.js:553-584).
AnnouncedStays ==
  [][\A e \in Entities : Announced(d, e) =>
       \/ /\ Announced(d', e)
          /\ Kind[e] = "zone" /\ e \in d'.seen =>
               \A t \in EntityTopics({e}) : d'.cache[t].name = labels'.names[e]
       \/ e \in labels'.exclude
       \/ upsets' # upsets /\ d'.published = {}]_vars
=============================================================================
