-------------------------- MODULE MCEntityDiscovery --------------------------
(* TLC instances of EntityDiscovery. *)
EXTENDS EntityDiscovery

App == "g1" :> "lighting" @@ "g2" :> "trigger"
Kinds2 == "z" :> "zone" @@ "p" :> "panel" @@ "t" :> "aircon"
Names == "plain" :> None @@ "blind" :> None @@ "light.x" :> "light" @@ "Window" :> None

Unit(type, groups) == [type |-> type, real |-> TRUE, groups |-> groups]
Interface == [type |-> "PC_CNIED", real |-> FALSE, groups |-> {}]
Project(units) == [units |-> units, names |-> "g1" :> None @@ "g2" :> None]

\* A key input and a relay on one group; a key input alone; a trigger group only;
\* a key input and a unit without a type.
ProjectsHere ==
  {Project({Interface, Unit("KEYGL5", {"g1"}), Unit("RELDN12", {"g1"})}),
   Project({Unit("KEYGL5", {"g1", "g2"})}),
   Project({Unit("DIMDN8", {"g2"})}),
   Project({Unit("SENLL", {"g1"}), Unit("BLANK", {"g1"})})}

File(g1, g2, z, type, exclude) ==
  [names |-> "g1" :> g1 @@ "g2" :> g2 @@ "z" :> z @@ "p" :> None @@ "t" :> None,
   types |-> "g1" :> type @@ "g2" :> None, exclude |-> exclude]

LabelFilesHere ==
  {File(None, None, None, None, {}),
   File("blind", None, "plain", None, {}),
   File("light.x", None, "Window", "scene", {}),
   File("plain", "plain", "Window", None, {"g1", "z", "p"})}

\* The guesses: types from units, and from names.
Option(unit, guess, unlisted, bypass) ==
  [fromUnit |-> unit, fromPrefix |-> TRUE, autoType |-> guess, heuristics |-> unit, scenes |-> TRUE,
   unlisted |-> unlisted, bypass |-> bypass]
OptionsHere == {Option(TRUE, TRUE, FALSE, TRUE), Option(FALSE, TRUE, TRUE, FALSE), Option(TRUE, FALSE, FALSE, FALSE)}

\* A group and what drives it; its override is taken out of the label file.
OneProject    == {Project({Unit("DIMDN8", {"g1"})})}
OverrideFiles == {File(None, None, None, "switch", {}), File(None, None, None, None, {})}
OneOption     == {Option(TRUE, TRUE, FALSE, FALSE)}
=============================================================================
