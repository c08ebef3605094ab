---------------------------- MODULE PanelCommands ----------------------------
(***************************************************************************)
(* The write topics that are not control of one group                      *)
(* (src/src/mqttCommandRouter.js): the security panel's arm, disarm and    *)
(* bypass, measurement, temperature and scene messages, and the requests   *)
(* for levels, the tree and discovery.  A disarm types its code, key by    *)
(* key, and is limited per panel (RateLimiter).                            *)
(***************************************************************************)
EXTENDS RateLimiter, Sequences

CONSTANTS
  Panels,       \* network/application of the panels addressed
  Codes,        \* codes of messages: sequences of characters
  Digits,       \* the characters that are digits
  Permissions,  \* settings: sets of what is enabled
  MaxPin,       \* SECURITY_MAX_PIN_DIGITS
  MaxDisarms, \* bound: well-formed disarms
  MaxNow        \* bound: the clock

ASSUME PanelAssumption == MaxPin \in Nat /\ MaxDisarms \in Nat /\ MaxNow \in Nat

VARIABLES
  allowed,   \* the settings in force: control, disarm, bypass, scene, discovery
  limiter,   \* _disarmLimiter
  now,       \* Date.now()
  sent,      \* what the last message queued or requested
  attempts   \* history: well-formed disarms, and whether the code was typed

panelVars == <<allowed, limiter, now, sent, attempts>>

PanelInit ==
  /\ allowed \in Permissions
  /\ limiter = NoRequests /\ now = 0 /\ sent = <<>> /\ attempts = <<>>

Sends(commands) == sent' = commands

NoAttempt == UNCHANGED <<allowed, limiter, now, attempts>>

-----------------------------------------------------------------------------
(* The security panel *)

Accept == "#"

\* buildSecurityEmulateKeypadCommand: one key per command.
Key(c) == [verb |-> "emulate_keypad", key |-> c]

\* The '#' that bypasses what is open.
BypassKeypress == Sends(IF "bypass" \in allowed THEN <<Key(Accept)>> ELSE <<>>) /\ NoAttempt

\* The code as typed, then the accept key.
Typed(code) == [i \in 1..(Len(code) + 1) |-> Key(IF i <= Len(code) THEN code[i] ELSE Accept)]

WellFormed(code) == code # <<>> /\ Len(code) <= MaxPin /\ \A i \in DOMAIN code : code[i] \in Digits

\* _handleSecurityDisarm: the attempt counts once everything else is right.
SecurityDisarm(k, code) ==
  IF "disarm" \notin allowed \/ ~WellFormed(code) THEN Sends(<<>>) /\ NoAttempt
  ELSE LET request == Request(limiter, k, now)
       IN  /\ Len(attempts) < MaxDisarms
           /\ limiter' = request.limiter
           /\ Sends(IF request.limited THEN <<>> ELSE Typed(code))
           /\ attempts' = Append(attempts, [panel |-> k, at |-> now, typed |-> ~request.limited])
           /\ UNCHANGED <<allowed, now>>

ArmMode == [ARM_AWAY |-> "away", ARM_NIGHT |-> "night", ARM_HOME |-> "day", ARM_VACATION |-> "vacation"]

\* _parseSecurityCommand: a bare action, JSON with action and code, or neither.
Forms == {"bare", "json", "broken"}

Parsed(form, action, code) ==
  [action |-> IF form = "broken" THEN "" ELSE action, code |-> IF form = "json" THEN code ELSE <<>>]

\* What messages say: a code matters to a disarm only.
Messages ==
  {Parsed(form, "DISARM", code) : form \in Forms, code \in Codes}
    \cup {Parsed("bare", action, <<>>) : action \in DOMAIN ArmMode \cup {"ARM_CUSTOM_BYPASS", "OPEN"}}

\* Control is enabled and the address is in range and the security application's.
PanelPermitted(mine) == "control" \in allowed /\ mine

SecurityArm(k, mine, p) ==
  IF ~PanelPermitted(mine) THEN Sends(<<>>) /\ NoAttempt
  ELSE \/ p.action = "DISARM" /\ SecurityDisarm(k, p.code)
       \/ p.action = "ARM_CUSTOM_BYPASS" /\ BypassKeypress
       \/ /\ p.action \notin {"DISARM", "ARM_CUSTOM_BYPASS"}
          /\ Sends(IF p.action \in DOMAIN ArmMode
                     THEN <<[verb |-> "arm", mode |-> ArmMode[p.action]]>> ELSE <<>>)
          /\ NoAttempt

SecurityBypass(mine) ==
  IF PanelPermitted(mine) THEN BypassKeypress ELSE Sends(<<>>) /\ NoAttempt

-----------------------------------------------------------------------------
(* Measurements, temperature, scenes and requests *)

Between(lo, n, hi) == lo <= n /\ n <= hi

\* The ends of a measurement's two bytes; the hottest broadcast, in hundredths of a degree.
Lowest  == -32768
Highest == 32767
Hottest == 6375

\* The units of the table are stood for by degrees and watts.
Units == {0, 38}

MeasurementData(mine, value, multiplier, unit) ==
  /\ Sends(IF /\ mine /\ Between(Lowest, value, Highest)
              /\ Between(-128, multiplier, 127) /\ unit \in Units
             THEN <<[verb |-> "measurement_data", value |-> value, multiplier |-> multiplier, unit |-> unit]>> ELSE <<>>)
  /\ NoAttempt

\* A byte in quarters of a degree; hundredths of a degree come in.
TemperatureByte(hundredths) == (hundredths * 4 + 50) \div 100

TemperatureBroadcast(mine, hundredths) ==
  /\ Sends(IF mine /\ Between(0, hundredths, Hottest)
             THEN <<[verb |-> "temperature_broadcast", byte |-> TemperatureByte(hundredths)]>> ELSE <<>>)
  /\ NoAttempt

SceneModule(verb, scene) ==
  /\ Sends(IF "scene" \in allowed /\ Between(0, scene, 255) THEN <<[verb |-> verb, scene |-> scene]>> ELSE <<>>)
  /\ NoAttempt

\* getall queues a GET; gettree and the manual trigger only tell the bridge.
GetAll  == Sends(<<[verb |-> "get_level"]>>) /\ NoAttempt
GetTree == Sends(<<[event |-> "treeRequest"]>>) /\ NoAttempt
DiscoveryTrigger ==
  Sends(IF "discovery" \in allowed THEN <<[event |-> "haDiscoveryTrigger"]>> ELSE <<>>) /\ NoAttempt

-----------------------------------------------------------------------------

PanelTick == now < MaxNow /\ now' = now + 1 /\ UNCHANGED <<allowed, limiter, sent, attempts>>

\* Values inside and outside each limit, of addresses in and out of range.
Measured     == {Lowest - 1, Highest} \X {-128, 128} \X {38, 99}
Temperatures == {-1, Hottest, Hottest + 1}
Scenes       == {"play", "record"} \X {255, 256}

PlainMessages ==
  \/ \E mine \in BOOLEAN : SecurityBypass(mine)
  \/ \E mine \in BOOLEAN, m \in Measured : MeasurementData(mine, m[1], m[2], m[3])
  \/ \E mine \in BOOLEAN, h \in Temperatures : TemperatureBroadcast(mine, h)
  \/ \E s \in Scenes : SceneModule(s[1], s[2])

PanelNext ==
  \/ PanelTick \/ GetAll \/ GetTree \/ DiscoveryTrigger \/ PlainMessages
  \/ \E k \in Panels, p \in Messages : SecurityArm(k, TRUE, p)
  \/ \E p \in Messages : SecurityArm(CHOOSE k \in Panels : TRUE, FALSE, p)

PanelSpec == PanelInit /\ [][PanelNext]_panelVars

-----------------------------------------------------------------------------
(* Properties *)

\* Attempts of the panel of attempt j, in the window that ends with it.
InWindow(j) == {i \in 1..j : attempts[i].panel = attempts[j].panel /\ attempts[i].at >= attempts[j].at - Window}

\* Between two attempts in a row of one panel as many others were tried as are tracked.
OthersBetween(i, j) == {attempts[m].panel : m \in (i + 1)..(j - 1)}
Forgotten(j) ==
  \E a, b \in InWindow(j) :
    /\ a < b /\ attempts[j].panel \notin OthersBetween(a, b)
    /\ Cardinality(OthersBetween(a, b)) >= MaxTracked

\* No window, wherever it begins, sees more than the allowed codes typed on a panel,
\* unless so many other panels were tried between two attempts that it was forgotten;
\* and no code is refused but for as many well-formed attempts: malformed messages and
\* other panels cost nothing (rateLimiter.js:56-93, mqttCommandRouter.js:530-580).
CodesLimited ==
  \A j \in DOMAIN attempts :
    IF attempts[j].typed
      THEN Forgotten(j) \/ Cardinality({i \in InWindow(j) : attempts[i].typed}) <= MaxRequests
      ELSE Cardinality(InWindow(j)) > MaxRequests
=============================================================================
