-------------------------- MODULE AirconControlProofs --------------------------
(***************************************************************************)
(* Proofs about the thermostats of a ward, for any thermostats, modes and  *)
(* targets, any number of requests and any delay of commands and           *)
(* broadcasts.                                                             *)
(*                                                                         *)
(* Every part of the invariant has one form: of the broadcasts (commands)  *)
(* still on their way that bear on something, the newest one says what     *)
(* will come of it, and when there is none it has come of it already.      *)
(* SequenceLemmas says how the newest one changes.                         *)
(***************************************************************************)
EXTENDS AirconControl, SequenceLemmas

-----------------------------------------------------------------------------
(* The invariant *)

\* The broadcasts of u's mode, and those of them that carry a target for mode m.
ModeReadings(u) == {r \in Reading : r.kind = "mode" /\ r.unit = u}
Targets(u, m)   == {r \in ModeReadings(u) : r.mode = m /\ HasTarget(r)}

\* The commands that change what u does, and those of them that set a target for mode m.
Zone           == {c \in Command : c.verb = "SET_ZONE_HVAC_MODE"}
Drivers(u)     == {c \in Zone : c.unit = u} \union {c \in Command : c.verb = "SET_WARD_OFF"}
Settings(u, m) == {c \in Zone : c.unit = u /\ c.mode = m /\ ~c.raw}

\* A command the thermostats obey, with a temperature where it is not a raw fan level.
Sound(c) == /\ c.type # AnyType
            /\ c.raw => c.level = FanLevel
            /\ ~c.raw => c.level \in 1..MaxLevel

WireSound == \A i \in DOMAIN wire : wire[i] \in Zone => Sound(wire[i])

\* A broadcast has a plant type, unless it is one of a thermostat that is off.
AirSound ==
  \A i \in DOMAIN air :
    air[i].kind = "mode" => /\ air[i].mode = Off => air[i].level = NoLevel
                            /\ air[i].mode # Off => air[i].type = Plant /\ air[i].level > 0

\* A thermostat has a target.
HasLevel == \A u \in Unit : therm[u].level > 0

\* The newest broadcast of u is what u does; when it has been heard the registry knows it.
ModeKnown(u) ==
  /\ Newest(ModeReadings(u), air, {ModeReading(u, therm[u])})
  /\ Absent(ModeReadings(u), air) /\ registry[u].known => registry[u].mode = therm[u].mode

\* The newest target broadcast in mode m is the last one u had; when it has been heard and no
\* other has been sent, the registry knows it.
TargetKnown(u, m) ==
  /\ Newest(Targets(u, m), air, {r \in Reading : r.level = hist[u][m]})
  /\ Absent(Targets(u, m), air) /\ Absent(Settings(u, m), wire) /\ hist[u][m] # NoLevel
       => registry[u].byMode[m] = hist[u][m]

\* When nothing that bears on u is under way, the card shows it.
CardKnown(u) ==
  /\ Absent(ModeReadings(u), air) /\ Absent(Drivers(u), wire)
  /\ timer[u] = NoLevel /\ registry[u].known
  => /\ shown[u].mode = therm[u].mode
     /\ shown[u].cont = therm[u].aux.cont
     /\ therm[u].mode # Off /\ ~therm[u].raw /\ therm[u].level <= MaxLevel
          => shown[u].level = therm[u].level

\* What becomes of a thermostat that obeys c.
Grants(c, w) == IF c.verb = "SET_WARD_OFF" THEN w.last = "none" \/ (w.last = "mode" /\ w.mode = Off)
                                           ELSE Fulfils(c, w)

\* The last thing asked of u waits in its timer, or the newest command to u carries it, or u
\* does it.
WishOnItsWay(u) ==
  LET w == wish[u]
  IN  /\ w.last = "setpoint" /\ timer[u] # NoLevel => timer[u] = w.level
      /\ w.last # "setpoint" /\ w.last # "none" => timer[u] = NoLevel
      /\ timer[u] = NoLevel =>
           /\ Newest(Drivers(u), wire, {c \in Command : Grants(c, w)})
           /\ Absent(Drivers(u), wire) => Fulfils(therm[u], w)

UnitInv(u) ==
  /\ ModeKnown(u) /\ CardKnown(u) /\ WishOnItsWay(u)
  /\ \A m \in OnMode : TargetKnown(u, m)

AirconInv == TypeOK /\ WireSound /\ AirSound /\ HasLevel /\ \A u \in Unit : UnitInv(u)

-----------------------------------------------------------------------------
(* Types *)

Dial    == [mode : Mode, level : Level, raw : BOOLEAN, useaux : BOOLEAN, aux : Aux]
Learned == [known : BOOLEAN, mode : Mode, type : {NoType, Plant}, level : Level,
            byMode : [OnMode -> Level], useaux : BOOLEAN, aux : Aux]
Card    == [mode : Mode \union {NoMode}, level : Level, cont : BOOLEAN]
Wish    == [last : {"none", "mode", "setpoint", "fan"}, mode : Mode \union {NoMode},
            level : Level, cont : BOOLEAN]

\* TypeOK with its record types named.
LEMMA TypeParts ==
  TypeOK <=>
    /\ therm \in [Unit -> Dial] /\ wire \in Seq(Command) /\ air \in Seq(Reading)
    /\ registry \in [Unit -> Learned] /\ timer \in [Unit -> {NoLevel} \union 10..32]
    /\ refreshed \in BOOLEAN /\ shown \in [Unit -> Card] /\ wish \in [Unit -> Wish]
    /\ hist \in [Unit -> [OnMode -> Level]] /\ asks \in 0..MaxAsks /\ turns \in 0..MaxTurns
BY DEF TypeOK, Dial, Learned, Card, Wish

\* The modes, levels and settings are what their names say.
LEMMA Numbers ==
  /\ Off \in Mode /\ OnMode \subseteq Mode /\ Off \notin OnMode /\ Heat \in OnMode
  /\ \A m \in Mode : m # Off => m \in OnMode
  /\ NoLevel \in Level /\ FanLevel \in Level /\ FanLevel > 0 /\ 1..MaxLevel \subseteq Level
  /\ 10..32 \subseteq 1..MaxLevel /\ NoLevel \notin 1..MaxLevel /\ DefaultLevel \in 1..MaxLevel
  /\ Dialled \subseteq Level /\ \A l \in Dialled : l > 0
  /\ \A l \in Level : l \in Int /\ (l > 0 <=> l # NoLevel)
                             /\ (l \in 1..MaxLevel <=> l > 0 /\ l <= MaxLevel)
  /\ \A c \in Asked : Clamp(c) \in 10..32
  /\ DefaultAux \in Aux
  /\ NoType # AnyType /\ Plant # AnyType /\ {NoType, Plant} \subseteq Types /\ AnyType \in Types
BY OnModeAssumption, LevelsAssumption, SpeedAssumption
   DEF Off, Heat, Mode, Level, NoLevel, FanLevel, MaxLevel, DefaultLevel, Clamp, DefaultAux, Aux,
       NoType, AnyType, Plant, Types

-----------------------------------------------------------------------------
(* Broadcasts *)

\* What a thermostat u in the state t broadcasts.
LEMMA ReadingFacts ==
  ASSUME NEW u \in Unit, NEW t \in Dial, t.level > 0
  PROVE  LET r == ModeReading(u, t)
         IN  /\ r \in Reading /\ r.kind = "mode" /\ r.unit = u
             /\ r.mode = t.mode /\ r.aux = t.aux
             /\ t.mode = Off => r.level = NoLevel
             /\ t.mode # Off => r.type = Plant /\ r.level = t.level /\ r.raw = t.raw
             /\ HasTarget(r) <=> t.mode # Off /\ ~t.raw
<1>1. t.mode = Off \/ t.mode # Off
  OBVIOUS
<1>2. t \in [mode : Mode, level : Level, raw : BOOLEAN, useaux : BOOLEAN, aux : Aux]
  BY DEF Dial
<1>3. CASE t.mode = Off
  <2>1. ModeReading(u, t) = [kind |-> "mode", unit |-> u, mode |-> Off, raw |-> FALSE,
          level |-> NoLevel, type |-> AnyType, useaux |-> t.useaux, aux |-> t.aux]
    BY <1>3 DEF ModeReading
  <2>2. ModeReading(u, t) \in Reading
    BY <1>2, <2>1, Numbers DEF Reading
  <2>3. QED
    BY <1>3, <2>1, <2>2 DEF HasTarget
<1>4. CASE t.mode # Off
  <2>1. ModeReading(u, t) = [kind |-> "mode", unit |-> u, mode |-> t.mode, raw |-> t.raw,
          level |-> t.level, type |-> Plant, useaux |-> t.useaux, aux |-> t.aux]
    BY <1>4 DEF ModeReading
  <2>2. ModeReading(u, t) \in Reading
    BY <1>2, <2>1, Numbers DEF Reading
  <2>3. QED
    BY <1>2, <1>4, <2>1, <2>2 DEF HasTarget
<1>5. QED
  BY <1>3, <1>4

\* The readings a broadcast appends: one at least of each thermostat of S, and no others.
LEMMA BroadcastAppends ==
  ASSUME TypeOK, NEW S \in SUBSET Unit, NEW T \in [Unit -> Dial],
         \A u \in Unit : T[u].level > 0, Broadcast(S, T)
  PROVE  \E t \in Seq(Reading) :
            /\ air' = air \o t
            /\ \A i \in DOMAIN t : \E u \in S : t[i] = ModeReading(u, T[u])
            /\ \A u \in S : \E i \in DOMAIN t : t[i] = ModeReading(u, T[u])
<1>1. PICK order \in SetToSeqs(S) :
         air' = air \o [i \in DOMAIN order |-> ModeReading(order[i], T[order[i]])]
  BY DEF Broadcast
<1>2. IsFiniteSet(S)
  BY UnitAssumption, FS_Subset
<1>3. /\ order \in Seq(S)
      /\ \A x \in S : \E i \in DOMAIN order : order[i] = x
  BY <1>2, OrderHoldsAll
<1> DEFINE t == [i \in DOMAIN order |-> ModeReading(order[i], T[order[i]])]
<1>4. DOMAIN t = DOMAIN order /\ DOMAIN order = 1..Len(order) /\ Len(order) \in Nat
  BY <1>3
<1>5. \A i \in DOMAIN order : order[i] \in S /\ t[i] = ModeReading(order[i], T[order[i]])
  BY <1>3
<1> HIDE DEF t
<1>6. \A u \in Unit : ModeReading(u, T[u]) \in Reading
  BY ReadingFacts
<1>7. \A i \in 1..Len(order) : t[i] \in Reading
  BY <1>4, <1>5, <1>6
<1>8. t = [i \in 1..Len(order) |-> t[i]]
  BY <1>4 DEF t
<1>9. t \in Seq(Reading)
  BY <1>4, <1>7, <1>8
<1>10. air' = air \o t
  BY <1>1 DEF t
<1>11. \A i \in DOMAIN t : \E u \in S : t[i] = ModeReading(u, T[u])
  BY <1>4, <1>5
<1>12. \A u \in S : \E i \in DOMAIN t : t[i] = ModeReading(u, T[u])
  BY <1>3, <1>4, <1>5
<1>13. QED
  BY <1>9, <1>10, <1>11, <1>12

\* What a broadcast of S from the states T says of each thermostat.
LEMMA BroadcastModes ==
  ASSUME TypeOK, NEW S \in SUBSET Unit, NEW T \in [Unit -> Dial],
         \A u \in Unit : T[u].level > 0, Broadcast(S, T), NEW v \in Unit
  PROVE  /\ v \in S => /\ Newest(ModeReadings(v), air', {ModeReading(v, T[v])})
                       /\ ~Absent(ModeReadings(v), air')
         /\ v \notin S => /\ \A V : Newest(ModeReadings(v), air, V) => Newest(ModeReadings(v), air', V)
                          /\ Absent(ModeReadings(v), air') => Absent(ModeReadings(v), air)
<1> DEFINE M == ModeReadings(v)
           a == air
<1>1. PICK t \in Seq(Reading) :
         /\ air' = a \o t
         /\ \A i \in DOMAIN t : \E u \in S : t[i] = ModeReading(u, T[u])
         /\ \A u \in S : \E i \in DOMAIN t : t[i] = ModeReading(u, T[u])
  BY BroadcastAppends
<1>2. \A u \in Unit : ModeReading(u, T[u]).unit = u /\ (ModeReading(u, T[u]) \in M <=> u = v)
  BY ReadingFacts DEF ModeReadings
<1>3. a \in Seq(Reading)
  BY TypeParts
<1> HIDE DEF M, a
<1>4. CASE v \in S
  <2>1. \A i \in DOMAIN t : t[i] \in M => t[i] \in {ModeReading(v, T[v])}
    BY <1>1, <1>2
  <2>2. ~Absent(M, t)
    BY <1>1, <1>2, <1>4 DEF Absent
  <2>3. /\ Newest(M, a \o t, {ModeReading(v, T[v])})
        /\ Absent(M, a \o t) <=> Absent(M, a) /\ Absent(M, t)
    BY <1>3, <2>1, <2>2, NewestConcat
  <2>4. QED
    BY <1>1, <1>4, <2>2, <2>3 DEF M
<1>5. CASE v \notin S
  <2>1. \A i \in DOMAIN t : t[i] \notin M
    BY <1>1, <1>2, <1>5
  <2>2. Absent(M, t)
    BY <2>1 DEF Absent
  <2>3. ASSUME NEW V, Newest(M, a, V)
        PROVE  /\ Newest(M, a \o t, V)
               /\ Absent(M, a \o t) <=> Absent(M, a) /\ Absent(M, t)
    BY <1>3, <2>1, <2>3, NewestConcat
  <2>4. Newest(M, a, Reading)
    BY <1>3 DEF Newest
  <2>5. QED
    BY <1>1, <1>5, <2>2, <2>3, <2>4 DEF M, a
<1>6. QED
  BY <1>4, <1>5

\* What it says of the targets: the history is of what is broadcast.
LEMMA BroadcastTargets ==
  ASSUME TypeOK, NEW S \in SUBSET Unit, NEW T \in [Unit -> Dial],
         \A u \in Unit : T[u].level > 0, Broadcast(S, T), NEW v \in Unit, NEW m \in OnMode
  PROVE  LET M == Targets(v, m)
             told == v \in S /\ T[v].mode = m /\ ~T[v].raw
         IN  /\ told => /\ hist'[v][m] = T[v].level /\ hist'[v][m] # NoLevel
                        /\ Newest(M, air', {r \in Reading : r.level = T[v].level})
                        /\ ~Absent(M, air')
             /\ ~told => /\ hist'[v][m] = hist[v][m]
                         /\ \A V : Newest(M, air, V) => Newest(M, air', V)
                         /\ Absent(M, air') => Absent(M, air)
<1> DEFINE M == Targets(v, m)
           a == air
           told == v \in S /\ T[v].mode = m /\ ~T[v].raw
           V0 == {r \in Reading : r.level = T[v].level}
<1>1. PICK t \in Seq(Reading) :
         /\ air' = a \o t
         /\ \A i \in DOMAIN t : \E u \in S : t[i] = ModeReading(u, T[u])
         /\ \A u \in S : \E i \in DOMAIN t : t[i] = ModeReading(u, T[u])
  BY BroadcastAppends
<1>2. ASSUME NEW u \in S
      PROVE  /\ ModeReading(u, T[u]) \in M => u = v /\ told
             /\ told /\ u = v => ModeReading(u, T[u]) \in M
             /\ told => ModeReading(v, T[v]) \in V0
  <2>1. LET r == ModeReading(u, T[u])
        IN  /\ r \in Reading /\ r.kind = "mode" /\ r.unit = u
            /\ r.mode = T[u].mode
            /\ T[u].mode # Off => r.level = T[u].level
            /\ HasTarget(r) <=> T[u].mode # Off /\ ~T[u].raw
    BY ReadingFacts
  <2>2. LET r == ModeReading(v, T[v])
        IN  /\ r \in Reading
            /\ T[v].mode # Off => r.level = T[v].level
    BY ReadingFacts
  <2>3. m # Off
    BY Numbers
  <2>4. QED
    BY <2>1, <2>2, <2>3 DEF Targets, ModeReadings
<1>3. a \in Seq(Reading) /\ hist \in [Unit -> [OnMode -> Level]]
  BY TypeParts
<1>4. hist' = [u \in Unit |-> IF u \in S /\ T[u].mode # Off /\ ~T[u].raw
                              THEN [hist[u] EXCEPT ![T[u].mode] = T[u].level] ELSE hist[u]]
  BY DEF Broadcast
<1>5. /\ told => hist'[v][m] = T[v].level /\ hist'[v][m] # NoLevel
      /\ ~told => hist'[v][m] = hist[v][m]
  <2>1. hist'[v] = IF v \in S /\ T[v].mode # Off /\ ~T[v].raw
                   THEN [hist[v] EXCEPT ![T[v].mode] = T[v].level] ELSE hist[v]
    BY <1>4
  <2>2. hist[v] \in [OnMode -> Level] /\ m # Off
    BY <1>3, Numbers
  <2>3. T[v].level > 0 /\ T[v].level \in Level
    BY DEF Dial
  <2>4. T[v].level # NoLevel
    BY <2>3, Numbers
  <2>5. QED
    BY <2>1, <2>2, <2>4
<1> HIDE DEF M, a, told, V0
<1>6. CASE told
  <2>1. \A i \in DOMAIN t : t[i] \in M => t[i] \in V0
    BY <1>1, <1>2, <1>6
  <2>2. ~Absent(M, t)
    BY <1>1, <1>2, <1>6 DEF Absent, told
  <2>3. /\ Newest(M, a \o t, V0)
        /\ Absent(M, a \o t) <=> Absent(M, a) /\ Absent(M, t)
    BY <1>3, <2>1, <2>2, NewestConcat
  <2>4. QED
    BY <1>1, <1>5, <1>6, <2>2, <2>3 DEF M, told, V0
<1>7. CASE ~told
  <2>1. \A i \in DOMAIN t : t[i] \notin M
    BY <1>1, <1>2, <1>7
  <2>2. Absent(M, t)
    BY <2>1 DEF Absent
  <2>3. ASSUME NEW V, Newest(M, a, V)
        PROVE  /\ Newest(M, a \o t, V)
               /\ Absent(M, a \o t) <=> Absent(M, a) /\ Absent(M, t)
    BY <1>3, <2>1, <2>3, NewestConcat
  <2>4. Newest(M, a, Reading)
    BY <1>3 DEF Newest
  <2>5. QED
    BY <1>1, <1>5, <1>7, <2>2, <2>3, <2>4 DEF M, a, told
<1>8. QED
  BY <1>6, <1>7

\* A broadcast has its types and is sound.
LEMMA BroadcastSound ==
  ASSUME TypeOK, AirSound, NEW S \in SUBSET Unit, NEW T \in [Unit -> Dial],
         \A u \in Unit : T[u].level > 0, Broadcast(S, T)
  PROVE  air' \in Seq(Reading) /\ AirSound' /\ hist' \in [Unit -> [OnMode -> Level]]
<1> DEFINE Plausible(r) == r.kind = "mode" =>
                             /\ r.mode = Off => r.level = NoLevel
                             /\ r.mode # Off => r.type = Plant /\ r.level > 0
           a == air
<1>1. PICK t \in Seq(Reading) :
         /\ air' = a \o t
         /\ \A i \in DOMAIN t : \E u \in S : t[i] = ModeReading(u, T[u])
         /\ \A u \in S : \E i \in DOMAIN t : t[i] = ModeReading(u, T[u])
  BY BroadcastAppends
<1>2. a \in Seq(Reading) /\ hist \in [Unit -> [OnMode -> Level]]
  BY TypeParts
<1>3. \A i \in DOMAIN a : Plausible(a[i])
  BY DEF AirSound
<1> HIDE DEF a
<1>4. \A i \in DOMAIN t : Plausible(t[i])
  <2>1. \A u \in S : Plausible(ModeReading(u, T[u]))
    BY ReadingFacts
  <2>2. QED
    BY <1>1, <2>1
<1> HIDE DEF Plausible
<1>5. \A i \in DOMAIN (a \o t) : Plausible((a \o t)[i])
  BY <1>2, <1>3, <1>4
<1>6. AirSound'
  BY <1>1, <1>5 DEF AirSound, Plausible
<1>7. air' \in Seq(Reading)
  BY <1>1, <1>2
<1>8. hist' = [u \in Unit |-> IF u \in S /\ T[u].mode # Off /\ ~T[u].raw
                              THEN [hist[u] EXCEPT ![T[u].mode] = T[u].level] ELSE hist[u]]
  BY DEF Broadcast
<1>9. \A u \in Unit : (IF u \in S /\ T[u].mode # Off /\ ~T[u].raw
                       THEN [hist[u] EXCEPT ![T[u].mode] = T[u].level] ELSE hist[u])
                      \in [OnMode -> Level]
  <2> TAKE u \in Unit
  <2>1. hist[u] \in [OnMode -> Level] /\ T[u].level \in Level
    BY <1>2 DEF Dial
  <2>2. QED
    BY <2>1
<1>10. hist' \in [Unit -> [OnMode -> Level]]
  BY <1>8, <1>9
<1>11. QED
  BY <1>6, <1>7, <1>10

\* What is known of a thermostat after a broadcast, when what it does changed only if it is
\* one of those that broadcast.
LEMMA BroadcastKeeps ==
  ASSUME TypeOK, AirSound, HasLevel, NEW S \in SUBSET Unit,
         therm' \in [Unit -> Dial], HasLevel', Broadcast(S, therm'), NEW v \in Unit,
         v \notin S => therm'[v] = therm[v],
         UNCHANGED <<registry, shown, timer>>,
         v \notin S => (Absent(Drivers(v), wire') => Absent(Drivers(v), wire)),
         \A m \in OnMode :
           ~(v \in S /\ therm'[v].mode = m /\ ~therm'[v].raw)
             => (Absent(Settings(v, m), wire') => Absent(Settings(v, m), wire)),
         ModeKnown(v), CardKnown(v), \A m \in OnMode : TargetKnown(v, m)
  PROVE  ModeKnown(v)' /\ CardKnown(v)' /\ \A m \in OnMode : TargetKnown(v, m)'
<1> DEFINE M == ModeReadings(v)
<1>1. \A u \in Unit : therm'[u].level > 0
  BY DEF HasLevel
<1>2. /\ v \in S => /\ Newest(M, air', {ModeReading(v, therm'[v])})
                    /\ ~Absent(M, air')
      /\ v \notin S => /\ \A V : Newest(M, air, V) => Newest(M, air', V)
                       /\ Absent(M, air') => Absent(M, air)
  BY <1>1, BroadcastModes
<1>3. ModeKnown(v)'
  <2>1. /\ Newest(M, air, {ModeReading(v, therm[v])})
        /\ Absent(M, air) /\ registry[v].known => registry[v].mode = therm[v].mode
    BY DEF ModeKnown
  <2>2. v \notin S => Newest(M, air', {ModeReading(v, therm[v])})
    BY <1>2, <2>1
  <2>3. v \notin S => ModeReading(v, therm[v]) = ModeReading(v, therm'[v])
    OBVIOUS
  <2>4. Newest(M, air', {ModeReading(v, therm'[v])})
    BY <1>2, <2>2, <2>3
  <2>5. Absent(M, air') /\ registry'[v].known => registry'[v].mode = therm'[v].mode
    BY <1>2, <2>1
  <2>6. QED
    BY <2>4, <2>5 DEF ModeKnown
<1>4. CardKnown(v)'
  BY <1>2 DEF CardKnown
<1>5. ASSUME NEW m \in OnMode
      PROVE  TargetKnown(v, m)'
  <2> DEFINE N == Targets(v, m)
             told == v \in S /\ therm'[v].mode = m /\ ~therm'[v].raw
             V0 == {r \in Reading : r.level = therm'[v].level}
             V1 == {r \in Reading : r.level = hist[v][m]}
  <2>1. /\ told => /\ hist'[v][m] = therm'[v].level /\ hist'[v][m] # NoLevel
                   /\ Newest(N, air', V0)
                   /\ ~Absent(N, air')
        /\ ~told => /\ hist'[v][m] = hist[v][m]
                    /\ \A V : Newest(N, air, V) => Newest(N, air', V)
                    /\ Absent(N, air') => Absent(N, air)
    BY <1>1, BroadcastTargets
  <2>2. /\ Newest(N, air, V1)
        /\ Absent(N, air) /\ Absent(Settings(v, m), wire) /\ hist[v][m] # NoLevel
             => registry[v].byMode[m] = hist[v][m]
    BY DEF TargetKnown
  <2> HIDE DEF N
  <2>3. ~told => Newest(N, air', V1)
    BY <2>1, <2>2
  <2>4. Newest(N, air', {r \in Reading : r.level = hist'[v][m]})
    BY <2>1, <2>3
  <2>5. Absent(N, air') /\ Absent(Settings(v, m), wire') /\ hist'[v][m] # NoLevel
             => registry'[v].byMode[m] = hist'[v][m]
    BY <2>1, <2>2
  <2>6. QED
    BY <2>4, <2>5 DEF TargetKnown, N
<1>6. QED
  BY <1>3, <1>4, <1>5

-----------------------------------------------------------------------------
(* Commands *)

\* What a command does not bear on.
LEMMA CommandKinds ==
  /\ \A u \in Unit : /\ Drivers(u) \subseteq Command
                     /\ \A m \in OnMode : Settings(u, m) \subseteq Drivers(u)
                     /\ SetWardOff(u) \in Command
                     /\ SetWardOff(u) \notin Zone
                     /\ \A v \in Unit : SetWardOff(u) \in Drivers(v)
  /\ [verb |-> "REFRESH"] \in Command
  /\ \A u \in Unit : [verb |-> "REFRESH"] \notin Drivers(u)
  /\ \A u, v \in Unit : \A c \in Zone : c \in Drivers(u) /\ u # v => c \notin Drivers(v)
  /\ [verb |-> "REFRESH"] \notin Zone
BY DEF Drivers, Settings, Zone, Command, SetWardOff

\* The fields of the commands.
LEMMA CommandFields ==
  /\ \A c \in Zone : /\ c.unit \in Unit /\ c.mode \in OnMode /\ c.raw \in BOOLEAN /\ c.level \in Level
                     /\ c.useaux \in BOOLEAN /\ c.aux \in Aux /\ c.verb = "SET_ZONE_HVAC_MODE"
  /\ \A c \in Command : c \in Zone \/ c.verb = "SET_WARD_OFF" \/ c = [verb |-> "REFRESH"]
  /\ \A c \in Command : c.verb = "SET_ZONE_HVAC_MODE" <=> c \in Zone
BY DEF Zone, Command

\* A command joins the wire.
LEMMA WireGrows ==
  ASSUME TypeOK, WireSound, NEW c \in Command, wire' = Append(wire, c), c \in Zone => Sound(c)
  PROVE  /\ wire' \in Seq(Command) /\ WireSound'
         /\ \A M : Absent(M, wire') <=> Absent(M, wire) /\ c \notin M
         /\ \A M, V : (c \in M => c \in V) /\ (c \notin M => Newest(M, wire, V))
                        => Newest(M, wire', V)
<1> DEFINE w == wire
<1>1. w \in Seq(Command)
  BY TypeParts
<1>2. \A i \in DOMAIN w : w[i] \in Zone => Sound(w[i])
  BY DEF WireSound
<1>3. wire' = Append(w, c)
  OBVIOUS
<1> HIDE DEF w
<1>4. /\ Append(w, c) \in Seq(Command)
      /\ \A i \in DOMAIN Append(w, c) :
            \/ Append(w, c)[i] = c
            \/ i \in DOMAIN w /\ Append(w, c)[i] = w[i]
  BY <1>1
<1>5. WireSound'
  BY <1>2, <1>3, <1>4 DEF WireSound
<1>6. \A M : Absent(M, Append(w, c)) <=> Absent(M, w) /\ c \notin M
  <2> TAKE M
  <2>1. Newest(M, w, Command)
    BY <1>1 DEF Newest
  <2>2. QED
    BY <1>1, <2>1, NewestAppend
<1>7. ASSUME NEW M, NEW V, c \in M => c \in V, c \notin M => Newest(M, w, V)
      PROVE  Newest(M, Append(w, c), V)
  BY <1>1, <1>7, NewestAppend
<1>8. QED
  BY <1>3, <1>4, <1>5, <1>6, <1>7 DEF w

\* TypeParts of the next state.
LEMMA TypePartsNext ==
  TypeOK' <=>
    /\ therm' \in [Unit -> Dial] /\ wire' \in Seq(Command) /\ air' \in Seq(Reading)
    /\ registry' \in [Unit -> Learned] /\ timer' \in [Unit -> {NoLevel} \union 10..32]
    /\ refreshed' \in BOOLEAN /\ shown' \in [Unit -> Card] /\ wish' \in [Unit -> Wish]
    /\ hist' \in [Unit -> [OnMode -> Level]] /\ asks' \in 0..MaxAsks /\ turns' \in 0..MaxTurns
BY DEF TypeOK, Dial, Learned, Card, Wish

\* A thermostat that a command does not bear on, and of which nothing changes.
LEMMA OthersKeep ==
  ASSUME TypeOK, WireSound, NEW v \in Unit, UnitInv(v), UNCHANGED <<therm, air, hist>>,
         registry'[v] = registry[v], timer'[v] = timer[v],
         shown'[v] = shown[v], wish'[v] = wish[v],
         \/ wire' = wire
         \/ \E c \in Command : /\ wire' = Append(wire, c) /\ c \notin Drivers(v)
                               /\ c \in Zone => Sound(c)
  PROVE  UnitInv(v)'
<1>1. /\ \A M : Absent(M, wire') => Absent(M, wire)
      /\ \A V : Newest(Drivers(v), wire, V) => Newest(Drivers(v), wire', V)
  BY WireGrows
<1>2. Absent(Drivers(v), wire') => Absent(Drivers(v), wire)
  BY <1>1
<1>3. ModeKnown(v)'
  BY DEF UnitInv, ModeKnown
<1>4. CardKnown(v)'
  BY <1>2 DEF UnitInv, CardKnown
<1>5. WishOnItsWay(v)'
  <2> DEFINE w == wish[v]
             V == {c \in Command : Grants(c, w)}
  <2>1. wish'[v] = w
    OBVIOUS
  <2>2. /\ w.last = "setpoint" /\ timer[v] # NoLevel => timer[v] = w.level
        /\ w.last # "setpoint" /\ w.last # "none" => timer[v] = NoLevel
        /\ timer[v] = NoLevel => /\ Newest(Drivers(v), wire, V)
                                 /\ Absent(Drivers(v), wire) => Fulfils(therm[v], w)
    BY DEF UnitInv, WishOnItsWay
  <2>3. timer'[v] = NoLevel => /\ Newest(Drivers(v), wire', V)
                               /\ Absent(Drivers(v), wire') => Fulfils(therm'[v], w)
    BY <1>1, <1>2, <2>2
  <2>4. V = {c \in Command : Grants(c, wish'[v])}
    BY <2>1
  <2> HIDE DEF V
  <2>5. QED
    BY <2>1, <2>2, <2>3, <2>4 DEF WishOnItsWay
<1>6. ASSUME NEW m \in OnMode
      PROVE  TargetKnown(v, m)'
  <2>1. Absent(Settings(v, m), wire') => Absent(Settings(v, m), wire)
    BY <1>1
  <2>2. TargetKnown(v, m)
    BY DEF UnitInv
  <2>3. QED
    BY <2>1, <2>2 DEF TargetKnown
<1>7. QED
  BY <1>3, <1>4, <1>5, <1>6 DEF UnitInv

\* A thermostat that is sent a command which carries the latest request.
LEMMA Driven ==
  ASSUME TypeOK, WireSound, NEW v \in Unit, UnitInv(v), UNCHANGED <<therm, air, hist>>,
         NEW c \in Command, wire' = Append(wire, c), c \in Drivers(v), c \in Zone => Sound(c),
         timer'[v] = NoLevel, Grants(c, wish'[v]),
         registry'[v].known = registry[v].known, registry'[v].mode = registry[v].mode,
         \A m \in OnMode : c \notin Settings(v, m)
                             => registry'[v].byMode[m] = registry[v].byMode[m]
  PROVE  UnitInv(v)'
<1>1. /\ \A M : Absent(M, wire') <=> Absent(M, wire) /\ c \notin M
      /\ \A M, V : (c \in M => c \in V) /\ (c \notin M => Newest(M, wire, V))
                     => Newest(M, wire', V)
  BY WireGrows
<1>2. ~Absent(Drivers(v), wire')
  BY <1>1
<1>3. ModeKnown(v)'
  BY DEF UnitInv, ModeKnown
<1>4. CardKnown(v)'
  BY <1>2 DEF CardKnown
<1>5. WishOnItsWay(v)'
  <2> DEFINE V == {d \in Command : Grants(d, wish'[v])}
  <2>1. c \in V
    OBVIOUS
  <2>2. Newest(Drivers(v), wire', V)
    BY <1>1, <2>1
  <2>3. QED
    BY <1>2, <2>2 DEF WishOnItsWay
<1>6. ASSUME NEW m \in OnMode
      PROVE  TargetKnown(v, m)'
  <2>1. Absent(Settings(v, m), wire') <=> Absent(Settings(v, m), wire) /\ c \notin Settings(v, m)
    BY <1>1
  <2>2. TargetKnown(v, m)
    BY DEF UnitInv
  <2>3. QED
    BY <2>1, <2>2 DEF TargetKnown
<1>7. QED
  BY <1>3, <1>4, <1>5, <1>6 DEF UnitInv

\* The command a handler builds.
LEMMA CommandBuilt ==
  ASSUME TypeOK, NEW u \in Unit, NEW m \in OnMode,
         NEW lv \in [raw : BOOLEAN, level : Level],
         lv.raw => lv.level = FanLevel, ~lv.raw => lv.level \in 1..MaxLevel,
         NEW flags \in [useaux : BOOLEAN, aux : Aux], NEW origin \in {"setpoint", "mode", "fan"}
  PROVE  LET c == SetZoneHvacMode(u, m, lv, flags, origin)
         IN  /\ c \in Zone /\ c \in Command /\ Sound(c) /\ c \in Drivers(u)
             /\ \A v \in Unit : v # u => c \notin Drivers(v)
             /\ c.mode = m /\ c.raw = lv.raw /\ c.level = lv.level /\ c.aux = flags.aux
             /\ c.verb = "SET_ZONE_HVAC_MODE"
             /\ \A n \in OnMode : c \in Settings(u, n) <=> n = m /\ ~lv.raw
<1> DEFINE c == SetZoneHvacMode(u, m, lv, flags, origin)
<1>1. registry[u].type \in {NoType, Plant}
  BY DEF TypeOK
<1>2. registry[u].type \in Types /\ registry[u].type # AnyType
  BY <1>1, Numbers
<1>3. c = [verb |-> "SET_ZONE_HVAC_MODE", unit |-> u, mode |-> m, raw |-> lv.raw,
           level |-> lv.level, type |-> registry[u].type, useaux |-> flags.useaux,
           aux |-> flags.aux, origin |-> origin]
  BY DEF SetZoneHvacMode
<1>4. /\ c.verb = "SET_ZONE_HVAC_MODE" /\ c.unit = u /\ c.mode = m /\ c.raw = lv.raw
      /\ c.level = lv.level /\ c.type = registry[u].type /\ c.aux = flags.aux
  BY <1>3
<1>5. c \in Command
  BY <1>2, <1>3 DEF Command
<1> HIDE DEF c
<1>6. c \in Zone /\ c \in Drivers(u)
  BY <1>4, <1>5 DEF Zone, Drivers
<1>7. Sound(c)
  BY <1>2, <1>4 DEF Sound
<1>8. \A v \in Unit : v # u => c \notin Drivers(v)
  BY <1>4 DEF Zone, Drivers
<1>9. \A n \in OnMode : c \in Settings(u, n) <=> n = m /\ ~lv.raw
  BY <1>4, <1>6 DEF Settings
<1>10. QED
  BY <1>4, <1>5, <1>6, <1>7, <1>8, <1>9 DEF c

\* The target a mode or fan write names, and the flags it echoes.
LEMMA LevelForModeFacts ==
  ASSUME NEW s \in Learned, NEW m \in OnMode
  PROVE  LET lv == LevelForMode(s, m)
         IN  /\ lv \in [raw : BOOLEAN, level : Level]
             /\ lv.raw => lv.level = FanLevel
             /\ ~lv.raw => lv.level \in 1..MaxLevel
<1>1. CASE m = FanOnly
  BY <1>1, Numbers DEF LevelForMode
<1>2. CASE m # FanOnly
  <2> DEFINE l == IF s.byMode[m] \in 1..MaxLevel THEN s.byMode[m]
                  ELSE IF s.level \in 1..MaxLevel THEN s.level ELSE DefaultLevel
  <2>1. l \in 1..MaxLevel /\ l \in Level
    BY Numbers
  <2>2. LevelForMode(s, m) = [raw |-> FALSE, level |-> l]
    BY <1>2 DEF LevelForMode
  <2> HIDE DEF l
  <2>3. QED
    BY <2>1, <2>2
<1>3. QED
  BY <1>1, <1>2

\* The flags of a command are flags, and a fan command carries the one asked for.
LEMMA FlagFacts ==
  ASSUME NEW s \in Learned, NEW b \in BOOLEAN
  PROVE  /\ FlagEcho(s) \in [useaux : BOOLEAN, aux : Aux]
         /\ FanFlags(s, b) \in [useaux : BOOLEAN, aux : Aux]
         /\ FanFlags(s, b).aux.cont = b
<1>1. s.useaux \in BOOLEAN /\ s.aux \in Aux
  BY DEF Learned
<1>2. FlagEcho(s) \in [useaux : BOOLEAN, aux : Aux]
  BY <1>1, Numbers DEF FlagEcho
<1>3. CASE b
  <2>1. [cont |-> TRUE, speed |-> s.aux.speed] \in Aux
    BY <1>1 DEF Aux
  <2>2. QED
    BY <1>2, <1>3, <2>1 DEF FanFlags
<1>4. CASE ~b
  BY <1>2, <1>4, Numbers DEF FanFlags, DefaultAux
<1>5. QED
  BY <1>3, <1>4

-----------------------------------------------------------------------------
(* The requests *)

\* A count of requests.
LEMMA AskFacts ==
  ASSUME TypeOK, NEW u \in Unit, Ask(u)
  PROVE  registry[u].known /\ asks' \in 0..MaxAsks
BY BoundsAssumption DEF TypeOK, Ask

\* A setpoint from Home Assistant keeps the invariant.
LEMMA HandleSetpointKeeps ==
  ASSUME AirconInv, NEW u \in Unit, NEW c \in Asked, HandleSetpoint(u, c)
  PROVE  AirconInv'
<1> DEFINE k == Clamp(c)
<1>1. TypeOK /\ WireSound /\ AirSound /\ HasLevel /\ \A v \in Unit : UnitInv(v)
  BY DEF AirconInv
<1>2. k \in 10..32 /\ k \in Level /\ k # NoLevel
  BY Numbers
<1>3. /\ UNCHANGED <<therm, wire, air, hist, registry, refreshed, turns>>
      /\ shown' = [shown EXCEPT ![u].level = k]
      /\ timer' = [timer EXCEPT ![u] = k]
      /\ wish' = [wish EXCEPT ![u].last = "setpoint", ![u].level = k]
  BY DEF HandleSetpoint, DebounceSetpoint, bus
<1> HIDE DEF k
<1>4. shown' \in [Unit -> Card] /\ \A v \in Unit : v # u => shown'[v] = shown[v]
  BY <1>1, <1>2, <1>3, TypeParts DEF Card
<1>5. /\ wish' \in [Unit -> Wish] /\ \A v \in Unit : v # u => wish'[v] = wish[v]
      /\ wish'[u].last = "setpoint" /\ wish'[u].level = k
  BY <1>1, <1>2, <1>3, TypeParts DEF Wish
<1>6. /\ timer' \in [Unit -> {NoLevel} \union 10..32]
      /\ \A v \in Unit : v # u => timer'[v] = timer[v]
      /\ timer'[u] = k
  BY <1>1, <1>2, <1>3, TypeParts
<1>7. asks' \in 0..MaxAsks
  BY <1>1, AskFacts DEF HandleSetpoint
<1>8. TypeOK'
  BY <1>1, <1>3, <1>4, <1>5, <1>6, <1>7, TypeParts, TypePartsNext
<1>9. WireSound' /\ AirSound' /\ HasLevel'
  BY <1>1, <1>3 DEF WireSound, AirSound, HasLevel
<1>10. ASSUME NEW v \in Unit, v # u
       PROVE  UnitInv(v)'
  BY <1>1, <1>3, <1>4, <1>5, <1>6, <1>10, OthersKeep
<1>11. UnitInv(u)'
  <2>1. ModeKnown(u)' /\ \A m \in OnMode : TargetKnown(u, m)'
    BY <1>1, <1>3 DEF UnitInv, ModeKnown, TargetKnown
  <2>2. CardKnown(u)'
    BY <1>2, <1>6 DEF CardKnown
  <2>3. WishOnItsWay(u)'
    BY <1>2, <1>5, <1>6 DEF WishOnItsWay
  <2>4. QED
    BY <2>1, <2>2, <2>3 DEF UnitInv
<1>12. QED
  BY <1>8, <1>9, <1>10, <1>11 DEF AirconInv

\* So does the end of its debounce,
LEMMA SendSetpointKeeps ==
  ASSUME AirconInv, NEW u \in Unit, SendSetpoint(u)
  PROVE  AirconInv'
<1> DEFINE s == registry[u]
           k == timer[u]
           m == KeptMode(s)
           lv == [raw |-> FALSE, level |-> k]
           c == SetZoneHvacMode(u, m, lv, FlagEcho(s), "setpoint")
<1>1. TypeOK /\ WireSound /\ AirSound /\ HasLevel /\ \A v \in Unit : UnitInv(v)
  BY DEF AirconInv
<1>2. k \in 10..32 /\ k \in 1..MaxLevel /\ k \in Level /\ k # NoLevel
  BY <1>1, TypeParts, Numbers DEF SendSetpoint
<1>3. s \in Learned /\ m \in OnMode
  <2>1. s \in Learned
    BY <1>1, TypeParts
  <2>2. s.mode \in Mode
    BY <2>1 DEF Learned
  <2>3. QED
    BY <2>1, <2>2, Numbers DEF KeptMode
<1>4. /\ UNCHANGED <<therm, air, hist, refreshed, shown, wish, asks, turns>>
      /\ wire' = Append(wire, c)
      /\ registry' = [registry EXCEPT ![u].level = k, ![u].byMode[m] = k]
      /\ timer' = [timer EXCEPT ![u] = NoLevel]
  BY DEF SendSetpoint
<1>5. lv \in [raw : BOOLEAN, level : Level] /\ ~lv.raw /\ lv.level = k
  BY <1>2
<1>6. FlagEcho(s) \in [useaux : BOOLEAN, aux : Aux]
  BY <1>3, FlagFacts
<1> HIDE DEF lv, m
<1>7. /\ c \in Zone /\ c \in Command /\ Sound(c) /\ c \in Drivers(u)
      /\ \A v \in Unit : v # u => c \notin Drivers(v)
      /\ c.mode = m /\ c.raw = lv.raw /\ c.level = lv.level
      /\ c.verb = "SET_ZONE_HVAC_MODE"
      /\ \A n \in OnMode : c \in Settings(u, n) <=> n = m /\ ~lv.raw
  BY <1>1, <1>2, <1>3, <1>5, <1>6, CommandBuilt
<1> HIDE DEF c
<1>8. /\ registry' \in [Unit -> Learned]
      /\ \A v \in Unit : v # u => registry'[v] = registry[v]
      /\ registry'[u].known = s.known /\ registry'[u].mode = s.mode
      /\ \A n \in OnMode : n # m => registry'[u].byMode[n] = s.byMode[n]
  <2>1. registry \in [Unit -> Learned]
    BY <1>1, TypeParts
  <2> DEFINE new == [s EXCEPT !.level = k, !.byMode[m] = k]
  <2>2. registry' = [registry EXCEPT ![u] = new]
    BY <1>4, <2>1
  <2>3. s.byMode \in [OnMode -> Level]
    BY <1>3 DEF Learned
  <2>4. [s.byMode EXCEPT ![m] = k] \in [OnMode -> Level]
    BY <1>2, <2>3
  <2>5. new \in Learned /\ new.known = s.known /\ new.mode = s.mode
        /\ new.byMode = [s.byMode EXCEPT ![m] = k]
    BY <1>2, <1>3, <2>4 DEF Learned
  <2> HIDE DEF new
  <2>6. QED
    BY <1>3, <2>1, <2>2, <2>3, <2>5
<1>9. /\ timer' \in [Unit -> {NoLevel} \union 10..32]
      /\ \A v \in Unit : v # u => timer'[v] = timer[v]
      /\ timer'[u] = NoLevel
  BY <1>1, <1>4, TypeParts
<1>10. wire' \in Seq(Command) /\ WireSound'
  BY <1>1, <1>4, <1>7, WireGrows
<1>11. TypeOK'
  BY <1>1, <1>4, <1>8, <1>9, <1>10, TypeParts, TypePartsNext
<1>12. AirSound' /\ HasLevel'
  BY <1>1, <1>4 DEF AirSound, HasLevel
<1>13. ASSUME NEW v \in Unit, v # u
       PROVE  UnitInv(v)'
  BY <1>1, <1>4, <1>7, <1>8, <1>9, <1>13, OthersKeep
<1>14. UnitInv(u)'
  <2>1. Grants(c, wish[u])
    <3>1. /\ wish[u].last = "setpoint" => wish[u].level = k
          /\ wish[u].last = "setpoint" \/ wish[u].last = "none"
      BY <1>1, <1>2 DEF UnitInv, WishOnItsWay
    <3>2. c.mode # Off
      BY <1>3, <1>7, Numbers
    <3>3. QED
      BY <1>5, <1>7, <3>1, <3>2 DEF Grants, Fulfils
  <2>2. Grants(c, wish'[u])
    BY <1>4, <2>1
  <2>3. \A n \in OnMode : c \notin Settings(u, n) => registry'[u].byMode[n] = registry[u].byMode[n]
    BY <1>5, <1>7, <1>8
  <2>4. QED
    BY <1>1, <1>4, <1>7, <1>8, <1>9, <2>2, <2>3, Driven
<1>15. QED
  BY <1>10, <1>11, <1>12, <1>13, <1>14 DEF AirconInv

\* switching a unit off,
LEMMA HandleModeOffKeeps ==
  ASSUME AirconInv, NEW u \in Unit, HandleModeOff(u)
  PROVE  AirconInv'
<1> DEFINE c == SetWardOff(u)
<1>1. TypeOK /\ WireSound /\ AirSound /\ HasLevel /\ \A v \in Unit : UnitInv(v)
  BY DEF AirconInv
<1>2. /\ UNCHANGED <<therm, air, hist, registry, refreshed, turns>>
      /\ wire' = Append(wire, c)
      /\ timer' = [timer EXCEPT ![u] = NoLevel]
      /\ shown' = [shown EXCEPT ![u].mode = Off]
      /\ wish' = [v \in Unit |-> IF v = u THEN [wish[u] EXCEPT !.last = "mode", !.mode = Off]
                                          ELSE [wish[v] EXCEPT !.last = "none", !.mode = NoMode]]
  BY DEF HandleModeOff, CancelPendingSetpoint
<1>3. c \in Command /\ c \notin Zone /\ c.verb = "SET_WARD_OFF" /\ \A v \in Unit : c \in Drivers(v)
  BY CommandKinds DEF SetWardOff
<1> HIDE DEF c
<1>4. shown' \in [Unit -> Card]
  BY <1>1, <1>2, TypeParts, Numbers DEF Card
<1>5. /\ wish' \in [Unit -> Wish]
      /\ wish'[u].last = "mode" /\ wish'[u].mode = Off
      /\ \A v \in Unit : v # u => wish'[v].last = "none"
  <2>1. \A v \in Unit : wish[v] \in Wish
    BY <1>1, TypeParts
  <2>2. \A v \in Unit :
          /\ [wish[v] EXCEPT !.last = "mode", !.mode = Off] \in Wish
          /\ [wish[v] EXCEPT !.last = "none", !.mode = NoMode] \in Wish
    BY <2>1, Numbers DEF Wish
  <2>3. QED
    BY <1>2, <2>1, <2>2 DEF Wish
<1>6. /\ timer' \in [Unit -> {NoLevel} \union 10..32]
      /\ \A v \in Unit : v # u => timer'[v] = timer[v]
      /\ timer'[u] = NoLevel
  BY <1>1, <1>2, TypeParts
<1>7. asks' \in 0..MaxAsks
  BY <1>1, AskFacts DEF HandleModeOff
<1>8. /\ wire' \in Seq(Command) /\ WireSound'
      /\ \A M : Absent(M, wire') <=> Absent(M, wire) /\ c \notin M
      /\ \A M, V : (c \in M => c \in V) /\ (c \notin M => Newest(M, wire, V))
                     => Newest(M, wire', V)
  BY <1>1, <1>2, <1>3, WireGrows
<1>9. TypeOK'
  BY <1>1, <1>2, <1>4, <1>5, <1>6, <1>7, <1>8, TypeParts, TypePartsNext
<1>10. AirSound' /\ HasLevel'
  BY <1>1, <1>2 DEF AirSound, HasLevel
<1>11. ASSUME NEW v \in Unit
       PROVE  UnitInv(v)'
  <2>1. Grants(c, wish'[v])
    BY <1>3, <1>5 DEF Grants
  <2>2. ModeKnown(v)'
    BY <1>1, <1>2 DEF UnitInv, ModeKnown
  <2>3. CardKnown(v)'
    BY <1>3, <1>8 DEF CardKnown
  <2>4. ASSUME NEW m \in OnMode
        PROVE  TargetKnown(v, m)'
    <3>1. Absent(Settings(v, m), wire') => Absent(Settings(v, m), wire)
      BY <1>8
    <3>2. TargetKnown(v, m)
      BY <1>1 DEF UnitInv
    <3>3. QED
      BY <1>2, <3>1, <3>2 DEF TargetKnown
  <2>5. WishOnItsWay(v)'
    <3> DEFINE V == {d \in Command : Grants(d, wish'[v])}
    <3>1. c \in V /\ c \in Drivers(v)
      BY <1>3, <2>1
    <3>2. Newest(Drivers(v), wire', V) /\ ~Absent(Drivers(v), wire')
      BY <1>8, <3>1
    <3> HIDE DEF V
    <3>3. /\ wish'[v].last # "setpoint"
          /\ wish'[v].last # "none" => timer'[v] = NoLevel
      BY <1>5, <1>6
    <3>4. QED
      BY <3>2, <3>3 DEF WishOnItsWay, V
  <2>6. QED
    BY <2>2, <2>3, <2>4, <2>5 DEF UnitInv
<1>12. QED
  BY <1>8, <1>9, <1>10, <1>11 DEF AirconInv

\* switching it on in a mode,
LEMMA HandleModeOnKeeps ==
  ASSUME AirconInv, NEW u \in Unit, NEW m \in OnMode, HandleModeOn(u, m)
  PROVE  AirconInv'
<1> DEFINE s == registry[u]
           lv == LevelForMode(s, m)
           c == SetZoneHvacMode(u, m, lv, FlagEcho(s), "mode")
<1>1. TypeOK /\ WireSound /\ AirSound /\ HasLevel /\ \A v \in Unit : UnitInv(v)
  BY DEF AirconInv
<1>2. /\ UNCHANGED <<therm, air, hist, registry, refreshed, turns>>
      /\ wire' = Append(wire, c)
      /\ timer' = [timer EXCEPT ![u] = NoLevel]
      /\ shown' = [shown EXCEPT ![u].mode = m]
      /\ wish' = [wish EXCEPT ![u].last = "mode", ![u].mode = m]
  BY DEF HandleModeOn, CancelPendingSetpoint
<1>3. s \in Learned
  BY <1>1, TypeParts
<1>4. /\ lv \in [raw : BOOLEAN, level : Level]
      /\ lv.raw => lv.level = FanLevel
      /\ ~lv.raw => lv.level \in 1..MaxLevel
      /\ FlagEcho(s) \in [useaux : BOOLEAN, aux : Aux]
  BY <1>3, LevelForModeFacts, FlagFacts
<1> HIDE DEF lv
<1>5. /\ c \in Zone /\ c \in Command /\ Sound(c) /\ c \in Drivers(u)
      /\ \A v \in Unit : v # u => c \notin Drivers(v)
      /\ c.mode = m
      /\ c.verb = "SET_ZONE_HVAC_MODE"
  BY <1>1, <1>4, CommandBuilt
<1> HIDE DEF c
<1>6. shown' \in [Unit -> Card] /\ \A v \in Unit : v # u => shown'[v] = shown[v]
  BY <1>1, <1>2, TypeParts, Numbers DEF Card
<1>7. /\ wish' \in [Unit -> Wish] /\ \A v \in Unit : v # u => wish'[v] = wish[v]
      /\ wish'[u].last = "mode" /\ wish'[u].mode = m
  BY <1>1, <1>2, TypeParts, Numbers, ZenonT(60) DEF Wish
<1>8. /\ timer' \in [Unit -> {NoLevel} \union 10..32]
      /\ \A v \in Unit : v # u => timer'[v] = timer[v]
      /\ timer'[u] = NoLevel
  BY <1>1, <1>2, TypeParts
<1>9. asks' \in 0..MaxAsks
  BY <1>1, AskFacts DEF HandleModeOn
<1>10. wire' \in Seq(Command) /\ WireSound'
  BY <1>1, <1>2, <1>5, WireGrows
<1>11. TypeOK'
  BY <1>1, <1>2, <1>6, <1>7, <1>8, <1>9, <1>10, TypeParts, TypePartsNext
<1>12. AirSound' /\ HasLevel'
  BY <1>1, <1>2 DEF AirSound, HasLevel
<1>13. ASSUME NEW v \in Unit, v # u
       PROVE  UnitInv(v)'
  BY <1>1, <1>2, <1>5, <1>6, <1>7, <1>8, <1>13, OthersKeep
<1>14. UnitInv(u)'
  <2>1. Grants(c, wish'[u])
    BY <1>5, <1>7 DEF Grants, Fulfils
  <2>2. QED
    BY <1>1, <1>2, <1>5, <1>8, <2>1, Driven
<1>15. QED
  BY <1>10, <1>11, <1>12, <1>13, <1>14 DEF AirconInv

\* a fan mode,
LEMMA HandleFanModeKeeps ==
  ASSUME AirconInv, NEW u \in Unit, NEW b \in BOOLEAN, HandleFanMode(u, b)
  PROVE  AirconInv'
<1> DEFINE s == registry[u]
           m == s.mode
           lv == LevelForMode(s, m)
           flags == FanFlags(s, b)
           c == SetZoneHvacMode(u, m, lv, flags, "fan")
           aux == IF b THEN flags.aux ELSE s.aux
<1>1. TypeOK /\ WireSound /\ AirSound /\ HasLevel /\ \A v \in Unit : UnitInv(v)
  BY DEF AirconInv
<1>2. /\ UNCHANGED <<therm, air, hist, refreshed, turns>>
      /\ wire' = Append(wire, c)
      /\ registry' = [registry EXCEPT ![u].useaux = flags.useaux, ![u].aux = aux]
      /\ timer' = [timer EXCEPT ![u] = NoLevel]
      /\ shown' = [shown EXCEPT ![u].cont = b]
      /\ wish' = [wish EXCEPT ![u].last = "fan", ![u].cont = b]
  BY DEF HandleFanMode, CancelPendingSetpoint
<1>3. s \in Learned /\ m \in OnMode
  <2>1. s \in Learned
    BY <1>1, TypeParts
  <2>2. s.mode \in Mode /\ s.mode # Off
    BY <2>1 DEF Learned, HandleFanMode
  <2>3. QED
    BY <2>1, <2>2, Numbers
<1>4. /\ lv \in [raw : BOOLEAN, level : Level]
      /\ lv.raw => lv.level = FanLevel
      /\ ~lv.raw => lv.level \in 1..MaxLevel
      /\ flags \in [useaux : BOOLEAN, aux : Aux] /\ flags.aux.cont = b
  BY <1>3, LevelForModeFacts, FlagFacts
<1> HIDE DEF lv, flags
<1>5. /\ c \in Zone /\ c \in Command /\ Sound(c) /\ c \in Drivers(u)
      /\ \A v \in Unit : v # u => c \notin Drivers(v)
      /\ c.aux = flags.aux
      /\ c.verb = "SET_ZONE_HVAC_MODE"
  BY <1>1, <1>3, <1>4, CommandBuilt
<1> HIDE DEF c
<1>6. /\ registry' \in [Unit -> Learned]
      /\ \A v \in Unit : v # u => registry'[v] = registry[v]
      /\ registry'[u].known = s.known /\ registry'[u].mode = s.mode
      /\ registry'[u].byMode = s.byMode
  <2>1. registry \in [Unit -> Learned]
    BY <1>1, TypeParts
  <2> DEFINE new == [s EXCEPT !.useaux = flags.useaux, !.aux = aux]
  <2>2. registry' = [registry EXCEPT ![u] = new]
    BY <1>2, <2>1
  <2>3. aux \in Aux /\ flags.useaux \in BOOLEAN
    BY <1>3, <1>4 DEF Learned
  <2>4. new \in Learned /\ new.known = s.known /\ new.mode = s.mode /\ new.byMode = s.byMode
    BY <1>3, <2>3 DEF Learned
  <2> HIDE DEF new
  <2>5. QED
    BY <2>1, <2>2, <2>4
<1>7. shown' \in [Unit -> Card] /\ \A v \in Unit : v # u => shown'[v] = shown[v]
  BY <1>1, <1>2, TypeParts DEF Card
<1>8. /\ wish' \in [Unit -> Wish] /\ \A v \in Unit : v # u => wish'[v] = wish[v]
      /\ wish'[u].last = "fan" /\ wish'[u].cont = b
  BY <1>1, <1>2, TypeParts DEF Wish
<1>9. /\ timer' \in [Unit -> {NoLevel} \union 10..32]
      /\ \A v \in Unit : v # u => timer'[v] = timer[v]
      /\ timer'[u] = NoLevel
  BY <1>1, <1>2, TypeParts
<1>10. asks' \in 0..MaxAsks
  BY <1>1, AskFacts DEF HandleFanMode
<1>11. wire' \in Seq(Command) /\ WireSound'
  BY <1>1, <1>2, <1>5, WireGrows
<1>12. TypeOK'
  BY <1>1, <1>2, <1>6, <1>7, <1>8, <1>9, <1>10, <1>11, TypeParts, TypePartsNext
<1>13. AirSound' /\ HasLevel'
  BY <1>1, <1>2 DEF AirSound, HasLevel
<1>14. ASSUME NEW v \in Unit, v # u
       PROVE  UnitInv(v)'
  BY <1>1, <1>2, <1>5, <1>6, <1>7, <1>8, <1>9, <1>14, OthersKeep
<1>15. UnitInv(u)'
  <2>1. Grants(c, wish'[u])
    BY <1>4, <1>5, <1>8 DEF Grants, Fulfils
  <2>2. QED
    BY <1>1, <1>2, <1>5, <1>6, <1>9, <2>1, Driven
<1>16. QED
  BY <1>11, <1>12, <1>13, <1>14, <1>15 DEF AirconInv

-----------------------------------------------------------------------------
(* The thermostats *)

\* What a command makes of the thermostats: those it drives obey and broadcast, with the
\* target it names, and the others stay as they are.
LEMMA ExecuteFacts ==
  ASSUME AirconInv, Execute
  PROVE  LET c == Head(wire)
         IN  /\ c \in Command /\ therm' \in [Unit -> Dial] /\ HasLevel'
             /\ \A v \in Unit : c \notin Drivers(v) => therm'[v] = therm[v]
             /\ \A v \in Unit, w \in Wish : c \in Drivers(v) /\ Grants(c, w) => Fulfils(therm'[v], w)
             /\ \A v \in Unit, m \in OnMode :
                  c \in Settings(v, m) => therm'[v].mode = m /\ ~therm'[v].raw
             /\ \E S \in SUBSET Unit : /\ Broadcast(S, therm')
                                       /\ \A v \in Unit : c \in Drivers(v) => v \in S
<1> DEFINE c == Head(wire)
<1>1. TypeOK /\ WireSound /\ HasLevel
  BY DEF AirconInv
<1>2. wire \in Seq(Command) /\ wire # <<>> /\ therm \in [Unit -> Dial]
  BY <1>1, TypeParts DEF Execute
<1>3. c \in Command /\ 1 \in DOMAIN wire /\ wire[1] = c
  BY <1>2
<1>4. c \in Zone => Sound(c)
  BY <1>1, <1>3 DEF WireSound
<1>5. /\ therm' = CASE c.verb = "SET_ZONE_HVAC_MODE" -> Obey(c)
                    [] c.verb = "SET_WARD_OFF" -> [u \in Unit |-> [therm[u] EXCEPT !.mode = Off]]
                    [] c.verb = "REFRESH" -> therm
      /\ Broadcast(IF c.verb = "SET_ZONE_HVAC_MODE" THEN {c.unit} ELSE Unit, therm')
  BY DEF Execute
<1> HIDE DEF c
<1>6. CASE c \in Zone
  <2> DEFINE t == [mode |-> c.mode, level |-> c.level, raw |-> c.raw,
                   useaux |-> c.useaux, aux |-> c.aux]
             u == c.unit
  <2>1. /\ u \in Unit /\ c.mode \in OnMode /\ c.raw \in BOOLEAN /\ c.level \in Level
        /\ c.useaux \in BOOLEAN /\ c.aux \in Aux /\ c.verb = "SET_ZONE_HVAC_MODE"
    BY <1>6, CommandFields
  <2>2. c.level > 0 /\ c.type # AnyType
    BY <1>4, <1>6, <2>1, Numbers DEF Sound
  <2>3. therm' = Obey(c)
    BY <1>5, <2>1
  <2>4. therm' = [therm EXCEPT ![u] = t]
    BY <2>2, <2>3 DEF Obey
  <2>5. t \in Dial /\ t.level > 0
    BY <2>1, <2>2, Numbers DEF Dial
  <2>6. /\ t.mode = c.mode /\ t.level = c.level /\ t.raw = c.raw /\ t.aux = c.aux
    OBVIOUS
  <2> HIDE DEF t
  <2>7. therm' \in [Unit -> Dial] /\ therm'[u] = t /\ \A v \in Unit : v # u => therm'[v] = therm[v]
    BY <1>2, <2>1, <2>4, <2>5
  <2>8. HasLevel'
    BY <1>1, <2>5, <2>7 DEF HasLevel
  <2>9. \A v \in Unit : c \in Drivers(v) <=> v = u
    BY <1>6, <2>1 DEF Drivers, Zone
  <2>10. \A v \in Unit, m \in OnMode : c \in Settings(v, m) => therm'[v].mode = m /\ ~therm'[v].raw
    BY <2>6, <2>7 DEF Settings
  <2>11. \A w \in Wish : Grants(c, w) => Fulfils(t, w)
    BY <2>1, <2>6 DEF Grants, Fulfils, Wish
  <2>12. Broadcast({u}, therm') /\ {u} \in SUBSET Unit
    BY <1>5, <2>1
  <2>13. QED
    BY <1>3, <2>7, <2>8, <2>9, <2>10, <2>11, <2>12 DEF c
<1>7. CASE c.verb = "SET_WARD_OFF"
  <2>1. therm' = [u \in Unit |-> [therm[u] EXCEPT !.mode = Off]]
    BY <1>5, <1>7
  <2>2. \A u \in Unit : /\ [therm[u] EXCEPT !.mode = Off] \in Dial
                        /\ [therm[u] EXCEPT !.mode = Off].mode = Off
                        /\ [therm[u] EXCEPT !.mode = Off].level = therm[u].level
    BY <1>2, Numbers DEF Dial
  <2>3. /\ therm' \in [Unit -> Dial]
        /\ \A u \in Unit : therm'[u].mode = Off /\ therm'[u].level = therm[u].level
    BY <2>1, <2>2
  <2>4. HasLevel'
    BY <1>1, <2>3 DEF HasLevel
  <2>5. c \notin Zone /\ \A v \in Unit : c \in Drivers(v)
    BY <1>3, <1>7 DEF Drivers, Zone
  <2>6. \A v \in Unit, m \in OnMode : c \notin Settings(v, m)
    BY <2>5 DEF Settings
  <2>7. \A v \in Unit, w \in Wish : Grants(c, w) => Fulfils(therm'[v], w)
    BY <1>7, <2>3 DEF Grants, Fulfils
  <2>8. Broadcast(Unit, therm')
    BY <1>5, <1>7
  <2>9. QED
    BY <1>3, <2>3, <2>4, <2>5, <2>6, <2>7, <2>8 DEF c
<1>8. CASE c = [verb |-> "REFRESH"]
  <2>1. c.verb = "REFRESH"
    BY <1>8
  <2>2. therm' = therm /\ Broadcast(Unit, therm')
    BY <1>5, <2>1
  <2>3. \A v \in Unit : c \notin Drivers(v) /\ \A m \in OnMode : c \notin Settings(v, m)
    BY <1>8, CommandKinds
  <2>4. HasLevel'
    BY <1>1, <2>2 DEF HasLevel
  <2>5. QED
    BY <1>2, <1>3, <2>2, <2>3, <2>4 DEF c
<1>9. QED
  BY <1>3, <1>6, <1>7, <1>8, CommandFields

\* a command that reaches the controller,
LEMMA ExecuteKeeps ==
  ASSUME AirconInv, Execute
  PROVE  AirconInv'
<1> DEFINE c == Head(wire)
<1>1. TypeOK /\ WireSound /\ AirSound /\ HasLevel /\ \A v \in Unit : UnitInv(v)
  BY DEF AirconInv
<1>2. /\ c \in Command /\ therm' \in [Unit -> Dial] /\ HasLevel'
      /\ \A v \in Unit : c \notin Drivers(v) => therm'[v] = therm[v]
      /\ \A v \in Unit, w \in Wish : c \in Drivers(v) /\ Grants(c, w) => Fulfils(therm'[v], w)
      /\ \A v \in Unit, m \in OnMode :
           c \in Settings(v, m) => therm'[v].mode = m /\ ~therm'[v].raw
      /\ \E S \in SUBSET Unit : /\ Broadcast(S, therm')
                                /\ \A v \in Unit : c \in Drivers(v) => v \in S
  BY ExecuteFacts
<1>3. PICK S \in SUBSET Unit : /\ Broadcast(S, therm')
                               /\ \A v \in Unit : c \in Drivers(v) => v \in S
  BY <1>2
<1>4. /\ wire \in Seq(Command) /\ wire # <<>> /\ wire' = Tail(wire)
      /\ UNCHANGED <<registry, timer, refreshed, shown, wish, asks, turns>>
  BY <1>1, TypeParts DEF Execute
<1>5. \A M : Absent(M, wire') /\ c \notin M => Absent(M, wire)
  <2> TAKE M
  <2>1. Newest(M, wire, Command)
    BY <1>4 DEF Newest
  <2>2. QED
    BY <1>4, <2>1, NewestTail
<1>6. ASSUME NEW M, NEW V, Newest(M, wire, V)
      PROVE  /\ Newest(M, wire', V)
             /\ Absent(M, wire') /\ c \in M => c \in V
  BY <1>4, <1>6, NewestTail
<1> HIDE DEF c
<1>7. wire' \in Seq(Command)
  BY <1>4
<1>8. WireSound'
  <2> DEFINE w == wire
  <2>1. \A i \in DOMAIN Tail(w) : i + 1 \in DOMAIN w /\ Tail(w)[i] = w[i + 1]
    BY <1>4
  <2>2. \A i \in DOMAIN w : w[i] \in Zone => Sound(w[i])
    BY <1>1 DEF WireSound
  <2>3. wire' = Tail(w)
    BY <1>4
  <2> HIDE DEF w
  <2>4. QED
    BY <2>1, <2>2, <2>3 DEF WireSound
<1>9. air' \in Seq(Reading) /\ AirSound' /\ hist' \in [Unit -> [OnMode -> Level]]
  BY <1>1, <1>2, <1>3, BroadcastSound DEF HasLevel
<1>10. TypeOK'
  BY <1>1, <1>2, <1>4, <1>7, <1>9, TypeParts, TypePartsNext
<1>11. ASSUME NEW v \in Unit
       PROVE  UnitInv(v)'
  <2>1. ModeKnown(v) /\ CardKnown(v) /\ WishOnItsWay(v) /\ \A m \in OnMode : TargetKnown(v, m)
    BY <1>1 DEF UnitInv
  <2>2. v \notin S => /\ therm'[v] = therm[v]
                      /\ Absent(Drivers(v), wire') => Absent(Drivers(v), wire)
    BY <1>2, <1>3, <1>5
  <2>3. \A m \in OnMode :
           ~(v \in S /\ therm'[v].mode = m /\ ~therm'[v].raw)
             => (Absent(Settings(v, m), wire') => Absent(Settings(v, m), wire))
    <3> SUFFICES ASSUME NEW m \in OnMode, ~(v \in S /\ therm'[v].mode = m /\ ~therm'[v].raw)
                 PROVE  c \notin Settings(v, m)
      BY <1>5
    <3>1. c \in Settings(v, m) => c \in Drivers(v)
      BY CommandKinds
    <3>2. QED
      BY <1>2, <1>3, <3>1
  <2>4. ModeKnown(v)' /\ CardKnown(v)' /\ \A m \in OnMode : TargetKnown(v, m)'
    BY <1>1, <1>2, <1>3, <1>4, <2>1, <2>2, <2>3, BroadcastKeeps
  <2>5. WishOnItsWay(v)'
    <3> DEFINE w == wish[v]
               V == {d \in Command : Grants(d, w)}
    <3>1. /\ w.last = "setpoint" /\ timer[v] # NoLevel => timer[v] = w.level
          /\ w.last # "setpoint" /\ w.last # "none" => timer[v] = NoLevel
          /\ timer[v] = NoLevel => /\ Newest(Drivers(v), wire, V)
                                   /\ Absent(Drivers(v), wire) => Fulfils(therm[v], w)
      BY <2>1 DEF WishOnItsWay
    <3>2. wish'[v] = w /\ timer'[v] = timer[v] /\ w \in Wish
      BY <1>1, <1>4, TypeParts
    <3>3. ASSUME timer[v] = NoLevel
          PROVE  /\ Newest(Drivers(v), wire', V)
                 /\ Absent(Drivers(v), wire') => Fulfils(therm'[v], w)
      <4>1. /\ Newest(Drivers(v), wire', V)
            /\ Absent(Drivers(v), wire') /\ c \in Drivers(v) => c \in V
        BY <1>6, <3>1, <3>3
      <4>2. Absent(Drivers(v), wire') /\ c \in Drivers(v) => Fulfils(therm'[v], w)
        BY <1>2, <3>2, <4>1
      <4>3. Absent(Drivers(v), wire') /\ c \notin Drivers(v) => Fulfils(therm'[v], w)
        BY <1>2, <1>5, <3>1, <3>3
      <4>4. QED
        BY <4>1, <4>2, <4>3
    <3>4. V = {d \in Command : Grants(d, wish'[v])}
      BY <3>2
    <3> HIDE DEF V
    <3>5. QED
      BY <3>1, <3>2, <3>3, <3>4 DEF WishOnItsWay
  <2>6. QED
    BY <2>4, <2>5 DEF UnitInv
<1>12. QED
  BY <1>2, <1>8, <1>9, <1>10, <1>11 DEF AirconInv

\* someone at the unit,
LEMMA TurnKeeps ==
  ASSUME AirconInv, NEW u \in Unit, NEW t \in Dial, t.level > 0, Turn(u, t)
  PROVE  AirconInv'
<1>1. TypeOK /\ WireSound /\ AirSound /\ HasLevel /\ \A v \in Unit : UnitInv(v)
  BY DEF AirconInv
<1>2. /\ UNCHANGED <<wire, registry, timer, refreshed, shown, asks>>
      /\ therm' = [therm EXCEPT ![u] = t]
      /\ Broadcast({u}, therm')
      /\ wish' = [wish EXCEPT ![u].last = "none", ![u].mode = NoMode]
      /\ turns' \in 0..MaxTurns
  BY <1>1, BoundsAssumption DEF Turn, TypeOK
<1>3. /\ therm' \in [Unit -> Dial] /\ therm'[u] = t
      /\ \A v \in Unit : v # u => therm'[v] = therm[v]
  BY <1>1, <1>2, TypeParts
<1>4. HasLevel'
  BY <1>1, <1>3 DEF HasLevel
<1>5. /\ wish' \in [Unit -> Wish] /\ \A v \in Unit : v # u => wish'[v] = wish[v]
      /\ wish'[u].last = "none"
  BY <1>1, <1>2, TypeParts DEF Wish
<1>6. air' \in Seq(Reading) /\ AirSound' /\ hist' \in [Unit -> [OnMode -> Level]]
  BY <1>1, <1>2, <1>3, <1>4, BroadcastSound DEF HasLevel
<1>7. TypeOK'
  BY <1>1, <1>2, <1>3, <1>5, <1>6, TypeParts, TypePartsNext
<1>8. WireSound'
  BY <1>1, <1>2 DEF WireSound
<1>9. ASSUME NEW v \in Unit
      PROVE  UnitInv(v)'
  <2>1. ModeKnown(v) /\ CardKnown(v) /\ WishOnItsWay(v) /\ \A m \in OnMode : TargetKnown(v, m)
    BY <1>1 DEF UnitInv
  <2>2. {u} \in SUBSET Unit /\ (v \notin {u} => therm'[v] = therm[v])
    BY <1>3
  <2>3. ModeKnown(v)' /\ CardKnown(v)' /\ \A m \in OnMode : TargetKnown(v, m)'
    BY <1>1, <1>2, <1>3, <1>4, <2>1, <2>2, BroadcastKeeps
  <2>4. WishOnItsWay(v)'
    <3>1. CASE v # u
      BY <1>2, <1>3, <1>5, <2>1, <3>1 DEF WishOnItsWay
    <3>2. CASE v = u
      <4>1. \A c \in Command : Grants(c, wish'[u])
        BY <1>5 DEF Grants, Fulfils
      <4>2. wire' \in Seq(Command)
        BY <1>1, <1>2, TypeParts
      <4>3. Newest(Drivers(u), wire', {c \in Command : Grants(c, wish'[u])})
        BY <4>1, <4>2 DEF Newest
      <4>4. Fulfils(therm'[u], wish'[u])
        BY <1>5 DEF Fulfils
      <4>5. QED
        BY <1>5, <3>2, <4>3, <4>4 DEF WishOnItsWay
    <3>3. QED
      BY <3>1, <3>2
  <2>5. QED
    BY <2>3, <2>4 DEF UnitInv
<1>10. QED
  BY <1>4, <1>6, <1>7, <1>8, <1>9 DEF AirconInv

\* A thermostat that has been turned still has a target.
LEMMA TurnsKeep ==
  ASSUME AirconInv, NEW u \in Unit, TurnMode(u) \/ TurnOff(u) \/ TurnSpeed(u)
  PROVE  AirconInv'
<1> DEFINE t == therm[u]
<1>1. t \in Dial /\ t.level > 0
  BY TypeParts DEF AirconInv, HasLevel
<1>2. ASSUME NEW m \in OnMode, NEW l \in Dialled
      PROVE  Running(t, m, l) \in Dial /\ Running(t, m, l).level > 0
  <2>1. l \in Level /\ l > 0 /\ FanLevel \in Level /\ FanLevel > 0 /\ m \in Mode
    BY Numbers
  <2>2. CASE m = FanOnly
    BY <1>1, <2>1, <2>2 DEF Running, Dial
  <2>3. CASE m # FanOnly
    BY <1>1, <2>1, <2>3 DEF Running, Dial
  <2>4. QED
    BY <2>2, <2>3
<1>3. [t EXCEPT !.mode = Off] \in Dial /\ [t EXCEPT !.mode = Off].level > 0
  BY <1>1, Numbers DEF Dial
<1>4. ASSUME NEW s \in Speed
      PROVE  LET x == [t EXCEPT !.useaux = TRUE, !.aux.speed = s] IN x \in Dial /\ x.level > 0
  <2>1. [t.aux EXCEPT !.speed = s] \in Aux
    BY <1>1 DEF Dial, Aux
  <2>2. [t EXCEPT !.useaux = TRUE, !.aux.speed = s]
          = [t EXCEPT !.useaux = TRUE, !.aux = [t.aux EXCEPT !.speed = s]]
    BY <1>1 DEF Dial
  <2>3. QED
    BY <1>1, <2>1, <2>2 DEF Dial
<1> HIDE DEF t
<1>5. CASE TurnMode(u)
  BY <1>2, <1>5, TurnKeeps DEF TurnMode, t
<1>6. CASE TurnOff(u)
  BY <1>3, <1>6, TurnKeeps DEF TurnOff, t
<1>7. CASE TurnSpeed(u)
  BY <1>4, <1>7, TurnKeeps DEF TurnSpeed, t
<1>8. QED
  BY <1>5, <1>6, <1>7

\* a report of the temperature,
LEMMA ReportTemperatureKeeps ==
  ASSUME AirconInv, NEW u \in Unit, ReportTemperature(u)
  PROVE  AirconInv'
<1> DEFINE r == TemperatureReading(u)
           a == air
<1>1. TypeOK /\ WireSound /\ AirSound /\ HasLevel /\ \A v \in Unit : UnitInv(v)
  BY DEF AirconInv
<1>2. /\ UNCHANGED <<therm, wire, hist, registry, timer, refreshed, shown, wish, asks>>
      /\ air' = Append(a, r) /\ turns' \in 0..MaxTurns
  BY <1>1, BoundsAssumption DEF ReportTemperature, TypeOK
<1>3. r \in Reading /\ r.kind = "temperature"
  BY DEF TemperatureReading, Reading
<1>4. \A v \in Unit : r \notin ModeReadings(v) /\ \A m \in OnMode : r \notin Targets(v, m)
  BY <1>3 DEF ModeReadings, Targets
<1>5. a \in Seq(Reading)
  BY <1>1, TypeParts
<1>6. \A i \in DOMAIN a : a[i].kind = "mode" =>
         /\ a[i].mode = Off => a[i].level = NoLevel
         /\ a[i].mode # Off => a[i].type = Plant /\ a[i].level > 0
  BY <1>1 DEF AirSound
<1> HIDE DEF r, a
<1>7. air' \in Seq(Reading)
  BY <1>2, <1>3, <1>5
<1>8. AirSound'
  <2>1. \A i \in DOMAIN Append(a, r) : \/ Append(a, r)[i] = r
                                       \/ i \in DOMAIN a /\ Append(a, r)[i] = a[i]
    BY <1>5
  <2>2. QED
    BY <1>2, <1>3, <1>6, <2>1 DEF AirSound
<1>9. TypeOK'
  BY <1>1, <1>2, <1>7, TypeParts, TypePartsNext
<1>10. WireSound' /\ HasLevel'
  BY <1>1, <1>2 DEF WireSound, HasLevel
<1>11. ASSUME NEW M, r \notin M, NEW V, Newest(M, a, V)
       PROVE  Newest(M, air', V) /\ (Absent(M, air') => Absent(M, a))
  BY <1>2, <1>3, <1>5, <1>11, NewestAppend
<1>12. ASSUME NEW v \in Unit
       PROVE  UnitInv(v)'
  <2>1. ModeKnown(v) /\ CardKnown(v) /\ WishOnItsWay(v) /\ \A m \in OnMode : TargetKnown(v, m)
    BY <1>1 DEF UnitInv
  <2>2. ModeKnown(v)' /\ CardKnown(v)'
    <3> DEFINE M == ModeReadings(v)
               V == {ModeReading(v, therm[v])}
    <3>1. Newest(M, a, V)
      BY <2>1 DEF ModeKnown, a
    <3>2. Newest(M, air', V) /\ (Absent(M, air') => Absent(M, a))
      BY <1>4, <1>11, <3>1
    <3>3. V = {ModeReading(v, therm'[v])}
      BY <1>2
    <3> HIDE DEF M, V
    <3>4. ModeKnown(v)'
      BY <1>2, <2>1, <3>2, <3>3 DEF ModeKnown, M, V, a
    <3>5. CardKnown(v)'
      BY <1>2, <2>1, <3>2 DEF CardKnown, M, a
    <3>6. QED
      BY <3>4, <3>5
  <2>3. WishOnItsWay(v)'
    BY <1>2, <2>1 DEF WishOnItsWay
  <2>4. ASSUME NEW m \in OnMode
        PROVE  TargetKnown(v, m)'
    <3> DEFINE M == Targets(v, m)
               V == {x \in Reading : x.level = hist[v][m]}
    <3>1. Newest(M, a, V)
      BY <2>1 DEF TargetKnown, a
    <3>2. Newest(M, air', V) /\ (Absent(M, air') => Absent(M, a))
      BY <1>4, <1>11, <3>1
    <3>3. V = {x \in Reading : x.level = hist'[v][m]}
      BY <1>2
    <3> HIDE DEF M, V
    <3>4. QED
      BY <1>2, <2>1, <3>2, <3>3 DEF TargetKnown, M, V, a
  <2>5. QED
    BY <2>2, <2>3, <2>4 DEF UnitInv
<1>13. QED
  BY <1>8, <1>9, <1>10, <1>12 DEF AirconInv

-----------------------------------------------------------------------------
(* What is heard *)

\* The registry and the card after a mode reading.
LEMMA LearningFacts ==
  ASSUME TypeOK, NEW r \in Reading, r.kind = "mode", r.mode # Off => r.type = Plant,
         RecordModeReading(r), PublishReading(r)
  PROVE  LET u == r.unit
         IN  /\ u \in Unit /\ r.mode \in Mode /\ r.level \in Level /\ r.raw \in BOOLEAN
             /\ registry' \in [Unit -> Learned] /\ shown' \in [Unit -> Card]
             /\ \A v \in Unit : v # u => registry'[v] = registry[v] /\ shown'[v] = shown[v]
             /\ registry'[u].mode = r.mode
             /\ registry'[u].byMode = LearnByMode(registry[u], r)
             /\ shown'[u].mode = r.mode /\ shown'[u].cont = r.aux.cont
             /\ ~r.raw /\ r.level \in 1..MaxLevel => shown'[u].level = r.level
<1> DEFINE u == r.unit
           prev == registry[u]
           level == IF HasTarget(r) THEN r.level ELSE prev.level
           new == [known |-> TRUE, mode |-> r.mode, type |-> LearnType(prev, r), level |-> level,
                   byMode |-> LearnByMode(prev, r), useaux |-> r.useaux, aux |-> r.aux]
           lv == IF ~r.raw /\ r.level \in 1..MaxLevel THEN r.level ELSE shown[u].level
           card == [mode |-> r.mode, level |-> lv, cont |-> r.aux.cont]
<1>1. /\ u \in Unit /\ r.mode \in Mode /\ r.level \in Level /\ r.raw \in BOOLEAN
      /\ r.useaux \in BOOLEAN /\ r.aux \in Aux
  BY DEF Reading
<1>2. registry \in [Unit -> Learned] /\ shown \in [Unit -> Card] /\ prev \in Learned
  BY <1>1, TypeParts
<1>3. registry' = [registry EXCEPT ![u] = new]
  BY <1>1, <1>2 DEF RecordModeReading
<1>4. shown' = [shown EXCEPT ![u] = card]
  BY <1>1, <1>2 DEF PublishReading
<1>5. new \in Learned
  <2>1. prev.type \in {NoType, Plant} /\ prev.level \in Level /\ prev.byMode \in [OnMode -> Level]
    BY <1>2 DEF Learned
  <2>2. LearnType(prev, r) \in {NoType, Plant} /\ level \in Level
    BY <1>1, <2>1 DEF LearnType
  <2>3. LearnByMode(prev, r) \in [OnMode -> Level]
    BY <1>1, <2>1 DEF LearnByMode
  <2> HIDE DEF level
  <2>4. QED
    BY <1>1, <2>2, <2>3 DEF Learned
<1>6. card \in Card /\ card.mode = r.mode /\ card.cont = r.aux.cont /\ card.level = lv
  <2>1. shown[u].level \in Level
    BY <1>1, <1>2 DEF Card
  <2>2. lv \in Level /\ r.aux.cont \in BOOLEAN /\ r.mode \in Mode \union {NoMode}
    BY <1>1, <2>1 DEF Aux
  <2> HIDE DEF lv
  <2>3. QED
    BY <2>2 DEF Card
<1>7. new.mode = r.mode /\ new.byMode = LearnByMode(prev, r)
  OBVIOUS
<1>8. ~r.raw /\ r.level \in 1..MaxLevel => lv = r.level
  OBVIOUS
<1> HIDE DEF new, card, lv
<1>9. /\ registry' \in [Unit -> Learned] /\ registry'[u] = new
      /\ \A v \in Unit : v # u => registry'[v] = registry[v]
  BY <1>1, <1>2, <1>3, <1>5
<1>10. /\ shown' \in [Unit -> Card] /\ shown'[u] = card
       /\ \A v \in Unit : v # u => shown'[v] = shown[v]
  BY <1>1, <1>2, <1>4, <1>6
<1>11. QED
  BY <1>1, <1>6, <1>7, <1>8, <1>9, <1>10

\* A refresh, if one joins the wire, bears on no thermostat.
LEMMA RefreshFacts ==
  ASSUME TypeOK, WireSound, NEW r, MaybeRefreshWard(r)
  PROVE  /\ wire' \in Seq(Command) /\ WireSound' /\ refreshed' \in BOOLEAN
         /\ \A v \in Unit :
              /\ Absent(Drivers(v), wire') => Absent(Drivers(v), wire)
              /\ \A m \in OnMode : Absent(Settings(v, m), wire') => Absent(Settings(v, m), wire)
              /\ \A V : Newest(Drivers(v), wire, V) => Newest(Drivers(v), wire', V)
<1>1. wire \in Seq(Command) /\ refreshed \in BOOLEAN
  BY TypeParts
<1>2. CASE refreshed
  BY <1>1, <1>2 DEF MaybeRefreshWard, WireSound
<1>3. CASE ~refreshed
  <2> DEFINE c == [verb |-> "REFRESH"]
  <2>1. wire' = Append(wire, c) /\ refreshed' \in BOOLEAN
    BY <1>3 DEF MaybeRefreshWard
  <2>2. c \in Command /\ c \notin Zone /\ \A v \in Unit : c \notin Drivers(v)
    BY CommandKinds
  <2> HIDE DEF c
  <2>3. /\ wire' \in Seq(Command) /\ WireSound'
        /\ \A M : Absent(M, wire') <=> Absent(M, wire) /\ c \notin M
        /\ \A M, V : (c \in M => c \in V) /\ (c \notin M => Newest(M, wire, V))
                       => Newest(M, wire', V)
    BY <2>1, <2>2, WireGrows
  <2>4. QED
    BY <2>1, <2>2, <2>3
<1>4. QED
  BY <1>2, <1>3

\* and a broadcast that the bridge hears.
LEMMA HandleLineKeeps ==
  ASSUME AirconInv, HandleLine
  PROVE  AirconInv'
<1> DEFINE r == Head(air)
           a == air
<1>1. TypeOK /\ WireSound /\ AirSound /\ HasLevel /\ \A v \in Unit : UnitInv(v)
  BY DEF AirconInv
<1>2. /\ a \in Seq(Reading) /\ a # <<>> /\ air' = Tail(a)
      /\ UNCHANGED <<therm, hist, timer, wish, asks, turns>>
      /\ MaybeRefreshWard(r)
      /\ IF r.kind = "mode" THEN RecordModeReading(r) /\ PublishReading(r)
                            ELSE UNCHANGED <<registry, shown>>
  BY <1>1, TypeParts DEF HandleLine
<1>3. \A i \in DOMAIN a : a[i].kind = "mode" =>
         /\ a[i].mode = Off => a[i].level = NoLevel
         /\ a[i].mode # Off => a[i].type = Plant /\ a[i].level > 0
  BY <1>1 DEF AirSound
<1>4. /\ r \in Reading /\ 1 \in DOMAIN a /\ a[1] = r /\ Head(a) = r
      /\ \A i \in DOMAIN Tail(a) : i + 1 \in DOMAIN a /\ Tail(a)[i] = a[i + 1]
      /\ Tail(a) \in Seq(Reading)
  BY <1>2
<1> HIDE DEF r, a
<1>5. r.kind = "mode" => /\ r.mode = Off => r.level = NoLevel
                         /\ r.mode # Off => r.type = Plant /\ r.level > 0
  BY <1>3, <1>4
<1>6. AirSound'
  BY <1>2, <1>3, <1>4 DEF AirSound
<1>7. /\ wire' \in Seq(Command) /\ WireSound' /\ refreshed' \in BOOLEAN
      /\ \A v \in Unit :
           /\ Absent(Drivers(v), wire') => Absent(Drivers(v), wire)
           /\ \A m \in OnMode : Absent(Settings(v, m), wire') => Absent(Settings(v, m), wire)
           /\ \A V : Newest(Drivers(v), wire, V) => Newest(Drivers(v), wire', V)
  BY <1>1, <1>2, RefreshFacts
<1>8. r.kind = "mode" =>
        /\ r.unit \in Unit /\ r.mode \in Mode /\ r.level \in Level /\ r.raw \in BOOLEAN
        /\ registry' \in [Unit -> Learned] /\ shown' \in [Unit -> Card]
        /\ \A v \in Unit : v # r.unit => registry'[v] = registry[v] /\ shown'[v] = shown[v]
        /\ registry'[r.unit].mode = r.mode
        /\ registry'[r.unit].byMode = LearnByMode(registry[r.unit], r)
        /\ shown'[r.unit].mode = r.mode /\ shown'[r.unit].cont = r.aux.cont
        /\ ~r.raw /\ r.level \in 1..MaxLevel => shown'[r.unit].level = r.level
  BY <1>1, <1>2, <1>4, <1>5, LearningFacts
<1>9. registry' \in [Unit -> Learned] /\ shown' \in [Unit -> Card]
  BY <1>1, <1>2, <1>8, TypeParts
<1>10. TypeOK'
  BY <1>1, <1>2, <1>4, <1>7, <1>9, TypeParts, TypePartsNext
<1>11. HasLevel'
  BY <1>1, <1>2 DEF HasLevel
<1>12. ASSUME NEW M, NEW V, Newest(M, a, V)
       PROVE  /\ Newest(M, air', V)
              /\ Absent(M, air') /\ r \in M => r \in V
              /\ Absent(M, air') /\ r \notin M => Absent(M, a)
  BY <1>2, <1>4, <1>12, NewestTail
<1>13. ASSUME NEW v \in Unit
       PROVE  UnitInv(v)'
  <2> DEFINE M == ModeReadings(v)
  <2>1. ModeKnown(v) /\ CardKnown(v) /\ WishOnItsWay(v) /\ \A m \in OnMode : TargetKnown(v, m)
    BY <1>1 DEF UnitInv
  <2>2. r \in M <=> r.kind = "mode" /\ r.unit = v
    BY <1>4 DEF ModeReadings
  <2>3. r \notin M => registry'[v] = registry[v] /\ shown'[v] = shown[v]
    BY <1>2, <1>8, <2>2
  <2>4. Newest(M, a, {ModeReading(v, therm[v])})
    BY <2>1 DEF ModeKnown, a
  <2>5. /\ Newest(M, air', {ModeReading(v, therm[v])})
        /\ Absent(M, air') /\ r \in M => r = ModeReading(v, therm[v])
        /\ Absent(M, air') /\ r \notin M => Absent(M, a)
    BY <1>12, <2>4
  <2>6. therm[v] \in Dial /\ therm[v].level > 0 /\ therm'[v] = therm[v]
    BY <1>1, <1>2, TypeParts DEF HasLevel
  <2>7. LET x == ModeReading(v, therm[v])
        IN  /\ x.mode = therm[v].mode /\ x.aux = therm[v].aux
            /\ therm[v].mode # Off => x.level = therm[v].level /\ x.raw = therm[v].raw
    BY <2>6, ReadingFacts
  <2>8. Absent(M, air') /\ r \in M =>
          /\ registry'[v].mode = therm[v].mode
          /\ shown'[v].mode = therm[v].mode /\ shown'[v].cont = therm[v].aux.cont
          /\ therm[v].mode # Off /\ ~therm[v].raw /\ therm[v].level <= MaxLevel
               => shown'[v].level = therm[v].level
    <3> SUFFICES ASSUME Absent(M, air'), r \in M
                 PROVE  /\ registry'[v].mode = therm[v].mode
                        /\ shown'[v].mode = therm[v].mode /\ shown'[v].cont = therm[v].aux.cont
                        /\ therm[v].mode # Off /\ ~therm[v].raw /\ therm[v].level <= MaxLevel
                             => shown'[v].level = therm[v].level
      OBVIOUS
    <3>1. /\ r.mode = therm[v].mode /\ r.aux = therm[v].aux
          /\ therm[v].mode # Off => r.level = therm[v].level /\ r.raw = therm[v].raw
      BY <2>5, <2>7
    <3>2. therm[v].level \in Level
      BY <2>6 DEF Dial
    <3>3. therm[v].level <= MaxLevel => therm[v].level \in 1..MaxLevel
      BY <2>6, <3>2, Numbers
    <3>4. QED
      BY <1>8, <2>2, <3>1, <3>3
  <2> HIDE DEF M
  <2>9. ModeKnown(v)'
    <3>1. Newest(M, air', {ModeReading(v, therm'[v])})
      BY <2>5, <2>6
    <3>2. Absent(M, air') /\ registry'[v].known => registry'[v].mode = therm'[v].mode
      BY <2>1, <2>3, <2>5, <2>6, <2>8 DEF ModeKnown, M, a
    <3>3. QED
      BY <3>1, <3>2 DEF ModeKnown, M
  <2>10. CardKnown(v)'
    <3> SUFFICES ASSUME Absent(M, air'), Absent(Drivers(v), wire'), timer'[v] = NoLevel,
                        registry'[v].known
                 PROVE  /\ shown'[v].mode = therm'[v].mode
                        /\ shown'[v].cont = therm'[v].aux.cont
                        /\ therm'[v].mode # Off /\ ~therm'[v].raw /\ therm'[v].level <= MaxLevel
                             => shown'[v].level = therm'[v].level
      BY DEF CardKnown, M
    <3>1. CASE r \in M
      BY <2>6, <2>8, <3>1
    <3>2. CASE r \notin M
      <4>1. Absent(M, a) /\ Absent(Drivers(v), wire) /\ timer[v] = NoLevel /\ registry[v].known
        BY <1>2, <1>7, <2>3, <2>5, <3>2
      <4>2. QED
        BY <2>1, <2>3, <2>6, <3>2, <4>1 DEF CardKnown, M, a
    <3>3. QED
      BY <3>1, <3>2
  <2>11. WishOnItsWay(v)'
    <3> DEFINE w == wish[v]
               V == {d \in Command : Grants(d, w)}
    <3>1. /\ w.last = "setpoint" /\ timer[v] # NoLevel => timer[v] = w.level
          /\ w.last # "setpoint" /\ w.last # "none" => timer[v] = NoLevel
          /\ timer[v] = NoLevel => /\ Newest(Drivers(v), wire, V)
                                   /\ Absent(Drivers(v), wire) => Fulfils(therm[v], w)
      BY <2>1 DEF WishOnItsWay
    <3>2. wish'[v] = w /\ timer'[v] = timer[v]
      BY <1>2
    <3>3. timer[v] = NoLevel => /\ Newest(Drivers(v), wire', V)
                                /\ Absent(Drivers(v), wire') => Fulfils(therm'[v], w)
      BY <1>7, <2>6, <3>1
    <3>4. V = {d \in Command : Grants(d, wish'[v])}
      BY <3>2
    <3> HIDE DEF V
    <3>5. QED
      BY <3>1, <3>2, <3>3, <3>4 DEF WishOnItsWay
  <2>12. ASSUME NEW m \in OnMode
         PROVE  TargetKnown(v, m)'
    <3> DEFINE N == Targets(v, m)
               h == hist[v][m]
    <3>1. /\ Newest(N, a, {x \in Reading : x.level = h})
          /\ Absent(N, a) /\ Absent(Settings(v, m), wire) /\ h # NoLevel
               => registry[v].byMode[m] = h
      BY <2>1 DEF TargetKnown, a
    <3>2. r \in N <=> r \in M /\ r.mode = m /\ HasTarget(r)
      BY DEF Targets, M
    <3>3. hist'[v][m] = h
      BY <1>2
    <3> HIDE DEF N, h
    <3>4. /\ Newest(N, air', {x \in Reading : x.level = h})
          /\ Absent(N, air') /\ r \in N => r.level = h
          /\ Absent(N, air') /\ r \notin N => Absent(N, a)
      BY <1>12, <3>1
    <3>5. registry[v].byMode \in [OnMode -> Level]
      BY <1>1, TypeParts DEF Learned
    <3>6. r \in N => registry'[v].byMode[m] = r.level
      BY <1>8, <2>2, <3>2, <3>5 DEF LearnByMode
    <3>7. r \notin N => registry'[v].byMode[m] = registry[v].byMode[m]
      <4>1. CASE r \in M
        BY <1>8, <2>2, <3>2, <3>5, <4>1 DEF LearnByMode
      <4>2. CASE r \notin M
        BY <2>3, <4>2
      <4>3. QED
        BY <4>1, <4>2
    <3>8. Absent(N, air') /\ Absent(Settings(v, m), wire') /\ h # NoLevel
            => registry'[v].byMode[m] = h
      BY <1>7, <3>1, <3>4, <3>6, <3>7
    <3>9. QED
      BY <3>3, <3>4, <3>8 DEF TargetKnown, N
  <2>13. QED
    BY <2>9, <2>10, <2>11, <2>12 DEF UnitInv
<1>14. QED
  BY <1>6, <1>7, <1>10, <1>11, <1>13 DEF AirconInv

-----------------------------------------------------------------------------
(* The theorems *)

\* At the start nothing was broadcast and nothing is known.
LEMMA AirconInit == Init => AirconInv
<1> SUFFICES ASSUME Init PROVE AirconInv
  OBVIOUS
<1>1. PICK l \in {d \in Dialled : d <= MaxLevel} : therm \in [Unit -> {Start(Off, l), Start(Heat, l)}]
  BY DEF Init
<1>2. l \in Level /\ l > 0
  BY <1>1, Numbers
<1>3. \A m \in {Off, Heat} : Start(m, l) \in Dial /\ Start(m, l).level > 0
  <2> DEFINE t == [mode |-> Off, level |-> l, raw |-> FALSE, useaux |-> TRUE, aux |-> DefaultAux]
  <2>1. t \in Dial /\ t.level > 0
    BY <1>2, Numbers DEF Dial
  <2>2. TAKE m \in {Off, Heat}
  <2>3. m # FanOnly /\ m \in Mode
    BY Numbers DEF Off, Heat, FanOnly
  <2>4. Start(m, l) = [t EXCEPT !.mode = m, !.raw = FALSE, !.level = l]
    BY <2>3 DEF Start, Running
  <2> HIDE DEF t
  <2>5. [t EXCEPT !.mode = m, !.raw = FALSE, !.level = l] \in Dial
    BY <1>2, <2>1, <2>3 DEF Dial
  <2>6. [t EXCEPT !.mode = m, !.raw = FALSE, !.level = l].level = l
    BY <2>1 DEF Dial
  <2>7. QED
    BY <1>2, <2>4, <2>5, <2>6
<1>4. therm \in [Unit -> Dial] /\ HasLevel
  BY <1>1, <1>3 DEF HasLevel
<1>5. /\ wire = <<>> /\ air = <<>>
      /\ registry = [u \in Unit |->
           [known |-> FALSE, mode |-> Off, type |-> NoType, level |-> NoLevel,
            byMode |-> [m \in OnMode |-> NoLevel], useaux |-> TRUE, aux |-> DefaultAux]]
      /\ timer = [u \in Unit |-> NoLevel] /\ refreshed = FALSE
      /\ shown = [u \in Unit |-> [mode |-> NoMode, level |-> NoLevel, cont |-> FALSE]]
      /\ wish = [u \in Unit |-> [last |-> "none", mode |-> NoMode, level |-> NoLevel, cont |-> FALSE]]
      /\ hist = [u \in Unit |-> [m \in OnMode |-> NoLevel]]
      /\ asks = 0 /\ turns = 0
  BY DEF Init
<1>6. registry \in [Unit -> Learned]
  <2>1. [m \in OnMode |-> NoLevel] \in [OnMode -> Level]
    BY Numbers
  <2>2. [known |-> FALSE, mode |-> Off, type |-> NoType, level |-> NoLevel,
         byMode |-> [m \in OnMode |-> NoLevel], useaux |-> TRUE, aux |-> DefaultAux] \in Learned
    BY <2>1, Numbers DEF Learned
  <2>3. QED
    BY <1>5, <2>2
<1>7. shown \in [Unit -> Card] /\ wish \in [Unit -> Wish] /\ hist \in [Unit -> [OnMode -> Level]]
  BY <1>5, Numbers DEF Card, Wish
<1>8. wire \in Seq(Command) /\ air \in Seq(Reading) /\ timer \in [Unit -> {NoLevel} \union 10..32]
  BY <1>5
<1>9. asks \in 0..MaxAsks /\ turns \in 0..MaxTurns /\ refreshed \in BOOLEAN
  <2>1. asks = 0 /\ turns = 0
    BY <1>5
  <2>2. asks \in 0..MaxAsks /\ turns \in 0..MaxTurns
    BY <2>1, BoundsAssumption
  <2>3. refreshed \in BOOLEAN
    BY <1>5
  <2>4. QED
    BY <2>2, <2>3
<1>10. TypeOK
  BY <1>4, <1>6, <1>7, <1>8, <1>9, TypeParts
<1>11. WireSound /\ AirSound
  BY <1>5 DEF WireSound, AirSound
<1>12. ASSUME NEW v \in Unit
       PROVE  UnitInv(v)
  <2>1. ~registry[v].known /\ wish[v].last = "none" /\ \A m \in OnMode : hist[v][m] = NoLevel
    BY <1>5
  <2>2. ModeKnown(v) /\ CardKnown(v) /\ \A m \in OnMode : TargetKnown(v, m)
    BY <1>5, <2>1, NewestEmpty DEF ModeKnown, CardKnown, TargetKnown
  <2>3. WishOnItsWay(v)
    BY <1>5, <2>1, NewestEmpty DEF WishOnItsWay, Fulfils
  <2>4. QED
    BY <2>2, <2>3 DEF UnitInv
<1>13. QED
  BY <1>4, <1>10, <1>11, <1>12 DEF AirconInv

\* Every step keeps the invariant.
LEMMA AirconStep == AirconInv /\ [Next]_vars => AirconInv'
<1> SUFFICES ASSUME AirconInv, [Next]_vars PROVE AirconInv'
  OBVIOUS
<1>1. CASE HandleLine
  BY <1>1, HandleLineKeeps
<1>2. CASE Execute
  BY <1>2, ExecuteKeeps
<1>3. ASSUME NEW u \in Unit, NEW c \in Asked, HandleSetpoint(u, c)
      PROVE  AirconInv'
  BY <1>3, HandleSetpointKeeps
<1>4. ASSUME NEW u \in Unit, SendSetpoint(u)
      PROVE  AirconInv'
  BY <1>4, SendSetpointKeeps
<1>5. ASSUME NEW u \in Unit, HandleModeOff(u)
      PROVE  AirconInv'
  BY <1>5, HandleModeOffKeeps
<1>6. ASSUME NEW u \in Unit, NEW m \in OnMode, HandleModeOn(u, m)
      PROVE  AirconInv'
  BY <1>6, HandleModeOnKeeps
<1>7. ASSUME NEW u \in Unit, NEW b \in BOOLEAN, HandleFanMode(u, b)
      PROVE  AirconInv'
  BY <1>7, HandleFanModeKeeps
<1>8. ASSUME NEW u \in Unit, TurnMode(u) \/ TurnOff(u) \/ TurnSpeed(u)
      PROVE  AirconInv'
  BY <1>8, TurnsKeep
<1>9. ASSUME NEW u \in Unit, ReportTemperature(u)
      PROVE  AirconInv'
  BY <1>9, ReportTemperatureKeeps
<1>10. CASE UNCHANGED vars
  <2>1. /\ therm' = therm /\ wire' = wire /\ air' = air /\ hist' = hist /\ registry' = registry
        /\ timer' = timer /\ refreshed' = refreshed /\ shown' = shown /\ wish' = wish
        /\ asks' = asks /\ turns' = turns
    BY <1>10 DEF vars, bus
  <2>2. TypeOK'
    BY <2>1, TypeParts, TypePartsNext DEF AirconInv
  <2>3. WireSound' /\ AirSound' /\ HasLevel'
    BY <2>1 DEF AirconInv, WireSound, AirSound, HasLevel
  <2>4. ASSUME NEW v \in Unit
        PROVE  UnitInv(v)'
    BY <2>1, OthersKeep DEF AirconInv
  <2>5. QED
    BY <2>2, <2>3, <2>4 DEF AirconInv
<1>11. QED
  BY <1>1, <1>2, <1>3, <1>4, <1>5, <1>6, <1>7, <1>8, <1>9, <1>10 DEF Next

\* So it always holds.
LEMMA AirconAlways == Spec => []AirconInv
BY AirconInit, AirconStep, PTL DEF Spec

\* At rest the climate card shows and the registry holds what every thermostat does, the
\* target it last had in each mode included, and no thermostat is ever sent what is not a
\* temperature: optimistic publishing, refused and overtaken requests, the sentinels and raw
\* levels of the broadcasts leave nothing wrong (mqttCommandRouter.js:1187-1404,
\* airconControlRegistry.js).
THEOREM ClimateViewsAgree == Spec => []ViewsAgree
<1>1. AirconInv => ViewsAgree
  <2> SUFFICES ASSUME AirconInv PROVE ViewsAgree
    OBVIOUS
  <2>1. TypeOK /\ WireSound /\ \A v \in Unit : UnitInv(v)
    BY DEF AirconInv
  <2>2. ASSUME Settled, NEW u \in Unit
        PROVE  /\ Absent(ModeReadings(u), air) /\ Absent(Drivers(u), wire) /\ timer[u] = NoLevel
               /\ \A m \in OnMode : Absent(Targets(u, m), air) /\ Absent(Settings(u, m), wire)
    BY <2>2, NewestEmpty DEF Settled
  <2>3. CardAgrees
    BY <2>1, <2>2 DEF CardAgrees, UnitInv, CardKnown
  <2>4. LearnedAgrees
    BY <2>1, <2>2 DEF LearnedAgrees, UnitInv, ModeKnown, TargetKnown
  <2>5. NoImplausibleTarget
    <3>1. \A i \in DOMAIN wire : wire[i] \in Command
      BY <2>1, TypeParts
    <3>2. QED
      BY <2>1, <3>1, CommandFields DEF NoImplausibleTarget, WireSound, Sound
  <2>6. QED
    BY <2>1, <2>3, <2>4, <2>5 DEF ViewsAgree
<1>2. QED
  BY <1>1, AirconAlways, PTL

\* The latest explicit action wins: at rest every thermostat does what was last asked of it,
\* however the request raced the debounce of a setpoint, other requests and the echoes
\* (mqttCommandRouter.js:1187-1404).
THEOREM LatestRequestsWin == Spec => []LatestRequestWins
<1>1. AirconInv => LatestRequestWins
  <2> SUFFICES ASSUME AirconInv, Settled, NEW u \in Unit
               PROVE  Fulfils(therm[u], wish[u])
    BY DEF LatestRequestWins
  <2>1. WishOnItsWay(u)
    BY DEF AirconInv, UnitInv
  <2>2. timer[u] = NoLevel /\ Absent(Drivers(u), wire)
    BY NewestEmpty DEF Settled
  <2>3. QED
    BY <2>1, <2>2 DEF WishOnItsWay
<1>2. QED
  BY <1>1, AirconAlways, PTL
=============================================================================
