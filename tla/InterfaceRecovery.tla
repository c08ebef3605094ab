-------------------------- MODULE InterfaceRecovery --------------------------
(***************************************************************************)
(* The interface of a C-Bus network and its recovery: the verdict on the   *)
(* polls (src/src/networkInterfaceMonitor.js), what is published and who   *)
(* is told (src/src/cniNotificationManager.js), and the recovery of a USB  *)
(* PC Interface that came back on another port                             *)
(* (src/src/serialDeviceRecovery.js, with the resolver and the script of   *)
(* the add-on).                                                            *)
(*                                                                         *)
(* One network, recovery enabled, the device's identity known.  A poll's   *)
(* answer is handled after it was given: the device may have moved since.  *)
(***************************************************************************)
EXTENDS Naturals

CONSTANTS
  SerialPorts,  \* ports the PC Interface may be plugged into
  Unplugged,    \* no port: not plugged in, or not known
  ById,         \* a device path by id, whatever the port
  MaxAttempts,  \* serialRecoveryMaxAttempts
  MaxMoves      \* bound: plugs, drops, unreadable paths, restarts of the add-on

ASSUME RecoveryAssumption == MaxAttempts \in Nat \ {0} /\ MaxMoves \in Nat /\ Unplugged \notin SerialPorts

VARIABLES
  pci,      \* port: where it is; path: what C-Gate was pointed at; cgate: the port C-Gate
            \* names; open: the interface is running
  cni,      \* reading: an answer under way; online: the monitor's verdict;
            \* shown: the retained state
  rec,      \* attempts; portInUse; seenUp: lastUpAt >= lastAttemptAt; waited, stable:
            \* the backoff, the stable window have passed since lastAttemptAt
  moves,
  history   \* runs: attempts spent since the interface was up; restarts: of C-Gate,
            \* and plugs, since the add-on started

recVars == <<pci, cni, rec, moves, history>>

Verdict == {"up", "down"}

NoRecovery == [attempts |-> 0, portInUse |-> Unplugged, seenUp |-> FALSE, waited |-> TRUE, stable |-> TRUE]

Move == moves < MaxMoves /\ moves' = moves + 1

-----------------------------------------------------------------------------
(* The device and C-Gate *)

\* resolveSerialDevice on a configured path c: the device by its identity.
ResolvedPath(c, port) == IF c = ById \/ port = Unplugged THEN c ELSE port

\* cont-init: resolve, publish the path, point the projects at it.
Booted(path, port) ==
  [port |-> port, path |-> ResolvedPath(path, port),
   cgate |-> IF port # Unplugged THEN port ELSE path, open |-> FALSE]

RecoveryInit ==
  /\ \E path \in SerialPorts \cup {ById}, port \in SerialPorts \cup {Unplugged} : pci = Booted(path, port)
  /\ cni = [reading |-> "none", online |-> "unknown", shown |-> "unknown"]
  /\ rec = NoRecovery /\ moves = 0
  /\ history = [runs |-> 0, restarts |-> 0, plugs |-> 0]

Unplug ==
  /\ pci.port # Unplugged
  /\ pci' = [pci EXCEPT !.port = Unplugged, !.open = FALSE]
  /\ UNCHANGED <<cni, rec, moves, history>>

Plug(p) ==
  /\ Move /\ pci.port = Unplugged
  /\ pci' = [pci EXCEPT !.port = p]
  /\ history' = [history EXCEPT !.plugs = @ + 1]
  /\ UNCHANGED <<cni, rec>>

\* C-Gate opens the port its project names.
Opens ==
  /\ ~pci.open /\ pci.cgate = pci.port
  /\ pci' = [pci EXCEPT !.open = TRUE]
  /\ UNCHANGED <<cni, rec, moves, history>>

\* A fault that no replug explains.
Drops ==
  /\ Move /\ pci.open /\ pci' = [pci EXCEPT !.open = FALSE]
  /\ UNCHANGED <<cni, rec, history>>

\* The path as realpathSync sees it.
PortAt(d) == IF d.path \in {ById, d.port} THEN d.port ELSE Unplugged

-----------------------------------------------------------------------------
(* Recovery *)

\* The evidence of a renumber: the path is gone, or leads to another port.
Renumbered ==
  \/ PortAt(pci) = Unplugged
  \/ rec.portInUse # Unplugged /\ PortAt(pci) # rec.portInUse

\* Mutation: a budget is fresh as soon as the last attempt is old.
FreshWhenOld == rec.stable

\* A new outage after a stable time has a budget of its own.
FreshBudget == rec.seenUp /\ rec.stable

Spent == IF FreshBudget THEN 0 ELSE rec.attempts

\* The script: nothing without the device; else it may fail, or C-Gate restarts on the
\* port of the device.
RunScript ==
  LET tried == [rec EXCEPT !.seenUp = FALSE, !.waited = FALSE, !.stable = FALSE, !.attempts = Spent + 1]
  IN  \/ /\ pci.port = Unplugged
         /\ rec' = [tried EXCEPT !.attempts = Spent]
         /\ UNCHANGED <<pci, history>>
      \/ /\ pci.port # Unplugged
         /\ rec' = tried
         /\ history' = [history EXCEPT !.runs = @ + 1] /\ UNCHANGED pci
      \/ /\ pci.port # Unplugged
         /\ pci' = Booted(pci.path, pci.port)
         /\ rec' = [tried EXCEPT !.portInUse = PortAt(pci')]
         /\ history' = [history EXCEPT !.runs = @ + 1, !.restarts = @ + 1]

\* handleInterfaceDown, on every reading that is down.
InterfaceDown(readable) ==
  IF ~readable \/ ~Renumbered THEN UNCHANGED <<pci, rec, history>>
  ELSE IF Spent >= MaxAttempts \/ (Spent > 0 /\ ~rec.waited)
    THEN rec' = [rec EXCEPT !.attempts = Spent] /\ UNCHANGED <<pci, history>>
  ELSE RunScript

\* handleInterfaceUp, on the transition only.
InterfaceUp(readable) ==
  /\ rec' = [rec EXCEPT !.seenUp = TRUE,
                        !.portInUse = IF readable THEN PortAt(pci) ELSE Unplugged]
  /\ history' = [history EXCEPT !.runs = 0]
  /\ UNCHANGED pci

-----------------------------------------------------------------------------
(* Polls *)

\* C-Gate answers a GET of InterfaceState.
PollAnswered ==
  /\ cni.reading = "none"
  /\ cni' = [cni EXCEPT !.reading = IF pci.open THEN "up" ELSE "down"]
  /\ UNCHANGED <<pci, rec, moves, history>>

\* Mutation: recovery hears of transitions only.
ActOnTransition(readable) ==
  IF cni.reading = cni.online THEN UNCHANGED <<pci, rec, history>>
  ELSE IF cni.reading = "down" THEN InterfaceDown(readable)
  ELSE InterfaceUp(readable)

\* Recovery hears of every reading that is down, and of the transition up.
Act(readable) ==
  IF cni.reading = "down" THEN InterfaceDown(readable)
  ELSE IF cni.online # "up" THEN InterfaceUp(readable)
  ELSE UNCHANGED <<pci, rec, history>>

\* update and handleReading.
HandleReading ==
  /\ cni.reading \in Verdict
  /\ cni' = [reading |-> "none", online |-> cni.reading, shown |-> cni.reading]
  /\ \E readable \in BOOLEAN :
       /\ IF readable THEN UNCHANGED moves ELSE Move
       /\ Act(readable)

BackoffPasses == ~rec.waited /\ rec' = [rec EXCEPT !.waited = TRUE] /\ UNCHANGED <<pci, cni, moves, history>>
WindowPasses  == ~rec.stable /\ rec' = [rec EXCEPT !.stable = TRUE] /\ UNCHANGED <<pci, cni, moves, history>>

\* The add-on restarts: cont-init resolves, the bridge knows nothing.
AddonRestarts ==
  /\ Move
  /\ pci' = Booted(pci.path, pci.port)
  /\ cni' = [cni EXCEPT !.reading = "none", !.online = "unknown"]
  /\ rec' = NoRecovery
  /\ history' = [runs |-> 0, restarts |-> 0, plugs |-> 0]

RecoveryNext ==
  \/ Unplug \/ Opens \/ Drops \/ PollAnswered \/ HandleReading
  \/ BackoffPasses \/ WindowPasses \/ AddonRestarts
  \/ \E p \in SerialPorts : Plug(p)

RecoverySpec == RecoveryInit /\ [][RecoveryNext]_recVars

\* Polls are periodic, C-Gate opens a port that is there, timers run out.
RecoveryFairness ==
  /\ WF_recVars(Opens) /\ WF_recVars(PollAnswered) /\ WF_recVars(HandleReading)
  /\ WF_recVars(BackoffPasses)

-----------------------------------------------------------------------------
(* Properties *)

\* Recovery never becomes a restart loop: an outage, however long and however often
\* polled, spends no more than the budget, and C-Gate is restarted at most once for
\* each time the device was plugged in (serialDeviceRecovery.js:169-307).
RestartsBounded == history.runs <= MaxAttempts /\ history.restarts <= history.plugs

\* The device by id leads where C-Gate was last seen running, or it never was.
NoEvidence == pci.path = ById /\ rec.portInUse \in {Unplugged, pci.port}

\* A device that is plugged in again and stays is running again in the end, although
\* its return is no transition of the network: unless the budget is spent, or there is
\* no evidence of a renumber (cniNotificationManager.js:54-75, serialDeviceRecovery.js:186-196).
ReplugRecovered == []<>(pci.port = Unplugged \/ pci.open \/ rec.attempts >= MaxAttempts \/ NoEvidence)
=============================================================================
