---------------------------- MODULE ServicesProofs ----------------------------
(***************************************************************************)
(* Proofs about components whose modules share no names, each for every    *)
(* value of its constants: the recovery of the serial interface, the       *)
(* initialisation, the label file, the live event log, the delivery of     *)
(* commands over the pool, and the discovery of entities.                  *)
(***************************************************************************)
EXTENDS InterfaceRecovery, Initialisation, LabelFile, EventStream, CommandDelivery,
        EntityDiscovery, FiniteSetTheorems, TLAPS

-----------------------------------------------------------------------------
(* Recovery of the serial interface *)

RecoveryTypeOK ==
  /\ pci \in [port : SerialPorts \cup {Unplugged}, path : SerialPorts \cup {ById},
              cgate : SerialPorts \cup {ById}, open : BOOLEAN]
  /\ rec \in [attempts : Nat, portInUse : SerialPorts \cup {Unplugged}, seenUp : BOOLEAN,
              waited : BOOLEAN, stable : BOOLEAN]
  /\ history \in [runs : Nat, restarts : Nat, plugs : Nat]

\* The attempts counted are never fewer than the runs of the script in this outage, and
\* a budget that may start afresh has had none.
BudgetExact ==
  /\ history.runs <= rec.attempts /\ rec.attempts <= MaxAttempts
  /\ rec.seenUp => history.runs = 0

\* A device that is plugged in shows no evidence of a renumber, unless a plug is left
\* that no restart has answered yet.
EvidenceNeedsPlug ==
  /\ history.restarts <= history.plugs
  /\ history.restarts < history.plugs \/ pci.port = Unplugged \/ ~Renumbered

RecoveryInv == RecoveryTypeOK /\ BudgetExact /\ EvidenceNeedsPlug

\* Booting points everything at a device that is there.
LEMMA BootedFacts ==
  ASSUME NEW path \in SerialPorts \cup {ById}, NEW port \in SerialPorts \cup {Unplugged}
  PROVE  /\ Booted(path, port) \in [port : SerialPorts \cup {Unplugged}, path : SerialPorts \cup {ById},
                                    cgate : SerialPorts \cup {ById}, open : BOOLEAN]
         /\ Booted(path, port).port = port
         /\ port # Unplugged => PortAt(Booted(path, port)) = port
BY DEF Booted, ResolvedPath, PortAt

\* At the start no script has run.
LEMMA RecoveryInitInv == RecoveryInit => RecoveryInv
<1> SUFFICES ASSUME RecoveryInit PROVE RecoveryInv
  OBVIOUS
<1>1. PICK path \in SerialPorts \cup {ById}, port \in SerialPorts \cup {Unplugged} :
         pci = Booted(path, port)
  BY DEF RecoveryInit
<1>2. /\ rec = NoRecovery /\ history = [runs |-> 0, restarts |-> 0, plugs |-> 0]
  BY DEF RecoveryInit
<1>3. RecoveryTypeOK
  BY <1>1, <1>2, BootedFacts DEF RecoveryTypeOK, NoRecovery
<1>4. BudgetExact
  BY <1>2, RecoveryAssumption DEF BudgetExact, NoRecovery
<1>5. EvidenceNeedsPlug
  BY <1>1, <1>2, BootedFacts DEF EvidenceNeedsPlug, NoRecovery, Renumbered
<1>6. QED
  BY <1>3, <1>4, <1>5 DEF RecoveryInv

\* One run of the script, in an outage with budget left and evidence of a renumber.
LEMMA ScriptInv ==
  ASSUME RecoveryInv, Renumbered, Spent < MaxAttempts, RunScript
  PROVE  RecoveryInv'
<1> DEFINE tried == [rec EXCEPT !.seenUp = FALSE, !.waited = FALSE, !.stable = FALSE,
                                !.attempts = Spent + 1]
<1>1. /\ RecoveryTypeOK /\ Spent \in Nat /\ history.runs <= Spent
      /\ history.restarts <= history.plugs
      /\ pci.port # Unplugged => history.restarts < history.plugs
  BY DEF RecoveryInv, BudgetExact, EvidenceNeedsPlug, RecoveryTypeOK, Spent, FreshBudget
<1>types. tried \in [attempts : Nat, portInUse : SerialPorts \cup {Unplugged}, seenUp : BOOLEAN,
                waited : BOOLEAN, stable : BOOLEAN]
  <2>1. rec \in [attempts : Nat, portInUse : SerialPorts \cup {Unplugged}, seenUp : BOOLEAN,
                 waited : BOOLEAN, stable : BOOLEAN]
    BY <1>1 DEF RecoveryTypeOK
  <2>2. Spent + 1 \in Nat
    BY <1>1
  <2>3. QED
    BY <2>1, <2>2
<1>2. CASE /\ pci.port = Unplugged /\ rec' = [tried EXCEPT !.attempts = Spent]
           /\ UNCHANGED <<pci, history>>
  <2>1. rec' = [rec EXCEPT !.seenUp = FALSE, !.waited = FALSE, !.stable = FALSE, !.attempts = Spent]
    BY <1>1, <1>2 DEF RecoveryTypeOK
  <2>2. RecoveryTypeOK'
    BY <1>1, <1>2, <2>1 DEF RecoveryTypeOK
  <2>3. BudgetExact' /\ EvidenceNeedsPlug'
    BY <1>1, <1>2, <2>1, RecoveryAssumption DEF RecoveryTypeOK, BudgetExact, EvidenceNeedsPlug
  <2>4. QED
    BY <2>2, <2>3 DEF RecoveryInv
<1>3. CASE /\ pci.port # Unplugged /\ rec' = tried
           /\ history' = [history EXCEPT !.runs = @ + 1] /\ UNCHANGED pci
  <2>1. RecoveryTypeOK'
    <3>1. rec' \in [attempts : Nat, portInUse : SerialPorts \cup {Unplugged}, seenUp : BOOLEAN,
                    waited : BOOLEAN, stable : BOOLEAN]
      BY <1>3, <1>types
    <3>2. history' \in [runs : Nat, restarts : Nat, plugs : Nat]
      BY <1>1, <1>3 DEF RecoveryTypeOK
    <3>3. QED
      BY <1>1, <1>3, <3>1, <3>2 DEF RecoveryTypeOK
  <2>2. BudgetExact'
    BY <1>1, <1>3, RecoveryAssumption DEF RecoveryTypeOK, BudgetExact
  <2>3. EvidenceNeedsPlug'
    BY <1>1, <1>3 DEF RecoveryTypeOK, EvidenceNeedsPlug
  <2>4. QED
    BY <2>1, <2>2, <2>3 DEF RecoveryInv
<1>4. CASE /\ pci.port # Unplugged /\ pci' = Booted(pci.path, pci.port)
           /\ rec' = [tried EXCEPT !.portInUse = PortAt(pci')]
           /\ history' = [history EXCEPT !.runs = @ + 1, !.restarts = @ + 1]
  <2>1. pci.path \in SerialPorts \cup {ById} /\ pci.port \in SerialPorts \cup {Unplugged}
    BY <1>1 DEF RecoveryTypeOK
  <2>2. PortAt(pci') = pci.port /\ pci'.port = pci.port
    BY <1>4, <2>1, BootedFacts
  <2>3. /\ rec'.portInUse = pci.port /\ rec'.seenUp = FALSE /\ rec'.attempts = Spent + 1
        /\ history'.runs = history.runs + 1 /\ history'.restarts = history.restarts + 1
        /\ history'.plugs = history.plugs
    BY <1>1, <1>4, <2>2 DEF RecoveryTypeOK
  <2>4. RecoveryTypeOK'
    <3>1. history' \in [runs : Nat, restarts : Nat, plugs : Nat]
      <4>1. history \in [runs : Nat, restarts : Nat, plugs : Nat]
        BY <1>1 DEF RecoveryTypeOK
      <4>2. history' = [history EXCEPT !.runs = @ + 1, !.restarts = @ + 1]
        BY <1>4
      <4>3. history.runs + 1 \in Nat /\ history.restarts + 1 \in Nat
        BY <4>1
      <4>4. [history EXCEPT !.runs = history.runs + 1] \in [runs : Nat, restarts : Nat, plugs : Nat]
        BY <4>1, <4>3
      <4>5. QED
        BY <4>1, <4>2, <4>3, <4>4
    <3>2. rec' = [tried EXCEPT !.portInUse = pci.port]
      BY <1>4, <2>2
    <3> HIDE DEF tried
    <3>3. rec' \in [attempts : Nat, portInUse : SerialPorts \cup {Unplugged}, seenUp : BOOLEAN,
                    waited : BOOLEAN, stable : BOOLEAN]
      BY <1>types, <2>1, <3>2
    <3>4. pci' \in [port : SerialPorts \cup {Unplugged}, path : SerialPorts \cup {ById},
                    cgate : SerialPorts \cup {ById}, open : BOOLEAN]
      BY <1>4, <2>1, BootedFacts
    <3>5. QED
      BY <3>1, <3>3, <3>4 DEF RecoveryTypeOK
  <2>5. BudgetExact'
    BY <1>1, <2>3, RecoveryAssumption DEF BudgetExact, RecoveryTypeOK
  <2>6. EvidenceNeedsPlug'
    BY <1>1, <1>4, <2>2, <2>3, RecoveryAssumption DEF EvidenceNeedsPlug, Renumbered, RecoveryTypeOK
  <2>7. QED
    BY <2>4, <2>5, <2>6 DEF RecoveryInv
<1>5. QED
  BY <1>2, <1>3, <1>4 DEF RunScript

\* A reading of the interface's state keeps the invariant.
LEMMA ReadingInv == RecoveryInv /\ HandleReading => RecoveryInv'
<1> SUFFICES ASSUME RecoveryInv, NEW readable \in BOOLEAN, Act(readable) PROVE RecoveryInv'
  BY DEF HandleReading
<1>1. RecoveryTypeOK
  BY DEF RecoveryInv
<1>2. CASE UNCHANGED <<pci, rec, history>>
  BY <1>2 DEF RecoveryInv, RecoveryTypeOK, BudgetExact, EvidenceNeedsPlug, Renumbered
<1>3. CASE InterfaceDown(readable)
  <2>1. CASE rec' = [rec EXCEPT !.attempts = Spent] /\ UNCHANGED <<pci, history>>
    BY <1>1, <2>1, RecoveryAssumption
       DEF RecoveryInv, RecoveryTypeOK, BudgetExact, EvidenceNeedsPlug, Renumbered, Spent, FreshBudget
  <2>2. CASE Renumbered /\ ~(Spent >= MaxAttempts) /\ RunScript
    <3>1. Spent \in Nat
      BY <1>1 DEF Spent, RecoveryTypeOK
    <3>2. QED
      BY <2>2, <3>1, ScriptInv, RecoveryAssumption
  <2>3. QED
    BY <1>2, <1>3, <2>1, <2>2 DEF InterfaceDown
<1>4. CASE InterfaceUp(readable)
  <2>1. PortAt(pci) \in SerialPorts \cup {Unplugged}
    BY <1>1 DEF RecoveryTypeOK, PortAt
  <2>2. RecoveryTypeOK'
    BY <1>1, <1>4, <2>1 DEF InterfaceUp, RecoveryTypeOK
  <2>3. BudgetExact'
    BY <1>1, <1>4 DEF InterfaceUp, RecoveryInv, RecoveryTypeOK, BudgetExact
  <2>4. EvidenceNeedsPlug'
    BY <1>1, <1>4 DEF InterfaceUp, RecoveryInv, RecoveryTypeOK, EvidenceNeedsPlug, Renumbered
  <2>5. QED
    BY <2>2, <2>3, <2>4 DEF RecoveryInv
<1>5. QED
  BY <1>2, <1>3, <1>4 DEF Act

\* So does every step.
LEMMA RecoveryNextInv == RecoveryInv /\ [RecoveryNext]_recVars => RecoveryInv'
<1> SUFFICES ASSUME RecoveryInv, [RecoveryNext]_recVars PROVE RecoveryInv'
  OBVIOUS
<1> USE DEF RecoveryInv
<1>1. CASE Unplug
  BY <1>1 DEF Unplug, RecoveryTypeOK, BudgetExact, EvidenceNeedsPlug
<1>2. ASSUME NEW p \in SerialPorts, Plug(p) PROVE RecoveryInv'
  BY <1>2 DEF Plug, RecoveryTypeOK, BudgetExact, EvidenceNeedsPlug
<1>3. CASE Opens \/ Drops
  BY <1>3 DEF Opens, Drops, RecoveryTypeOK, BudgetExact, EvidenceNeedsPlug, Renumbered, PortAt
<1>4. CASE PollAnswered \/ UNCHANGED recVars
  BY <1>4 DEF PollAnswered, recVars, RecoveryTypeOK, BudgetExact, EvidenceNeedsPlug, Renumbered
<1>5. CASE HandleReading
  BY <1>5, ReadingInv
<1>6. CASE BackoffPasses \/ WindowPasses
  BY <1>6 DEF BackoffPasses, WindowPasses, RecoveryTypeOK, BudgetExact, EvidenceNeedsPlug, Renumbered
<1>7. CASE AddonRestarts
  <2>1. pci.path \in SerialPorts \cup {ById} /\ pci.port \in SerialPorts \cup {Unplugged}
    BY DEF RecoveryTypeOK
  <2>2. /\ pci' = Booted(pci.path, pci.port) /\ rec' = NoRecovery
        /\ history' = [runs |-> 0, restarts |-> 0, plugs |-> 0]
    BY <1>7 DEF AddonRestarts
  <2>3. RecoveryTypeOK'
    BY <2>1, <2>2, BootedFacts DEF RecoveryTypeOK, NoRecovery
  <2>4. BudgetExact' /\ EvidenceNeedsPlug'
    BY <2>1, <2>2, BootedFacts, RecoveryAssumption
       DEF BudgetExact, EvidenceNeedsPlug, NoRecovery, Renumbered
  <2>5. QED
    BY <2>3, <2>4
<1>8. QED
  BY <1>1, <1>2, <1>3, <1>4, <1>5, <1>6, <1>7 DEF RecoveryNext

\* Recovery never becomes a restart loop, whatever the budget and the ports: an outage
\* spends no more than the budget, however often it is polled, and C-Gate is restarted
\* at most once for each time the device was plugged in (serialDeviceRecovery.js:169-307).
THEOREM RecoveryBounded == RecoverySpec => []RestartsBounded
<1>1. RecoverySpec => []RecoveryInv
  BY RecoveryInitInv, RecoveryNextInv, PTL DEF RecoverySpec
<1>2. RecoveryInv => RestartsBounded
  BY RecoveryAssumption
     DEF RecoveryInv, RecoveryTypeOK, BudgetExact, EvidenceNeedsPlug, RestartsBounded
<1>3. QED
  BY <1>1, <1>2, PTL

-----------------------------------------------------------------------------
(* Initialisation *)

\* Every step serves the networks.
LEMMA ServicePreserves == NetworksServed /\ [ServiceNext]_serviceVars => NetworksServed'
<1> SUFFICES ASSUME NetworksServed, [ServiceNext]_serviceVars PROVE NetworksServed'
  OBVIOUS
<1> USE DEF NetworksServed, Resolved, Monitorable
\* The networks that handleAllConnected goes on with are the ones known afterwards.
<1>1. ASSUME NEW nets, NEW asking, Continue(nets, asking), known' = nets,
             UNCHANGED <<configured, there>>
      PROVE  NetworksServed'
  BY <1>1 DEF Continue, Schedule
<1>2. ASSUME NEW c, NEW asking, DiscoveryEnds(c, asking), UNCHANGED <<configured, there>>
      PROVE  NetworksServed'
  BY <1>1, <1>2 DEF DiscoveryEnds
<1>3. ASSUME NEW c \in Calls, AllConnected(c) PROVE NetworksServed'
  <2>1. CASE configured # {}
    BY <1>1, <1>3, <2>1 DEF AllConnected
  <2>2. CASE configured = {}
    BY <1>3, <2>2 DEF AllConnected
  <2>3. QED
    BY <2>1, <2>2
<1>4. ASSUME NEW c \in Calls, DiscoveryTimesOut(c) PROVE NetworksServed'
  BY <1>2, <1>4 DEF DiscoveryTimesOut
<1>5. CASE OtherError
  BY <1>2, <1>5 DEF OtherError
<1>6. CASE PeriodsReloaded
  BY <1>6 DEF PeriodsReloaded, Schedule
<1>7. ASSUME NEW n \in Networks, NetworkNamed(n) PROVE NetworksServed'
  BY <1>7 DEF NetworkNamed
<1>8. ASSUME NEW p \in Pairs, PollFires(p) \/ LevelsAnswered(p) PROVE NetworksServed'
  BY <1>8 DEF PollFires, LevelsAnswered
<1>9. ASSUME NEW p \in Pairs, NotThere(p) PROVE NetworksServed'
  <2>1. p \notin there /\ UNCHANGED <<configured, there>>
    BY <1>9 DEF NotThere
  <2>2. CASE \E c \in handler : DiscoveryEnds(c, asked \ {p})
    BY <1>2, <2>1, <2>2
  <2>3. CASE StopPoll(p) /\ UNCHANGED <<collected, handler, known, monitored, discovery>>
    BY <2>1, <2>3 DEF StopPoll
  <2>4. QED
    BY <1>9, <2>2, <2>3 DEF NotThere
<1>10. CASE UNCHANGED serviceVars
  BY <1>10 DEF serviceVars
<1>11. QED
  BY <1>3, <1>4, <1>5, <1>6, <1>7, <1>8, <1>9, <1>10 DEF ServiceNext

\* For any networks, applications and number of overlapping calls, every network that
\* was resolved last is polled for what C-Gate has of it and monitored, however the
\* discovery ended: by its time, an error, or the answer to a poll
\* (bridgeInitializationService.js:82-165, 299-381, 561-579).
THEOREM NetworksAreServed == ServiceSpec => []NetworksServed
<1>1. ServiceInit => NetworksServed
  BY DEF ServiceInit, NetworksServed
<1>2. QED
  BY <1>1, ServicePreserves, PTL DEF ServiceSpec

-----------------------------------------------------------------------------
(* The label file *)

LabelTypeOK ==
  /\ file \in Contents \cup {Missing, Broken}
  /\ memory \in Contents /\ announced \in Contents
  /\ watch \in [on : BOOLEAN, event : BOOLEAN, grace : BOOLEAN, debounce : BOOLEAN,
                retry : BOOLEAN, retried : BOOLEAN, untold : BOOLEAN]
  /\ unheard \in BOOLEAN /\ edits \in Nat

LabelInv == LabelTypeOK /\ LabelsFollowFile

\* A file without labels is a file.
LEMMA BlankType == Blank \in Contents
BY ExtrasAssumption DEF Blank, Contents

\* What load() leaves in memory is what a readable file says.
LEMMA AtStartFacts ==
  ASSUME NEW f \in Contents \cup {Missing, Broken}
  PROVE  AtStart(f) \in Contents /\ (Readable(f) => Holds(AtStart(f), f))
BY BlankType DEF AtStart, Readable, Holds

\* Setting one label keeps the type, and what a file says that has no name for it.
LEMMA OneLabelFacts ==
  ASSUME NEW m \in Contents, NEW k \in LabelKeys, NEW name \in LabelNames \cup {Missing}
  PROVE  /\ [m EXCEPT !.labels[k] = name] \in Contents
         /\ [m.labels EXCEPT ![k] = name] \in [LabelKeys -> LabelNames \cup {Missing}]
         /\ \A f : Holds(m, f) /\ m.labels[k] = Missing => Holds([m EXCEPT !.labels[k] = name], f)
<1> DEFINE n == [m EXCEPT !.labels[k] = name]
<1>1. m.labels \in [LabelKeys -> LabelNames \cup {Missing}] /\ m.extras \in Extras
  BY DEF Contents
<1>2. [m.labels EXCEPT ![k] = name] \in [LabelKeys -> LabelNames \cup {Missing}]
  BY <1>1
<1>3. n.labels = [m.labels EXCEPT ![k] = name] /\ n.extras = m.extras
  BY DEF Contents
<1>4. n \in Contents
  <2>1. n = [m EXCEPT !.labels = [m.labels EXCEPT ![k] = name]]
    BY DEF Contents
  <2>2. QED
    BY <1>2, <2>1 DEF Contents
<1>5. ASSUME NEW f, Holds(m, f), m.labels[k] = Missing PROVE Holds(n, f)
  BY <1>1, <1>3, <1>5 DEF Holds
<1>6. QED
  BY <1>2, <1>4, <1>5

\* A save leaves the file, memory and discovery with the same contents; a save that
\* fails leaves the file as it was or unreadable.
LEMMA SaveInv ==
  ASSUME LabelInv, NEW new \in [LabelKeys -> LabelNames \cup {Missing}],
         NEW given \in Extras \cup {Missing}, Edit, Save(new, given) \/ SaveFails
  PROVE  LabelInv'
<1>1. LabelTypeOK /\ edits' \in Nat
  BY DEF LabelInv, LabelTypeOK, Edit
<1>2. CASE Save(new, given)
  <2>1. Completed(new, given) \in Contents
    BY <1>1 DEF Completed, LabelTypeOK, Contents
  <2>2. /\ file' = Completed(new, given) /\ memory' = file' /\ announced' = file'
        /\ watch' = [watch EXCEPT !.event = @ \/ watch.on, !.grace = TRUE, !.untold = FALSE]
        /\ unheard' = FALSE
    BY <1>2 DEF Save
  <2>3. LabelTypeOK'
    BY <1>1, <2>1, <2>2 DEF LabelTypeOK
  <2>4. LabelsFollowFile'
    BY <2>2 DEF LabelsFollowFile, Holds
  <2>5. QED
    BY <2>3, <2>4 DEF LabelInv
<1>3. CASE SaveFails
  <2>1. /\ file' \in {file, Broken} /\ unheard' = (unheard \/ (~watch.on /\ file' # file))
        /\ watch' = [watch EXCEPT !.event = @ \/ watch.on, !.grace = TRUE]
        /\ UNCHANGED <<memory, announced>>
    BY <1>3 DEF SaveFails
  <2>2. LabelTypeOK'
    BY <1>1, <2>1 DEF LabelTypeOK
  <2>3. watch'.untold = watch.untold /\ watch'.debounce = watch.debounce /\ watch'.retry = watch.retry
        /\ (watch.event => watch'.event)
    BY <1>1, <2>1 DEF LabelTypeOK
  <2>4. LabelsFollowFile'
    BY <2>1, <2>3 DEF LabelInv, LabelsFollowFile, Readable
  <2>5. QED
    BY <2>2, <2>4 DEF LabelInv
<1>4. QED
  BY <1>2, <1>3

\* A read of the file, by either timer.
LEMMA ReloadInv == LabelInv /\ (DebounceFires \/ RetryFires) => LabelInv'
<1> SUFFICES ASSUME LabelInv, DebounceFires \/ RetryFires PROVE LabelInv'
  OBVIOUS
<1>1. LabelTypeOK
  BY DEF LabelInv
<1>2. CASE Readable(file)
  <2>1. /\ memory' = file /\ announced' = file /\ unheard' = FALSE
        /\ UNCHANGED <<file, edits>>
    BY <1>2 DEF DebounceFires, RetryFires, Reload
  <2>2. watch' \in [on : BOOLEAN, event : BOOLEAN, grace : BOOLEAN, debounce : BOOLEAN,
                    retry : BOOLEAN, retried : BOOLEAN, untold : BOOLEAN]
    BY <1>1, <1>2 DEF DebounceFires, RetryFires, Reload, LabelTypeOK
  <2>3. QED
    BY <1>1, <1>2, <2>1, <2>2 DEF LabelInv, LabelTypeOK, LabelsFollowFile, Readable, Holds
<1>3. CASE ~Readable(file)
  <2>1. UNCHANGED <<file, edits, memory, announced, unheard>> /\ watch'.untold = watch.untold
    BY <1>1, <1>3 DEF DebounceFires, RetryFires, Reload, LabelTypeOK
  <2>2. watch' \in [on : BOOLEAN, event : BOOLEAN, grace : BOOLEAN, debounce : BOOLEAN,
                    retry : BOOLEAN, retried : BOOLEAN, untold : BOOLEAN]
    BY <1>1, <1>3 DEF DebounceFires, RetryFires, Reload, LabelTypeOK
  <2>3. QED
    BY <1>1, <1>3, <2>1, <2>2 DEF LabelInv, LabelTypeOK, LabelsFollowFile
<1>4. QED
  BY <1>2, <1>3

\* Every step keeps the invariant.
LEMMA LabelNextInv == LabelInv /\ [LabelNext]_labelVars => LabelInv'
<1> SUFFICES ASSUME LabelInv, [LabelNext]_labelVars PROVE LabelInv'
  OBVIOUS
<1>1. LabelTypeOK /\ LabelsFollowFile
  BY DEF LabelInv
<1>0. AtStart(file) \in Contents /\ (Readable(file) => Holds(AtStart(file), file))
  BY <1>1, AtStartFacts DEF LabelTypeOK
<1>2. CASE SettingsReloaded
  <2>1. /\ memory' = AtStart(file) /\ unheard' = FALSE /\ UNCHANGED <<file, announced>>
        /\ watch' = [watch EXCEPT !.untold = TRUE] /\ edits' \in Nat
    BY <1>1, <1>2 DEF SettingsReloaded, Edit, LabelTypeOK
  <2>2. watch'.untold /\ LabelTypeOK'
    BY <1>0, <1>1, <2>1 DEF LabelTypeOK
  <2>3. LabelsFollowFile'
    BY <1>0, <2>1, <2>2 DEF LabelsFollowFile
  <2>4. QED
    BY <2>2, <2>3 DEF LabelInv
<1>3. CASE LoaderRestarts
  <2>1. /\ memory' = AtStart(file) /\ announced' = memory' /\ UNCHANGED file
        /\ watch' = Quiet /\ unheard' = FALSE /\ edits' \in Nat
    BY <1>1, <1>3 DEF LoaderRestarts, Edit, LabelTypeOK
  <2>2. LabelTypeOK'
    BY <1>0, <1>1, <2>1 DEF LabelTypeOK, Quiet
  <2>3. LabelsFollowFile'
    BY <1>0, <2>1 DEF LabelsFollowFile
  <2>4. QED
    BY <2>2, <2>3 DEF LabelInv
<1>4. CASE StartWatching \/ GraceEnds
  BY <1>1, <1>4 DEF StartWatching, GraceEnds, LabelInv, LabelTypeOK, LabelsFollowFile
<1>5. CASE WatchEvent
  BY <1>1, <1>5 DEF WatchEvent, LabelInv, LabelTypeOK, LabelsFollowFile
<1>6. CASE DebounceFires \/ RetryFires
  BY <1>6, ReloadInv
<1>7. ASSUME NEW f \in Contents \cup {Missing, Broken}, EditOnDisk(f) PROVE LabelInv'
  <2>1. /\ file' = f /\ UNCHANGED <<memory, announced>> /\ edits' \in Nat
        /\ \/ watch' = [watch EXCEPT !.event = TRUE] /\ UNCHANGED unheard
           \/ unheard' = TRUE /\ UNCHANGED watch
    BY <1>1, <1>7 DEF EditOnDisk, Edit, LabelTypeOK
  <2>2. LabelTypeOK' /\ watch'.untold = watch.untold /\ (watch'.event \/ unheard')
    BY <1>1, <2>1 DEF LabelTypeOK
  <2>3. LabelsFollowFile'
    BY <1>1, <2>1, <2>2 DEF LabelsFollowFile
  <2>4. QED
    BY <2>2, <2>3 DEF LabelInv
<1>8. ASSUME NEW k \in LabelKeys, NEW name \in LabelNames, NameLearned(k, name) PROVE LabelInv'
  <2>1. /\ announced.labels[k] = Missing /\ edits' \in Nat
        /\ memory' = IF watch.untold THEN memory ELSE [memory EXCEPT !.labels[k] = name]
        /\ announced' = [announced EXCEPT !.labels[k] = name]
        /\ UNCHANGED <<file, watch, unheard>>
    BY <1>1, <1>8 DEF NameLearned, Edit, LabelTypeOK
  <2>2. LabelTypeOK'
    BY <1>1, <2>1, OneLabelFacts DEF LabelTypeOK
  <2>3. CASE watch.untold
    BY <1>1, <2>1, <2>2, <2>3 DEF LabelInv, LabelsFollowFile
  <2>4. CASE ~watch.untold
    <3>1. announced = memory /\ announced' = memory' /\ memory.labels[k] = Missing
      BY <1>1, <2>1, <2>4 DEF LabelsFollowFile
    <3>2. Holds(memory, file) => Holds(memory', file)
      BY <1>1, <2>1, <2>4, <3>1, OneLabelFacts DEF LabelTypeOK
    <3>3. QED
      BY <1>1, <2>1, <2>2, <3>1, <3>2 DEF LabelInv, LabelsFollowFile
  <2>5. QED
    BY <2>3, <2>4
<1>9. ASSUME NEW k \in LabelKeys, NEW name \in LabelNames \cup {Missing}, PatchLabels(k, name)
      PROVE  LabelInv'
  <2>1. [memory.labels EXCEPT ![k] = name] \in [LabelKeys -> LabelNames \cup {Missing}]
    BY <1>1, OneLabelFacts DEF LabelTypeOK
  <2>2. QED
    BY <1>9, <2>1, SaveInv DEF PatchLabels
<1>10. ASSUME NEW c \in Contents, NEW given \in Extras \cup {Missing}, PutLabels(c.labels, given)
       PROVE  LabelInv'
  <2>1. c.labels \in [LabelKeys -> LabelNames \cup {Missing}]
    BY DEF Contents
  <2>2. QED
    BY <1>10, <2>1, SaveInv DEF PutLabels
<1>11. ASSUME NEW c \in Contents, NEW merge \in BOOLEAN, ImportLabels(c.labels, merge)
       PROVE  LabelInv'
  <2> DEFINE merged == IF merge THEN [k \in LabelKeys |-> IF c.labels[k] # Missing THEN c.labels[k]
                                                           ELSE memory.labels[k]]
                       ELSE c.labels
  <2>1. merged \in [LabelKeys -> LabelNames \cup {Missing}]
    BY <1>1 DEF LabelTypeOK, Contents
  <2>2. Edit /\ (Save(merged, Missing) \/ SaveFails)
    BY <1>11 DEF ImportLabels
  <2> HIDE DEF merged
  <2>3. QED
    BY <2>1, <2>2, SaveInv
<1>12. CASE UNCHANGED labelVars
  BY <1>1, <1>12 DEF labelVars, LabelInv, LabelTypeOK, LabelsFollowFile
<1>13. QED
  BY <1>2, <1>3, <1>4, <1>5, <1>6, <1>7, <1>8, <1>9, <1>10, <1>11, <1>12 DEF LabelNext

\* So it always holds.
LEMMA LabelInvariant == LabelSpec => []LabelInv
<1>1. LabelInit => LabelInv
  <2> SUFFICES ASSUME LabelInit PROVE LabelInv
    OBVIOUS
  <2>1. LabelTypeOK
    BY BlankType DEF LabelInit, LabelTypeOK, Quiet
  <2>2. LabelsFollowFile
    BY DEF LabelInit, LabelsFollowFile, Holds, Readable
  <2>3. QED
    BY <2>1, <2>2 DEF LabelInv
<1>2. QED
  BY <1>1, LabelNextInv, PTL DEF LabelSpec

\* Once the watcher is quiet the loader has what the file says, and discovery what the
\* loader has, for any labels, sections and number of edits, backups, saves and reloads
\* (labelLoader.js:113-176, 181-213, 318-343).
THEOREM LabelsAreFollowed == LabelSpec => []LabelsFollowFile
<1>1. LabelInv => LabelsFollowFile
  BY DEF LabelInv
<1>2. QED
  BY <1>1, LabelInvariant, PTL

-----------------------------------------------------------------------------
(* The live event log *)

\* The ring holds the newest entries: the one at place i from the head is the i-th of
\* the last ring.count entries.
RingOf(r, entries) ==
  /\ r \in [slots : [0..(LogSize - 1) -> Nat], head : 0..(LogSize - 1), count : Nat]
  /\ r.count = IF entries < LogSize THEN entries ELSE LogSize
  /\ \A i \in 1..r.count : r.slots[(r.head + i - 1) % LogSize] = entries - r.count + i

StreamTypeOK ==
  /\ logged \in Nat
  /\ socket \in [Browsers -> {"none", "open", "dead", "late"}]
  /\ shown \in [Browsers -> [from : Nat, got : Seq(Nat)]]
  /\ streams \in SUBSET Browsers
  /\ server \in [phase : {"off", "binding", "listening", "failed", "closed"}, closing : BOOLEAN]

\* A stream has a socket, and begins no later than with the next entry; while its
\* browser is there it has had every entry since.
StreamsRun ==
  \A b \in streams : /\ socket[b] # "none" /\ 1 <= shown[b].from /\ shown[b].from <= logged + 1
                     /\ socket[b] = "open" => shown[b].got = Run(shown[b].from, logged)

\* Streams and listeners go together, within the cap, and not past the server.
StreamsKept ==
  /\ listeners = streams /\ IsFiniteSet(streams) /\ Cardinality(streams) <= MaxStreams
  /\ server.phase = "closed" => listeners = {}

StreamInv == StreamTypeOK /\ RingOf(ring, logged) /\ StreamsRun /\ StreamsKept

\* Places of the ring: taken modulo its size, and no two alike.
LEMMA RingPlace ==
  ASSUME NEW h \in 0..(LogSize - 1), NEW i \in 0..LogSize
  PROVE  (h + i) % LogSize = IF h + i < LogSize THEN h + i ELSE h + i - LogSize
<1>1. LogSize \in Nat \ {0}
  BY StreamAssumption
<1>2. CASE h + i < LogSize
  BY <1>1, <1>2
<1>3. CASE h + i >= LogSize
  <2>1. h + i \in LogSize..(2 * LogSize - 1)
    BY <1>1, <1>3
  <2>2. QED
    BY <1>1, <2>1
<1>4. QED
  BY <1>1, <1>2, <1>3

\* Storing an entry keeps the newest entries.  While the ring has room the entry goes
\* behind the last one.
LEMMA StoredWithRoom ==
  ASSUME NEW h \in 0..(LogSize - 1), NEW c \in Nat, c < LogSize, NEW l \in Nat,
         NEW slots \in [0..(LogSize - 1) -> Nat],
         \A i \in 1..c : slots[(h + i - 1) % LogSize] = l - c + i
  PROVE  LET stored == [slots EXCEPT ![(h + c) % LogSize] = l + 1]
         IN  /\ stored \in [0..(LogSize - 1) -> Nat]
             /\ \A i \in 1..(c + 1) : stored[(h + i - 1) % LogSize] = (l + 1) - (c + 1) + i
<1> DEFINE k == (h + c) % LogSize
           stored == [slots EXCEPT ![k] = l + 1]
<1>1. LogSize \in Nat \ {0}
  BY StreamAssumption
<1>2. k = (IF h + c < LogSize THEN h + c ELSE h + c - LogSize)
  BY <1>1, RingPlace
<1>3. k \in 0..(LogSize - 1)
  <2> HIDE DEF k
  <2>1. QED
    BY <1>1, <1>2
<1>4. stored \in [0..(LogSize - 1) -> Nat]
  BY <1>1, <1>3
<1>5. ASSUME NEW i \in 1..(c + 1)
      PROVE  stored[(h + i - 1) % LogSize] = (l + 1) - (c + 1) + i
  <2> DEFINE p == (h + i - 1) % LogSize
  <2>1. i - 1 \in 0..LogSize /\ h + (i - 1) = h + i - 1
    BY <1>1
  <2>2. p = (IF h + i - 1 < LogSize THEN h + i - 1 ELSE h + i - 1 - LogSize)
    BY <1>1, <2>1, RingPlace
  <2>3. CASE i = c + 1
    <3>1. p = k
      BY <2>3, <2>1
    <3>2. stored[k] = l + 1
      BY <1>3
    <3>3. QED
      BY <2>3, <3>1, <3>2
  <2>4. CASE i # c + 1
    <3>1. i \in 1..c
      BY <2>4
    <3>2. p # k /\ p \in 0..(LogSize - 1)
      <4> HIDE DEF p, k
      <4>1. QED
        BY <1>1, <1>2, <2>2, <3>1
    <3>3. stored[p] = slots[p]
      BY <3>2
    <3>4. QED
      BY <3>1, <3>3
  <2>5. QED
    BY <2>3, <2>4
<1>6. QED
  BY <1>4, <1>5

\* The slots of a ring that is full, with the last of l entries before the place h.
FullRing(slots, h, l) ==
  /\ h \in 0..(LogSize - 1) /\ slots \in [0..(LogSize - 1) -> Nat]
  /\ \A i \in 1..LogSize : slots[(h + i - 1) % LogSize] = l - LogSize + i

\* A full ring overwrites its oldest entry, and begins at the next.
LEMMA StoredWhenFull ==
  ASSUME NEW h, NEW l \in Nat, NEW slots, FullRing(slots, h, l)
  PROVE  FullRing([slots EXCEPT ![h] = l + 1], (h + 1) % LogSize, l + 1)
<1> DEFINE j == (h + 1) % LogSize
           stored == [slots EXCEPT ![h] = l + 1]
<1> h \in 0..(LogSize - 1)
  BY DEF FullRing
<1> slots \in [0..(LogSize - 1) -> Nat]
  BY DEF FullRing
<1>0. \A i \in 1..LogSize : slots[(h + i - 1) % LogSize] = l - LogSize + i
  BY DEF FullRing
<1>1. LogSize \in Nat \ {0}
  BY StreamAssumption
<1>2. j = (IF h + 1 < LogSize THEN h + 1 ELSE 0)
  <2>1. 1 \in 0..LogSize
    BY <1>1
  <2>2. j = (IF h + 1 < LogSize THEN h + 1 ELSE h + 1 - LogSize)
    BY <2>1, RingPlace
  <2>3. QED
    BY <1>1, <2>2
<1>3. j \in 0..(LogSize - 1)
  <2> HIDE DEF j
  <2>1. QED
    BY <1>1, <1>2
<1>4. stored \in [0..(LogSize - 1) -> Nat]
  BY <1>1
<1>5. ASSUME NEW i \in 1..LogSize
      PROVE  stored[(j + i - 1) % LogSize] = (l + 1) - LogSize + i
  <2> DEFINE p == (j + i - 1) % LogSize
  <2>1. i - 1 \in 0..LogSize /\ j + (i - 1) = j + i - 1
    <3> HIDE DEF j
    <3>1. QED
      BY <1>1, <1>3
  <2>2. p = (IF j + i - 1 < LogSize THEN j + i - 1 ELSE j + i - 1 - LogSize)
    <3> HIDE DEF j
    <3>1. QED
      BY <1>1, <1>3, <2>1, RingPlace
  <2> HIDE DEF j, p
  <2>3. CASE i = LogSize
    <3>1. p = h
      BY <1>1, <1>2, <1>3, <2>2, <2>3
    <3>2. stored[h] = l + 1
      OBVIOUS
    <3>3. QED
      BY <1>1, <2>3, <3>1, <3>2 DEF p
  <2>4. CASE i # LogSize
    <3>1. i + 1 \in 1..LogSize /\ i \in 0..LogSize /\ h + (i + 1) - 1 = h + i
      BY <1>1, <2>4
    <3>2. (h + i) % LogSize = (IF h + i < LogSize THEN h + i ELSE h + i - LogSize)
      BY <1>1, <3>1, RingPlace
    <3>3. p = (h + i) % LogSize /\ p # h /\ p \in 0..(LogSize - 1)
      <4> DEFINE q == (h + i) % LogSize
      <4>1. q = (IF h + i < LogSize THEN h + i ELSE h + i - LogSize)
        BY <3>2
      <4> HIDE DEF q
      <4>2. p = q /\ p # h /\ p \in 0..(LogSize - 1)
        BY <1>1, <1>2, <2>2, <2>4, <4>1
      <4>3. QED
        BY <4>2 DEF q
    <3>4. slots[p] = l - LogSize + (i + 1)
      BY <1>0, <3>1, <3>3
    <3>5. stored[p] = slots[p]
      BY <3>3
    <3>6. QED
      BY <1>1, <3>4, <3>5 DEF p
  <2>5. QED
    BY <2>3, <2>4
<1>6. QED
  BY <1>3, <1>4, <1>5 DEF FullRing

\* The ring that has taken one more event is the ring of one more.
LEMMA StoredRing ==
  ASSUME RingOf(ring, logged), logged \in Nat
  PROVE  RingOf(Stored(logged + 1), logged + 1)
<1> DEFINE r == Stored(logged + 1)
<1>1. LogSize \in Nat \ {0}
  BY StreamAssumption
<1>2. /\ ring.head \in 0..(LogSize - 1) /\ ring.count \in Nat
      /\ ring.slots \in [0..(LogSize - 1) -> Nat]
      /\ ring = [slots |-> ring.slots, head |-> ring.head, count |-> ring.count]
      /\ ring.count = IF logged < LogSize THEN logged ELSE LogSize
      /\ \A i \in 1..ring.count : ring.slots[(ring.head + i - 1) % LogSize] = logged - ring.count + i
  BY DEF RingOf
<1>3. CASE ring.count < LogSize
  <2> DEFINE stored == [ring.slots EXCEPT ![(ring.head + ring.count) % LogSize] = logged + 1]
  <2>1. r = [slots |-> stored, head |-> ring.head, count |-> ring.count + 1]
    BY <1>2, <1>3 DEF Stored
  <2>2. /\ stored \in [0..(LogSize - 1) -> Nat]
        /\ \A i \in 1..(ring.count + 1) :
             stored[(ring.head + i - 1) % LogSize] = (logged + 1) - (ring.count + 1) + i
    BY <1>2, <1>3, StoredWithRoom
  <2>3. ring.count + 1 = IF logged + 1 < LogSize THEN logged + 1 ELSE LogSize
    BY <1>1, <1>2, <1>3
  <2> HIDE DEF stored, r
  <2>4. r.slots = stored /\ r.head = ring.head /\ r.count = ring.count + 1
    BY <2>1
  <2>5. r \in [slots : [0..(LogSize - 1) -> Nat], head : 0..(LogSize - 1), count : Nat]
    BY <1>2, <2>1, <2>2
  <2>6. \A i \in 1..r.count : r.slots[(r.head + i - 1) % LogSize] = (logged + 1) - r.count + i
    BY <2>2, <2>4
  <2>7. QED
    BY <2>3, <2>4, <2>5, <2>6 DEF RingOf, r
<1>4. CASE ring.count >= LogSize
  <2> DEFINE stored == [ring.slots EXCEPT ![ring.head] = logged + 1]
             next == (ring.head + 1) % LogSize
  <2>1. ring.count = LogSize /\ LogSize <= logged
    BY <1>1, <1>2, <1>4
  <2>2. r = [slots |-> stored, head |-> next, count |-> LogSize]
    <3>1. ~(ring.count < LogSize)
      BY <1>1, <2>1
    <3>2. r = [ring EXCEPT !.slots[ring.head] = logged + 1, !.head = (ring.head + 1) % LogSize]
      BY <1>2, <3>1 DEF Stored
    <3>3. QED
      BY <1>2, <2>1, <3>2
  <2>3. /\ next \in 0..(LogSize - 1) /\ stored \in [0..(LogSize - 1) -> Nat]
        /\ \A i \in 1..LogSize : stored[(next + i - 1) % LogSize] = (logged + 1) - LogSize + i
    <3>1. FullRing(ring.slots, ring.head, logged)
      BY <1>2, <2>1 DEF FullRing
    <3>2. FullRing(stored, next, logged + 1)
      BY <1>2, <3>1, StoredWhenFull
    <3>3. QED
      BY <3>2 DEF FullRing
  <2>4. LogSize = IF logged + 1 < LogSize THEN logged + 1 ELSE LogSize
    BY <1>1, <2>1
  <2> HIDE DEF stored, next, r
  <2>5. r.slots = stored /\ r.head = next /\ r.count = LogSize
    BY <2>2
  <2>6. r \in [slots : [0..(LogSize - 1) -> Nat], head : 0..(LogSize - 1), count : Nat]
    BY <1>1, <2>2, <2>3
  <2>7. \A i \in 1..r.count : r.slots[(r.head + i - 1) % LogSize] = (logged + 1) - r.count + i
    BY <2>3, <2>5
  <2>8. QED
    BY <2>4, <2>5, <2>6, <2>7 DEF RingOf, r
<1>5. QED
  BY <1>1, <1>2, <1>3, <1>4

\* What a new stream is sent is the ring in order.
LEMMA RecentIsRun ==
  ASSUME RingOf(ring, logged), logged \in Nat
  PROVE  /\ Recent(ring) = Run(logged - ring.count + 1, logged) /\ Recent(ring) \in Seq(Nat)
         /\ ring.count \in Nat /\ ring.count <= logged
<1>1. LogSize \in Nat \ {0} /\ ring.count \in Nat /\ ring.count <= logged
  BY StreamAssumption DEF RingOf
<1>2. logged - (logged - ring.count + 1) + 1 = ring.count
  BY <1>1
<1>3. \A i \in 1..ring.count : ring.slots[(ring.head + i - 1) % LogSize] = (logged - ring.count + 1) + i - 1
  BY <1>1 DEF RingOf
<1>4. Recent(ring) = Run(logged - ring.count + 1, logged)
  BY <1>2, <1>3 DEF Recent, Run
<1>5. \A i \in 1..ring.count : ring.slots[(ring.head + i - 1) % LogSize] \in Nat
  BY <1>1, <1>3
<1>6. Recent(ring) \in Seq(Nat)
  <2>1. Recent(ring) = [i \in 1..ring.count |-> ring.slots[(ring.head + i - 1) % LogSize]]
    BY DEF Recent
  <2>2. QED
    BY <1>1, <1>5, <2>1
<1>7. QED
  BY <1>1, <1>4, <1>6

\* A run of entries followed by the next entry is a run.
LEMMA RunGrows ==
  ASSUME NEW f \in Nat, NEW l \in Nat, 1 <= f, f <= l + 1
  PROVE  Append(Run(f, l), l + 1) = Run(f, l + 1)
<1>1. Run(f, l) = [i \in 1..(l - f + 1) |-> f + i - 1] /\ l - f + 1 \in Nat
  BY DEF Run
<1>2. Run(f, l) \in Seq(Nat) /\ Len(Run(f, l)) = l - f + 1
  BY <1>1
<1>3. (l + 1) - f + 1 = (l - f + 1) + 1
  OBVIOUS
<1>4. Append(Run(f, l), l + 1) = [i \in 1..((l - f + 1) + 1) |-> IF i = (l - f + 1) + 1 THEN l + 1 ELSE f + i - 1]
  BY <1>1, <1>2
<1>5. QED
  BY <1>3, <1>4 DEF Run

\* An entry is written to every stream whose browser is there; the others are cleaned up.
LEMMA EntryInv == StreamInv /\ EntryLogged => StreamInv'
<1> SUFFICES ASSUME StreamInv, EntryLogged PROVE StreamInv'
  OBVIOUS
<1> DEFINE gone == {b \in listeners : socket[b] # "open"}
<1>1. StreamTypeOK /\ RingOf(ring, logged) /\ StreamsRun /\ StreamsKept
  BY DEF StreamInv
<1>2. /\ logged' = logged + 1 /\ ring' = Stored(logged + 1)
      /\ shown' = [b \in Browsers |-> IF b \in listeners \ gone THEN [shown[b] EXCEPT !.got = Append(@, logged + 1)]
                                      ELSE IF b \in gone THEN NoStream ELSE shown[b]]
      /\ listeners' = listeners \ gone /\ streams' = streams \ gone
      /\ UNCHANGED <<socket, server>>
  BY DEF EntryLogged
<1>3. RingOf(ring', logged')
  BY <1>1, <1>2, StoredRing DEF StreamTypeOK
<1>4. StreamTypeOK'
  <2>1. shown' \in [Browsers -> [from : Nat, got : Seq(Nat)]]
    <3>1. \A b \in Browsers : [shown[b] EXCEPT !.got = Append(@, logged + 1)] \in [from : Nat, got : Seq(Nat)]
      <4> TAKE b \in Browsers
      <4>1. shown[b] \in [from : Nat, got : Seq(Nat)] /\ logged + 1 \in Nat
        BY <1>1 DEF StreamTypeOK
      <4>2. Append(shown[b].got, logged + 1) \in Seq(Nat)
        BY <4>1
      <4>3. QED
        BY <4>1, <4>2
    <3>2. NoStream \in [from : Nat, got : Seq(Nat)]
      BY DEF NoStream
    <3>3. QED
      BY <1>1, <1>2, <3>1, <3>2 DEF StreamTypeOK
  <2>2. logged' \in Nat /\ streams' \in SUBSET Browsers /\ UNCHANGED <<socket, server>>
    BY <1>1, <1>2 DEF StreamTypeOK
  <2>3. QED
    BY <1>1, <2>1, <2>2 DEF StreamTypeOK
<1>5. StreamsRun'
  <2> SUFFICES ASSUME NEW b \in streams'
               PROVE  /\ socket'[b] # "none" /\ 1 <= shown'[b].from /\ shown'[b].from <= logged' + 1
                      /\ socket'[b] = "open" => shown'[b].got = Run(shown'[b].from, logged')
    BY DEF StreamsRun
  <2>1. b \in streams /\ b \in Browsers /\ b \in listeners \ gone /\ socket[b] = "open"
    BY <1>1, <1>2 DEF StreamTypeOK, StreamsKept
  <2>2. shown'[b] = [shown[b] EXCEPT !.got = Append(@, logged + 1)]
    BY <1>2, <2>1
  <2>3. shown'[b].from = shown[b].from /\ shown'[b].got = Append(shown[b].got, logged + 1)
    BY <1>1, <2>1, <2>2 DEF StreamTypeOK
  <2>4. /\ shown[b].from \in Nat /\ 1 <= shown[b].from /\ shown[b].from <= logged + 1 /\ logged \in Nat
        /\ shown[b].got = Run(shown[b].from, logged)
    BY <1>1, <2>1 DEF StreamsRun, StreamTypeOK
  <2>5. Append(Run(shown[b].from, logged), logged + 1) = Run(shown[b].from, logged + 1)
    BY <2>4, RunGrows
  <2>6. socket' = socket /\ logged' = logged + 1
    BY <1>2
  <2>7. shown'[b].got = Run(shown'[b].from, logged')
    BY <2>3, <2>4, <2>5, <2>6
  <2>8. QED
    BY <2>1, <2>3, <2>4, <2>6, <2>7
<1>6. StreamsKept'
  <2>1. streams' \subseteq streams /\ IsFiniteSet(streams)
    BY <1>1, <1>2 DEF StreamsKept
  <2>2. IsFiniteSet(streams') /\ Cardinality(streams') <= Cardinality(streams)
    BY <2>1, FS_Subset
  <2>3. Cardinality(streams) \in Nat /\ Cardinality(streams') \in Nat /\ MaxStreams \in Nat
    BY <2>1, <2>2, FS_CardinalityType, StreamAssumption
  <2>4. QED
    BY <1>1, <1>2, <2>2, <2>3 DEF StreamsKept
<1>7. QED
  BY <1>3, <1>4, <1>5, <1>6 DEF StreamInv

\* One stream, or one socket without a stream, goes.
LEMMA StreamGone ==
  ASSUME StreamInv, NEW b \in Browsers, UNCHANGED <<ring, logged, server>>,
         \/ CleanUp(b) /\ socket' = [socket EXCEPT ![b] = "none"]
         \/ b \notin streams /\ socket' = [socket EXCEPT ![b] = "none"] /\ UNCHANGED <<listeners, shown, streams>>
  PROVE  StreamInv'
<1>1. StreamTypeOK /\ RingOf(ring, logged) /\ StreamsRun /\ StreamsKept
  BY DEF StreamInv
<1>2. /\ streams' = streams \ {b} /\ listeners' = listeners \ {b}
      /\ socket' = [socket EXCEPT ![b] = "none"] /\ shown' \in {shown, [shown EXCEPT ![b] = NoStream]}
  BY <1>1 DEF CleanUp, StreamsKept
<1>3. NoStream \in [from : Nat, got : Seq(Nat)]
  BY DEF NoStream
<1>4. StreamTypeOK'
  BY <1>1, <1>2, <1>3 DEF StreamTypeOK
<1>5. \A o \in streams' : o \in streams /\ socket'[o] = socket[o] /\ shown'[o] = shown[o]
  BY <1>1, <1>2 DEF StreamTypeOK
<1>6. StreamsRun'
  BY <1>1, <1>5 DEF StreamsRun
<1>7. StreamsKept'
  <2>1. streams' \subseteq streams /\ IsFiniteSet(streams)
    BY <1>1, <1>2 DEF StreamsKept
  <2>2. IsFiniteSet(streams') /\ Cardinality(streams') <= Cardinality(streams)
    BY <2>1, FS_Subset
  <2>3. Cardinality(streams) \in Nat /\ Cardinality(streams') \in Nat /\ MaxStreams \in Nat
    BY <2>1, <2>2, FS_CardinalityType, StreamAssumption
  <2>4. QED
    BY <1>1, <1>2, <2>2, <2>3 DEF StreamsKept
<1>8. QED
  BY <1>1, <1>4, <1>6, <1>7 DEF StreamInv

\* A stream begins: with the ring, in order, when its browser is there.
LEMMA OpenedInv ==
  ASSUME StreamInv, NEW b \in Browsers, Opened(b), socket[b] # "none", b \notin streams,
         ~(Cardinality(streams) >= MaxStreams), socket[b] = "open" \/ ~(ring.count > 0),
         server.phase = "listening", UNCHANGED <<ring, logged, socket, server>>
  PROVE  StreamInv'
<1>1. StreamTypeOK /\ RingOf(ring, logged) /\ StreamsRun /\ StreamsKept
  BY DEF StreamInv
<1> DEFINE new == [from |-> logged - ring.count + 1, got |-> IF socket[b] = "open" THEN Recent(ring) ELSE <<>>]
<1>2. /\ streams' = streams \cup {b} /\ listeners' = listeners \cup {b}
      /\ shown' = [shown EXCEPT ![b] = new]
  BY DEF Opened
<1>3. /\ Recent(ring) = Run(logged - ring.count + 1, logged) /\ Recent(ring) \in Seq(Nat)
      /\ ring.count \in Nat /\ ring.count <= logged /\ logged \in Nat
  BY <1>1, RecentIsRun DEF StreamTypeOK
<1>4. /\ new.from \in Nat /\ 1 <= new.from /\ new.from <= logged + 1 /\ new.got \in Seq(Nat)
      /\ new = [from |-> new.from, got |-> new.got]
      /\ socket[b] = "open" => new.got = Run(new.from, logged)
  BY <1>3
<1> HIDE DEF new
<1>5. StreamTypeOK'
  <2>1. shown' \in [Browsers -> [from : Nat, got : Seq(Nat)]]
    <3>1. new \in [from : Nat, got : Seq(Nat)]
      BY <1>4
    <3>2. QED
      BY <1>1, <1>2, <3>1 DEF StreamTypeOK
  <2>2. QED
    BY <1>1, <1>2, <2>1 DEF StreamTypeOK
<1>6. shown'[b] = new /\ \A o \in streams : o # b /\ shown'[o] = shown[o]
  BY <1>1, <1>2 DEF StreamTypeOK
<1>7. StreamsRun'
  BY <1>1, <1>2, <1>4, <1>6 DEF StreamsRun
<1>8. StreamsKept'
  <2>1. IsFiniteSet(streams') /\ Cardinality(streams') = Cardinality(streams) + 1
    BY <1>1, <1>2, FS_AddElement DEF StreamsKept
  <2>2. Cardinality(streams) \in Nat /\ MaxStreams \in Nat
    BY <1>1, FS_CardinalityType, StreamAssumption DEF StreamsKept
  <2>3. QED
    BY <1>1, <1>2, <2>1, <2>2 DEF StreamsKept
<1>9. QED
  BY <1>1, <1>5, <1>7, <1>8 DEF StreamInv

\* Every step keeps the invariant.
LEMMA StreamNextInv == StreamInv /\ [StreamNext]_streamVars => StreamInv'
<1> SUFFICES ASSUME StreamInv, [StreamNext]_streamVars PROVE StreamInv'
  OBVIOUS
<1>1. StreamTypeOK /\ RingOf(ring, logged) /\ StreamsRun /\ StreamsKept
  BY DEF StreamInv
<1>2. CASE EntryLogged
  BY <1>2, EntryInv
<1>3. CASE ServerStarts \/ ServerBinds \/ CloseRequested
  <2>1. UNCHANGED <<ring, logged, listeners, socket, shown, streams>>
    BY <1>3 DEF ServerStarts, ServerBinds, CloseRequested
  <2>2. /\ server' \in [phase : {"off", "binding", "listening", "failed", "closed"}, closing : BOOLEAN]
        /\ server'.phase = "closed" => server.phase = "closed"
    BY <1>1, <1>3 DEF ServerStarts, ServerBinds, CloseRequested, StreamTypeOK
  <2>3. QED
    BY <1>1, <2>1, <2>2 DEF StreamInv, StreamTypeOK, StreamsRun, StreamsKept
<1>4. CASE ServerCloses
  <2>1. /\ streams' = {} /\ listeners' = {} /\ shown' = [b \in Browsers |-> NoStream]
        /\ socket' = [b \in Browsers |-> "none"] /\ UNCHANGED <<ring, logged>>
        /\ server' = [server EXCEPT !.phase = "closed"]
    BY <1>1, <1>4 DEF ServerCloses, StreamsKept
  <2>2. NoStream \in [from : Nat, got : Seq(Nat)]
    BY DEF NoStream
  <2>3. StreamTypeOK'
    BY <1>1, <2>1, <2>2 DEF StreamTypeOK
  <2>4. StreamsRun' /\ StreamsKept'
    BY <2>1, FS_EmptySet, StreamAssumption DEF StreamsRun, StreamsKept
  <2>5. QED
    BY <1>1, <2>1, <2>3, <2>4 DEF StreamInv
<1>5. ASSUME NEW b \in Browsers, Requested(b) \/ BrowserLeaves(b) PROVE StreamInv'
  <2>1. /\ UNCHANGED <<ring, logged, listeners, shown, streams, server>>
        /\ \/ socket[b] = "none" /\ socket' = [socket EXCEPT ![b] = "open"]
           \/ socket' = [socket EXCEPT ![b] = "dead"] \/ socket' = [socket EXCEPT ![b] = "late"]
    BY <1>5 DEF Requested, BrowserLeaves
  <2>2. StreamTypeOK'
    BY <1>1, <2>1 DEF StreamTypeOK
  <2>3. \A o \in streams : socket'[o] # "none" /\ (socket'[o] = "open" => socket[o] = "open")
    BY <1>1, <2>1 DEF StreamTypeOK, StreamsRun
  <2>4. StreamsRun' /\ StreamsKept'
    BY <1>1, <2>1, <2>3 DEF StreamsRun, StreamsKept
  <2>5. QED
    BY <1>1, <2>1, <2>2, <2>4 DEF StreamInv
<1>6. ASSUME NEW b \in Browsers, StreamHandled(b) PROVE StreamInv'
  <2>1. CASE Cardinality(streams) >= MaxStreams \/ (socket[b] # "open" /\ ring.count > 0)
    BY <1>6, <2>1, StreamGone DEF StreamHandled
  <2>2. CASE ~(Cardinality(streams) >= MaxStreams \/ (socket[b] # "open" /\ ring.count > 0))
    BY <1>6, <2>2, OpenedInv DEF StreamHandled
  <2>3. QED
    BY <2>1, <2>2
<1>7. ASSUME NEW b \in Browsers, CloseHeard(b) \/ KeepaliveFails(b) \/ SocketGone(b) PROVE StreamInv'
  BY <1>7, StreamGone DEF CloseHeard, KeepaliveFails, SocketGone
<1>8. CASE UNCHANGED streamVars
  BY <1>1, <1>8 DEF streamVars, StreamInv, StreamTypeOK, StreamsRun, StreamsKept
<1>9. QED
  BY <1>2, <1>3, <1>4, <1>5, <1>6, <1>7, <1>8 DEF StreamNext

\* The ring holds the newest entries in order through every wrap, a stream whose browser
\* is there has them once and in order, listeners and streams go together, within the cap
\* and not past the server: for every size of the ring and any number of browsers
\* (cgateWebBridge.js:399-432, sseHandler.js:28-123, webServer.js:247-276).
THEOREM StreamsAreFaithful == StreamSpec => []StreamsFaithful
<1>1. StreamInit => StreamInv
  <2> SUFFICES ASSUME StreamInit PROVE StreamInv
    OBVIOUS
  <2>1. StreamTypeOK
    <3>1. NoStream \in [from : Nat, got : Seq(Nat)]
      BY DEF NoStream
    <3>2. QED
      BY <3>1 DEF StreamInit, StreamTypeOK
  <2>2. RingOf(ring, logged)
    BY StreamAssumption DEF StreamInit, RingOf
  <2>3. StreamsRun /\ StreamsKept
    BY FS_EmptySet, StreamAssumption DEF StreamInit, StreamsRun, StreamsKept
  <2>4. QED
    BY <2>1, <2>2, <2>3 DEF StreamInv
<1>2. StreamInv => StreamsFaithful
  <2> SUFFICES ASSUME StreamInv PROVE StreamsFaithful
    OBVIOUS
  <2>1. logged \in Nat /\ RingOf(ring, logged)
    BY DEF StreamInv, StreamTypeOK
  <2>2. Recent(ring) = Run(logged - ring.count + 1, logged)
    BY <2>1, RecentIsRun
  <2>3. QED
    BY <2>1, <2>2 DEF StreamInv, StreamsRun, StreamsKept, StreamsFaithful, RingOf
<1>3. QED
  BY <1>1, <1>2, StreamNextInv, PTL DEF StreamSpec

-----------------------------------------------------------------------------
(* Delivery of a command *)

JobPhase == {"idle", "send", "drain", "again"}

DeliveryTypeOK ==
  /\ wire \in [Slots -> [up : BOOLEAN, writable : BOOLEAN, sent : Seq(Nat)]]
  /\ job \in [phase : JobPhase, command : Nat, rest : Seq(Slots)]
  /\ job.phase \in {"drain", "again"} => job.rest # <<>>

\* Only commands that were handed over are written, reported or pressed.
HandedOver ==
  /\ \A c \in Slots : \A i \in DOMAIN wire[c].sent : wire[c].sent[i] \in 1..job.command
  /\ reported \subseteq 1..job.command /\ pressed \subseteq 1..job.command

\* The command under way is not reported yet, and written only if that was under pressure.
UnderWay ==
  job.phase # "idle" =>
    /\ job.command \in Nat \ {0} /\ job.command \notin reported
    /\ job.command \in pressed \/ Copies(job.command) = {}

DeliveryInv == DeliveryTypeOK /\ HandedOver /\ UnderWay /\ CommandsAccounted

\* The copies of a command are where it was sent,
LEMMA CopiesMember ==
  \A n, x : x \in Copies(n) <=>
    \E c \in Slots : \E i \in DOMAIN wire[c].sent : x = <<c, i>> /\ wire[c].sent[i] = n
BY DEF Copies

\* now and next.
LEMMA CopiesMemberNext ==
  \A n, x : x \in Copies(n)' <=>
    \E c \in Slots : \E i \in DOMAIN wire'[c].sent : x = <<c, i>> /\ wire'[c].sent[i] = n
BY DEF Copies

\* What is not written stays.
LEMMA CopiesStay ==
  ASSUME \A c \in Slots : wire'[c].sent = wire[c].sent
  PROVE  \A n : Copies(n)' = Copies(n)
BY CopiesMember, CopiesMemberNext

\* The parts of what is accounted for.
Accounted(n) ==
  /\ n \in reported \/ Copies(n) # {}
  /\ n \in pressed \/ Cardinality(Copies(n)) = (IF n \in reported THEN 0 ELSE 1)

InOrder ==
  \A c \in Slots : \A i, j \in DOMAIN wire[c].sent : i <= j => wire[c].sent[i] <= wire[c].sent[j]

\* What accounts for the commands,
LEMMA AccountedParts ==
  CommandsAccounted <=> (\A n \in Done : Accounted(n)) /\ InOrder
BY DEF CommandsAccounted, Accounted, InOrder

\* now and next.
LEMMA AccountedPartsNext ==
  CommandsAccounted' <=> (\A n \in Done' : Accounted(n)') /\ InOrder'
BY DEF CommandsAccounted, Accounted, InOrder

\* Nothing is written, and the command under way stays under way or none is.
LEMMA NothingWritten ==
  ASSUME DeliveryInv, DeliveryTypeOK', \A c \in Slots : wire'[c].sent = wire[c].sent,
         UNCHANGED <<reported, pressed>>, job'.command = job.command,
         job'.phase = "idle" <=> job.phase = "idle"
  PROVE  DeliveryInv'
<1>1. \A n : Copies(n)' = Copies(n)
  BY CopiesStay
<1>2. \A n : Accounted(n)' <=> Accounted(n)
  BY <1>1 DEF Accounted
<1>3. Done' = Done
  BY DEF Done
<1>4. InOrder' <=> InOrder
  BY DEF InOrder
<1>5. CommandsAccounted'
  BY <1>2, <1>3, <1>4, AccountedParts, AccountedPartsNext DEF DeliveryInv
<1>6. HandedOver'
  BY DEF DeliveryInv, HandedOver
<1>7. UnderWay'
  BY <1>1 DEF DeliveryInv, UnderWay
<1>8. QED
  BY <1>5, <1>6, <1>7 DEF DeliveryInv

\* The command under way is written on c.
LEMMA OneWritten ==
  ASSUME DeliveryInv, job.phase # "idle", DeliveryTypeOK', NEW c \in Slots,
         \A o \in Slots : o # c => wire'[o].sent = wire[o].sent,
         wire'[c].sent = Append(wire[c].sent, job.command),
         UNCHANGED reported, job'.command = job.command,
         \/ job'.phase = "idle" /\ pressed' = pressed
         \/ job'.phase # "idle" /\ pressed' = pressed \cup {job.command}
  PROVE  DeliveryInv'
<1>k. PICK k : k = job.command
  OBVIOUS
<1>s. PICK s : s = wire[c].sent
  OBVIOUS
<1>0. \A n : n = k => (Copies(n) = Copies(job.command))
  BY <1>k
<1>1. /\ s \in Seq(Nat) /\ k \in Nat \ {0} /\ k \notin reported
      /\ k \in pressed \/ Copies(k) = {}
  BY <1>k, <1>s, <1>0 DEF DeliveryInv, UnderWay, DeliveryTypeOK
<1>2. \A i \in DOMAIN s : s[i] \in 1..k
  BY <1>k, <1>s DEF DeliveryInv, HandedOver
<1>3. /\ Len(s) + 1 \in DOMAIN Append(s, k) /\ Append(s, k)[Len(s) + 1] = k
      /\ \A i \in DOMAIN s : i \in DOMAIN Append(s, k) /\ Append(s, k)[i] = s[i] /\ i <= Len(s)
      /\ \A i \in DOMAIN Append(s, k) : i = Len(s) + 1 \/ i \in DOMAIN s
      /\ Len(s) \in Nat /\ DOMAIN s = 1..Len(s)
  BY <1>1
<1>4. wire'[c].sent = Append(s, k)
  BY <1>k, <1>s
<1>5. ASSUME NEW n, n # k
      PROVE  Copies(n)' = Copies(n)
  <2>1. ASSUME NEW o \in Slots, NEW i
        PROVE  (i \in DOMAIN wire'[o].sent /\ wire'[o].sent[i] = n)
                 <=> (i \in DOMAIN wire[o].sent /\ wire[o].sent[i] = n)
    <3>1. CASE o # c
      BY <3>1
    <3>2. CASE o = c
      <4>1. wire[o].sent = s
        BY <3>2, <1>s
      <4>2. QED
        BY <1>3, <1>4, <1>5, <3>2, <4>1
    <3>3. QED
      BY <3>1, <3>2
  <2>2. ASSUME NEW x
        PROVE  x \in Copies(n)' <=> x \in Copies(n)
    <3>1. x \in Copies(n)' => x \in Copies(n)
      BY <2>1, CopiesMember, CopiesMemberNext
    <3>2. x \in Copies(n) => x \in Copies(n)'
      BY <2>1, CopiesMember, CopiesMemberNext
    <3>3. QED
      BY <3>1, <3>2
  <2>3. QED
    BY <2>2
<1>6. <<c, Len(s) + 1>> \in Copies(k)'
  BY <1>3, <1>4, CopiesMemberNext
<1>7. Copies(k) = {} => Copies(k)' = {<<c, Len(s) + 1>>}
  <2> SUFFICES ASSUME Copies(k) = {}, NEW x \in Copies(k)'
               PROVE  x = <<c, Len(s) + 1>>
    BY <1>6
  <2>1. PICK o \in Slots : \E i \in DOMAIN wire'[o].sent : x = <<o, i>> /\ wire'[o].sent[i] = k
    BY CopiesMemberNext
  <2>2. PICK i \in DOMAIN wire'[o].sent : x = <<o, i>> /\ wire'[o].sent[i] = k
    BY <2>1
  <2>3. o = c
    BY <2>2, CopiesMember
  <2>4. i = Len(s) + 1
    <3>1. s = wire[c].sent
      BY <1>s
    <3>2. i \in DOMAIN s => s[i] = k
      BY <1>3, <1>4, <2>2, <2>3
    <3>3. i \notin DOMAIN s
      BY <3>1, <3>2, CopiesMember
    <3>4. QED
      BY <1>3, <1>4, <2>2, <2>3, <3>3
  <2>5. QED
    BY <2>2, <2>3, <2>4
<1>8. ASSUME NEW n \in Done, n # k
      PROVE  Accounted(n)'
  <2>1. Accounted(n)
    BY <1>8, AccountedParts DEF DeliveryInv
  <2>2. n \in pressed' <=> n \in pressed
    BY <1>8, <1>k
  <2>3. QED
    BY <1>5, <1>8, <2>1, <2>2 DEF Accounted
<1>9. ASSUME pressed' = pressed
      PROVE  Accounted(k)'
  <2>1. Copies(k)' # {} /\ k \notin reported'
    BY <1>1, <1>6
  <2>2. k \in pressed' \/ Cardinality(Copies(k)') = 1
    BY <1>1, <1>7, <1>9, FS_Singleton
  <2>3. QED
    BY <2>1, <2>2 DEF Accounted
<1>10. Done = 1..(k - 1) /\ Done' = 1..(IF job'.phase = "idle" THEN k ELSE k - 1)
  BY <1>k DEF Done
<1>11. \A n \in Done' : Accounted(n)'
  <2> TAKE n \in Done'
  <2>1. CASE n = k
    <3>1. job'.phase = "idle"
      BY <1>1, <1>10, <2>1
    <3>2. QED
      BY <1>9, <2>1, <3>1
  <2>2. CASE n # k
    <3>1. n \in Done
      BY <1>1, <1>10, <2>2
    <3>2. QED
      BY <1>8, <2>2, <3>1
  <2>3. QED
    BY <2>1, <2>2
<1>12. InOrder'
  <2> SUFFICES ASSUME NEW o \in Slots, NEW i \in DOMAIN wire'[o].sent, NEW j \in DOMAIN wire'[o].sent,
                      i <= j
               PROVE  wire'[o].sent[i] <= wire'[o].sent[j]
    BY DEF InOrder
  <2>1. \A a, b \in DOMAIN wire[o].sent : a <= b => wire[o].sent[a] <= wire[o].sent[b]
    BY AccountedParts DEF DeliveryInv, InOrder
  <2>2. CASE o # c
    BY <2>1, <2>2
  <2>3. CASE o = c
    <3>1. s = wire[o].sent
      BY <2>3, <1>s
    <3>2. i = Len(s) + 1 \/ i \in DOMAIN s
      BY <1>3, <1>4, <2>3
    <3>3. j = Len(s) + 1 \/ j \in DOMAIN s
      BY <1>3, <1>4, <2>3
    <3>4. CASE j = Len(s) + 1
      BY <1>1, <1>2, <1>3, <1>4, <2>3, <3>2, <3>4
    <3>5. CASE j \in DOMAIN s
      <4>1. i \in DOMAIN s
        BY <1>3, <3>2, <3>5
      <4>2. QED
        BY <1>3, <1>4, <2>1, <2>3, <3>1, <3>5, <4>1
    <3>6. QED
      BY <3>3, <3>4, <3>5
  <2>4. QED
    BY <2>2, <2>3
<1>13. CommandsAccounted'
  BY <1>11, <1>12, AccountedPartsNext
<1>14. HandedOver'
  <2>1. ASSUME NEW o \in Slots, NEW i \in DOMAIN wire'[o].sent
        PROVE  wire'[o].sent[i] \in 1..job'.command
    <3>1. CASE o # c
      BY <3>1 DEF DeliveryInv, HandedOver
    <3>2. CASE o = c
      BY <1>1, <1>2, <1>3, <1>4, <3>2, <1>k, SMTT(40)
    <3>3. QED
      BY <3>1, <3>2
  <2>2. reported' \subseteq 1..job'.command /\ pressed' \subseteq 1..job'.command
    <3>1. reported \subseteq 1..k /\ pressed \subseteq 1..k /\ job'.command = k
      BY <1>k DEF DeliveryInv, HandedOver
    <3>2. k \in 1..k
      BY <1>1
    <3>3. pressed' = pressed \/ pressed' = pressed \cup {k}
      BY <1>k
    <3>4. QED
      BY <3>1, <3>2, <3>3
  <2>3. QED
    BY <2>1, <2>2 DEF HandedOver
<1>15. UnderWay'
  BY <1>1, <1>k DEF UnderWay
<1>16. QED
  BY <1>13, <1>14, <1>15 DEF DeliveryInv

\* What the types say of each part.
LEMMA DeliveryTypeParts ==
  DeliveryTypeOK =>
    /\ \A c \in Slots : wire[c] \in [up : BOOLEAN, writable : BOOLEAN, sent : Seq(Nat)]
    /\ job.phase \in JobPhase /\ job.command \in Nat /\ job.rest \in Seq(Slots)
    /\ job.phase \in {"drain", "again"} => job.rest # <<>>
    /\ job.rest # <<>> => Head(job.rest) \in Slots /\ Tail(job.rest) \in Seq(Slots)
<1>1. \A s \in Seq(Slots) : s # <<>> => Head(s) \in Slots /\ Tail(s) \in Seq(Slots)
  OBVIOUS
<1>2. QED
  BY <1>1 DEF DeliveryTypeOK

\* A list without a connection is a list.
LEMMA WithoutLists ==
  ASSUME NEW S, NEW rest \in Seq(S), NEW c
  PROVE  /\ Without(rest, c) \in Seq(S)
         /\ rest # <<>> /\ c # Head(rest) => Without(rest, c) # <<>>
<1>1. CASE c \notin ToSet(rest)
  BY <1>1 DEF Without
<1>2. CASE c \in ToSet(rest)
  <2>1. PICK i : i = CHOOSE j \in DOMAIN rest : rest[j] = c
    OBVIOUS
  <2>2. i \in DOMAIN rest /\ rest[i] = c
    BY <1>2, <2>1 DEF ToSet
  <2>3. Without(rest, c) = SubSeq(rest, 1, i - 1) \o SubSeq(rest, i + 1, Len(rest))
    BY <1>2, <2>1 DEF Without, RemoveAt
  <2>4. i \in 1..Len(rest) /\ Len(rest) \in Nat
    BY <2>2
  <2>5. /\ SubSeq(rest, 1, i - 1) \in Seq(S) /\ Len(SubSeq(rest, 1, i - 1)) = i - 1
        /\ SubSeq(rest, i + 1, Len(rest)) \in Seq(S)
    BY <2>4
  <2>6. Without(rest, c) \in Seq(S)
    BY <2>3, <2>5
  <2>7. ASSUME rest # <<>>, c # Head(rest)
        PROVE  Without(rest, c) # <<>>
    <3>1. i # 1
      BY <2>2, <2>7
    <3>2. \A a, b \in Seq(S) : Len(a) >= 1 => a \o b # <<>>
      <4> SUFFICES ASSUME NEW a \in Seq(S), NEW b \in Seq(S), Len(a) >= 1
                   PROVE  a \o b # <<>>
        OBVIOUS
      <4>1. Len(a) \in Nat /\ Len(b) \in Nat /\ Len(a \o b) = Len(a) + Len(b)
        OBVIOUS
      <4>2. Len(a \o b) # 0
        BY <4>1
      <4>3. QED
        BY <4>2
    <3>3. Len(SubSeq(rest, 1, i - 1)) >= 1
      BY <2>4, <2>5, <3>1
    <3>4. QED
      BY <2>3, <2>5, <3>2, <3>3
  <2>8. QED
    BY <2>6, <2>7
<1>3. QED
  BY <1>1, <1>2

\* An order of connections is a list of them.
LEMMA OrdersAreLists ==
  \A T \in SUBSET Slots : \A order \in SetToSeqs(T) : order \in Seq(Slots)
<1> SUFFICES ASSUME NEW T \in SUBSET Slots, NEW order \in SetToSeqs(T)
             PROVE  order \in Seq(Slots)
  OBVIOUS
<1>1. IsFiniteSet(Slots)
  BY DeliveryAssumption, FS_Interval DEF Slots
<1>2. Cardinality(T) \in Nat
  BY <1>1, FS_Subset, FS_CardinalityType
<1>3. order \in [1..Cardinality(T) -> T]
  BY DEF SetToSeqs
<1>4. order \in [1..Cardinality(T) -> Slots]
  BY <1>3
<1>5. QED
  BY <1>2, <1>4

\* The parts of DeliveryTypeOK in the next state, one for each variable.
LEMMA DeliveryTyped ==
  ASSUME wire' \in [Slots -> [up : BOOLEAN, writable : BOOLEAN, sent : Seq(Nat)]],
         job' \in [phase : JobPhase, command : Nat, rest : Seq(Slots)],
         job'.phase \in {"drain", "again"} => job'.rest # <<>>
  PROVE  DeliveryTypeOK'
BY DEF DeliveryTypeOK

\* A command that is handed over keeps the invariant,
LEMMA HandsOver == DeliveryInv /\ HandOver => DeliveryInv'
<1> SUFFICES ASSUME DeliveryInv, HandOver
             PROVE  DeliveryInv'
  OBVIOUS
<1>k. PICK k : k = job.command
  OBVIOUS
<1>1. /\ k \in Nat /\ job.phase = "idle" /\ UNCHANGED <<wire, reported, pressed>>
      /\ DeliveryTypeOK
  BY <1>k, DeliveryTypeParts DEF DeliveryInv, HandOver
<1>2. PICK order \in Seq(Slots) : job' = [phase |-> "send", command |-> k + 1, rest |-> order]
  <2>1. {c \in Slots : wire[c].up} \in SUBSET Slots
    OBVIOUS
  <2>2. QED
    BY <2>1, <1>k, OrdersAreLists DEF HandOver
<1>3. job'.command = k + 1 /\ job'.phase = "send" /\ k + 1 \in Nat
  BY <1>1, <1>2
<1>4. DeliveryTypeOK'
  <2>1. job' \in [phase : JobPhase, command : Nat, rest : Seq(Slots)]
    BY <1>2, <1>3 DEF JobPhase
  <2>2. wire' \in [Slots -> [up : BOOLEAN, writable : BOOLEAN, sent : Seq(Nat)]]
    BY <1>1 DEF DeliveryTypeOK
  <2>3. QED
    BY <1>3, <2>1, <2>2, DeliveryTyped
<1>5. \A n : Copies(n)' = Copies(n)
  BY <1>1, CopiesStay
<1>6. CommandsAccounted'
  <2>1. \A n : Accounted(n)' <=> Accounted(n)
    BY <1>1, <1>5 DEF Accounted
  <2>2. Done' = Done
    BY <1>1, <1>3, <1>k DEF Done
  <2>3. InOrder' <=> InOrder
    BY <1>1 DEF InOrder
  <2>4. QED
    BY <2>1, <2>2, <2>3, AccountedParts, AccountedPartsNext DEF DeliveryInv
<1>7. HandedOver'
  <2>1. 1..k \subseteq 1..(k + 1)
    BY <1>1
  <2>2. /\ \A c \in Slots : \A i \in DOMAIN wire[c].sent : wire[c].sent[i] \in 1..k
        /\ reported \subseteq 1..k /\ pressed \subseteq 1..k
    BY <1>k DEF DeliveryInv, HandedOver
  <2>3. QED
    BY <1>1, <1>3, <2>1, <2>2 DEF HandedOver
<1>8. UnderWay'
  <2>1. k + 1 \notin 1..k /\ k + 1 # 0
    BY <1>1
  <2>2. k + 1 \notin reported
    BY <1>k, <2>1 DEF DeliveryInv, HandedOver
  <2>3. Copies(k + 1) = {}
    <3> SUFFICES ASSUME NEW x \in Copies(k + 1)
                 PROVE  FALSE
      OBVIOUS
    <3>1. PICK c \in Slots : \E i \in DOMAIN wire[c].sent : wire[c].sent[i] = k + 1
      BY CopiesMember
    <3>2. QED
      BY <3>1, <1>k, <2>1 DEF DeliveryInv, HandedOver
  <2>4. Copies(k + 1)' = {}
    BY <1>5, <2>3
  <2>5. PICK m : m = k + 1
    OBVIOUS
  <2>6. Copies(m)' = {} /\ m \notin reported' /\ m \in Nat \ {0} /\ job'.command = m
    BY <1>1, <1>3, <2>1, <2>2, <2>4, <2>5
  <2>7. QED
    BY <2>6 DEF UnderWay
<1>9. QED
  BY <1>4, <1>6, <1>7, <1>8 DEF DeliveryInv

\* so does the report of what became of it,
LEMMA Reports == DeliveryInv /\ Report => DeliveryInv'
<1> SUFFICES ASSUME DeliveryInv, Report
             PROVE  DeliveryInv'
  OBVIOUS
<1>k. PICK k : k = job.command
  OBVIOUS
<1>1. /\ k \in Nat \ {0} /\ job.phase = "send" /\ DeliveryTypeOK
      /\ k \in pressed \/ Copies(k) = {}
  BY <1>k DEF DeliveryInv, Report, UnderWay
<1>2. /\ UNCHANGED <<wire, pressed>> /\ reported' = reported \cup {k}
      /\ job' = [job EXCEPT !.phase = "idle"]
  BY <1>k DEF Report, Phase
<1>3. job'.phase = "idle" /\ job'.command = k
  BY <1>1, <1>2, <1>k DEF DeliveryTypeOK
<1>4. DeliveryTypeOK'
  <2>1. job' \in [phase : JobPhase, command : Nat, rest : Seq(Slots)]
    BY <1>1, <1>2 DEF DeliveryTypeOK, JobPhase
  <2>2. wire' \in [Slots -> [up : BOOLEAN, writable : BOOLEAN, sent : Seq(Nat)]]
    BY <1>1, <1>2 DEF DeliveryTypeOK
  <2>3. QED
    BY <1>3, <2>1, <2>2, DeliveryTyped
<1>5. \A n : Copies(n)' = Copies(n)
  BY <1>2, CopiesStay
<1>6. \A n \in Done' : Accounted(n)'
  <2> TAKE n \in Done'
  <2>1. Done = 1..(k - 1) /\ Done' = 1..k
    BY <1>1, <1>3, <1>k DEF Done
  <2>2. CASE n = k
    <3>1. Cardinality(Copies(k)) = 0 \/ k \in pressed
      BY <1>1, FS_EmptySet
    <3>2. QED
      BY <1>2, <1>5, <2>2, <3>1 DEF Accounted
  <2>3. CASE n # k
    <3>1. n \in Done
      BY <1>1, <2>1, <2>3
    <3>2. Accounted(n)
      BY <3>1, AccountedParts DEF DeliveryInv
    <3>3. (n \in reported' <=> n \in reported) /\ (n \in pressed' <=> n \in pressed)
      BY <1>2, <2>3
    <3>4. QED
      BY <1>5, <3>2, <3>3 DEF Accounted
  <2>4. QED
    BY <2>2, <2>3
<1>7. InOrder'
  BY <1>2, AccountedParts DEF InOrder, DeliveryInv
<1>8. CommandsAccounted'
  BY <1>6, <1>7, AccountedPartsNext
<1>9. HandedOver'
  <2>1. /\ \A c \in Slots : \A i \in DOMAIN wire[c].sent : wire[c].sent[i] \in 1..k
        /\ reported \subseteq 1..k /\ pressed \subseteq 1..k
    BY <1>k DEF DeliveryInv, HandedOver
  <2>2. k \in 1..k
    BY <1>1
  <2>3. QED
    BY <1>2, <1>3, <2>1, <2>2 DEF HandedOver
<1>10. UnderWay'
  BY <1>3 DEF UnderWay
<1>11. QED
  BY <1>4, <1>8, <1>9, <1>10 DEF DeliveryInv

\* What a write on the current connection leaves behind.
LEMMA WrittenParts ==
  ASSUME DeliveryTypeOK, job.rest # <<>>, NEW ok \in BOOLEAN, Written(ok)
  PROVE  /\ Current \in Slots
         /\ wire' \in [Slots -> [up : BOOLEAN, writable : BOOLEAN, sent : Seq(Nat)]]
         /\ \A o \in Slots : o # Current => wire'[o].sent = wire[o].sent
         /\ wire'[Current].sent = Append(wire[Current].sent, job.command)
<1>c. PICK c : c = Current
  OBVIOUS
<1>1. c \in Slots /\ job.command \in Nat
  BY <1>c, DeliveryTypeParts DEF Current
<1>2. wire' = [wire EXCEPT ![c] = [@ EXCEPT !.sent = Append(wire[c].sent, job.command), !.writable = ok]]
  <2>1. wire[c] \in [up : BOOLEAN, writable : BOOLEAN, sent : Seq(Nat)]
    BY <1>1, DeliveryTypeParts
  <2>2. QED
    BY <1>1, <1>c, <2>1 DEF Written, DeliveryTypeOK
<1>3. [wire[c] EXCEPT !.sent = Append(wire[c].sent, job.command), !.writable = ok]
        \in [up : BOOLEAN, writable : BOOLEAN, sent : Seq(Nat)]
  <2>1. wire[c] \in [up : BOOLEAN, writable : BOOLEAN, sent : Seq(Nat)]
    BY <1>1, DeliveryTypeParts
  <2>2. Append(wire[c].sent, job.command) \in Seq(Nat)
    BY <1>1, <2>1
  <2>3. QED
    BY <2>1, <2>2
<1>4. wire' \in [Slots -> [up : BOOLEAN, writable : BOOLEAN, sent : Seq(Nat)]]
  BY <1>1, <1>2, <1>3 DEF DeliveryTypeOK
<1>5. wire'[c].sent = Append(wire[c].sent, job.command)
  <2>1. wire[c] \in [up : BOOLEAN, writable : BOOLEAN, sent : Seq(Nat)]
    BY <1>1, DeliveryTypeParts
  <2>2. wire'[c] = [wire[c] EXCEPT !.sent = Append(wire[c].sent, job.command), !.writable = ok]
    BY <1>1, <1>2 DEF DeliveryTypeOK
  <2>3. QED
    BY <2>1, <2>2
<1>6. \A o \in Slots : o # c => wire'[o].sent = wire[o].sent
  BY <1>1, <1>2 DEF DeliveryTypeOK
<1>7. QED
  BY <1>1, <1>4, <1>5, <1>6, <1>c

\* The record of the command under way, and what a step leaves of its parts.
LEMMA JobChanges ==
  ASSUME DeliveryTypeOK, NEW p \in JobPhase, NEW rest \in Seq(Slots),
         job' = [job EXCEPT !.phase = p, !.rest = rest]
  PROVE  /\ job' \in [phase : JobPhase, command : Nat, rest : Seq(Slots)]
         /\ job'.phase = p /\ job'.rest = rest /\ job'.command = job.command
BY DEF DeliveryTypeOK

\* A phase of the job that changes alone.
LEMMA PhaseChanges ==
  ASSUME DeliveryTypeOK, NEW p \in JobPhase, Phase(p)
  PROVE  /\ job' \in [phase : JobPhase, command : Nat, rest : Seq(Slots)]
         /\ job'.phase = p /\ job'.rest = job.rest /\ job'.command = job.command
BY DEF DeliveryTypeOK, Phase

\* The first attempt keeps the invariant,
LEMMA SendsFirst == DeliveryInv /\ FirstSend => DeliveryInv'
<1> SUFFICES ASSUME DeliveryInv, FirstSend
             PROVE  DeliveryInv'
  OBVIOUS
<1>1. /\ DeliveryTypeOK /\ job.phase = "send" /\ job.rest # <<>> /\ UNCHANGED reported
      /\ {"idle", "drain"} \subseteq JobPhase
  BY DEF DeliveryInv, FirstSend, JobPhase
<1>2. CASE Written(TRUE) /\ Phase("idle")
  <2>1. DeliveryTypeOK'
    BY <1>1, <1>2, WrittenParts, PhaseChanges, DeliveryTyped
  <2>2. pressed' = pressed /\ job'.phase = "idle" /\ job'.command = job.command
    BY <1>1, <1>2, PhaseChanges DEF Written
  <2>3. QED
    BY <1>1, <1>2, <2>1, <2>2, WrittenParts, OneWritten
<1>3. CASE Written(FALSE) /\ Phase("drain")
  <2>1. DeliveryTypeOK'
    BY <1>1, <1>3, WrittenParts, PhaseChanges, DeliveryTyped
  <2>2. pressed' = pressed \cup {job.command} /\ job'.phase = "drain" /\ job'.command = job.command
    BY <1>1, <1>3, PhaseChanges DEF Written
  <2>3. QED
    BY <1>1, <1>3, <2>1, <2>2, WrittenParts, OneWritten
<1>4. CASE Phase("drain") /\ UNCHANGED <<wire, pressed>>
  <2>1. wire' \in [Slots -> [up : BOOLEAN, writable : BOOLEAN, sent : Seq(Nat)]]
    BY <1>1, <1>4 DEF DeliveryTypeOK
  <2>2. DeliveryTypeOK' /\ job'.phase = "drain" /\ job'.command = job.command
    BY <1>1, <1>4, <2>1, PhaseChanges, DeliveryTyped
  <2>3. QED
    BY <1>1, <1>4, <2>2, NothingWritten
<1>5. QED
  BY <1>2, <1>3, <1>4 DEF FirstSend

\* so does the next,
LEMMA SendsAgain == DeliveryInv /\ SendAgain => DeliveryInv'
<1> SUFFICES ASSUME DeliveryInv, SendAgain
             PROVE  DeliveryInv'
  OBVIOUS
<1>1. /\ DeliveryTypeOK /\ job.phase = "again" /\ job.rest # <<>> /\ UNCHANGED reported
      /\ {"idle", "send"} \subseteq JobPhase
  BY DEF DeliveryInv, DeliveryTypeOK, SendAgain, JobPhase
<1>2. CASE Written(TRUE) /\ Phase("idle")
  <2>1. DeliveryTypeOK'
    BY <1>1, <1>2, WrittenParts, PhaseChanges, DeliveryTyped
  <2>2. pressed' = pressed /\ job'.phase = "idle" /\ job'.command = job.command
    BY <1>1, <1>2, PhaseChanges DEF Written
  <2>3. QED
    BY <1>1, <1>2, <2>1, <2>2, WrittenParts, OneWritten
<1>3. CASE Written(FALSE) /\ Fails
  <2>1. Tail(job.rest) \in Seq(Slots)
    BY <1>1, DeliveryTypeParts
  <2>2. job' = [job EXCEPT !.phase = "send", !.rest = Tail(job.rest)]
    BY <1>3 DEF Fails
  <2>3. /\ job' \in [phase : JobPhase, command : Nat, rest : Seq(Slots)]
        /\ job'.phase = "send" /\ job'.command = job.command
    BY <1>1, <2>1, <2>2, JobChanges
  <2>4. DeliveryTypeOK'
    BY <1>1, <1>3, <2>3, WrittenParts, DeliveryTyped
  <2>5. pressed' = pressed \cup {job.command}
    BY <1>3 DEF Written
  <2>6. QED
    BY <1>1, <1>3, <2>3, <2>4, <2>5, WrittenParts, OneWritten
<1>4. QED
  BY <1>2, <1>3 DEF SendAgain

\* one that is given up,
LEMMA GivesUp == DeliveryInv /\ DrainGivenUp => DeliveryInv'
<1> SUFFICES ASSUME DeliveryInv, DrainGivenUp
             PROVE  DeliveryInv'
  OBVIOUS
<1>1. /\ DeliveryTypeOK /\ job.phase = "drain" /\ job.rest # <<>> /\ "send" \in JobPhase
      /\ UNCHANGED <<wire, reported, pressed>>
  BY DEF DeliveryInv, DeliveryTypeOK, DrainGivenUp, DrainTimesOut, JobPhase
<1>2. Tail(job.rest) \in Seq(Slots)
  BY <1>1, DeliveryTypeParts
<1>3. job' = [job EXCEPT !.phase = "send", !.rest = Tail(job.rest)]
  BY DEF DrainGivenUp, DrainTimesOut, Fails
<1>4. /\ job' \in [phase : JobPhase, command : Nat, rest : Seq(Slots)]
      /\ job'.phase = "send" /\ job'.command = job.command
  BY <1>1, <1>2, <1>3, JobChanges
<1>5. wire' \in [Slots -> [up : BOOLEAN, writable : BOOLEAN, sent : Seq(Nat)]]
  BY <1>1 DEF DeliveryTypeOK
<1>6. DeliveryTypeOK'
  BY <1>4, <1>5, DeliveryTyped
<1>7. QED
  BY <1>1, <1>4, <1>6, NothingWritten

\* a connection that is lost,
LEMMA LosesOne == \A c \in Slots : DeliveryInv /\ Lost(c) => DeliveryInv'
<1> SUFFICES ASSUME NEW c \in Slots, DeliveryInv, Lost(c)
             PROVE  DeliveryInv'
  OBVIOUS
<1>1. /\ DeliveryTypeOK /\ job.phase \in {"idle", "drain"} /\ UNCHANGED <<reported, pressed>>
      /\ wire' = [wire EXCEPT ![c].up = FALSE, ![c].writable = FALSE]
  BY DEF DeliveryInv, Lost, SocketsHeard
<1>2. /\ wire' \in [Slots -> [up : BOOLEAN, writable : BOOLEAN, sent : Seq(Nat)]]
      /\ \A o \in Slots : wire'[o].sent = wire[o].sent
  BY <1>1 DEF DeliveryTypeOK
<1>3. PICK p : p = IF job.phase = "drain" /\ c = Current THEN "send" ELSE job.phase
  OBVIOUS
<1>4. PICK rest : rest = Without(job.rest, c)
  OBVIOUS
<1>5. job' = [job EXCEPT !.phase = p, !.rest = rest]
  BY <1>1, <1>3, <1>4 DEF Lost, LossFails, DeliveryTypeOK
<1>6. p \in JobPhase /\ (p = "idle" <=> job.phase = "idle") /\ p # "again"
  BY <1>1, <1>3 DEF JobPhase
<1>7. rest \in Seq(Slots) /\ (p = "drain" => rest # <<>>)
  <2>1. job.rest \in Seq(Slots) /\ (job.phase = "drain" => job.rest # <<>>)
    BY <1>1, DeliveryTypeParts
  <2>2. p = "drain" => job.phase = "drain" /\ c # Head(job.rest)
    BY <1>1, <1>3 DEF Current
  <2>3. QED
    BY <1>4, <2>1, <2>2, WithoutLists
<1>8. /\ job' \in [phase : JobPhase, command : Nat, rest : Seq(Slots)]
      /\ job'.phase = p /\ job'.rest = rest /\ job'.command = job.command
  BY <1>1, <1>5, <1>6, <1>7, JobChanges
<1>9. DeliveryTypeOK'
  BY <1>2, <1>6, <1>7, <1>8, DeliveryTyped
<1>10. QED
  BY <1>1, <1>2, <1>6, <1>8, <1>9, NothingWritten

\* one that is up again,
LEMMA ConnectsOne == \A c \in Slots : DeliveryInv /\ Connected(c) => DeliveryInv'
<1> SUFFICES ASSUME NEW c \in Slots, DeliveryInv, Connected(c)
             PROVE  DeliveryInv'
  OBVIOUS
<1>1. /\ DeliveryTypeOK /\ UNCHANGED <<job, reported, pressed>>
      /\ wire' = [wire EXCEPT ![c].up = TRUE, ![c].writable = TRUE]
  BY DEF DeliveryInv, Connected
<1>2. /\ wire' \in [Slots -> [up : BOOLEAN, writable : BOOLEAN, sent : Seq(Nat)]]
      /\ \A o \in Slots : wire'[o].sent = wire[o].sent
  BY <1>1 DEF DeliveryTypeOK
<1>3. DeliveryTypeOK'
  BY <1>1, <1>2 DEF DeliveryTypeOK
<1>4. QED
  BY <1>1, <1>2, <1>3, NothingWritten

\* and one that has drained.
LEMMA DrainsOne == \A c \in Slots : DeliveryInv /\ Drained(c) => DeliveryInv'
<1> SUFFICES ASSUME NEW c \in Slots, DeliveryInv, Drained(c)
             PROVE  DeliveryInv'
  OBVIOUS
<1>1. /\ DeliveryTypeOK /\ UNCHANGED <<reported, pressed>> /\ "again" \in JobPhase
      /\ wire' = [wire EXCEPT ![c].writable = TRUE]
      /\ IF job.phase = "drain" /\ c = Current THEN Phase("again") ELSE UNCHANGED job
  BY DEF DeliveryInv, Drained, JobPhase
<1>2. /\ wire' \in [Slots -> [up : BOOLEAN, writable : BOOLEAN, sent : Seq(Nat)]]
      /\ \A o \in Slots : wire'[o].sent = wire[o].sent
  BY <1>1 DEF DeliveryTypeOK
<1>3. CASE job.phase = "drain" /\ c = Current
  <2>1. /\ job' \in [phase : JobPhase, command : Nat, rest : Seq(Slots)]
        /\ job'.phase = "again" /\ job'.rest = job.rest /\ job'.command = job.command
    BY <1>1, <1>3, PhaseChanges
  <2>2. job.rest # <<>>
    BY <1>1, <1>3, DeliveryTypeParts
  <2>3. DeliveryTypeOK'
    BY <1>2, <2>1, <2>2, DeliveryTyped
  <2>4. QED
    BY <1>1, <1>2, <1>3, <2>1, <2>3, NothingWritten
<1>4. CASE ~(job.phase = "drain" /\ c = Current)
  <2>1. UNCHANGED job
    BY <1>1, <1>4
  <2>2. DeliveryTypeOK'
    BY <1>1, <1>2, <2>1 DEF DeliveryTypeOK
  <2>3. QED
    BY <1>1, <1>2, <2>1, <2>2, NothingWritten
<1>5. QED
  BY <1>3, <1>4

\* At the start nothing was handed over.
LEMMA DeliveryStarts == DeliveryInit => DeliveryInv
<1> SUFFICES ASSUME DeliveryInit
             PROVE  DeliveryInv
  OBVIOUS
<1>1. /\ \A c \in Slots : wire[c].sent = <<>>
      /\ wire \in [Slots -> [up : BOOLEAN, writable : BOOLEAN, sent : Seq(Nat)]]
  <2>1. PICK R : R = {[up |-> b, writable |-> b, sent |-> <<>>] : b \in BOOLEAN}
    OBVIOUS
  <2>2. wire \in [Slots -> R]
    BY <2>1 DEF DeliveryInit
  <2>3. \A r \in R : r.sent = <<>> /\ r \in [up : BOOLEAN, writable : BOOLEAN, sent : Seq(Nat)]
    <3>1. <<>> \in Seq(Nat)
      OBVIOUS
    <3>2. \A b \in BOOLEAN : \A s \in Seq(Nat) :
            [up |-> b, writable |-> b, sent |-> s] \in [up : BOOLEAN, writable : BOOLEAN, sent : Seq(Nat)]
      OBVIOUS
    <3>3. ASSUME NEW r \in R
          PROVE  r.sent = <<>> /\ r \in [up : BOOLEAN, writable : BOOLEAN, sent : Seq(Nat)]
      <4>1. PICK b \in BOOLEAN : r = [up |-> b, writable |-> b, sent |-> <<>>]
        BY <2>1, Zenon
      <4>2. r.sent = <<>>
        BY <4>1
      <4>3. r \in [up : BOOLEAN, writable : BOOLEAN, sent : Seq(Nat)]
        BY <3>1, <3>2, <4>1, Zenon
      <4>4. QED
        BY <4>2, <4>3
    <3>4. QED
      BY <3>3
  <2>4. QED
    BY <2>2, <2>3
<1>2. /\ job.phase = "idle" /\ job.command = 0 /\ reported = {} /\ pressed = {}
      /\ job \in [phase : JobPhase, command : Nat, rest : Seq(Slots)]
  BY DEF DeliveryInit, JobPhase
<1>3. DeliveryTypeOK
  BY <1>1, <1>2 DEF DeliveryTypeOK
<1>4. HandedOver /\ UnderWay
  BY <1>1, <1>2 DEF HandedOver, UnderWay
<1>5. Done = {}
  BY <1>2 DEF Done
<1>6. InOrder
  BY <1>1 DEF InOrder
<1>7. QED
  BY <1>3, <1>4, <1>5, <1>6, AccountedParts DEF DeliveryInv

\* Every command that was handed over was written or is reported, once where no back
\* pressure was met, and no connection carries an older command after a newer one, for any
\* number of connections, commands and losses (cgateConnection.js:101-149,
\* cgateConnectionPool.js:205-246, cgateWebBridge.js:899-917).
THEOREM CommandsAreAccounted == DeliverySpec => []CommandsAccounted
<1>1. DeliveryInv /\ [DeliveryNext]_deliveryVars => DeliveryInv'
  <2> SUFFICES ASSUME DeliveryInv, [DeliveryNext]_deliveryVars
               PROVE  DeliveryInv'
    OBVIOUS
  <2>1. CASE HandOver
    BY <2>1, HandsOver
  <2>2. CASE Report
    BY <2>2, Reports
  <2>3. CASE FirstSend
    BY <2>3, SendsFirst
  <2>4. CASE SendAgain
    BY <2>4, SendsAgain
  <2>5. CASE DrainGivenUp
    BY <2>5, GivesUp
  <2>6. CASE \E c \in Slots : Lost(c) \/ Connected(c) \/ Drained(c)
    BY <2>6, LosesOne, ConnectsOne, DrainsOne
  <2>7. CASE UNCHANGED deliveryVars
    <3>1. UNCHANGED <<wire, job, reported, pressed>>
      BY <2>7 DEF deliveryVars
    <3>2. DeliveryTypeOK'
      BY <3>1 DEF DeliveryTypeOK, DeliveryInv
    <3>3. QED
      BY <3>1, <3>2, NothingWritten
  <2>8. QED
    BY <2>1, <2>2, <2>3, <2>4, <2>5, <2>6, <2>7 DEF DeliveryNext
<1>2. DeliveryInv => CommandsAccounted
  BY DEF DeliveryInv
<1>3. QED
  BY <1>1, <1>2, DeliveryStarts, PTL DEF DeliverySpec

-----------------------------------------------------------------------------
(* The steps discovery is made of *)

EntityType == Applications \cup LightTypes \cup Configured \cup {"binary_sensor"} \cup Kinds
Component  == LightComponents \cup InputComponents \cup HvacComponents
                \cup {"event", "companion_button", "companion_scene", "button", "scene", "switch", "cover"}
                \cup ZoneConfigs \cup {"conditions", "password", "alarm", "bypass"} \cup AirconConfigs
                \cup ClockConfigs \cup TemperatureConfigs
Name   == DOMAIN Prefix \cup {None}
Topic  == Component \X (Groups \cup Entities)
Config == [type : EntityType, name : Name]
Map    == UNION {[T -> Config] : T \in SUBSET Topic}

\* What a process of discovery keeps.
Process == [published : SUBSET Topic, eventDriven : SUBSET Topic, cache : Map, seen : SUBSET Entities,
            treeGroups : SUBSET Groups, unlisted : SUBSET Groups, retained : Map]

\* Maps are functions from some topics to configs.
LEMMA MapIs ==
  /\ \A f \in Map : DOMAIN f \in SUBSET Topic /\ f \in [DOMAIN f -> Config]
  /\ \A T \in SUBSET Topic : \A f \in [T -> Config] : f \in Map
BY DEF Map

\* r is s but for what is published and retained.
SameMemory(r, s) == /\ r.eventDriven = s.eventDriven /\ r.seen = s.seen
                    /\ r.treeGroups = s.treeGroups /\ r.unlisted = s.unlisted

\* f is g with the configs c, without those of the topics T.
Updated(f, g, c, T) ==
  /\ DOMAIN f = (DOMAIN c \cup DOMAIN g) \ T
  /\ \A t \in DOMAIN f : f[t] = IF t \in DOMAIN c THEN c[t] ELSE g[t]

\* Maps joined,
LEMMA OverFacts ==
  ASSUME NEW c \in Map, NEW f \in Map
  PROVE  Over(c, f) \in Map /\ Updated(Over(c, f), f, c, {})
<1>1. Over(c, f) \in [DOMAIN c \cup DOMAIN f -> Config]
  BY MapIs DEF Over
<1>2. QED
  BY <1>1, MapIs DEF Over, Updated

\* and restricted.
LEMMA WithoutFacts ==
  ASSUME NEW T, NEW f \in Map
  PROVE  WithoutTopics(f, T) \in Map /\ Updated(WithoutTopics(f, T), f, <<>>, T)
<1>1. WithoutTopics(f, T) \in [DOMAIN f \ T -> Config]
  BY MapIs DEF WithoutTopics, Restrict
<1>2. QED
  BY <1>1, MapIs DEF WithoutTopics, Restrict, Updated

\* Publishing configs: they come, the rest stays.
LEMMA PutFacts ==
  ASSUME NEW s \in Process, NEW c \in Map
  PROVE  /\ Put(s, c) \in Process /\ SameMemory(Put(s, c), s) /\ Put(s, c).published = s.published
         /\ Updated(Put(s, c).cache, s.cache, c, {}) /\ Updated(Put(s, c).retained, s.retained, c, {})
<1> DEFINE k == Over(c, s.cache)
           q == Over(c, s.retained)
           r == Put(s, c)
<1>1. s.cache \in Map /\ s.retained \in Map
  BY DEF Process
<1>2. k \in Map /\ q \in Map /\ Updated(k, s.cache, c, {}) /\ Updated(q, s.retained, c, {})
  BY <1>1, OverFacts
<1>3. r = [s EXCEPT !.cache = k, !.retained = q]
  BY DEF Put
<1> HIDE DEF k, q, r
<1>4. /\ r \in Process /\ r.cache = k /\ r.retained = q /\ r.published = s.published
      /\ r.eventDriven = s.eventDriven /\ r.seen = s.seen
      /\ r.treeGroups = s.treeGroups /\ r.unlisted = s.unlisted
  BY <1>2, <1>3 DEF Process
<1>5. QED
  BY <1>2, <1>4 DEF SameMemory, r

\* Clearing topics: they go, the rest stays.
LEMMA ClearFacts ==
  ASSUME NEW s \in Process, NEW T
  PROVE  /\ Clear(s, T) \in Process /\ SameMemory(Clear(s, T), s)
         /\ Clear(s, T).published = s.published \ T
         /\ Updated(Clear(s, T).cache, s.cache, <<>>, T)
         /\ Updated(Clear(s, T).retained, s.retained, <<>>, T)
<1> DEFINE k == WithoutTopics(s.cache, T)
           q == WithoutTopics(s.retained, T)
           r == Clear(s, T)
<1>1. s.cache \in Map /\ s.retained \in Map
  BY DEF Process
<1>2. k \in Map /\ q \in Map /\ Updated(k, s.cache, <<>>, T) /\ Updated(q, s.retained, <<>>, T)
  BY <1>1, WithoutFacts
<1>3. r = [s EXCEPT !.published = s.published \ T, !.cache = k, !.retained = q]
  BY DEF Clear
<1> HIDE DEF k, q, r
<1>4. /\ r \in Process /\ r.cache = k /\ r.retained = q /\ r.published = s.published \ T
      /\ r.eventDriven = s.eventDriven /\ r.seen = s.seen
      /\ r.treeGroups = s.treeGroups /\ r.unlisted = s.unlisted
  BY <1>2, <1>3 DEF Process
<1>5. QED
  BY <1>2, <1>4 DEF SameMemory, r
-----------------------------------------------------------------------------
(* The types of groups *)

\* The types a group can be published with.
LightingTypes == LightTypes \cup {"binary_sensor"} \cup Configured
GroupType(g)  == IF Application[g] = "lighting" THEN LightingTypes ELSE {Application[g]}

\* Groups of these applications are published.
Publishable == {g \in Groups : Application[g] \notin {"tilt", "other"}}

\* A group gets one of its types.
LEMMA GroupTypesHold ==
  ASSUME NEW g \in Publishable, NEW name, NEW units
  PROVE  TypeOf(g, name, units) \in GroupType(g) /\ TypeOf(g, name, units) \in EntityType
<1>1. \A o, n, u : LightingType(o, n, u, options) \in LightingTypes
  BY DEF LightingType, LightingTypes, LightTypes
<1>2. TypeOf(g, name, units) \in GroupType(g)
  BY <1>1 DEF TypeOf, GroupType
<1>3. Application[g] \in Applications /\ LightingTypes \subseteq EntityType
  BY ApplicationAssumption DEF Publishable, Applications, LightingTypes, Configured, EntityType, LightTypes
<1>4. QED
  BY <1>2, <1>3 DEF GroupType, EntityType

\* The topics of a group are about it, there is one at least, and none of them is stale.
LEMMA GroupTopicFacts ==
  ASSUME NEW g \in Publishable, NEW type \in GroupType(g)
  PROVE  /\ TopicsOf(g, type) \subseteq Topic
         /\ \A t \in TopicsOf(g, type) : t[2] = g /\ t \notin StaleTopics(g, type)
         /\ \A t \in StaleTopics(g, type) : t[2] = g
<1>1. g \in Groups /\ Application[g] \in Applications
      /\ Application[g] # "tilt" /\ Application[g] # "other"
  BY ApplicationAssumption DEF Publishable
<1>2. type \in LightingTypes \cup (Applications \ {"lighting", "tilt", "other"})
  BY <1>1 DEF GroupType
<1>3. /\ Components(type, options) \subseteq Component
      /\ type \in LightTypes => Components(type, options) = {"light"}
      /\ type \notin LightTypes => "light" \notin Components(type, options)
  BY <1>2 DEF LightingTypes, Applications, LightTypes, Configured, Components, Component, LightComponents,
              InputComponents, HvacComponents, TriggerComponents
<1>4. TopicsOf(g, type) = Components(type, options) \X {g}
  BY DEF TopicsOf
<1>5. TopicsOf(g, type) \subseteq Topic /\ \A t \in TopicsOf(g, type) : t[2] = g
  BY <1>1, <1>3, <1>4 DEF Topic
<1>6. ASSUME NEW t \in TopicsOf(g, type)
      PROVE  t \notin StaleTopics(g, type)
  <2>1. t[1] \in Components(type, options)
    BY <1>4
  <2>2. \A u \in StaleTopics(g, type) : u[1] = (IF type \in LightTypes THEN "binary_sensor" ELSE "light")
    BY DEF StaleTopics
  <2>3. QED
    BY <1>3, <2>1, <2>2
<1>7. \A t \in StaleTopics(g, type) : t[2] = g
  BY DEF StaleTopics
<1>8. QED
  BY <1>5, <1>6, <1>7
\* r is s with the groups G published as the topics T, each with its type.
GroupsPublished(r, s, G, type, T) ==
  /\ r \in Process /\ SameMemory(r, s)
  /\ T \in SUBSET Topic /\ \A t \in T : t[2] \in G /\ r.cache[t].type = type[t[2]]
  /\ T \subseteq DOMAIN r.cache /\ T \subseteq DOMAIN r.retained
  /\ \A t \in T : r.retained[t] = r.cache[t]
  /\ \A g \in G : StaleTopics(g, type[g]) \cap DOMAIN r.retained = {}
  /\ \E stale : /\ \A t \in stale : t[2] \in G /\ t \notin T
                /\ r.published = s.published \ stale
                /\ DOMAIN r.cache = (T \cup DOMAIN s.cache) \ stale
                /\ DOMAIN r.retained = (T \cup DOMAIN s.retained) \ stale
  /\ \A t \in DOMAIN r.cache \ T : r.cache[t] = s.cache[t]
  /\ \A t \in DOMAIN r.retained \ T : r.retained[t] = s.retained[t]

\* Publishing groups: their topics come, with what they mean, and what they supersede goes.
LEMMA PublishGroupsFacts ==
  ASSUME NEW s \in Process, NEW G \in SUBSET Publishable, NEW treeName \in [Groups -> Name], NEW units,
         LabelData(labels)
  PROVE  /\ GroupsPublished(PublishGroups(s, G, treeName, units), s, G, Types(G, treeName, units),
                            GroupTopics(G, Types(G, treeName, units)))
         /\ \A g \in G : Types(G, treeName, units)[g] = TypeOf(g, treeName[g], units)
         /\ \A g \in G : Types(G, treeName, units)[g] \in GroupType(g)
<1> DEFINE type == Types(G, treeName, units)
           name == [g \in G |-> GroupName(g, treeName[g])]
           T == GroupTopics(G, type)
           stale == UNION {StaleTopics(g, type[g]) : g \in G}
           c == Payloads(T, type, name)
           m == Put(s, c)
           r == Clear(m, stale)
<1>1. G \subseteq Groups
  BY DEF Publishable
<1>2. \A g \in G : type[g] = TypeOf(g, treeName[g], units)
  BY DEF Types
<1>3. \A g \in G : type[g] \in GroupType(g) /\ type[g] \in EntityType
  BY <1>2, GroupTypesHold
<1>4. \A g \in G : name[g] \in Name
  BY <1>1 DEF GroupName, LabelData, Name
<1>5. \A t \in T : \E g \in G : t \in TopicsOf(g, type[g])
  BY DEF GroupTopics
<1>6. \A t \in stale : \E g \in G : t \in StaleTopics(g, type[g])
  OBVIOUS
<1>7. r = PublishGroups(s, G, treeName, units)
  BY DEF PublishGroups
<1>8. T \subseteq Topic /\ \A t \in T : t[2] \in G /\ t \in TopicsOf(t[2], type[t[2]])
  BY <1>3, <1>5, GroupTopicFacts
<1>9. \A t \in stale : t[2] \in G /\ t \in StaleTopics(t[2], type[t[2]])
  BY <1>3, <1>6, GroupTopicFacts
<1>10. \A t \in stale : t \notin T
  BY <1>3, <1>8, <1>9, GroupTopicFacts
<1>11. c \in [T -> Config] /\ \A t \in T : c[t].type = type[t[2]]
  BY <1>3, <1>4, <1>8 DEF Payloads, Config
<1>12. c \in Map /\ DOMAIN c = T
  BY <1>8, <1>11, MapIs
<1>13. \A g \in G : StaleTopics(g, type[g]) \subseteq stale
  OBVIOUS
<1> HIDE DEF type, name, T, stale, c, m, r
<1>14. /\ m \in Process /\ SameMemory(m, s) /\ m.published = s.published
       /\ Updated(m.cache, s.cache, c, {}) /\ Updated(m.retained, s.retained, c, {})
  BY <1>12, PutFacts DEF m
<1>15. /\ r \in Process /\ SameMemory(r, m) /\ r.published = m.published \ stale
       /\ Updated(r.cache, m.cache, <<>>, stale) /\ Updated(r.retained, m.retained, <<>>, stale)
  BY <1>14, ClearFacts DEF r
<1>16. DOMAIN <<>> = {}
  OBVIOUS
<1>17. /\ DOMAIN r.cache = (T \cup DOMAIN s.cache) \ stale
       /\ DOMAIN r.retained = (T \cup DOMAIN s.retained) \ stale
  BY <1>12, <1>14, <1>15, <1>16 DEF Updated
<1>18. /\ \A t \in DOMAIN r.cache : r.cache[t] = IF t \in T THEN c[t] ELSE s.cache[t]
       /\ \A t \in DOMAIN r.retained : r.retained[t] = IF t \in T THEN c[t] ELSE s.retained[t]
  BY <1>12, <1>14, <1>15, <1>16 DEF Updated
<1>19. T \subseteq DOMAIN r.cache /\ T \subseteq DOMAIN r.retained
  BY <1>10, <1>17
<1>20. \A g \in G : StaleTopics(g, type[g]) \cap DOMAIN r.retained = {}
  BY <1>13, <1>17
<1>21. \E stl : /\ \A t \in stl : t[2] \in G /\ t \notin T
                /\ r.published = s.published \ stl
                /\ DOMAIN r.cache = (T \cup DOMAIN s.cache) \ stl
                /\ DOMAIN r.retained = (T \cup DOMAIN s.retained) \ stl
  <2> WITNESS stale
  <2> QED
    BY <1>9, <1>10, <1>14, <1>15, <1>17
<1>22. SameMemory(r, s)
  BY <1>14, <1>15 DEF SameMemory
<1>23. GroupsPublished(r, s, G, type, T)
  BY <1>8, <1>11, <1>15, <1>18, <1>19, <1>20, <1>21, <1>22 DEF GroupsPublished
<1>24. QED
  BY <1>2, <1>3, <1>7, <1>23 DEF type, T
-----------------------------------------------------------------------------
(* Entities that announce themselves *)

\* The topics of entities are about them; of a zone all are retracted.
LEMMA EntityTopicFacts ==
  ASSUME NEW E \in SUBSET Entities
  PROVE  /\ EntityTopics(E) \in SUBSET Topic
         /\ \A t \in EntityTopics(E) : t[2] \in E /\ t \in EntityTopics({t[2]})
         /\ \A e \in E : EntityTopics({e}) \subseteq EntityTopics(E)
         /\ \A t \in RetractedTopics(E) : t[2] \in E /\ t \in EntityTopics({t[2]})
         /\ \A e \in E : Kind[e] = "zone" => EntityTopics({e}) \subseteq RetractedTopics(E)
<1>1. \A e \in E : e \in Entities /\ Kind[e] \in Kinds
  BY KindAssumption
<1>2. \A k \in Kinds : Configs(k) \subseteq Component
  BY DEF Kinds, Configs, Component, ZoneConfigs, PanelConfigs, AlarmConfigs, BypassConfigs, AirconConfigs,
         ClockConfigs, TemperatureConfigs, MeasurementConfigs, InterfaceConfigs, InputComponents
<1>3. \A k \in Kinds : Retracted(k) \subseteq Configs(k)
  BY DEF Kinds, Configs, ZoneConfigs, PanelConfigs, AlarmConfigs, AirconConfigs,
         ClockConfigs, TemperatureConfigs, MeasurementConfigs, InterfaceConfigs,
         Retracted, ZoneRetracted, PanelRetracted, AirconRetracted, ClockRetracted,
         TemperatureRetracted, MeasurementRetracted
<1>4. Retracted("zone") = Configs("zone")
  BY DEF Retracted, Configs, ZoneRetracted, ZoneConfigs
<1>5. \A t : t \in EntityTopics(E) <=> \E e \in E : t \in Configs(Kind[e]) \X {e}
  BY DEF EntityTopics
<1>6. \A t : t \in RetractedTopics(E) <=> \E e \in E : t \in Retracted(Kind[e]) \X {e}
  BY DEF RetractedTopics
<1>7. \A e : EntityTopics({e}) = Configs(Kind[e]) \X {e}
  BY DEF EntityTopics
<1>8. EntityTopics(E) \in SUBSET Topic
  <2>1. \A e \in E : Configs(Kind[e]) \X {e} \subseteq Topic
    BY <1>1, <1>2 DEF Topic
  <2>2. QED
    BY <1>5, <2>1
<1>9. ASSUME NEW t \in EntityTopics(E)
      PROVE  t[2] \in E /\ t \in EntityTopics({t[2]})
  <2>1. PICK e \in E : t \in Configs(Kind[e]) \X {e}
    BY <1>5
  <2>2. t[2] = e
    BY <2>1
  <2>3. QED
    BY <1>7, <2>1, <2>2
<1>10. \A t \in RetractedTopics(E) : t[2] \in E /\ t \in EntityTopics({t[2]})
  BY <1>1, <1>3, <1>6, <1>7
<1>11. \A e \in E : EntityTopics({e}) \subseteq EntityTopics(E)
  BY <1>5, <1>7
<1>12. \A e \in E : Kind[e] = "zone" => EntityTopics({e}) \subseteq RetractedTopics(E)
  BY <1>4, <1>6, <1>7
<1>13. QED
  BY <1>8, <1>9, <1>10, <1>11, <1>12

\* r is s once the entities A have announced themselves with the labels l and those of R
\* were retracted.
Heard(r, s, A, R, l) ==
  LET T == EntityTopics(A)
      U == RetractedTopics(R)
  IN  /\ r \in Process
      /\ r.seen = s.seen \cup A \cup R /\ r.treeGroups = s.treeGroups /\ r.unlisted = s.unlisted
      /\ r.published = (s.published \cup T) \ U
      /\ r.eventDriven = (s.eventDriven \cup T) \ U
      /\ DOMAIN r.cache = (T \cup DOMAIN s.cache) \ U
      /\ DOMAIN r.retained = (T \cup DOMAIN s.retained) \ U
      /\ \A t \in DOMAIN r.cache : IF t \in T THEN r.cache[t].type = Kind[t[2]] /\ r.cache[t].name = l.names[t[2]]
                                   ELSE r.cache[t] = s.cache[t]
      /\ \A t \in DOMAIN r.retained : IF t \in T THEN t \in DOMAIN r.cache => r.retained[t] = r.cache[t]
                                      ELSE r.retained[t] = s.retained[t]

\* Entities that were not heard in this session announce themselves, unless excluded.
LEMMA EnsureFacts ==
  ASSUME NEW s \in Process, NEW E \in SUBSET Entities, NEW l, LabelData(l)
  PROVE  \E A, R \in SUBSET E :
           /\ A \cup R = E \ s.seen /\ A \cap R = {} /\ R \subseteq l.exclude
           /\ Heard(Ensure(s, E, l), s, A, R, l)
<1> DEFINE R == {e \in E \ s.seen : e \in l.exclude /\ Kind[e] # "cni"}
           A == (E \ s.seen) \ R
           T == EntityTopics(A)
           U == RetractedTopics(R)
           c == Payloads(T, Kind, l.names)
           m == Put(s, c)
           a == Announce(s, A, l)
           x == Clear(a, U)
           r == Retract(a, R)
<1>1. r = Ensure(s, E, l)
  BY DEF Ensure
<1>2. /\ A \in SUBSET E /\ R \in SUBSET E /\ A \cup R = E \ s.seen /\ A \cap R = {}
      /\ R \subseteq l.exclude
  OBVIOUS
<1> HIDE DEF A, R
<1>3. T \in SUBSET Topic /\ \A t \in T : t[2] \in A
  BY <1>2, EntityTopicFacts
<1>4. /\ c \in [T -> Config]
      /\ \A t \in T : c[t].type = Kind[t[2]] /\ c[t].name = l.names[t[2]]
  <2>1. \A e \in A : Kind[e] \in EntityType /\ l.names[e] \in Name
    BY <1>2, KindAssumption DEF EntityType, LabelData, Name
  <2>2. QED
    BY <1>3, <2>1 DEF Payloads, Config
<1>5. c \in Map /\ DOMAIN c = T
  BY <1>3, <1>4, MapIs
<1>6. a = [m EXCEPT !.published = @ \cup T, !.eventDriven = @ \cup T, !.seen = @ \cup A]
  BY DEF Announce
<1>7. r = [x EXCEPT !.eventDriven = @ \ U, !.seen = @ \cup R]
  BY DEF Retract
<1> HIDE DEF T, U, c, m, a, x, r
<1>8. /\ m \in Process /\ SameMemory(m, s) /\ m.published = s.published
      /\ Updated(m.cache, s.cache, c, {}) /\ Updated(m.retained, s.retained, c, {})
  BY <1>5, PutFacts DEF m
<1>9. /\ a \in Process /\ a.published = m.published \cup T /\ a.eventDriven = m.eventDriven \cup T
      /\ a.seen = m.seen \cup A /\ a.treeGroups = m.treeGroups /\ a.unlisted = m.unlisted
      /\ a.cache = m.cache /\ a.retained = m.retained
  BY <1>2, <1>3, <1>6, <1>8 DEF Process
<1>10. /\ x \in Process /\ SameMemory(x, a) /\ x.published = a.published \ U
       /\ Updated(x.cache, a.cache, <<>>, U) /\ Updated(x.retained, a.retained, <<>>, U)
  BY <1>9, ClearFacts DEF x
<1>11. /\ r \in Process /\ r.published = x.published /\ r.eventDriven = x.eventDriven \ U
       /\ r.seen = x.seen \cup R /\ r.treeGroups = x.treeGroups /\ r.unlisted = x.unlisted
       /\ r.cache = x.cache /\ r.retained = x.retained
  BY <1>2, <1>7, <1>10 DEF Process
<1>12. DOMAIN <<>> = {}
  OBVIOUS
<1>13. /\ DOMAIN r.cache = (T \cup DOMAIN s.cache) \ U
       /\ DOMAIN r.retained = (T \cup DOMAIN s.retained) \ U
  BY <1>5, <1>8, <1>9, <1>10, <1>11, <1>12 DEF Updated
<1>14. /\ \A t \in DOMAIN r.cache : r.cache[t] = IF t \in T THEN c[t] ELSE s.cache[t]
       /\ \A t \in DOMAIN r.retained : r.retained[t] = IF t \in T THEN c[t] ELSE s.retained[t]
  BY <1>5, <1>8, <1>9, <1>10, <1>11, <1>12 DEF Updated
<1>15. /\ r.seen = s.seen \cup A \cup R /\ r.treeGroups = s.treeGroups /\ r.unlisted = s.unlisted
       /\ r.published = (s.published \cup T) \ U
       /\ r.eventDriven = (s.eventDriven \cup T) \ U
  BY <1>8, <1>9, <1>10, <1>11 DEF SameMemory
<1>16. Heard(r, s, A, R, l)
  BY <1>4, <1>11, <1>13, <1>14, <1>15 DEF Heard, T, U
<1>17. QED
  BY <1>1, <1>2, <1>16
-----------------------------------------------------------------------------
(* The invariant *)

\* What is published of an entity is its own, of its kind, and protected from the sweep.
Own(s) == \A t \in s.published : t[2] \in Entities =>
            t \in EntityTopics({t[2]}) /\ t \in s.eventDriven /\ s.cache[t].type = Kind[t[2]]

\* Nothing else is protected but groups that no tree listed.
Driven(s) == \A t \in s.eventDriven : t[2] \in Entities \cup s.unlisted

\* The cache has what is published, and the broker what the cache has.
Exact(s)   == DOMAIN s.cache = s.published
Mirrors(s) == \A t \in DOMAIN s.cache : t \in DOMAIN s.retained /\ s.retained[t] = s.cache[t]

\* The groups that a tree listed, or a label.
Listed(s) == Groups \ s.unlisted

\* A group has one type, and nothing is retained of the types it supersedes.
Single(s)  == \A t, u \in s.published : t[2] \in Listed(s) /\ u[2] = t[2] => s.cache[u].type = s.cache[t].type
NoStale(s) == \A t \in s.published : t[2] \in Listed(s) =>
                StaleTopics(t[2], s.cache[t].type) \cap ({t} \cup DOMAIN s.retained) = {}

\* A zone that counts as announced shows the name it has in l.
Named(s, l) == \A t \in s.published : t[2] \in Zones /\ t[2] \in s.seen => s.cache[t].name = l.names[t[2]]

\* What is a read-only sensor on the word of the units of the last run, ru, has no load.
NoLoad(s, ru) == \A t \in s.published :
  /\ s.cache[t].type = "binary_sensor" /\ t[2] \notin s.unlisted /\ ru # None /\ ru.types[t[2]] # "binary_sensor"
  => ~HasLoad(t[2], ru.units)

Right(s, l, lo, ru) ==
  /\ s \in Process /\ LabelData(l)
  /\ Own(s) /\ Driven(s) /\ Exact(s) /\ (~lo => Mirrors(s))
  /\ Single(s) /\ NoStale(s) /\ Named(s, l) /\ NoLoad(s, ru)

EntityInv == Right(d, labels, lost, run)

\* While the options stay the invariant reads the same after a step.
LEMMA RightNext ==
  ASSUME options' = options, Right(d', labels', lost', run')
  PROVE  EntityInv'
<1>1. /\ \A E : EntityTopics(E)' = EntityTopics(E)
      /\ \A g, type : StaleTopics(g, type)' = StaleTopics(g, type)
  BY DEF EntityTopics, StaleTopics, Configs, PanelConfigs, AlarmConfigs, BypassConfigs
<1>2. QED
  BY <1>1 DEF EntityInv, Right, Own, Driven, Exact, Mirrors, Listed, Single, NoStale, Named, NoLoad
-----------------------------------------------------------------------------
(* What the steps keep *)

\* Entities and groups are told apart by what a topic is about.
LEMMA TopicsApart ==
  /\ \A t \in Topic : t[2] \in Groups \cup Entities
  /\ \A g, e : g \in Groups /\ e \in Entities => g # e
  /\ \A g, type : \A t \in StaleTopics(g, type) : t[2] = g
<1>1. \A t \in Topic : t[2] \in Groups \cup Entities
  BY DEF Topic
<1>2. \A g, e : g \in Groups /\ e \in Entities => g # e
  BY KindAssumption
<1>3. \A g, type : \A t \in StaleTopics(g, type) : t[2] = g
  BY DEF StaleTopics
<1>4. QED
  BY <1>1, <1>2, <1>3

\* What is published is in the cache.
Cached(s) == s.published \subseteq DOMAIN s.cache

\* What entities that announce themselves or are retracted leave of the invariant.
LEMMA HeardKeeps ==
  ASSUME NEW s \in Process, NEW r, NEW l, NEW E \in SUBSET Entities, NEW A \in SUBSET E, NEW R \in SUBSET E,
         A \cup R = E \ s.seen, A \cap R = {}, Heard(r, s, A, R, l)
  PROVE  /\ Own(s) /\ Cached(s) => Own(r)
         /\ Driven(s) => Driven(r)
         /\ Exact(s) => Exact(r)
         /\ Mirrors(s) => Mirrors(r)
         /\ Exact(s) /\ Single(s) => Single(r)
         /\ Exact(s) /\ NoStale(s) => NoStale(r)
         /\ Own(s) /\ Cached(s) /\ Named(s, l) => Named(r, l)
         /\ \A ru : Exact(s) /\ NoLoad(s, ru) => NoLoad(r, ru)
<1> DEFINE T == EntityTopics(A)
           U == RetractedTopics(R)
<1>1. /\ T \subseteq Topic /\ \A t \in T : t[2] \in A /\ t[2] \in Entities /\ t \in EntityTopics({t[2]})
      /\ \A t \in U : t[2] \in R /\ t[2] \in Entities /\ t \in EntityTopics({t[2]})
      /\ \A e \in A : EntityTopics({e}) \subseteq T
      /\ \A e \in R : e \in Zones => EntityTopics({e}) \subseteq U
  <2>1. A \in SUBSET Entities /\ R \in SUBSET Entities
    OBVIOUS
  <2>2. /\ T \in SUBSET Topic /\ \A t \in T : t[2] \in A /\ t \in EntityTopics({t[2]})
        /\ \A e \in A : EntityTopics({e}) \subseteq T
    BY <2>1, EntityTopicFacts
  <2>3. /\ \A t \in U : t[2] \in R /\ t \in EntityTopics({t[2]})
        /\ \A e \in R : Kind[e] = "zone" => EntityTopics({e}) \subseteq U
    BY <2>1, EntityTopicFacts
  <2>4. QED
    BY <2>1, <2>2, <2>3 DEF Zones
<1>2. /\ \A t \in T : Kind[t[2]] # "binary_sensor"
      /\ \A t \in T : t[2] \notin Groups
      /\ \A t \in T : t \notin U
  BY <1>1, TopicsApart, KindAssumption, ZenonT(60) DEF Kinds
<1>3. /\ r.seen = s.seen \cup A \cup R /\ r.treeGroups = s.treeGroups /\ r.unlisted = s.unlisted
      /\ r.published = (s.published \cup T) \ U
      /\ r.eventDriven = (s.eventDriven \cup T) \ U
      /\ DOMAIN r.cache = (T \cup DOMAIN s.cache) \ U
      /\ DOMAIN r.retained = (T \cup DOMAIN s.retained) \ U
      /\ \A t \in DOMAIN r.cache : t \in T => r.cache[t].type = Kind[t[2]] /\ r.cache[t].name = l.names[t[2]]
      /\ \A t \in DOMAIN r.cache : t \notin T => r.cache[t] = s.cache[t]
      /\ \A t \in DOMAIN r.retained : t \in T /\ t \in DOMAIN r.cache => r.retained[t] = r.cache[t]
      /\ \A t \in DOMAIN r.retained : t \notin T => r.retained[t] = s.retained[t]
  BY DEF Heard
<1>4. s.published \subseteq Topic
  BY DEF Process
<1> HIDE DEF T, U
<1>5. Listed(r) = Listed(s) /\ \A g \in Listed(s) : g \in Groups
  BY <1>3 DEF Listed
<1>6. Own(s) /\ Cached(s) => Own(r)
  <2> SUFFICES ASSUME Own(s), Cached(s), NEW t \in r.published, t[2] \in Entities
               PROVE  t \in EntityTopics({t[2]}) /\ t \in r.eventDriven /\ r.cache[t].type = Kind[t[2]]
    BY DEF Own
  <2>1. CASE t \in T
    BY <1>1, <1>2, <1>3, <2>1
  <2>2. CASE t \notin T
    <3>1. t \in s.published /\ t \notin U
      BY <1>3, <2>2
    <3>2. t \in EntityTopics({t[2]}) /\ t \in s.eventDriven /\ s.cache[t].type = Kind[t[2]]
      BY <3>1 DEF Own
    <3>3. QED
      BY <1>3, <2>2, <3>1, <3>2 DEF Cached
  <2>3. QED
    BY <2>1, <2>2
<1>7. Driven(s) => Driven(r)
  BY <1>1, <1>3 DEF Driven
<1>8. Exact(s) => Exact(r)
  BY <1>3 DEF Exact
<1>9. Mirrors(s) => Mirrors(r)
  BY <1>3 DEF Mirrors
<1>10. ASSUME Exact(s), NEW t \in r.published, t[2] \notin Entities
       PROVE  t \in s.published /\ t \notin T /\ r.cache[t] = s.cache[t]
  BY <1>1, <1>3, <1>10 DEF Exact
<1>11. Exact(s) /\ Single(s) => Single(r)
  BY <1>5, <1>10, TopicsApart DEF Single
<1>12. Exact(s) /\ NoStale(s) => NoStale(r)
  <2> SUFFICES ASSUME Exact(s), NoStale(s), NEW t \in r.published, t[2] \in Listed(s),
                      NEW u \in StaleTopics(t[2], r.cache[t].type), u \in {t} \cup DOMAIN r.retained
               PROVE  FALSE
    BY <1>5 DEF NoStale
  <2>1. t[2] \in Groups /\ t[2] \notin Entities /\ u[2] = t[2]
    BY <1>5, TopicsApart
  <2>2. u \notin T /\ u \in {t} \cup DOMAIN s.retained
    BY <1>2, <1>3, <2>1
  <2>3. QED
    BY <1>10, <2>1, <2>2 DEF NoStale
<1>13. Own(s) /\ Cached(s) /\ Named(s, l) => Named(r, l)
  <2> SUFFICES ASSUME Own(s), Cached(s), Named(s, l), NEW t \in r.published, t[2] \in Zones, t[2] \in r.seen
               PROVE  r.cache[t].name = l.names[t[2]]
    BY DEF Named
  <2>1. t \in DOMAIN r.cache
    BY <1>3 DEF Cached
  <2>2. CASE t \in T
    BY <1>3, <2>1, <2>2
  <2>3. CASE t \notin T
    <3>1. t \in s.published /\ t \notin U /\ r.cache[t] = s.cache[t]
      BY <1>3, <2>1, <2>3
    <3>2. t \in EntityTopics({t[2]})
      BY <3>1 DEF Own, Zones
    <3>3. t[2] \notin A /\ t[2] \notin R
      BY <1>1, <2>3, <3>1, <3>2
    <3>4. t[2] \in s.seen
      BY <1>3, <3>3
    <3>5. QED
      BY <3>1, <3>4 DEF Named
  <2>4. QED
    BY <2>2, <2>3
<1>14. ASSUME NEW ru, Exact(s), NoLoad(s, ru)
       PROVE  NoLoad(r, ru)
  <2> SUFFICES ASSUME NEW t \in r.published, r.cache[t].type = "binary_sensor", t[2] \notin r.unlisted,
                      ru # None, ru.types[t[2]] # "binary_sensor"
               PROVE  ~HasLoad(t[2], ru.units)
    BY DEF NoLoad
  <2>1. t \in DOMAIN r.cache
    BY <1>3, <1>14 DEF Exact
  <2>2. t \notin T
    BY <1>2, <1>3, <2>1
  <2>3. t \in s.published /\ r.cache[t] = s.cache[t] /\ t[2] \notin s.unlisted
    BY <1>3, <2>1, <2>2
  <2>4. QED
    BY <1>14, <2>3 DEF NoLoad
<1>15. QED
  BY <1>6, <1>7, <1>8, <1>9, <1>11, <1>12, <1>13, <1>14
-----------------------------------------------------------------------------
(* The steps *)

\* Entities announce themselves, with the labels the invariant knows.
LEMMA EnsureRight ==
  ASSUME NEW s, NEW l, NEW lo, NEW ru, Right(s, l, lo, ru), NEW E \in SUBSET Entities
  PROVE  Right(Ensure(s, E, l), l, lo, ru)
<1> DEFINE r == Ensure(s, E, l)
<1>1. s \in Process /\ LabelData(l)
  BY DEF Right
<1>2. PICK A \in SUBSET E, R \in SUBSET E :
        A \cup R = E \ s.seen /\ A \cap R = {} /\ R \subseteq l.exclude /\ Heard(r, s, A, R, l)
  BY <1>1, EnsureFacts
<1> HIDE DEF r
<1>3. r \in Process
  BY <1>2 DEF Heard
<1>4. Exact(s) => Cached(s)
  BY DEF Exact, Cached
<1>5. /\ Own(s) /\ Cached(s) => Own(r)
      /\ Driven(s) => Driven(r)
      /\ Exact(s) => Exact(r)
      /\ Mirrors(s) => Mirrors(r)
      /\ Exact(s) /\ Single(s) => Single(r)
      /\ Exact(s) /\ NoStale(s) => NoStale(r)
      /\ Own(s) /\ Cached(s) /\ Named(s, l) => Named(r, l)
      /\ Exact(s) /\ NoLoad(s, ru) => NoLoad(r, ru)
  BY <1>1, <1>2, HeardKeeps
<1>6. QED
  BY <1>1, <1>3, <1>4, <1>5 DEF Right, r

\* Entities stay announced when others are heard, unless they are excluded.
LEMMA HeardStays ==
  ASSUME NEW s \in Process, NEW r, NEW l, NEW E \in SUBSET Entities, NEW A \in SUBSET E, NEW R \in SUBSET E,
         R \subseteq l.exclude, Heard(r, s, A, R, l), NEW e \in Entities, e \notin l.exclude, Announced(s, e)
  PROVE  Announced(r, e)
<1>1. R \in SUBSET Entities /\ {e} \in SUBSET Entities /\ e \notin R
  OBVIOUS
<1>2. \A t \in EntityTopics({e}) : t[2] = e
  BY <1>1, EntityTopicFacts
<1>3. \A t \in RetractedTopics(R) : t[2] \in R
  BY <1>1, EntityTopicFacts
<1>4. r.published = (s.published \cup EntityTopics(A)) \ RetractedTopics(R)
  BY DEF Heard
<1>5. QED
  BY <1>1, <1>2, <1>3, <1>4 DEF Announced

\* So too through the function that ensures an entity is announced.
LEMMA EnsureStays ==
  ASSUME NEW s \in Process, NEW l, LabelData(l), NEW E \in SUBSET Entities,
         NEW e \in Entities, e \notin l.exclude, Announced(s, e)
  PROVE  Announced(Ensure(s, E, l), e)
<1>1. PICK A \in SUBSET E, R \in SUBSET E :
        A \cup R = E \ s.seen /\ A \cap R = {} /\ R \subseteq l.exclude /\ Heard(Ensure(s, E, l), s, A, R, l)
  BY EnsureFacts
<1>2. QED
  BY <1>1, HeardStays

\* Zones are forgotten whose names in the labels changed.
LEMMA ForgetRight ==
  ASSUME EntityInv, NEW Z \in SUBSET Zones, NEW l, LabelData(l),
         \A z \in Zones \ Z : l.names[z] = labels.names[z]
  PROVE  Right(Forget(Z), l, lost, run)
<1> DEFINE r == Forget(Z)
<1>1. d \in Process
  BY DEF EntityInv, Right
<1>2. r = [d EXCEPT !.seen = d.seen \ Z]
  BY DEF Forget
<1> HIDE DEF r
<1>3. /\ r \in Process /\ r.published = d.published /\ r.eventDriven = d.eventDriven /\ r.cache = d.cache
      /\ r.retained = d.retained /\ r.unlisted = d.unlisted /\ r.seen = d.seen \ Z
  BY <1>1, <1>2 DEF Process
<1>4. Named(r, l)
  BY <1>3 DEF EntityInv, Right, Named
<1>5. QED
  BY <1>3, <1>4 DEF EntityInv, Right, Own, Driven, Exact, Mirrors, Listed, Single, NoStale, NoLoad, r

\* An entity that is heard keeps the invariant,
LEMMA EntityHeardInv == EntityInv /\ (\E e \in Entities : EntityHeard(e)) => EntityInv'
<1> SUFFICES ASSUME EntityInv, NEW e \in Entities, EntityHeard(e) PROVE EntityInv'
  OBVIOUS
<1>1. /\ d' = Ensure(d, {e}, labels)
      /\ options' = options /\ labels' = labels /\ lost' = lost /\ run' = run
  BY DEF EntityHeard
<1>2. Right(Ensure(d, {e}, labels), labels, lost, run)
  BY EnsureRight DEF EntityInv
<1>3. QED
  BY <1>1, <1>2, RightNext

\* so do other labels,
LEMMA UpdateLabelsInv == EntityInv /\ (\E l \in LabelFiles : UpdateLabels(l)) => EntityInv'
<1> SUFFICES ASSUME EntityInv, NEW l \in LabelFiles, UpdateLabels(l) PROVE EntityInv'
  OBVIOUS
<1> DEFINE E == Renamed(l) \cap LabelledZones(l)
<1>1. /\ d' = Ensure(Forget(Renamed(l)), E, l) /\ labels' = l
      /\ options' = options /\ lost' = lost /\ run' = run
  BY DEF UpdateLabels
<1>2. /\ Renamed(l) \in SUBSET Zones /\ E \in SUBSET Entities /\ LabelData(l)
      /\ \A z \in Zones \ Renamed(l) : l.names[z] = labels.names[z]
  BY LabelAssumption DEF Renamed, Zones
<1>3. Right(Ensure(Forget(Renamed(l)), E, l), l, lost, run)
  BY <1>2, ForgetRight, EnsureRight
<1>4. QED
  BY <1>1, <1>3, RightNext

\* and a zone that C-Gate names.
LEMMA ZoneNamedInv ==
  EntityInv /\ (\E z \in Zones, name \in DOMAIN Prefix : ZoneNamed(z, name)) => EntityInv'
<1> SUFFICES ASSUME EntityInv, NEW z \in Zones, NEW name \in DOMAIN Prefix, ZoneNamed(z, name)
             PROVE  EntityInv'
  OBVIOUS
<1> DEFINE l == [labels EXCEPT !.names[z] = name]
<1>1. /\ d' = Ensure(Forget({z}), {z}, l) /\ labels' = l
      /\ options' = options /\ lost' = lost /\ run' = run
  BY DEF ZoneNamed
<1>2. LabelData(labels) /\ z \in Entities /\ {z} \in SUBSET Zones /\ {z} \in SUBSET Entities
  BY DEF EntityInv, Right, Zones
<1>3. LabelData(l) /\ \A y \in Zones \ {z} : l.names[y] = labels.names[y]
  <2>1. l.names = [labels.names EXCEPT ![z] = name]
    BY <1>2 DEF LabelData
  <2>2. l.names \in [Groups \cup Entities -> DOMAIN Prefix \cup {None}]
    BY <1>2, <2>1 DEF LabelData
  <2>3. l \in [names : {l.names}, types : {l.types}, exclude : {l.exclude}]
    BY <1>2 DEF LabelData
  <2>4. LabelData(l)
    BY <2>2, <2>3 DEF LabelData
  <2>5. QED
    BY <1>2, <2>1, <2>4 DEF LabelData, Zones
<1> HIDE DEF l
<1>4. Right(Ensure(Forget({z}), {z}, l), l, lost, run)
  BY <1>2, <1>3, ForgetRight, EnsureRight
<1>5. QED
  BY <1>1, <1>4, RightNext
\* Publishing groups leaves alone what is about anything else.
LEMMA PublishedElsewhere ==
  ASSUME NEW s \in Process, NEW r, NEW G \in SUBSET Groups, NEW type, NEW T,
         GroupsPublished(r, s, G, type, T)
  PROVE  /\ \A t \in Topic : t[2] \notin G =>
              /\ t \notin T
              /\ t \in r.published <=> t \in s.published
              /\ t \in DOMAIN r.cache <=> t \in DOMAIN s.cache
              /\ t \in DOMAIN r.retained <=> t \in DOMAIN s.retained
              /\ t \in DOMAIN s.cache => r.cache[t] = s.cache[t]
         /\ Exact(s) => DOMAIN r.cache = r.published \cup T
         /\ Mirrors(s) => Mirrors(r)
         /\ r.published \subseteq s.published
<1>1. PICK stale : /\ \A t \in stale : t[2] \in G /\ t \notin T
                   /\ r.published = s.published \ stale
                   /\ DOMAIN r.cache = (T \cup DOMAIN s.cache) \ stale
                   /\ DOMAIN r.retained = (T \cup DOMAIN s.retained) \ stale
  BY DEF GroupsPublished
<1>2. /\ \A t \in T : t[2] \in G /\ r.retained[t] = r.cache[t]
      /\ \A t \in DOMAIN r.cache \ T : r.cache[t] = s.cache[t]
      /\ \A t \in DOMAIN r.retained \ T : r.retained[t] = s.retained[t]
  BY DEF GroupsPublished
<1>3. \A t \in Topic : t[2] \notin G => t \notin stale /\ t \notin T
  BY <1>1, <1>2
<1>4. Mirrors(s) => Mirrors(r)
  BY <1>1, <1>2 DEF Mirrors
<1>5. Exact(s) => DOMAIN r.cache = r.published \cup T
  BY <1>1 DEF Exact
<1>6. QED
  BY <1>1, <1>2, <1>3, <1>4, <1>5

\* A group that is heard before a tree listed it keeps the invariant.
LEMMA GroupHeardInv == EntityInv /\ (\E g \in Groups : GroupHeard(g)) => EntityInv'
<1> SUFFICES ASSUME EntityInv, NEW g \in Groups, GroupHeard(g) PROVE EntityInv'
  OBVIOUS
<1> DEFINE G == {g} \ labels.exclude
           unnamed == [h \in Groups |-> None]
           type == Types(G, unnamed, {})
           T == GroupTopics(G, type)
           s == PublishGroups(d, G, unnamed, {})
           r == [s EXCEPT !.published = @ \cup T, !.eventDriven = @ \cup T, !.unlisted = @ \cup {g}]
<1>1. /\ Application[g] \notin {"trigger", "tilt", "other"} /\ d' = r
      /\ options' = options /\ labels' = labels /\ lost' = lost /\ run' = run
  BY DEF GroupHeard
<1>2. /\ G \in SUBSET Publishable /\ G \in SUBSET Groups /\ \A h \in G : h = g
      /\ unnamed \in [Groups -> Name] /\ d \in Process /\ LabelData(labels)
  BY <1>1 DEF Publishable, Name, EntityInv, Right
<1> HIDE DEF G, unnamed
<1>3. GroupsPublished(s, d, G, type, T)
  BY <1>2, PublishGroupsFacts
<1> HIDE DEF type, T, s
<1>4. /\ s \in Process /\ SameMemory(s, d) /\ T \in SUBSET Topic /\ \A t \in T : t[2] = g
  BY <1>2, <1>3 DEF GroupsPublished
<1>5. /\ \A t \in Topic : t[2] # g =>
           /\ t \notin T
           /\ t \in s.published <=> t \in d.published
           /\ t \in DOMAIN s.cache <=> t \in DOMAIN d.cache
           /\ t \in DOMAIN s.retained <=> t \in DOMAIN d.retained
           /\ t \in DOMAIN d.cache => s.cache[t] = d.cache[t]
      /\ Exact(d) => DOMAIN s.cache = s.published \cup T
      /\ Mirrors(d) => Mirrors(s)
  <2>1. /\ \A t \in Topic : t[2] \notin G =>
             /\ t \notin T
             /\ t \in s.published <=> t \in d.published
             /\ t \in DOMAIN s.cache <=> t \in DOMAIN d.cache
             /\ t \in DOMAIN s.retained <=> t \in DOMAIN d.retained
             /\ t \in DOMAIN d.cache => s.cache[t] = d.cache[t]
        /\ Exact(d) => DOMAIN s.cache = s.published \cup T
        /\ Mirrors(d) => Mirrors(s)
        /\ s.published \subseteq d.published
    BY <1>2, <1>3, PublishedElsewhere, Zenon
  <2>2. QED
    BY <1>2, <2>1
<1>6. /\ r \in Process /\ r.published = s.published \cup T /\ r.eventDriven = d.eventDriven \cup T
      /\ r.unlisted = d.unlisted \cup {g} /\ r.seen = d.seen /\ r.cache = s.cache /\ r.retained = s.retained
  BY <1>4 DEF Process, SameMemory
<1> HIDE DEF r
<1>7. /\ r.published \subseteq Topic /\ DOMAIN r.retained \subseteq Topic /\ g \notin Entities
      /\ d.eventDriven \subseteq Topic
  BY <1>2, <1>6, MapIs, TopicsApart DEF Process
<1>8. Exact(d) /\ Own(d) /\ Driven(d) /\ Single(d) /\ NoStale(d) /\ Named(d, labels) /\ NoLoad(d, run)
      /\ (~lost => Mirrors(d))
  BY DEF EntityInv, Right
<1>9. Listed(r) = Listed(d) \ {g}
  BY <1>6 DEF Listed
<1>10. \A t \in r.published : t[2] # g => t \in d.published /\ r.cache[t] = d.cache[t]
  BY <1>5, <1>6, <1>7, <1>8 DEF Exact
<1>11. Own(r) /\ Named(r, labels)
  <2>1. \A t \in r.published : t[2] \in Entities => t \in d.published /\ r.cache[t] = d.cache[t]
    BY <1>7, <1>10
  <2>2. Own(r)
    BY <1>6, <1>8, <2>1 DEF Own
  <2>3. Named(r, labels)
    BY <1>6, <1>8, <2>1 DEF Named, Zones
  <2>4. QED
    BY <2>2, <2>3
<1>12. Driven(r)
  BY <1>4, <1>6, <1>8 DEF Driven
<1>13. Exact(r) /\ (~lost => Mirrors(r))
  BY <1>5, <1>6, <1>8 DEF Exact, Mirrors
<1>14. Single(r)
  BY <1>8, <1>9, <1>10 DEF Single
<1>15. NoStale(r)
  <2> SUFFICES ASSUME NEW t \in r.published, t[2] \in Listed(r),
                      NEW u \in StaleTopics(t[2], r.cache[t].type), u \in {t} \cup DOMAIN r.retained
               PROVE  FALSE
    BY DEF NoStale
  <2>1. u[2] = t[2] /\ t[2] # g /\ t[2] \in Listed(d)
    BY <1>9, TopicsApart
  <2>2. u \in {t} \cup DOMAIN d.retained
    BY <1>5, <1>6, <1>7, <2>1
  <2>3. QED
    BY <1>8, <1>10, <2>1, <2>2 DEF NoStale
<1>16. NoLoad(r, run)
  BY <1>6, <1>8, <1>10 DEF NoLoad
<1>17. Right(r, labels, lost, run)
  BY <1>2, <1>6, <1>11, <1>12, <1>13, <1>14, <1>15, <1>16 DEF Right
<1>18. QED
  BY <1>1, <1>17, RightNext

\* So do the removal of the network, the broker without its messages, and the replay.
LEMMA ReplaysInv == EntityInv /\ (NetworkRemoved \/ BrokerLosesRetained \/ Republish) => EntityInv'
<1> SUFFICES ASSUME EntityInv PROVE (NetworkRemoved => EntityInv') /\ (BrokerLosesRetained => EntityInv')
                                    /\ (Republish => EntityInv')
  OBVIOUS
<1>1. /\ d \in Process /\ LabelData(labels) /\ Own(d) /\ Driven(d) /\ Exact(d) /\ (~lost => Mirrors(d))
      /\ Single(d) /\ NoStale(d) /\ Named(d, labels) /\ NoLoad(d, run)
  BY DEF EntityInv, Right
<1>2. d.cache \in Map /\ d.retained \in Map /\ d.published \subseteq Topic
  BY <1>1 DEF Process
<1>3. ASSUME NetworkRemoved
      PROVE  EntityInv'
  <2> DEFINE r == Clear(d, d.published)
  <2>1. /\ d' = r /\ options' = options /\ labels' = labels /\ lost' = lost /\ run' = None
    BY <1>3 DEF NetworkRemoved
  <2>2. /\ r \in Process /\ SameMemory(r, d) /\ r.published = {}
        /\ Updated(r.cache, d.cache, <<>>, d.published)
    BY <1>1, ClearFacts
  <2> HIDE DEF r
  <2>3. DOMAIN r.cache = {}
    <3>1. DOMAIN <<>> = {}
      OBVIOUS
    <3>2. QED
      BY <1>1, <2>2, <3>1 DEF Updated, Exact
  <2>4. Own(r) /\ Exact(r) /\ Mirrors(r) /\ Single(r) /\ NoStale(r) /\ Named(r, labels) /\ NoLoad(r, None)
    BY <2>2, <2>3 DEF Own, Exact, Mirrors, Single, NoStale, Named, NoLoad
  <2>5. Driven(r)
    BY <1>1, <2>2 DEF Driven, SameMemory
  <2>6. QED
    BY <1>1, <2>1, <2>2, <2>4, <2>5, RightNext DEF Right
<1>4. ASSUME BrokerLosesRetained
      PROVE  EntityInv'
  <2> DEFINE r == [d EXCEPT !.retained = <<>>]
  <2>1. /\ d' = r /\ options' = options /\ labels' = labels /\ lost' = TRUE /\ run' = run
    BY <1>4 DEF BrokerLosesRetained
  <2>2. <<>> \in [{} -> Config] /\ DOMAIN <<>> = {}
    OBVIOUS
  <2>3. <<>> \in Map
    BY <2>2, MapIs
  <2>4. /\ r \in Process /\ r.published = d.published /\ r.eventDriven = d.eventDriven /\ r.cache = d.cache
        /\ r.retained = <<>> /\ r.unlisted = d.unlisted /\ r.seen = d.seen
    BY <1>1, <2>3 DEF Process
  <2> HIDE DEF r
  <2>5. Own(r) /\ Driven(r) /\ Exact(r) /\ Single(r) /\ Named(r, labels) /\ NoLoad(r, run)
    BY <1>1, <2>4 DEF Own, Driven, Exact, Single, Listed, Named, NoLoad
  <2>6. NoStale(r)
    BY <1>1, <2>2, <2>4 DEF NoStale, Listed
  <2>7. QED
    BY <1>1, <2>1, <2>4, <2>5, <2>6, RightNext DEF Right
<1>5. ASSUME Republish
      PROVE  EntityInv'
  <2> DEFINE q == Over(d.cache, d.retained)
             r == [d EXCEPT !.retained = q]
  <2>1. /\ d' = r /\ options' = options /\ labels' = labels /\ lost' = FALSE /\ run' = run
    BY <1>5 DEF Republish
  <2>2. q \in Map /\ Updated(q, d.retained, d.cache, {})
    BY <1>2, OverFacts
  <2> HIDE DEF q
  <2>3. /\ r \in Process /\ r.published = d.published /\ r.eventDriven = d.eventDriven /\ r.cache = d.cache
        /\ r.retained = q /\ r.unlisted = d.unlisted /\ r.seen = d.seen
    BY <1>1, <2>2 DEF Process
  <2> HIDE DEF r
  <2>4. Own(r) /\ Driven(r) /\ Exact(r) /\ Single(r) /\ Named(r, labels) /\ NoLoad(r, run)
    BY <1>1, <2>3 DEF Own, Driven, Exact, Single, Listed, Named, NoLoad
  <2>5. Mirrors(r)
    BY <2>2, <2>3 DEF Mirrors, Updated
  <2>6. NoStale(r)
    <3> SUFFICES ASSUME NEW t \in d.published, t[2] \in Listed(d),
                        NEW u \in StaleTopics(t[2], d.cache[t].type), u \in {t} \cup DOMAIN d.cache
                 PROVE  FALSE
      BY <1>1, <2>2, <2>3 DEF NoStale, Updated, Listed
    <3>1. u \in d.published /\ u[2] = t[2] /\ d.cache[u].type = d.cache[t].type
      BY <1>1, TopicsApart DEF Exact, Single
    <3>2. QED
      BY <1>1, <3>1 DEF NoStale
  <2>7. QED
    BY <1>1, <2>1, <2>3, <2>4, <2>5, <2>6, RightNext DEF Right
<1>6. QED
  BY <1>3, <1>4, <1>5

-----------------------------------------------------------------------------
(* The run over the tree *)

\* The first known candidate is one of them.
LEMMA FirstKnownFacts ==
  ASSUME NEW a, NEW b, NEW c, NEW e, NEW x, x # "light", FirstKnown(<<a, b, c, e>>) = x
  PROVE  x \in {a, b, c, e}
<1> DEFINE q == <<a, b, c, e>>
           some == {i \in DOMAIN q : q[i] # None}
           first(i) == i \in some /\ \A j \in some : i <= j
<1>1. DOMAIN q = 1 .. 4 /\ q[1] = a /\ q[2] = b /\ q[3] = c /\ q[4] = e
  OBVIOUS
<1>2. some # {}
  BY DEF FirstKnown
<1>3. some \subseteq 1 .. 4
  BY <1>1
<1> HIDE DEF some
<1>4. \E i : first(i)
  <2>1. PICK i : i \in some
    BY <1>2
  <2>2. i \in {1, 2, 3, 4} /\ \A j \in some : j \in {1, 2, 3, 4}
    BY <1>3, <2>1
  <2>3. CASE 1 \in some
    BY <2>2, <2>3
  <2>4. CASE 1 \notin some /\ 2 \in some
    <3>1. \A j \in some : 2 <= j
      BY <2>2, <2>4
    <3>2. QED
      BY <2>4, <3>1
  <2>5. CASE 1 \notin some /\ 2 \notin some /\ 3 \in some
    <3>1. \A j \in some : 3 <= j
      BY <2>2, <2>5
    <3>2. QED
      BY <2>5, <3>1
  <2>6. CASE 1 \notin some /\ 2 \notin some /\ 3 \notin some
    <3>1. \A j \in some : 4 <= j
      BY <2>2, <2>6
    <3>2. 4 \in some
      BY <2>1, <2>2, <2>6
    <3>3. QED
      BY <3>1, <3>2
  <2>7. QED
    BY <2>3, <2>4, <2>5, <2>6
<1> DEFINE pick == CHOOSE i \in some : \A j \in some : i <= j
<1>5. x = q[pick]
  BY <1>2 DEF FirstKnown, some
<1>6. pick \in some
  BY <1>4
<1> HIDE DEF q, pick
<1>7. pick \in {1, 2, 3, 4}
  BY <1>3, <1>6
<1>8. QED
  BY <1>1, <1>5, <1>7

\* The units of a project, of those that are synchronised.
LEMMA PartlySyncedFacts ==
  ASSUME NEW p \in Projects, NEW synced \in SUBSET p.units
  PROVE  /\ \A v \in p.units : IF v \in synced THEN v \in PartlySynced(p.units, synced)
                               ELSE \E u \in PartlySynced(p.units, synced) :
                                      u.type = v.type /\ u.real = v.real /\ u.groups = {}
         /\ ListedGroups(PartlySynced(p.units, synced)) \subseteq {g \in Groups : Application[g] # "other"}
<1> DEFINE bare(v) == [v EXCEPT !.groups = {}]
<1>1. \A v \in p.units : v \in [type : {v.type}, real : BOOLEAN, groups : SUBSET Groups]
  BY ProjectAssumption
<1>2. ASSUME NEW v \in p.units
      PROVE  bare(v).type = v.type /\ bare(v).real = v.real /\ bare(v).groups = {}
  BY <1>1
<1>3. ASSUME NEW v \in p.units
      PROVE  IF v \in synced THEN v \in PartlySynced(p.units, synced)
             ELSE \E u \in PartlySynced(p.units, synced) : u.type = v.type /\ u.real = v.real /\ u.groups = {}
  <2>1. (IF v \in synced THEN v ELSE bare(v)) \in PartlySynced(p.units, synced)
    BY DEF PartlySynced
  <2>2. QED
    BY <1>2, <2>1
<1>4. ASSUME NEW u \in PartlySynced(p.units, synced)
      PROVE  u.groups \subseteq Groups
  <2>1. PICK v \in p.units : u = IF v \in synced THEN v ELSE bare(v)
    BY DEF PartlySynced
  <2>2. QED
    BY <1>1, <1>2, <2>1
<1>5. ListedGroups(PartlySynced(p.units, synced)) \subseteq {g \in Groups : Application[g] # "other"}
  BY <1>4 DEF ListedGroups
<1>6. QED
  BY <1>3, <1>5

\* A group becomes a read-only sensor only by an override, or when no load is on it.
LEMMA SensorHasNoLoad ==
  ASSUME NEW p \in Projects, NEW synced \in SUBSET p.units, NEW g \in Groups, NEW treeName \in Name,
         LabelData(labels), labels.types[g] # "binary_sensor",
         TypeOf(g, treeName, PartlySynced(p.units, synced)) = "binary_sensor"
  PROVE  ~HasLoad(g, p.units)
<1> DEFINE units == PartlySynced(p.units, synced)
           name == GroupName(g, treeName)
           unit == UnitType(g, units, options)
           prefix == PrefixType(name, unit, options)
<1>1. name \in Name
  BY DEF GroupName, LabelData, Name
<1>2. Application[g] = "lighting"
  BY ApplicationAssumption DEF TypeOf, Applications
<1>3. LightingType(labels.types[g], name, unit, options) = "binary_sensor"
  BY <1>2 DEF TypeOf
<1>4. prefix # "binary_sensor"
  <2>1. name # None => Prefix[name] # "binary_sensor"
    BY <1>1, PrefixAssumption DEF Name, PrefixTypes
  <2>2. None # "binary_sensor"
    BY PrefixAssumption
  <2>3. QED
    BY <2>1, <2>2 DEF PrefixType
<1>5. NameType(name, options) # "binary_sensor"
  BY PrefixAssumption DEF NameType
<1>6. unit = "binary_sensor"
  <2>1. FirstKnown(<<labels.types[g], prefix, NameType(name, options), unit>>) = "binary_sensor"
    BY <1>3 DEF LightingType
  <2> HIDE DEF unit, prefix, name
  <2>2. "binary_sensor" \in {labels.types[g], prefix, NameType(name, options), unit}
    BY <2>1, FirstKnownFacts
  <2>3. QED
    BY <1>4, <1>5, <2>2
<1>7. ~HasLoad(g, units) /\ \A u \in units : ~HasUnsyncedGroups(u)
  <2>1. None # "binary_sensor"
    BY PrefixAssumption
  <2>2. QED
    BY <1>6, <2>1 DEF UnitType
<1>8. \A u \in units : g \in u.groups => u.type \in Inputs \cup Management
  BY <1>7 DEF HasLoad, TypesOn
<1>9. ASSUME NEW v \in p.units, g \in v.groups
      PROVE  v.type \in Inputs \cup Management
  <2>1. CASE v \in synced
    BY <1>8, <1>9, <2>1, PartlySyncedFacts
  <2>2. CASE v \notin synced
    <3>1. PICK u \in units : u.type = v.type /\ u.real = v.real /\ u.groups = {}
      BY <2>2, PartlySyncedFacts
    <3>2. v.real
      BY <1>9, ProjectAssumption
    <3>3. u.type \in GrouplessInputs
      BY <1>7, <3>1, <3>2 DEF HasUnsyncedGroups
    <3>4. QED
      BY <3>1, <3>3 DEF GrouplessInputs, Inputs
  <2>3. QED
    BY <2>1, <2>2
<1>10. QED
  BY <1>9 DEF HasLoad, TypesOn

\* What a tree run makes of r, once groups and labelled zones were announced: with the topics T
\* and without what earlier runs published.
AfterRun(r, T, handled) ==
  [Clear(r, Swept(r, T)) EXCEPT !.published = @ \cup T, !.treeGroups = @ \cup handled]

\* The sweep leaves the topics of the run, and what is protected.
LEMMA SweepFacts ==
  ASSUME NEW r \in Process, NEW T \in SUBSET Topic, NEW H \in SUBSET Groups,
         DOMAIN r.cache = r.published \cup T, NEW n, n = AfterRun(r, T, H)
  PROVE  /\ n \in Process /\ n.eventDriven = r.eventDriven /\ n.seen = r.seen /\ n.unlisted = r.unlisted
         /\ n.published = T \cup (r.published \cap r.eventDriven)
         /\ DOMAIN n.cache = n.published
         /\ DOMAIN n.retained = DOMAIN r.retained \ Swept(r, T)
         /\ \A t \in DOMAIN n.cache : n.cache[t] = r.cache[t]
         /\ \A t \in DOMAIN n.retained : n.retained[t] = r.retained[t]
<1> DEFINE W == Swept(r, T)
           x == Clear(r, W)
<1>1. W = r.published \ (T \cup r.eventDriven)
  BY DEF Swept
<1>2. n = [x EXCEPT !.published = @ \cup T, !.treeGroups = @ \cup H]
  BY DEF AfterRun
<1>3. DOMAIN <<>> = {}
  OBVIOUS
<1> HIDE DEF W, x
<1>4. /\ x \in Process /\ SameMemory(x, r) /\ x.published = r.published \ W
      /\ Updated(x.cache, r.cache, <<>>, W) /\ Updated(x.retained, r.retained, <<>>, W)
  BY ClearFacts DEF x
<1>5. /\ n \in Process /\ n.published = x.published \cup T /\ n.eventDriven = x.eventDriven
      /\ n.seen = x.seen /\ n.unlisted = x.unlisted /\ n.cache = x.cache /\ n.retained = x.retained
  BY <1>2, <1>4 DEF Process
<1>6. /\ DOMAIN n.cache = DOMAIN r.cache \ W /\ DOMAIN n.retained = DOMAIN r.retained \ W
      /\ \A t \in DOMAIN n.cache : n.cache[t] = r.cache[t]
      /\ \A t \in DOMAIN n.retained : n.retained[t] = r.retained[t]
  BY <1>3, <1>4, <1>5 DEF Updated
<1>7. n.published = T \cup (r.published \cap r.eventDriven)
  BY <1>1, <1>4, <1>5
<1>8. DOMAIN n.cache = n.published
  BY <1>1, <1>6, <1>7
<1>9. QED
  BY <1>4, <1>5, <1>6, <1>7, <1>8 DEF SameMemory, W

\* The groups a run publishes, and those of them the tree or a label lists.
Handled(units) == LET listed == ListedGroups(units)
                  IN  {g \in listed : Application[g] # "tilt"} \cup Supplement(listed)
TreeNames(p, units) == [g \in Groups |-> IF g \in ListedGroups(units) THEN p.names[g] ELSE None]

\* A run publishes groups of published applications, by names.
LEMMA HandledFacts ==
  ASSUME NEW p \in Projects, NEW synced \in SUBSET p.units
  PROVE  /\ Handled(PartlySynced(p.units, synced)) \subseteq Publishable
         /\ TreeNames(p, PartlySynced(p.units, synced)) \in [Groups -> Name]
<1> DEFINE units == PartlySynced(p.units, synced)
<1>1. ListedGroups(units) \subseteq {g \in Groups : Application[g] # "other"}
  BY PartlySyncedFacts
<1>2. Handled(units) \subseteq Publishable
  BY <1>1 DEF Handled, Supplement, Lighting, Publishable
<1>3. p.names \in [Groups -> Name]
  BY ProjectAssumption DEF Name
<1>4. TreeNames(p, units) \in [Groups -> Name]
  BY <1>3 DEF TreeNames, Name
<1>5. QED
  BY <1>2, <1>4

\* The run over the tree: what is published afterwards is of the groups of the run, as it classified
\* them, or protected.
LEMMA TreeRunInv ==
  EntityInv /\ (\E p \in Projects : \E synced \in SUBSET p.units : TreeRun(p, synced)) =>
    EntityInv' /\ \A e \in Entities : e \notin labels.exclude /\ Announced(d, e) => Announced(d', e)
<1> SUFFICES ASSUME EntityInv, NEW p \in Projects, NEW synced \in SUBSET p.units, TreeRun(p, synced)
             PROVE  EntityInv' /\ \A e \in Entities : e \notin labels.exclude /\ Announced(d, e) => Announced(d', e)
  OBVIOUS
<1> DEFINE units == PartlySynced(p.units, synced)
           handled == Handled(units)
           treeName == TreeNames(p, units)
           G == handled \ labels.exclude
           type == Types(G, treeName, units)
           T == GroupTopics(G, type)
           E == LabelledZones(labels)
           r1 == PublishGroups(d, G, treeName, units)
           r2 == Ensure(r1, E, labels)
           n == AfterRun(r2, T, handled)
           ru == [units |-> p.units, types |-> labels.types]
<1>1. /\ d' = n /\ run' = ru /\ options' = options /\ labels' = labels /\ lost' = lost
  BY DEF TreeRun, Handled, TreeNames, AfterRun
<1>2. /\ d \in Process /\ LabelData(labels) /\ Own(d) /\ Driven(d) /\ Exact(d) /\ (~lost => Mirrors(d))
      /\ Named(d, labels)
  BY DEF EntityInv, Right
<1>3. /\ handled \subseteq Publishable /\ treeName \in [Groups -> Name] /\ E \in SUBSET Entities
      /\ \A g \in Publishable : g \in Groups
  BY HandledFacts DEF LabelledZones, Zones, Publishable
<1> HIDE DEF handled, treeName, E
<1>4. G \in SUBSET Publishable /\ G \in SUBSET Groups /\ handled \in SUBSET Groups
  BY <1>3
<1>5. /\ GroupsPublished(r1, d, G, type, T)
      /\ \A g \in G : type[g] = TypeOf(g, treeName[g], units)
      /\ \A g \in G : type[g] \in GroupType(g)
  BY <1>2, <1>3, <1>4, PublishGroupsFacts
<1> HIDE DEF G, type
<1>6. ASSUME NEW g \in G, NEW t \in TopicsOf(g, type[g])
      PROVE  t[2] = g /\ t \notin StaleTopics(g, type[g])
  <2>1. g \in Publishable /\ type[g] \in GroupType(g)
    BY <1>4, <1>5
  <2>2. QED
    BY <2>1, GroupTopicFacts
<1>7. \A t \in T : t[2] \in G /\ t \notin StaleTopics(t[2], type[t[2]])
  BY <1>6 DEF GroupTopics
<1> HIDE DEF T, r1
<1>8. /\ r1 \in Process /\ SameMemory(r1, d) /\ T \in SUBSET Topic /\ T \subseteq DOMAIN r1.cache
      /\ \A t \in T : t[2] \in G /\ r1.cache[t].type = type[t[2]]
      /\ \A g \in G : StaleTopics(g, type[g]) \cap DOMAIN r1.retained = {}
  BY <1>5 DEF GroupsPublished
<1>9. /\ \A t \in Topic : t[2] \notin G /\ t \in DOMAIN d.cache => r1.cache[t] = d.cache[t]
      /\ \A t \in Topic : t[2] \notin G /\ t \in d.published => t \in r1.published
      /\ DOMAIN r1.cache = r1.published \cup T
      /\ ~lost => Mirrors(r1)
      /\ r1.published \subseteq d.published
  <2>1. /\ \A t \in Topic : t[2] \notin G =>
             /\ t \notin T
             /\ t \in r1.published <=> t \in d.published
             /\ t \in DOMAIN r1.cache <=> t \in DOMAIN d.cache
             /\ t \in DOMAIN r1.retained <=> t \in DOMAIN d.retained
             /\ t \in DOMAIN d.cache => r1.cache[t] = d.cache[t]
        /\ Exact(d) => DOMAIN r1.cache = r1.published \cup T
        /\ Mirrors(d) => Mirrors(r1)
        /\ r1.published \subseteq d.published
    BY <1>2, <1>4, <1>5, PublishedElsewhere, Zenon
  <2>2. QED
    BY <1>2, <2>1
<1>10. \A t \in r1.published : t[2] \in Entities => t \in d.published /\ r1.cache[t] = d.cache[t]
  BY <1>2, <1>4, <1>8, <1>9, TopicsApart DEF Process, Exact
<1>11. Own(r1) /\ Named(r1, labels) /\ Driven(r1) /\ Cached(r1)
  <2>1. Own(r1)
    BY <1>2, <1>8, <1>10 DEF Own, SameMemory
  <2>2. Named(r1, labels)
    BY <1>2, <1>8, <1>10 DEF Named, SameMemory, Zones
  <2>3. Driven(r1)
    BY <1>2, <1>8 DEF Driven, SameMemory
  <2>4. Cached(r1)
    BY <1>9 DEF Cached
  <2>5. QED
    BY <2>1, <2>2, <2>3, <2>4
<1>12. PICK A \in SUBSET E, R \in SUBSET E :
         A \cup R = E \ r1.seen /\ A \cap R = {} /\ R \subseteq labels.exclude /\ Heard(r2, r1, A, R, labels)
  BY <1>2, <1>3, <1>8, EnsureFacts
<1> HIDE DEF r2
<1>13. /\ Own(r1) /\ Cached(r1) => Own(r2)
       /\ Driven(r1) => Driven(r2)
       /\ Mirrors(r1) => Mirrors(r2)
       /\ Own(r1) /\ Cached(r1) /\ Named(r1, labels) => Named(r2, labels)
  BY <1>3, <1>8, <1>12, HeardKeeps
<1>14. /\ r2 \in Process /\ r2.unlisted = r1.unlisted
       /\ DOMAIN r2.cache = r2.published \cup T
       /\ \A t \in Topic : t[2] \in Groups =>
            /\ t \in DOMAIN r2.retained <=> t \in DOMAIN r1.retained
            /\ t \in DOMAIN r1.cache => r2.cache[t] = r1.cache[t]
  <2> DEFINE X == EntityTopics(A)
             U == RetractedTopics(R)
  <2>1. A \in SUBSET Entities /\ R \in SUBSET Entities
    BY <1>3
  <2>2. \A t \in X \cup U : t[2] \in Entities
    BY <2>1, EntityTopicFacts
  <2>3. /\ r2 \in Process /\ r2.unlisted = r1.unlisted
        /\ r2.published = (r1.published \cup X) \ U
        /\ DOMAIN r2.cache = (X \cup DOMAIN r1.cache) \ U
        /\ DOMAIN r2.retained = (X \cup DOMAIN r1.retained) \ U
        /\ \A t \in DOMAIN r2.cache : t \notin X => r2.cache[t] = r1.cache[t]
    BY <1>12 DEF Heard
  <2> HIDE DEF X, U
  <2>4. \A t \in X \cup U : t[2] \notin Groups /\ t \notin T
    BY <1>4, <1>8, <2>2, TopicsApart
  <2>5. DOMAIN r2.cache = r2.published \cup T
    BY <1>9, <2>3, <2>4
  <2>6. QED
    BY <2>3, <2>4, <2>5
<1> HIDE DEF n
<1>15. /\ n \in Process /\ n.eventDriven = r2.eventDriven /\ n.seen = r2.seen /\ n.unlisted = r2.unlisted
       /\ n.published = T \cup (r2.published \cap r2.eventDriven)
       /\ DOMAIN n.cache = n.published
       /\ DOMAIN n.retained = DOMAIN r2.retained \ Swept(r2, T)
       /\ \A t \in DOMAIN n.cache : n.cache[t] = r2.cache[t]
       /\ \A t \in DOMAIN n.retained : n.retained[t] = r2.retained[t]
  <2>1. n = AfterRun(r2, T, handled)
    BY DEF n
  <2>2. /\ r2 \in Process /\ T \in SUBSET Topic /\ handled \in SUBSET Groups
        /\ DOMAIN r2.cache = r2.published \cup T
    BY <1>4, <1>8, <1>14
  <2>3. n \in Process /\ n.eventDriven = r2.eventDriven /\ n.seen = r2.seen /\ n.unlisted = r2.unlisted
    BY <2>1, <2>2, SweepFacts
  <2>4. n.published = T \cup (r2.published \cap r2.eventDriven) /\ DOMAIN n.cache = n.published
    BY <2>1, <2>2, SweepFacts, SMTT(40)
  <2>5. DOMAIN n.retained = DOMAIN r2.retained \ Swept(r2, T)
    BY <2>1, <2>2, SweepFacts
  <2>6. \A t \in DOMAIN n.cache : n.cache[t] = r2.cache[t]
    BY <2>1, <2>2, SweepFacts
  <2>7. \A t \in DOMAIN n.retained : n.retained[t] = r2.retained[t]
    BY <2>1, <2>2, SweepFacts
  <2>8. QED
    BY <2>3, <2>4, <2>5, <2>6, <2>7
<1> HIDE DEF units, ru
<1>16. \A t \in n.published : t \notin T =>
         t \in r2.published /\ n.cache[t] = r2.cache[t] /\ (t[2] \in Entities \/ t[2] \in n.unlisted)
  BY <1>11, <1>13, <1>15 DEF Driven
<1>17. \A t \in T : /\ t[2] \in Groups /\ t[2] \notin Entities /\ t \in n.published
                    /\ n.cache[t] = r1.cache[t] /\ n.cache[t].type = type[t[2]]
  BY <1>4, <1>8, <1>14, <1>15, TopicsApart
<1>18. Own(n) /\ Driven(n) /\ Exact(n) /\ Named(n, labels)
  <2>1. Own(n)
    BY <1>11, <1>13, <1>15, <1>16, <1>17 DEF Own
  <2>2. Driven(n)
    BY <1>11, <1>13, <1>15 DEF Driven
  <2>3. Named(n, labels)
    BY <1>11, <1>13, <1>15, <1>16, <1>17 DEF Named, Zones
  <2>4. QED
    BY <1>15, <2>1, <2>2, <2>3 DEF Exact
<1>19. ~lost => Mirrors(n)
  <2> SUFFICES ASSUME Mirrors(r2), NEW t \in DOMAIN n.cache
               PROVE  t \in DOMAIN n.retained /\ n.retained[t] = n.cache[t]
    BY <1>9, <1>13 DEF Mirrors
  <2>1. t \in DOMAIN r2.cache /\ t \notin Swept(r2, T)
    BY <1>14, <1>15 DEF Swept
  <2>2. QED
    BY <1>15, <2>1 DEF Mirrors
<1>20. \A t \in n.published : t[2] \in Listed(n) => t \in T
  BY <1>16, TopicsApart DEF Listed
<1>21. Single(n)
  BY <1>17, <1>20 DEF Single
<1>22. NoStale(n)
  <2> SUFFICES ASSUME NEW t \in n.published, t[2] \in Listed(n),
                      NEW u \in StaleTopics(t[2], n.cache[t].type), u \in {t} \cup DOMAIN n.retained
               PROVE  FALSE
    BY DEF NoStale
  <2>1. t \in T /\ t[2] \in G /\ u \in StaleTopics(t[2], type[t[2]]) /\ u[2] = t[2] /\ u # t
    BY <1>7, <1>17, <1>20, TopicsApart
  <2>2. u \in Topic /\ u \in DOMAIN r2.retained
    BY <1>14, <1>15, <2>1, MapIs DEF Process
  <2>3. u \in DOMAIN r1.retained
    BY <1>4, <1>14, <2>1, <2>2
  <2>4. QED
    BY <1>8, <2>1, <2>3
<1>23. NoLoad(n, ru)
  <2> SUFFICES ASSUME NEW t \in n.published, n.cache[t].type = "binary_sensor", t[2] \notin n.unlisted,
                      ru.types[t[2]] # "binary_sensor"
               PROVE  ~HasLoad(t[2], ru.units)
    BY DEF NoLoad
  <2>1. ru.types = labels.types /\ ru.units = p.units
    BY DEF ru
  <2>2. t \in T
    <3>1. t \notin T => t[2] \in Entities /\ n.cache[t].type = Kind[t[2]]
      BY <1>16, <1>18 DEF Own
    <3>2. \A e \in Entities : Kind[e] # "binary_sensor"
      BY KindAssumption DEF Kinds
    <3>3. QED
      BY <3>1, <3>2
  <2>3. t[2] \in G /\ t[2] \in Groups /\ type[t[2]] = "binary_sensor"
    BY <1>4, <1>8, <1>17, <2>2
  <2>4. TypeOf(t[2], treeName[t[2]], units) = "binary_sensor" /\ treeName[t[2]] \in Name
    BY <1>3, <1>5, <2>3
  <2>5. ~HasLoad(t[2], p.units)
    BY <1>2, <2>1, <2>3, <2>4, SensorHasNoLoad DEF units
  <2>6. QED
    BY <2>1, <2>5
<1>24. Right(n, labels, lost, ru)
  BY <1>2, <1>15, <1>18, <1>19, <1>21, <1>22, <1>23 DEF Right
<1>25. ASSUME NEW e \in Entities, e \notin labels.exclude, Announced(d, e)
       PROVE  Announced(n, e)
  <2>1. \A t \in EntityTopics({e}) : t \in Topic /\ t[2] = e /\ t \in d.published
    <3>1. {e} \in SUBSET Entities
      OBVIOUS
    <3>2. QED
      BY <1>25, <3>1, EntityTopicFacts DEF Announced
  <2>2. e \notin G
    BY <1>4, TopicsApart
  <2>3. Announced(r1, e)
    BY <1>9, <2>1, <2>2 DEF Announced
  <2>4. Announced(r2, e)
    BY <1>2, <1>3, <1>8, <1>12, <1>25, <2>3, HeardStays
  <2>5. \A t \in EntityTopics({e}) : t \in r2.published /\ t \in r2.eventDriven
    BY <1>11, <1>13, <2>1, <2>4 DEF Announced, Own
  <2>6. QED
    BY <1>15, <2>5 DEF Announced
<1>26. QED
  BY <1>1, <1>24, <1>25, RightNext

\* A process that has published nothing.
LEMMA FreshInv ==
  ASSUME NEW q \in Map, NEW l, LabelData(l), NEW lo
  PROVE  /\ NewProcess(q) \in Process /\ NewProcess(q).published = {}
         /\ NewProcess(q).eventDriven = {} /\ DOMAIN NewProcess(q).cache = {}
<1>1. <<>> \in [{} -> Config] /\ DOMAIN <<>> = {}
  OBVIOUS
<1>2. <<>> \in Map
  BY <1>1, MapIs
<1>3. QED
  BY <1>1, <1>2 DEF NewProcess, Process

\* A process that starts again has published nothing.
LEMMA RestartInv ==
  EntityInv /\ (\E l \in LabelFiles : \E o \in Options : Restart(o, l)) => EntityInv'
<1> SUFFICES ASSUME EntityInv, NEW l \in LabelFiles, NEW o \in Options, Restart(o, l) PROVE EntityInv'
  OBVIOUS
<1>1. d' = NewProcess(d.retained) /\ labels' = l /\ run' = None
  BY DEF Restart
<1>2. d.retained \in Map
  BY DEF EntityInv, Right, Process
<1>3. LabelData(labels')
  BY <1>1, LabelAssumption
<1>4. d' \in Process /\ d'.published = {} /\ d'.eventDriven = {} /\ DOMAIN d'.cache = {}
  BY <1>1, <1>2, <1>3, FreshInv
<1>5. QED
  BY <1>3, <1>4 DEF EntityInv, Right, Own, Driven, Exact, Mirrors, Single, NoStale, Named, NoLoad

\* At the start nothing is published.
LEMMA EntityInit == Init => EntityInv
<1> SUFFICES ASSUME Init PROVE EntityInv
  OBVIOUS
<1>1. <<>> \in [{} -> Config]
  OBVIOUS
<1>2. <<>> \in Map
  BY <1>1, MapIs
<1>3. d = NewProcess(<<>>) /\ LabelData(labels)
  BY LabelAssumption DEF Init
<1>4. d \in Process /\ d.published = {} /\ d.eventDriven = {} /\ DOMAIN d.cache = {}
  BY <1>2, <1>3, FreshInv
<1>5. QED
  BY <1>3, <1>4 DEF EntityInv, Right, Own, Driven, Exact, Mirrors, Single, NoStale, Named, NoLoad

\* Every step keeps the invariant.
LEMMA EntityNext == EntityInv /\ [Next]_vars => EntityInv'
<1> SUFFICES ASSUME EntityInv, [Next]_vars PROVE EntityInv'
  OBVIOUS
<1>1. CASE UNCHANGED vars
  <2>1. options' = options /\ labels' = labels /\ d' = d /\ lost' = lost /\ run' = run
    BY <1>1 DEF vars
  <2>2. QED
    BY <2>1, RightNext DEF EntityInv
<1>2. CASE Next
  BY <1>2, EntityHeardInv, GroupHeardInv, TreeRunInv, UpdateLabelsInv, RestartInv, ZoneNamedInv, ReplaysInv
     DEF Next
<1>3. QED
  BY <1>1, <1>2

\* What the broker and the cache hold of a network, in every state.
THEOREM EntityInvariant == Spec => []EntityInv
BY EntityInit, EntityNext, PTL DEF Spec

\* A config is one entity, and what a replay restores.
THEOREM ConfigsAreRight == Spec => []ConfigsRight
<1>1. EntityInv => ConfigsRight
  <2> SUFFICES ASSUME EntityInv PROVE OneEntity /\ ReplayExact
    BY DEF ConfigsRight
  <2>1. /\ Exact(d) /\ (~lost => Mirrors(d)) /\ Single(d) /\ NoStale(d) /\ d.published \subseteq Topic
    BY DEF EntityInv, Right, Process
  <2>2. ReplayExact
    BY <2>1 DEF ReplayExact, Exact, Mirrors
  <2>3. ASSUME NEW g \in Groups \ d.unlisted
        PROVE  /\ Cardinality(TypesShown(g)) <= 1
               /\ Application[g] = "lighting" /\ TypesShown(g) # {} =>
                    /\ TypesShown(g) \cap LightTypes = {} => <<"light", g>> \notin DOMAIN d.retained
                    /\ TypesShown(g) \subseteq LightTypes /\ options.fromUnit =>
                         <<"binary_sensor", g>> \notin DOMAIN d.retained
    <3>1. CASE TypesShown(g) = {}
      <4>1. Cardinality(TypesShown(g)) = 0
        BY <3>1, FS_EmptySet
      <4>2. QED
        BY <3>1, <4>1
    <3>2. CASE TypesShown(g) # {}
      <4>1. PICK t \in d.published : t[2] = g
        BY <3>2 DEF TypesShown
      <4> DEFINE type == d.cache[t].type
      <4>2. g \in Listed(d)
        BY DEF Listed
      <4>3. TypesShown(g) = {type}
        BY <2>1, <4>1, <4>2 DEF TypesShown, Single
      <4>4. StaleTopics(g, type) \cap DOMAIN d.retained = {}
        BY <2>1, <4>1, <4>2 DEF NoStale
      <4> HIDE DEF type
      <4>5. Cardinality(TypesShown(g)) = 1
        BY <4>3, FS_Singleton
      <4>6. ASSUME Application[g] = "lighting"
            PROVE  /\ type \notin LightTypes => <<"light", g>> \notin DOMAIN d.retained
                   /\ type \in LightTypes /\ options.fromUnit => <<"binary_sensor", g>> \notin DOMAIN d.retained
        BY <4>4, <4>6 DEF StaleTopics
      <4>7. QED
        BY <4>3, <4>5, <4>6
    <3>3. QED
      BY <3>1, <3>2
  <2>4. QED
    BY <2>2, <2>3 DEF OneEntity
<1>2. QED
  BY <1>1, EntityInvariant, PTL

\* No group with a load becomes a read-only sensor on the word of its units, whatever part of the tree
\* C-Gate had synchronised when the run read it (unitTypeClassifier.js, haDiscovery.js:504-512).
THEOREM SensorsHaveNoLoad == Spec => []ReadOnlyHasNoLoad
<1>1. EntityInv => ReadOnlyHasNoLoad
  BY DEF EntityInv, Right, NoLoad, ReadOnlyHasNoLoad
<1>2. QED
  BY <1>1, EntityInvariant, PTL

\* The upsets are counted.
Counted == upsets \in Nat

\* They are a number in every state.
LEMMA UpsetsCounted == Spec => []Counted
<1>1. Init => Counted
  BY DEF Init, Counted
<1>2. Counted /\ [Next]_vars => Counted'
  <2> SUFFICES ASSUME Counted, [Next]_vars PROVE upsets' = upsets \/ upsets' = upsets + 1
    BY DEF Counted
  <2>1. CASE UNCHANGED vars
    BY <2>1 DEF vars
  <2>2. ASSUME NEW e, EntityHeard(e) PROVE upsets' = upsets
    BY <2>2 DEF EntityHeard
  <2>3. ASSUME NEW g, GroupHeard(g) PROVE upsets' = upsets
    BY <2>3 DEF GroupHeard
  <2>4. ASSUME NEW p, NEW synced, TreeRun(p, synced) PROVE upsets' = upsets
    BY <2>4 DEF TreeRun
  <2>5. ASSUME NEW l, UpdateLabels(l) PROVE upsets' = upsets + 1
    BY <2>5 DEF UpdateLabels, Upset
  <2>6. ASSUME NEW o, NEW l, Restart(o, l) PROVE upsets' = upsets + 1
    BY <2>6 DEF Restart, Upset
  <2>7. ASSUME NEW z, NEW name, ZoneNamed(z, name) PROVE upsets' = upsets + 1
    BY <2>7 DEF ZoneNamed, Upset
  <2>8. CASE NetworkRemoved \/ BrokerLosesRetained \/ Republish
    BY <2>8 DEF NetworkRemoved, BrokerLosesRetained, Republish, Upset
  <2>9. QED
    BY <2>1, <2>2, <2>3, <2>4, <2>5, <2>6, <2>7, <2>8 DEF Next
<1>3. QED
  BY <1>1, <1>2, PTL DEF Spec

\* What a step leaves announced.
LEMMA StaysNext ==
  ASSUME EntityInv, Counted, [Next]_vars, NEW e \in Entities, Announced(d, e), e \notin labels'.exclude
  PROVE  \/ Announced(d', e)
         \/ upsets' # upsets /\ d'.published = {}
<1>1. d \in Process /\ LabelData(labels) /\ d.retained \in Map
  BY DEF EntityInv, Right, Process
<1>2. ASSUME NEW Z \in SUBSET Zones
      PROVE  Forget(Z) \in Process /\ Announced(Forget(Z), e)
  <2>1. Forget(Z) \in Process /\ Forget(Z).published = d.published
    BY <1>1 DEF Forget, Process
  <2>2. QED
    BY <2>1 DEF Announced
<1>3. ASSUME BrokerLosesRetained \/ Republish \/ UNCHANGED vars
      PROVE  Announced(d', e)
  <2>1. d'.published = d.published
    BY <1>1, <1>3 DEF BrokerLosesRetained, Republish, vars, Process
  <2>2. QED
    BY <2>1 DEF Announced
<1>4. ASSUME NEW f \in Entities, EntityHeard(f)
      PROVE  Announced(d', e)
  BY <1>1, <1>4, EnsureStays DEF EntityHeard
<1>5. ASSUME NEW g \in Groups, GroupHeard(g)
      PROVE  Announced(d', e)
  <2> DEFINE G == {g} \ labels.exclude
             unnamed == [h \in Groups |-> None]
             type == Types(G, unnamed, {})
             T == GroupTopics(G, type)
             s == PublishGroups(d, G, unnamed, {})
             r == [s EXCEPT !.published = @ \cup T, !.eventDriven = @ \cup T, !.unlisted = @ \cup {g}]
  <2>1. d' = r /\ Application[g] \notin {"trigger", "tilt", "other"}
    BY <1>5 DEF GroupHeard
  <2>2. /\ G \in SUBSET Publishable /\ G \in SUBSET Groups /\ unnamed \in [Groups -> Name]
    BY <2>1 DEF Publishable, Name
  <2> HIDE DEF G, unnamed
  <2>3. GroupsPublished(s, d, G, type, T)
    BY <1>1, <2>2, PublishGroupsFacts
  <2> HIDE DEF type, T, s
  <2>4. s \in Process
    BY <2>3 DEF GroupsPublished
  <2>5. r.published = s.published \cup T
    BY <2>4 DEF Process
  <2>6. \A t \in EntityTopics({e}) : t \in Topic /\ t[2] \notin G /\ t \in d.published
    BY <2>2, TopicsApart, EntityTopicFacts DEF Announced
  <2>7. \A t \in Topic : t[2] \notin G /\ t \in d.published => t \in s.published
    <3>1. /\ \A t \in Topic : t[2] \notin G =>
               /\ t \notin T
               /\ t \in s.published <=> t \in d.published
               /\ t \in DOMAIN s.cache <=> t \in DOMAIN d.cache
               /\ t \in DOMAIN s.retained <=> t \in DOMAIN d.retained
               /\ t \in DOMAIN d.cache => s.cache[t] = d.cache[t]
          /\ Exact(d) => DOMAIN s.cache = s.published \cup T
          /\ Mirrors(d) => Mirrors(s)
          /\ s.published \subseteq d.published
      BY <1>1, <2>2, <2>3, PublishedElsewhere, Zenon
    <3>2. QED
      BY <3>1
  <2>8. QED
    BY <2>1, <2>5, <2>6, <2>7 DEF Announced
<1>6. ASSUME NEW p \in Projects, NEW synced \in SUBSET p.units, TreeRun(p, synced)
      PROVE  Announced(d', e)
  <2>1. labels' = labels
    BY <1>6 DEF TreeRun
  <2>2. QED
    BY <1>6, <2>1, TreeRunInv
<1>7. ASSUME NEW l \in LabelFiles, UpdateLabels(l)
      PROVE  Announced(d', e)
  <2>1. /\ d' = Ensure(Forget(Renamed(l)), Renamed(l) \cap LabelledZones(l), l) /\ labels' = l
        /\ LabelData(l) /\ Renamed(l) \in SUBSET Zones
        /\ Renamed(l) \cap LabelledZones(l) \in SUBSET Entities
    BY <1>7, LabelAssumption DEF UpdateLabels, Renamed, Zones
  <2>2. QED
    BY <1>2, <2>1, EnsureStays
<1>8. ASSUME NEW z \in Zones, NEW name \in DOMAIN Prefix, ZoneNamed(z, name)
      PROVE  Announced(d', e)
  <2>1. d' = Ensure(Forget({z}), {z}, labels') /\ {z} \in SUBSET Zones /\ {z} \in SUBSET Entities
    BY <1>8 DEF ZoneNamed, Zones
  <2>2. LabelData(labels')
    BY <1>8, ZoneNamedInv DEF EntityInv, Right
  <2>3. QED
    BY <1>2, <2>1, <2>2, EnsureStays
<1>9. ASSUME NetworkRemoved
      PROVE  upsets' # upsets /\ d'.published = {}
  <2>1. d'.published = d.published \ d.published
    BY <1>1, <1>9, ClearFacts DEF NetworkRemoved
  <2>2. QED
    BY <1>9, <2>1 DEF NetworkRemoved, Upset, Counted
<1>10. ASSUME NEW l \in LabelFiles, NEW o \in Options, Restart(o, l)
       PROVE  upsets' # upsets /\ d'.published = {}
  BY <1>10 DEF Restart, Upset, NewProcess, Counted
<1>11. CASE UNCHANGED vars
  BY <1>3, <1>11
<1>12. CASE Next
  BY <1>3, <1>4, <1>5, <1>6, <1>7, <1>8, <1>9, <1>10, <1>12 DEF Next
<1>13. QED
  BY <1>11, <1>12

\* What announced itself stays announced.
THEOREM AnnouncementsStay == Spec => AnnouncedStays
<1> DEFINE Stays(e) == Announced(d, e) =>
             \/ /\ Announced(d', e)
                /\ Kind[e] = "zone" /\ e \in d'.seen =>
                     \A t \in EntityTopics({e}) : d'.cache[t].name = labels'.names[e]
             \/ e \in labels'.exclude
             \/ upsets' # upsets /\ d'.published = {}
<1>1. ASSUME EntityInv, EntityInv', Counted, [Next]_vars, NEW e \in Entities
      PROVE  Stays(e)
  <2> SUFFICES ASSUME Announced(d, e), e \notin labels'.exclude, ~(upsets' # upsets /\ d'.published = {})
               PROVE  /\ Announced(d', e)
                      /\ Kind[e] = "zone" /\ e \in d'.seen =>
                           \A t \in EntityTopics({e}) : d'.cache[t].name = labels'.names[e]
    OBVIOUS
  <2>1. Announced(d', e)
    BY <1>1, StaysNext
  <2>2. Named(d', labels')
    BY <1>1 DEF EntityInv, Right
  <2>3. \A t \in EntityTopics({e}) : t[2] = e /\ t \in d'.published
    <3>1. {e} \in SUBSET Entities
      OBVIOUS
    <3>2. QED
      BY <2>1, <3>1, EntityTopicFacts DEF Announced
  <2>4. QED
    BY <2>1, <2>2, <2>3 DEF Named, Zones
<1>2. EntityInv /\ EntityInv' /\ Counted /\ [Next]_vars => [\A e \in Entities : Stays(e)]_vars
  BY <1>1
<1>3. QED
  BY <1>2, EntityInvariant, UpsetsCounted, PTL DEF AnnouncedStays, Spec
=============================================================================
