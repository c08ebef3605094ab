------------------------------ MODULE LabelFile ------------------------------
(***************************************************************************)
(* The label file, its copy in memory and the copy entity discovery uses:  *)
(* edits on disk, the watcher with its debounce, grace and single retry    *)
(* (src/src/labelLoader.js), the web routes that save                      *)
(* (src/src/web/labelRoutes.js), names learned from C-Gate.                *)
(*                                                                         *)
(* The four extended sections of the file (overrides, entity ids, areas,   *)
(* exclusions) are treated alike and stand here as one, "extras".          *)
(***************************************************************************)
EXTENDS Naturals, TLC

CONSTANTS
  LabelKeys,    \* labelled addresses
  LabelNames,
  Extras,       \* contents of the extended sections, "none" among them
  Missing,      \* a name that is not there; the file that is not there
  Broken,       \* a file that cannot be parsed
  MaxEdits      \* bound: edits on disk, saves, learned names, restarts

Contents == [labels : [LabelKeys -> LabelNames \cup {Missing}], extras : Extras]
Blank    == [labels |-> [k \in LabelKeys |-> Missing], extras |-> "none"]

ASSUME ExtrasAssumption == "none" \in Extras
ASSUME EditsAssumption == MaxEdits \in Nat

VARIABLES
  file,         \* what is on disk
  memory,       \* _labels, _typeOverrides, _entityIds, _areas, _exclude
  announced,    \* the label data of the last labels-changed
  watch,        \* on: watching; event: the watcher has something to tell; grace: a save is less
                \* than labelWatchSelfWriteGraceMs ago; debounce, retry: timers;
                \* retried: _reloadRetried; untold: memory was loaded and not announced
  unheard,      \* the file changed, and no event of it reached or will reach the loader
  edits

labelVars == <<file, memory, announced, watch, unheard, edits>>

Readable(f) == f \notin {Missing, Broken}

Quiet == [on |-> FALSE, event |-> FALSE, grace |-> FALSE, debounce |-> FALSE, retry |-> FALSE, retried |-> FALSE,
          untold |-> FALSE]

Edit == edits < MaxEdits /\ edits' = edits + 1

\* load() at start: without a readable file there are no labels.
AtStart(f) == IF Readable(f) THEN f ELSE Blank

LabelInit ==
  /\ file \in {Blank, Missing}
  /\ memory = Blank /\ announced = Blank
  /\ watch = Quiet /\ unheard = FALSE /\ edits = 0

-----------------------------------------------------------------------------
(* Disk and watcher *)

\* Somebody edits, removes or replaces the file.  The watcher may miss the return of
\* a file that a backup tool took away.
EditOnDisk(f) ==
  /\ Edit /\ f # file
  /\ file' = f
  /\ \/ watch.on /\ watch' = [watch EXCEPT !.event = TRUE] /\ UNCHANGED unheard
     \/ /\ ~watch.on \/ file = Missing
        /\ unheard' = TRUE /\ UNCHANGED watch
  /\ UNCHANGED <<memory, announced>>

\* watch(), once both connections are up.
StartWatching ==
  /\ ~watch.on /\ watch' = [watch EXCEPT !.on = TRUE]
  /\ UNCHANGED <<file, memory, announced, unheard, edits>>

\* The callback of fs.watch: within the grace of a save the event is taken for ours.
WatchEvent ==
  /\ watch.event
  /\ IF watch.grace
       THEN watch' = [watch EXCEPT !.event = FALSE] /\ unheard' = TRUE
       ELSE watch' = [watch EXCEPT !.event = FALSE, !.debounce = TRUE] /\ UNCHANGED unheard
  /\ UNCHANGED <<file, memory, announced, edits>>

GraceEnds ==
  /\ watch.grace /\ watch' = [watch EXCEPT !.grace = FALSE]
  /\ UNCHANGED <<file, memory, announced, unheard, edits>>

\* _onFileChanged with w the timers left: read, keep what there is on an error, and
\* try once more.
Reload(w) ==
  /\ IF Readable(file)
       THEN /\ memory' = file /\ announced' = file
            /\ watch' = [w EXCEPT !.retried = FALSE, !.untold = FALSE]
            /\ unheard' = FALSE
       ELSE /\ watch' = [w EXCEPT !.retry = @ \/ ~w.retried, !.retried = TRUE]
            /\ UNCHANGED <<memory, announced, unheard>>
  /\ UNCHANGED <<file, edits>>

DebounceFires == watch.debounce /\ Reload([watch EXCEPT !.debounce = FALSE])
RetryFires    == watch.retry /\ Reload([watch EXCEPT !.retry = FALSE])

-----------------------------------------------------------------------------
(* Saving *)

\* Sections a save does not give are completed from memory.
Completed(labels, given) ==
  [labels |-> labels, extras |-> IF given = Missing THEN memory.extras ELSE given]

\* Mutation: the sections given are written and not kept in memory.
SaveToFile(labels, given) ==
  /\ file'   = Completed(labels, given)
  /\ memory' = [memory EXCEPT !.labels = labels]
  /\ announced' = memory'
  /\ watch'  = [watch EXCEPT !.event = @ \/ watch.on, !.grace = TRUE, !.untold = FALSE]
  /\ unheard' = FALSE

\* save: write, remember, tell.  The watcher's event of it falls in the grace.
Save(labels, given) ==
  /\ file'   = Completed(labels, given)
  /\ memory' = file' /\ announced' = file'
  /\ watch'  = [watch EXCEPT !.event = @ \/ watch.on, !.grace = TRUE, !.untold = FALSE]
  /\ unheard' = FALSE

\* writeFileSync throws: the file may be cut short, and memory stays.
SaveFails ==
  /\ file' \in {file, Broken} /\ unheard' = (unheard \/ (~watch.on /\ file' # file))
  /\ watch' = [watch EXCEPT !.event = @ \/ watch.on, !.grace = TRUE]
  /\ UNCHANGED <<memory, announced>>

\* PUT: the labels, and the sections that were given.
PutLabels(labels, given) == Edit /\ (Save(labels, given) \/ SaveFails)

\* PATCH: one label set or deleted among those in memory.
PatchLabels(k, name) == Edit /\ (Save([memory.labels EXCEPT ![k] = name], Missing) \/ SaveFails)

\* Import of a project: its labels, over those in memory when merging.
ImportLabels(labels, merge) ==
  /\ Edit
  /\ \/ Save(IF merge THEN [k \in LabelKeys |-> IF labels[k] # Missing THEN labels[k] ELSE memory.labels[k]]
                      ELSE labels, Missing)
     \/ SaveFails

\* applySecurityZoneName writes into the map discovery has, which is the loader's too
\* unless that was loaded again since.
NameLearned(k, name) ==
  /\ Edit /\ announced.labels[k] = Missing
  /\ memory'    = IF watch.untold THEN memory ELSE [memory EXCEPT !.labels[k] = name]
  /\ announced' = [announced EXCEPT !.labels[k] = name]
  /\ UNCHANGED <<file, watch, unheard>>

\* unwatch, and the next process: load() without keepOnError.
LoaderRestarts ==
  /\ Edit
  /\ memory' = AtStart(file) /\ announced' = AtStart(file)
  /\ watch' = Quiet /\ unheard' = FALSE
  /\ UNCHANGED file

\* SIGUSR1: load() without keepOnError, and nobody is told.
SettingsReloaded ==
  /\ Edit
  /\ memory' = AtStart(file) /\ watch' = [watch EXCEPT !.untold = TRUE] /\ unheard' = FALSE
  /\ UNCHANGED <<file, announced>>

LabelNext ==
  \/ SettingsReloaded \/ StartWatching \/ WatchEvent \/ GraceEnds \/ DebounceFires \/ RetryFires \/ LoaderRestarts
  \/ \E f \in Contents \cup {Missing, Broken} : EditOnDisk(f)
  \/ \E k \in LabelKeys, name \in LabelNames : NameLearned(k, name)
  \/ \E k \in LabelKeys, name \in LabelNames \cup {Missing} : PatchLabels(k, name)
  \/ \E c \in Contents :
       \/ \E given \in Extras \cup {Missing} : PutLabels(c.labels, given)
       \/ \E merge \in BOOLEAN : ImportLabels(c.labels, merge)

LabelSpec == LabelInit /\ [][LabelNext]_labelVars

-----------------------------------------------------------------------------
(* Properties *)

\* What the file says, names learned since aside.
Holds(m, f) ==
  /\ m.extras = f.extras
  /\ \A k \in LabelKeys : f.labels[k] # Missing => m.labels[k] = f.labels[k]

\* Once the watcher is quiet the loader has what the file says, and discovery what
\* the loader has, whatever mix of edits, backups, saves and reloads led there:
\* unless the change fell in the grace of a save or was never reported, or the loader
\* has read the file since without telling (labelLoader.js:113-176, 181-213, 318-343).
LabelsFollowFile ==
  /\ ~watch.untold => announced = memory
  /\ ~(watch.event \/ watch.debounce \/ watch.retry \/ unheard) /\ Readable(file) => Holds(memory, file)
=============================================================================
