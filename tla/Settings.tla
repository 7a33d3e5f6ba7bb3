------------------------------ MODULE Settings ------------------------------
(***************************************************************************)
(* The settings: SettingsModel in the window's thread, SettingsController  *)
(* and SettingsFile in tasks of the event bus's pool, the file, and what   *)
(* other models are told.                                                  *)
(*                                                                         *)
(* todo holds the tasks in the order they were published; any may run      *)
(* next, and several may write the file at the same time.  The             *)
(* controller's copies of the groups are left out: they follow every       *)
(* update.  A mixture that dump reads while an update runs is left out     *)
(* too; the crash that the same race can be is an Exit.                    *)
(***************************************************************************)
EXTENDS Integers, Sequences, FiniteSets, SequencesExt

CONSTANTS
    Keys, Values,
    Allowed,       \* [Keys -> SUBSET Values], the values that a key may have
    Groups,
    GroupOf,       \* [Keys -> Groups]
    Default,       \* [Keys -> Values], the settings.json that is built in
    Notification,  \* the group whose load does not end
    Texts, Blank,  \* the keys whose values are texts, and the empty text
    Place, Tmp,    \* the key default_save_url, and the place when it is not set
    Slash,         \* [Allowed[Place] -> Allowed[Place]]: a path with "/" behind it
    Available, Yes, No, Latest,  \* update_is_avaible, new_version (with
                                 \* release_date)
    AutoDownload, AutoExpand,  \* the keys auto_download and auto_expand
    Heard,         \* what FileListModel starts with of the keys it hears of
    Older,         \* settings files that earlier versions have left
    Absent,        \* a key that is missing in the file
    MaxSets, MaxExits, MaxWrites,   \* bounds
    Missing, Empty, Torn   \* no file, a file just truncated, a damaged one

Whole == {c \in [Keys -> Values] : \A k \in Keys : c[k] \in Allowed[k]}
Configs ==
    {c \in [Keys -> Values \cup {Absent}] :
        \A k \in Keys : c[k] \in Allowed[k] \cup {Absent}}
Listened == DOMAIN Heard

\* The folders that the user can choose; the program puts its own into one.
Folders == {d \in Allowed[Place] : Slash[d] # d}

ASSUME SettingsAssumption ==
    /\ Allowed \in [Keys -> SUBSET Values] /\ Absent \notin Values
    /\ GroupOf \in [Keys -> Groups] /\ Notification \in Groups
    /\ Default \in Whole /\ Older \subseteq Configs
    /\ {Place, Latest} \subseteq Texts /\ Texts \subseteq Keys
    /\ \A k \in Texts : Blank \in Allowed[k]
    /\ \A k \in Keys \ Texts : Allowed[k] # {}
    /\ Slash \in [Allowed[Place] -> Allowed[Place]] /\ Slash[Blank] = Blank
    /\ \A d \in Allowed[Place] : Slash[Slash[d]] = Slash[d]
    /\ \A d \in Allowed[Place] : Slash[d] = Blank => d = Blank
    /\ Tmp \in Allowed[Place] /\ Tmp # Blank /\ Slash[Tmp] = Tmp
    /\ Available \in Keys \ Texts /\ GroupOf[Latest] = GroupOf[Available]
    /\ Allowed[Available] = {Yes, No} /\ Yes # No /\ Place # Latest
    /\ Heard \in [Listened -> Values] /\ Listened \subseteq Keys \ (Texts \cup {Available})
    /\ {AutoDownload, AutoExpand} \subseteq Listened
    /\ GroupOf[AutoExpand] = Notification
    /\ Notification \notin {GroupOf[k] : k \in {Place, Available, AutoDownload}}
    /\ MaxSets \in Nat /\ MaxExits \in Nat /\ MaxWrites \in Nat
    /\ Configs \cap {Missing, Empty, Torn} = {}
    /\ Missing # Empty /\ Missing # Torn /\ Empty # Torn

VARIABLES
    running,
    shown,    \* SettingsModel's members
    ready,    \* grout_init_flags
    told,     \* what FileListModel has heard by settingsChanged
    timer,    \* flush_config_timer
    todo,     \* tasks of the pool
    loads,    \* onConfigResult's calls, queued for the window's thread
    config,   \* full_config
    writers,  \* the texts of the flushes that have opened the file
    file

\* Bounds and history.
VARIABLES
    sets, exits,
    changed,  \* a setting has been changed since the program started
    last,     \* what the window showed when the program last ended
    mishaps   \* "order", a task that overtook one it depends on; "overlap",
              \* two flushes at once; "cut", a flush that the end of the program
              \* cut; "unsaved", changes that it came before; "early", a change
              \* before the load; "failed", a flush that could not open or
              \* write the file

modelVars == <<shown, ready, told>>
storeVars == <<config, writers, file>>
history == <<sets, exits, changed, last>>
vars == <<running, modelVars, timer, todo, loads, storeVars, history, mishaps>>

Of(g) == {k \in Keys : GroupOf[k] = g}
Update(k, v) == [op |-> "update", key |-> k, value |-> v]
Get == [op |-> "get"]
Write == [op |-> "write"]

Init ==
    /\ running = FALSE
    /\ shown = Default /\ ready = {} /\ told = Heard
    /\ timer = FALSE /\ todo = << >> /\ loads = {}
    /\ config = Default /\ writers = << >> /\ file \in {Missing} \cup Older
    /\ sets = 0 /\ exits = 0 /\ changed = FALSE /\ last = Default /\ mishaps = {}

---------------------------------------------------------------------------
(* main *)

\* The numbers and flags of SettingsModel are not initialised: they hold
\* anything.
Begin(text) ==
    /\ ~running /\ running' = TRUE
    /\ config' = text
    /\ shown' \in {c \in Whole : \A k \in Texts : c[k] = Blank}
    /\ ready' = {} /\ told' = Heard
    /\ todo' = <<Get>>
    /\ changed' = FALSE
    /\ UNCHANGED <<timer, loads, writers, sets, exits, last, mishaps>>

\* Mutant: a file that does not parse is left as it is.
StartUnrepaired ==
    /\ Begin(IF file \in Configs THEN file ELSE Default)
    /\ file' = IF file = Missing THEN Default ELSE file

\* Mutant: the file is always copied anew.
StartAnew == Begin(Default) /\ file' = Default

\* repairSettingsFile where there is no file or parse throws; a file of an
\* earlier version is taken as it is.
Start ==
    LET text == IF file \in Configs THEN file ELSE Default IN
    Begin(text) /\ file' = text

\* The copy of repairSettingsFile fails, after the remove or because that has
\* failed: the second parse throws out of main.
StartFails ==
    /\ ~running /\ file \notin Configs /\ file' \in {file, Missing}
    /\ UNCHANGED <<running, modelVars, timer, todo, loads, config, writers, history,
                   mishaps>>

\* A pending timer is dropped, and what the pool has not done may be.  A flush
\* that is cut leaves the file empty or in part.
End ==
    /\ running /\ running' = FALSE /\ last' = shown
    /\ timer' = FALSE /\ todo' = << >> /\ loads' = {} /\ writers' = << >>
    /\ IF writers = << >> THEN UNCHANGED file ELSE file' \in {file, Torn}
    /\ mishaps' = mishaps
           \cup (IF writers # << >> THEN {"cut"} ELSE {})
           \cup (IF timer \/ todo # << >> \/ loads # {} THEN {"unsaved"} ELSE {})
    /\ UNCHANGED <<modelVars, config, sets, changed>>

\* The window's quit or a crash, at any step.
Exit == End /\ exits < MaxExits /\ exits' = exits + 1

---------------------------------------------------------------------------
(* SettingsModel *)

\* settingsChanged: FileListModel's case for auto_download goes on into that
\* for auto_expand.
Tell(keys, values) ==
    told' = [k \in Listened |->
        IF k \in keys THEN values[k]
        ELSE IF k = AutoExpand /\ AutoDownload \in keys THEN values[AutoDownload]
        ELSE told[k]]

\* What a change of settings of group g does to everything but the timer;
\* tasks is todo with the updates that it publishes.
Change(g, tasks) ==
    /\ running /\ sets < MaxSets /\ sets' = sets + 1
    /\ changed' = TRUE
    /\ todo' = IF g \in ready THEN tasks ELSE todo
    /\ mishaps' = IF g \in ready \cup {Notification} THEN mishaps
                  ELSE mishaps \cup {"early"}
    /\ UNCHANGED <<running, ready, loads, storeVars, exits, last>>

\* What a setter does but for the timer.  setCachePath compares the place with
\* the folder around it, so that it never finds it unchanged, and shows it
\* with the slash that it does not save.
Sets(k, v) ==
    /\ k \notin {Available, Latest}
    /\ v \in IF k = Place THEN Folders ELSE Allowed[k] \ {shown[k]}
    /\ shown' = [shown EXCEPT ![k] = IF k = Place THEN Slash[v] ELSE v]
    /\ Tell({k}, [x \in {k} |-> v])
    /\ Change(GroupOf[k], Append(todo, Update(k, v)))

\* Mutant: the timer is not started.
SetUntimed(k, v) == Sets(k, v) /\ UNCHANGED timer

\* A setter, as the user calls it.
Set(k, v) ==
    /\ Sets(k, v)
    /\ IF GroupOf[k] \in ready THEN timer' = TRUE ELSE UNCHANGED timer

\* todo with the updates of those members that the setters change.
FoundTasks(v) ==
    LET tasks == IF shown[Available] = Yes THEN todo
                 ELSE Append(todo, Update(Available, Yes))
    IN  IF shown[Latest] = v THEN tasks ELSE Append(tasks, Update(Latest, v))

\* checkUpdate has found version v: setIsUpdateAvailable, setNewVersion and
\* setReleaseDate.
Found(v) ==
    /\ v \in Allowed[Latest] \ {Blank}
    /\ shown[Available] # Yes \/ shown[Latest] # v
    /\ shown' = [shown EXCEPT ![Available] = Yes, ![Latest] = v]
    /\ UNCHANGED told
    /\ Change(GroupOf[Latest], FoundTasks(v))
    /\ IF GroupOf[Latest] \in ready THEN timer' = TRUE ELSE UNCHANGED timer

\* setCacheSize: the size of the cache is not saved, yet it starts the timer.
SetCacheSize ==
    /\ running /\ timer' = TRUE
    /\ UNCHANGED <<running, modelVars, todo, loads, storeVars, history, mishaps>>

Tick ==
    /\ timer /\ timer' = FALSE
    /\ Len(todo) + Len(writers) < MaxWrites
    /\ todo' = Append(todo, Write)
    /\ UNCHANGED <<running, modelVars, loads, storeVars, history, mishaps>>

\* The values that the members of a group take: a missing text is empty, the
\* place is left where it is when the file has none, an update has to be found
\* anew, and the latest version counts only if the file says there is one.
Taken(load) ==
    [k \in Of(load.group) |->
        LET v == IF load.values[k] = Absent THEN Blank ELSE load.values[k] IN
        IF k = Place /\ v = Blank THEN IF shown[k] = Blank THEN Tmp ELSE shown[k]
        ELSE IF k = Available THEN No
        ELSE IF k = Latest /\ load.values[Available] # Yes THEN shown[k]
        ELSE v]

\* A group's numbers are there for stoi.
Numbered(load) == \A k \in Of(load.group) \ Texts : load.values[k] # Absent

\* setGeneralConfig and its like, of which the setters return when the member
\* holds the value.  A place that is not set is saved.
Load(load) ==
    LET g == load.group
        took == Taken(load)
        placed == Place \in Of(g) /\ load.values[Place] \in {Blank, Absent}
    IN  /\ load \in loads /\ Numbered(load) /\ loads' = loads \ {load}
        /\ shown' = [k \in Keys |-> IF k \in Of(g) THEN took[k] ELSE shown[k]]
        /\ Tell({k \in Of(g) \cap Listened : shown[k] # took[k]}, took)
        /\ ready' = IF g = Notification THEN ready \ {g} ELSE ready \cup {g}
        /\ IF placed
           THEN todo' = Append(todo, Update(Place, took[Place])) /\ timer' = TRUE
           ELSE UNCHANGED <<todo, timer>>
        /\ UNCHANGED <<running, storeVars, history, mishaps>>

\* stoi throws out of the event loop.
Throw(load) == load \in loads /\ ~Numbered(load) /\ End /\ UNCHANGED exits

---------------------------------------------------------------------------
(* SettingsController and SettingsFile, in the pool *)

Done(i) == todo' = RemoveAt(todo, i)

\* onGetConfig: one result for each group.
OnGetConfig(i) ==
    /\ todo[i].op = "get"
    /\ loads' = {[group |-> g, values |-> [k \in Of(g) |-> config[k]]] : g \in Groups}
    /\ Done(i)
    /\ UNCHANGED <<running, modelVars, timer, storeVars, history, mishaps>>

\* onUpdateValue, setValue: a key that the file does not have is not added.
OnUpdateValue(i) ==
    LET k == todo[i].key IN
    /\ todo[i].op = "update"
    /\ config' = IF config[k] = Absent THEN config
                 ELSE [config EXCEPT ![k] = todo[i].value]
    /\ Done(i)
    /\ mishaps' = IF \E j \in 1..(i - 1) : todo[j].op = "update" /\ todo[j].key = k
                  THEN mishaps \cup {"order"} ELSE mishaps
    /\ UNCHANGED <<running, modelVars, timer, loads, writers, file, history>>

\* onFlushConfig, flush: open and truncate, then dump ...
OpenFile(i) ==
    /\ todo[i].op = "write"
    /\ file' = Empty
    /\ writers' = Append(writers, config)
    /\ Done(i)
    /\ mishaps' = mishaps
           \cup (IF \E j \in 1..(i - 1) : todo[j].op = "update" THEN {"order"} ELSE {})
           \cup (IF writers # << >> THEN {"overlap"} ELSE {})
    /\ UNCHANGED <<running, modelVars, timer, loads, config, history>>

\* ... unless the file cannot be opened, ...
OpenFails(i) ==
    /\ todo[i].op = "write"
    /\ Done(i)
    /\ mishaps' = mishaps \cup {"failed"}
    /\ UNCHANGED <<running, modelVars, timer, loads, storeVars, history>>

\* ... and write.  Where another flush has written since, the longer text's
\* end stays behind the shorter one.
WriteFile(w) ==
    /\ file' \in IF file \in {Empty, writers[w]} THEN {writers[w]}
                 ELSE {writers[w], Torn}
    /\ writers' = RemoveAt(writers, w)
    /\ UNCHANGED <<running, modelVars, timer, todo, loads, config, history, mishaps>>

\* The write fails in part or altogether, which nobody looks at.
WriteFails(w) ==
    /\ file' = Torn
    /\ writers' = RemoveAt(writers, w)
    /\ mishaps' = mishaps \cup {"failed"}
    /\ UNCHANGED <<running, modelVars, timer, todo, loads, config, history>>

Run(i) == OnGetConfig(i) \/ OnUpdateValue(i) \/ OpenFile(i) \/ OpenFails(i)

Next ==
    \/ Start \/ StartFails \/ Exit \/ SetCacheSize \/ Tick
    \/ \E k \in Keys, v \in Values : Set(k, v)
    \/ \E v \in Values : Found(v)
    \/ \E load \in loads : Load(load) \/ Throw(load)
    \/ \E i \in DOMAIN todo : Run(i)
    \/ \E w \in DOMAIN writers : WriteFile(w) \/ WriteFails(w)

Spec == Init /\ [][Next]_vars
=============================================================================
