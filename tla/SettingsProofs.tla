--------------------------- MODULE SettingsProofs ---------------------------
(***************************************************************************)
(* The settings file is healthy, holds what is shown and brings it back,   *)
(* for any keys, groups and values and any number of changes and restarts. *)
(***************************************************************************)
EXTENDS SettingsProps, TLAPS, SequenceTheorems

Jobs ==
    {t \in [op : {"update"}, key : Keys, value : Values] : t.value \in Allowed[t.key]}
        \cup {Get, Write}

\* What config gives to the group's members.
LoadType ==
    \A load \in loads :
        /\ load.group \in Groups
        /\ \A k \in Of(load.group) : load.values[k] \in Allowed[k] \cup {Absent}

\* The types of the variables.
SettingsType ==
    /\ running \in BOOLEAN /\ timer \in BOOLEAN /\ changed \in BOOLEAN
    /\ shown \in Whole /\ last \in Whole
    /\ ready \subseteq Groups
    /\ told \in [Listened -> Values]
    /\ config \in Configs
    /\ todo \in Seq(Jobs)
    /\ LoadType
    /\ writers \in Seq(Configs)
    /\ file \in Configs \cup {Missing, Empty, Torn}
    /\ ~running =>
           writers = << >> /\ todo = << >> /\ timer = FALSE /\ loads = {}

\* One flush at a time finds the file as it left it.
FileInv ==
    running /\ mishaps \cap {"overlap", "failed"} = {} =>
        IF writers = << >> THEN file \in Configs
        ELSE Len(writers) = 1 /\ file = Empty

LEMMA PlaceBehind ==
    ASSUME NEW i \in Int, NEW j \in Int, NEW n \in Int, NEW m,
           m = i - 1, 1 <= j, i <= j, j <= n - 1
    PROVE  /\ ~(j <= m) /\ j - m \in 1..(n - i)
           /\ i + (j - m) = j + 1 /\ j \in 1..(n - 1)
  OBVIOUS

LEMMA RemoveAtSeq ==
    ASSUME NEW S, NEW s \in Seq(S), NEW i \in DOMAIN s
    PROVE  /\ RemoveAt(s, i) \in Seq(S)
           /\ Len(RemoveAt(s, i)) = Len(s) - 1
           /\ \A j \in 1..(Len(s) - 1) :
                 RemoveAt(s, i)[j] = IF j < i THEN s[j] ELSE s[j + 1]
<1>1. i \in 1..Len(s) /\ Len(s) \in Nat
  OBVIOUS
<1> DEFINE front == SubSeq(s, 1, i - 1)
           back == SubSeq(s, i + 1, Len(s))
<1>2. /\ front \in Seq(S) /\ Len(front) = i - 1
      /\ \A j \in 1..(i - 1) : front[j] = s[j]
  BY <1>1
<1>3. /\ back \in Seq(S) /\ Len(back) = Len(s) - i
      /\ \A j \in 1..(Len(s) - i) : back[j] = s[i + j]
  BY <1>1
<1>4. RemoveAt(s, i) = front \o back
  BY DEF RemoveAt
<1> HIDE DEF front, back
<1>5. /\ front \o back \in Seq(S) /\ Len(front \o back) = Len(front) + Len(back)
      /\ \A j \in 1..(Len(front) + Len(back)) :
            (front \o back)[j] = IF j <= Len(front) THEN front[j] ELSE back[j - Len(front)]
  BY <1>2, <1>3, ConcatProperties
<1>6. Len(front) + Len(back) = Len(s) - 1
  BY <1>1, <1>2, <1>3
<1>7. ASSUME NEW j \in 1..(Len(s) - 1)
      PROVE  RemoveAt(s, i)[j] = IF j < i THEN s[j] ELSE s[j + 1]
  <2>1. CASE j < i
    <3>1. j \in 1..(i - 1) /\ j <= Len(front) /\ j \in 1..(Len(front) + Len(back))
      BY <1>1, <1>2, <1>6, <2>1
    <3> QED
      BY <1>2, <1>4, <1>5, <2>1, <3>1
  <2>2. CASE j >= i
    <3>1. /\ ~(j <= Len(front)) /\ j - Len(front) \in 1..(Len(s) - i)
          /\ i + (j - Len(front)) = j + 1 /\ j \in 1..(Len(front) + Len(back))
      <4>1. i \in Int /\ Len(front) = i - 1 /\ i <= Len(s) /\ Len(s) \in Nat
        BY <1>1, <1>2
      <4>2. j \in Int /\ 1 <= j /\ j <= Len(s) - 1
        BY <4>1
      <4> DEFINE n == Len(s)
                 m == Len(front)
      <4>3. i \in Int /\ m = i - 1 /\ i <= n /\ n \in Nat /\ m + Len(back) = n - 1
        BY <1>6, <4>1
      <4>4. j \in Int /\ 1 <= j /\ j <= n - 1 /\ j >= i
        BY <2>2, <4>2
      <4> HIDE DEF n, m
      <4>5. /\ ~(j <= m) /\ j - m \in 1..(n - i)
            /\ i + (j - m) = j + 1 /\ j \in 1..(n - 1)
        BY <4>3, <4>4, PlaceBehind
      <4> QED
        BY <4>3, <4>5 DEF n, m
    <3>2. RemoveAt(s, i)[j] = back[j - Len(front)]
      BY <1>4, <1>5, <3>1
    <3>3. back[j - Len(front)] = s[j + 1]
      BY <1>3, <3>1
    <3> QED
      BY <1>1, <2>2, <3>2, <3>3
  <2> QED
    BY <1>1, <2>1, <2>2
<1> QED
  BY <1>4, <1>5, <1>6, <1>7

LEMMA UpdateIsJob ==
    ASSUME NEW k \in Keys, NEW v \in Allowed[k]
    PROVE  Update(k, v) \in Jobs
BY SettingsAssumption DEF Jobs, Update

LEMMA GroupsOfKeys ==
    /\ Place \in Keys /\ Latest \in Keys /\ Available \in Keys
    /\ Place # Latest /\ Place # Available /\ Latest # Available
    /\ GroupOf[Latest] = GroupOf[Available]
    /\ \A k \in Keys : GroupOf[k] \in Groups
    /\ GroupOf[Place] # Notification /\ GroupOf[Available] # Notification
BY SettingsAssumption

\* A path with its slash is a place.
LEMMA SlashedPlace ==
    ASSUME NEW v \in Folders
    PROVE  /\ v \in Allowed[Place] /\ Slash[v] \in Allowed[Place]
           /\ Slash[v] # Blank /\ Slash[Slash[v]] = Slash[v]
<1>1. v \in Allowed[Place] /\ Slash[v] # v
  BY DEF Folders
<1>2. Slash[v] = Blank => v = Blank
  BY <1>1, SettingsAssumption
<1>3. Slash[Blank] = Blank
  BY SettingsAssumption
<1>4. Slash[v] # Blank
  BY <1>1, <1>2, <1>3
<1> QED
  BY <1>1, <1>4, SettingsAssumption

---------------------------------------------------------------------------
(* What a change and a load do                                             *)

LEMMA SetFacts ==
    ASSUME SettingsType, NEW k \in Keys, NEW v \in Values, Set(k, v)
    PROVE  /\ k \notin {Available, Latest} /\ v \in Allowed[k]
           /\ shown' \in Whole
           /\ \A x \in Keys : x # k => shown'[x] = shown[x]
           /\ k # Place => shown'[k] = v
           /\ k = Place => v \in Folders /\ shown'[k] = Slash[v]
           /\ Change(GroupOf[k], Append(todo, Update(k, v)))
           /\ IF GroupOf[k] \in ready THEN timer' = TRUE ELSE UNCHANGED timer
<1>1. /\ k \notin {Available, Latest}
      /\ v \in IF k = Place THEN Folders ELSE Allowed[k] \ {shown[k]}
      /\ shown' = [shown EXCEPT ![k] = IF k = Place THEN Slash[v] ELSE v]
      /\ Change(GroupOf[k], Append(todo, Update(k, v)))
  BY DEF Set, Sets
<1>2. IF GroupOf[k] \in ready THEN timer' = TRUE ELSE UNCHANGED timer
  BY DEF Set
<1>3. v \in Allowed[k] /\ (IF k = Place THEN Slash[v] ELSE v) \in Allowed[k]
  BY <1>1, SlashedPlace
<1>4. shown \in [Keys -> Values] /\ \A x \in Keys : shown[x] \in Allowed[x]
  BY DEF SettingsType, Whole
<1>5. \A x \in Keys : shown'[x] = IF x # k THEN shown[x]
                                   ELSE IF k = Place THEN Slash[v] ELSE v
  BY <1>1, <1>4
<1>6. Allowed[k] \subseteq Values
  BY SettingsAssumption
<1>7. shown' \in [Keys -> Values]
  BY <1>1, <1>3, <1>4, <1>6
<1>8. shown' \in Whole
  BY <1>3, <1>4, <1>5, <1>7 DEF Whole
<1>9. k = Place => v \in Folders
  BY <1>1
<1> QED
  BY <1>1, <1>2, <1>3, <1>5, <1>8, <1>9

LEMMA FoundFacts ==
    ASSUME SettingsType, NEW v \in Values, Found(v)
    PROVE  /\ v \in Allowed[Latest] /\ v # Blank /\ Yes \in Allowed[Available]
           /\ shown' \in Whole /\ told' = told
           /\ \A x \in Keys \ {Available, Latest} : shown'[x] = shown[x]
           /\ shown'[Available] = Yes /\ shown'[Latest] = v
           /\ Change(GroupOf[Latest], FoundTasks(v))
           /\ IF GroupOf[Latest] \in ready THEN timer' = TRUE ELSE UNCHANGED timer
<1>1. /\ v \in Allowed[Latest] /\ v # Blank /\ told' = told
      /\ shown' = [shown EXCEPT ![Available] = Yes, ![Latest] = v]
      /\ IF GroupOf[Latest] \in ready THEN timer' = TRUE ELSE UNCHANGED timer
  BY DEF Found
<1>2. Change(GroupOf[Latest], FoundTasks(v))
  BY DEF Found
<1>3. Yes \in Allowed[Available]
  BY SettingsAssumption
<1>4. shown \in [Keys -> Values] /\ \A x \in Keys : shown[x] \in Allowed[x]
  BY DEF SettingsType, Whole
<1>5. Yes \in Values
  BY <1>3, GroupsOfKeys, SettingsAssumption
<1>6. /\ shown' \in [Keys -> Values]
      /\ \A x \in Keys \ {Available, Latest} : shown'[x] = shown[x]
      /\ shown'[Available] = Yes /\ shown'[Latest] = v
  BY <1>1, <1>4, <1>5, GroupsOfKeys
<1>7. \A x \in Keys : shown'[x] \in Allowed[x]
  BY <1>1, <1>3, <1>4, <1>6
<1>8. shown' \in Whole
  BY <1>6, <1>7 DEF Whole
<1> QED
  BY <1>1, <1>2, <1>3, <1>6, <1>8

LEMMA FoundTasksAreJobs ==
    ASSUME SettingsType, NEW v \in Allowed[Latest]
    PROVE  FoundTasks(v) \in Seq(Jobs)
<1>1. Update(Available, Yes) \in Jobs /\ Update(Latest, v) \in Jobs
  BY GroupsOfKeys, UpdateIsJob, SettingsAssumption
<1>2. todo \in Seq(Jobs)
  BY DEF SettingsType
<1> QED
  BY <1>1, <1>2 DEF FoundTasks

\* A missing text counts as empty.
Given(v) == IF v = Absent THEN Blank ELSE v

LEMMA LoadFacts ==
    ASSUME SettingsType, NEW load \in loads, Load(load)
    PROVE  /\ load.group \in Groups
           /\ shown' \in Whole /\ told' \in [Listened -> Values]
           /\ \A k \in Keys \ Of(load.group) : shown'[k] = shown[k]
           /\ \A k \in Of(load.group) \ Texts : load.values[k] # Absent
           /\ \A k \in Of(load.group) \ {Place, Available, Latest} :
                  shown'[k] = Given(load.values[k])
           /\ Place \in Of(load.group) => shown'[Place] # Blank
           /\ Place \in Of(load.group) /\ Given(load.values[Place]) # Blank =>
                  shown'[Place] = load.values[Place] /\ UNCHANGED <<todo, timer>>
           /\ Place \in Of(load.group) /\ Given(load.values[Place]) = Blank =>
                  todo' = Append(todo, Update(Place, shown'[Place])) /\ timer' = TRUE
           /\ Place \notin Of(load.group) => UNCHANGED <<todo, timer>>
           /\ Available \in Of(load.group) =>
                  /\ shown'[Available] = No
                  /\ shown'[Latest] = IF load.values[Available] = Yes
                                      THEN Given(load.values[Latest])
                                      ELSE shown[Latest]
<1> DEFINE g == load.group
           took == Taken(load)
           blank == load.values[Place] \in {Blank, Absent}
<1>1. /\ g \in Groups
      /\ \A k \in Of(g) : load.values[k] \in Allowed[k] \cup {Absent}
  BY DEF SettingsType, LoadType
<1>2. /\ shown' = [k \in Keys |-> IF k \in Of(g) THEN took[k] ELSE shown[k]]
      /\ Tell({k \in Of(g) \cap Listened : shown[k] # took[k]}, took)
      /\ Numbered(load)
      /\ IF Place \in Of(g) /\ blank
         THEN todo' = Append(todo, Update(Place, took[Place])) /\ timer' = TRUE
         ELSE UNCHANGED <<todo, timer>>
  BY DEF Load
<1>3. Of(g) \subseteq Keys
  BY DEF Of
<1>4. \A k \in Of(g) \ Texts : load.values[k] # Absent
  BY <1>2 DEF Numbered
<1>5. shown \in [Keys -> Values] /\ \A x \in Keys : shown[x] \in Allowed[x]
  BY DEF SettingsType, Whole
<1>6. \A k \in Of(g) \ {Place, Available, Latest} : took[k] = Given(load.values[k])
  BY DEF Taken, Given
<1>7. ASSUME Place \in Of(g)
      PROVE  took[Place] = IF Given(load.values[Place]) # Blank THEN load.values[Place]
                           ELSE IF shown[Place] = Blank THEN Tmp ELSE shown[Place]
  BY <1>7, GroupsOfKeys DEF Taken, Given
<1>8. ASSUME Available \in Of(g)
      PROVE  /\ Latest \in Of(g) /\ took[Available] = No
             /\ took[Latest] = IF load.values[Available] = Yes
                               THEN Given(load.values[Latest]) ELSE shown[Latest]
  <2>1. Latest \in Of(g)
    BY <1>8, GroupsOfKeys DEF Of
  <2>2. took[Available] = No
    BY <1>8, GroupsOfKeys DEF Taken
  <2>3. took[Latest] = IF load.values[Available] = Yes
                       THEN Given(load.values[Latest]) ELSE shown[Latest]
    BY <2>1, GroupsOfKeys DEF Taken, Given
  <2> QED
    BY <2>1, <2>2, <2>3
<1> HIDE DEF took
<1>9. ASSUME NEW k \in Of(g)
      PROVE  took[k] \in Allowed[k]
  <2>1. k \in Texts => Blank \in Allowed[k]
    BY SettingsAssumption
  <2>2. Given(load.values[k]) \in Allowed[k]
    BY <1>1, <1>4, <2>1 DEF Given
  <2>3. CASE k = Place
    <3>1. Tmp \in Allowed[Place] /\ shown[Place] \in Allowed[Place]
      BY <1>5, GroupsOfKeys, SettingsAssumption
    <3>2. Given(load.values[Place]) # Blank => load.values[Place] \in Allowed[Place]
      BY <1>1, <2>3 DEF Given
    <3> QED
      BY <1>7, <2>3, <3>1, <3>2
  <2>4. CASE k = Available
    BY <1>8, <2>4, SettingsAssumption
  <2>5. CASE k = Latest
    <3>1. Available \in Of(g)
      BY <2>5, GroupsOfKeys DEF Of
    <3>2. shown[Latest] \in Allowed[Latest]
      BY <1>5, GroupsOfKeys
    <3> QED
      BY <1>8, <2>2, <2>5, <3>1, <3>2
  <2> QED
    BY <1>6, <2>2, <2>3, <2>4, <2>5
<1>10. \A k \in Keys : Allowed[k] \subseteq Values
  BY SettingsAssumption
<1>11. shown' \in [Keys -> Values] /\ \A x \in Keys : shown'[x] \in Allowed[x]
  BY <1>2, <1>3, <1>5, <1>9, <1>10
<1>12. shown' \in Whole
  BY <1>11 DEF Whole
<1>13. told' \in [Listened -> Values]
  <2> DEFINE keys == {k \in Of(g) \cap Listened : shown[k] # took[k]}
  <2>1. \A k \in keys : took[k] \in Values
    BY <1>3, <1>9, <1>10
  <2>2. told \in [Listened -> Values]
    BY DEF SettingsType
  <2>3. Tell(keys, took)
    BY <1>2
  <2> HIDE DEF keys
  <2> QED
    BY <2>1, <2>2, <2>3 DEF Tell
<1>14. ASSUME Place \in Of(g)
       PROVE  /\ shown'[Place] = took[Place] /\ took[Place] # Blank
              /\ Given(load.values[Place]) = Blank => blank
              /\ Given(load.values[Place]) # Blank => ~blank
  <2>1. Tmp # Blank
    BY SettingsAssumption
  <2> QED
    BY <1>2, <1>7, <1>14, <2>1, GroupsOfKeys DEF Given
<1> HIDE DEF blank
<1>15. /\ Place \in Of(g) /\ Given(load.values[Place]) # Blank =>
              shown'[Place] = load.values[Place] /\ UNCHANGED <<todo, timer>>
       /\ Place \in Of(g) /\ Given(load.values[Place]) = Blank =>
              todo' = Append(todo, Update(Place, shown'[Place])) /\ timer' = TRUE
       /\ Place \notin Of(g) => UNCHANGED <<todo, timer>>
  BY <1>2, <1>7, <1>14
<1>16. Available \in Of(g) =>
          /\ shown'[Available] = No
          /\ shown'[Latest] = IF load.values[Available] = Yes
                              THEN Given(load.values[Latest]) ELSE shown[Latest]
  BY <1>2, <1>8, GroupsOfKeys
<1>17. \A k \in Of(g) \ {Place, Available, Latest} : shown'[k] = Given(load.values[k])
  BY <1>2, <1>3, <1>6
<1>18. \A k \in Keys \ Of(g) : shown'[k] = shown[k]
  BY <1>2
<1> QED
  BY <1>1, <1>4, <1>12, <1>13, <1>14, <1>15, <1>16, <1>17, <1>18

---------------------------------------------------------------------------
(* Types                                                                   *)

LEMMA TypeStart == ASSUME SettingsType, Start PROVE SettingsType'
<1>1. (IF file \in Configs THEN file ELSE Default) \in Configs
  BY SettingsAssumption DEF Whole, Configs
<1>2. /\ running' = TRUE /\ changed' = FALSE /\ ready' = {} /\ told' = Heard
      /\ config' \in Configs /\ file' \in Configs /\ shown' \in Whole
      /\ todo' = <<Get>> /\ UNCHANGED <<timer, loads, writers, last>>
  BY <1>1 DEF Start, Begin
<1>3. Heard \in [Listened -> Values] /\ <<Get>> \in Seq(Jobs)
  BY SettingsAssumption DEF Jobs
<1> QED
  BY <1>2, <1>3 DEF SettingsType, LoadType

LEMMA TypeEnd == ASSUME SettingsType, End PROVE SettingsType'
<1>1. /\ running' = FALSE /\ last' = shown
      /\ timer' = FALSE /\ todo' = << >> /\ loads' = {} /\ writers' = << >>
      /\ file' \in {file, Torn}
      /\ UNCHANGED <<shown, ready, told, config, changed>>
  BY DEF End, modelVars
<1>2. << >> \in Seq(Jobs) /\ << >> \in Seq(Configs)
  OBVIOUS
<1>3. /\ running' \in BOOLEAN /\ timer' \in BOOLEAN /\ changed' \in BOOLEAN
      /\ shown' \in Whole /\ last' \in Whole /\ ready' \subseteq Groups
      /\ told' \in [Listened -> Values] /\ config' \in Configs
      /\ file' \in Configs \cup {Missing, Empty, Torn}
  BY <1>1 DEF SettingsType
<1>4. LoadType'
  BY <1>1 DEF LoadType
<1> QED
  BY <1>1, <1>2, <1>3, <1>4 DEF SettingsType

LEMMA TypeSet ==
    ASSUME SettingsType, NEW k \in Keys, NEW v \in Values, Set(k, v)
    PROVE  SettingsType'
<1>1. /\ v \in Allowed[k] /\ shown' \in Whole
      /\ Change(GroupOf[k], Append(todo, Update(k, v)))
      /\ IF GroupOf[k] \in ready THEN timer' = TRUE ELSE UNCHANGED timer
  BY SetFacts
<1>2. Append(todo, Update(k, v)) \in Seq(Jobs)
  BY <1>1, UpdateIsJob DEF SettingsType
<1>3. Tell({k}, [x \in {k} |-> v])
  BY DEF Set, Sets
<1>4. told' \in [Listened -> Values]
  BY <1>3 DEF Tell, SettingsType
<1>5. /\ running /\ running' = running /\ changed' = TRUE
      /\ todo' \in Seq(Jobs)
      /\ UNCHANGED <<ready, loads, config, writers, file, last>>
  BY <1>1, <1>2 DEF Change, SettingsType, storeVars
<1>6. timer' \in BOOLEAN
  BY <1>1 DEF SettingsType
<1> QED
  BY <1>1, <1>4, <1>5, <1>6 DEF SettingsType, LoadType

LEMMA TypeFound ==
    ASSUME SettingsType, NEW v \in Values, Found(v)
    PROVE  SettingsType'
<1>1. /\ v \in Allowed[Latest] /\ shown' \in Whole /\ told' = told
      /\ Change(GroupOf[Latest], FoundTasks(v))
      /\ IF GroupOf[Latest] \in ready THEN timer' = TRUE ELSE UNCHANGED timer
  BY FoundFacts
<1>2. FoundTasks(v) \in Seq(Jobs)
  BY <1>1, FoundTasksAreJobs
<1>3. /\ running /\ running' = running /\ changed' = TRUE
      /\ todo' \in Seq(Jobs)
      /\ UNCHANGED <<ready, loads, config, writers, file, last>>
  BY <1>1, <1>2 DEF Change, SettingsType, storeVars
<1>4. timer' \in BOOLEAN
  BY <1>1 DEF SettingsType
<1> QED
  BY <1>1, <1>3, <1>4 DEF SettingsType, LoadType

LEMMA TypeLoad ==
    ASSUME SettingsType, NEW load \in loads, Load(load)
    PROVE  SettingsType'
<1>1. running
  BY DEF SettingsType
<1>2. /\ UNCHANGED <<running, config, writers, file, last, changed>>
      /\ loads' \subseteq loads
      /\ ready' \in {ready \ {load.group}, ready \cup {load.group}}
  BY DEF Load, storeVars, history
<1>3. load.group \in Groups /\ shown' \in Whole /\ told' \in [Listened -> Values]
  BY LoadFacts
<1>4. todo' \in Seq(Jobs) /\ timer' \in BOOLEAN
  <2>1. todo \in Seq(Jobs) /\ timer \in BOOLEAN
    BY DEF SettingsType
  <2>2. Update(Place, shown'[Place]) \in Jobs
    BY <1>3, GroupsOfKeys, UpdateIsJob DEF Whole
  <2>3. \/ UNCHANGED <<todo, timer>>
        \/ todo' = Append(todo, Update(Place, shown'[Place])) /\ timer' = TRUE
    BY LoadFacts
  <2>4. CASE UNCHANGED <<todo, timer>>
    BY <2>1, <2>4
  <2>5. CASE todo' = Append(todo, Update(Place, shown'[Place])) /\ timer' = TRUE
    BY <2>1, <2>2, <2>5
  <2> QED
    BY <2>3, <2>4, <2>5
<1>5. ready' \subseteq Groups
  BY <1>2, <1>3 DEF SettingsType
<1> QED
  BY <1>1, <1>2, <1>3, <1>4, <1>5 DEF SettingsType, LoadType

LEMMA ConfigUpdated ==
    ASSUME SettingsType, NEW i \in DOMAIN todo, OnUpdateValue(i)
    PROVE  /\ todo[i].key \in Keys /\ todo[i].value \in Values
           /\ todo[i].value # Absent
           /\ config' \in Configs
           /\ \A k \in Keys : config'[k] =
                 IF k = todo[i].key /\ config[k] # Absent THEN todo[i].value ELSE config[k]
<1>1. todo[i] \in Jobs /\ todo[i].op = "update"
  BY DEF SettingsType, OnUpdateValue
<1>2. /\ todo[i].key \in Keys /\ todo[i].value \in Values
      /\ todo[i].value \in Allowed[todo[i].key]
  BY <1>1 DEF Jobs, Get, Write
<1>3. config' = IF config[todo[i].key] = Absent THEN config
                ELSE [config EXCEPT ![todo[i].key] = todo[i].value]
  BY DEF OnUpdateValue
<1>4. config \in Configs
  BY DEF SettingsType
<1>5. Absent \notin Values
  BY SettingsAssumption
<1> QED
  BY <1>2, <1>3, <1>4, <1>5 DEF Configs

LEMMA TypeRun ==
    ASSUME SettingsType, NEW i \in DOMAIN todo, Run(i)
    PROVE  SettingsType'
<1>1. todo' \in Seq(Jobs)
  <2>1. Done(i)
    BY DEF Run, OnGetConfig, OnUpdateValue, OpenFile, OpenFails
  <2> QED
    BY <2>1, RemoveAtSeq DEF Done, SettingsType
<1>2. running
  BY DEF SettingsType
<1>3. UNCHANGED <<running, shown, ready, told, timer, last, changed>>
  BY DEF Run, OnGetConfig, OnUpdateValue, OpenFile, OpenFails, modelVars, history
<1>4. CASE OnGetConfig(i)
  <2>1. loads' = {[group |-> g, values |-> [k \in Of(g) |-> config[k]]] : g \in Groups}
    BY <1>4 DEF OnGetConfig
  <2>2. \A k \in Keys : config[k] \in Allowed[k] \cup {Absent}
    BY DEF SettingsType, Configs
  <2>3. LoadType'
    <3> SUFFICES ASSUME NEW load \in loads'
                 PROVE  /\ load.group \in Groups
                        /\ \A k \in Of(load.group) :
                              load.values[k] \in Allowed[k] \cup {Absent}
      BY DEF LoadType
    <3>1. PICK g \in Groups :
              load = [group |-> g, values |-> [k \in Of(g) |-> config[k]]]
      BY <2>1
    <3>2. load.group = g /\ load.values = [k \in Of(g) |-> config[k]]
      BY <3>1
    <3>3. Of(g) \subseteq Keys
      BY DEF Of
    <3> QED
      BY <2>2, <3>2, <3>3
  <2>4. UNCHANGED <<config, writers, file>>
    BY <1>4 DEF OnGetConfig, storeVars
  <2> QED
    BY <1>1, <1>2, <1>3, <2>3, <2>4 DEF SettingsType
<1>5. CASE OnUpdateValue(i)
  <2>1. config' \in Configs
    BY <1>5, ConfigUpdated
  <2>2. UNCHANGED <<loads, writers, file>>
    BY <1>5 DEF OnUpdateValue
  <2> QED
    BY <1>1, <1>2, <1>3, <2>1, <2>2 DEF SettingsType, LoadType
<1>6. CASE OpenFile(i)
  <2>1. file' = Empty /\ writers' = Append(writers, config) /\ UNCHANGED <<loads, config>>
    BY <1>6 DEF OpenFile
  <2>2. writers' \in Seq(Configs)
    BY <2>1 DEF SettingsType
  <2> QED
    BY <1>1, <1>2, <1>3, <2>1, <2>2 DEF SettingsType, LoadType
<1>7. CASE OpenFails(i)
  <2>1. UNCHANGED <<loads, config, writers, file>>
    BY <1>7 DEF OpenFails, storeVars
  <2> QED
    BY <1>1, <1>2, <1>3, <2>1 DEF SettingsType, LoadType
<1> QED
  BY <1>4, <1>5, <1>6, <1>7 DEF Run

LEMMA TypeWrite ==
    ASSUME SettingsType, NEW w \in DOMAIN writers, WriteFile(w) \/ WriteFails(w)
    PROVE  SettingsType'
<1>1. /\ writers' = RemoveAt(writers, w)
      /\ UNCHANGED <<running, shown, ready, told, timer, todo, loads, config, last,
                     changed>>
      /\ file' = writers[w] \/ file' = Torn
  BY DEF WriteFile, WriteFails, modelVars, history
<1>2. writers' \in Seq(Configs) /\ writers[w] \in Configs
  BY <1>1, RemoveAtSeq DEF SettingsType
<1>3. running
  BY DEF SettingsType
<1> QED
  BY <1>1, <1>2, <1>3 DEF SettingsType, LoadType

\* Every variable keeps its type, and a program that does not run has nothing
\* under way.
THEOREM SettingsTypeCorrect == Spec => []SettingsType
<1>1. Init => SettingsType
  <2> SUFFICES ASSUME Init PROVE SettingsType
    OBVIOUS
  <2>1. Default \in Whole /\ Default \in Configs
    BY SettingsAssumption DEF Whole, Configs
  <2>2. /\ running = FALSE /\ timer = FALSE /\ changed = FALSE /\ todo = << >>
        /\ loads = {} /\ writers = << >> /\ ready = {} /\ shown = Default
        /\ last = Default /\ config = Default /\ told = Heard
        /\ file \in {Missing} \cup Older
    BY DEF Init
  <2>3. /\ told \in [Listened -> Values]
        /\ file \in Configs \cup {Missing, Empty, Torn}
    BY <2>2, SettingsAssumption
  <2>4. todo \in Seq(Jobs) /\ writers \in Seq(Configs)
    BY <2>2
  <2> QED
    BY <2>1, <2>2, <2>3, <2>4 DEF SettingsType, LoadType
<1>2. SettingsType /\ [Next]_vars => SettingsType'
  <2> SUFFICES ASSUME SettingsType, [Next]_vars
               PROVE  SettingsType'
    OBVIOUS
  <2>1. CASE StartFails
    <3>1. /\ UNCHANGED <<running, shown, ready, told, timer, todo, loads, config,
                         writers, last, changed>>
          /\ file' \in {file, Missing}
      BY <2>1 DEF StartFails, modelVars, history
    <3> QED
      BY <3>1 DEF SettingsType, LoadType
  <2>2. CASE SetCacheSize
    BY <2>2 DEF SetCacheSize, SettingsType, LoadType, modelVars, storeVars, history
  <2>3. CASE Tick
    <3>1. /\ running /\ timer' = FALSE /\ todo' = Append(todo, Write)
          /\ UNCHANGED <<running, shown, ready, told, loads, config, writers, file,
                         last, changed>>
      BY <2>3 DEF Tick, SettingsType, modelVars, storeVars, history
    <3>2. todo' \in Seq(Jobs)
      BY <3>1 DEF SettingsType, Jobs
    <3> QED
      BY <3>1, <3>2 DEF SettingsType, LoadType
  <2>4. CASE UNCHANGED vars
    BY <2>4 DEF vars, SettingsType, LoadType, modelVars, storeVars, history
  <2>5. CASE Exit \/ \E load \in loads : Throw(load)
    BY <2>5, TypeEnd DEF Exit, Throw
  <2> QED
    BY <2>1, <2>2, <2>3, <2>4, <2>5, TypeStart, TypeSet, TypeFound, TypeLoad, TypeRun,
       TypeWrite DEF Next
<1> QED
  BY <1>1, <1>2, PTL DEF Spec

---------------------------------------------------------------------------
(* A flush that has the file to itself leaves it whole, and Start repairs  *)
(* one that was cut.                                                       *)

\* What no step but these does: writing, and the program's start and end.
LEMMA OtherSteps ==
    ASSUME SettingsType,
           \/ SetCacheSize \/ Tick \/ UNCHANGED vars
           \/ \E k \in Keys, v \in Values : Set(k, v)
           \/ \E v \in Values : Found(v)
           \/ \E load \in loads : Load(load)
           \/ \E i \in DOMAIN todo : OnGetConfig(i) \/ OnUpdateValue(i) \/ OpenFails(i)
    PROVE  UNCHANGED <<running, writers, file, exits, last>> /\ mishaps \subseteq mishaps'
<1>1. CASE SetCacheSize \/ Tick
  BY <1>1 DEF SetCacheSize, Tick, storeVars, history
<1>2. CASE UNCHANGED vars
  BY <1>2 DEF vars, storeVars, history
<1>3. ASSUME NEW k \in Keys, NEW v \in Values, Set(k, v)
      PROVE  UNCHANGED <<running, writers, file, exits, last>> /\ mishaps \subseteq mishaps'
  BY <1>3 DEF Set, Sets, Change, storeVars
<1>4. ASSUME NEW v \in Values, Found(v)
      PROVE  UNCHANGED <<running, writers, file, exits, last>> /\ mishaps \subseteq mishaps'
  BY <1>4 DEF Found, Change, storeVars
<1>5. ASSUME NEW load \in loads, Load(load)
      PROVE  UNCHANGED <<running, writers, file, exits, last>> /\ mishaps \subseteq mishaps'
  BY <1>5 DEF Load, storeVars, history
<1>6. ASSUME NEW i \in DOMAIN todo, OnGetConfig(i) \/ OnUpdateValue(i) \/ OpenFails(i)
      PROVE  UNCHANGED <<running, writers, file, exits, last>> /\ mishaps \subseteq mishaps'
  BY <1>6 DEF OnGetConfig, OnUpdateValue, OpenFails, storeVars, history
<1> QED
  BY <1>1, <1>2, <1>3, <1>4, <1>5, <1>6

LEMMA FileAlways == Spec => []FileInv
<1>1. Init => FileInv
  BY DEF Init, FileInv
<1>2. SettingsType /\ FileInv /\ [Next]_vars => FileInv'
  <2> SUFFICES ASSUME SettingsType, FileInv, [Next]_vars,
                      running', mishaps' \cap {"overlap", "failed"} = {}
               PROVE  IF writers' = << >> THEN file' \in Configs
                      ELSE Len(writers') = 1 /\ file' = Empty
    BY DEF FileInv
  <2>1. CASE Start
    <3>1. Default \in Configs
      BY SettingsAssumption DEF Whole, Configs
    <3>2. /\ file' = IF file \in Configs THEN file ELSE Default
          /\ ~running /\ writers' = writers
      BY <2>1 DEF Start, Begin
    <3> QED
      BY <3>1, <3>2 DEF SettingsType
  <2>2. CASE End \/ StartFails
    BY <2>2 DEF End, StartFails
  <2>3. CASE UNCHANGED <<running, writers, file>> /\ mishaps \subseteq mishaps'
    BY <2>3 DEF FileInv
  <2>4. ASSUME NEW i \in DOMAIN todo, OpenFile(i)
        PROVE  IF writers' = << >> THEN file' \in Configs
               ELSE Len(writers') = 1 /\ file' = Empty
    <3>1. file' = Empty /\ writers' = Append(writers, config) /\ writers = << >>
      BY <2>4 DEF OpenFile
    <3> QED
      BY <3>1
  <2>5. ASSUME NEW w \in DOMAIN writers, WriteFile(w)
        PROVE  writers' = << >> /\ file' \in Configs
    <3>1. /\ running /\ mishaps' = mishaps /\ writers # << >>
          /\ writers \in Seq(Configs)
      BY <2>5 DEF WriteFile, SettingsType
    <3>2. Len(writers) = 1 /\ file = Empty /\ w = 1
      BY <2>5, <3>1 DEF FileInv
    <3>3. file' = writers[1] /\ writers[1] \in Configs
      BY <2>5, <3>1, <3>2 DEF WriteFile
    <3>4. Len(writers') = 0 /\ writers' \in Seq(Configs)
      BY <2>5, <3>1, <3>2, RemoveAtSeq DEF WriteFile
    <3> QED
      BY <3>3, <3>4, EmptySeq
  <2>6. ASSUME NEW w \in DOMAIN writers, WriteFails(w)
        PROVE  FALSE
    BY <2>6 DEF WriteFails
  <2> QED
    BY <2>1, <2>2, <2>3, <2>4, <2>5, <2>6, OtherSteps DEF Next, Run, Exit, Throw
<1> QED
  BY <1>1, <1>2, SettingsTypeCorrect, PTL DEF Spec

\* Outside a flush the file is whole, for whatever was changed and however the
\* program ended, until two flushes have run at once or one has failed.
THEOREM HealthySettings == Spec => []Healthy
<1>1. FileInv => Healthy
  BY DEF FileInv, Healthy
<1> QED
  BY <1>1, FileAlways, PTL

---------------------------------------------------------------------------
(* The tasks of the pool                                                   *)

UpdatesIn(q, k) == {i \in DOMAIN q : q[i].op = "update" /\ q[i].key = k}
GetsIn(q) == {i \in DOMAIN q : q[i].op = "get"}
FlushesIn(q) == {i \in DOMAIN q : q[i].op = "write"}
Updates(k) == UpdatesIn(todo, k)
Gets == GetsIn(todo)
Flushes == FlushesIn(todo)

\* The value that key k ends with once the tasks of q have run in order, when
\* config has c.
Ends(q, k, c, w) ==
    IF UpdatesIn(q, k) = {} THEN w = c
    ELSE \E i \in UpdatesIn(q, k) : /\ w = q[i].value
                                    /\ \A j \in UpdatesIn(q, k) : j <= i

\* What removing a task does to the positions of the updates and flushes.
LEMMA RemovedTask ==
    ASSUME SettingsType, NEW i \in DOMAIN todo, Done(i)
    PROVE  /\ DOMAIN todo = 1..Len(todo) /\ Len(todo) \in Nat
           /\ DOMAIN todo' = 1..(Len(todo) - 1)
           /\ \A j \in DOMAIN todo' : todo'[j] = IF j < i THEN todo[j] ELSE todo[j + 1]
<1>1. todo \in Seq(Jobs) /\ todo' = RemoveAt(todo, i)
  BY DEF SettingsType, Done
<1>2. /\ todo' \in Seq(Jobs) /\ Len(todo') = Len(todo) - 1
      /\ \A j \in 1..(Len(todo) - 1) :
            todo'[j] = IF j < i THEN todo[j] ELSE todo[j + 1]
  BY <1>1, RemoveAtSeq
<1>3. DOMAIN todo = 1..Len(todo) /\ Len(todo) \in Nat
  BY <1>1
<1>4. DOMAIN todo' = 1..(Len(todo) - 1)
  BY <1>2
<1> QED
  BY <1>2, <1>3, <1>4

\* The positions of a kind of task after one was removed: those before it
\* stay, those behind it move up.
LEMMA RemovedPositions ==
    ASSUME SettingsType, NEW i \in DOMAIN todo, Done(i), NEW k
    PROVE  /\ \A j \in Updates(k)' : IF j < i THEN j \in Updates(k) ELSE j + 1 \in Updates(k)
           /\ \A j \in Updates(k) : /\ j < i => j \in Updates(k)'
                                    /\ j > i => j - 1 \in Updates(k)'
           /\ \A j \in Gets' : IF j < i THEN j \in Gets ELSE j + 1 \in Gets
           /\ \A j \in Gets : /\ j < i => j \in Gets'
                              /\ j > i => j - 1 \in Gets'
           /\ \A j \in Flushes : /\ j < i => j \in Flushes'
                                 /\ j > i => j - 1 \in Flushes'
           /\ Updates(k) \subseteq Int /\ Gets \subseteq Int /\ Flushes \subseteq Int
           /\ Updates(k)' \subseteq Int /\ Gets' \subseteq Int /\ i \in Int
<1>1. /\ DOMAIN todo = 1..Len(todo) /\ Len(todo) \in Nat
      /\ DOMAIN todo' = 1..(Len(todo) - 1)
      /\ \A j \in DOMAIN todo' : todo'[j] = IF j < i THEN todo[j] ELSE todo[j + 1]
  BY RemovedTask
<1>2. i \in Int /\ i \in 1..Len(todo)
  BY <1>1
<1>3. ASSUME NEW j \in DOMAIN todo'
      PROVE  IF j < i THEN j \in DOMAIN todo /\ todo'[j] = todo[j]
             ELSE j + 1 \in DOMAIN todo /\ todo'[j] = todo[j + 1]
  BY <1>1, <1>2
<1>4. ASSUME NEW j \in DOMAIN todo
      PROVE  /\ j < i => j \in DOMAIN todo' /\ todo'[j] = todo[j]
             /\ j > i => j - 1 \in DOMAIN todo' /\ todo'[j - 1] = todo[j]
  <2>1. j \in Int
    BY <1>1
  <2>2. CASE j < i
    BY <1>1, <1>2, <2>1, <2>2
  <2>3. CASE j > i
    <3>1. j - 1 \in DOMAIN todo' /\ ~(j - 1 < i) /\ (j - 1) + 1 = j
      BY <1>1, <1>2, <2>1, <2>3
    <3> QED
      BY <1>1, <2>1, <2>3, <3>1
  <2> QED
    BY <1>2, <2>1, <2>2, <2>3
<1>5. DOMAIN todo \subseteq Int /\ DOMAIN todo' \subseteq Int
  BY <1>1
<1> QED
  BY <1>2, <1>3, <1>4, <1>5, Zenon DEF Updates, Gets, Flushes, UpdatesIn, GetsIn, FlushesIn

\* What p has to do with q, of which it is q with an update at the end: the
\* last of its key, and no other key's.
Extends(p, q, k, v, x) ==
    /\ GetsIn(p) = GetsIn(q)
    /\ x = k => UpdatesIn(p, x) # {}
    /\ x # k => UpdatesIn(p, x) = UpdatesIn(q, x)
    /\ x = k => \A c, w : Ends(p, x, c, w) => w = v
    /\ x # k => \A c, w : Ends(p, x, c, w) => Ends(q, x, c, w)
    /\ \A i \in UpdatesIn(p, x) :
          \/ x = k /\ p[i].value = v
          \/ i \in UpdatesIn(q, x) /\ p[i] = q[i]

LEMMA AppendedUpdate ==
    ASSUME NEW q \in Seq(Jobs), NEW k \in Keys, NEW v \in Allowed[k],
           NEW p, p = Append(q, Update(k, v)), NEW x
    PROVE  p \in Seq(Jobs) /\ Extends(p, q, k, v, x)
<1> DEFINE t == Update(k, v)
           n == Len(q) + 1
<1>1. /\ t \in Jobs /\ t.op = "update" /\ t.key = k /\ t.value = v
      /\ p = Append(q, t)
  BY UpdateIsJob DEF Update
<1>0. /\ DOMAIN q = 1..Len(q) /\ Len(q) \in Nat
      /\ DOMAIN p = 1..(Len(q) + 1)
      /\ \A i \in 1..Len(q) : p[i] = q[i]
      /\ p[Len(q) + 1] = t /\ p \in Seq(Jobs)
  <2> HIDE DEF t
  <2> QED
    BY <1>1
<1>2. /\ DOMAIN p = DOMAIN q \cup {n} /\ n \notin DOMAIN q /\ n \in Int
      /\ \A i \in DOMAIN q : p[i] = q[i] /\ i \in Int /\ i < n
      /\ p[n] = t /\ p \in Seq(Jobs)
  BY <1>0
<1> HIDE DEF n, t
<1>3. /\ UpdatesIn(p, x) = UpdatesIn(q, x) \cup (IF x = k THEN {n} ELSE {})
      /\ GetsIn(p) = GetsIn(q) /\ p[n].value = v
      /\ \A i \in UpdatesIn(q, x) : i \in Int /\ i < n /\ p[i] = q[i]
      /\ p \in Seq(Jobs) /\ n \in Int
  BY <1>1, <1>2 DEF UpdatesIn, GetsIn
<1>4. ASSUME x = k, NEW c, NEW w, Ends(p, x, c, w)
      PROVE  w = v
  <2>1. PICK i \in UpdatesIn(p, x) : w = p[i].value /\ \A j \in UpdatesIn(p, x) : j <= i
    BY <1>3, <1>4 DEF Ends
  <2>2. i = n
    BY <1>3, <1>4, <2>1
  <2> QED
    BY <1>3, <2>1, <2>2
<1>5. ASSUME x # k, NEW c, NEW w, Ends(p, x, c, w)
      PROVE  Ends(q, x, c, w)
  BY <1>3, <1>5 DEF Ends
<1> QED
  BY <1>3, <1>4, <1>5 DEF Extends

\* A flush at the end is behind all updates.
ExtendsByFlush(p, q, k) ==
    /\ UpdatesIn(p, k) = UpdatesIn(q, k)
    /\ GetsIn(p) = GetsIn(q)
    /\ \E j \in FlushesIn(p) : \A i \in UpdatesIn(q, k) : i < j
    /\ \A i \in UpdatesIn(q, k) : p[i] = q[i]
    /\ \A c, w : Ends(p, k, c, w) => Ends(q, k, c, w)

LEMMA AppendedFlush ==
    ASSUME NEW q \in Seq(Jobs), NEW p, p = Append(q, Write), NEW k
    PROVE  ExtendsByFlush(p, q, k)
<1> DEFINE t == Write
           n == Len(q) + 1
<1>1. t \in Jobs /\ t.op = "write" /\ p = Append(q, t)
  BY DEF Jobs, Write
<1>0. /\ DOMAIN q = 1..Len(q) /\ Len(q) \in Nat
      /\ DOMAIN p = 1..(Len(q) + 1)
      /\ \A i \in 1..Len(q) : p[i] = q[i]
      /\ p[Len(q) + 1] = t
  <2> HIDE DEF t
  <2> QED
    BY <1>1
<1>2. /\ DOMAIN p = DOMAIN q \cup {n} /\ n \notin DOMAIN q
      /\ \A i \in DOMAIN q : p[i] = q[i] /\ i < n
      /\ p[n] = t
  BY <1>0
<1> HIDE DEF t, n
<1>3. /\ UpdatesIn(p, k) = UpdatesIn(q, k) /\ GetsIn(p) = GetsIn(q)
      /\ n \in FlushesIn(p)
      /\ \A i \in UpdatesIn(q, k) : i < n /\ p[i] = q[i]
  BY <1>1, <1>2 DEF UpdatesIn, GetsIn, FlushesIn
<1>4. ASSUME NEW c, NEW w, Ends(p, k, c, w)
      PROVE  Ends(q, k, c, w)
  BY <1>3, <1>4 DEF Ends
<1> QED
  BY <1>3, <1>4 DEF ExtendsByFlush

\* The last update of a key stays the last when another task is removed, or
\* the first of several.
LEMMA LastUpdateStays ==
    ASSUME SettingsType, NEW i \in DOMAIN todo, Done(i), NEW k,
           \A j \in Updates(k) : i <= j \/ i \notin Updates(k),
           NEW m \in Updates(k)', \A j \in Updates(k)' : j <= m
    PROVE  \E n \in Updates(k) : /\ todo[n] = todo'[m]
                                 /\ \A j \in Updates(k) : j <= n
<1>1. /\ \A j \in Updates(k)' : IF j < i THEN j \in Updates(k) ELSE j + 1 \in Updates(k)
      /\ \A j \in Updates(k) : /\ j < i => j \in Updates(k)'
                               /\ j > i => j - 1 \in Updates(k)'
      /\ Updates(k) \subseteq Int /\ Updates(k)' \subseteq Int /\ i \in Int
  BY RemovedPositions
<1>2. \A j \in DOMAIN todo' : todo'[j] = IF j < i THEN todo[j] ELSE todo[j + 1]
  BY RemovedTask
<1>3. m \in DOMAIN todo'
  BY DEF Updates, UpdatesIn
<1> DEFINE n == IF m < i THEN m ELSE m + 1
<1>4. n \in Updates(k) /\ todo'[m] = todo[n]
  BY <1>1, <1>2, <1>3
<1>5. ASSUME NEW j \in Updates(k)
      PROVE  j <= n
  <2>1. m \in Int /\ j \in Int /\ i \in Int
    BY <1>1
  <2>2. CASE j < i
    <3>1. j <= m
      BY <1>1, <2>2
    <3> QED
      BY <2>1, <3>1
  <2>3. CASE j > i
    <3>1. j - 1 <= m
      BY <1>1, <2>3
    <3> QED
      BY <2>1, <2>3, <3>1
  <2>4. CASE j = i
    <3>1. i <= n
      BY <1>4, <2>4
    <3> QED
      BY <2>4, <3>1
  <2> QED
    BY <2>1, <2>2, <2>3, <2>4
<1> QED
  BY <1>4, <1>5

\* A flush behind all updates of a key stays behind them when another task is
\* removed.
LEMMA FlushStaysBehind ==
    ASSUME SettingsType, NEW i \in DOMAIN todo, Done(i), NEW k,
           NEW f \in Flushes, f # i, \A j \in Updates(k) : j < f
    PROVE  \E g \in Flushes' : \A j \in Updates(k)' : j < g
<1>1. /\ \A j \in Updates(k)' : IF j < i THEN j \in Updates(k) ELSE j + 1 \in Updates(k)
      /\ \A j \in Flushes : /\ j < i => j \in Flushes'
                            /\ j > i => j - 1 \in Flushes'
      /\ Updates(k)' \subseteq Int /\ Flushes \subseteq Int /\ i \in Int
  BY RemovedPositions
<1> DEFINE g == IF f < i THEN f ELSE f - 1
<1>2. g \in Flushes' /\ f \in Int /\ i \in Int
  BY <1>1
<1>3. ASSUME NEW j \in Updates(k)'
      PROVE  j < g
  <2>1. j \in Int
    BY <1>1
  <2>2. IF j < i THEN j < f ELSE j + 1 < f
    BY <1>1
  <2> QED
    BY <1>2, <2>1, <2>2
<1> QED
  BY <1>2, <1>3

LEMMA RemovedOthers ==
    ASSUME SettingsType, NEW i \in DOMAIN todo, Done(i), NEW k
    PROVE  /\ Updates(k) = {} => Updates(k)' = {}
           /\ i \notin Updates(k) /\ Updates(k)' = {} => Updates(k) = {}
           /\ (\A a, b \in Gets : a = b) => \A a, b \in Gets' : a = b
           /\ Gets = {} => Gets' = {}
           /\ i \notin Gets /\ Gets' = {} => Gets = {}
           /\ i \in Gets /\ (\A a, b \in Gets : a = b) => Gets' = {}
<1>1. /\ \A j \in Updates(k)' : IF j < i THEN j \in Updates(k) ELSE j + 1 \in Updates(k)
      /\ \A j \in Updates(k) : /\ j < i => j \in Updates(k)'
                               /\ j > i => j - 1 \in Updates(k)'
      /\ \A j \in Gets' : IF j < i THEN j \in Gets ELSE j + 1 \in Gets
      /\ \A j \in Gets : /\ j < i => j \in Gets'
                         /\ j > i => j - 1 \in Gets'
      /\ Updates(k) \subseteq Int /\ Gets \subseteq Int
      /\ Updates(k)' \subseteq Int /\ Gets' \subseteq Int /\ i \in Int
  BY RemovedPositions
<1>2. Updates(k) = {} => Updates(k)' = {}
  BY <1>1
<1>3. i \notin Updates(k) /\ Updates(k)' = {} => Updates(k) = {}
  <2> SUFFICES ASSUME i \notin Updates(k), NEW j \in Updates(k)
               PROVE  Updates(k)' # {}
    OBVIOUS
  <2>1. j \in Int /\ i \in Int /\ j # i
    BY <1>1
  <2>2. j < i \/ j > i
    BY <2>1
  <2> QED
    BY <1>1, <2>2
<1>4. Gets = {} => Gets' = {}
  BY <1>1
<1>5. i \notin Gets /\ Gets' = {} => Gets = {}
  <2> SUFFICES ASSUME i \notin Gets, NEW j \in Gets
               PROVE  Gets' # {}
    OBVIOUS
  <2>1. j \in Int /\ i \in Int /\ j # i
    BY <1>1
  <2>2. j < i \/ j > i
    BY <2>1
  <2> QED
    BY <1>1, <2>2
<1>6. ASSUME i \in Gets, \A a, b \in Gets : a = b
      PROVE  Gets' = {}
  <2> SUFFICES ASSUME NEW j \in Gets' PROVE FALSE
    OBVIOUS
  <2>1. j \in Int /\ i \in Int
    BY <1>1
  <2>2. IF j < i THEN j \in Gets ELSE j + 1 \in Gets
    BY <1>1
  <2>3. \A a \in Gets : a = i
    BY <1>6
  <2> QED
    BY <2>1, <2>2, <2>3
<1>7. ASSUME \A a, b \in Gets : a = b, NEW a \in Gets', NEW b \in Gets'
      PROVE  a = b
  <2> DEFINE up(j) == IF j < i THEN j ELSE j + 1
  <2>1. up(a) \in Gets /\ up(b) \in Gets
    BY <1>1
  <2>2. up(a) = up(b)
    BY <1>7, <2>1
  <2>3. a \in Int /\ b \in Int /\ i \in Int
    BY <1>1
  <2> QED
    BY <2>2, <2>3
<1> QED
  BY <1>2, <1>3, <1>4, <1>5, <1>6, <1>7

\* Taking another task, or the first update of a key, leaves what the key
\* ends with.
LEMMA EndsTaken ==
    ASSUME SettingsType, NEW i \in DOMAIN todo, Done(i), NEW k, NEW c, NEW d, NEW w,
           i \notin Updates(k) => d = c,
           i \in Updates(k) => d = todo[i].value /\ \A j \in Updates(k) : i <= j,
           Ends(todo', k, d, w)
    PROVE  Ends(todo, k, c, w)
<1>1. Updates(k)' = UpdatesIn(todo', k) /\ Updates(k) = UpdatesIn(todo, k)
  BY DEF Updates
<1>2. CASE Updates(k)' # {}
  <2>1. PICK m \in Updates(k)' : w = todo'[m].value /\ \A j \in Updates(k)' : j <= m
    BY <1>1, <1>2 DEF Ends
  <2>2. \A j \in Updates(k) : i <= j \/ i \notin Updates(k)
    OBVIOUS
  <2>3. \E n \in Updates(k) : todo[n] = todo'[m] /\ \A j \in Updates(k) : j <= n
    BY <2>1, <2>2, LastUpdateStays
  <2> QED
    BY <1>1, <2>1, <2>3 DEF Ends
<1>3. CASE Updates(k)' = {} /\ i \notin Updates(k)
  <2>1. Updates(k) = {}
    BY <1>3, RemovedOthers
  <2>2. w = d
    BY <1>1, <1>3 DEF Ends
  <2> QED
    BY <1>1, <1>3, <2>1, <2>2 DEF Ends
<1>4. CASE Updates(k)' = {} /\ i \in Updates(k)
  <2>1. /\ \A j \in Updates(k) : j > i => j - 1 \in Updates(k)'
        /\ Updates(k) \subseteq Int /\ i \in Int
    BY RemovedPositions
  <2>2. \A j \in Updates(k) : j <= i
    BY <1>4, <2>1
  <2>3. w = todo[i].value
    BY <1>1, <1>4 DEF Ends
  <2> QED
    BY <1>1, <1>4, <2>2, <2>3 DEF Ends
<1> QED
  BY <1>2, <1>3, <1>4


---------------------------------------------------------------------------
(* The way of a setting from the window to the file                        *)

About == GroupOf[Latest]

\* What config gives to the group's members.
Result(g) == [group |-> g, values |-> [k \in Of(g) |-> config[k]]]

\* A group waits for the one task that reads config, or for the call that
\* brings its values, or it is loaded; nobody changes config in its keys
\* before that.
LoadInv ==
    /\ \A i, j \in Gets : i = j
    /\ Gets # {} => ready = {} /\ loads = {}
    /\ \A load \in loads : /\ load.group \in Groups \ ready
                           /\ load = Result(load.group)
    /\ \A g \in Groups \ {Notification} :
          g \in ready \/ Gets # {} \/ \E load \in loads : load.group = g
    /\ Notification \notin ready
    /\ \A k \in Keys : Updates(k) # {} => GroupOf[k] \in ready

\* The place is never loaded as not set.
PlaceInv == GroupOf[Place] \in ready => shown[Place] # Blank

\* Availability is only ever saved as Yes, into a file that has the key.
AboutInv ==
    /\ About \in ready => config[Available] # Absent
    /\ \A i \in Updates(Available) : todo[i].value = Yes
    /\ About \notin ready /\ "early" \notin mishaps => shown[Latest] = Blank

\* What config ends with in key k, against what is shown.
Agree(k, w) ==
    /\ k \notin {Place, Available} => w = shown[k]
    /\ k = Place => Slash[w] = Slash[shown[k]]
    /\ k = Available /\ shown[k] = Yes => w = Yes

\* Once the updates under way have run in order, config has what is shown.
TrailInv ==
    \A k \in Saved \ {Latest} : GroupOf[k] \in ready /\ config[k] # Absent =>
        \A w \in Values : Ends(todo, k, config[k], w) => Agree(k, w)

\* config says that there is an update, or will.
Known == config[Available] = Yes \/ Updates(Available) # {}

\* A version is shown only where the file says that there is one, and then it
\* is the one that config has or will have.
LatestInv ==
    About \in ready =>
        /\ shown[Latest] = Blank \/ Known
        /\ Known /\ config[Latest] # Absent =>
              \A w \in Values :
                  Ends(todo, Latest, config[Latest], w) => w = shown[Latest]

\* What config has in a key, or will have, is still to be flushed, or is being
\* written, or is in the file.
FlushInv ==
    \A k \in Saved :
        \/ timer
        \/ \E j \in Flushes : \A i \in Updates(k) : i < j
        \/ /\ Updates(k) = {}
           /\ config[k] = IF writers = << >> THEN file[k] ELSE writers[1][k]

KeptInv ==
    /\ running => LoadInv /\ PlaceInv /\ AboutInv
    /\ running /\ "order" \notin mishaps => TrailInv
    /\ running /\ mishaps \cap {"order", "early"} = {} => LatestInv
    /\ running /\ mishaps \cap {"order", "overlap", "failed"} = {} => FlushInv

\* Until something is changed, no update is under way but that of a place
\* which was not set, and what is shown of an update is what was loaded.
UnchangedInv ==
    running /\ ~changed =>
        /\ \A k \in Keys \ {Place} : Updates(k) = {}
        /\ About \notin ready => shown[Latest] = Blank
        /\ About \in ready =>
              /\ shown[Available] = No
              /\ shown[Latest] = IF config[Available] = Yes THEN Given(config[Latest])
                                 ELSE Blank

\* From one run of the program to the next the file carries what was shown.
ResumeInv ==
    exits > 0 /\ mishaps \cap {"cut", "unsaved", "order", "overlap", "failed"} = {} =>
        /\ last[Place] # Blank
        /\ ~running => file \in Configs /\ \A k \in Saved : Holds(file, last, k)
        /\ running /\ ~changed =>
              \A k \in Saved :
                  config[k] # Absent => Updates(k) = {} /\ Holds(config, last, k)

---------------------------------------------------------------------------
(* The steps                                                               *)

LEMMA TodoKept ==
    ASSUME UNCHANGED todo, NEW k
    PROVE  Updates(k)' = Updates(k) /\ Gets' = Gets /\ Flushes' = Flushes
BY DEF Updates, Gets, Flushes, UpdatesIn, GetsIn, FlushesIn

\* The invariants speak of values that config can have.
LEMMA ConfigValues ==
    ASSUME SettingsType, NEW k \in Keys, config[k] # Absent
    PROVE  config[k] \in Values /\ config[k] \in Allowed[k]
<1>1. config[k] \in Allowed[k] \cup {Absent}
  BY DEF SettingsType, Configs
<1>2. Allowed[k] \subseteq Values
  BY SettingsAssumption
<1> QED
  BY <1>1, <1>2

LEMMA SavedKeys ==
    /\ Saved \subseteq Keys
    /\ Place \in Saved /\ Available \in Saved /\ Latest \in Saved
    /\ About \in Groups /\ About # Notification
    /\ About = GroupOf[Available] /\ About = GroupOf[Latest]
    /\ \A k \in Saved : GroupOf[k] \in Groups \ {Notification}
BY GroupsOfKeys DEF Saved, About

\* A group that is changed publishes updates of its own keys only, and those
\* only when it is loaded.
LEMMA LoadChange ==
    ASSUME SettingsType, LoadInv, NEW g \in Groups, NEW tasks, Change(g, tasks),
           GetsIn(tasks) = Gets,
           \A k \in Keys : UpdatesIn(tasks, k) # {} => Updates(k) # {} \/ GroupOf[k] = g
    PROVE  LoadInv'
<1>1. /\ UNCHANGED <<ready, loads, config>>
      /\ todo' = IF g \in ready THEN tasks ELSE todo
  BY DEF Change, storeVars
<1>2. \A h : Result(h)' = Result(h)
  BY <1>1 DEF Result
<1>3. Gets' = Gets
  BY <1>1 DEF Gets, GetsIn
<1>4. \A k \in Keys : Updates(k)' # {} => GroupOf[k] \in ready
  <2>1. CASE g \in ready
    <3>1. \A k \in Keys : Updates(k)' = UpdatesIn(tasks, k)
      BY <1>1, <2>1 DEF Updates
    <3> QED
      BY <2>1, <3>1 DEF LoadInv
  <2>2. CASE g \notin ready
    <3>1. \A k : Updates(k)' = Updates(k)
      BY <1>1, <2>2, TodoKept
    <3> QED
      BY <3>1 DEF LoadInv
  <2> QED
    BY <2>1, <2>2
<1> QED
  BY <1>1, <1>2, <1>3, <1>4 DEF LoadInv

\* A change starts the timer if it is to be saved.
LEMMA FlushChange ==
    ASSUME FlushInv, NEW g, NEW tasks, Change(g, tasks),
           IF g \in ready THEN timer' = TRUE ELSE UNCHANGED timer
    PROVE  FlushInv'
<1>1. /\ UNCHANGED <<config, writers, file>>
      /\ todo' = IF g \in ready THEN tasks ELSE todo
  BY DEF Change, storeVars
<1>2. CASE g \in ready
  BY <1>2 DEF FlushInv
<1>3. CASE g \notin ready
  <2>1. \A k : Updates(k)' = Updates(k) /\ Flushes' = Flushes
    BY <1>1, <1>3, TodoKept
  <2> QED
    BY <1>1, <1>3, <2>1 DEF FlushInv
<1> QED
  BY <1>2, <1>3

LEMMA KeptSet ==
    ASSUME SettingsType, KeptInv, NEW k \in Keys, NEW v \in Values, Set(k, v)
    PROVE  KeptInv'
<1>1. /\ k \notin {Available, Latest} /\ v \in Allowed[k]
      /\ \A x \in Keys : x # k => shown'[x] = shown[x]
      /\ k # Place => shown'[k] = v
      /\ k = Place => v \in Folders /\ shown'[k] = Slash[v]
      /\ Change(GroupOf[k], Append(todo, Update(k, v)))
      /\ IF GroupOf[k] \in ready THEN timer' = TRUE ELSE UNCHANGED timer
  BY SetFacts
<1>2. /\ running /\ running'
      /\ UNCHANGED <<ready, loads, config, writers, file>>
      /\ todo' = IF GroupOf[k] \in ready THEN Append(todo, Update(k, v)) ELSE todo
      /\ mishaps \subseteq mishaps'
      /\ mishaps' \subseteq mishaps \cup {"early"}
  BY <1>1 DEF Change, storeVars
<1>3. LoadInv /\ PlaceInv /\ AboutInv
  BY <1>2 DEF KeptInv
<1> DEFINE q == Append(todo, Update(k, v))
<1>4. todo \in Seq(Jobs)
  BY DEF SettingsType
<1>5. \A x : Extends(q, todo, k, v, x)
  <2>1. q = Append(todo, Update(k, v)) /\ v \in Allowed[k]
    BY <1>1
  <2> HIDE DEF q
  <2> QED
    BY <1>4, <2>1, AppendedUpdate
<1> HIDE DEF q
<1>6. LoadInv'
  <2>1. GroupOf[k] \in Groups /\ Change(GroupOf[k], q)
    BY <1>1, GroupsOfKeys DEF q
  <2>2. GetsIn(q) = Gets
    BY <1>5 DEF Gets, Extends
  <2>3. \A x \in Keys : UpdatesIn(q, x) # {} => Updates(x) # {} \/ GroupOf[x] = GroupOf[k]
    BY <1>5 DEF Updates, Extends
  <2> QED
    BY <1>3, <2>1, <2>2, <2>3, LoadChange
<1>7. PlaceInv'
  <2>1. CASE k = Place
    BY <1>1, <2>1, SlashedPlace DEF PlaceInv
  <2>2. CASE k # Place
    BY <1>1, <1>2, <1>3, <2>2, GroupsOfKeys DEF PlaceInv
  <2> QED
    BY <2>1, <2>2
<1>8. /\ \A x \in Keys \ {k} : Updates(x)' = Updates(x)
      /\ \A x \in Keys \ {k} : \A i \in Updates(x)' : todo'[i] = todo[i]
      /\ \A x \in Keys \ {k} : \A c, w : Ends(todo', x, c, w) => Ends(todo, x, c, w)
      /\ GroupOf[k] \in ready => \A c, w : Ends(todo', k, c, w) => w = v
  <2>1. CASE GroupOf[k] \in ready
    <3>1. todo' = q
      BY <1>2, <2>1 DEF q
    <3> QED
      BY <1>5, <3>1 DEF Updates, Extends
  <2>2. CASE GroupOf[k] \notin ready
    <3>1. todo' = todo
      BY <1>2, <2>2
    <3> QED
      BY <2>2, <3>1 DEF Updates
  <2> QED
    BY <2>1, <2>2
<1>9. AboutInv'
  <2>1. Available \in Keys \ {k} /\ shown'[Latest] = shown[Latest]
    BY <1>1, GroupsOfKeys
  <2>2. \A i \in Updates(Available)' : todo'[i].value = Yes
    BY <1>3, <1>8, <2>1 DEF AboutInv
  <2>3. About' = About
    BY DEF About
  <2> QED
    BY <1>2, <1>3, <2>1, <2>2, <2>3 DEF AboutInv
<1>10. ASSUME "order" \notin mishaps' PROVE TrailInv'
  <2>1. TrailInv
    BY <1>2, <1>10 DEF KeptInv
  <2> SUFFICES ASSUME NEW x \in Saved \ {Latest}, GroupOf[x] \in ready,
                      config[x] # Absent, NEW w \in Values, Ends(todo', x, config[x], w)
               PROVE  Agree(x, w)'
    BY <1>2 DEF TrailInv
  <2>2. CASE x = k
    <3>1. w = v
      BY <1>8, <2>2
    <3>2. k = Place => Slash[v] = Slash[shown'[k]]
      BY <1>1, SlashedPlace
    <3> QED
      BY <1>1, <2>2, <3>1, <3>2 DEF Agree
  <2>3. CASE x # k
    <3>1. x \in Keys \ {k}
      BY <2>3, SavedKeys
    <3>2. Agree(x, w) /\ shown'[x] = shown[x]
      BY <1>1, <1>8, <2>1, <3>1 DEF TrailInv
    <3> QED
      BY <3>2 DEF Agree
  <2> QED
    BY <2>2, <2>3
<1>11. ASSUME mishaps' \cap {"order", "early"} = {} PROVE LatestInv'
  <2>1. LatestInv
    BY <1>2, <1>11 DEF KeptInv
  <2>2. Available \in Keys \ {k} /\ Latest \in Keys \ {k} /\ shown'[Latest] = shown[Latest]
    BY <1>1, GroupsOfKeys
  <2>3. Known' = Known
    BY <1>2, <1>8, <2>2 DEF Known
  <2>4. About' = About
    BY DEF About
  <2> QED
    BY <1>2, <1>8, <2>1, <2>2, <2>3, <2>4 DEF LatestInv
<1>12. ASSUME mishaps' \cap {"order", "overlap", "failed"} = {} PROVE FlushInv'
  <2>1. FlushInv
    BY <1>2, <1>12 DEF KeptInv
  <2> QED
    BY <1>1, <2>1, FlushChange
<1> QED
  BY <1>6, <1>7, <1>9, <1>10, <1>11, <1>12 DEF KeptInv

\* What FoundTasks adds.
LEMMA FoundTasksEnd ==
    ASSUME SettingsType, NEW v \in Allowed[Latest], NEW q, q = FoundTasks(v)
    PROVE  /\ GetsIn(q) = Gets
           /\ \A x : x \notin {Available, Latest} => UpdatesIn(q, x) = Updates(x)
           /\ \A x : x \notin {Available, Latest} =>
                  \A c, w : Ends(q, x, c, w) => Ends(todo, x, c, w)
           /\ shown[Available] # Yes \/ Updates(Available) # {} =>
                  UpdatesIn(q, Available) # {}
           /\ \A i \in UpdatesIn(q, Available) :
                  q[i].value = Yes \/ (i \in Updates(Available) /\ q[i] = todo[i])
           /\ \A c, w : Ends(q, Available, c, w) =>
                  w = Yes \/ (shown[Available] = Yes /\ Ends(todo, Available, c, w))
           /\ \A c, w : Ends(q, Latest, c, w) =>
                  w = v \/ (shown[Latest] = v /\ Ends(todo, Latest, c, w))
<1> DEFINE r == IF shown[Available] = Yes THEN todo
                ELSE Append(todo, Update(Available, Yes))
<1>1. todo \in Seq(Jobs)
  BY DEF SettingsType
<1>2. /\ Available \in Keys /\ Latest \in Keys /\ Available # Latest
      /\ Yes \in Allowed[Available]
  BY GroupsOfKeys, SettingsAssumption
<1>3. q = IF shown[Latest] = v THEN r ELSE Append(r, Update(Latest, v))
  BY DEF FoundTasks
<1>4. /\ r \in Seq(Jobs)
      /\ shown[Available] = Yes => r = todo
      /\ shown[Available] # Yes => \A x : Extends(r, todo, Available, Yes, x)
  <2>1. CASE shown[Available] = Yes
    BY <1>1, <2>1
  <2>2. CASE shown[Available] # Yes
    <3>1. r = Append(todo, Update(Available, Yes))
      BY <2>2
    <3> HIDE DEF r
    <3>2. r \in Seq(Jobs) /\ \A x : Extends(r, todo, Available, Yes, x)
      BY <1>1, <1>2, <3>1, AppendedUpdate
    <3> QED
      BY <2>2, <3>2
  <2> QED
    BY <2>1, <2>2
<1> HIDE DEF r
<1>5. /\ shown[Latest] = v => q = r
      /\ shown[Latest] # v => \A x : Extends(q, r, Latest, v, x)
  <2>1. CASE shown[Latest] # v
    <3>1. q = Append(r, Update(Latest, v))
      BY <1>3, <2>1
    <3>2. \A x : Extends(q, r, Latest, v, x)
      BY <1>2, <1>4, <3>1, AppendedUpdate
    <3> QED
      BY <2>1, <3>2
  <2> QED
    BY <1>3, <2>1
<1>6. GetsIn(q) = Gets
  BY <1>4, <1>5 DEF Extends, Gets
<1>7. \A x : x \notin {Available, Latest} => UpdatesIn(q, x) = Updates(x)
  BY <1>4, <1>5 DEF Extends, Updates
<1>8. ASSUME NEW x, x \notin {Available, Latest}, NEW c, NEW w, Ends(q, x, c, w)
      PROVE  Ends(todo, x, c, w)
  <2>1. Ends(r, x, c, w)
    BY <1>5, <1>8 DEF Extends
  <2> QED
    BY <1>4, <1>8, <2>1 DEF Extends
<1>9. UpdatesIn(q, Available) = UpdatesIn(r, Available)
  BY <1>2, <1>5 DEF Extends
<1>10. shown[Available] # Yes \/ Updates(Available) # {} => UpdatesIn(q, Available) # {}
  BY <1>4, <1>9 DEF Extends, Updates
<1>11. ASSUME NEW i \in UpdatesIn(q, Available)
       PROVE  q[i].value = Yes \/ (i \in Updates(Available) /\ q[i] = todo[i])
  <2>1. i \in UpdatesIn(r, Available) /\ q[i] = r[i]
    BY <1>2, <1>5, <1>9, <1>11 DEF Extends
  <2> QED
    BY <1>4, <2>1 DEF Extends, Updates
<1>12. ASSUME NEW c, NEW w, Ends(q, Available, c, w)
       PROVE  w = Yes \/ (shown[Available] = Yes /\ Ends(todo, Available, c, w))
  <2>1. Ends(r, Available, c, w)
    BY <1>2, <1>5, <1>12 DEF Extends
  <2> QED
    BY <1>4, <2>1 DEF Extends
<1>13. ASSUME NEW c, NEW w, Ends(q, Latest, c, w)
       PROVE  w = v \/ (shown[Latest] = v /\ Ends(todo, Latest, c, w))
  <2>1. CASE shown[Latest] # v
    BY <1>5, <1>13, <2>1 DEF Extends
  <2>2. CASE shown[Latest] = v
    <3>1. Ends(r, Latest, c, w)
      BY <1>5, <1>13, <2>2
    <3> QED
      BY <1>2, <1>4, <2>2, <3>1 DEF Extends
  <2> QED
    BY <2>1, <2>2
<1> QED
  BY <1>6, <1>7, <1>8, <1>10, <1>11, <1>12, <1>13

LEMMA KeptFound ==
    ASSUME SettingsType, KeptInv, NEW v \in Values, Found(v)
    PROVE  KeptInv'
<1> DEFINE q == FoundTasks(v)
<1>1. /\ v \in Allowed[Latest] /\ v # Blank
      /\ \A x \in Keys \ {Available, Latest} : shown'[x] = shown[x]
      /\ shown'[Available] = Yes /\ shown'[Latest] = v
      /\ Change(About, q)
      /\ IF About \in ready THEN timer' = TRUE ELSE UNCHANGED timer
  BY FoundFacts DEF About
<1>2. /\ running /\ running'
      /\ UNCHANGED <<ready, loads, config, writers, file>>
      /\ todo' = IF About \in ready THEN q ELSE todo
      /\ mishaps \subseteq mishaps'
      /\ mishaps' \subseteq mishaps \cup {"early"}
      /\ About \notin ready => "early" \in mishaps'
  BY <1>1, SavedKeys DEF Change, storeVars
<1>3. LoadInv /\ PlaceInv /\ AboutInv
  BY <1>2 DEF KeptInv
<1>4. /\ GetsIn(q) = Gets
      /\ \A x : x \notin {Available, Latest} => UpdatesIn(q, x) = Updates(x)
      /\ \A x : x \notin {Available, Latest} =>
             \A c, w : Ends(q, x, c, w) => Ends(todo, x, c, w)
      /\ shown[Available] # Yes \/ Updates(Available) # {} =>
             UpdatesIn(q, Available) # {}
      /\ \A i \in UpdatesIn(q, Available) :
             q[i].value = Yes \/ (i \in Updates(Available) /\ q[i] = todo[i])
      /\ \A c, w : Ends(q, Available, c, w) =>
             w = Yes \/ (shown[Available] = Yes /\ Ends(todo, Available, c, w))
      /\ \A c, w : Ends(q, Latest, c, w) =>
             w = v \/ (shown[Latest] = v /\ Ends(todo, Latest, c, w))
  BY <1>1, FoundTasksEnd
<1> HIDE DEF q
<1>5. About' = About
  BY DEF About
<1>6. LoadInv'
  <2>1. \A x \in Keys : UpdatesIn(q, x) # {} => Updates(x) # {} \/ GroupOf[x] = About
    BY <1>4, SavedKeys
  <2> QED
    BY <1>1, <1>3, <1>4, <2>1, SavedKeys, LoadChange
<1>7. PlaceInv'
  BY <1>1, <1>2, <1>3, GroupsOfKeys DEF PlaceInv
<1>8. AboutInv'
  <2>1. \A i \in Updates(Available)' : todo'[i].value = Yes
    <3>1. CASE About \in ready
      BY <1>2, <1>3, <1>4, <3>1 DEF AboutInv, Updates
    <3>2. CASE About \notin ready
      BY <1>2, <1>3, <3>2 DEF AboutInv, Updates
    <3> QED
      BY <3>1, <3>2
  <2> QED
    BY <1>2, <1>3, <1>5, <2>1 DEF AboutInv
<1>9. ASSUME About \in ready
      PROVE  /\ "order" \notin mishaps' => TrailInv'
             /\ mishaps' \cap {"order", "early"} = {} => LatestInv'
  <2>1. todo' = q /\ \A x : Updates(x)' = UpdatesIn(q, x)
    BY <1>2, <1>9 DEF Updates
  <2>2. ASSUME "order" \notin mishaps' PROVE TrailInv'
    <3>1. TrailInv
      BY <1>2, <2>2 DEF KeptInv
    <3> SUFFICES ASSUME NEW x \in Saved \ {Latest}, GroupOf[x] \in ready,
                        config[x] # Absent, NEW w \in Values, Ends(q, x, config[x], w)
                 PROVE  Agree(x, w)'
      BY <1>2, <2>1 DEF TrailInv
    <3>2. CASE x = Available
      <4>1. Ends(todo, Available, config[Available], w) /\ shown[Available] = Yes => w = Yes
        BY <3>1, <3>2 DEF TrailInv, Agree
      <4>2. w = Yes
        BY <1>4, <3>2, <4>1
      <4> QED
        BY <3>2, <4>2, GroupsOfKeys DEF Agree
    <3>3. CASE x # Available
      <4>1. Ends(todo, x, config[x], w) /\ shown'[x] = shown[x]
        BY <1>1, <1>4, <3>3, SavedKeys
      <4>2. Agree(x, w)
        BY <3>1, <4>1 DEF TrailInv
      <4> QED
        BY <3>3, <4>1, <4>2 DEF Agree
    <3> QED
      BY <3>2, <3>3
  <2>3. ASSUME mishaps' \cap {"order", "early"} = {} PROVE LatestInv'
    <3>1. TrailInv /\ LatestInv /\ "order" \notin mishaps
      BY <1>2, <2>3 DEF KeptInv
    <3>2. shown[Available] = Yes => Known
      <4>1. config[Available] # Absent
        BY <1>3, <1>9 DEF AboutInv
      <4>2. Updates(Available) = {} =>
               Ends(todo, Available, config[Available], config[Available])
        BY DEF Ends, Updates
      <4>3. config[Available] \in Values
        BY <4>1, ConfigValues, GroupsOfKeys
      <4>4. Available \in Saved \ {Latest} /\ GroupOf[Available] \in ready
        BY <1>9, SavedKeys, GroupsOfKeys
      <4>5. Updates(Available) = {} => Agree(Available, config[Available])
        BY <3>1, <4>1, <4>2, <4>3, <4>4 DEF TrailInv
      <4> QED
        BY <4>5 DEF Known, Agree
    <3>3. Known'
      BY <1>2, <1>4, <2>1, <3>2 DEF Known
    <3>4. ASSUME config[Latest] # Absent, NEW w \in Values,
                 Ends(q, Latest, config[Latest], w)
          PROVE  w = v
      <4>1. CASE shown[Latest] = v /\ Ends(todo, Latest, config[Latest], w)
        <5>1. Known
          BY <1>1, <1>9, <3>1, <4>1 DEF LatestInv
        <5> QED
          BY <1>9, <3>1, <3>4, <4>1, <5>1 DEF LatestInv
      <4> QED
        BY <1>4, <3>4, <4>1
    <3> QED
      BY <1>1, <1>2, <2>1, <3>3, <3>4 DEF LatestInv
  <2> QED
    BY <2>2, <2>3
<1>10. ASSUME About \notin ready
       PROVE  /\ "order" \notin mishaps' => TrailInv'
              /\ "early" \in mishaps'
  <2> SUFFICES ASSUME "order" \notin mishaps'
               PROVE  TrailInv'
    BY <1>2, <1>10
  <2>1. TrailInv
    BY <1>2 DEF KeptInv
  <2>2. \A x \in Saved \ {Latest} : GroupOf[x] \in ready => shown'[x] = shown[x]
    BY <1>1, <1>10, SavedKeys
  <2>3. \A x \in Saved \ {Latest} : \A w :
           GroupOf[x] \in ready /\ Agree(x, w) => Agree(x, w)'
    BY <2>2 DEF Agree
  <2> QED
    BY <1>2, <1>10, <2>1, <2>3 DEF TrailInv
<1>11. ASSUME mishaps' \cap {"order", "overlap", "failed"} = {} PROVE FlushInv'
  <2>1. FlushInv
    BY <1>2, <1>11 DEF KeptInv
  <2> QED
    BY <1>1, <2>1, FlushChange
<1> QED
  BY <1>6, <1>7, <1>8, <1>9, <1>10, <1>11 DEF KeptInv

LEMMA KeptLoad ==
    ASSUME SettingsType, KeptInv, NEW load \in loads, Load(load)
    PROVE  KeptInv'
<1> DEFINE g == load.group
           placed == Place \in Of(g) /\ Given(load.values[Place]) = Blank
<1>1. running /\ LoadInv /\ PlaceInv /\ AboutInv
  BY DEF KeptInv, SettingsType
<1>2. /\ g \in Groups \ ready /\ load = Result(g) /\ Gets = {}
      /\ \A k \in Of(g) : load.values[k] = config[k]
      /\ \A k \in Of(g) : Updates(k) = {}
      /\ \A k \in Keys : k \in Of(g) <=> GroupOf[k] = g
  <2>1. g \in Groups \ ready /\ load = Result(g) /\ Gets = {}
    BY <1>1 DEF LoadInv
  <2>a. \A h : Result(h).values = [k \in Of(h) |-> config[k]]
    BY DEF Result
  <2>2. load.values = [k \in Of(g) |-> config[k]]
    BY <2>1, <2>a, Zenon
  <2>3. \A k \in Of(g) : k \in Keys /\ GroupOf[k] \notin ready
    BY <2>1 DEF Of
  <2>4. \A k \in Of(g) : Updates(k) = {}
    BY <1>1, <2>3 DEF LoadInv
  <2> QED
    BY <2>1, <2>2, <2>4 DEF Of
<1>3. /\ running' /\ loads' = loads \ {load}
      /\ UNCHANGED <<config, writers, file, mishaps>>
  BY <1>1 DEF Load, storeVars, history
<1>4. /\ \A k \in Keys \ Of(g) : shown'[k] = shown[k]
      /\ \A k \in Of(g) \ Texts : config[k] # Absent
      /\ \A k \in Of(g) \ {Place, Available, Latest} : shown'[k] = Given(config[k])
      /\ Place \in Of(g) => shown'[Place] # Blank
      /\ Place \in Of(g) /\ ~placed => shown'[Place] = config[Place]
      /\ Place \in Of(g) => shown'[Place] \in Allowed[Place]
      /\ placed => todo' = Append(todo, Update(Place, shown'[Place])) /\ timer' = TRUE
      /\ ~placed => UNCHANGED <<todo, timer>>
      /\ Available \in Of(g) =>
             /\ shown'[Available] = No
             /\ shown'[Latest] = IF config[Available] = Yes THEN Given(config[Latest])
                                 ELSE shown[Latest]
  <2>1. /\ shown' \in Whole
        /\ \A k \in Keys \ Of(g) : shown'[k] = shown[k]
        /\ \A k \in Of(g) \ Texts : load.values[k] # Absent
        /\ \A k \in Of(g) \ {Place, Available, Latest} : shown'[k] = Given(load.values[k])
        /\ Place \in Of(g) => shown'[Place] # Blank
        /\ Place \in Of(g) /\ Given(load.values[Place]) # Blank =>
               shown'[Place] = load.values[Place] /\ UNCHANGED <<todo, timer>>
        /\ Place \in Of(g) /\ Given(load.values[Place]) = Blank =>
               todo' = Append(todo, Update(Place, shown'[Place])) /\ timer' = TRUE
        /\ Place \notin Of(g) => UNCHANGED <<todo, timer>>
        /\ Available \in Of(g) =>
              /\ shown'[Available] = No
              /\ shown'[Latest] = IF load.values[Available] = Yes
                                  THEN Given(load.values[Latest])
                                  ELSE shown[Latest]
    BY LoadFacts
  <2>2. Available \in Of(g) => Latest \in Of(g)
    BY GroupsOfKeys DEF Of
  <2>3. shown'[Place] \in Allowed[Place]
    BY <2>1, GroupsOfKeys DEF Whole
  <2> QED
    BY <1>2, <2>1, <2>2, <2>3
<1>5. ready' = IF g = Notification THEN ready ELSE ready \cup {g}
  BY <1>1 DEF Load, LoadInv
<1>6. placed => GroupOf[Place] = g /\ g # Notification
  BY <1>2, GroupsOfKeys
<1> HIDE DEF placed
<1>7. /\ Gets' = Gets
      /\ \A k : ~(placed /\ k = Place) => Updates(k)' = Updates(k)
      /\ \A k : ~(placed /\ k = Place) =>
             \A c, w : Ends(todo', k, c, w) => Ends(todo, k, c, w)
      /\ \A k : ~(placed /\ k = Place) => \A i \in Updates(k)' : todo'[i] = todo[i]
      /\ placed => \A c, w : Ends(todo', Place, c, w) => w = shown'[Place]
  <2>1. CASE placed
    <3>1. todo \in Seq(Jobs) /\ todo' = Append(todo, Update(Place, shown'[Place]))
      BY <1>4, <2>1 DEF SettingsType
    <3>2. Place \in Keys /\ shown'[Place] \in Allowed[Place]
      BY <1>2, <1>4, <1>6, <2>1, GroupsOfKeys
    <3>3. \A k : Extends(todo', todo, Place, shown'[Place], k)
      BY <3>1, <3>2, AppendedUpdate
    <3> QED
      BY <2>1, <3>3 DEF Extends, Updates, Gets
  <2>2. CASE ~placed
    <3>1. todo' = todo
      BY <1>4, <2>2
    <3> QED
      BY <2>2, <3>1 DEF Updates, Gets
  <2> QED
    BY <2>1, <2>2
<1>8. \A h : Result(h)' = Result(h)
  BY <1>3 DEF Result
<1>9. About' = About
  BY DEF About
<1>10. LoadInv'
  <2>1. \A l \in loads' : l.group \in Groups \ ready' /\ l = Result(l.group)'
    <3> SUFFICES ASSUME NEW l \in loads'
                 PROVE  l.group \in Groups \ ready' /\ l = Result(l.group)'
      OBVIOUS
    <3>1. l \in loads /\ l # load
      BY <1>3
    <3>2. l.group \in Groups \ ready /\ l = Result(l.group)
      BY <1>1, <3>1 DEF LoadInv
    <3>3. l.group # g
      BY <1>2, <3>1, <3>2
    <3> QED
      BY <1>5, <1>8, <3>2, <3>3
  <2>2. ASSUME NEW h \in Groups \ {Notification}
        PROVE  h \in ready' \/ \E l \in loads' : l.group = h
    <3>1. h \in ready \/ \E l \in loads : l.group = h
      BY <1>1, <1>2 DEF LoadInv
    <3> QED
      BY <1>3, <1>5, <3>1
  <2>3. Notification \notin ready'
    BY <1>1, <1>5 DEF LoadInv
  <2>4. ASSUME NEW k \in Keys, Updates(k)' # {}
        PROVE  GroupOf[k] \in ready'
    <3>1. CASE placed /\ k = Place
      BY <1>5, <1>6, <3>1
    <3>2. CASE ~(placed /\ k = Place)
      BY <1>1, <1>5, <1>7, <2>4, <3>2 DEF LoadInv
    <3> QED
      BY <3>1, <3>2
  <2> QED
    BY <1>2, <1>7, <2>1, <2>2, <2>3, <2>4 DEF LoadInv
<1>11. PlaceInv'
  BY <1>1, <1>2, <1>4, <1>5, GroupsOfKeys DEF PlaceInv
<1>12. AboutInv'
  <2>1. Updates(Available)' = Updates(Available)
        /\ \A i \in Updates(Available)' : todo'[i] = todo[i]
    BY <1>7, GroupsOfKeys
  <2>2. CASE About = g
    <3>1. config[Available] # Absent /\ About \in ready'
      BY <1>2, <1>4, <1>5, <2>2, SavedKeys, SettingsAssumption
    <3> QED
      BY <1>1, <1>3, <1>9, <2>1, <3>1 DEF AboutInv
  <2>3. CASE About # g
    <3>1. shown'[Latest] = shown[Latest]
      BY <1>2, <1>4, <2>3, SavedKeys
    <3> QED
      BY <1>1, <1>3, <1>5, <1>9, <2>1, <2>3, <3>1 DEF AboutInv
  <2> QED
    BY <2>2, <2>3
<1>13. ASSUME "order" \notin mishaps' PROVE TrailInv'
  <2>1. TrailInv
    BY <1>1, <1>3, <1>13 DEF KeptInv
  <2> SUFFICES ASSUME NEW k \in Saved \ {Latest}, GroupOf[k] \in ready',
                      config[k] # Absent, NEW w \in Values, Ends(todo', k, config[k], w)
               PROVE  Agree(k, w)'
    BY <1>3 DEF TrailInv
  <2>2. k \in Keys
    BY SavedKeys
  <2>3. CASE placed /\ k = Place
    BY <1>7, <2>3, GroupsOfKeys DEF Agree
  <2>4. CASE GroupOf[k] = g /\ ~(placed /\ k = Place)
    <3>1. w = config[k]
      BY <1>2, <1>7, <2>2, <2>4 DEF Ends, Updates
    <3>2. k \notin {Place, Available} => shown'[k] = config[k]
      BY <1>2, <1>4, <2>2, <2>4 DEF Given
    <3>3. k = Place => shown'[k] = config[k]
      BY <1>2, <1>4, <2>2, <2>4
    <3>4. k = Available => shown'[k] = No /\ No # Yes
      BY <1>2, <1>4, <2>2, <2>4, SettingsAssumption
    <3> QED
      BY <3>1, <3>2, <3>3, <3>4 DEF Agree
  <2>5. CASE GroupOf[k] # g /\ ~(placed /\ k = Place)
    <3>1. GroupOf[k] \in ready /\ shown'[k] = shown[k] /\ Ends(todo, k, config[k], w)
      BY <1>2, <1>4, <1>5, <1>7, <2>2, <2>5
    <3>2. Agree(k, w)
      BY <2>1, <3>1 DEF TrailInv
    <3> QED
      BY <3>1, <3>2 DEF Agree
  <2> QED
    BY <2>3, <2>4, <2>5
<1>14. ASSUME mishaps' \cap {"order", "early"} = {} PROVE LatestInv'
  <2>1. LatestInv /\ "early" \notin mishaps
    BY <1>1, <1>3, <1>14 DEF KeptInv
  <2>2. /\ Updates(Available)' = Updates(Available)
        /\ \A c, w : Ends(todo', Latest, c, w) => Ends(todo, Latest, c, w)
    BY <1>7, GroupsOfKeys
  <2>3. Known' = Known
    BY <1>3, <2>2 DEF Known
  <2>4. CASE About = g
    <3>1. /\ Updates(Available) = {} /\ Updates(Latest) = {}
          /\ shown'[Latest] = IF config[Available] = Yes THEN Given(config[Latest])
                              ELSE shown[Latest]
      BY <1>2, <1>4, <2>4, SavedKeys, GroupsOfKeys
    <3>2. Known = (config[Available] = Yes) /\ shown[Latest] = Blank
      BY <1>1, <1>2, <2>1, <2>4, <3>1 DEF Known, AboutInv
    <3>3. \A w : Ends(todo, Latest, config[Latest], w) => w = config[Latest]
      BY <3>1 DEF Ends, Updates
    <3> QED
      BY <1>3, <2>2, <2>3, <3>1, <3>2, <3>3 DEF LatestInv, Given
  <2>5. CASE About # g
    <3>1. shown'[Latest] = shown[Latest] /\ (About \in ready' => About \in ready)
      BY <1>2, <1>4, <1>5, <2>5, SavedKeys, GroupsOfKeys
    <3> QED
      BY <1>3, <1>9, <2>1, <2>2, <2>3, <3>1 DEF LatestInv
  <2> QED
    BY <2>4, <2>5
<1>15. ASSUME mishaps' \cap {"order", "overlap", "failed"} = {} PROVE FlushInv'
  <2>1. FlushInv
    BY <1>1, <1>3, <1>15 DEF KeptInv
  <2>2. CASE placed
    BY <1>4, <2>2 DEF FlushInv
  <2>3. CASE ~placed
    <3>1. \A k : Updates(k)' = Updates(k) /\ Flushes' = Flushes
      BY <1>4, <2>3, TodoKept
    <3> QED
      BY <1>3, <1>4, <2>1, <2>3, <3>1 DEF FlushInv
  <2> QED
    BY <2>2, <2>3
<1> QED
  BY <1>10, <1>11, <1>12, <1>13, <1>14, <1>15 DEF KeptInv

LEMMA KeptStart ==
    ASSUME SettingsType, Start
    PROVE  KeptInv'
<1>1. /\ todo' = <<Get>> /\ ready' = {} /\ loads' = {} /\ writers' = << >>
      /\ file' = config' /\ shown'[Latest] = Blank
  BY SettingsAssumption DEF Start, Begin, SettingsType
<1>2. DOMAIN todo' = {1} /\ todo'[1].op = "get"
  BY <1>1 DEF Get
<1>3. Gets' = {1} /\ \A k : Updates(k)' = {}
  BY <1>2 DEF Gets, Updates, GetsIn, UpdatesIn
<1>4. LoadInv'
  BY <1>1, <1>3 DEF LoadInv
<1>5. TrailInv' /\ LatestInv' /\ PlaceInv' /\ AboutInv'
  BY <1>1, <1>3 DEF TrailInv, LatestInv, PlaceInv, AboutInv
<1>6. FlushInv'
  BY <1>1, <1>3 DEF FlushInv
<1> QED
  BY <1>4, <1>5, <1>6 DEF KeptInv

\* The steps that change no update and nothing that is shown or in config.
LEMMA KeptShown ==
    ASSUME KeptInv, UNCHANGED <<running, shown, ready, loads, config>>,
           mishaps \subseteq mishaps', Gets' = Gets,
           \A k : Updates(k)' = Updates(k),
           \A k : \A i \in Updates(k) : todo'[i] = todo[i],
           \A k : \A c, w : Ends(todo', k, c, w) => Ends(todo, k, c, w)
    PROVE  /\ running' => LoadInv' /\ PlaceInv' /\ AboutInv'
           /\ running' /\ "order" \notin mishaps' => TrailInv'
           /\ running' /\ mishaps' \cap {"order", "early"} = {} => LatestInv'
<1>1. About' = About /\ Known' = Known
  BY DEF About, Known
<1>2. \A g : Result(g)' = Result(g)
  BY DEF Result
<1>3. \A k, w : Agree(k, w)' = Agree(k, w)
  BY DEF Agree
<1>4. LoadInv => LoadInv'
  BY <1>2 DEF LoadInv
<1>5. (PlaceInv => PlaceInv') /\ (AboutInv => AboutInv')
  BY <1>1 DEF PlaceInv, AboutInv
<1>6. TrailInv => TrailInv'
  BY <1>3 DEF TrailInv
<1>7. LatestInv => LatestInv'
  BY <1>1 DEF LatestInv
<1> QED
  BY <1>4, <1>5, <1>6, <1>7 DEF KeptInv

\* The timer's tick puts a flush behind every update.
LEMMA KeptTick ==
    ASSUME SettingsType, KeptInv, Tick
    PROVE  KeptInv'
<1>1. /\ running /\ todo' = Append(todo, Write) /\ todo \in Seq(Jobs)
      /\ UNCHANGED <<running, shown, ready, loads, config, writers, file, mishaps>>
  BY DEF Tick, SettingsType, modelVars, storeVars
<1>2. \A k : ExtendsByFlush(todo', todo, k)
  BY <1>1, AppendedFlush
<1>3. /\ Gets' = Gets
      /\ \A k : Updates(k)' = Updates(k)
      /\ \A k : \A i \in Updates(k) : todo'[i] = todo[i]
      /\ \A k : \A c, w : Ends(todo', k, c, w) => Ends(todo, k, c, w)
      /\ \A k : \E j \in Flushes' : \A i \in Updates(k) : i < j
  BY <1>2 DEF ExtendsByFlush, Updates, Gets, Flushes
<1>4. FlushInv'
  BY <1>3 DEF FlushInv
<1> QED
  BY <1>1, <1>3, <1>4, KeptShown DEF KeptInv

\* A key's way to the file, without the quantifier of FlushInv.
OnItsWay(k) ==
    \/ timer
    \/ \E j \in Flushes : \A i \in Updates(k) : i < j
    \/ /\ Updates(k) = {}
       /\ config[k] = IF writers = << >> THEN file[k] ELSE writers[1][k]

LEMMA FlushOfEach == FlushInv <=> \A k \in Saved : OnItsWay(k)
BY DEF FlushInv, OnItsWay

LEMMA FlushOfEachNext == FlushInv' <=> \A k \in Saved : OnItsWay(k)'
BY DEF FlushInv, OnItsWay

\* Removing a task that is no flush.
LEMMA StaysOnItsWay ==
    ASSUME SettingsType, NEW k, OnItsWay(k), NEW i \in DOMAIN todo, Done(i),
           i \notin Flushes, UNCHANGED <<timer, writers, file>>,
           Updates(k) = {} => config'[k] = config[k]
    PROVE  OnItsWay(k)'
<1>1. CASE timer
  BY <1>1 DEF OnItsWay
<1>2. ASSUME NEW f \in Flushes, \A j \in Updates(k) : j < f
      PROVE  OnItsWay(k)'
  <2>1. f # i
    BY <1>2
  <2>2. \E g \in Flushes' : \A j \in Updates(k)' : j < g
    BY <1>2, <2>1, FlushStaysBehind
  <2> QED
    BY <2>2 DEF OnItsWay
<1>3. CASE /\ Updates(k) = {}
           /\ config[k] = IF writers = << >> THEN file[k] ELSE writers[1][k]
  <2>1. Updates(k)' = {}
    BY <1>3, RemovedOthers
  <2> QED
    BY <1>3, <2>1 DEF OnItsWay
<1> QED
  BY <1>1, <1>2, <1>3 DEF OnItsWay

LEMMA KeptGet ==
    ASSUME SettingsType, KeptInv, NEW i \in DOMAIN todo, OnGetConfig(i)
    PROVE  KeptInv'
<1>1. /\ running /\ i \in Gets /\ Done(i)
      /\ UNCHANGED <<running, shown, ready, timer, config, writers, file, mishaps>>
      /\ loads' = {Result(g) : g \in Groups}
  BY DEF OnGetConfig, SettingsType, modelVars, storeVars, Gets, GetsIn, Result
<1>2. LoadInv /\ PlaceInv /\ AboutInv
  BY <1>1 DEF KeptInv
<1>3. ready = {} /\ Gets' = {}
  BY <1>1, <1>2, RemovedOthers DEF LoadInv
<1>4. \A k \in Keys : Updates(k) = {} /\ Updates(k)' = {}
  BY <1>1, <1>2, <1>3, RemovedOthers DEF LoadInv
<1>5. LoadInv'
  <2>1. \A g : Result(g)' = Result(g) /\ Result(g).group = g
    BY <1>1 DEF Result
  <2>2. Notification \notin ready
    BY <1>3
  <2> QED
    BY <1>1, <1>3, <1>4, <2>1, <2>2 DEF LoadInv
<1>6. TrailInv' /\ LatestInv' /\ PlaceInv' /\ AboutInv'
  BY <1>1, <1>2, <1>3, <1>4, GroupsOfKeys DEF TrailInv, LatestInv, PlaceInv, AboutInv, About
<1>7. ASSUME mishaps' \cap {"order", "overlap", "failed"} = {} PROVE FlushInv'
  <2>1. FlushInv
    BY <1>1, <1>7 DEF KeptInv
  <2>2. i \notin Flushes
    BY <1>1 DEF Flushes, Gets, FlushesIn, GetsIn
  <2>3. \A k \in Saved : OnItsWay(k)'
    BY <1>1, <2>1, <2>2, FlushOfEach, StaysOnItsWay
  <2> QED
    BY <2>3, FlushOfEachNext
<1> QED
  BY <1>5, <1>6, <1>7 DEF KeptInv

LEMMA KeptUpdate ==
    ASSUME SettingsType, KeptInv, NEW i \in DOMAIN todo, OnUpdateValue(i)
    PROVE  KeptInv'
<1> DEFINE x == todo[i].key
           v == todo[i].value
<1>1. /\ running /\ i \in Updates(x) /\ Done(i)
      /\ UNCHANGED <<running, shown, ready, timer, loads, writers, file>>
      /\ mishaps \subseteq mishaps'
  BY DEF OnUpdateValue, SettingsType, modelVars, Updates, UpdatesIn
<1>2. /\ x \in Keys /\ v # Absent
      /\ \A k \in Keys : config'[k] =
            IF k = x /\ config[k] # Absent THEN v ELSE config[k]
  BY ConfigUpdated
<1>3. LoadInv /\ PlaceInv /\ AboutInv /\ GroupOf[x] \in ready
  BY <1>1, <1>2 DEF KeptInv, LoadInv
<1>4. Gets = {} /\ Gets' = {}
  BY <1>1, <1>3, RemovedOthers DEF LoadInv
<1>5. ASSUME NEW k
      PROVE  /\ Updates(k) = {} => Updates(k)' = {}
             /\ k # x => i \notin Updates(k)
             /\ k # x /\ Updates(k)' = {} => Updates(k) = {}
  <2>1. k # x => i \notin Updates(k)
    BY DEF Updates, UpdatesIn
  <2> QED
    BY <1>1, <2>1, RemovedOthers
<1>6. i \notin Flushes
  BY DEF Flushes, FlushesIn, OnUpdateValue
<1>7. x = Available => v = Yes
  BY <1>1, <1>3 DEF AboutInv
<1>8. \A j \in Updates(Available)' : todo'[j].value = Yes
  <2> SUFFICES ASSUME NEW j \in Updates(Available)'
               PROVE  todo'[j].value = Yes
    OBVIOUS
  <2>1. IF j < i THEN j \in Updates(Available) ELSE j + 1 \in Updates(Available)
    BY <1>1, RemovedPositions
  <2>2. todo'[j] = IF j < i THEN todo[j] ELSE todo[j + 1]
    BY <1>1, RemovedTask DEF Updates, UpdatesIn
  <2> QED
    BY <1>3, <2>1, <2>2 DEF AboutInv
<1>9. ASSUME "order" \notin mishaps', NEW k \in Keys, config[k] # Absent, NEW w,
             Ends(todo', k, config'[k], w)
      PROVE  Ends(todo, k, config[k], w)
  <2>1. \A j \in 1..(i - 1) : j \notin Updates(x)
    BY <1>9 DEF OnUpdateValue, Updates, UpdatesIn
  <2>2. \A j \in Updates(x) : i <= j
    <3>1. DOMAIN todo = 1..Len(todo) /\ Len(todo) \in Nat
      BY <1>1, RemovedTask
    <3>2. Updates(x) \subseteq DOMAIN todo
      BY DEF Updates, UpdatesIn
    <3> QED
      BY <2>1, <3>1, <3>2
  <2>3. i \notin Updates(k) => config'[k] = config[k]
    BY <1>1, <1>2, <1>9
  <2>4. i \in Updates(k) => config'[k] = todo[i].value /\ \A j \in Updates(k) : i <= j
    <3>1. i \in Updates(k) => k = x
      BY <1>5
    <3> QED
      BY <1>2, <1>9, <2>2, <3>1
  <2> QED
    BY <1>1, <1>9, <2>3, <2>4, EndsTaken
<1> HIDE DEF x, v
<1>10. About' = About /\ \A k \in Keys : config'[k] = Absent <=> config[k] = Absent
  BY <1>2 DEF About
<1>11. LoadInv'
  <2>1. \A g \in Groups \ ready : Result(g)' = Result(g)
    <3> SUFFICES ASSUME NEW g \in Groups \ ready
                 PROVE  Result(g)' = Result(g)
      OBVIOUS
    <3>1. \A k \in Of(g) : config'[k] = config[k]
      BY <1>2, <1>3 DEF Of
    <3> QED
      BY <3>1 DEF Result
  <2> QED
    BY <1>1, <1>3, <1>4, <1>5, <2>1 DEF LoadInv
<1>12. PlaceInv' /\ AboutInv'
  BY <1>1, <1>3, <1>8, <1>10, GroupsOfKeys DEF PlaceInv, AboutInv
<1>13. ASSUME "order" \notin mishaps' PROVE TrailInv'
  <2>1. TrailInv
    BY <1>1, <1>13 DEF KeptInv
  <2> SUFFICES ASSUME NEW k \in Saved \ {Latest}, GroupOf[k] \in ready,
                      config[k] # Absent, NEW w \in Values, Ends(todo', k, config'[k], w)
               PROVE  Agree(k, w)'
    BY <1>1, <1>10, SavedKeys DEF TrailInv
  <2>2. Ends(todo, k, config[k], w)
    BY <1>9, <1>13, SavedKeys
  <2>3. Agree(k, w)
    BY <2>1, <2>2 DEF TrailInv
  <2> QED
    BY <1>1, <2>3 DEF Agree
<1>14. ASSUME mishaps' \cap {"order", "early"} = {} PROVE LatestInv'
  <2>1. LatestInv
    BY <1>1, <1>14 DEF KeptInv
  <2> SUFFICES ASSUME About \in ready
               PROVE  /\ shown[Latest] = Blank \/ Known'
                      /\ Known' /\ config'[Latest] # Absent =>
                            \A w \in Values :
                                Ends(todo', Latest, config'[Latest], w) => w = shown[Latest]
    BY <1>1, <1>10 DEF LatestInv
  <2>2. config[Available] # Absent
    BY <1>3 DEF AboutInv
  <2>3. Known' <=> Known
    <3>1. CASE x = Available
      <4>1. config'[Available] = Yes /\ Updates(Available) # {}
        BY <1>1, <1>2, <1>7, <2>2, <3>1
      <4> QED
        BY <4>1 DEF Known
    <3>2. CASE x # Available
      <4>1. config'[Available] = config[Available]
        BY <1>2, <3>2, GroupsOfKeys
      <4>2. Updates(Available)' = {} <=> Updates(Available) = {}
        BY <1>5, <3>2
      <4> QED
        BY <4>1, <4>2 DEF Known
    <3> QED
      BY <3>1, <3>2
  <2>4. ASSUME config[Latest] # Absent, NEW w, Ends(todo', Latest, config'[Latest], w)
        PROVE  Ends(todo, Latest, config[Latest], w)
    BY <1>9, <1>14, <2>4, GroupsOfKeys
  <2> QED
    BY <1>10, <2>1, <2>3, <2>4, GroupsOfKeys DEF LatestInv
<1>15. ASSUME mishaps' \cap {"order", "overlap", "failed"} = {} PROVE FlushInv'
  <2>1. FlushInv
    BY <1>1, <1>15 DEF KeptInv
  <2>2. \A k \in Saved : Updates(k) = {} => config'[k] = config[k]
    BY <1>1, <1>2, SavedKeys
  <2>3. \A k \in Saved : OnItsWay(k)'
    BY <1>1, <1>6, <2>1, <2>2, FlushOfEach, StaysOnItsWay
  <2> QED
    BY <2>3, FlushOfEachNext
<1> QED
  BY <1>11, <1>12, <1>13, <1>14, <1>15 DEF KeptInv

\* Removing a flush changes no update.
LEMMA FlushTaken ==
    ASSUME SettingsType, NEW i \in DOMAIN todo, Done(i), todo[i].op = "write"
    PROVE  /\ i \notin Gets /\ \A k : i \notin Updates(k)
           /\ \A k : Updates(k)' = {} <=> Updates(k) = {}
           /\ (\A a, b \in Gets : a = b) => \A a, b \in Gets' : a = b
           /\ Gets' = {} <=> Gets = {}
           /\ \A k : \A c, w : Ends(todo', k, c, w) => Ends(todo, k, c, w)
<1>1. i \notin Gets /\ \A k : i \notin Updates(k)
  BY DEF Gets, Updates, GetsIn, UpdatesIn
<1>2. \A k : Updates(k)' = {} <=> Updates(k) = {}
  BY <1>1, RemovedOthers
<1>3. (\A a, b \in Gets : a = b) => \A a, b \in Gets' : a = b
  BY RemovedOthers
<1>4. Gets' = {} <=> Gets = {}
  BY <1>1, RemovedOthers
<1>5. ASSUME NEW k, NEW c, NEW w, Ends(todo', k, c, w)
      PROVE  Ends(todo, k, c, w)
  BY <1>1, <1>5, EndsTaken
<1> QED
  BY <1>1, <1>2, <1>3, <1>4, <1>5

LEMMA KeptOpen ==
    ASSUME SettingsType, KeptInv, NEW i \in DOMAIN todo, OpenFile(i) \/ OpenFails(i)
    PROVE  KeptInv'
<1>1. /\ running /\ Done(i) /\ todo[i].op = "write"
      /\ UNCHANGED <<running, shown, ready, timer, loads, config>>
      /\ mishaps \subseteq mishaps'
  BY DEF OpenFile, OpenFails, SettingsType, modelVars, storeVars
<1>2. LoadInv /\ PlaceInv /\ AboutInv
  BY <1>1 DEF KeptInv
<1>3. /\ i \notin Gets /\ \A k : i \notin Updates(k)
      /\ \A k : Updates(k)' = {} <=> Updates(k) = {}
      /\ (\A a, b \in Gets : a = b) => \A a, b \in Gets' : a = b
      /\ Gets' = {} <=> Gets = {}
      /\ \A k : \A c, w : Ends(todo', k, c, w) => Ends(todo, k, c, w)
  BY <1>1, FlushTaken
<1>4. About' = About /\ Known' = Known /\ \A g : Result(g)' = Result(g)
  BY <1>1, <1>3 DEF About, Known, Result
<1>5. LoadInv'
  BY <1>1, <1>2, <1>3, <1>4 DEF LoadInv
<1>6. PlaceInv' /\ AboutInv'
  <2>1. \A j \in Updates(Available)' : todo'[j].value = Yes
    <3> SUFFICES ASSUME NEW j \in Updates(Available)'
                 PROVE  todo'[j].value = Yes
      OBVIOUS
    <3>1. IF j < i THEN j \in Updates(Available) ELSE j + 1 \in Updates(Available)
      BY <1>1, RemovedPositions
    <3>2. todo'[j] = IF j < i THEN todo[j] ELSE todo[j + 1]
      BY <1>1, RemovedTask DEF Updates, UpdatesIn
    <3> QED
      BY <1>2, <3>1, <3>2 DEF AboutInv
  <2> QED
    BY <1>1, <1>2, <1>4, <2>1 DEF PlaceInv, AboutInv
<1>7. ASSUME "order" \notin mishaps' PROVE TrailInv'
  <2>1. TrailInv /\ \A k, w : Agree(k, w)' = Agree(k, w)
    BY <1>1, <1>7 DEF KeptInv, Agree
  <2> QED
    BY <1>1, <1>3, <2>1 DEF TrailInv
<1>8. ASSUME mishaps' \cap {"order", "early"} = {} PROVE LatestInv'
  <2>1. LatestInv
    BY <1>1, <1>8 DEF KeptInv
  <2> QED
    BY <1>1, <1>3, <1>4, <2>1 DEF LatestInv
<1>9. ASSUME mishaps' \cap {"order", "overlap", "failed"} = {} PROVE FlushInv'
  <2>1. FlushInv
    BY <1>1, <1>9 DEF KeptInv
  <2>2. /\ OpenFile(i) /\ writers = << >>
        /\ \A j \in 1..(i - 1) : todo[j].op # "update"
    BY <1>9 DEF OpenFile, OpenFails
  <2>3. writers' # << >> /\ writers'[1] = config
    BY <2>2 DEF OpenFile, SettingsType
  <2> SUFFICES ASSUME NEW k \in Saved
               PROVE  OnItsWay(k)'
    BY FlushOfEachNext
  <2>4. CASE timer
    BY <1>1, <2>4 DEF OnItsWay
  <2>5. CASE Updates(k) = {}
    BY <1>1, <1>3, <2>3, <2>5 DEF OnItsWay
  <2>6. ASSUME NEW j \in Flushes, \A m \in Updates(k) : m < j
        PROVE  OnItsWay(k)' \/ Updates(k) = {}
    <3>1. CASE j # i
      <4>1. \E n \in Flushes' : \A m \in Updates(k)' : m < n
        BY <1>1, <2>6, <3>1, FlushStaysBehind
      <4> QED
        BY <4>1 DEF OnItsWay
    <3>2. CASE j = i
      <4>1. DOMAIN todo = 1..Len(todo) /\ Len(todo) \in Nat
        BY <1>1, RemovedTask
      <4>2. \A m \in Updates(k) : m \in DOMAIN todo /\ todo[m].op = "update"
        BY DEF Updates, UpdatesIn
      <4>3. \A m \in Updates(k) : m \in 1..(i - 1)
        BY <2>6, <3>2, <4>1, <4>2
      <4> QED
        BY <2>2, <4>2, <4>3
    <3> QED
      BY <3>1, <3>2
  <2> QED
    BY <2>1, <2>4, <2>5, <2>6 DEF FlushInv
<1> QED
  BY <1>5, <1>6, <1>7, <1>8, <1>9 DEF KeptInv

\* A flush that has the file to itself writes what it has taken.
LEMMA KeptWrite ==
    ASSUME SettingsType, FileInv, KeptInv, NEW w \in DOMAIN writers,
           WriteFile(w) \/ WriteFails(w)
    PROVE  KeptInv'
<1>1. /\ running /\ mishaps \subseteq mishaps'
      /\ UNCHANGED <<running, shown, ready, timer, todo, loads, config>>
  BY DEF WriteFile, WriteFails, SettingsType, modelVars
<1>2. /\ \A k : Updates(k)' = Updates(k) /\ Gets' = Gets /\ Flushes' = Flushes
      /\ \A k : \A c, v : Ends(todo', k, c, v) => Ends(todo, k, c, v)
  BY <1>1, TodoKept
<1>3. ASSUME mishaps' \cap {"order", "overlap", "failed"} = {} PROVE FlushInv'
  <2>1. writers # << >> /\ writers \in Seq(Configs)
    BY DEF SettingsType
  <2>2. WriteFile(w)
    BY <1>3 DEF WriteFails
  <2>3. Len(writers) = 1 /\ file = Empty /\ w = 1
    BY <1>1, <1>3, <2>1 DEF FileInv
  <2>4. file' = writers[1]
    BY <2>2, <2>3 DEF WriteFile
  <2>5. writers' = << >>
    <3>1. writers' \in Seq(Configs) /\ Len(writers') = 0
      BY <2>1, <2>2, <2>3, RemoveAtSeq DEF WriteFile
    <3> QED
      BY <3>1, EmptySeq
  <2>6. FlushInv
    BY <1>1, <1>3 DEF KeptInv
  <2> QED
    BY <1>1, <1>2, <2>1, <2>4, <2>5, <2>6 DEF FlushInv
<1> QED
  BY <1>1, <1>2, <1>3, KeptShown DEF KeptInv

LEMMA KeptNext == SettingsType /\ FileInv /\ KeptInv /\ [Next]_vars => KeptInv'
<1> SUFFICES ASSUME SettingsType, FileInv, KeptInv, [Next]_vars
             PROVE  KeptInv'
  OBVIOUS
<1>1. CASE End \/ StartFails
  <2>1. ~running'
    BY <1>1 DEF End, StartFails
  <2> QED
    BY <2>1 DEF KeptInv
<1>2. CASE SetCacheSize \/ UNCHANGED vars
  <2>1. /\ UNCHANGED <<running, shown, ready, todo, loads, config, writers, file,
                       mishaps>>
        /\ timer => timer'
    BY <1>2 DEF SetCacheSize, vars, modelVars, storeVars
  <2>2. /\ \A k : Updates(k)' = Updates(k) /\ Gets' = Gets /\ Flushes' = Flushes
        /\ \A k : \A c, v : Ends(todo', k, c, v) => Ends(todo, k, c, v)
    BY <2>1, TodoKept
  <2>3. FlushInv => FlushInv'
    BY <2>1, <2>2 DEF FlushInv
  <2> QED
    BY <2>1, <2>2, <2>3, KeptShown DEF KeptInv
<1> QED
  BY <1>1, <1>2, KeptStart, KeptTick, KeptSet, KeptFound, KeptLoad, KeptGet,
     KeptUpdate, KeptOpen, KeptWrite DEF Next, Run, Exit, Throw

LEMMA KeptAlways == Spec => []KeptInv
<1>1. Init => KeptInv
  BY DEF Init, KeptInv
<1> QED
  BY <1>1, KeptNext, SettingsTypeCorrect, FileAlways, PTL DEF Spec

\* When nothing is left to do, config and the file have what the window shows.
LEMMA IdleConfig ==
    ASSUME SettingsType, FileInv, KeptInv, running, Idle,
           mishaps \cap {"order", "overlap", "failed"} = {}
    PROVE  /\ file \in Configs
           /\ \A k \in Saved : config[k] = file[k] /\ GroupOf[k] \in ready
           /\ \A k \in Saved : Holds(config, shown, k)
<1>1. Gets = {} /\ Flushes = {} /\ ~timer /\ \A k : Updates(k) = {}
  BY DEF Idle, Gets, Flushes, Updates, GetsIn, FlushesIn, UpdatesIn
<1>2. file \in Configs
  BY DEF FileInv, Idle
<1>3. \A k \in Saved : config[k] = file[k]
  BY <1>1 DEF KeptInv, FlushInv, Idle
<1>4. \A k \in Saved : GroupOf[k] \in ready
  BY <1>1, SavedKeys DEF KeptInv, LoadInv, Idle
<1>5. ASSUME NEW k \in Saved, config[k] # Absent
      PROVE  config[k] \in Values /\ Ends(todo, k, config[k], config[k])
  BY <1>1, <1>5, ConfigValues, SavedKeys DEF Ends, Updates
<1>6. TrailInv
  BY DEF KeptInv
<1>7. ASSUME NEW k \in Saved \ {Latest}, config[k] # Absent
      PROVE  Agree(k, config[k])
  BY <1>4, <1>5, <1>6, <1>7 DEF TrailInv
<1>8. ASSUME config[Latest] # Absent, config[Available] = Yes, "early" \notin mishaps
      PROVE  config[Latest] = shown[Latest]
  <2>1. LatestInv /\ About \in ready /\ Known
    BY <1>4, <1>8, SavedKeys DEF KeptInv, Known
  <2> QED
    BY <1>5, <1>8, <2>1, SavedKeys DEF LatestInv
<1>9. ASSUME NEW k \in Saved, config[k] # Absent
      PROVE  Holds(config, shown, k)
  <2>1. CASE k = Latest
    BY <1>8, <1>9, <2>1, GroupsOfKeys DEF Holds
  <2>2. CASE k # Latest
    BY <1>7, <1>9, <2>2 DEF Agree, Holds
  <2> QED
    BY <2>1, <2>2
<1>10. \A k \in Saved : Holds(config, shown, k)
  BY <1>9 DEF Holds
<1> QED
  BY <1>2, <1>3, <1>4, <1>10

\* A text that has the same values holds the same.
LEMMA SameHolds ==
    ASSUME NEW c, NEW d, NEW s, NEW k \in Saved, \A x \in Saved : c[x] = d[x],
           Holds(c, s, k)
    PROVE  Holds(d, s, k)
BY SavedKeys DEF Holds

\* When nothing is left to do, the file has what the window shows, whatever
\* was changed and however often the program was ended, if no task overtook
\* one that it depends on and no flush failed.
THEOREM SettingsKept == Spec => []Kept
<1>1. SettingsType /\ FileInv /\ KeptInv => Kept
  <2> SUFFICES ASSUME SettingsType, FileInv, KeptInv, running, Idle,
                      mishaps \cap {"order", "overlap", "failed"} = {}
               PROVE  file \in Configs /\ \A k \in Saved : Holds(file, shown, k)
    BY DEF Kept
  <2> QED
    BY IdleConfig, SameHolds
<1> QED
  BY <1>1, KeptAlways, SettingsTypeCorrect, FileAlways, PTL

---------------------------------------------------------------------------
(* From one run of the program to the next                                 *)

\* What a task of the pool does to config before anything is changed.
LEMMA UpdatesUnchanged ==
    ASSUME SettingsType, NEW i \in DOMAIN todo, Run(i)
    PROVE  /\ running /\ running' /\ Done(i)
           /\ UNCHANGED <<shown, ready, changed>>
           /\ \A k : Updates(k) = {} => Updates(k)' = {}
           /\ \A k \in Keys : Updates(k) = {} \/ config[k] = Absent =>
                  config'[k] = config[k]
           /\ \A k \in Keys : config'[k] # Absent => config[k] # Absent
<1>1. running /\ running' /\ Done(i) /\ UNCHANGED <<shown, ready, changed>>
  BY DEF Run, OnGetConfig, OnUpdateValue, OpenFile, OpenFails, SettingsType, history,
         modelVars
<1>2. \A k : Updates(k) = {} => Updates(k)' = {}
  BY <1>1, RemovedOthers
<1>3. CASE OnUpdateValue(i)
  <2>1. i \in Updates(todo[i].key)
    BY <1>3 DEF OnUpdateValue, Updates, UpdatesIn
  <2> QED
    BY <1>1, <1>2, <1>3, <2>1, ConfigUpdated
<1>4. CASE OnGetConfig(i) \/ OpenFile(i) \/ OpenFails(i)
  <2>1. config' = config
    BY <1>4 DEF OnGetConfig, OpenFile, OpenFails, storeVars
  <2> QED
    BY <1>1, <1>2, <2>1
<1> QED
  BY <1>3, <1>4 DEF Run

\* Steps that touch neither the updates nor config.
LEMMA OtherTasks ==
    ASSUME SettingsType,
           \/ SetCacheSize \/ Tick \/ UNCHANGED vars
           \/ \E w \in DOMAIN writers : WriteFile(w) \/ WriteFails(w)
    PROVE  /\ UNCHANGED <<running, shown, ready, config, changed>>
           /\ \A k : Updates(k)' = Updates(k)
           /\ mishaps \subseteq mishaps'
           /\ ~running => file' = file
<1>1. CASE Tick
  <2>1. todo' = Append(todo, Write) /\ todo \in Seq(Jobs) /\ running
    BY <1>1 DEF Tick, SettingsType
  <2>2. \A k : ExtendsByFlush(todo', todo, k)
    BY <2>1, AppendedFlush
  <2> QED
    BY <1>1, <2>1, <2>2 DEF ExtendsByFlush, Updates, Tick, modelVars, storeVars, history
<1>2. CASE \/ SetCacheSize \/ UNCHANGED vars
           \/ \E w \in DOMAIN writers : WriteFile(w) \/ WriteFails(w)
  <2>1. /\ UNCHANGED <<running, shown, ready, todo, config, changed>>
        /\ mishaps \subseteq mishaps'
    BY <1>2 DEF SetCacheSize, vars, WriteFile, WriteFails, modelVars, storeVars, history
  <2>2. ~running => file' = file
    BY <1>2 DEF SetCacheSize, vars, WriteFile, WriteFails, storeVars, SettingsType
  <2> QED
    BY <2>1, <2>2, TodoKept
<1> QED
  BY <1>1, <1>2

LEMMA UnchangedAlways == Spec => []UnchangedInv
<1>1. Init => UnchangedInv
  BY DEF Init, UnchangedInv
<1>2. SettingsType /\ KeptInv /\ UnchangedInv /\ [Next]_vars => UnchangedInv'
  <2> SUFFICES ASSUME SettingsType, KeptInv, UnchangedInv, [Next]_vars,
                      running', ~changed'
               PROVE  /\ \A k \in Keys \ {Place} : Updates(k)' = {}
                      /\ About \notin ready' => shown'[Latest] = Blank
                      /\ About \in ready' =>
                            /\ shown'[Available] = No
                            /\ shown'[Latest] = IF config'[Available] = Yes
                                                THEN Given(config'[Latest]) ELSE Blank
    BY DEF UnchangedInv, About
  <2>1. CASE Start
    <3>1. todo' = <<Get>> /\ ready' = {} /\ shown'[Latest] = Blank
      BY <2>1, SettingsAssumption DEF Start, Begin
    <3>2. DOMAIN todo' = {1} /\ todo'[1].op = "get"
      BY <3>1 DEF Get
    <3> QED
      BY <3>1, <3>2 DEF Updates, UpdatesIn
  <2>2. CASE End \/ StartFails
    BY <2>2 DEF End, StartFails
  <2>3. CASE \/ \E k \in Keys, v \in Values : Set(k, v)
             \/ \E v \in Values : Found(v)
    <3>1. changed'
      BY <2>3 DEF Set, Sets, Found, Change
    <3> QED
      BY <3>1
  <2>4. CASE \/ SetCacheSize \/ Tick
             \/ \E w \in DOMAIN writers : WriteFile(w) \/ WriteFails(w)
             \/ UNCHANGED vars
    BY <2>4, OtherTasks DEF UnchangedInv
  <2>5. ASSUME NEW i \in DOMAIN todo, Run(i)
        PROVE  UnchangedInv'
    <3>1. /\ running /\ UNCHANGED <<shown, ready, changed>>
          /\ \A k : Updates(k) = {} => Updates(k)' = {}
          /\ \A k \in Keys : Updates(k) = {} => config'[k] = config[k]
      BY <2>5, UpdatesUnchanged
    <3>2. Available \in Keys \ {Place} /\ Latest \in Keys \ {Place}
      BY GroupsOfKeys
    <3>3. About' = About
      BY DEF About
    <3>4. config'[Available] = config[Available] /\ config'[Latest] = config[Latest]
      BY <3>1, <3>2 DEF UnchangedInv
    <3> QED
      BY <3>1, <3>3, <3>4 DEF UnchangedInv
  <2>6. ASSUME NEW load \in loads, Load(load)
        PROVE  UnchangedInv'
    <3> DEFINE g == load.group
    <3>1. /\ running /\ ~changed /\ config' = config /\ About' = About
          /\ ready' = IF g = Notification THEN ready \ {g} ELSE ready \cup {g}
      BY <2>6 DEF Load, SettingsType, storeVars, history, About
    <3>2. /\ g \in Groups \ ready /\ load = Result(g) /\ Notification \notin ready
      BY <3>1 DEF KeptInv, LoadInv
    <3>3. Result(g).values = [k \in Of(g) |-> config[k]]
      BY DEF Result
    <3>4. \A k \in Of(g) : load.values[k] = config[k]
      BY <3>2, <3>3, Zenon
    <3>5. /\ shown' \in Whole
          /\ \A k \in Keys \ Of(g) : shown'[k] = shown[k]
          /\ \/ UNCHANGED todo
             \/ todo' = Append(todo, Update(Place, shown'[Place]))
          /\ Available \in Of(g) =>
                /\ shown'[Available] = No
                /\ shown'[Latest] = IF load.values[Available] = Yes
                                    THEN Given(load.values[Latest]) ELSE shown[Latest]
      BY <2>6, LoadFacts
    <3>6. ASSUME NEW k \in Keys \ {Place}
          PROVE  Updates(k)' = {}
      <4>1. Updates(k) = {}
        BY <3>1 DEF UnchangedInv
      <4>2. CASE UNCHANGED todo
        BY <4>1, <4>2, TodoKept
      <4>3. CASE todo' = Append(todo, Update(Place, shown'[Place]))
        <5>1. Place \in Keys /\ shown'[Place] \in Allowed[Place] /\ todo \in Seq(Jobs)
          BY <3>5, GroupsOfKeys DEF Whole, SettingsType
        <5>2. Extends(todo', todo, Place, shown'[Place], k)
          BY <4>3, <5>1, AppendedUpdate
        <5> QED
          BY <4>1, <5>2 DEF Extends, Updates
      <4> QED
        BY <3>5, <4>2, <4>3
    <3>7. Available \in Of(g) <=> About = g
      BY SavedKeys DEF Of
    <3>8. Latest \in Of(g) <=> About = g
      BY SavedKeys DEF Of
    <3>9. /\ About \notin ready => shown[Latest] = Blank
          /\ About \in ready =>
                /\ shown[Available] = No
                /\ shown[Latest] = IF config[Available] = Yes THEN Given(config[Latest])
                                   ELSE Blank
      BY <3>1 DEF UnchangedInv
    <3>10. CASE About = g
      <4>1. /\ About \notin ready /\ About \in ready'
        BY <3>1, <3>2, <3>10, SavedKeys
      <4>2. /\ shown'[Available] = No
            /\ shown'[Latest] = IF config[Available] = Yes THEN Given(config[Latest])
                                ELSE Blank
        BY <3>4, <3>5, <3>7, <3>8, <3>9, <3>10, <4>1
      <4> QED
        BY <3>1, <3>6, <4>1, <4>2 DEF UnchangedInv
    <3>11. CASE About # g
      <4>1. /\ About \in ready' <=> About \in ready
            /\ shown'[Available] = shown[Available] /\ shown'[Latest] = shown[Latest]
        BY <3>1, <3>5, <3>7, <3>8, <3>11, GroupsOfKeys
      <4> QED
        BY <3>1, <3>6, <3>9, <4>1 DEF UnchangedInv
    <3> QED
      BY <3>10, <3>11
  <2> QED
    BY <2>1, <2>2, <2>3, <2>4, <2>5, <2>6 DEF Next, Exit, Throw, UnchangedInv, About
<1> QED
  BY <1>1, <1>2, KeptAlways, SettingsTypeCorrect, PTL DEF Spec

LEMMA ResumeNext ==
    SettingsType /\ FileInv /\ KeptInv /\ ResumeInv /\ [Next]_vars => ResumeInv'
<1> SUFFICES ASSUME SettingsType, FileInv, KeptInv, ResumeInv, [Next]_vars, exits' > 0,
                    mishaps' \cap {"cut", "unsaved", "order", "overlap", "failed"} = {}
             PROVE  /\ last'[Place] # Blank
                    /\ ~running' => file' \in Configs /\ \A k \in Saved : Holds(file, last, k)'
                    /\ running' /\ ~changed' =>
                          \A k \in Saved : config'[k] # Absent =>
                              Updates(k)' = {} /\ Holds(config, last, k)'
  BY DEF ResumeInv
<1>1. CASE End
  <2>1. /\ running /\ ~running' /\ last' = shown
        /\ writers = << >> /\ ~timer /\ todo = << >> /\ loads = {}
        /\ file' = file /\ mishaps' = mishaps
    BY <1>1 DEF End
  <2>2. mishaps \cap {"order", "overlap", "failed"} = {} /\ Idle
    BY <2>1 DEF Idle, SettingsType
  <2>3. /\ file \in Configs
        /\ \A k \in Saved : config[k] = file[k] /\ GroupOf[k] \in ready
        /\ \A k \in Saved : Holds(config, shown, k)
    BY <2>1, <2>2, IdleConfig
  <2>4. \A k \in Saved : Holds(file, shown, k)
    BY <2>3, SameHolds
  <2>5. \A k \in Saved : Holds(file, last, k)'
    BY <2>1, <2>4 DEF Holds
  <2>6. shown[Place] # Blank
    BY <2>1, <2>3, SavedKeys DEF KeptInv, PlaceInv
  <2> QED
    BY <2>1, <2>3, <2>5, <2>6
<1>2. ASSUME UNCHANGED <<exits, last>>, mishaps \subseteq mishaps'
      PROVE  /\ last[Place] # Blank
             /\ ~running => file \in Configs /\ \A k \in Saved : Holds(file, last, k)
             /\ running /\ ~changed =>
                   \A k \in Saved : config[k] # Absent =>
                       Updates(k) = {} /\ Holds(config, last, k)
  BY <1>2 DEF ResumeInv
<1>3. CASE Start
  <2>1. UNCHANGED <<exits, last, mishaps>> /\ ~running /\ todo' = <<Get>>
        /\ running'
        /\ (file \in Configs => config' = file)
    BY <1>3 DEF Start, Begin
  <2>2. last[Place] # Blank /\ file \in Configs /\ \A k \in Saved : Holds(file, last, k)
    BY <1>2, <2>1
  <2>3. \A k : Updates(k)' = {}
    <3>1. DOMAIN todo' = {1} /\ todo'[1].op = "get"
      BY <2>1 DEF Get
    <3> QED
      BY <3>1 DEF Updates, UpdatesIn
  <2>4. \A k \in Saved : Holds(config, last, k)'
    BY <2>1, <2>2 DEF Holds
  <2> QED
    BY <2>1, <2>2, <2>3, <2>4
<1>4. CASE StartFails
  <2>1. UNCHANGED <<running, exits, last, mishaps>> /\ ~running /\ file \notin Configs
    BY <1>4 DEF StartFails, history
  <2> QED
    BY <1>2, <2>1
<1>5. CASE \/ \E k \in Keys, v \in Values : Set(k, v)
           \/ \E v \in Values : Found(v)
  <2>1. changed' /\ running'
    BY <1>5 DEF Set, Sets, Found, Change, SettingsType
  <2>2. UNCHANGED <<exits, last>> /\ mishaps \subseteq mishaps'
    BY <1>5, OtherSteps
  <2> QED
    BY <1>2, <2>1, <2>2
<1>6. CASE \/ SetCacheSize \/ Tick \/ UNCHANGED vars
           \/ \E w \in DOMAIN writers : WriteFile(w) \/ WriteFails(w)
  <2>1. /\ UNCHANGED <<running, config, changed>>
        /\ \A k : Updates(k)' = Updates(k)
        /\ mishaps \subseteq mishaps'
        /\ ~running => file' = file
    BY <1>6, OtherTasks
  <2>2. UNCHANGED <<exits, last>>
    BY <1>6 DEF SetCacheSize, Tick, vars, WriteFile, WriteFails, history
  <2>3. /\ \A k \in Saved : Holds(config, last, k) => Holds(config, last, k)'
        /\ ~running => \A k \in Saved : Holds(file, last, k) => Holds(file, last, k)'
    BY <2>1, <2>2 DEF Holds
  <2> QED
    BY <1>2, <2>1, <2>2, <2>3
<1>7. ASSUME NEW i \in DOMAIN todo, Run(i)
      PROVE  ResumeInv'
  <2>1. /\ running /\ running' /\ UNCHANGED <<changed>>
        /\ \A k : Updates(k) = {} => Updates(k)' = {}
        /\ \A k \in Keys : Updates(k) = {} \/ config[k] = Absent =>
               config'[k] = config[k]
        /\ \A k \in Keys : config'[k] # Absent => config[k] # Absent
    BY <1>7, UpdatesUnchanged
  <2>2. UNCHANGED <<exits, last>> /\ mishaps \subseteq mishaps'
    BY <1>7 DEF Run, OnGetConfig, OnUpdateValue, OpenFile, OpenFails, history
  <2>3. ASSUME ~changed
        PROVE  \A k \in Saved : config'[k] = config[k]
    BY <1>2, <2>1, <2>2, <2>3, SavedKeys
  <2>4. ASSUME ~changed, NEW k \in Saved, config[k] # Absent
        PROVE  Updates(k)' = {} /\ Holds(config, last, k)'
    <3>1. Updates(k) = {} /\ Holds(config, last, k)
      BY <1>2, <2>1, <2>2, <2>4
    <3>2. config'[k] = config[k] /\ config'[Available] = config[Available]
      BY <2>3, <2>4, SavedKeys
    <3> QED
      BY <2>1, <2>2, <3>1, <3>2 DEF Holds
  <2> QED
    BY <1>2, <2>1, <2>2, <2>4, SavedKeys DEF ResumeInv
<1>8. ASSUME NEW load \in loads, Load(load)
      PROVE  ResumeInv'
  <2>1. /\ running /\ running' /\ UNCHANGED <<changed, config, exits, last, mishaps>>
    BY <1>8 DEF Load, SettingsType, storeVars, history
  <2>2. load = Result(load.group)
    BY <2>1 DEF KeptInv, LoadInv
  <2>3. Place \in Of(load.group) => load.values[Place] = config[Place]
    <3>1. Result(load.group).values = [k \in Of(load.group) |-> config[k]]
      BY DEF Result
    <3> QED
      BY <2>2, <3>1, Zenon
  <2>4. /\ shown' \in Whole
        /\ Place \in Of(load.group) /\ Given(load.values[Place]) # Blank => UNCHANGED todo
        /\ Place \notin Of(load.group) => UNCHANGED todo
        /\ \/ UNCHANGED todo
           \/ todo' = Append(todo, Update(Place, shown'[Place]))
    BY <1>8, LoadFacts
  <2>5. \A k : k # Place => Updates(k)' = Updates(k)
    <3>1. CASE UNCHANGED todo
      BY <3>1, TodoKept
    <3>2. CASE todo' = Append(todo, Update(Place, shown'[Place]))
      <4>1. Place \in Keys /\ shown'[Place] \in Allowed[Place] /\ todo \in Seq(Jobs)
        BY <2>4, GroupsOfKeys DEF Whole, SettingsType
      <4>2. \A k : Extends(todo', todo, Place, shown'[Place], k)
        BY <3>2, <4>1, AppendedUpdate
      <4> QED
        BY <4>2 DEF Extends, Updates
    <3> QED
      BY <2>4, <3>1, <3>2
  <2>6. ASSUME ~changed, config[Place] # Absent
        PROVE  Updates(Place)' = Updates(Place)
    <3>1. Holds(config, last, Place) /\ last[Place] # Blank
      BY <1>2, <2>1, <2>6, SavedKeys
    <3>2. Slash[config[Place]] = Slash[last[Place]]
      BY <2>6, <3>1, GroupsOfKeys DEF Holds
    <3>3. last[Place] \in Allowed[Place]
      BY GroupsOfKeys DEF SettingsType, Whole
    <3>4. config[Place] # Blank
      BY <3>1, <3>2, <3>3, SettingsAssumption
    <3>5. UNCHANGED todo
      BY <2>3, <2>4, <2>6, <3>4 DEF Given
    <3> QED
      BY <3>5, TodoKept
  <2>7. ASSUME ~changed, NEW k \in Saved, config[k] # Absent
        PROVE  Updates(k)' = {} /\ Holds(config, last, k)'
    <3>1. Updates(k) = {} /\ Holds(config, last, k)
      BY <1>2, <2>1, <2>7
    <3>2. Updates(k)' = {}
      BY <2>5, <2>6, <2>7, <3>1
    <3> QED
      BY <2>1, <3>1, <3>2 DEF Holds
  <2> QED
    BY <1>2, <2>1, <2>7 DEF ResumeInv
<1> QED
  BY <1>1, <1>3, <1>4, <1>5, <1>6, <1>7, <1>8 DEF Next, Exit, Throw, ResumeInv

\* A restart shows what was shown when the program ended, as far as it was
\* saved and is loaded: the place as a directory, the latest version where the
\* file says that there is one, but not that there is an update.
THEOREM SettingsResume == Spec => []Resumes
<1>1. Init => ResumeInv
  BY DEF Init, ResumeInv
<1>2. SettingsType /\ FileInv /\ KeptInv /\ UnchangedInv /\ ResumeInv => Resumes
  <2> SUFFICES ASSUME SettingsType, FileInv, KeptInv, UnchangedInv, ResumeInv,
                      running, Idle, exits > 0, ~changed, Loaded,
                      mishaps \cap {"cut", "unsaved", "order", "overlap", "failed"} = {},
                      NEW k \in Saved, file[k] # Absent
               PROVE  /\ k \notin {Place, Available, Latest} => shown[k] = last[k]
                      /\ k = Place => Slash[shown[k]] = Slash[last[k]]
                      /\ k = Available => shown[k] = No
                      /\ k = Latest /\ "early" \notin mishaps =>
                            shown[k] = IF file[Available] = Yes THEN last[k] ELSE Blank
    BY DEF Resumes
  <2>1. /\ \A x \in Saved : config[x] = file[x] /\ GroupOf[x] \in ready
        /\ Holds(config, shown, k)
    BY IdleConfig
  <2>2. config[k] = file[k] /\ config[Available] = file[Available] /\ About \in ready
    BY <2>1, SavedKeys
  <2>3. Holds(config, last, k)
    BY <2>2 DEF ResumeInv
  <2>4. /\ shown[Available] = No
        /\ shown[Latest] = IF config[Available] = Yes THEN Given(config[Latest]) ELSE Blank
    BY <2>2 DEF UnchangedInv
  <2>5. k \notin {Place, Available, Latest} => shown[k] = last[k]
    BY <2>1, <2>2, <2>3 DEF Holds
  <2>6. k = Place => Slash[shown[k]] = Slash[last[k]]
    BY <2>1, <2>2, <2>3, GroupsOfKeys DEF Holds
  <2>7. ASSUME k = Latest, "early" \notin mishaps, config[Available] = Yes
        PROVE  shown[k] = last[k]
    <3>1. config[Latest] = last[Latest]
      BY <2>2, <2>3, <2>7, GroupsOfKeys DEF Holds
    <3> QED
      BY <2>2, <2>4, <2>7, <3>1 DEF Given
  <2> QED
    BY <2>2, <2>4, <2>5, <2>6, <2>7
<1> QED
  BY <1>1, <1>2, ResumeNext, KeptAlways, UnchangedAlways, SettingsTypeCorrect,
     FileAlways, PTL DEF Spec
=============================================================================
