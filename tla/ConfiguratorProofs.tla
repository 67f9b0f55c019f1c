------------------------- MODULE ConfiguratorProofs -------------------------
(***************************************************************************)
(* Configurator for any names and contents: what the window shows, what    *)
(* the loader reads and what the files keep stay together, whatever the    *)
(* user, the command line, signals and kills do between them.              *)
(***************************************************************************)
EXTENDS Configurator, TLAPS

\* The active configuration is the one in the settings, if there is any.
Stored == active \in {None, environment.active}

\* What the user removed is in no list and in no file.
Gone ==
  /\ removed \cap (DOMAIN files \cup DOMAIN old) = {}
  /\ Running => removed \cap DOMAIN available = {}

\* What was saved is in its file, and stays the content of this version.
Kept ==
  \A name \in DOMAIN saved : name \in DOMAIN files /\ files[name] = saved[name]

\* The first run is over once something was saved.
NoLongerFirst ==
  /\ Running => ~environment.first_run
  /\ settings.first_run => DOMAIN saved = {}

\* The settings on disk name the configuration that was active at the exit.
Chosen == process = "closed" /\ chosen \in DOMAIN saved => settings.active = chosen

Invariant ==
  /\ TypeOK
  /\ Stored
  /\ Gone
  /\ Kept
  /\ NoLongerFirst
  /\ Chosen

---------------------------------------------------------------------------
(* Lists of configurations                                                 *)

\* What it is to be a list of configurations.
LEMMA FilesAre ==
  ASSUME NEW list \in Files
  PROVE  /\ list = [name \in DOMAIN list |-> list[name]]
         /\ DOMAIN list \subseteq Name
         /\ \A name \in DOMAIN list : list[name] \in Content
BY DEF Files

LEMMA AreFiles ==
  ASSUME NEW list, list = [name \in DOMAIN list |-> list[name]],
         DOMAIN list \subseteq Name,
         \A name \in DOMAIN list : list[name] \in Content
  PROVE  list \in Files
BY DEF Files

LEMMA NoFileIsFiles == NoFile \in Files /\ DOMAIN NoFile = {}
BY AreFiles DEF NoFile

LEMMA BuiltinIsFiles ==
  Builtin \in Files /\ Older \in Files /\ Validation \in DOMAIN Builtin
BY NameAssumption DEF Files

\* Merging keeps the contents of the first list.
LEMMA Merged ==
  ASSUME NEW list \in Files, NEW more \in Files
  PROVE  /\ Merge(list, more) \in Files
         /\ DOMAIN Merge(list, more) = DOMAIN list \cup DOMAIN more
         /\ \A name \in DOMAIN list : Merge(list, more)[name] = list[name]
         /\ \A name \in DOMAIN more \ DOMAIN list : Merge(list, more)[name] = more[name]
<1>1. /\ DOMAIN list \subseteq Name
      /\ DOMAIN more \subseteq Name
      /\ \A name \in DOMAIN list : list[name] \in Content
      /\ \A name \in DOMAIN more : more[name] \in Content
  BY FilesAre
<1>2. /\ DOMAIN Merge(list, more) = DOMAIN list \cup DOMAIN more
      /\ \A name \in DOMAIN list : Merge(list, more)[name] = list[name]
      /\ \A name \in DOMAIN more \ DOMAIN list : Merge(list, more)[name] = more[name]
  BY DEF Merge
<1>3. Merge(list, more) = [name \in DOMAIN Merge(list, more) |-> Merge(list, more)[name]]
  BY DEF Merge
<1>4. /\ DOMAIN Merge(list, more) \subseteq Name
      /\ \A name \in DOMAIN Merge(list, more) : Merge(list, more)[name] \in Content
  BY <1>1, <1>2
<1>5. Merge(list, more) \in Files
  BY <1>3, <1>4, AreFiles
<1> QED
  BY <1>2, <1>5

LEMMA Withed ==
  ASSUME NEW list \in Files, NEW name \in Name, NEW content \in Content
  PROVE  /\ With(list, name, content) \in Files
         /\ DOMAIN With(list, name, content) = DOMAIN list \cup {name}
         /\ With(list, name, content)[name] = content
         /\ \A other \in DOMAIN list \ {name} :
              With(list, name, content)[other] = list[other]
<1> DEFINE one == [added \in {name} |-> content]
<1>1. DOMAIN one = {name} /\ one[name] = content
  OBVIOUS
<1>2. one \in Files
  BY <1>1, AreFiles
<1>3. With(list, name, content) = Merge(one, list)
  BY DEF With
<1> HIDE DEF one
<1> QED
  BY <1>1, <1>2, <1>3, Merged

LEMMA Restricted ==
  ASSUME NEW list \in Files, NEW names, names \subseteq DOMAIN list
  PROVE  /\ Restrict(list, names) \in Files
         /\ DOMAIN Restrict(list, names) = names
         /\ \A name \in names : Restrict(list, names)[name] = list[name]
<1>1. DOMAIN list \subseteq Name /\ \A name \in DOMAIN list : list[name] \in Content
  BY FilesAre
<1> QED
  BY <1>1 DEF Restrict, Files

LEMMA Updated ==
  ASSUME NEW list \in Files, NEW name \in DOMAIN list, NEW content \in Content
  PROVE  /\ [list EXCEPT ![name] = content] \in Files
         /\ DOMAIN [list EXCEPT ![name] = content] = DOMAIN list
<1>1. DOMAIN list \subseteq Name /\ \A other \in DOMAIN list : list[other] \in Content
  BY FilesAre
<1> QED
  BY <1>1 DEF Files

---------------------------------------------------------------------------
(* Calls                                                                   *)

State == [available : Files, active : Name \cup {None}, environment : Settings,
          current : Name \cup {None}, last : Name \cup {None},
          files : Files, old : Files, override : Content \cup {Absent}]

\* The active configuration and the current item are in the list.
ActiveListed(s) == s.active \in DOMAIN s.available \cup {None}
CurrentListed(s) == s.current \in DOMAIN s.available \cup {None}

ActiveStored(s) == s.active \in {None, s.environment.active}

Synced(s) ==
  s.override = IF s.active = None THEN Absent ELSE Promised(s.available[s.active])

Settled(s) == ActiveListed(s) /\ ActiveStored(s) /\ Synced(s)

\* A call that leaves the configurations alone, in memory and in files.
SameLists(s, t) ==
  /\ t.available = s.available
  /\ t.files = s.files
  /\ t.old = s.old
  /\ t.environment = [s.environment EXCEPT !.active = t.environment.active]

\* A call that changes the tree only.
SameButTree(s, t) ==
  /\ SameLists(s, t)
  /\ t.active = s.active
  /\ t.environment = s.environment
  /\ t.override = s.override

\* The changes of the settings in memory.
LEMMA Stores ==
  ASSUME NEW environment1 \in Settings, NEW name \in Name \cup {None}
  PROVE  /\ [environment1 EXCEPT !.active = name] \in Settings
         /\ [environment1 EXCEPT !.active = name].active = name
         /\ environment1 = [environment1 EXCEPT !.active = environment1.active]
         /\ environment1.active \in Name \cup {None}
BY DEF Settings

\* SetActiveConfiguration leaves the override in step with what it activates.
LEMMA Activates ==
  ASSUME NEW s \in State, NEW name \in DOMAIN s.available \cup {None},
         NEW t, t = SetActiveConfiguration(s, name)
  PROVE  /\ t \in State
         /\ SameLists(s, t)
         /\ Settled(t)
         /\ t.active = name
         /\ t.environment.active = IF name = None THEN s.environment.active ELSE name
         /\ t.current = s.current
         /\ t.last = s.last
<1>1. s.environment \in Settings /\ s.available \in Files
  BY DEF State
<1>2. DOMAIN s.available \subseteq Name /\ \A other \in DOMAIN s.available : s.available[other] \in Content
  BY <1>1, FilesAre
<1>3. None \notin Name
  BY NameAssumption
<1>4. CASE name = None
  <2>1. t = [s EXCEPT !.active = None, !.override = Absent]
    BY <1>4 DEF SetActiveConfiguration, SurrenderConfiguration, State
  <2> QED
    BY <2>1, <1>1, <1>4, Stores DEF State, SameLists, Settled, ActiveListed, ActiveStored, Synced
<1>5. CASE name # None
  <2> DEFINE stored == [s.environment EXCEPT !.active = name]
             content == s.available[name]
  <2>1. name \in DOMAIN s.available /\ name \in Name /\ content \in Content
    BY <1>5, <1>2
  <2>2. t = [s EXCEPT !.active = name, !.environment = stored, !.override = Promised(content)]
    BY <1>5, <2>1 DEF SetActiveConfiguration, Apply, OverrideConfiguration,
       SurrenderConfiguration, Promised, State
  <2>3. Promised(content) \in Content \cup {Absent}
    BY <2>1 DEF Promised
  <2>4. stored \in Settings /\ stored.active = name
    BY <1>1, <2>1, Stores
  <2>5. /\ t \in State
        /\ t.available = s.available /\ t.files = s.files /\ t.old = s.old
        /\ t.environment = stored /\ t.active = name /\ t.override = Promised(content)
        /\ t.current = s.current /\ t.last = s.last
    <3> HIDE DEF stored, content
    <3> QED
      BY <2>1, <2>2, <2>3, <2>4 DEF State
  <2>6. SameLists(s, t)
    BY <2>4, <2>5 DEF SameLists
  <2>7. Settled(t)
    BY <1>5, <2>1, <2>4, <2>5 DEF Settled, ActiveListed, ActiveStored, Synced
  <2> QED
    BY <1>5, <2>4, <2>5, <2>6, <2>7
<1> QED
  BY <1>4, <1>5

LEMMA Refreshes ==
  ASSUME NEW s \in State, NEW t, t = RefreshConfiguration(s)
  PROVE  /\ t \in State
         /\ SameLists(s, t)
         /\ Settled(t)
         /\ t.current = s.current
         /\ t.last = s.last
         /\ s.environment.active \in DOMAIN s.available =>
              /\ t.environment = s.environment
              /\ s.environment.use => t.active = s.environment.active
<1>1. s.environment \in Settings /\ s.available \in Files
  BY DEF State
<1>2. DOMAIN s.available \subseteq Name /\ None \notin Name
  BY <1>1, FilesAre, NameAssumption
<1>3. CASE s.environment.active = None \/ ~s.environment.use
  <2>1. t = SetActiveConfiguration(s, None)
    BY <1>3 DEF RefreshConfiguration
  <2>2. /\ t \in State /\ SameLists(s, t) /\ Settled(t)
        /\ t.environment.active = s.environment.active
        /\ t.current = s.current /\ t.last = s.last
    BY <2>1, Activates
  <2>3. t.environment = s.environment
    BY <2>2, <1>1, Stores DEF SameLists
  <2> QED
    BY <1>2, <1>3, <2>2, <2>3
<1>4. CASE /\ ~(s.environment.active = None \/ ~s.environment.use)
           /\ s.environment.active \in DOMAIN s.available
  <2>1. t = SetActiveConfiguration(s, s.environment.active)
    BY <1>4 DEF RefreshConfiguration
  <2>2. /\ t \in State /\ SameLists(s, t) /\ Settled(t)
        /\ t.active = s.environment.active
        /\ t.environment.active = s.environment.active
        /\ t.current = s.current /\ t.last = s.last
    BY <2>1, <1>4, Activates
  <2>3. t.environment = s.environment
    BY <2>2, <1>1, Stores DEF SameLists
  <2> QED
    BY <2>2, <2>3
<1>5. CASE /\ ~(s.environment.active = None \/ ~s.environment.use)
           /\ s.environment.active \notin DOMAIN s.available
  <2> DEFINE unset == [s EXCEPT !.environment = [s.environment EXCEPT !.active = None]]
  <2>1. t = SetActiveConfiguration(unset, None)
    BY <1>5 DEF RefreshConfiguration, State
  <2>2. [s.environment EXCEPT !.active = None] \in Settings
    BY <1>1, Stores
  <2>3. /\ unset \in State
        /\ unset.available = s.available /\ unset.files = s.files /\ unset.old = s.old
        /\ unset.current = s.current /\ unset.last = s.last
        /\ unset.environment = [s.environment EXCEPT !.active = None]
    BY <2>2 DEF State
  <2> HIDE DEF unset
  <2>4. /\ t \in State /\ SameLists(unset, t) /\ Settled(t)
        /\ t.environment.active = unset.environment.active
        /\ t.current = unset.current /\ t.last = unset.last
    BY <2>1, <2>3, Activates
  <2>5. t.environment = unset.environment
    <3>1. t.environment = [unset.environment EXCEPT !.active = unset.environment.active]
      BY <2>4 DEF SameLists
    <3>2. unset.environment \in Settings
      BY <2>2, <2>3
    <3> QED
      BY <3>1, <3>2, Stores
  <2>6. t.environment = [s.environment EXCEPT !.active = t.environment.active]
    BY <2>5, <2>3, <1>1, Stores
  <2>7. SameLists(s, t)
    BY <2>3, <2>4, <2>6 DEF SameLists
  <2> QED
    BY <1>5, <2>3, <2>4, <2>7
<1> QED
  BY <1>3, <1>4, <1>5

LEMMA SameSettings ==
  ASSUME NEW s \in State, NEW t \in State, SameLists(s, t)
  PROVE  /\ t.environment.first_run = s.environment.first_run
         /\ t.environment.use = s.environment.use
         /\ t.environment.initialised = s.environment.initialised
<1>1. s.environment \in Settings /\ t.environment \in Settings
  BY DEF State
<1> QED
  BY <1>1 DEF SameLists, Settings

LEMMA SameTransitive ==
  ASSUME NEW s \in State, NEW t \in State, NEW u \in State, SameLists(s, t), SameLists(t, u)
  PROVE  SameLists(s, u)
<1>1. s.environment \in Settings /\ t.environment \in Settings
  BY DEF State
<1>2. u.environment = [s.environment EXCEPT !.active = u.environment.active]
  BY <1>1 DEF SameLists, Settings
<1> QED
  BY <1>2 DEF SameLists

\* A call that changes the tree only is one that leaves the lists alone.
LEMMA TreeOnly ==
  ASSUME NEW s \in State, NEW t \in State, SameButTree(s, t)
  PROVE  /\ SameLists(s, t)
         /\ ActiveListed(s) => ActiveListed(t)
         /\ ActiveStored(s) => ActiveStored(t)
         /\ Synced(s) => Synced(t)
         /\ Settled(s) => Settled(t)
BY DEF SameButTree, SameLists, ActiveListed, ActiveStored, Synced, Settled

LEMMA SameTree ==
  ASSUME NEW s \in State, NEW t, t.available = s.available, t.files = s.files, t.old = s.old,
         t.active = s.active, t.environment = s.environment, t.override = s.override
  PROVE  SameButTree(s, t)
<1>1. s.environment \in Settings
  BY DEF State
<1>2. s.environment = [s.environment EXCEPT !.active = s.environment.active]
  BY <1>1, Stores
<1> QED
  BY <1>2 DEF SameButTree, SameLists

LEMMA Updates ==
  ASSUME NEW s \in State, NEW t, t = UpdateUI(s)
  PROVE  /\ t \in State
         /\ SameButTree(s, t)
         /\ t.last = s.last
         /\ CurrentListed(s) => CurrentListed(t)
<1>1. s.available \in Files /\ s.environment \in Settings
  BY DEF State
<1>2. s.environment.active \in Name \cup {None}
  BY <1>1, Stores
<1>3. t = [s EXCEPT !.current = t.current]
  BY DEF UpdateUI, State
<1>4. t.current \in Name \cup {None} /\ (CurrentListed(s) => t.current \in DOMAIN s.available \cup {None})
  BY <1>2 DEF UpdateUI, State, CurrentListed
<1>5. /\ t \in State
      /\ t.available = s.available /\ t.files = s.files /\ t.old = s.old /\ t.active = s.active
      /\ t.environment = s.environment /\ t.override = s.override /\ t.last = s.last
  BY <1>3, <1>4 DEF State
<1>6. SameButTree(s, t)
  BY <1>5, SameTree
<1> QED
  BY <1>4, <1>5, <1>6 DEF CurrentListed

\* Whatever was current, the new list has no stale current item.
LEMMA Lists ==
  ASSUME NEW s \in State, NEW t, t = LoadConfigurationList(s)
  PROVE  /\ t \in State
         /\ SameButTree(s, t)
         /\ t.last = s.last
         /\ CurrentListed(t)
<1> DEFINE cleared == [s EXCEPT !.current = None]
<1>1. /\ cleared \in State /\ cleared.current = None
      /\ cleared.available = s.available /\ cleared.files = s.files /\ cleared.old = s.old
      /\ cleared.active = s.active /\ cleared.environment = s.environment
      /\ cleared.override = s.override /\ cleared.last = s.last
  BY DEF State
<1>2. t = UpdateUI(cleared)
  BY DEF LoadConfigurationList
<1> HIDE DEF cleared
<1>3. CurrentListed(cleared)
  BY <1>1 DEF CurrentListed
<1>4. t \in State /\ SameButTree(cleared, t) /\ t.last = cleared.last /\ CurrentListed(t)
  BY <1>1, <1>2, <1>3, Updates
<1> QED
  BY <1>1, <1>4 DEF SameButTree, SameLists

LEMMA SavesLast ==
  ASSUME NEW s \in State, NEW t, t = SaveLastItem(s)
  PROVE  /\ t \in State
         /\ SameButTree(s, t)
         /\ t.current = s.current
<1>1. t = [s EXCEPT !.last = t.last]
  BY DEF SaveLastItem, State
<1>2. t.last \in Name \cup {None}
  BY DEF SaveLastItem, State
<1>3. /\ t \in State /\ t.current = s.current
      /\ t.available = s.available /\ t.files = s.files /\ t.old = s.old /\ t.active = s.active
      /\ t.environment = s.environment /\ t.override = s.override
  BY <1>1, <1>2 DEF State
<1> QED
  BY <1>3, SameTree

\* What a change of the current item may do.
Follows(s, t) ==
  /\ t \in State
  /\ SameLists(s, t)
  /\ ActiveListed(s) => ActiveListed(t)
  /\ ActiveStored(s) => ActiveStored(t)
  /\ Synced(s) => Synced(t)
  /\ CurrentListed(s) => CurrentListed(t)

LEMMA SameFollows ==
  ASSUME NEW s \in State
  PROVE  SameButTree(s, s) /\ Follows(s, s)
<1>1. SameButTree(s, s)
  BY SameTree
<1> QED
  BY <1>1, TreeOnly DEF Follows

LEMMA TreeChanges ==
  ASSUME NEW s \in State, NEW name \in DOMAIN s.available,
         NEW t, t = OnConfigurationTreeChanged(s, name)
  PROVE  Follows(s, t) /\ t.current = s.current
<1>1. CASE HasActiveConfiguration(s) /\ s.active = name
  BY <1>1, SameFollows DEF OnConfigurationTreeChanged
<1>2. CASE ~(HasActiveConfiguration(s) /\ s.active = name)
  <2>1. t = SetActiveConfiguration(s, name)
    BY <1>2 DEF OnConfigurationTreeChanged
  <2>2. t \in State /\ SameLists(s, t) /\ Settled(t) /\ t.current = s.current
    BY <2>1, Activates
  <2> QED
    BY <2>2 DEF Follows, Settled, SameLists, CurrentListed
<1> QED
  BY <1>1, <1>2

LEMMA ItemChanges ==
  ASSUME NEW s \in State, NEW name \in DOMAIN s.available, NEW t, t = SetCurrentItem(s, name)
  PROVE  Follows(s, t)
<1>1. CASE s.current = name
  BY <1>1, SameFollows DEF SetCurrentItem
<1>2. CASE s.current # name
  <2> DEFINE pressed == [s EXCEPT !.current = name]
  <2>1. name \in Name
    BY FilesAre DEF State
  <2>2. /\ pressed \in State /\ pressed.current = name
        /\ pressed.available = s.available /\ pressed.files = s.files /\ pressed.old = s.old
        /\ pressed.active = s.active /\ pressed.environment = s.environment
        /\ pressed.override = s.override
    BY <2>1 DEF State
  <2>3. t = OnConfigurationTreeChanged(pressed, name)
    BY <1>2 DEF SetCurrentItem
  <2> HIDE DEF pressed
  <2>4. Follows(pressed, t) /\ t.current = name
    BY <2>2, <2>3, TreeChanges
  <2>5. SameButTree(s, pressed)
    BY <2>2, SameTree
  <2>6. Follows(s, pressed)
    BY <2>2, <2>5, TreeOnly DEF Follows, CurrentListed
  <2>7. SameLists(s, t)
    BY <2>2, <2>4, <2>6, SameTransitive DEF Follows
  <2> QED
    BY <2>4, <2>6, <2>7, <2>2 DEF Follows, CurrentListed, SameLists
<1> QED
  BY <1>1, <1>2

LEMMA RestoresLast ==
  ASSUME NEW s \in State, NEW t, t = RestoreLastItem(s)
  PROVE  Follows(s, t)
BY ItemChanges, SameFollows DEF RestoreLastItem

---------------------------------------------------------------------------
(* Loading, adding and removing configurations                             *)

\* The names on disk, in files of any version.
OnDisk(s) == DOMAIN s.files \cup DOMAIN s.old

\* A call that leaves the files alone.
SameFiles(s, t) ==
  /\ t.files = s.files
  /\ t.old = s.old
  /\ t.environment.first_run = s.environment.first_run

LEMMA DefaultIsSettings ==
  ASSUME NEW names \in SUBSET DOMAIN Builtin
  PROVE  /\ Default \in Settings
         /\ [Default EXCEPT !.initialised = names] \in Settings
         /\ [Default EXCEPT !.initialised = names].first_run
<1>1. Validation \in Name
  BY NameAssumption
<1> QED
  BY <1>1 DEF Default, Settings

\* A run that is not the first has what the files say, newest version first.
LEMMA LoadsAll ==
  ASSUME NEW s \in State, NEW t, t = LoadAllConfigurations(s)
  PROVE  /\ t \in State
         /\ Settled(t)
         /\ ~t.environment.first_run
         /\ t.environment.use = s.environment.use
         /\ t.environment.initialised = s.environment.initialised
         /\ t.current = s.current
         /\ s.environment.first_run =>
              /\ t.files = NoFile
              /\ t.old = NoFile
              /\ DOMAIN t.available = DOMAIN Builtin
         /\ ~s.environment.first_run =>
              /\ t.files = s.files
              /\ t.old = s.old
              /\ DOMAIN t.available = OnDisk(s)
              /\ \A name \in DOMAIN s.files : t.available[name] = s.files[name]
              /\ s.environment.active \in OnDisk(s) =>
                   /\ t.environment.active = s.environment.active
                   /\ s.environment.use => t.active = s.environment.active
<1> DEFINE later == [s.environment EXCEPT !.first_run = FALSE]
           installed == IF s.environment.first_run THEN Merge(NoFile, Builtin) ELSE NoFile
           files1 == IF s.environment.first_run THEN NoFile ELSE s.files
           old1 == IF s.environment.first_run THEN NoFile ELSE s.old
           listed == Merge(Merge(installed, files1), old1)
           loaded == [s EXCEPT !.available = listed, !.active = None, !.environment = later,
                               !.files = files1, !.old = old1]
<1>1. s.environment \in Settings /\ s.files \in Files /\ s.old \in Files
  BY DEF State
<1>2. /\ later \in Settings /\ ~later.first_run
      /\ later.use = s.environment.use /\ later.active = s.environment.active
      /\ later.initialised = s.environment.initialised
      /\ ~s.environment.first_run => later = s.environment
  BY <1>1 DEF Settings
<1>3. /\ files1 \in Files /\ old1 \in Files /\ installed \in Files
      /\ DOMAIN installed = IF s.environment.first_run THEN DOMAIN Builtin ELSE {}
  BY <1>1, NoFileIsFiles, BuiltinIsFiles, Merged
<1>4. t = RefreshConfiguration(loaded)
  <2>1. CASE s.environment.first_run
    BY <2>1 DEF LoadAllConfigurations, LoadDefaultConfigurations, RemoveConfigurationFiles, State
  <2>2. CASE ~s.environment.first_run
    BY <1>2, <2>2 DEF LoadAllConfigurations, State
  <2> QED
    BY <2>1, <2>2
<1> HIDE DEF installed
<1>5. /\ Merge(installed, files1) \in Files
      /\ DOMAIN Merge(installed, files1) = DOMAIN installed \cup DOMAIN files1
      /\ \A name \in DOMAIN files1 \ DOMAIN installed :
           Merge(installed, files1)[name] = files1[name]
  BY <1>3, Merged
<1>6. /\ listed \in Files
      /\ DOMAIN listed = DOMAIN installed \cup DOMAIN files1 \cup DOMAIN old1
      /\ \A name \in DOMAIN files1 \ DOMAIN installed : listed[name] = files1[name]
  <2> DEFINE first == Merge(installed, files1)
  <2>1. first \in Files /\ DOMAIN first = DOMAIN installed \cup DOMAIN files1
        /\ \A name \in DOMAIN files1 \ DOMAIN installed : first[name] = files1[name]
    BY <1>5
  <2> HIDE DEF first, files1, old1
  <2>2. /\ Merge(first, old1) \in Files
        /\ DOMAIN Merge(first, old1) = DOMAIN first \cup DOMAIN old1
        /\ \A name \in DOMAIN first : Merge(first, old1)[name] = first[name]
    BY <2>1, <1>3, Merged
  <2>3. listed = Merge(first, old1)
    BY DEF first
  <2> HIDE DEF listed
  <2> QED
    BY <2>1, <2>2, <2>3
<1> HIDE DEF listed, later
<1>7. /\ loaded \in State /\ loaded.available = listed /\ loaded.environment = later
      /\ loaded.files = files1 /\ loaded.old = old1 /\ loaded.current = s.current
  <2> HIDE DEF files1, old1
  <2> QED
    BY <1>2, <1>3, <1>6 DEF State
<1> HIDE DEF loaded
<1>8. /\ t \in State /\ SameLists(loaded, t) /\ Settled(t) /\ t.current = loaded.current
      /\ loaded.environment.active \in DOMAIN loaded.available =>
           /\ t.environment = loaded.environment
           /\ loaded.environment.use => t.active = loaded.environment.active
  BY <1>4, <1>7, Refreshes
<1>9. /\ t.environment.first_run = later.first_run
      /\ t.environment.use = later.use
      /\ t.environment.initialised = later.initialised
  BY <1>7, <1>8, SameSettings
<1>10. t.available = listed /\ t.files = files1 /\ t.old = old1
  BY <1>7, <1>8 DEF SameLists
<1>11. CASE s.environment.first_run
  <2>1. files1 = NoFile /\ old1 = NoFile /\ DOMAIN installed = DOMAIN Builtin
    BY <1>3, <1>11
  <2>2. DOMAIN listed = DOMAIN Builtin
    BY <1>6, <2>1, NoFileIsFiles
  <2> QED
    BY <1>2, <1>7, <1>8, <1>9, <1>10, <1>11, <2>1, <2>2
<1>12. CASE ~s.environment.first_run
  <2>1. files1 = s.files /\ old1 = s.old /\ DOMAIN installed = {}
    BY <1>3, <1>12
  <2>2. DOMAIN listed = OnDisk(s) /\ \A name \in DOMAIN s.files : listed[name] = s.files[name]
    BY <1>6, <2>1 DEF OnDisk
  <2> QED
    BY <1>2, <1>7, <1>8, <1>9, <1>10, <1>12, <2>1, <2>2
<1> QED
  BY <1>11, <1>12

LEMMA FirstDefaults ==
  ASSUME NEW s \in State, NEW t, t = FirstDefaultsConfigurations(s)
  PROVE  /\ t \in State
         /\ Settled(t)
         /\ SameFiles(s, t)
         /\ t.environment.use = s.environment.use
         /\ t.current = s.current
         /\ DOMAIN t.available = DOMAIN s.available \cup (DOMAIN Builtin \ s.environment.initialised)
         /\ \A name \in DOMAIN s.available : t.available[name] = s.available[name]
         /\ s.environment.active \in DOMAIN s.available =>
              /\ t.environment.active = s.environment.active
              /\ s.environment.use => t.active = s.environment.active
<1> DEFINE new == DOMAIN Builtin \ s.environment.initialised
           marked == [s.environment EXCEPT !.initialised = s.environment.initialised \cup new]
           more == Restrict(Builtin, new)
           listed == Merge(s.available, more)
           grown == [s EXCEPT !.environment = marked, !.available = listed]
<1>1. s.environment \in Settings /\ s.available \in Files
  BY DEF State
<1>2. /\ marked \in Settings /\ marked.active = s.environment.active
      /\ marked.use = s.environment.use /\ marked.first_run = s.environment.first_run
  BY <1>1 DEF Settings
<1>3. more \in Files /\ DOMAIN more = new
  <2>1. new \subseteq DOMAIN Builtin
    OBVIOUS
  <2> HIDE DEF new
  <2> QED
    BY <2>1, BuiltinIsFiles, Restricted
<1>4. t = RefreshConfiguration(grown)
  BY DEF FirstDefaultsConfigurations, State
<1> HIDE DEF more, marked, new
<1>5. /\ listed \in Files /\ DOMAIN listed = DOMAIN s.available \cup new
      /\ \A name \in DOMAIN s.available : listed[name] = s.available[name]
  BY <1>1, <1>3, Merged
<1> HIDE DEF listed
<1>6. /\ grown \in State /\ grown.environment = marked /\ grown.available = listed
      /\ grown.files = s.files /\ grown.old = s.old /\ grown.current = s.current
  BY <1>2, <1>5 DEF State
<1> HIDE DEF grown
<1>7. /\ t \in State /\ SameLists(grown, t) /\ Settled(t) /\ t.current = grown.current
      /\ grown.environment.active \in DOMAIN grown.available =>
           /\ t.environment = grown.environment
           /\ grown.environment.use => t.active = grown.environment.active
  BY <1>4, <1>6, Refreshes
<1>8. /\ t.environment.first_run = marked.first_run
      /\ t.environment.use = marked.use
  BY <1>6, <1>7, SameSettings
<1>9. t.available = listed /\ t.files = s.files /\ t.old = s.old
  BY <1>6, <1>7 DEF SameLists
<1> QED
  BY <1>2, <1>5, <1>6, <1>7, <1>8, <1>9 DEF SameFiles, new

LEMMA ResetsDefaults ==
  ASSUME NEW s \in State, NEW t, t = ResetDefaultsConfigurations(s)
  PROVE  /\ t \in State
         /\ Settled(t)
         /\ ~t.environment.first_run
         /\ t.files = NoFile
         /\ t.old = NoFile
         /\ t.current = s.current
<1> DEFINE off == SetActiveConfiguration(s, None)
           fresh == [Default EXCEPT !.initialised = s.environment.initialised]
           reset == [off EXCEPT !.environment = fresh]
<1>1. s.environment.initialised \in SUBSET DOMAIN Builtin
  BY DEF State, Settings
<1>2. fresh \in Settings /\ fresh.first_run
  BY <1>1, DefaultIsSettings
<1>3. off \in State /\ off.current = s.current
  BY Activates
<1>4. t = LoadAllConfigurations(reset)
  BY DEF ResetDefaultsConfigurations
<1> HIDE DEF off, fresh
<1>5. reset \in State /\ reset.environment = fresh /\ reset.current = s.current
  BY <1>2, <1>3 DEF State
<1> HIDE DEF reset
<1> QED
  BY <1>2, <1>4, <1>5, LoadsAll

LEMMA ReloadsDefaults ==
  ASSUME NEW s \in State, NEW t, t = ReloadDefaultsConfigurations(s)
  PROVE  /\ t \in State
         /\ Settled(t)
         /\ SameFiles(s, t)
         /\ DOMAIN t.available = DOMAIN s.available \cup DOMAIN Builtin
         /\ \A name \in DOMAIN s.available : t.available[name] = s.available[name]
         /\ s.environment.active \in DOMAIN s.available =>
              t.environment.active = s.environment.active
<1> DEFINE off == SetActiveConfiguration(s, None)
           listed == Merge(s.available, Builtin)
           grown == [off EXCEPT !.available = listed]
<1>1. s.available \in Files
  BY DEF State
<1>2. /\ off \in State /\ SameLists(s, off)
      /\ off.environment.active = s.environment.active
  BY Activates
<1>3. /\ off.environment.first_run = s.environment.first_run
      /\ off.available = s.available /\ off.files = s.files /\ off.old = s.old
  BY <1>2, SameSettings DEF SameLists
<1>4. t = RefreshConfiguration(grown)
  BY <1>2, <1>3 DEF ReloadDefaultsConfigurations, LoadDefaultConfigurations
<1> HIDE DEF off
<1>5. /\ listed \in Files /\ DOMAIN listed = DOMAIN s.available \cup DOMAIN Builtin
      /\ \A name \in DOMAIN s.available : listed[name] = s.available[name]
  BY <1>1, BuiltinIsFiles, Merged
<1> HIDE DEF listed
<1>6. /\ grown \in State /\ grown.available = listed /\ grown.environment = off.environment
      /\ grown.files = s.files /\ grown.old = s.old
  BY <1>2, <1>3, <1>5 DEF State
<1> HIDE DEF grown
<1>7. /\ t \in State /\ SameLists(grown, t) /\ Settled(t)
      /\ grown.environment.active \in DOMAIN grown.available => t.environment = grown.environment
  BY <1>4, <1>6, Refreshes
<1>8. t.environment.first_run = s.environment.first_run
  BY <1>3, <1>6, <1>7, SameSettings
<1>9. t.available = listed /\ t.files = s.files /\ t.old = s.old
  BY <1>6, <1>7 DEF SameLists
<1> QED
  BY <1>2, <1>5, <1>6, <1>7, <1>8, <1>9 DEF SameFiles

\* What is removed is gone from the list and from the files of every version.
LEMMA Removes ==
  ASSUME NEW s \in State, NEW name, NEW t, t = RemoveConfiguration(s, name)
  PROVE  /\ t \in State
         /\ Settled(t)
         /\ t.environment.first_run = s.environment.first_run
         /\ DOMAIN t.available = DOMAIN s.available \ {name}
         /\ DOMAIN t.files = DOMAIN s.files \ {name}
         /\ DOMAIN t.old = DOMAIN s.old \ {name}
         /\ \A other \in DOMAIN s.files \ {name} : t.files[other] = s.files[other]
<1> DEFINE listed == Restrict(s.available, DOMAIN s.available \ {name})
           files1 == Restrict(s.files, DOMAIN s.files \ {name})
           old1 == Restrict(s.old, DOMAIN s.old \ {name})
           less == [s EXCEPT !.files = files1, !.old = old1, !.available = listed]
<1>1. s.available \in Files /\ s.files \in Files /\ s.old \in Files
  BY DEF State
<1>2. /\ listed \in Files /\ DOMAIN listed = DOMAIN s.available \ {name}
      /\ files1 \in Files /\ DOMAIN files1 = DOMAIN s.files \ {name}
      /\ \A other \in DOMAIN s.files \ {name} : files1[other] = s.files[other]
      /\ old1 \in Files /\ DOMAIN old1 = DOMAIN s.old \ {name}
  <2>1. \A list \in Files :
          /\ Restrict(list, DOMAIN list \ {name}) \in Files
          /\ DOMAIN Restrict(list, DOMAIN list \ {name}) = DOMAIN list \ {name}
          /\ \A other \in DOMAIN list \ {name} :
               Restrict(list, DOMAIN list \ {name})[other] = list[other]
    BY Restricted
  <2> QED
    BY <1>1, <2>1
<1>3. t = SetActiveConfiguration(less, None)
  BY DEF RemoveConfiguration, State
<1> HIDE DEF listed, files1, old1
<1>4. /\ less \in State /\ less.available = listed /\ less.files = files1 /\ less.old = old1
      /\ less.environment = s.environment
  BY <1>2 DEF State
<1> HIDE DEF less
<1>5. t \in State /\ SameLists(less, t) /\ Settled(t)
  BY <1>3, <1>4, Activates
<1>6. t.environment.first_run = s.environment.first_run
  BY <1>4, <1>5, SameSettings
<1> QED
  BY <1>2, <1>4, <1>5, <1>6 DEF SameLists

LEMMA Adds ==
  ASSUME NEW s \in State, NEW name \in Name, NEW content \in Content,
         NEW t, t = AddConfiguration(s, name, content)
  PROVE  t \in State /\ Settled(t) /\ SameFiles(s, t)
<1> DEFINE listed == With(s.available, name, content)
           more == [s EXCEPT !.available = listed]
<1>1. s.available \in Files
  BY DEF State
<1>2. listed \in Files /\ name \in DOMAIN listed
  <2>1. \A list \in Files : /\ With(list, name, content) \in Files
                            /\ DOMAIN With(list, name, content) = DOMAIN list \cup {name}
    BY Withed
  <2> QED
    BY <1>1, <2>1
<1>3. t = SetActiveConfiguration(more, name)
  BY DEF AddConfiguration, State
<1> HIDE DEF listed
<1>4. /\ more \in State /\ more.available = listed /\ more.files = s.files /\ more.old = s.old
      /\ more.environment = s.environment
  BY <1>2 DEF State
<1> HIDE DEF more
<1>5. t \in State /\ SameLists(more, t) /\ Settled(t)
  BY <1>2, <1>3, <1>4, Activates
<1> QED
  BY <1>4, <1>5, SameSettings DEF SameLists, SameFiles

\* What the layers dialog accepts is listed; the active configuration may dangle.
LEMMA Accepts ==
  ASSUME NEW s \in State, NEW from, NEW name \in Name, NEW content \in Content,
         NEW t, t = Accept(s, from, name, content)
  PROVE  /\ t \in State
         /\ SameFiles(s, t)
         /\ t.environment = s.environment
         /\ t.current = s.current
         /\ name \in DOMAIN t.available
<1> DEFINE rest == Restrict(s.available, DOMAIN s.available \ {from})
           listed == With(rest, name, content)
<1>1. s.available \in Files
  BY DEF State
<1>2. rest \in Files
  <2>1. DOMAIN s.available \ {from} \subseteq DOMAIN s.available
    OBVIOUS
  <2> QED
    BY <1>1, <2>1, Restricted
<1>3. t = [s EXCEPT !.available = listed]
  BY DEF Accept, State
<1> HIDE DEF rest
<1>4. listed \in Files /\ name \in DOMAIN listed
  <2>1. \A list \in Files : /\ With(list, name, content) \in Files
                            /\ DOMAIN With(list, name, content) = DOMAIN list \cup {name}
    BY Withed
  <2> QED
    BY <1>2, <2>1
<1> HIDE DEF listed
<1> QED
  BY <1>3, <1>4 DEF State, SameFiles

LEMMA Resets ==
  ASSUME NEW s \in State, NEW name
  PROVE  ResetContent(s, name) \in Content
<1>1. Nothing \in Content
  BY ContentAssumption
<1>2. s.files \in Files /\ s.old \in Files
  BY DEF State
<1> QED
  BY <1>1, <1>2, BuiltinIsFiles, FilesAre DEF ResetContent

\* The destructor writes every configuration of the list in a file.
LEMMA Destructs ==
  ASSUME NEW s \in State, NEW t, t = Destructed(s)
  PROVE  /\ t.files \in Files
         /\ DOMAIN t.files = DOMAIN s.available \cup DOMAIN s.files
         /\ \A name \in DOMAIN s.available : t.files[name] = s.available[name]
         /\ t.old = s.old
         /\ t.override \in Content \cup {Absent}
<1> DEFINE written == Merge(s.available, s.files)
<1>1. s.available \in Files /\ s.files \in Files
  BY DEF State
<1>2. /\ written \in Files /\ DOMAIN written = DOMAIN s.available \cup DOMAIN s.files
      /\ \A name \in DOMAIN s.available : written[name] = s.available[name]
  BY <1>1, Merged
<1>3. t.files = written /\ t.old = s.old /\ t.override \in {s.override, Absent}
  BY DEF Destructed, SaveAllConfigurations, SurrenderConfiguration, State
<1> QED
  BY <1>2, <1>3 DEF State
---------------------------------------------------------------------------
(* The state of the program and its records                                *)

LEMMA NowIsState ==
  ASSUME TypeOK
  PROVE  /\ Now \in State
         /\ Now.available = available /\ Now.active = active
         /\ Now.environment = environment /\ Now.current = current /\ Now.last = last
         /\ Now.files = files /\ Now.old = old /\ Now.override = override
<1>1. available \in Files
  BY DEF TypeOK
<1>2. DOMAIN available \subseteq Name
  BY <1>1, FilesAre
<1> QED
  BY <1>2 DEF TypeOK, Now, State

LEMMA ConstructedIsState ==
  ASSUME TypeOK
  PROVE  /\ Constructed \in State
         /\ Constructed.environment = settings
         /\ Constructed.available = NoFile
         /\ Constructed.files = files /\ Constructed.old = old
         /\ Constructed.active = None /\ Constructed.current = None
BY NowIsState, NoFileIsFiles DEF TypeOK, Constructed, Load, State

LEMMA NowIsTidy ==
  ASSUME Invariant
  PROVE  ActiveListed(Now) /\ CurrentListed(Now) /\ ActiveStored(Now) /\ (InSync <=> Synced(Now))
<1>1. TypeOK
  BY DEF Invariant
<1> QED
  BY <1>1, NowIsState DEF Invariant, TypeOK, Stored, ActiveListed, CurrentListed, ActiveStored,
     InSync, Synced

---------------------------------------------------------------------------
(* What a handler may do with the files                                    *)

\* The handler ends in a tidy state, has removed what it says, from the list and
\* the files, and leaves what was saved and not deleted.
Outcome(s, removing, deleted) ==
  /\ s \in State
  /\ ActiveListed(s)
  /\ ActiveStored(s)
  /\ CurrentListed(s)
  /\ ~s.environment.first_run
  /\ OnDisk(s) \cap (removed \cup removing) = {}
  /\ DOMAIN s.available \cap removing = {}
  /\ \A name \in DOMAIN saved \ deleted : name \in DOMAIN s.files /\ s.files[name] = saved[name]

\* What every step does: the invariant, and the override in step.
Moves == Invariant' /\ (process' = "running" /\ InSync => InSync')

\* The history of a handler.
LEMMA Deletes ==
  ASSUME Invariant, NEW s, NEW t, NEW removing \in SUBSET Name, NEW deleted,
         Outcome(s, removing, deleted), t.available = s.available,
         Deleting(t, removing, deleted)
  PROVE  /\ removed' \subseteq Name
         /\ removed' \cap OnDisk(s) = {}
         /\ Running => removed' \cap DOMAIN s.available = {}
         /\ saved' \in Files
         /\ DOMAIN saved' \subseteq DOMAIN saved
         /\ \A name \in DOMAIN saved' : name \in DOMAIN s.files /\ s.files[name] = saved'[name]
         /\ chosen' = chosen
<1>1. removed \subseteq Name /\ saved \in Files
  BY DEF Invariant, TypeOK
<1>2. removed' = (removed \cup removing) \ (DOMAIN s.available \ DOMAIN available)
  BY DEF Deleting, Added
<1>3. Running => removed \cap DOMAIN available = {}
  BY DEF Invariant, Gone
<1>4. saved' = Restrict(saved, DOMAIN saved \ deleted) /\ chosen' = chosen
  BY DEF Deleting
<1>5. /\ saved' \in Files
      /\ DOMAIN saved' = DOMAIN saved \ deleted
      /\ \A name \in DOMAIN saved \ deleted : saved'[name] = saved[name]
  <2>1. DOMAIN saved \ deleted \subseteq DOMAIN saved
    OBVIOUS
  <2> QED
    BY <1>1, <1>4, <2>1, Restricted
<1>6. removed' \subseteq Name /\ removed' \cap OnDisk(s) = {}
  BY <1>1, <1>2 DEF Outcome
<1>7. Running => removed' \cap DOMAIN s.available = {}
  BY <1>2, <1>3 DEF Outcome
<1>8. \A name \in DOMAIN saved' : name \in DOMAIN s.files /\ s.files[name] = saved'[name]
  BY <1>5 DEF Outcome
<1> QED
  BY <1>4, <1>5, <1>6, <1>7, <1>8

LEMMA Continues ==
  ASSUME Invariant, Running, NEW s, NEW t, NEW removing \in SUBSET Name, NEW deleted,
         Outcome(s, removing, deleted), t.available = s.available,
         Continue(s), Deleting(t, removing, deleted)
  PROVE  Invariant' /\ (Synced(s) => InSync')
<1>1. /\ removed' \subseteq Name
      /\ removed' \cap OnDisk(s) = {}
      /\ removed' \cap DOMAIN s.available = {}
      /\ saved' \in Files
      /\ DOMAIN saved' \subseteq DOMAIN saved
      /\ \A name \in DOMAIN saved' : name \in DOMAIN s.files /\ s.files[name] = saved'[name]
      /\ chosen' = chosen
  BY Deletes
<1>2. /\ available' = s.available /\ active' = s.active /\ environment' = s.environment
      /\ current' = s.current /\ last' = s.last /\ files' = s.files /\ old' = s.old
      /\ override' = s.override /\ process' = process /\ settings' = settings
      /\ crashed' = crashed
  BY DEF Continue, Remember, Write
<1>3. s \in State /\ ActiveListed(s) /\ ActiveStored(s) /\ CurrentListed(s) /\ ~s.environment.first_run
  BY DEF Outcome
<1>4. TypeOK'
  BY <1>1, <1>2, <1>3 DEF Invariant, TypeOK, State, ActiveListed, CurrentListed
<1>5. Stored' /\ Gone' /\ Kept'
  BY <1>1, <1>2, <1>3 DEF Stored, Gone, Kept, ActiveStored, OnDisk
<1>6. NoLongerFirst' /\ Chosen'
  BY <1>1, <1>2, <1>3 DEF Invariant, NoLongerFirst, Chosen, Running
<1>7. Synced(s) => InSync'
  BY <1>2 DEF Synced, InSync
<1> QED
  BY <1>4, <1>5, <1>6, <1>7 DEF Invariant

LEMMA Aborts ==
  ASSUME Invariant, NEW s \in State, Abort(s),
         removed' \subseteq Name, removed' \cap OnDisk(s) = {},
         saved' \in Files, DOMAIN saved' \subseteq DOMAIN saved,
         \A name \in DOMAIN saved' : name \in DOMAIN s.files /\ s.files[name] = saved'[name],
         chosen' = chosen
  PROVE  Moves
<1>1. /\ available' = NoFile /\ active' = None /\ environment' = Default
      /\ current' = None /\ last' = None /\ process' = "aborted" /\ settings' = settings
      /\ crashed' = TRUE
  BY DEF Abort, Forget
<1>2. files' = s.files /\ old' = s.old /\ override' = Absent
  BY DEF Abort, Write, SurrenderConfiguration, State
<1>3. Default \in Settings
  BY DefaultIsSettings
<1>4. TypeOK'
  BY <1>1, <1>2, <1>3, NoFileIsFiles DEF Invariant, TypeOK, State
<1>5. Stored' /\ Gone' /\ Kept'
  BY <1>1, <1>2 DEF Stored, Gone, Kept, OnDisk, Running
<1>6. NoLongerFirst' /\ Chosen'
  BY <1>1, <1>2 DEF Invariant, NoLongerFirst, Chosen, Running
<1> QED
  BY <1>1, <1>4, <1>5, <1>6 DEF Invariant, Moves

\* A handler that shows the settings, or aborts.
LEMMA Creates ==
  ASSUME Invariant, Running, NEW s, NEW t, NEW removing \in SUBSET Name, NEW deleted,
         Outcome(s, removing, deleted), t.available = s.available,
         CreateGUI(s), Deleting(t, removing, deleted)
  PROVE  Invariant' /\ ((InSync => Synced(s)) => Moves)
<1>1. CASE Continue(s)
  <2>1. Invariant' /\ (Synced(s) => InSync')
    BY <1>1, Continues
  <2> QED
    BY <2>1 DEF Moves
<1>2. CASE Abort(s)
  <2>1. /\ removed' \subseteq Name /\ removed' \cap OnDisk(s) = {}
        /\ saved' \in Files /\ DOMAIN saved' \subseteq DOMAIN saved
        /\ \A name \in DOMAIN saved' : name \in DOMAIN s.files /\ s.files[name] = saved'[name]
        /\ chosen' = chosen
    BY Deletes
  <2>2. s \in State
    BY DEF Outcome
  <2>3. Moves
    BY <1>2, <2>1, <2>2, Aborts
  <2> QED
    BY <2>3 DEF Moves
<1> QED
  BY <1>1, <1>2 DEF CreateGUI
---------------------------------------------------------------------------
(* Handlers that leave the files alone                                     *)

\* A state on the way through such a handler, and one in which it may end.
Keeping(s) == s \in State /\ SameFiles(Now, s)
Good(s) == Keeping(s) /\ ActiveListed(s) /\ ActiveStored(s) /\ CurrentListed(s)

LEMMA NowIsGood ==
  ASSUME Invariant
  PROVE  Good(Now) /\ (InSync <=> Synced(Now))
<1>1. TypeOK
  BY DEF Invariant
<1>2. SameFiles(Now, Now)
  BY DEF SameFiles
<1> QED
  BY <1>1, <1>2, NowIsState, NowIsTidy DEF Good, Keeping

LEMMA GoodOutcome ==
  ASSUME Invariant, Running, NEW s, Good(s)
  PROVE  Outcome(s, {}, {})
<1>1. TypeOK /\ Gone /\ Kept /\ ~environment.first_run
  BY DEF Invariant, NoLongerFirst
<1>2. s.files = files /\ s.old = old /\ ~s.environment.first_run
  BY <1>1, NowIsState DEF Good, Keeping, SameFiles
<1> QED
  BY <1>1, <1>2 DEF Good, Keeping, Outcome, Gone, Kept, OnDisk

LEMMA Handles ==
  ASSUME Invariant, NEW s, Good(s), InSync => Synced(s), Handle(s)
  PROVE  Moves
<1>1. Running /\ Continue(s) /\ Deleting(s, {}, {})
  BY DEF Handle
<1>2. Outcome(s, {}, {})
  BY <1>1, GoodOutcome
<1>3. {} \in SUBSET Name
  OBVIOUS
<1>4. Invariant' /\ (Synced(s) => InSync')
  BY <1>1, <1>2, <1>3, Continues
<1> QED
  BY <1>4 DEF Moves

LEMMA HandlesAndCreates ==
  ASSUME Invariant, NEW s, Good(s), HandleAndCreateGUI(s)
  PROVE  Invariant' /\ ((InSync => Synced(s)) => Moves)
<1>1. Running /\ CreateGUI(s) /\ Deleting(s, {}, {})
  BY DEF HandleAndCreateGUI
<1>2. Outcome(s, {}, {})
  BY <1>1, GoodOutcome
<1>3. {} \in SUBSET Name
  OBVIOUS
<1> QED
  BY <1>1, <1>2, <1>3, Creates

LEMMA KeepsOn ==
  ASSUME NEW s, NEW t \in State, Keeping(s), SameLists(s, t)
  PROVE  Keeping(t)
BY SameSettings DEF Keeping, SameFiles, SameLists

\* The calls that follow the tree.
LEMMA GoodTree ==
  ASSUME NEW s, Good(s)
  PROVE  /\ Good(UpdateUI(s)) /\ (Synced(s) => Synced(UpdateUI(s)))
         /\ Good(SaveLastItem(s)) /\ (Synced(s) => Synced(SaveLastItem(s)))
         /\ SaveLastItem(s).available = s.available
         /\ SaveLastItem(s).active = s.active
         /\ SaveLastItem(s).environment = s.environment
         /\ Good(RestoreLastItem(s)) /\ (Synced(s) => Synced(RestoreLastItem(s)))
<1>1. s \in State /\ ActiveListed(s) /\ ActiveStored(s) /\ CurrentListed(s)
  BY DEF Good, Keeping
<1> DEFINE t == UpdateUI(s)
           u == SaveLastItem(s)
           v == RestoreLastItem(s)
<1>2. t \in State /\ SameButTree(s, t) /\ CurrentListed(t)
  BY <1>1, Updates
<1>3. u \in State /\ SameButTree(s, u) /\ u.current = s.current
  BY <1>1, SavesLast
<1>4. Follows(s, v)
  BY <1>1, RestoresLast
<1> HIDE DEF t, u, v
<1>5. Good(t) /\ (Synced(s) => Synced(t))
  BY <1>1, <1>2, TreeOnly, KeepsOn DEF Good
<1>6. CurrentListed(u) /\ u.available = s.available /\ u.active = s.active
      /\ u.environment = s.environment
  BY <1>1, <1>3 DEF CurrentListed, SameButTree, SameLists
<1>7. Good(u) /\ (Synced(s) => Synced(u))
  BY <1>1, <1>3, <1>6, TreeOnly, KeepsOn DEF Good
<1>8. Good(v) /\ (Synced(s) => Synced(v))
  BY <1>1, <1>4, KeepsOn DEF Good, Follows
<1> QED
  BY <1>5, <1>6, <1>7, <1>8 DEF t, u, v

LEMMA GoodItem ==
  ASSUME NEW s, Good(s), NEW name \in DOMAIN s.available
  PROVE  /\ Good(SetCurrentItem(s, name)) /\ (Synced(s) => Synced(SetCurrentItem(s, name)))
         /\ SetCurrentItem(s, name).available = s.available
<1>1. s \in State /\ ActiveListed(s) /\ ActiveStored(s) /\ CurrentListed(s)
  BY DEF Good, Keeping
<1> DEFINE t == SetCurrentItem(s, name)
<1>2. Follows(s, t)
  BY <1>1, ItemChanges
<1> HIDE DEF t
<1>3. Good(t) /\ (Synced(s) => Synced(t)) /\ t.available = s.available
  BY <1>1, <1>2, KeepsOn DEF Good, Follows, SameLists
<1> QED
  BY <1>3 DEF t

\* A new list of the tree, after calls that may leave the current item stale.
LEMMA GoodList ==
  ASSUME NEW s, Keeping(s), ActiveListed(s), ActiveStored(s)
  PROVE  /\ Good(LoadConfigurationList(s))
         /\ Synced(s) => Synced(LoadConfigurationList(s))
         /\ LoadConfigurationList(s).active = s.active
<1> DEFINE t == LoadConfigurationList(s)
<1>1. t \in State /\ SameButTree(s, t) /\ CurrentListed(t)
  BY Lists DEF Keeping
<1> HIDE DEF t
<1>2. Good(t) /\ (Synced(s) => Synced(t)) /\ t.active = s.active
  BY <1>1, TreeOnly, KeepsOn DEF Good, Keeping, SameButTree
<1> QED
  BY <1>2 DEF t

\* Activating and refreshing settle any state on the way.
LEMMA GoodActivate ==
  ASSUME NEW s, Keeping(s), NEW name \in DOMAIN s.available \cup {None}
  PROVE  /\ Keeping(SetActiveConfiguration(s, name))
         /\ Settled(SetActiveConfiguration(s, name))
         /\ CurrentListed(s) => Good(SetActiveConfiguration(s, name))
<1> DEFINE t == SetActiveConfiguration(s, name)
<1>1. t \in State /\ SameLists(s, t) /\ Settled(t) /\ t.current = s.current
  BY Activates DEF Keeping
<1> HIDE DEF t
<1>2. Keeping(t)
  BY <1>1, KeepsOn
<1> QED
  BY <1>1, <1>2 DEF t, Good, Settled, CurrentListed, SameLists

LEMMA GoodRefresh ==
  ASSUME NEW s, Keeping(s)
  PROVE  /\ Keeping(RefreshConfiguration(s))
         /\ Settled(RefreshConfiguration(s))
         /\ CurrentListed(s) => Good(RefreshConfiguration(s))
<1> DEFINE t == RefreshConfiguration(s)
<1>1. t \in State /\ SameLists(s, t) /\ Settled(t) /\ t.current = s.current
  BY Refreshes DEF Keeping
<1> HIDE DEF t
<1>2. Keeping(t)
  BY <1>1, KeepsOn
<1> QED
  BY <1>1, <1>2 DEF t, Good, Settled, CurrentListed, SameLists

---------------------------------------------------------------------------
(* The handlers, one by one                                                *)

LEMMA SetOverrideModeMoves ==
  ASSUME Invariant, NEW use \in BOOLEAN, SetOverrideMode(use)
  PROVE  Moves
<1> DEFINE mode == [environment EXCEPT !.use = use]
           s == [Now EXCEPT !.environment = mode]
           t == RefreshConfiguration(s)
           u == UpdateUI(t)
<1>1. TypeOK /\ Good(Now)
  BY NowIsGood DEF Invariant
<1>2. environment \in Settings
  BY <1>1 DEF TypeOK
<1>3. mode \in Settings /\ mode.first_run = environment.first_run
  BY <1>2 DEF Settings
<1>4. Handle(u)
  BY DEF SetOverrideMode, Now
<1> HIDE DEF mode
<1>5. Keeping(s) /\ CurrentListed(s)
  BY <1>1, <1>3, NowIsState DEF Good, Keeping, State, SameFiles, CurrentListed
<1> HIDE DEF s
<1>6. Good(t) /\ Synced(t)
  BY <1>5, GoodRefresh DEF Settled
<1> HIDE DEF t
<1>7. Good(u) /\ Synced(u)
  BY <1>6, GoodTree
<1> HIDE DEF u
<1> QED
  BY <1>4, <1>7, Handles

LEMMA PersistentMoves ==
  ASSUME Invariant, on_check_box_persistent_clicked
  PROVE  Moves
<1> DEFINE kept == [environment EXCEPT !.persistent = ~environment.persistent]
           s == [Now EXCEPT !.environment = kept]
<1>1. TypeOK /\ Good(Now) /\ (InSync <=> Synced(Now))
  BY NowIsGood DEF Invariant
<1>2. environment \in Settings
  BY <1>1 DEF TypeOK
<1>3. kept \in Settings /\ kept.first_run = environment.first_run /\ kept.active = environment.active
  BY <1>2 DEF Settings
<1>4. Handle(s)
  BY DEF on_check_box_persistent_clicked, Now
<1> HIDE DEF kept
<1>5. Good(s) /\ (Synced(s) <=> Synced(Now))
  BY <1>1, <1>3, NowIsState DEF Good, Keeping, State, SameFiles, CurrentListed, ActiveListed,
     ActiveStored, Synced
<1> HIDE DEF s
<1> QED
  BY <1>1, <1>4, <1>5, Handles

LEMMA ItemClickedMoves ==
  ASSUME Invariant, NEW name \in DOMAIN available,
         OnConfigurationItemClicked(name) \/ OnConfigurationTreeClicked(name)
  PROVE  Moves
<1> DEFINE s == SetCurrentItem(Now, name)
           t == SetActiveConfiguration(s, name)
           u == SaveLastItem(t)
<1>1. TypeOK /\ Good(Now)
  BY NowIsGood DEF Invariant
<1>2. Handle(UpdateUI(t)) \/ Handle(UpdateUI(u))
  BY DEF OnConfigurationItemClicked, OnConfigurationTreeClicked
<1>3. Good(s) /\ s.available = available
  BY <1>1, NowIsState, GoodItem
<1> HIDE DEF s
<1>4. Good(t) /\ Synced(t)
  BY <1>3, GoodActivate DEF Good, Settled
<1> HIDE DEF t
<1>5. Good(u) /\ Synced(u)
  BY <1>4, GoodTree
<1> HIDE DEF u
<1>6. /\ Good(UpdateUI(t)) /\ Synced(UpdateUI(t))
      /\ Good(UpdateUI(u)) /\ Synced(UpdateUI(u))
  BY <1>4, <1>5, GoodTree
<1> QED
  BY <1>2, <1>6, Handles

LEMMA HighlightMoves ==
  ASSUME Invariant, NEW name \in DOMAIN available, Highlight(name)
  PROVE  Moves
<1>1. TypeOK /\ Good(Now) /\ (InSync <=> Synced(Now))
  BY NowIsGood DEF Invariant
<1>2. Good(SetCurrentItem(Now, name)) /\ (Synced(Now) => Synced(SetCurrentItem(Now, name)))
  BY <1>1, NowIsState, GoodItem
<1> QED
  BY <1>1, <1>2, Handles DEF Highlight

LEMMA ShowEventMoves ==
  ASSUME Invariant, showEvent
  PROVE  Moves
<1> DEFINE s == SaveLastItem(Now)
<1>1. Good(Now) /\ (InSync <=> Synced(Now))
  BY NowIsGood
<1>2. Good(s) /\ (Synced(Now) => Synced(s))
  BY <1>1, GoodTree
<1> HIDE DEF s
<1>3. Good(UpdateUI(s)) /\ (Synced(s) => Synced(UpdateUI(s)))
  BY <1>2, GoodTree
<1>4. Handle(UpdateUI(s))
  BY DEF showEvent, s
<1> QED
  BY <1>1, <1>2, <1>3, <1>4, Handles

LEMMA RefreshClickedMoves ==
  ASSUME Invariant, RefreshClicked
  PROVE  Moves
<1>1. Good(Now)
  BY NowIsGood
<1>2. PICK s \in {Now, SaveLastItem(Now)} : Handle(UpdateUI(RefreshConfiguration(s)))
  BY DEF RefreshClicked
<1>3. Good(s)
  BY <1>1, <1>2, GoodTree
<1> DEFINE t == RefreshConfiguration(s)
<1>4. Good(t) /\ Synced(t)
  BY <1>3, GoodRefresh DEF Good, Settled
<1> HIDE DEF t
<1>5. Good(UpdateUI(t)) /\ Synced(UpdateUI(t))
  BY <1>4, GoodTree
<1>6. Handle(UpdateUI(t))
  BY <1>2 DEF t
<1> QED
  BY <1>5, <1>6, Handles

LEMMA OnSettingChangedMoves ==
  ASSUME Invariant, NEW content \in Content, OnSettingChanged(content)
  PROVE  Moves
<1> DEFINE listed == [available EXCEPT ![active] = content]
           s == [Now EXCEPT !.available = listed]
           t == RefreshConfiguration(s)
<1>1. TypeOK /\ Good(Now)
  BY NowIsGood DEF Invariant
<1>2. available \in Files /\ active \in DOMAIN available \cup {None}
  BY <1>1 DEF TypeOK
<1>3. active # None
  BY <1>1, NowIsState DEF OnSettingChanged, HasActiveConfiguration
<1>4. listed \in Files /\ DOMAIN listed = DOMAIN available
  <2>1. active \in DOMAIN available
    BY <1>2, <1>3
  <2> QED
    BY <1>2, <2>1, Updated
<1>5. Handle(t)
  BY DEF OnSettingChanged, Now
<1> HIDE DEF listed
<1>6. Keeping(s) /\ CurrentListed(s)
  BY <1>1, <1>4, NowIsState DEF Good, Keeping, State, SameFiles, CurrentListed
<1> HIDE DEF s
<1>7. Good(t) /\ Synced(t)
  BY <1>6, GoodRefresh DEF Settled
<1> HIDE DEF t
<1> QED
  BY <1>5, <1>7, Handles

LEMMA ReloadDefaultClickedMoves ==
  ASSUME Invariant, ReloadDefaultClicked
  PROVE  Moves
<1> DEFINE s == ReloadDefaultsConfigurations(Now)
           t == LoadConfigurationList(s)
<1>1. TypeOK /\ Good(Now)
  BY NowIsGood DEF Invariant
<1>2. s \in State /\ Settled(s) /\ SameFiles(Now, s)
  BY <1>1, ReloadsDefaults DEF Good, Keeping
<1> HIDE DEF s
<1>3. Good(t) /\ Synced(t)
  BY <1>2, GoodList DEF Keeping, Settled
<1> HIDE DEF t
<1>4. HandleAndCreateGUI(t)
  BY DEF ReloadDefaultClicked, s, t
<1> QED
  BY <1>3, <1>4, HandlesAndCreates

LEMMA AddCustomPathsMoves ==
  ASSUME Invariant, addCustomPaths
  PROVE  Moves
<1> DEFINE s == LoadConfigurationList(Now)
           t == RestoreLastItem(s)
<1>1. Good(Now) /\ (InSync <=> Synced(Now))
  BY NowIsGood
<1>2. Good(s) /\ (Synced(Now) => Synced(s))
  BY <1>1, GoodList DEF Good
<1> HIDE DEF s
<1>3. Good(t) /\ (Synced(s) => Synced(t))
  BY <1>2, GoodTree
<1> HIDE DEF t
<1>4. Handle(t)
  BY DEF addCustomPaths, s, t
<1> QED
  BY <1>1, <1>2, <1>3, <1>4, Handles

LEMMA ImportFailsMoves ==
  ASSUME Invariant, ImportFails
  PROVE  Moves
<1> DEFINE s == LoadConfigurationList(Now)
<1>1. Good(Now) /\ (InSync <=> Synced(Now))
  BY NowIsGood
<1>2. Good(s) /\ (Synced(Now) => Synced(s))
  BY <1>1, GoodList DEF Good
<1> HIDE DEF s
<1>3. HandleAndCreateGUI(s)
  BY DEF ImportFails, s
<1> QED
  BY <1>1, <1>2, <1>3, HandlesAndCreates

\* A configuration is created, duplicated or imported.
LEMMA AddedMoves ==
  ASSUME Invariant, NEW name \in Name, NEW content \in Content,
         \/ NewClicked(name, content)
         \/ ImportClicked(name, content)
         \/ DuplicateClicked(name) /\ content = available[current]
  PROVE  Moves
<1> DEFINE s == AddConfiguration(Now, name, content)
           u == [s EXCEPT !.last = name]
<1>1. TypeOK /\ Good(Now)
  BY NowIsGood DEF Invariant
<1>2. Keeping(s) /\ Settled(s)
  BY <1>1, Adds DEF Good, Keeping
<1> HIDE DEF s
<1>3. Keeping(u) /\ Settled(u)
  BY <1>2 DEF Keeping, State, SameFiles, Settled, ActiveListed, ActiveStored, Synced
<1>4. \/ HandleAndCreateGUI(LoadConfigurationList(s))
      \/ HandleAndCreateGUI(LoadConfigurationList(u))
  BY DEF NewClicked, ImportClicked, DuplicateClicked, s
<1> HIDE DEF u
<1>5. /\ Good(LoadConfigurationList(s)) /\ Synced(LoadConfigurationList(s))
      /\ Good(LoadConfigurationList(u)) /\ Synced(LoadConfigurationList(u))
  BY <1>2, <1>3, GoodList DEF Settled
<1> QED
  BY <1>4, <1>5, HandlesAndCreates

LEMMA ResetClickedMoves ==
  ASSUME Invariant, ResetClicked
  PROVE  Invariant'
<1> DEFINE listed == [available EXCEPT ![current] = ResetContent(Now, current)]
           s == [Now EXCEPT !.available = listed]
           t == LoadConfigurationList(s)
<1>1. TypeOK /\ Good(Now)
  BY NowIsGood DEF Invariant
<1>2. available \in Files /\ current \in DOMAIN available \cup {None}
  BY <1>1 DEF TypeOK
<1>3. current \in DOMAIN available
  BY <1>2 DEF ResetClicked, ItemMenuEnabled
<1>4. listed \in Files /\ DOMAIN listed = DOMAIN available
  <2>1. ResetContent(Now, current) \in Content
    BY <1>1, Resets DEF Good, Keeping
  <2> QED
    BY <1>2, <1>3, <2>1, Updated
<1>5. HandleAndCreateGUI(t)
  BY DEF ResetClicked, Now
<1> HIDE DEF listed
<1>6. Keeping(s) /\ ActiveListed(s) /\ ActiveStored(s)
  BY <1>1, <1>4, NowIsState DEF Good, Keeping, State, SameFiles, ActiveListed, ActiveStored
<1> HIDE DEF s
<1>7. Good(t)
  BY <1>6, GoodList
<1> HIDE DEF t
<1> QED
  BY <1>5, <1>7, HandlesAndCreates

\* The layers dialog, however it was opened.
LEMMA EditedMoves ==
  ASSUME Invariant, NEW name \in Name, NEW content \in Content, NEW from, from # None,
         Running, NEW t, NEW deleted,
         LET accepted == Accept(SaveLastItem(Now), from, name, content)
         IN \/ t = LoadConfigurationList(RefreshConfiguration(accepted))
            \/ t = RestoreLastItem(LoadConfigurationList(
                     SetActiveConfiguration(accepted, name))),
         CreateGUI(t), Deleting(t, {}, deleted)
  PROVE  Moves
<1> DEFINE last1 == SaveLastItem(Now)
           accepted == Accept(last1, from, name, content)
           r == RefreshConfiguration(accepted)
           a == SetActiveConfiguration(accepted, name)
           l == LoadConfigurationList(a)
<1>1. Good(Now)
  BY NowIsGood
<1>2. Good(last1)
  BY <1>1, GoodTree
<1>3. t = LoadConfigurationList(r) \/ t = RestoreLastItem(l)
  OBVIOUS
<1> HIDE DEF last1
<1>4. Keeping(accepted) /\ name \in DOMAIN accepted.available
  BY <1>2, Accepts DEF Good, Keeping, SameFiles
<1> HIDE DEF accepted
<1>5. Keeping(r) /\ Settled(r) /\ Keeping(a) /\ Settled(a)
  BY <1>4, GoodRefresh, GoodActivate
<1> HIDE DEF r, a
<1>6. Good(LoadConfigurationList(r)) /\ Synced(LoadConfigurationList(r)) /\ Good(l) /\ Synced(l)
  BY <1>5, GoodList DEF Settled
<1> HIDE DEF l
<1>7. Good(t) /\ Synced(t)
  BY <1>3, <1>6, GoodTree
<1>8. Outcome(t, {}, deleted)
  BY <1>7, GoodOutcome DEF Outcome
<1>9. {} \in SUBSET Name
  OBVIOUS
<1> QED
  BY <1>7, <1>8, <1>9, Creates

LEMMA EditClickedMoves ==
  ASSUME Invariant, NEW name \in Name, NEW content \in Content, EditClicked(name, content)
  PROVE  Moves
<1> DEFINE accepted == Accept(SaveLastItem(Now), current, name, content)
           t == LoadConfigurationList(RefreshConfiguration(accepted))
<1>1. Running /\ current # None /\ CreateGUI(t) /\ Deleting(t, {}, {current} \ {name})
  BY DEF EditClicked, ItemMenuEnabled
<1>2. LET edited == Accept(SaveLastItem(Now), current, name, content)
      IN \/ t = LoadConfigurationList(RefreshConfiguration(edited))
         \/ t = RestoreLastItem(LoadConfigurationList(SetActiveConfiguration(edited, name)))
  OBVIOUS
<1> HIDE DEF t, accepted
<1> QED
  BY <1>1, <1>2, EditedMoves

LEMMA SelectMoves ==
  ASSUME Invariant, NEW name \in Name \cup {None}, NEW content \in Content,
         on_push_button_select_configuration_clicked(name, content)
  PROVE  Moves
<1> DEFINE accepted == Accept(SaveLastItem(Now), active, name, content)
           t == RestoreLastItem(LoadConfigurationList(SetActiveConfiguration(accepted, name)))
           s == SaveLastItem(Now)
<1>1. TypeOK /\ Good(Now)
  BY NowIsGood DEF Invariant
<1>2. Running /\ name \in Free \cup {active}
  BY DEF on_push_button_select_configuration_clicked
<1>3. CASE active = None
  <2>1. Abort(s) /\ UNCHANGED history
    BY <1>3 DEF on_push_button_select_configuration_clicked
  <2>2. Good(s)
    BY <1>1, GoodTree
  <2> HIDE DEF s
  <2>3. Outcome(s, {}, {})
    BY <1>2, <2>2, GoodOutcome
  <2>4. removed' = removed /\ saved' = saved /\ chosen' = chosen
    BY <2>1 DEF history
  <2>5. /\ s \in State /\ removed' \subseteq Name /\ removed' \cap OnDisk(s) = {}
        /\ saved' \in Files /\ DOMAIN saved' \subseteq DOMAIN saved
        /\ \A other \in DOMAIN saved' : other \in DOMAIN s.files /\ s.files[other] = saved'[other]
    BY <1>1, <2>3, <2>4 DEF Outcome, TypeOK
  <2> QED
    BY <2>1, <2>4, <2>5, Aborts
<1>4. CASE active # None
  <2>1. CreateGUI(t) /\ Deleting(t, {}, {active} \ {name})
    BY <1>4 DEF on_push_button_select_configuration_clicked
  <2>2. name \in Name
    <3>1. available \in Files /\ active \in DOMAIN available \cup {None}
      BY <1>1 DEF TypeOK
    <3> QED
      BY <1>2, <1>4, <3>1, FilesAre DEF Free
  <2>3. LET edited == Accept(SaveLastItem(Now), active, name, content)
        IN \/ t = LoadConfigurationList(RefreshConfiguration(edited))
           \/ t = RestoreLastItem(LoadConfigurationList(SetActiveConfiguration(edited, name)))
    OBVIOUS
  <2> HIDE DEF t, accepted
  <2> QED
    BY <1>2, <1>4, <2>1, <2>2, <2>3, EditedMoves
<1> QED
  BY <1>3, <1>4

\* Renaming in place deletes the file of the old name.
LEMMA RenameMoves ==
  ASSUME Invariant, NEW name \in Name, OnConfigurationItemChanged(name)
  PROVE  Moves
<1>1. TypeOK /\ Gone /\ Kept /\ Good(Now)
  BY NowIsGood DEF Invariant
<1>2. Running /\ current # None
  BY DEF OnConfigurationItemChanged, ItemMenuEnabled
<1>3. available \in Files /\ current \in DOMAIN available
  BY <1>1, <1>2 DEF TypeOK
<1>4. available[current] \in Content /\ ~environment.first_run
  BY <1>2, <1>3, FilesAre DEF Invariant, NoLongerFirst
<1>5. {} \in SUBSET Name
  OBVIOUS
<1>6. PICK opened \in {Now, SaveLastItem(Now)} :
        IF name \in Free
        THEN LET renaming == [Accept(opened, current, name, available[current]) EXCEPT
                                !.files = Restrict(@, DOMAIN @ \ {current})]
                 s == LoadConfigurationList(SetActiveConfiguration(renaming, name))
             IN CreateGUI(s) /\ Deleting(s, {}, {current})
        ELSE LET s == UpdateUI(SetActiveConfiguration(opened, current))
             IN CreateGUI(s) /\ Deleting(s, {}, {})
  BY DEF OnConfigurationItemChanged
<1>7. /\ Good(opened) /\ opened.available = available
      /\ opened.environment = environment /\ opened.files = files /\ opened.old = old
  BY <1>1, <1>6, GoodTree, NowIsState, SavesLast DEF SameButTree, SameLists
<1>8. CASE name \in Free
  <2> DEFINE accepted == Accept(opened, current, name, available[current])
             files1 == Restrict(files, DOMAIN files \ {current})
             renaming == [accepted EXCEPT !.files = files1]
             a == SetActiveConfiguration(renaming, name)
             t == LoadConfigurationList(a)
  <2>1. /\ accepted \in State /\ accepted.files = files /\ accepted.old = old
        /\ accepted.environment = environment /\ name \in DOMAIN accepted.available
    BY <1>3, <1>4, <1>7, Accepts DEF Good, Keeping, SameFiles
  <2>2. CreateGUI(t) /\ Deleting(t, {}, {current})
    BY <1>8, <1>6, <1>7, <2>1
  <2> HIDE DEF accepted
  <2>3. /\ files1 \in Files /\ DOMAIN files1 = DOMAIN files \ {current}
        /\ \A other \in DOMAIN files \ {current} : files1[other] = files[other]
    <3>1. DOMAIN files \ {current} \subseteq DOMAIN files
      OBVIOUS
    <3> QED
      BY <1>1, <3>1, Restricted DEF TypeOK
  <2> HIDE DEF files1
  <2>4. /\ renaming \in State /\ renaming.files = files1 /\ renaming.old = old
        /\ renaming.environment = environment /\ name \in DOMAIN renaming.available
    BY <2>1, <2>3 DEF State
  <2> HIDE DEF renaming
  <2>5. a \in State /\ SameLists(renaming, a) /\ Settled(a)
    BY <2>4, Activates
  <2>6. a.files = files1 /\ a.old = old /\ ~a.environment.first_run
    BY <1>4, <2>4, <2>5, SameSettings DEF SameLists
  <2> HIDE DEF a
  <2>7. t \in State /\ SameButTree(a, t) /\ CurrentListed(t)
    BY <2>5, Lists
  <2> HIDE DEF t
  <2>8. Settled(t) /\ t.files = files1 /\ t.old = old /\ ~t.environment.first_run
    BY <2>5, <2>6, <2>7, TreeOnly DEF SameButTree, SameLists
  <2>9. Outcome(t, {}, {current})
    BY <1>1, <2>3, <2>7, <2>8 DEF Outcome, Settled, Gone, Kept, OnDisk
  <2> QED
    BY <1>2, <1>5, <2>2, <2>8, <2>9, Creates DEF Settled
<1>9. CASE name \notin Free
  <2> DEFINE s == SetActiveConfiguration(opened, current)
             t == UpdateUI(s)
  <2>1. CreateGUI(t) /\ Deleting(t, {}, {})
    BY <1>9, <1>6
  <2>2. Good(s) /\ Synced(s)
    BY <1>3, <1>7, GoodActivate DEF Good, Settled
  <2> HIDE DEF s
  <2>3. Good(t) /\ Synced(t)
    BY <2>2, GoodTree
  <2>4. s.available = t.available
    BY <2>2, Updates DEF Good, Keeping, SameButTree, SameLists
  <2> HIDE DEF t
  <2>5. Outcome(t, {}, {})
    BY <1>2, <2>3, GoodOutcome
  <2> QED
    BY <1>2, <1>5, <2>1, <2>3, <2>4, <2>5, Creates
<1> QED
  BY <1>8, <1>9

LEMMA RemoveClickedMoves ==
  ASSUME Invariant, RemoveClicked
  PROVE  Moves
<1> DEFINE u == SaveLastItem(Now)
           r == RemoveConfiguration(u, current)
           l == LoadConfigurationList(r)
           t == RestoreLastItem(l)
<1>1. TypeOK /\ Gone /\ Kept /\ Good(Now)
  BY NowIsGood DEF Invariant
<1>2. Running /\ current # None /\ Continue(t) /\ Deleting(t, {current}, {current})
  BY DEF RemoveClicked, ItemMenuEnabled
<1>3. {current} \in SUBSET Name /\ ~environment.first_run
  BY <1>1, <1>2, FilesAre DEF TypeOK, Invariant, NoLongerFirst
<1>4. u \in State /\ SameButTree(Now, u)
  BY <1>1, SavesLast DEF Good, Keeping
<1>5. u.files = files /\ u.old = old /\ ~u.environment.first_run
  BY <1>1, <1>3, <1>4, NowIsState DEF SameButTree, SameLists
<1> HIDE DEF u
<1>6. /\ r \in State /\ Settled(r) /\ ~r.environment.first_run
      /\ current \notin DOMAIN r.available
      /\ OnDisk(r) = (DOMAIN files \cup DOMAIN old) \ {current}
      /\ DOMAIN r.files = DOMAIN files \ {current}
      /\ \A other \in DOMAIN files \ {current} : r.files[other] = files[other]
  BY <1>4, <1>5, Removes DEF OnDisk
<1> HIDE DEF r
<1>7. l \in State /\ SameButTree(r, l) /\ CurrentListed(l)
  BY <1>6, Lists
<1>8. SameLists(r, l) /\ Settled(l)
  BY <1>6, <1>7, TreeOnly
<1> HIDE DEF l
<1>9. Follows(l, t)
  BY <1>7, RestoresLast
<1> HIDE DEF t
<1>10. t \in State /\ SameLists(l, t) /\ Settled(t) /\ CurrentListed(t)
  BY <1>7, <1>8, <1>9 DEF Follows, Settled
<1>11. SameLists(r, t)
  BY <1>6, <1>7, <1>8, <1>10, SameTransitive
<1>12. /\ t.files = r.files /\ t.available = r.available /\ OnDisk(t) = OnDisk(r)
       /\ ~t.environment.first_run
  BY <1>6, <1>10, <1>11, SameSettings DEF SameLists, OnDisk
<1>13. Outcome(t, {current}, {current})
  BY <1>1, <1>6, <1>10, <1>12 DEF Outcome, Settled, Gone, Kept
<1>14. Invariant' /\ (Synced(t) => InSync')
  BY <1>2, <1>3, <1>13, Continues
<1> QED
  BY <1>10, <1>14 DEF Moves, Settled

LEMMA ToolsResetMoves ==
  ASSUME Invariant, toolsResetToDefault
  PROVE  Moves
<1> DEFINE d == ResetDefaultsConfigurations(Now)
           r == RefreshConfiguration(d)
           s == LoadConfigurationList(r)
<1>1. TypeOK /\ Good(Now)
  BY NowIsGood DEF Invariant
<1>2. /\ Running /\ Continue(s) /\ removed' = {} /\ saved' = NoFile /\ chosen' = chosen
  BY DEF toolsResetToDefault
<1>3. d \in State /\ ~d.environment.first_run
  BY <1>1, ResetsDefaults DEF Good, Keeping
<1> HIDE DEF d
<1>4. r \in State /\ SameLists(d, r) /\ Settled(r)
  BY <1>3, Refreshes
<1>5. ~r.environment.first_run
  BY <1>3, <1>4, SameSettings
<1> HIDE DEF r
<1>6. s \in State /\ SameButTree(r, s) /\ CurrentListed(s)
  BY <1>4, Lists
<1> HIDE DEF s
<1>7. Settled(s) /\ ~s.environment.first_run
  BY <1>4, <1>5, <1>6, TreeOnly DEF SameButTree
<1>8. /\ available' = s.available /\ active' = s.active /\ environment' = s.environment
      /\ current' = s.current /\ last' = s.last /\ files' = s.files /\ old' = s.old
      /\ override' = s.override /\ process' = process /\ settings' = settings
      /\ crashed' = crashed
  BY <1>2 DEF Continue, Remember, Write
<1>9. TypeOK'
  BY <1>1, <1>2, <1>6, <1>7, <1>8, NoFileIsFiles DEF TypeOK, State, Settled, ActiveListed, CurrentListed
<1>10. Stored' /\ Gone' /\ Kept' /\ NoLongerFirst' /\ Chosen'
  BY <1>2, <1>7, <1>8, NoFileIsFiles DEF Settled, ActiveStored, Stored, Gone, Kept, NoLongerFirst, Chosen
<1>11. InSync'
  BY <1>7, <1>8 DEF Settled, Synced, InSync
<1> QED
  BY <1>9, <1>10, <1>11 DEF Invariant, Moves

\* The exit writes what comes back.
LEMMA CloseMoves ==
  ASSUME Invariant, Close
  PROVE  Moves
<1> DEFINE s == Destructed(Now)
<1>1. TypeOK /\ Stored /\ Gone /\ NoLongerFirst /\ Now \in State /\ Running
  BY NowIsState DEF Invariant, Close
<1>2. /\ available' = NoFile /\ active' = None /\ environment' = Default
      /\ current' = None /\ last' = None /\ process' = "closed" /\ settings' = environment
      /\ crashed' = crashed /\ removed' = removed /\ saved' = available /\ chosen' = active
      /\ files' = s.files /\ old' = s.old /\ override' = s.override
  BY DEF Close, Forget, Write, Save
<1>3. /\ s.files \in Files
      /\ DOMAIN s.files = DOMAIN available \cup DOMAIN files
      /\ \A name \in DOMAIN available : s.files[name] = available[name]
      /\ s.old = old
      /\ s.override \in Content \cup {Absent}
  BY <1>1, NowIsState, Destructs
<1> HIDE DEF s
<1>4. available \in Files /\ DOMAIN available \subseteq Name /\ active \in Name \cup {None}
  <2>1. available \in Files /\ active \in DOMAIN available \cup {None}
    BY <1>1 DEF TypeOK
  <2> QED
    BY <2>1, FilesAre
<1>5. Default \in Settings
  BY DefaultIsSettings
<1>6. TypeOK'
  BY <1>1, <1>2, <1>3, <1>4, <1>5, NoFileIsFiles DEF TypeOK
<1>7. Stored' /\ Gone' /\ Kept' /\ NoLongerFirst'
  BY <1>1, <1>2, <1>3 DEF Stored, Gone, Kept, NoLongerFirst, Running
<1>8. Chosen'
  <2>1. None \notin Name
    BY NameAssumption
  <2>2. chosen' \in DOMAIN saved' => settings'.active = chosen'
    BY <1>1, <1>2, <1>4, <2>1 DEF Stored
  <2> QED
    BY <2>2 DEF Chosen
<1> QED
  BY <1>2, <1>6, <1>7, <1>8 DEF Invariant, Moves

LEMMA KillMoves ==
  ASSUME Invariant, Kill
  PROVE  Moves
<1>1. /\ available' = NoFile /\ active' = None /\ environment' = Default
      /\ current' = None /\ last' = None /\ process' = "killed"
      /\ files' = files /\ old' = old /\ settings' = settings /\ override' = override
      /\ crashed' = crashed /\ removed' = removed /\ saved' = saved /\ chosen' = chosen
  BY DEF Kill, Forget, disk, history
<1>2. Default \in Settings
  BY DefaultIsSettings
<1>3. TypeOK'
  BY <1>1, <1>2, NoFileIsFiles DEF Invariant, TypeOK
<1>4. Stored' /\ Gone' /\ Kept' /\ NoLongerFirst' /\ Chosen'
  BY <1>1 DEF Invariant, Stored, Gone, Kept, NoLongerFirst, Chosen, Running
<1> QED
  BY <1>1, <1>3, <1>4 DEF Invariant, Moves

LEMMA InterruptMoves ==
  ASSUME Invariant, Interrupt
  PROVE  Invariant'
<1>1. /\ available' = available /\ active' = active /\ environment' = environment
      /\ current' = current /\ last' = last /\ process' = process
      /\ files' = files /\ old' = old /\ settings' = settings /\ override' = Absent
      /\ crashed' = TRUE /\ removed' = removed /\ saved' = saved /\ chosen' = chosen
  BY DEF Interrupt, memory, history
<1>2. TypeOK'
  BY <1>1 DEF Invariant, TypeOK
<1> QED
  BY <1>1, <1>2 DEF Invariant, Stored, Gone, Kept, NoLongerFirst, Chosen, Running

LEMMA RunLayersMoves ==
  ASSUME Invariant, NEW written \in Content \cup {Absent}, RunLayers(written)
  PROVE  Moves
<1>1. /\ available' = available /\ active' = active /\ environment' = environment
      /\ current' = current /\ last' = last /\ process' = process
      /\ files' = files /\ old' = old /\ settings' = settings /\ override' = written
      /\ crashed' = crashed /\ removed' = removed /\ saved' = saved /\ chosen' = chosen
      /\ process # "running"
  BY DEF RunLayers, memory, history, Running
<1>2. TypeOK'
  BY <1>1 DEF Invariant, TypeOK
<1> QED
  BY <1>1, <1>2 DEF Invariant, Moves, Stored, Gone, Kept, NoLongerFirst, Chosen, Running

\* The reset of the command line leaves what was saved, unless it is hard.
LEMMA RunResetMoves ==
  ASSUME Invariant, NEW hard \in BOOLEAN, RunReset(hard)
  PROVE  Moves
<1> DEFINE loaded == LoadAllConfigurations(Constructed)
           done == IF hard THEN ResetDefaultsConfigurations(loaded)
                   ELSE ReloadDefaultsConfigurations(loaded)
           s == Destructed(done)
<1>1. TypeOK /\ Stored /\ Gone /\ Kept /\ NoLongerFirst /\ Chosen
  BY DEF Invariant
<1>2. /\ available' = available /\ active' = active /\ environment' = environment
      /\ current' = current /\ last' = last /\ process' = process /\ process # "running"
      /\ crashed' = crashed /\ chosen' = chosen
      /\ files' = s.files /\ old' = s.old /\ override' = s.override
      /\ settings' = done.environment
      /\ saved' = (IF hard THEN NoFile ELSE Restrict(saved, DOMAIN saved \ DOMAIN Builtin))
      /\ removed' = (IF hard THEN {} ELSE removed \ DOMAIN Builtin)
  BY DEF RunReset, Write, memory, Running
<1>3. /\ Constructed \in State /\ Constructed.environment = settings
      /\ Constructed.files = files /\ Constructed.old = old
  BY <1>1, ConstructedIsState
<1>4. /\ loaded \in State
      /\ ~loaded.environment.first_run
      /\ settings.first_run =>
           /\ loaded.files = NoFile /\ loaded.old = NoFile
           /\ DOMAIN loaded.available = DOMAIN Builtin
      /\ ~settings.first_run =>
           /\ loaded.files = files /\ loaded.old = old
           /\ DOMAIN loaded.available = DOMAIN files \cup DOMAIN old
           /\ \A name \in DOMAIN files : loaded.available[name] = files[name]
           /\ settings.active \in DOMAIN files => loaded.environment.active = settings.active
  BY <1>3, LoadsAll DEF OnDisk
<1> HIDE DEF loaded
<1>5. done \in State /\ ~done.environment.first_run
  BY <1>4, ResetsDefaults, ReloadsDefaults DEF SameFiles
<1>6. /\ s.files \in Files
      /\ DOMAIN s.files = DOMAIN done.available \cup DOMAIN done.files
      /\ \A name \in DOMAIN done.available : s.files[name] = done.available[name]
      /\ s.old = done.old
      /\ s.override \in Content \cup {Absent}
  BY <1>5, Destructs
<1> HIDE DEF s
<1> DEFINE users == Restrict(saved, DOMAIN saved \ DOMAIN Builtin)
<1>11. /\ users \in Files /\ DOMAIN users \subseteq DOMAIN saved
      /\ \A name \in DOMAIN users : users[name] = saved[name]
  BY <1>1, Restricted DEF TypeOK
<1>12. saved' = IF hard THEN NoFile ELSE users
  BY <1>2
<1> HIDE DEF users
<1>7. TypeOK'
  BY <1>1, <1>2, <1>5, <1>6, <1>11, <1>12, NoFileIsFiles DEF TypeOK, State
<1>8. Stored' /\ NoLongerFirst'
  BY <1>1, <1>2, <1>5 DEF Stored, NoLongerFirst, Running
<1>9. CASE hard
  BY <1>1, <1>2, <1>7, <1>8, <1>9, NoFileIsFiles DEF Invariant, Moves, Gone, Kept, Chosen, Running
<1>10. CASE ~hard
  <2>1. done = ReloadDefaultsConfigurations(loaded)
    BY <1>10
  <2> HIDE DEF done
  <2>2. /\ done.files = loaded.files /\ done.old = loaded.old
        /\ DOMAIN done.available = DOMAIN loaded.available \cup DOMAIN Builtin
        /\ \A name \in DOMAIN loaded.available : done.available[name] = loaded.available[name]
        /\ loaded.environment.active \in DOMAIN loaded.available =>
             done.environment.active = loaded.environment.active
    BY <1>4, <2>1, ReloadsDefaults DEF SameFiles
  <2>3. CASE settings.first_run
    <3>1. DOMAIN saved' = {} /\ removed' = removed \ DOMAIN Builtin
      BY <1>1, <1>2, <1>12, <1>11, <1>10, <2>3 DEF NoLongerFirst
    <3>2. /\ DOMAIN done.files = {} /\ DOMAIN done.old = {}
      BY <1>4, <2>2, <2>3, NoFileIsFiles
    <3>3. DOMAIN done.available \cap removed' = {}
      BY <1>4, <2>2, <2>3, <3>1
    <3> QED
      BY <1>2, <1>6, <1>7, <1>8, <3>1, <3>2, <3>3, <2>2 DEF Invariant, Moves, Gone, Kept, Chosen, Running
  <2>4. CASE ~settings.first_run
    <3>1. /\ saved' = users /\ removed' = removed \ DOMAIN Builtin
          /\ removed \cap (DOMAIN files \cup DOMAIN old) = {}
      BY <1>1, <1>2, <1>12, <1>10 DEF Gone
    <3>2. Gone'
      BY <1>2, <1>4, <1>6, <2>2, <2>4, <3>1 DEF Gone, Running
    <3>3. Kept'
      BY <1>1, <1>2, <1>4, <1>6, <1>11, <2>2, <2>4, <3>1 DEF Kept
    <3>4. Chosen'
      <4>1. SUFFICES ASSUME process' = "closed", chosen' \in DOMAIN saved'
                     PROVE  settings'.active = chosen'
        BY DEF Chosen
      <4>2. settings.active = chosen /\ chosen \in DOMAIN files
        BY <1>1, <1>2, <1>11, <3>1, <4>1 DEF Chosen, Kept
      <4> QED
        BY <1>2, <1>4, <2>2, <2>4, <4>2
    <3> QED
      BY <1>2, <1>7, <1>8, <3>2, <3>3, <3>4 DEF Invariant, Moves
  <2> QED
    BY <2>3, <2>4
<1> QED
  BY <1>9, <1>10

---------------------------------------------------------------------------
(* The start of a run                                                      *)

\* What a start has loaded, before the window shows it.
Ready(reset) ==
  LET loaded == IF reset THEN Constructed ELSE LoadAllConfigurations(Constructed)
  IN IF DOMAIN loaded.available = {} THEN ResetDefaultsConfigurations(loaded)
     ELSE FirstDefaultsConfigurations(loaded)

\* The list was empty, or a built-in configuration is added.
Installing(reset) ==
  LET loaded == IF reset THEN Constructed ELSE LoadAllConfigurations(Constructed)
  IN \/ DOMAIN loaded.available = {}
     \/ settings.first_run
     \/ ~(DOMAIN Builtin \subseteq settings.initialised)

\* Without a reset what was saved is loaded, and with it the active configuration.
LEMMA Loads ==
  ASSUME Invariant, NEW reset \in BOOLEAN, NEW s, s = Ready(reset)
  PROVE  /\ s \in State
         /\ Settled(s)
         /\ ~s.environment.first_run
         /\ ~Installing(reset) =>
              /\ DOMAIN s.available = DOMAIN files \cup DOMAIN old
              /\ OnDisk(s) = DOMAIN files \cup DOMAIN old
         /\ ~reset =>
              \A name \in DOMAIN saved :
                /\ name \in DOMAIN s.files /\ s.files[name] = saved[name]
                /\ name \in DOMAIN s.available /\ s.available[name] = saved[name]
         /\ ~reset /\ settings.active \in DOMAIN saved =>
              /\ s.environment.active = settings.active
              /\ settings.use => s.environment.use /\ s.active = settings.active
<1> DEFINE loaded == IF reset THEN Constructed ELSE LoadAllConfigurations(Constructed)
<1>1. TypeOK /\ Kept /\ NoLongerFirst
  BY DEF Invariant
<1>2. /\ Constructed \in State /\ Constructed.environment = settings
      /\ Constructed.files = files /\ Constructed.old = old
      /\ DOMAIN Constructed.available = {}
  BY <1>1, ConstructedIsState, NoFileIsFiles
<1>3. s = IF DOMAIN loaded.available = {} THEN ResetDefaultsConfigurations(loaded)
          ELSE FirstDefaultsConfigurations(loaded)
  BY DEF Ready
<1>4. CASE reset
  <2>1. loaded = Constructed /\ Installing(reset)
    BY <1>2, <1>4 DEF Installing
  <2>2. s = ResetDefaultsConfigurations(Constructed)
    BY <1>2, <1>3, <2>1
  <2> QED
    BY <1>2, <1>4, <2>1, <2>2, ResetsDefaults
<1>5. CASE ~reset
  <2>1. loaded = LoadAllConfigurations(Constructed)
    BY <1>5
  <2>2. Installing(reset) <=> \/ DOMAIN loaded.available = {}
                              \/ settings.first_run
                              \/ ~(DOMAIN Builtin \subseteq settings.initialised)
    BY <1>5 DEF Installing
  <2> HIDE DEF loaded
  <2>3. /\ loaded \in State
        /\ ~loaded.environment.first_run
        /\ loaded.environment.use = settings.use
        /\ loaded.environment.initialised = settings.initialised
        /\ settings.first_run => DOMAIN loaded.available = DOMAIN Builtin
        /\ ~settings.first_run =>
             /\ loaded.files = files /\ loaded.old = old
             /\ DOMAIN loaded.available = DOMAIN files \cup DOMAIN old
             /\ \A name \in DOMAIN files : loaded.available[name] = files[name]
             /\ settings.active \in DOMAIN files => loaded.environment.active = settings.active
    BY <1>2, <2>1, LoadsAll DEF OnDisk
  <2>4. CASE DOMAIN loaded.available = {}
    <3>1. s = ResetDefaultsConfigurations(loaded)
      BY <1>3, <2>4
    <3>2. DOMAIN saved = {}
      BY <1>1, <2>3, <2>4 DEF NoLongerFirst, Kept
    <3> QED
      BY <2>2, <2>3, <2>4, <3>1, <3>2, ResetsDefaults
  <2>5. CASE DOMAIN loaded.available # {}
    <3>1. s = FirstDefaultsConfigurations(loaded)
      BY <1>3, <2>5
    <3>2. /\ s \in State /\ Settled(s) /\ SameFiles(loaded, s)
          /\ s.environment.use = loaded.environment.use
          /\ DOMAIN s.available = DOMAIN loaded.available
                                    \cup (DOMAIN Builtin \ loaded.environment.initialised)
          /\ \A name \in DOMAIN loaded.available : s.available[name] = loaded.available[name]
          /\ loaded.environment.active \in DOMAIN loaded.available =>
               /\ s.environment.active = loaded.environment.active
               /\ loaded.environment.use => s.active = loaded.environment.active
      BY <2>3, <3>1, FirstDefaults
    <3>3. CASE settings.first_run
      <4>1. DOMAIN saved = {} /\ Installing(reset)
        BY <1>1, <2>2, <3>3 DEF NoLongerFirst
      <4> QED
        BY <1>5, <2>3, <3>2, <4>1 DEF SameFiles
    <3>4. CASE ~settings.first_run
      <4>1. /\ s.files = files /\ s.old = old /\ ~s.environment.first_run
            /\ OnDisk(s) = DOMAIN files \cup DOMAIN old
        BY <2>3, <3>2, <3>4 DEF SameFiles, OnDisk
      <4>2. ~Installing(reset) => DOMAIN s.available = DOMAIN files \cup DOMAIN old
        BY <2>2, <2>3, <3>2, <3>4
      <4>3. \A name \in DOMAIN saved :
              /\ name \in DOMAIN files /\ files[name] = saved[name]
              /\ name \in DOMAIN s.available /\ s.available[name] = files[name]
        BY <1>1, <2>3, <3>2, <3>4 DEF Kept
      <4>4. settings.active \in DOMAIN saved =>
              /\ s.environment.active = settings.active
              /\ settings.use => s.environment.use /\ s.active = settings.active
        BY <2>3, <3>2, <3>4, <4>3
      <4> QED
        BY <3>2, <4>1, <4>2, <4>3, <4>4
    <3> QED
      BY <3>3, <3>4
  <2> QED
    BY <2>4, <2>5
<1> QED
  BY <1>4, <1>5

\* A start loads what was saved, activates what was active, and is tidy.
LEMMA Starts ==
  ASSUME Invariant, NEW reset \in BOOLEAN, Start(reset)
  PROVE  /\ Invariant'
         /\ \A name \in DOMAIN saved' :
              name \in DOMAIN available' /\ available'[name] = saved'[name]
         /\ process = "closed" /\ ~crashed /\ settings.use /\ chosen \in DOMAIN saved =>
              active' = chosen /\ override' = Promised(saved[chosen])
<1> DEFINE s == Ready(reset)
           r == RefreshConfiguration(s)
           l == LoadConfigurationList(r)
           t == SaveLastItem(l)
<1>1. TypeOK /\ Gone /\ Kept /\ Chosen
  BY DEF Invariant
<1>2. /\ ~Running /\ (reset => crashed)
      /\ Remember(t) /\ Write(t)
      /\ removed' = (IF Installing(reset) THEN {} ELSE removed)
      /\ saved' = (IF reset THEN NoFile ELSE saved)
      /\ crashed' = FALSE /\ process' = "running"
      /\ settings' = settings /\ chosen' = chosen
  BY DEF Start, Ready, Installing
<1>3. /\ s \in State /\ Settled(s) /\ ~s.environment.first_run
      /\ ~Installing(reset) =>
           /\ DOMAIN s.available = DOMAIN files \cup DOMAIN old
           /\ OnDisk(s) = DOMAIN files \cup DOMAIN old
      /\ ~reset =>
           \A name \in DOMAIN saved :
             /\ name \in DOMAIN s.files /\ s.files[name] = saved[name]
             /\ name \in DOMAIN s.available /\ s.available[name] = saved[name]
      /\ ~reset /\ settings.active \in DOMAIN saved =>
           /\ s.environment.active = settings.active
           /\ settings.use => s.environment.use /\ s.active = settings.active
  BY Loads
<1> HIDE DEF s
<1>4. /\ r \in State /\ SameLists(s, r) /\ Settled(r)
      /\ s.environment.active \in DOMAIN s.available /\ s.environment.use =>
           r.active = s.environment.active
  BY <1>3, Refreshes
<1> HIDE DEF r
<1>5. l \in State /\ SameButTree(r, l) /\ CurrentListed(l)
  BY <1>4, Lists
<1> HIDE DEF l
<1>6. t \in State /\ SameButTree(l, t) /\ t.current = l.current
  BY <1>5, SavesLast
<1> HIDE DEF t
<1>7. Settled(l) /\ Settled(t) /\ SameLists(r, l) /\ SameLists(l, t)
  BY <1>4, <1>5, <1>6, TreeOnly
<1>8. /\ t.available = s.available /\ t.files = s.files /\ t.old = s.old
      /\ t.active = r.active /\ ~t.environment.first_run /\ CurrentListed(t)
  <2>1. SameLists(s, l)
    BY <1>3, <1>4, <1>5, <1>7, SameTransitive
  <2>2. SameLists(s, t)
    BY <1>3, <1>5, <1>6, <1>7, <2>1, SameTransitive
  <2>3. ~t.environment.first_run
    BY <1>3, <1>6, <2>2, SameSettings
  <2> QED
    BY <1>5, <1>6, <2>2, <2>3 DEF SameButTree, SameLists, CurrentListed
<1>9. /\ available' = t.available /\ active' = t.active /\ environment' = t.environment
      /\ current' = t.current /\ last' = t.last /\ files' = t.files /\ old' = t.old
      /\ override' = t.override
  BY <1>2 DEF Remember, Write
<1>10. saved' \in Files /\ removed' \subseteq Name
  BY <1>1, <1>2, NoFileIsFiles DEF TypeOK
<1>11. TypeOK'
  BY <1>1, <1>2, <1>6, <1>7, <1>8, <1>9, <1>10
     DEF TypeOK, State, Settled, ActiveListed, CurrentListed
<1>12. Stored'
  BY <1>7, <1>9 DEF Settled, ActiveStored, Stored
<1>13. Gone'
  <2>1. removed \cap (DOMAIN files \cup DOMAIN old) = {}
    BY <1>1 DEF Gone
  <2>2. removed' \cap OnDisk(s) = {} /\ removed' \cap DOMAIN s.available = {}
    BY <1>2, <1>3, <2>1
  <2> QED
    BY <1>8, <1>9, <2>2 DEF Gone, OnDisk
<1>14. \A name \in DOMAIN saved' :
         /\ name \in DOMAIN files' /\ files'[name] = saved'[name]
         /\ name \in DOMAIN available' /\ available'[name] = saved'[name]
  BY <1>2, <1>3, <1>8, <1>9, NoFileIsFiles
<1>15. NoLongerFirst' /\ Chosen'
  BY <1>1, <1>2, <1>8, <1>9, NoFileIsFiles DEF Invariant, NoLongerFirst, Chosen
<1>16. ASSUME process = "closed", ~crashed, settings.use, chosen \in DOMAIN saved
       PROVE  active' = chosen /\ override' = Promised(saved[chosen])
  <2>1. ~reset /\ settings.active = chosen
    BY <1>1, <1>2, <1>16 DEF Chosen
  <2>2. s.environment.use /\ s.environment.active = chosen /\ chosen \in DOMAIN s.available
    BY <1>3, <1>16, <2>1
  <2>3. active' = chosen
    BY <1>4, <1>8, <1>9, <2>2
  <2>4. chosen # None
    BY <1>1, <1>16, FilesAre, NameAssumption DEF TypeOK
  <2>5. override' = Promised(available'[chosen])
    BY <1>7, <1>9, <2>3, <2>4 DEF Settled, Synced
  <2>6. available'[chosen] = saved[chosen]
    BY <1>3, <1>8, <1>9, <1>16, <2>1
  <2> QED
    BY <2>3, <2>5, <2>6
<1> QED
  BY <1>11, <1>12, <1>13, <1>14, <1>15, <1>16 DEF Invariant, Kept

---------------------------------------------------------------------------
(* Theorems                                                                *)

LEMMA InitInvariant == Init => Invariant
<1> SUFFICES ASSUME Init PROVE Invariant
  OBVIOUS
<1>1. Default \in Settings
  BY DefaultIsSettings
<1>2. old \in Files
  BY NoFileIsFiles, BuiltinIsFiles DEF Init
<1>3. settings \in Settings
  BY <1>1 DEF Init, Settings
<1>4. TypeOK
  BY <1>1, <1>2, <1>3, NoFileIsFiles DEF Init, TypeOK
<1> QED
  BY <1>4, NoFileIsFiles DEF Init, Invariant, Stored, Gone, Kept, NoLongerFirst, Chosen, Running

\* Only a start makes the program run.
LEMMA OnlyStartStarts ==
  ASSUME Next, ~Running, process' = "running"
  PROVE  \E reset \in BOOLEAN : Start(reset)
BY DEF Next, Running, Start, Close, Kill, Interrupt, SetOverrideMode,
   on_check_box_persistent_clicked, toolsResetToDefault, OnConfigurationItemClicked,
   OnConfigurationTreeClicked, Highlight, showEvent, RefreshClicked, OnSettingChanged,
   OnConfigurationItemChanged, DuplicateClicked, on_push_button_select_configuration_clicked,
   EditClicked, NewClicked, ImportClicked, ImportFails, RemoveClicked, ResetClicked,
   ReloadDefaultClicked, addCustomPaths, RunReset, RunLayers, Handle, HandleAndCreateGUI

LEMMA NextMoves ==
  ASSUME Invariant, Next
  PROVE  /\ Invariant'
         /\ Running /\ process' = "running" /\ InSync => InSync' \/ ResetClicked \/ Interrupt
<1>1. ASSUME NEW reset \in BOOLEAN, Start(reset)
      PROVE  Invariant' /\ ~Running
  BY <1>1, Starts DEF Start
<1>2. ASSUME Close PROVE Moves
  BY <1>2, CloseMoves
<1>3. ASSUME Kill PROVE Moves
  BY <1>3, KillMoves
<1>4. ASSUME Interrupt PROVE Invariant'
  BY <1>4, InterruptMoves
<1>5. ASSUME NEW use \in BOOLEAN, SetOverrideMode(use) PROVE Moves
  BY <1>5, SetOverrideModeMoves
<1>6. ASSUME on_check_box_persistent_clicked PROVE Moves
  BY <1>6, PersistentMoves
<1>7. ASSUME toolsResetToDefault PROVE Moves
  BY <1>7, ToolsResetMoves
<1>8. ASSUME NEW name \in DOMAIN available,
             \/ OnConfigurationItemClicked(name)
             \/ OnConfigurationTreeClicked(name)
             \/ Highlight(name)
      PROVE  Moves
  BY <1>8, ItemClickedMoves, HighlightMoves
<1>9. ASSUME showEvent PROVE Moves
  BY <1>9, ShowEventMoves
<1>10. ASSUME RefreshClicked PROVE Moves
  BY <1>10, RefreshClickedMoves
<1>11. ASSUME NEW content \in Content, OnSettingChanged(content) PROVE Moves
  BY <1>11, OnSettingChangedMoves
<1>12. ASSUME NEW name \in Name, OnConfigurationItemChanged(name) PROVE Moves
  BY <1>12, RenameMoves
<1>13. ASSUME NEW name \in Name, DuplicateClicked(name) PROVE Moves
  <2>1. TypeOK /\ current # None
    BY <1>13 DEF Invariant, DuplicateClicked, ItemMenuEnabled
  <2>2. available \in Files /\ current \in DOMAIN available
    BY <2>1 DEF TypeOK
  <2>3. available[current] \in Content
    BY <2>2, FilesAre
  <2> QED
    BY <1>13, <2>3, AddedMoves
<1>14. ASSUME NEW name \in Name \cup {None}, NEW content \in Content,
              on_push_button_select_configuration_clicked(name, content)
       PROVE  Moves
  BY <1>14, SelectMoves
<1>15. ASSUME NEW name \in Name, NEW content \in Content,
              \/ EditClicked(name, content)
              \/ NewClicked(name, content)
              \/ ImportClicked(name, content)
       PROVE  Moves
  BY <1>15, EditClickedMoves, AddedMoves
<1>16. ASSUME ImportFails PROVE Moves
  BY <1>16, ImportFailsMoves
<1>17. ASSUME RemoveClicked PROVE Moves
  BY <1>17, RemoveClickedMoves
<1>18. ASSUME ResetClicked PROVE Invariant'
  BY <1>18, ResetClickedMoves
<1>19. ASSUME ReloadDefaultClicked PROVE Moves
  BY <1>19, ReloadDefaultClickedMoves
<1>20. ASSUME addCustomPaths PROVE Moves
  BY <1>20, AddCustomPathsMoves
<1>21. ASSUME NEW hard \in BOOLEAN, RunReset(hard) PROVE Moves
  BY <1>21, RunResetMoves
<1>22. ASSUME NEW written \in Content \cup {Absent}, RunLayers(written) PROVE Moves
  BY <1>22, RunLayersMoves
<1> HIDE DEF Moves
<1>23. \/ Moves
       \/ Invariant' /\ (~Running \/ ResetClicked \/ Interrupt)
  BY <1>1, <1>2, <1>3, <1>4, <1>5, <1>6, <1>7, <1>8, <1>9, <1>10, <1>11, <1>12, <1>13,
     <1>14, <1>15, <1>16, <1>17, <1>18, <1>19, <1>20, <1>21, <1>22 DEF Next
<1> QED
  BY <1>23 DEF Moves

LEMMA StutterInvariant ==
  ASSUME Invariant, UNCHANGED vars
  PROVE  Invariant'
BY DEF vars, memory, disk, history, Invariant, TypeOK, Stored, Gone, Kept, NoLongerFirst,
   Chosen, Running

LEMMA StepInvariant == Invariant /\ [Next]_vars => Invariant'
BY NextMoves, StutterInvariant

THEOREM InvariantCorrect == Spec => []Invariant
<1> QED
  BY InitInvariant, StepInvariant, PTL DEF Spec

\* Whatever users, signals, kills and command lines do, the configuration that
\* is active is one of the list, the tree has no stale item, and the settings,
\* files and override keep their types.
THEOREM TypeCorrect == Spec => []TypeOK
<1>1. Invariant => TypeOK
  BY DEF Invariant
<1> QED
  BY <1>1, InvariantCorrect, PTL

\* A configuration that was removed stays removed, in every later run.
THEOREM RemovedStaysRemovedCorrect == Spec => []RemovedStaysRemoved
<1>1. Invariant => RemovedStaysRemoved
  BY DEF Invariant, Gone, RemovedStaysRemoved
<1> QED
  BY <1>1, InvariantCorrect, PTL

\* The loader reads what the window shows, after every handler but the two that
\* part them.
THEOREM StaysInSyncCorrect == Spec => StaysInSync
<1>1. Invariant /\ [Next]_vars =>
        [Running /\ process' = "running" /\ InSync
           => InSync' \/ ResetClicked \/ Interrupt]_vars
  BY NextMoves
<1> QED
  BY <1>1, InvariantCorrect, PTL DEF Spec, StaysInSync

\* What a clean exit saved, and nobody deleted or asked to be reset, is back
\* after every start.
THEOREM SavedComeBackCorrect == Spec => SavedComeBack
<1>1. Invariant /\ [Next]_vars =>
        [~Running /\ process' = "running"
           => \A name \in DOMAIN saved' :
                name \in DOMAIN available' /\ available'[name] = saved'[name]]_vars
  BY OnlyStartStarts, Starts
<1> QED
  BY <1>1, InvariantCorrect, PTL DEF Spec, SavedComeBack

\* So is the configuration that was active, and the layers it overrides.
THEOREM ActiveComesBackCorrect == Spec => ActiveComesBack
<1>1. Invariant /\ [Next]_vars =>
        [process = "closed" /\ process' = "running" /\ ~crashed
           /\ settings.use /\ chosen \in DOMAIN saved
         => active' = chosen /\ override' = Promised(saved[chosen])]_vars
  BY OnlyStartStarts, Starts DEF Running
<1> QED
  BY <1>1, InvariantCorrect, PTL DEF Spec, ActiveComesBack
=============================================================================
