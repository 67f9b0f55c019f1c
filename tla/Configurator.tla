---------------------------- MODULE Configurator ----------------------------
(***************************************************************************)
(* The window of vkconfig and what it leaves on disk: the list of layers   *)
(* configurations, the active one, the override that the Vulkan loader     *)
(* reads, the configuration files and the settings that the next run       *)
(* starts from (vkconfig/configurator.cpp, mainwindow.cpp, main_reset.cpp, *)
(* main_layers.cpp, main_signal.cpp; vkconfig_core/                        *)
(* configuration_manager.cpp, environment.cpp, override.cpp).              *)
(*                                                                         *)
(* One run of the program at a time.  Every layer of every configuration   *)
(* is installed; the list of applications is left out; the name that       *)
(* MakeConfigurationName gives is any free one (see ConfigurationNames).   *)
(***************************************************************************)
EXTENDS Functions

CONSTANTS
  Name,        \* names of configurations
  Content,     \* layers and settings of a configuration
  Overriding,  \* the contents that override or exclude a layer
  Nothing,     \* the content of a configuration reset to zero
  Builtin,     \* the built-in configurations: contents by name
  Validation,  \* the one that is active by default
  Older,       \* files that older versions may have left: contents by name
  None,        \* no configuration
  Absent       \* no override

ASSUME ContentAssumption ==
  /\ Overriding \subseteq Content
  /\ Nothing \in Content \ Overriding

ASSUME NameAssumption ==
  /\ Builtin \in [DOMAIN Builtin -> Content]
  /\ Older \in [DOMAIN Older -> Content]
  /\ DOMAIN Builtin \cup DOMAIN Older \subseteq Name
  /\ Validation \in DOMAIN Builtin
  /\ None \notin Name
  /\ Absent \notin Content

VARIABLES
  available,    \* contents of the list, by name
  active,       \* name of the configuration active_configuration points to
  environment,  \* the settings in memory
  current,      \* name of the current item of the tree
  last,         \* _last_item
  files,        \* configuration files of this version, by name
  old,          \* configuration files of older versions, by name
  settings,     \* the settings as QSettings stores them
  override,     \* content of VkLayer_override.json and vk_layer_settings.txt
  crashed,      \* the "crashed" setting
  process,      \* the current run, or how the last one ended
  saved,        \* history: saved by the last clean exit, and neither deleted
                \* nor asked to be reset since
  chosen,       \* history: the active configuration at the last clean exit
  removed       \* history: names the user removed and did not add again

memory == <<available, active, environment, current, last>>
disk == <<files, old, settings, override, crashed>>
history == <<saved, chosen, removed>>
vars == <<memory, disk, process, history>>

Running == process = "running"
NoFile == [name \in {} |-> Nothing]

Default == [first_run |-> TRUE, use |-> TRUE, persistent |-> FALSE,
            active |-> Validation, initialised |-> {}]

Init ==
  /\ available = NoFile
  /\ active = None
  /\ environment = Default
  /\ current = None
  /\ last = None
  /\ files = NoFile
  /\ old \in {NoFile, Older}
  /\ settings = [Default EXCEPT !.first_run = (old = NoFile)]
  /\ override = Absent
  /\ crashed = FALSE
  /\ process = "none"
  /\ saved = NoFile
  /\ chosen = None
  /\ removed = {}
---------------------------------------------------------------------------
(* What the handlers are made of: a call is a function of the state it     *)
(* changes, a record of the variables.                                     *)

Now == [available |-> available, active |-> active, environment |-> environment,
        current |-> current, last |-> last, files |-> files, old |-> old,
        override |-> override]

\* Environment::Load and Environment::Save: each field is stored under a key of
\* its own and comes back as it was.
Load == settings
Save == settings' = environment

\* The objects of a new run.
Constructed == [Now EXCEPT !.available = NoFile, !.active = None,
                           !.environment = Load, !.current = None, !.last = None]

\* A list, and of another one what has no name of the first: a name that is
\* listed is not loaded again.
Merge(list, more) ==
  [name \in DOMAIN list \cup DOMAIN more |->
     IF name \in DOMAIN list THEN list[name] ELSE more[name]]

\* A list in which a name has this content.
With(list, name, content) == Merge([added \in {name} |-> content], list)

SurrenderConfiguration(s) == [s EXCEPT !.override = Absent]

\* Both files say what the configuration says, once the old ones are gone.
OverrideConfiguration(s, content) ==
  [SurrenderConfiguration(s) EXCEPT !.override = content]

\* A configuration that overrides nothing leaves no files.
Apply(s, content) ==
  IF content \in Overriding THEN OverrideConfiguration(s, content)
  ELSE SurrenderConfiguration(s)

\* Slip: the settings do not learn the name.
SetActiveConfiguration_notStored(s, name) ==
  IF name = None THEN SurrenderConfiguration([s EXCEPT !.active = None])
  ELSE Apply([s EXCEPT !.active = name], s.available[name])

\* ConfigurationManager::SetActiveConfiguration.
SetActiveConfiguration(s, name) ==
  IF name = None THEN SurrenderConfiguration([s EXCEPT !.active = None])
  ELSE Apply([s EXCEPT !.active = name, !.environment.active = name], s.available[name])

RefreshConfiguration(s) ==
  IF s.environment.active = None \/ ~s.environment.use THEN SetActiveConfiguration(s, None)
  ELSE IF s.environment.active \in DOMAIN s.available
  THEN SetActiveConfiguration(s, s.environment.active)
  ELSE SetActiveConfiguration([s EXCEPT !.environment.active = None], None)

LoadDefaultConfigurations(s) == [s EXCEPT !.available = Merge(@, Builtin)]

RemoveConfigurationFiles(s) == [s EXCEPT !.files = NoFile, !.old = NoFile]

\* Slip: the first run is not over.
LoadAllConfigurations_stillFirst(s) ==
  LET cleared == [s EXCEPT !.available = NoFile, !.active = None]
      installed == IF cleared.environment.first_run
                   THEN LoadDefaultConfigurations(RemoveConfigurationFiles(cleared))
                   ELSE cleared
  IN RefreshConfiguration(
       [installed EXCEPT !.available = Merge(Merge(@, installed.files), installed.old)])

\* The built-in ones on a first run, then the files, newest version first.
LoadAllConfigurations(s) ==
  LET cleared == [s EXCEPT !.available = NoFile, !.active = None]
      installed == IF cleared.environment.first_run
                   THEN [LoadDefaultConfigurations(RemoveConfigurationFiles(cleared))
                           EXCEPT !.environment.first_run = FALSE]
                   ELSE cleared
  IN RefreshConfiguration(
       [installed EXCEPT !.available = Merge(Merge(@, installed.files), installed.old)])

\* Adds the built-in configurations that no run has added yet.
FirstDefaultsConfigurations(s) ==
  LET new == DOMAIN Builtin \ s.environment.initialised
  IN RefreshConfiguration(
       [s EXCEPT !.environment.initialised = @ \cup new,
                 !.available = Merge(@, Restrict(Builtin, new))])

ResetDefaultsConfigurations(s) ==
  LoadAllConfigurations(
    [SetActiveConfiguration(s, None) EXCEPT
       !.environment = [Default EXCEPT !.initialised = s.environment.initialised]])

ReloadDefaultsConfigurations(s) ==
  RefreshConfiguration(LoadDefaultConfigurations(SetActiveConfiguration(s, None)))

\* Slip: only the file of this version is deleted.
RemoveConfiguration_thisVersion(s, name) ==
  SetActiveConfiguration(
    [s EXCEPT !.files = Restrict(@, DOMAIN @ \ {name}),
              !.available = Restrict(@, DOMAIN @ \ {name})], None)

\* Slip: the configuration that is removed stays active.
RemoveConfiguration_staysActive(s, name) ==
  [s EXCEPT !.files = Restrict(@, DOMAIN @ \ {name}),
            !.old = Restrict(@, DOMAIN @ \ {name}),
            !.available = Restrict(@, DOMAIN @ \ {name})]

RemoveConfiguration(s, name) ==
  SetActiveConfiguration(
    [s EXCEPT !.files = Restrict(@, DOMAIN @ \ {name}),
              !.old = Restrict(@, DOMAIN @ \ {name}),
              !.available = Restrict(@, DOMAIN @ \ {name})], None)

\* CreateConfiguration and ImportConfiguration, once the content is known.
AddConfiguration(s, name, content) ==
  SetActiveConfiguration([s EXCEPT !.available = With(@, name, content)], name)

\* What the layers dialog stores when it is accepted.
Accept(s, from, name, content) ==
  [s EXCEPT !.available = With(Restrict(@, DOMAIN @ \ {from}), name, content)]

\* What Configuration::Reset restores a configuration from.
ResetContent(s, name) ==
  IF name \in DOMAIN Builtin THEN Builtin[name]
  ELSE IF name \in DOMAIN s.files THEN s.files[name]
  ELSE IF name \in DOMAIN s.old THEN s.old[name]
  ELSE Nothing

SaveAllConfigurations(s) == [s EXCEPT !.files = Merge(s.available, @)]

\* The destructor of the Configurator, without what it does to the settings.
Destructed(s) ==
  LET written == SaveAllConfigurations(s)
  IN IF s.environment.persistent THEN written ELSE SurrenderConfiguration(written)
---------------------------------------------------------------------------
(* The tree of configurations                                              *)

HasActiveConfiguration(s) == s.active # None /\ s.available[s.active] \in Overriding

\* The current item follows the name in the settings, with signals blocked.
UpdateUI(s) ==
  IF s.environment.active \in DOMAIN s.available
  THEN [s EXCEPT !.current = s.environment.active] ELSE s

LoadConfigurationList(s) == UpdateUI([s EXCEPT !.current = None])

SaveLastItem(s) == IF s.current = None THEN s ELSE [s EXCEPT !.last = s.current]

OnConfigurationTreeChanged(s, name) ==
  IF HasActiveConfiguration(s) /\ s.active = name THEN s ELSE SetActiveConfiguration(s, name)

\* QTreeWidget::setCurrentItem, which signals a change.
SetCurrentItem(s, name) ==
  IF s.current = name THEN s
  ELSE OnConfigurationTreeChanged([s EXCEPT !.current = name], name)

RestoreLastItem(s) ==
  IF s.last \in DOMAIN s.available THEN SetCurrentItem(s, s.last) ELSE s
---------------------------------------------------------------------------
Remember(s) ==
  /\ available' = s.available
  /\ active' = s.active
  /\ environment' = s.environment
  /\ current' = s.current
  /\ last' = s.last

\* The memory of a run that is over.
Forget ==
  /\ available' = NoFile
  /\ active' = None
  /\ environment' = Default
  /\ current' = None
  /\ last' = None

Write(s) ==
  /\ files' = s.files
  /\ old' = s.old
  /\ override' = s.override

\* A name that comes back because the user adds it again is not removed any more.
Added(s) == DOMAIN s.available \ DOMAIN available

Deleting(s, removing, deleted) ==
  /\ removed' = (removed \cup removing) \ Added(s)
  /\ saved' = Restrict(saved, DOMAIN saved \ deleted)
  /\ UNCHANGED chosen

Continue(s) ==
  /\ Remember(s)
  /\ Write(s)
  /\ UNCHANGED <<process, settings, crashed>>

\* SIGABRT: the handler of main_signal.cpp, and the end.
Abort(s) ==
  /\ Forget
  /\ Write(SurrenderConfiguration(s))
  /\ crashed' = TRUE
  /\ process' = "aborted"
  /\ UNCHANGED settings

Handle(s) == Running /\ Continue(s) /\ Deleting(s, {}, {})

\* SettingsTreeManager::CreateGUI asserts that there is an active configuration.
CreateGUI(s) == (s.active # None /\ Continue(s)) \/ (s.active = None /\ Abort(s))

HandleAndCreateGUI(s) == Running /\ CreateGUI(s) /\ Deleting(s, {}, {})

\* What is enabled: the group box of the configurations, and its context menu.
Enabled == environment.use
MenuEnabled == environment.use /\ environment.active # None
ItemMenuEnabled == MenuEnabled /\ current # None

Free == Name \ DOMAIN available
---------------------------------------------------------------------------
(* The window                                                              *)

\* main: the constructors, Configurator::Init, MainWindow and its first
\* showEvent.  After a crash the user may ask for a reset, on an empty list.
Start(reset) ==
  /\ ~Running
  /\ reset => crashed
  /\ LET loaded == IF reset THEN Constructed ELSE LoadAllConfigurations(Constructed)
         empty == DOMAIN loaded.available = {}
         ready == IF empty THEN ResetDefaultsConfigurations(loaded)
                  ELSE FirstDefaultsConfigurations(loaded)
         shown == SaveLastItem(LoadConfigurationList(RefreshConfiguration(ready)))
         installing == empty \/ settings.first_run
                       \/ ~(DOMAIN Builtin \subseteq settings.initialised)
     IN /\ Remember(shown)
        /\ Write(shown)
        /\ removed' = IF installing THEN {} ELSE removed
        /\ saved' = IF reset THEN NoFile ELSE saved
  /\ crashed' = FALSE
  /\ process' = "running"
  /\ UNCHANGED <<settings, chosen>>

\* closeEvent, then the destructors of Configurator and Environment.
Close ==
  /\ Running
  /\ Forget
  /\ Write(Destructed(Now))
  /\ Save
  /\ saved' = available
  /\ chosen' = active
  /\ process' = "closed"
  /\ UNCHANGED <<crashed, removed>>

\* SIGKILL, or a power cut.
Kill ==
  /\ Running
  /\ Forget
  /\ process' = "killed"
  /\ UNCHANGED <<disk, history>>

\* SIGINT or SIGTERM: the handler returns, and the program goes on.
Interrupt ==
  /\ Running
  /\ crashed' = TRUE
  /\ override' = Absent
  /\ UNCHANGED <<memory, files, old, settings, process, history>>

\* on_radio_override_clicked, on_radio_fully_clicked.
SetOverrideMode(use) ==
  Handle(UpdateUI(RefreshConfiguration([Now EXCEPT !.environment.use = use])))

on_check_box_persistent_clicked ==
  /\ Enabled
  /\ Handle([Now EXCEPT !.environment.persistent = ~@])

toolsResetToDefault ==
  LET s == LoadConfigurationList(RefreshConfiguration(ResetDefaultsConfigurations(Now)))
  IN /\ Running
     /\ Continue(s)
     /\ removed' = {}
     /\ saved' = NoFile
     /\ UNCHANGED chosen

\* The radio button of an item.
OnConfigurationItemClicked(name) ==
  /\ Enabled
  /\ Handle(UpdateUI(SetActiveConfiguration(SetCurrentItem(Now, name), name)))

\* The item itself: the press makes it current, the click activates it.
OnConfigurationTreeClicked(name) ==
  /\ Enabled
  /\ Handle(UpdateUI(SaveLastItem(
       SetActiveConfiguration(SetCurrentItem(Now, name), name))))

\* An arrow key, or the press of the right button.
Highlight(name) ==
  /\ Enabled
  /\ Handle(SetCurrentItem(Now, name))

\* The window is shown again.
showEvent == Handle(UpdateUI(SaveLastItem(Now)))

\* Applications dialog and check box; a click in the tree of the settings.
RefreshClicked ==
  /\ Enabled
  /\ \E s \in {Now, SaveLastItem(Now)} : Handle(UpdateUI(RefreshConfiguration(s)))

\* A setting of the active configuration changes.
OnSettingChanged(content) ==
  /\ Enabled
  /\ HasActiveConfiguration(Now)
  /\ content \in Overriding
  /\ Handle(RefreshConfiguration([Now EXCEPT !.available[active] = content]))

\* Rename in place: a name that is taken leaves the old one.  The menu saves
\* the last item when it opens the editor, Duplicate and the key do not.
OnConfigurationItemChanged(name) ==
  /\ Running
  /\ ItemMenuEnabled
  /\ \E opened \in {Now, SaveLastItem(Now)} :
       IF name \in Free
       THEN LET renaming == [Accept(opened, current, name, available[current]) EXCEPT
                               !.files = Restrict(@, DOMAIN @ \ {current})]
                s == LoadConfigurationList(SetActiveConfiguration(renaming, name))
            IN CreateGUI(s) /\ Deleting(s, {}, {current})
       ELSE LET s == UpdateUI(SetActiveConfiguration(opened, current))
            IN CreateGUI(s) /\ Deleting(s, {}, {})

\* The layers dialog, opened by the button; accepted, perhaps under a new name.
on_push_button_select_configuration_clicked(name, content) ==
  /\ Running
  /\ ItemMenuEnabled
  /\ name \in Free \cup {active}
  /\ LET accepted == Accept(SaveLastItem(Now), active, name, content)
         s == RestoreLastItem(LoadConfigurationList(SetActiveConfiguration(accepted, name)))
     IN IF active = None THEN Abort(SaveLastItem(Now)) /\ UNCHANGED history
        ELSE CreateGUI(s) /\ Deleting(s, {}, {active} \ {name})

\* Slip: the configuration that is in memory stays active.
EditClicked_noRefresh(name, content) ==
  /\ Running
  /\ ItemMenuEnabled
  /\ name = current
  /\ LET s == LoadConfigurationList(Accept(SaveLastItem(Now), current, name, content))
     IN CreateGUI(s) /\ Deleting(s, {}, {})

\* The same dialog, opened by the context menu.
EditClicked(name, content) ==
  /\ Running
  /\ ItemMenuEnabled
  /\ name \in Free \cup {current}
  /\ LET accepted == Accept(SaveLastItem(Now), current, name, content)
         s == LoadConfigurationList(RefreshConfiguration(accepted))
     IN CreateGUI(s) /\ Deleting(s, {}, {current} \ {name})

NewClicked(name, content) ==
  /\ MenuEnabled
  /\ name \in Free
  /\ HandleAndCreateGUI(LoadConfigurationList(
       [AddConfiguration(Now, name, content) EXCEPT !.last = name]))

\* The new item is then edited in place, which is OnConfigurationItemChanged.
DuplicateClicked(name) ==
  /\ ItemMenuEnabled
  /\ name \in Free
  /\ HandleAndCreateGUI(LoadConfigurationList(
       AddConfiguration(Now, name, available[current])))

ImportClicked(name, content) ==
  /\ MenuEnabled
  /\ name \in Free
  /\ HandleAndCreateGUI(LoadConfigurationList(AddConfiguration(Now, name, content)))

\* The file cannot be read.
ImportFails ==
  /\ MenuEnabled
  /\ HandleAndCreateGUI(LoadConfigurationList(Now))

RemoveClicked ==
  /\ Running
  /\ ItemMenuEnabled
  /\ LET s == RestoreLastItem(LoadConfigurationList(
                RemoveConfiguration(SaveLastItem(Now), current)))
     IN Continue(s) /\ Deleting(s, {current}, {current})

\* The configuration changes, the override does not.
ResetClicked ==
  /\ ItemMenuEnabled
  /\ HandleAndCreateGUI(LoadConfigurationList(
       [Now EXCEPT !.available[current] = ResetContent(Now, current)]))

ReloadDefaultClicked ==
  /\ Enabled
  /\ HandleAndCreateGUI(LoadConfigurationList(ReloadDefaultsConfigurations(Now)))

\* The dialog of the custom paths, in which nothing changes: it is in the menu
\* bar, which is always enabled.
addCustomPaths == Handle(RestoreLastItem(LoadConfigurationList(Now)))
---------------------------------------------------------------------------
(* The command line                                                        *)

\* vkconfig reset --soft, --hard: a Configurator of their own, from constructor
\* to destructor.  The soft one is to leave the configurations of the user, but
\* says that it resets the built-in ones.
RunReset(hard) ==
  /\ ~Running
  /\ LET loaded == LoadAllConfigurations(Constructed)
         done == IF hard THEN ResetDefaultsConfigurations(loaded)
                 ELSE ReloadDefaultsConfigurations(loaded)
     IN /\ Write(Destructed(done))
        /\ settings' = done.environment
  /\ saved' = IF hard THEN NoFile ELSE Restrict(saved, DOMAIN saved \ DOMAIN Builtin)
  /\ removed' = IF hard THEN {} ELSE removed \ DOMAIN Builtin
  /\ UNCHANGED <<memory, crashed, process, chosen>>

\* vkconfig layers --override, --surrender.  The settings of the window are out
\* of its reach, and of that of --list: only main_gui.cpp and main_reset.cpp name
\* the organization and the program that QSettings stores them under.
RunLayers(written) ==
  /\ ~Running
  /\ override' = written
  /\ UNCHANGED <<memory, files, old, settings, crashed, process, history>>
---------------------------------------------------------------------------
Next ==
  \/ \E reset \in BOOLEAN : Start(reset)
  \/ Close
  \/ Kill
  \/ Interrupt
  \/ \E use \in BOOLEAN : SetOverrideMode(use)
  \/ on_check_box_persistent_clicked
  \/ toolsResetToDefault
  \/ \E name \in DOMAIN available :
       \/ OnConfigurationItemClicked(name)
       \/ OnConfigurationTreeClicked(name)
       \/ Highlight(name)
  \/ showEvent
  \/ RefreshClicked
  \/ \E content \in Content : OnSettingChanged(content)
  \/ \E name \in Name : OnConfigurationItemChanged(name) \/ DuplicateClicked(name)
  \/ \E name \in Name \cup {None}, content \in Content :
       on_push_button_select_configuration_clicked(name, content)
  \/ \E name \in Name, content \in Content :
       \/ EditClicked(name, content)
       \/ NewClicked(name, content)
       \/ ImportClicked(name, content)
  \/ ImportFails
  \/ RemoveClicked
  \/ ResetClicked
  \/ ReloadDefaultClicked
  \/ addCustomPaths
  \/ \E hard \in BOOLEAN : RunReset(hard)
  \/ \E written \in Content \cup {Absent} : RunLayers(written)

Spec == Init /\ [][Next]_vars
---------------------------------------------------------------------------
(* Properties                                                              *)

Files == UNION {[names -> Content] : names \in SUBSET Name}
Settings == [first_run : BOOLEAN, use : BOOLEAN, persistent : BOOLEAN,
             active : Name \cup {None}, initialised : SUBSET DOMAIN Builtin]

\* Types: in particular the active configuration, which the code keeps as a
\* pointer, is one of the list, and the tree has no current item that is not.
TypeOK ==
  /\ available \in Files
  /\ active \in DOMAIN available \cup {None}
  /\ environment \in Settings
  /\ current \in DOMAIN available \cup {None}
  /\ last \in Name \cup {None}
  /\ files \in Files
  /\ old \in Files
  /\ settings \in Settings
  /\ override \in Content \cup {Absent}
  /\ crashed \in BOOLEAN
  /\ process \in {"none", "running", "closed", "killed", "aborted"}
  /\ saved \in Files
  /\ chosen \in Name \cup {None}
  /\ removed \subseteq Name

\* What applications are promised by a configuration that is shown as active.
Promised(content) == IF content \in Overriding THEN content ELSE Absent

\* The override is that of the active configuration.
InSync == override = IF active = None THEN Absent ELSE Promised(available[active])

\* Whatever the user does to the configurations, the layers that applications
\* get are those of the configuration that the window shows as active; only
\* Reset, and a signal, part the two.
StaysInSync ==
  [][Running /\ process' = "running" /\ InSync
     => InSync' \/ ResetClicked \/ Interrupt]_vars

\* What a clean exit saved is there, with its content, in every later run:
\* after a kill, a crash or a first run that was cut short, and until the user
\* deletes it.  A `reset --soft` preserves what has a name of the user's; of
\* the built-in configurations, which its help line promises to reset, nothing
\* is said once it has run.
SavedComeBack ==
  [][~Running /\ process' = "running"
     => \A name \in DOMAIN saved' :
          name \in DOMAIN available' /\ available'[name] = saved'[name]]_vars

\* A configuration that the user removed does not come back from a file of this
\* or of an older version.
RemovedStaysRemoved == Running => removed \cap DOMAIN available = {}

\* After a clean exit, the next run has the same active configuration and
\* overrides the same layers, whatever the command line overrode meanwhile,
\* unless a reset was asked for that is to change that configuration.
ActiveComesBack ==
  [][process = "closed" /\ process' = "running" /\ ~crashed
       /\ settings.use /\ chosen \in DOMAIN saved
     => active' = chosen /\ override' = Promised(saved[chosen])]_vars
=============================================================================
