# A TLA+ verification of VulkanTools

VulkanTools is a set of Vulkan layers (`layersvt/`), a graphical tool that configures which
layers applications run with (`vkconfig/` on top of the library `vkconfig_core/`), a report of
the Vulkan installation (`via/`) and generators. This project models the parts that keep state
and whose mistakes depend on the order of calls, on what fails, or on what is found on the
system; it checks the models with TLC and proves the most important results with TLAPS. Paths
below are relative to `src/`.

## The system

| part | state | operations | hard part | what makes it correct |
|---|---|---|---|---|
| screenshot layer, schedule (`layersvt/screenshot.cpp`, `screenshot_parsing.cpp`) | list and range of frames still to capture, `frameNumber`, received flag; process-wide | `vkCreateInstance` reads the option, `vkQueuePresentKHR` consumes the schedule | several instances re-arm it; three early returns stop the layer from tracking | exactly the frames asked for are captured; nothing is dropped while one is left |
| screenshot layer, tracked objects (`layersvt/screenshot.cpp`) | `dispatchMap`, `deviceMap`, `physDeviceMap`, `swapchainMap`, `imageMap` keyed by handles | ten hooked calls | handles are reused by the driver, entries are not removed with their objects, maps are freed at the last frame | presents never fault; a screenshot describes its own image |
| screenshot layer, writing (`writePPM`) | up to eight Vulkan objects, the layouts of three images, work on the queues | some twenty Vulkan calls inside a present | each call may fail, some results are only asserted; three ways through the device | the present is undisturbed, images are in the layouts commands name, the file shows the frame |
| device_simulation layer (`layersvt/device_simulation.cpp`) | `PhysicalDeviceData` by device, `pdd_initialized`, settings, the files read | enumeration, the queries of properties, features, limits, formats, queues, memory and extensions | values travel between structures of several versions; entries follow instances; queries in two steps outside the lock | a device answers what the files ask for, the same for as long as it is held, and no query of an application that enumerates its devices first ends it |
| `via/` | the report being printed, the verdict, two instances and their devices, the environment it cuts with `strtok` | nine steps of reading the system, four of calling Vulkan, the tests; on four systems | rows and tables are begun and ended by hand, findings are shared between manifests, one failure of several counts | the report is a document, what is created is destroyed, the verdict is earned |
| other layers (`monitor.cpp`, `api_dump.h`, `vk_layer_table.cpp`) | tables by dispatch key, counters of frames | hooked calls | stale tables of reused keys | a call reaches its own instance or device |
| configurations (`vkconfig_core/configuration_manager.cpp`, `configuration.cpp`) | `available_configurations`, `active_configuration`, configuration files of three versions | load, create, import, rename, edit, reset, remove, save | names are keys, files, and made by parsing other names | names are unique; files and list agree across runs |
| layers and parameters (`layer_manager.cpp`, `parameter.cpp`, `vkconfig/dialog_layers.cpp`, `dialog_custom_paths.cpp`) | the layers found, the custom paths, the parameters of a configuration and the copy a dialog works on | load, sort, choose a state, move up and down, reset, add and remove a path, accept, cancel | a comparator that is no strict weak order; layers that go missing under an open dialog | what the user asks for is kept, in the order asked for |
| environment (`vkconfig_core/environment.cpp`) | first run, override mode, name of the active configuration, applications; saved by a destructor | `Set`, `SetMode`, `Reset`, `Load`, `Save` | saved only on clean exit, deletes everything on a first run | the next run continues where this one ended |
| override (`vkconfig_core/override.cpp`) | `VkLayer_override.json`, `vk_layer_settings.txt`, read by the loader | `OverrideConfiguration`, `SurrenderConfiguration` | two files, not written atomically; every handler must remember to write them | applications get the layers of the active configuration, from where they are |
| window (`vkconfig/mainwindow.cpp`, dialogs, `settings_tree.cpp`) | the tree with its current item, `_last_item` | some twenty handlers | Qt signals call handlers from handlers; dialogs edit what callers hold | no handler fails; what is shown is what is written |
| command line and signals (`vkconfig/main_*.cpp`) | none of their own: they build an environment of their own | `reset`, `layers`, SIGINT and SIGABRT handlers | run next to the window, without the single-instance lock | leave settings alone |
| `layer_factory/`, `scripts/`, `tests/`, `external/` | none | | generators, vendored code | not modelled |

The window calls the configuration manager, which reads and writes the environment and calls
the override functions; layers and applications meet vkconfig only through the override files.
The layers share nothing with vkconfig but their settings file, and `via` shares nothing with
either. `PROJECT.json` lists every component with its status and every hazard with the line
where it bites.

## Modules

Screenshot layer:

* `ScreenshotRange`: the parsing of the range option and the predicates on ranges, as operators.
* `ScreenshotFrames`: the schedule as a state machine, with `vkCreateInstance` and
  `vkQueuePresentKHR`. It implements `FrameCapture`, which only says which frames an option asks
  for and that each present of such a frame captures it, when it carries a swapchain (`carried`),
  while no other present does.
* `Screenshot`: the maps, one action for each hooked call, an application that makes any legal
  call and a driver that gives out any free handle. It instantiates `ScreenshotFrames` (as
  `Frames`) for the schedule.
* `WritePPM`: one screenshot, one action per Vulkan call of `writePPM`, next to a device that
  executes what is submitted in its own time.

device_simulation layer:

* `DevsimData`: what is simulated of one device, as operators: the sections of the files, the
  defaults, the copies between structures, the arrays and the two-call idiom.
* `DeviceSimulation`: instances, devices, the table of simulated devices, the settings, and
  threads in the queries of two steps.

via:

* `ViaReport`: the report as what has been printed, in the two formats, HTML and JSON, with the
  counters that place the commas.
* `ViaLayers`, `ViaUnix`: what is printed of manifests, and what Linux, BSD and macOS share.
* `ViaLinux`, `ViaBSD`, `ViaMacos`, `ViaWindows`: the nine steps of each system, as operators that
  return what is printed, the result, and the environment afterwards.
* `Via`: one run. Each step is an action that meets anything the system may hold.

vkconfig:

* `ConfigurationNames`: `MakeConfigurationName` with the number read as `int`, returned as
  `size_t` and printed with `%d`, and every operation on the list. It implements
  `ConfigurationStore`, a store of contents by name.
* `Configurator`: the window, the manager, the environment, the override and the command line.
  The code is sequential and handlers call long chains of functions that change several objects,
  so each function is an operator from state record to state record under its name in the source,
  and a handler is an action that applies a chain to the current state. The name that
  `MakeConfigurationName` makes is any free one, which `ConfigurationNames` justifies.
* `Parameters`: the layers found and the order of parameters, with `std::sort` as the insertion
  sort it is for up to sixteen elements.
* `LayersDialog`: the dialog of the layers and the one of the custom paths it opens, on the active
  configuration, with the content of `VkLayer_override.json`.

`MC*` modules give TLC its constants. `ScreenshotFramesProofs`, `ScreenshotProofs`,
`WritePPMProofs`, `DeviceSimulationProofs`, `ViaProofs`, `ConfigurationNamesProofs`,
`ConfiguratorProofs` and `LayersDialogProofs` hold the theorems about the modules they extend.
Operators named `X_something`, after a comment that begins with "Slip", are plausible mistakes in
`X`. Each is used to see that a property notices it; none is used by a specification.

### Correspondence to the code

`Screenshot`: variables have the names of the globals at `screenshot.cpp:114-186`. A map entry that
points to a deleted table names the device the table was allocated for. Assertions that fail and
entries that are missing set `fault`. The application side (`live`, `queues`, `owner`,
`swapchains`) is what the Vulkan specification lets a caller know. One thread calls the layer, so
an intercepted call is one step; `writePPM` appears as the lookups that can fail, the queue it
finds or gives up without, and the table of its command buffer. `physDeviceMap` is filled by a
complete enumeration. `captures` records, for each screenshot, the swapchain it was described by
and the one it was taken from. `NDEBUG` chooses whether the assertions of the code are built in.

`WritePPM`: `live` holds the fields of `WritePPMCleanupData` that are set. A call that fails ends a
debug build at its assertion; a release build returns where the code looks at `err` and goes on
where it does not, which ends as "undefined" when the next call uses what was not made. `commands`
is the command buffer, which the device executes one command at a time (`executed`), checking
that each image is in the layout the command names. A format is its channels, its compatibility
class, its kind and the order of its channels. The application renders on the queue the screenshot
uses or on another one. A memory type that fits is always found. `pfn_dev_init` is the loader's
function that installs a dispatch table in the command buffer: its failure, too, is only asserted.

`DeviceSimulation`: `pdds` is the table, by device, `settings` the environment and what the files
say, `pdd_initialized` and `properties2` (`get_physical_device_properties2_active`) the two flags
of the process. A structure of Vulkan is one slot
with one value; which slots a file may set, which are filled from the driver and which are copied
to which is as in the code. `EnumerateDeviceExtensionProperties` is an action, unlike the queries
that only answer, because it may end the process: where the portability extension is emulated it
follows the entry of the device without a look whether there is one, and writes the last element
of the array without a look whether there is one ("null entry" and "out of bounds" in `fate`; the
write may also go unnoticed). `filling` is the device a thread has looked up and is still writing to.

`Via`: `env` holds the variables that `strtok` cuts as lists, so that cutting one leaves its first
entry; `report` is the text as the pieces of it that must match; a cell has no text. One list of
physical devices serves both instances, and the three ways `vkCreateInstance` fails have one
result, on which nothing depends. `slips`
records five places where a function is known to print a piece too many or too few. `failed` is
the set of steps that reported a failure, `results` the verdict that is kept of them.

`Configurator`: `available` is the vector, by name; `active` the name of the element that
`active_configuration` points to; `environment` and `settings` the same data in memory and in
QSettings; `files` and `old` the configuration files of this and of older versions; `current` and
`last` the current item of the tree and `_last_item`. `crashed` is the setting of that name. The
rest is history for the properties. `Abort` is what the debug build does at a failed assertion:
the SIGABRT handler surrenders the override, sets `crashed`, and the process ends. A name typed by
the user is any name. Every layer of every configuration is installed, and dialogs of the custom
paths are closed without a change: layers that come and go are the subject of `LayersDialog`.
The editor of a name is opened by the context menu, which saves the current item in `_last_item`
first (`SaveLastItem`), or by Duplicate or a key, which do not: `OnConfigurationItemChanged` allows
both. `saved` is what a clean exit
wrote and nobody has deleted, or asked to reset, since. The command lines of `layers` never touch
the settings: only `main_gui.cpp:33-41` and `main_reset.cpp:30-38` give Qt the names of the
organization and the application, without which the `QSettings` of an `Environment` elsewhere are
not those of the window.

`LayersDialog`: `saved` are the parameters of the configuration, `working` those of the dialog's
copy, `available` the layers found over `paths` and the standard folders, `source` what a reset
reloads (`NoFile` for a configuration that was never saved, whose reset is to zero). `here` is the
platform bit. The name and description in the dialog stay as they are, which `Configurator`
models. While the dialog of the custom paths is open any number of folders is added and removed,
and the copy is completed once, when it closes. `asked`, `chosen`, `refused`, `moved`, `known` and
`clicks` record what the user did.

## Runs

| run | instance | shows |
|---|---|---|
| `screenshot_schedule` | every shape of option (lists, ranges with 0-5 frames and intervals 0-3, malformed ones), 3 instances, 7 presents | the safety results of the schedule, and that it implements `FrameCapture`: all frames asked for and no other |
| `screenshot_schedule_ends` | the same options, one instance, 10 presents, fairness | a finite option ends |
| `screenshot_tracking` | 1 device, 3 handles, 2 swapchain and image handles, 3 swapchains, 3 presents, 2 instances | presents seen from the start are safe and captured, before and after the last frame |
| `screenshot_reused_handles` | two devices and swapchains whose handles are reused | entries follow the handle to its new owner |
| `write_ppm` | six formats of swapchains, three colour spaces, every device and build, two failing calls, fairness | the present is undisturbed, layouts fit, the file shows the frame, the present returns |
| `device_simulation` | two instances, a thread, drivers and files of each kind | an application is not brought down, where the driver lists an extension if one is emulated; devices answer as configured and stably |
| `via` | four systems, lists of up to two entries, every driver manifest, two physical devices | the report is well formed up to the text of its cells, what was made is destroyed, the verdict is earned |
| `names` | names `Foo`, `(2)`, `Foo (2)`, `Foo (2) (0)`, a word that `stoi` throws on; numbers of 3 bits; 5 operations | unique names, the store refinement |
| `window` | one built-in and one user name, three contents, one older file; no bound on steps | the override, restarts, resets and removals |
| `layers` | four layers, one implicit, one in a custom folder that also holds another version of the validation layer; a file with places given by hand; two clicks per opening, any number of openings | what is asked for is kept, in order, and found |
| `layers_refused`, `via_expired` | as `layers` and `via` | disagreements, below |

Bounds. The ranges of `screenshot_schedule` reach past their last frame within 7 presents, and a
third instance already re-arms a schedule that another had finished. Three handles are a device,
a queue and a command buffer; reuse needs one handle to change owner twice. Two failures in
`write_ppm` are both waits, or a failure in what an earlier one left. In `device_simulation` the
second instance meets the table and the flags of the first, and arrays of extensions have no or
one element, the two sizes the emulated one may meet. In `via` a list of two entries loses
one, and the second driver or device decides what the first did not. In `names`, three operations
make a duplicate of a duplicate, and five wrap nothing because numbers stay far from 7. `window`
has no bound: its state space is finite and complete for its constants. In `layers` openings of
the dialog follow each other without end, so the two clicks of each combine with all that went
before; the four layers are the two that the comparator names, one that sorts after them, and an
implicit one.

Deadlock is not checked where presents, calls or operations are bounded, where a run of `via` is
over, or where the program may die (`layers`, `write_ppm`): there the model stops. `window` cannot
stop and is checked for it.

### Disagreements

Two are runs that TLC refutes, with the line they contradict quoted in `PROJECT.json` "findings":

* `layers_refused`: the answer No to "Do you want to continue?" sets the implicit layer back, and
  the next statement excludes it all the same (`dialog_layers.cpp:474,480`).
* `via_expired`: `CheckExpiration` answers whether a layer is still valid; the answer is taken as
  "expired" and, in the next line, as "enabled" (`via_system.cpp:1943`). The dates are compared
  field by field as well (`via_system_linux.cpp:1459`).

The models reach more than a run singles out:

* Schedule. An unlimited range ignores its start frame (`screenshot.cpp:218`), where
  `screenshot_parsing.cpp:56` says "all frames from startFrame".
* Tracking. `vkDestroyDevice` leaves the device's `dispatchMap` entry, and the assertion of the
  next `vkCreateDevice` fails (`screenshot.cpp:1131`). A queue obtained after the last frame
  asserts in its first present (`:1320`). A command buffer whose handle belonged to a destroyed
  device is recorded through its deleted table (`:846`), and a queue that is not graphics capable
  is used when there is no other (`:476`).
* Writing. A release build goes on after a failed pool, begin, end or submit: what follows is
  undefined, or the file holds garbage, although the comment at `screenshot.cpp:515` says that it
  "should silently fail". The copy waits for none of the semaphores of the present, so that a
  frame rendered on another queue may be missed (`:989`). A user who asks for UINT or SINT of a
  float format gets a blit that Vulkan does not define.
* device_simulation. Where the portability extension is emulated and the list that is handed out is
  empty, `vkEnumerateDeviceExtensionProperties` writes the element before the array (`:2793`), and
  on a device without an entry it follows a null pointer (`:2791`). `NeverDies` therefore assumes
  that the driver lists an extension where one is emulated (`PlaceForPortability`), and speaks of an
  application that creates one instance and enumerates its devices first. `pdd_initialized` is set
  once: later instances are not simulated (`device_simulation.cpp:3170`). The structures of Vulkan 1.1 and 1.2 are written with zeros for
  extensions the driver does not list.
* via. `strtok` on LD_LIBRARY_PATH inside `strtok` on VK_ICD_FILENAMES loses the files after the
  first that is searched for (`via_system_linux.cpp:434`). A device that fails is forgiven when
  another is made. The cleanup indexes devices that were never made (`via_system.cpp:1137`). A report
  is malformed after: a disk in gigabytes on BSD; a runtime that is used on BSD; a runtime link that
  cannot be read; a failed query of physical devices; a test that is not found. The text of cells
  comes on top: `via_system.cpp:1516-1521` escapes nothing, and cells with line breaks (the output of
  `df` at `via_system_bsd.cpp:266`, of `ldconfig` at `via_system_linux.cpp:567`, the messages of the
  JSON parser at `:490`) or with quotes are no strict JSON. The queue families of the second
  instance's devices are counted through the first one's at the same index
  (`via_system.cpp:986`), which need not exist.
* Names. After a user types "Foo (-2)", two duplicates of it are both called "Foo (-1)":
  `ExtractDuplicateNumber` turns the number into the value of `NOT_FOUND` (`configuration.cpp:547`).
* Window. Renaming the active configuration in the dialog that the context menu opens aborts
  (`settings_tree.cpp:62`). Closing the dialog of the custom paths activates a configuration
  clicked earlier (`mainwindow.cpp:730`), and with applications in control of their layers it
  still writes an override. Rename deletes the file of this version only, so that an older file
  brings the name back (`:506`). Reset leaves the override as it was, which `StaysInSync` therefore
  exempts (`:836`). After a SIGINT, a clean exit counts as a crash (`main_signal.cpp:36`).
  `reset --soft` adds missing default configurations and resets none
  (`configuration_manager.cpp:291`, `main_reset.cpp:62`), although its help says "Reset all default
  configurations, all user-defined configuration will be preserved" (`command_line.cpp:377`).
  `SavedComeBack` and `ActiveComesBack` require neither of the two: after it they are about the
  configurations of the user.
* Layers. The order is kept only while layers neither come nor go: a missing layer sorts before
  the others and loses its place, and a layer without a place among layers with one makes the
  comparator intransitive, which is why `OrderSettled` and `MovesAsAsked` leave these cases out.
  Up and Down across the border between implicit and other layers have no effect. Reset to zero
  follows a null pointer when a layer of the copy is missing (`configuration.cpp:489`).
  "device_simulation requires being executed close to the Vulkan drivers" (`dialog_layers.cpp:450`),
  but when its folder is a custom path that is removed, it sorts first and is given the first place
  (`parameter.cpp:99`); when the folder is added again its place counts and it is executed first.
  `DevsimLast` fails in `LayersDialog` with the layer in the custom folder alone; in `layers` it is in
  a standard folder.

## Fairness

`screenshot_schedule_ends` uses weak fairness of `QueuePresentKHR` once an instance exists. It is
an assumption on the application, not on the layer: one that renders presents again and again,
and the layer's part of each present is finite. `vkCreateInstance` is not fair. With more than one
instance the schedule may be re-armed for ever, so the run has one.

`write_ppm` uses weak fairness of the thread, which is inside the present and runs on, and of each
queue of the device, which Vulkan obliges to finish what was submitted. Presents are not fair.

## Proofs

The theorems hold for every value of the constants that satisfies the named assumptions of the
modules, which TLC evaluates on the instances it runs.

`ScreenshotFramesProofs`, for every set of options and every bound:
type correctness; `DoneMeansDone`; `LastShotIsLast`; and `CapturesAsPromised`, the refinement of
`FrameCapture`, for options without a late unlimited range. The range
`isInScreenShotFrameRange` looks at is mutable, while `FrameCapture` speaks of the option, so none
of them is inductive. `Serving` relates the two: once an instance exists, the list holds every
frame of the option that is not past, and the range is the option's until its last frame is past,
never less. `RangeOf` is what the first instance parses; the structure is parsed into again by the
next, and an option that is refused leaves in it what `sscanf` had assigned, zero and negative
intervals included, so that `ParsedAgain` is needed to say that the result is the same, and the
types ask for a positive interval only where the range is valid. Each present keeps it because the range is invalidated exactly at
`getEndFrameOfRange`, which lemmas on ranges establish without TLC's bounds.

`ScreenshotProofs`, for any handles and any number of devices, swapchains and presents: all five
invariants of `Screenshot`. The argument has two halves, before and after the last frame. Until
then (`DevicesTracked`, `QueuesTracked`, `SwapchainsTracked`) each live object has the entries of
its owner, and what the application was told of it is what the layer holds. Afterwards
(`Done`) the schedule is never due again, so that no present looks at what was freed.
`Scheduled` and `RangeOver` tie the halves to the variables of the schedule. `SeenPresentsSurvive`
alone assumes `~ReuseHandles`: then an entry of a handle is always its owner's (`EntriesOwned`).
`screenshot_reused_handles` shows what remains true without it.

`WritePPMProofs`, for all formats, colour spaces and numbers of failures: every property but
`Returns`. `PresentUndisturbed` needs `InFlight`, which says where the copy may be at each step:
nowhere before the submit, and after each wait nowhere unless that wait failed. `LayoutsFit` and
`FileShowsFrame` follow from `Kept`: before the recording there are no commands, afterwards all of
one of the three ways through the device (`Recorded`); they run once, behind the rendering when
both use one queue (`Queued`); and the images are what the first `executed` of them make of a frame
(`Expected`, `Staged`), whatever failed on the way.

`DeviceSimulationProofs`, for any driver, files, devices and threads: every property. `NeverDies`
says of an application with one instance that enumerates its devices first that no query ends it.
`Served` says that each device it holds has an entry, `NothingYet` that before the instance there
is no thread in a query and no entry, and `OneInstance` that nothing erases an entry while a
thread fills it. `PlaceIsThere` says that an emulated extension finds a place, from the types of
the lists and `PlaceForPortability`. The answers need `Recorded`: the settings do not change after the first instance
(`SettingsRead`), and each entry is what the files make of the driver's values (`Described`), with
the functions of properties2 when its instance enables them. In a regular run an entry therefore
never is one of an old instance with the same handle. `Described` is a fold over the files.
`LastFileDecides` says what it computes: the values of the last file that has a section, whatever
the files before it held; `Folding` and `FoldInStages` follow the fold file by file.

`ViaProofs`, for any system, environment, folders, layers and number of devices: every property of
`via`, from two invariants. `AllReleased` and `SuccessIsEarned` need `IInv` only: `VulkanKnown` says
what is known of the two instances and their devices at each phase, and `VerdictKept` that the
verdict is a success exactly as long as no step reported a failure. What the steps before Vulkan
print and find does not matter to either. `WellFormedReport`, `DriverVerdict` and `TypeOK` need
`RInv`, which says what is left of the environment (`EnvironmentKept`: prefixes of what it was) and
what the report is between two functions: an open document (`InDocument`), unless one of the five
slips happened. Each step of each system prints only whole tables of rows (`Sound`) or slips, so
that its report stays a document (`ReportsFit`). Lists of any length are printed and read by folds;
`WrittenInStages` and `ManifestsReadInStages` follow them element by element, and `AllRead` and
`Finds` say what a search of manifests has found at its end. `DriverVerdict` speaks of at most
one file of VK_ICD_FILENAMES and one folder of LD_LIBRARY_PATH: then `strtok` loses no file
(`FilesAreRead`). Folders and the manifests in them are of any number, and so are the layers. The
assumptions on the constants of `Via` give the types of its inputs and nothing more.

`ConfigurationNamesProofs`: `TypeOK`, for numbers of any width, which wrap but stay integers; and
under `PositiveNumbersUpTo(max)`, which says that numbers in the names
users type lie in `1 .. max`, with `max + MaxOperations + 1 < IntMax`, and that no last word is one
`stoi` throws on, `NoDuplicate` and `KeptByName`, for any words, contents and widths. `Bounded`,
the inductive invariant, adds to `NoDuplicate` that after `n` operations no number exceeds
`max + n + 1`. It is needed because a name is free only if the number after the largest one prints
as itself. `MadeNameIsFree` is the heart: names that share the base have numbers below the new one.
`BoundedSetHasMaximum` gives the maximum that `std::max` computes, by well-founded induction on the
naturals.

`ConfiguratorProofs`, for any names and contents: every property. `Invariant` joins what relates
the memory of the window to the disk: `active` is the name in the settings (`Stored`), a removed
configuration has no file of any version (`Gone`), a saved one has a file of this version with
what was saved (`Kept`), the first run is over once anything was saved (`NoLongerFirst`), and the
settings on disk name the configuration chosen at a clean exit (`Chosen`). Handlers are chains of
functions. A lemma for each function says what it keeps of a state of the running window (`Good`),
and `Outcome` what a handler may end in, from which `Moves` concludes for the whole step.
`RemovedStaysRemoved` is not inductive without `Gone`, nor `SavedComeBack` and `ActiveComesBack`
without `Kept` and `Chosen`, because what they promise is only read back at the next start.

`LayersDialogProofs`, for any layers, folders, files and clicks and any number of them: every
property of `layers`. Lists are loaded, selected and sorted by folds, and what these compute has
to be known before anything can be said of the dialog. A selection is an increasing enumeration
of the places of its list (`OnlyShows`), which makes it unique (`ShownOnce`, `NamedOnce`). The
sort inserts one parameter after the other (`Fits`, `SortFollows`), permutes the list
(`SortPermutes`), and keeps those relations that an insertion keeps: the numbers of
`GetParameterOrdering` follow each other (`ByClass`) for every list, although the comparator is
no strict weak order; the places do (`ByRank`) where every overridden layer is found and has a
place of its own; and device_simulation is behind the others (`DevsimBehind`) where no place puts
another behind it. Two lists of the same elements in the order of one asymmetric relation are
equal (`OneOrder`). That compares the sort of a list with what the user asked for: for
`OrderSettled` with the list before, for `MovesAsAsked` with the list in which two neighbours
have changed places. The inductive invariant `IInv` says that the copy is in the order of the
layers that are there and has a parameter for each, the configuration in the order of those it
was last ordered with (`known`), that a fresh copy is what `BuildParameters` made of the
configuration, that choices are kept, and that the override is the one of the configuration
saved. `DevsimLast` needs `DevsimHolds` as well, that no place given so far is behind the one of
device_simulation, and `DevsimInstalled`, that device_simulation is an explicit layer of a
standard folder: in a custom path it can go missing and come back with the first place, as told
above. `FilesAssumption` says of the files that they are what vkconfig writes, with one parameter
for each layer at most and none left to the application; a file edited by hand is outside of it,
but for the places in it. `SortInsert` is `std::sort` up to sixteen elements; for longer lists
the theorems are about that sort, not about the library's.

Only model-checked: `Disarms` and `Returns`, which are liveness. The induction theorems of the library
take an operator as a parameter and cannot be used, so proofs that need induction build it from
the least element of a set of naturals (`LeastNumber`, `InductionOnSet`).

## Not modelled, and why

Threads in the screenshot layer, whose unlocked reads are data races on `std::unordered_map`; the
list of applications and the scope of the override; the two steps of writing the override; a
second process next to the window, and the socket that should prevent it; SIGSEGV, whose handler
returns to the instruction that faulted. In names: a word that only continues the last word of
another name ("Foobar" for "Foo"), text after the number, and a parenthesis without a blank before
it. In device_simulation: surfaces, the tool properties, and the members of structures one by one.
Parsing and printing of JSON, the typed settings of layers, widgets, generators, builds and
vendored code have no state that these properties could be about. `api_dump.h` (the ranges of
frames, the opening and closing of frames in its documents, the tables of command buffers) is left
for later: the calls that drive it are generated when it is built, from templates in `scripts/`.
So are the tables by dispatch key of `monitor`; its rate of frames would need a model of time.

## Plan

1. `Override`: the two files and the loader that reads between their steps, refined to the single
   step of `Configurator`; the scope of the override and the list of applications.
2. `ApplicationSingleton`: two processes, the timeout, and `reset` next to an open window.
3. Threads and `globalLock` in `Screenshot`.
4. `vk_layer_table` with reused keys under `monitor`; the ranges of frames of `api_dump`.
