-------------------------------- MODULE Via --------------------------------
(***************************************************************************)
(* One run of via: it describes the system in nine steps that differ from  *)
(* system to system, then calls Vulkan, then runs the cube of the SDK, and *)
(* writes a report and a verdict.                                          *)
(*                                                                         *)
(* What the system answers is chosen as each step asks.  The environment   *)
(* and the drivers it names are fixed at the start, and via itself changes *)
(* the environment.                                                        *)
(***************************************************************************)
EXTENDS ViaUnix, FiniteSets

CONSTANTS Systems,        \* the systems considered
          Environments,   \* the environments via may start in
          DriverFolders,  \* what the folders, or the registry, hold
          Layers,         \* the implicit layers considered
          Now,            \* the date
          MaxGpus         \* the number of physical devices

ASSUME SystemsAssumption == Systems \subseteq {"linux", "bsd", "macos", "windows"}
ASSUME GpusAssumption == MaxGpus \in Nat
\* The lists of the environment and the folders hold manifests, or names of folders.
ASSUME EnvironmentsAssumption ==
    Environments \subseteq [icds : Seq(Manifests), drivers : Seq(Seq(Manifests)), libs : Nat,
                            layers : Seq(STRING)]
ASSUME DriverFoldersAssumption == DriverFolders \subseteq Seq(Seq(Manifests))
ASSUME LayersAssumption == \A layer \in Layers : layer.overrides \in Seq(Seq(LayerManifests))

Linux == INSTANCE ViaLinux
BSD == INSTANCE ViaBSD
Macos == INSTANCE ViaMacos
Windows == INSTANCE ViaWindows

VARIABLES os, run_cube_tests,
          start,         \* the environment and the drivers via started with
          env,           \* the environment now
          phase,         \* the step that comes next
          report, results,
          found_sdk, ran_tests,
          overrides,     \* _layer_override_search_path
          one, max,      \* _vulkan_1_0_info and _vulkan_max_info
          shown,         \* observer: the implicit layer just printed, and how
          failed,        \* observer: the steps that reported a failure
          slips          \* observer: what put the report out of order

vars == <<os, run_cube_tests, start, env, phase, report, results, found_sdk, ran_tests,
          overrides, one, max, shown, failed, slips>>
options == <<os, run_cube_tests, start>>
vulkan == <<one, max>>
findings == <<found_sdk, ran_tests, overrides, shown>>

(***************************************************************************)
(* An instance: its state, the version of Vulkan it was made for and the   *)
(* one its devices are made for (the minor version), its list of physical  *)
(* devices and the devices made from them.                                 *)
(***************************************************************************)
NoVulkan == [instance |-> "none", max_api_version |-> 0, desired_api_version |-> 0,
             gpus |-> 0, devices |-> << >>]
NoLayer == [layer |-> << >>, state |-> "none"]

(***************************************************************************)
(* The report is opened where the options say, else in the home folder.    *)
(***************************************************************************)
Init ==
    /\ os \in Systems /\ run_cube_tests \in BOOLEAN
    /\ start \in [env : Environments, drivers : DriverFolders]
    /\ env = start.env
    /\ phase = "environment"
    /\ \E format \in Formats : report = StartOutput(format)
    /\ results = "SUCCESSFUL" /\ found_sdk = FALSE /\ ran_tests = FALSE /\ overrides = << >>
    /\ one = NoVulkan /\ max = NoVulkan
    /\ shown = NoLayer /\ failed = {} /\ slips = {}

(***************************************************************************)
(* The end of a step of GenerateSystemInfo: the last failure is kept.      *)
(***************************************************************************)
\* Slip: the result of the last step is kept, a failure or not.
Reports_last(outcome, next) ==
    /\ report' = Written(report, outcome.script)
    /\ results' = outcome.result
    /\ failed' = IF outcome.result = "SUCCESSFUL" THEN failed ELSE failed \cup {phase}
    /\ phase' = next
Reports(outcome, next) ==
    /\ report' = Written(report, outcome.script)
    /\ results' = IF outcome.result = "SUCCESSFUL" THEN results ELSE outcome.result
    /\ failed' = IF outcome.result = "SUCCESSFUL" THEN failed ELSE failed \cup {phase}
    /\ phase' = next

PrintSystemEnvironmentInfo ==
    /\ phase = "environment"
    /\ \E release, uname \in BOOLEAN :
          Reports(CASE os = "linux" -> Linux!PrintSystemEnvironmentInfo(release, uname)
                    [] os = "bsd" -> BSD!PrintSystemEnvironmentInfo(uname)
                    [] os = "macos" -> Macos!PrintSystemEnvironmentInfo(release, uname)
                    [] os = "windows" -> Windows!PrintSystemEnvironmentInfo(release), "hardware")
    /\ UNCHANGED <<options, env, findings, vulkan, slips>>

PrintSystemHardwareInfo ==
    /\ phase = "hardware"
    /\ \E disk \in {"unknown", "TB", "GB"} :
          /\ Reports(CASE os = "linux" -> Linux!PrintSystemHardwareInfo(disk)
                       [] os = "bsd" -> BSD!PrintSystemHardwareInfo(disk)
                       [] os = "macos" -> Macos!PrintSystemHardwareInfo(disk)
                       [] os = "windows" -> Windows!PrintSystemHardwareInfo(disk), "executable")
          /\ slips' = IF os = "bsd" /\ disk = "GB" THEN slips \cup {"gigabytes"} ELSE slips
    /\ UNCHANGED <<options, env, findings, vulkan>>

PrintSystemExecutableInfo ==
    /\ phase = "executable"
    /\ Reports(CASE os = "linux" -> Linux!PrintSystemExecutableInfo
                 [] os = "bsd" -> BSD!PrintSystemExecutableInfo
                 [] os = "macos" -> Macos!PrintSystemExecutableInfo
                 [] os = "windows" -> Windows!PrintSystemExecutableInfo, "driver")
    /\ UNCHANGED <<options, env, findings, vulkan, slips>>

PrintSystemDriverInfo ==
    LET outcome == CASE os = "linux" -> Linux!PrintSystemDriverInfo(env, start.drivers)
                     [] os = "bsd" -> BSD!PrintSystemDriverInfo(env, start.drivers)
                     [] os = "macos" -> Macos!PrintSystemDriverInfo(env, start.drivers)
                     [] os = "windows" -> Windows!PrintSystemDriverInfo(env, start.drivers)
    IN /\ phase = "driver"
       /\ Reports(outcome, "loader")
       /\ env' = outcome.env
       /\ UNCHANGED <<options, found_sdk, ran_tests, overrides, shown, vulkan, slips>>

\* Runtimes are looked for in every folder, those of LD_LIBRARY_PATH included.
PrintSystemLoaderInfo ==
    /\ phase = "loader"
    /\ \E folder \in RuntimeFolders, used \in RuntimesUsed :
          LET folders == <<folder, "link">> IN
          /\ Reports(CASE os = "linux" -> Linux!PrintSystemLoaderInfo(folders, used)
                       [] os = "bsd" -> BSD!PrintSystemLoaderInfo(folders, used)
                       [] os = "macos" -> Macos!PrintSystemLoaderInfo(folders, used)
                       [] os = "windows" -> Windows!PrintSystemLoaderInfo(used = "link"), "sdk")
          /\ slips' = slips
                 \cup (IF os # "windows" /\ "no link" \in {folder, used} THEN {"link"} ELSE {})
                 \cup (IF os = "bsd" /\ used # "unknown" THEN {"own runtime"} ELSE {})
    /\ env' = IF os = "windows" THEN env ELSE [env EXCEPT !.libs = AtMostOne(@)]
    /\ UNCHANGED <<options, findings, vulkan>>

PrintSystemSdkInfo ==
    /\ phase = "sdk"
    /\ \E variable \in {"unset", "nothing", "layers"}, packaged \in BOOLEAN :
          LET outcome == CASE os = "linux" -> Linux!PrintSystemSdkInfo(variable, packaged)
                           [] os = "bsd" -> BSD!PrintSystemSdkInfo(variable, packaged)
                           [] os = "macos" -> Macos!PrintSystemSdkInfo(variable, packaged)
                           [] os = "windows" -> Windows!PrintSystemSdkInfo(variable)
          IN Reports(outcome, "implicit") /\ found_sdk' = outcome.found_sdk
    /\ UNCHANGED <<options, env, ran_tests, overrides, shown, vulkan, slips>>

PrintSystemImplicitLayerInfo ==
    /\ phase = "implicit"
    /\ \E layer \in Layers :
          /\ Reports(CASE os = "linux" -> Linux!PrintSystemImplicitLayerInfo(layer)
                       [] os = "bsd" -> BSD!PrintSystemImplicitLayerInfo(layer)
                       [] os = "macos" -> Macos!PrintSystemImplicitLayerInfo(layer)
                       [] os = "windows" -> Windows!PrintSystemImplicitLayerInfo(layer), "explicit")
          /\ overrides' = IF layer.readable THEN overrides \o layer.overrides ELSE overrides
          /\ shown' = IF ~layer.readable THEN shown
                      ELSE [layer |-> layer, state |-> EnabledState(layer, Now)]
    /\ UNCHANGED <<options, env, found_sdk, ran_tests, vulkan, slips>>

PrintSystemExplicitLayerInfo ==
    /\ phase = "explicit"
    /\ \E standard \in {<< >>, <<"unreadable", "library">>, <<"no layer">>} :
          LET outcome == CASE os = "linux" -> Linux!PrintSystemExplicitLayerInfo(overrides, env, standard)
                           [] os = "bsd" -> BSD!PrintSystemExplicitLayerInfo(overrides, env, standard)
                           [] os = "macos" -> Macos!PrintSystemExplicitLayerInfo(overrides, env, standard)
                           [] os = "windows" -> Windows!PrintSystemExplicitLayerInfo(overrides, env)
          IN /\ Reports(outcome, "settings")
             /\ env' = outcome.env
    /\ shown' = NoLayer
    /\ UNCHANGED <<options, found_sdk, ran_tests, overrides, vulkan, slips>>

(***************************************************************************)
(* The last of the nine: Vulkan is called only when none of them failed.   *)
(***************************************************************************)
PrintSystemSettingsFileInfo ==
    /\ phase = "settings"
    /\ \E path_set \in BOOLEAN, layers \in 0..1 :
          Reports(CASE os = "linux" -> Linux!PrintSystemSettingsFileInfo(path_set, layers)
                    [] os = "bsd" -> BSD!PrintSystemSettingsFileInfo(path_set, layers)
                    [] os = "macos" -> Macos!PrintSystemSettingsFileInfo(path_set, layers)
                    [] os = "windows" -> Windows!PrintSystemSettingsFileInfo(path_set, layers),
                  IF results = "SUCCESSFUL" THEN "instance" ELSE "end")
    /\ UNCHANGED <<options, env, findings, vulkan, slips>>

(***************************************************************************)
(* GenerateInstanceInfo: an instance of Vulkan 1.0 and, when the loader    *)
(* tells its version, one of that version.  Each failure replaces the one  *)
(* before.  When it fails nothing is cleaned up.                           *)
(***************************************************************************)
GenerateInstanceInfo ==
    /\ phase = "instance"
    /\ \E extensions, made, made_max \in BOOLEAN, version \in {-1, 0, 1} :
          LET result == IF ~made \/ (version >= 0 /\ ~made_max)
                        THEN "VULKAN_FAILED_CREATE_INSTANCE"
                        ELSE IF ~extensions THEN "VULKAN_CANT_FIND_EXTENSIONS" ELSE "SUCCESSFUL"
          IN /\ Reports([script |-> Table(Row \o Row \o Row), result |-> result],
                        IF result = "SUCCESSFUL" THEN "physical" ELSE "end")
             /\ one' = IF made THEN [one EXCEPT !.instance = "live"] ELSE one
             /\ max' = IF version < 0 THEN max
                       ELSE [max EXCEPT !.max_api_version = version,
                                        !.instance = IF made_max THEN "live" ELSE @]
    /\ UNCHANGED <<options, env, findings, slips>>

(***************************************************************************)
(* GeneratePhysDevInfo.  answer: whether the devices of the 1.0 instance   *)
(* can be counted and listed, and their extensions; answer_max: the same   *)
(* for the other instance.  A list that fails goes past the end of the     *)
(* table.  Devices whose version is the lower of the instance's and the    *)
(* highest device's are kept for the other instance.                       *)
(***************************************************************************)
HasMax == max.instance = "live" /\ max.max_api_version >= 1
Highest(versions) == IF 1 \in Range(versions) THEN 1 ELSE 0
Lower(a, b) == IF a < b THEN a ELSE b

PhysDevFails(answer, answer_max) == answer \in {"no count", "no list"} \/ (HasMax /\ ~answer_max)

\* Slip: what was made is cleaned up after a success only.
AfterPhysDevInfo_noCleanup(result) == IF result = "SUCCESSFUL" THEN "logical" ELSE "end"
AfterPhysDevInfo(result) == IF result = "SUCCESSFUL" THEN "logical" ELSE "cleanup"

GeneratePhysDevInfo ==
    /\ phase = "physical"
    /\ \E versions \in UNION {[1..n -> 0..1] : n \in 0..MaxGpus},
          answer \in {"no count", "no list", "no extensions", "all"}, answer_max \in BOOLEAN :
          LET fails   == PhysDevFails(answer, answer_max)
              overall == Lower(max.max_api_version, Highest(versions))
              result  == IF fails THEN "VULKAN_CANT_FIND_DRIVER"
                         ELSE IF answer = "no extensions" /\ versions # << >>
                         THEN "VULKAN_CANT_FIND_EXTENSIONS" ELSE "SUCCESSFUL"
          IN /\ Reports([script |-> IF fails THEN <<"table">> \o Row \o Row ELSE Table(Row \o Row),
                         result |-> result],
                        AfterPhysDevInfo(result))
             /\ one' = IF answer = "no count" THEN one ELSE [one EXCEPT !.gpus = Len(versions)]
             /\ max' = IF fails \/ ~HasMax THEN max
                       ELSE [max EXCEPT !.desired_api_version = overall,
                                        !.gpus = IF overall = 0 THEN 0
                                                 ELSE Cardinality({g \in DOMAIN versions : versions[g] = overall})]
             /\ slips' = IF fails THEN slips \cup {"physical"} ELSE slips
    /\ UNCHANGED <<options, env, findings>>

(***************************************************************************)
(* GenerateLogicalDeviceInfo: one success clears the failures, those that  *)
(* come later too.                                                         *)
(***************************************************************************)
UsesMax == HasMax /\ max.gpus > 0
Made(devices) == [d \in DOMAIN devices |-> IF devices[d] THEN "live" ELSE "null"]

LogicalResult(devices) ==
    IF devices = << >> \/ TRUE \in Range(devices) THEN "SUCCESSFUL"
    ELSE "VULKAN_FAILED_CREATE_DEVICE"

GenerateLogicalDeviceInfo ==
    /\ phase = "logical"
    /\ \E made \in [1..one.gpus -> BOOLEAN],
          made_max \in [1..(IF UsesMax THEN max.gpus ELSE 0) -> BOOLEAN] :
          /\ Reports([script |-> Table(Row \o Row), result |-> LogicalResult(made \o made_max)],
                     "cleanup")
          /\ one' = [one EXCEPT !.devices = Made(made)]
          /\ max' = [max EXCEPT !.devices = Made(made_max)]
    /\ UNCHANGED <<options, env, findings, slips>>

(***************************************************************************)
(* GenerateCleanupInfo: one device for each physical device of the 1.0     *)
(* list, which is read at an address of nothing when no device was tried.  *)
(* vkDestroyDevice takes a null device.                                    *)
(***************************************************************************)
Destroyed(info) ==
    [info EXCEPT !.instance = "destroyed",
                 !.devices = [d \in DOMAIN @ |-> IF @[d] = "live" THEN "destroyed" ELSE @[d]]]

GenerateCleanupInfo ==
    /\ phase = "cleanup"
    /\ IF one.gpus > Len(one.devices)
       THEN /\ report' = Written(report, <<"table">> \o Row)
            /\ phase' = "crashed"
            /\ UNCHANGED vulkan
       ELSE /\ report' = Written(report, Table(Row \o Row))
            /\ one' = Destroyed(one)
            /\ max' = IF max.instance = "live" /\ max.desired_api_version >= 1 /\ max.gpus > 0
                      THEN Destroyed(max) ELSE max
            /\ phase' = IF results = "SUCCESSFUL" /\ run_cube_tests THEN "test" ELSE "end"
    /\ UNCHANGED <<options, env, results, findings, failed, slips>>

(***************************************************************************)
(* GenerateTestInfo: vkcube, else cube, then the same one with --validate. *)
(***************************************************************************)
RunTestInDirectory(program) ==
    CASE os = "linux" -> Linux!RunTestInDirectory(program)
      [] os = "bsd" -> BSD!RunTestInDirectory(program)
      [] os = "macos" -> Macos!RunTestInDirectory(program)
      [] os = "windows" -> Windows!RunTestInDirectory(program)

GenerateTestInfo ==
    /\ phase = "test"
    /\ IF ~found_sdk
       THEN /\ Reports([script |-> <<"text">>, result |-> "SUCCESSFUL"], "end")
            /\ UNCHANGED <<ran_tests, slips>>
       ELSE \E vkcube, cube, validate \in Programs :
               IF RunTestInDirectory(vkcube) = 0 \/ RunTestInDirectory(cube) = 0
               THEN /\ Reports([script |-> Table(Row \o Row),
                                result |-> IF RunTestInDirectory(validate) \in {0, 1}
                                           THEN "SUCCESSFUL" ELSE "TEST_FAILED"], "end")
                    /\ ran_tests' = TRUE /\ UNCHANGED slips
               ELSE /\ Reports([script |-> Row \o <<"end table">>, result |-> "TEST_FAILED"], "end")
                    /\ slips' = slips \cup {"no test"} /\ UNCHANGED ran_tests
    /\ UNCHANGED <<options, env, found_sdk, overrides, shown, vulkan>>

GenerateInfoEnds ==
    /\ phase = "end"
    /\ report' = EndOutput(report)
    /\ phase' = "ended"
    /\ UNCHANGED <<options, env, results, findings, vulkan, failed, slips>>

Next ==
    \/ PrintSystemEnvironmentInfo \/ PrintSystemHardwareInfo \/ PrintSystemExecutableInfo
    \/ PrintSystemDriverInfo \/ PrintSystemLoaderInfo \/ PrintSystemSdkInfo
    \/ PrintSystemImplicitLayerInfo \/ PrintSystemExplicitLayerInfo \/ PrintSystemSettingsFileInfo
    \/ GenerateInstanceInfo \/ GeneratePhysDevInfo \/ GenerateLogicalDeviceInfo
    \/ GenerateCleanupInfo \/ GenerateTestInfo \/ GenerateInfoEnds

Spec == Init /\ [][Next]_vars

Phases == {"environment", "hardware", "executable", "driver", "loader", "sdk", "implicit",
           "explicit", "settings", "instance", "physical", "logical", "cleanup", "test",
           "end", "ended", "crashed"}
Results == {"SUCCESSFUL", "SYSTEM_CALL_FAILURE", "UNKNOWN_ERROR", "MISSING_DRIVER_JSON",
            "MISSING_DRIVER_LIB", "VULKAN_CANT_FIND_RUNTIME", "VULKAN_CANT_FIND_EXTENSIONS",
            "VULKAN_CANT_FIND_DRIVER", "VULKAN_FAILED_CREATE_INSTANCE",
            "VULKAN_FAILED_CREATE_DEVICE", "TEST_FAILED"}
Vulkan == [instance : {"none", "live", "destroyed"}, max_api_version : 0..1,
           desired_api_version : 0..1, gpus : 0..MaxGpus,
           devices : UNION {[1..n -> {"live", "null", "destroyed"}] : n \in 0..MaxGpus}]

TypeOK ==
    /\ os \in Systems /\ run_cube_tests \in BOOLEAN
    /\ phase \in Phases /\ results \in Results
    /\ \A list \in {"icds", "drivers", "layers"} : IsPrefix(env[list], start.env[list])
    /\ env.libs <= start.env.libs
    /\ report.format \in Formats /\ report.good \in BOOLEAN
    /\ found_sdk \in BOOLEAN /\ ran_tests \in BOOLEAN
    /\ one \in Vulkan /\ max \in Vulkan
    /\ failed \subseteq Phases
    /\ slips \subseteq {"gigabytes", "link", "own runtime", "physical", "no test"}

(***************************************************************************)
(* A report that is finished is a document of its format, commas and all   *)
(* and up to the text of its cells, but for the five paths that are known  *)
(* to print a piece too many or too few: each function ends the rows and   *)
(* tables it begins, however its system calls answer.                      *)
(***************************************************************************)
WellFormedReport == phase = "ended" /\ slips = {} => WellFormed(report)

(***************************************************************************)
(* However the Vulkan calls after the creation of the instances fail, no   *)
(* instance and no device is left when via ends, except the instance of a  *)
(* later version for which no device was found (lines 1153-1155).          *)
(***************************************************************************)
Released(info) == info.instance # "live" /\ "live" \notin Range(info.devices)

AllReleased ==
    phase = "ended" /\ "instance" \notin failed =>
        Released(one) /\ (max.gpus > 0 => Released(max))

(***************************************************************************)
(* "SUCCESS" means that every step succeeded, that Vulkan was initialised, *)
(* and that the tests ran when they could; and a device was made if there  *)
(* is any to make one from.  A single device that fails is not a failure.  *)
(***************************************************************************)
SuccessIsEarned ==
    phase = "ended" =>
        (results = "SUCCESSFUL" <=>
            /\ failed = {} /\ one.instance = "destroyed"
            /\ (run_cube_tests /\ found_sdk => ran_tests)
            /\ (one.devices # << >> => "destroyed" \in Range(one.devices \o max.devices)))

(***************************************************************************)
(* On the systems that share the search, the step of the drivers succeeds  *)
(* exactly when some manifest, in a standard folder, in VK_DRIVERS_PATH or *)
(* in VK_ICD_FILENAMES, names a library that is somewhere the loader looks *)
(* for it - as long as the lists that are cut while they are read have one *)
(* entry at most.                                                          *)
(***************************************************************************)
NamedManifests ==
    (UNION {Range(folder) : folder \in Range(start.drivers \o start.env.drivers)})
    \cup Range(start.env.icds)

LibraryExists(manifest) ==
    \/ manifest \in {"beside", "system"} \/ InLibraryPath(manifest, start.env.libs)
    \/ manifest = "linker" /\ os # "bsd"

DriverVerdict ==
    (/\ os # "windows" /\ phase \notin {"environment", "hardware", "executable", "driver"}
     /\ start.env.libs <= 1 /\ Len(start.env.icds) <= 1) =>
        ("driver" \notin failed <=> \E m \in NamedManifests : HasIcd(m) /\ LibraryExists(m))

(***************************************************************************)
(* "See if this implicit layer has an expiration.  If it's expired, mark   *)
(* it as disabled" (via_system.cpp:1901): a layer that the environment     *)
(* enables is shown as enabled up to its date and not after it.            *)
(***************************************************************************)
Later(a, b) == \E k \in DOMAIN a : a[k] > b[k] /\ \A j \in 1..(k - 1) : a[j] = b[j]

ExpiredIsDisabled ==
    shown # NoLayer /\ EnabledByEnvironment(shown.layer) /\ shown.layer.expiration # << >> =>
        (shown.state = "ENABLED" <=> Later(shown.layer.expiration, Now))
=============================================================================
