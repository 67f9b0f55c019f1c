----------------------------- MODULE DevsimData -----------------------------
(***************************************************************************)
(* What the device_simulation layer knows of one physical device, and the  *)
(* pure functions that make it: the defaults read from the driver, the     *)
(* JSON files applied over them, and the copy of the structures of         *)
(* extensions into the structures of Vulkan 1.1 and 1.2.                   *)
(*                                                                         *)
(* The several hundred members of the Vulkan structures fall in nine kinds *)
(* of slots that the code treats alike; one slot stands for all the        *)
(* members of its kind, and holds where its value came from.               *)
(***************************************************************************)
EXTENDS Integers, Sequences, FiniteSets, SequencesExt

CONSTANTS FileIds,   \* the names of the JSON files
          Files      \* the JSON files there are

(***************************************************************************)
(* multiview is promoted to Vulkan 1.1, timeline to Vulkan 1.2.            *)
(***************************************************************************)
Promoted == {"multiview", "timeline"}
Portability == "portability"
Exts == Promoted \cup {Portability}

Slots == {"core",                 \* VkPhysicalDeviceProperties and Features
          "multiview",            \* structures of an extension of Vulkan 1.1
          "timeline",             \* structures of an extension of Vulkan 1.2
          "protected",            \* structures of Vulkan 1.1 that no extension has
          "portability",          \* VK_KHR_portability_subset
          "vulkan11.multiview", "vulkan11.protected",
          "vulkan12.timeline", "vulkan12.only"}

Zero == "zero"          \* a member of a structure that nobody wrote
Driver == "driver"
Emulated == "emulated"  \* what the layer says of an emulated portability subset
Untouched == "untouched" \* what the application had in its own structure
Values == FileIds \cup {Zero, Driver, Emulated}

(***************************************************************************)
(* A driver: version times ten, extensions, and its lists.                 *)
(***************************************************************************)
DriverSupports(driver, slot) ==
    CASE slot = "core" -> TRUE
      [] slot \in Exts -> slot \in driver.extensions
      [] slot = "protected" -> driver.api >= 11
      [] OTHER -> driver.api >= 12

(***************************************************************************)
(* The defaults.  Without vkGetPhysicalDeviceProperties2 only the core     *)
(* structures are read; the rest stays as the constructor left it.         *)
(***************************************************************************)
HasExtension(data, ext) == ext \in data.device_extensions

Constructed(driver) ==
    [device_extensions |-> driver.extensions, api |-> driver.api,
     value |-> [s \in Slots |-> Zero], heaps |-> driver.heaps,
     queues |-> << >>, extensions |-> << >>, formats |-> {}]

DefaultValue(driver, properties2, emulate, slot) ==
    IF slot = "core" THEN Driver
    ELSE IF ~properties2 THEN Zero
    ELSE IF DriverSupports(driver, slot) THEN Driver
    ELSE IF slot = Portability /\ emulate THEN Emulated ELSE Zero

Defaults(driver, properties2, emulate) ==
    [Constructed(driver) EXCEPT !.value =
        [s \in Slots |-> DefaultValue(driver, properties2, emulate, s)]]

(***************************************************************************)
(* A file: opened, parsed, or not; its schema; the slots its sections set; *)
(* an apiVersion or 0; memory heaps or -1; its arrays, where it has them.  *)
(* IsFile says what they may hold, SectionsOf which sections a schema      *)
(* makes the loader read.                                                  *)
(***************************************************************************)
IsFile(file) ==
    /\ file.id \in FileIds /\ file.api \in {0, 10, 11, 12} /\ file.heaps \in Int
    /\ "queues" \in DOMAIN file.arrays => file.arrays["queues"] \in Seq(STRING)
    /\ "extensions" \in DOMAIN file.arrays => file.arrays["extensions"] \in Seq(Exts)
    /\ "formats" \in DOMAIN file.arrays =>
          file.arrays["formats"] \in Seq([name : STRING, features : BOOLEAN])

ASSUME FilesAssumption == \A file \in Files : IsFile(file)

CoreSchemas == {"1_0_0", "1_1_0", "1_2_0"}
Schemas == CoreSchemas \cup Exts \cup {"unknown"}

SectionsOf(schema) ==
    CASE schema = "1_0_0" -> {"core"}
      [] schema = "1_1_0" -> {"core", "multiview", "protected"}
      [] schema = "1_2_0" -> {"core", "multiview", "timeline", "protected", "vulkan12.only"}
      [] schema \in Exts -> {schema}
      [] OTHER -> {}

IdentifySchema(file) == file.schema # "unknown"
LoadFile(file) == file.readable /\ IdentifySchema(file)

GetValue(file, data) ==
    [s \in Slots |-> IF s \in file.sets \cap SectionsOf(file.schema) THEN file.id
                     ELSE data.value[s]]

(***************************************************************************)
(* An array of the file replaces the one there was.  A format whose three  *)
(* feature masks are empty is not inserted in the map of formats.          *)
(***************************************************************************)
IsFormatSupported(format) == format.features

GetArray(file, name, dest) == IF name \in DOMAIN file.arrays THEN file.arrays[name] ELSE dest

GetFormats(file, dest) ==
    IF "formats" \in DOMAIN file.arrays
    THEN {f.name : f \in {g \in Range(file.arrays["formats"]) : IsFormatSupported(g)}}
    ELSE dest

\* Slip: an apiVersion that is not in the file overrides too.
Override_anyVersion(data, file) ==
    IF file.schema \in CoreSchemas
    THEN [data EXCEPT !.value = GetValue(file, data), !.api = file.api]
    ELSE [data EXCEPT !.value = GetValue(file, data)]

Override(data, file) ==
    IF file.schema \in CoreSchemas
    THEN [data EXCEPT !.value = GetValue(file, data),
                      !.api = IF file.api > 0 THEN file.api ELSE @,
                      !.heaps = IF file.heaps >= 0 THEN file.heaps ELSE @,
                      !.queues = GetArray(file, "queues", @),
                      !.extensions = GetArray(file, "extensions", @),
                      !.formats = GetFormats(file, @)]
    ELSE [data EXCEPT !.value = GetValue(file, data)]

(***************************************************************************)
(* LoadFiles stops at the first file that fails; what the files before it  *)
(* set stays set.                                                          *)
(***************************************************************************)
Loaded(files) ==
    LET bad == {i \in DOMAIN files : ~LoadFile(files[i])} IN
    SubSeq(files, 1, IF bad = {} THEN Len(files) ELSE Min(bad) - 1)

LoadFiles(data, files) == FoldLeft(Override, data, Loaded(files))

(***************************************************************************)
(* ErrorPrintf, which ends the process when exit_on_error is set: no file  *)
(* named, a file that fails, or an extension schema for an extension that  *)
(* the device does not report (and the layer does not emulate).            *)
(***************************************************************************)
ForeignExtension(file, driver, emulate) ==
    /\ file.schema \in Exts \ driver.extensions
    /\ ~(file.schema = Portability /\ emulate)

ReportsError(files, driver, emulate) ==
    \/ files = << >>
    \/ Len(Loaded(files)) < Len(files)
    \/ \E i \in DOMAIN Loaded(files) : ForeignExtension(files[i], driver, emulate)

(***************************************************************************)
(* TransferValue: the structures of extensions and of Vulkan 1.1 are       *)
(* copied into those of VkPhysicalDeviceVulkan11* and Vulkan12*, whatever  *)
(* they hold.                                                              *)
(***************************************************************************)
TransferSource(slot) ==
    CASE slot = "vulkan11.multiview" -> "multiview"
      [] slot = "vulkan11.protected" -> "protected"
      [] slot = "vulkan12.timeline" -> "timeline"
      [] OTHER -> slot

\* Slip: the structures of Vulkan 1.1 and 1.2 are left as the driver filled them.
TransferValue_none(data) == data

TransferValue(data) ==
    [data EXCEPT !.value = [s \in Slots |-> data.value[TransferSource(s)]]]

(***************************************************************************)
(* The two-call idiom: without an array only the count is returned.        *)
(***************************************************************************)
NoArray == -1

\* Slip: an array that is too small is not reported.
EnumerateProperties_complete(src, capacity) ==
    IF capacity = NoArray THEN [result |-> "SUCCESS", count |-> Len(src), list |-> << >>]
    ELSE [result |-> "SUCCESS", count |-> Min({capacity, Len(src)}),
          list |-> SubSeq(src, 1, Min({capacity, Len(src)}))]

EnumerateProperties(src, capacity) ==
    IF capacity = NoArray THEN [result |-> "SUCCESS", count |-> Len(src), list |-> << >>]
    ELSE LET copy_count == Min({capacity, Len(src)})
         IN [result |-> IF copy_count = Len(src) THEN "SUCCESS" ELSE "INCOMPLETE",
             count |-> copy_count, list |-> SubSeq(src, 1, copy_count)]

(***************************************************************************)
(* Settings: an environment variable that is set wins over the file.       *)
(* A Boolean setting is "true", "false" or what atoi makes of it.          *)
(***************************************************************************)
SettingTexts == {"", "true", "false", "1", "0", "-1", "on"}

Setting(from_file, from_env) == IF from_env # "" THEN from_env ELSE from_file

GetBooleanValue(text) ==
    IF text \in {"true", "1"} THEN 1 ELSE IF text = "-1" THEN -1 ELSE 0
=============================================================================
