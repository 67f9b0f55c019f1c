----------------------------- MODULE ViaWindows -----------------------------
(***************************************************************************)
(* The steps of via on Windows, where the registry names drivers and       *)
(* layers, and the variables of the environment are read into buffers.     *)
(***************************************************************************)
EXTENDS ViaUnix

PrintSystemEnvironmentInfo(version) ==
    [script |-> Table(IF version THEN Row \o Row \o Row ELSE Row),
     result |-> IF version THEN "SUCCESSFUL" ELSE "UNKNOWN_ERROR"]

PrintSystemHardwareInfo(disk) ==
    [script |-> Table(Row \o Row \o Row), result |-> "SUCCESSFUL"]

PrintSystemExecutableInfo ==
    [script |-> Table(Row \o Row), result |-> "SUCCESSFUL"]

(***************************************************************************)
(* One manifest: its library is beside it or in the folder of the system.  *)
(* found_this_lib is shared by all of them.                                *)
(***************************************************************************)
PrintDriverRegistryInfo(scan, manifest) ==
    LET lib == scan.found_this_lib \/ manifest \in {"beside", "system"} IN
    [scan EXCEPT
        !.script = @ \o Row \o Row,
        !.found_json = @ \/ HasIcd(manifest),
        !.found_this_lib = lib,
        !.found_lib = @ \/ (HasIcd(manifest) /\ lib)]

\* A file of VK_ICD_FILENAMES counts for the library and not for the manifest.
PrintDriverFile(scan, manifest) ==
    [PrintDriverRegistryInfo(scan, manifest) EXCEPT !.found_json = scan.found_json]

PrintSystemDriverInfo(env, registry) ==
    LET listed == FoldLeft(PrintDriverRegistryInfo, NothingFound(0),
                           FlattenSeq(registry \o env.drivers))
        scan   == FoldLeft(PrintDriverFile, listed, env.icds)
    IN [script |-> Table(Row \o scan.script),
        result |-> IF ~scan.found_json THEN "MISSING_DRIVER_JSON"
                   ELSE IF ~scan.found_lib THEN "MISSING_DRIVER_LIB" ELSE "SUCCESSFUL",
        env |-> env]

PrintSystemLoaderInfo(loaded) ==
    [script |-> Table(Row \o Row),
     result |-> IF loaded THEN "SUCCESSFUL" ELSE "VULKAN_CANT_FIND_RUNTIME"]

\* A variable that is set is an SDK, whatever it names.
PrintSystemSdkInfo(variable) ==
    [script |-> Table(Row \o Row \o Row), result |-> "SUCCESSFUL",
     found_sdk |-> variable # "unset",
     is_system_installed_sdk |-> FALSE]

PrintSystemImplicitLayerInfo(layer) ==
    [script |-> Table(IF layer.readable THEN Row \o GenerateImplicitLayerJsonInfo(layer) ELSE Row),
     result |-> "SUCCESSFUL"]

FindAndPrintAllExplicitLayersInPath(manifests) ==
    FlattenSeq([k \in DOMAIN manifests |->
                   Row \o (IF manifests[k] = "unreadable" THEN Row
                           ELSE GenerateExplicitLayerJsonInfo(manifests[k]))])

(***************************************************************************)
(* The name printed for the first folder of VK_LAYER_PATH, "Path 0", is    *)
(* written over the list it was cut off: when that folder's name is no     *)
(* longer than five characters, the folders after it are lost (a piece of  *)
(* the text may be listed in their place).                                 *)
(***************************************************************************)
LayerPathsRead(layers) ==
    IF layers # << >> /\ Head(layers) = "short" THEN 1 ELSE Len(layers)

PrintSystemExplicitLayerInfo(overrides, env) ==
    [script |-> Table(Row \o FlattenSeq([k \in DOMAIN overrides |->
                         Row \o FindAndPrintAllExplicitLayersInPath(overrides[k])])
                      \o FlattenSeq([k \in 1..LayerPathsRead(env.layers) |-> Row])),
     result |-> "SUCCESSFUL",
     env |-> env]

PrintSystemSettingsFileInfo(path_set, layers) ==
    [script |-> Table(Row \o (IF path_set THEN GenerateSettingsFileJsonInfo(layers)
                              ELSE Row \o Row \o Row)),
     result |-> "SUCCESSFUL"]

RunTestInDirectory(program) == ExitStatus(program)
=============================================================================
