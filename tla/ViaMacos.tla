------------------------------ MODULE ViaMacos -----------------------------
(***************************************************************************)
(* The steps of via on macOS.                                              *)
(***************************************************************************)
EXTENDS ViaUnix

PrintSystemEnvironmentInfo(release, uname) ==
    [script |-> Table(IF release THEN Row \o Row \o Row ELSE Row \o Row),
     result |-> IF release /\ uname THEN "SUCCESSFUL" ELSE "SYSTEM_CALL_FAILURE"]

\* disk: the unit of the free space, or that it cannot be told.
PrintSystemHardwareInfo(disk) ==
    [script |-> Table(Row \o Row \o (IF disk = "unknown" THEN << >> ELSE Row) \o Row),
     result |-> "SUCCESSFUL"]

PrintSystemExecutableInfo ==
    [script |-> Table(Row \o Row), result |-> "SUCCESSFUL"]

\* The last place for a library is the libraries via has loaded.
ReadDriverJson(scan, manifest) == ReadManifest(scan, manifest, TRUE)

\* The folders are gathered and read before the files.
PrintSystemDriverInfo(env, standard) ==
    LET folders == FoldLeft(ReadDriverJson, NothingFound(env.libs),
                            FlattenSeq(standard \o env.drivers))
    IN DriverInfo(env, [k \in 0..Len(env.icds) |->
                          FoldLeft(ReadDriverJson, [folders EXCEPT !.cut = FALSE],
                                   SubSeq(env.icds, 1, k))])

PrintRuntimesInFolder(folder) == RuntimesInFolder(folder)

PrintSystemLoaderInfo(folders, used) ==
    LET info == LoaderInfo([k \in DOMAIN folders |-> PrintRuntimesInFolder(folders[k])],
                               used, PrintRuntimesInFolder(used)) IN [info EXCEPT !.script = Table(@)]

PrintExplicitLayersInFolder(manifests) == LayerFolder(manifests)

(***************************************************************************)
(* The folder of the SDK is the variable's, else /usr/local.               *)
(***************************************************************************)
PrintSystemSdkInfo(variable, packaged) ==
    LET found == variable = "layers" \/ (variable = "unset" /\ packaged) IN
    [script |-> Table(Row \o (IF found THEN PrintExplicitLayersInFolder(<<"library">>) ELSE Row)),
     result |-> "SUCCESSFUL",
     found_sdk |-> found,
     is_system_installed_sdk |-> found /\ variable = "unset"]

PrintSystemImplicitLayerInfo(layer) == ImplicitLayers(layer)

PrintSystemExplicitLayerInfo(overrides, env, standard) ==
    ExplicitLayers(overrides, env, standard)

PrintSystemSettingsFileInfo(path_set, layers) ==
    [script |-> Table(Row \o FlattenSeq([k \in 1..(IF path_set THEN 1 ELSE 2) |->
                                            GenerateSettingsFileJsonInfo(layers)])),
     result |-> "SUCCESSFUL"]

RunTestInDirectory(program) == ExitStatus(program)
=============================================================================
