------------------------------ MODULE ViaBSD -------------------------------
(***************************************************************************)
(* The steps of via on the BSDs.                                           *)
(***************************************************************************)
EXTENDS ViaUnix

PrintSystemEnvironmentInfo(uname) ==
    [script |-> Table(Row \o Row),
     result |-> IF uname THEN "SUCCESSFUL" ELSE "SYSTEM_CALL_FAILURE"]

\* The row of a free space in gigabytes is not ended.
PrintSystemHardwareInfo(disk) ==
    [script |-> Table(Row \o Row
                      \o (CASE disk = "unknown" -> << >>
                            [] disk = "GB" -> OpenRow
                            [] OTHER -> Row)
                      \o Row),
     result |-> "SUCCESSFUL"]

PrintSystemExecutableInfo ==
    [script |-> Table(Row \o Row), result |-> "SUCCESSFUL"]

\* Nobody is asked for a library that is in no folder.
ReadDriverJson(scan, manifest) == ReadManifest(scan, manifest, FALSE)

\* The folders are gathered and read before the files.
PrintSystemDriverInfo(env, standard) ==
    LET folders == FoldLeft(ReadDriverJson, NothingFound(env.libs),
                            FlattenSeq(standard \o env.drivers))
    IN DriverInfo(env, [k \in 0..Len(env.icds) |->
                          FoldLeft(ReadDriverJson, [folders EXCEPT !.cut = FALSE],
                                   SubSeq(env.icds, 1, k))])

PrintRuntimesInFolder(folder) == RuntimesInFolder(folder)

\* A row is ended once more than it is begun when via knows its own file.
PrintSystemLoaderInfo(folders, used) ==
    LET info == LoaderInfo([k \in DOMAIN folders |-> PrintRuntimesInFolder(folders[k])],
                               used, PrintRuntimesInFolder(used)) IN
    [info EXCEPT !.script = Table(IF used = "unknown" THEN @ ELSE Append(@, "end row"))]

PrintExplicitLayersInFolder(manifests) == LayerFolder(manifests)

(***************************************************************************)
(* An SDK is found by a variable that names a folder with a folder of      *)
(* layers, and by the package of the loader.                               *)
(***************************************************************************)
PrintSystemSdkInfo(variable, packaged) ==
    [script |-> Table((IF variable = "unset" THEN << >> ELSE Row)
                      \o (IF variable = "layers" THEN PrintExplicitLayersInFolder(<<"library">>) ELSE << >>)
                      \o Row),
     result |-> "SUCCESSFUL",
     found_sdk |-> variable = "layers" \/ packaged,
     is_system_installed_sdk |-> packaged]

PrintSystemImplicitLayerInfo(layer) == ImplicitLayers(layer)

PrintSystemExplicitLayerInfo(overrides, env, standard) ==
    ExplicitLayers(overrides, env, standard)

PrintSystemSettingsFileInfo(path_set, layers) ==
    [script |-> Table(Row \o FlattenSeq([k \in 1..(IF path_set THEN 1 ELSE 2) |->
                                            GenerateSettingsFileJsonInfo(layers)])),
     result |-> "SUCCESSFUL"]

RunTestInDirectory(program) == ExitStatus(program)
=============================================================================
