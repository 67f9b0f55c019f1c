------------------------------- MODULE ViaUnix -------------------------------
(***************************************************************************)
(* What the code of via for Linux, the BSDs and macOS has in common.  It   *)
(* exists three times; the modules of the three systems say where they     *)
(* differ.                                                                 *)
(*                                                                         *)
(* The lists of the environment are cut with strtok, in place and with one *)
(* position for the whole process: a list that was cut has one entry left  *)
(* for whoever reads the variable next, and cutting a list ends the        *)
(* cutting of the one before it.                                           *)
(***************************************************************************)
EXTENDS ViaLayers

(***************************************************************************)
(* A driver manifest is known by what its reading comes to: it cannot be   *)
(* read, has no ICD section or no library, or its library is beside it, in *)
(* a system folder, in the first or second entry of LD_LIBRARY_PATH, known *)
(* to the dynamic linker, or nowhere.  "away" is a path to nothing: it is  *)
(* not looked for elsewhere.                                               *)
(***************************************************************************)
Manifests == {"unreadable", "no icd", "no library", "beside", "system", "first",
              "second", "linker", "nowhere", "away"}
HasIcd(manifest) == manifest \notin {"unreadable", "no icd"}
HasBareName(manifest) == manifest \in {"system", "first", "second", "linker", "nowhere"}

(***************************************************************************)
(* The environment: the files of VK_ICD_FILENAMES, the folders of          *)
(* VK_DRIVERS_PATH, the number of folders of LD_LIBRARY_PATH, and the      *)
(* folders of VK_LAYER_PATH.  A variable that is not set is empty; one     *)
(* that is set to nothing is not considered.                               *)
(***************************************************************************)
\* Slip: the list has one entry less.
FirstOnly_drop(list) == SubSeq(list, 2, Len(list))
FirstOnly(list) == SubSeq(list, 1, IF list = << >> THEN 0 ELSE 1)
AtMostOne(n) == IF n = 0 THEN 0 ELSE 1

(***************************************************************************)
(* found_this_lib is handed to every reading and never reset.  cut: the    *)
(* list being read was lost to a search of LD_LIBRARY_PATH.                *)
(***************************************************************************)
NothingFound(libs) ==
    [script |-> << >>, found_json |-> FALSE, found_this_lib |-> FALSE, found_lib |-> FALSE,
     libs |-> libs, cut |-> FALSE]

InLibraryPath(manifest, libs) ==
    (manifest = "first" /\ libs >= 1) \/ (manifest = "second" /\ libs >= 2)

(***************************************************************************)
(* One manifest.  The search of a bare name stops at the system folders    *)
(* when it is there, else it cuts LD_LIBRARY_PATH when that is set.        *)
(***************************************************************************)
\* Slip: the last manifest decides whether there is a library.
ReadManifest_lastOnly(scan, manifest, in_linker) ==
    LET cuts == HasBareName(manifest) /\ manifest # "system" /\ scan.libs > 0
        lib  == \/ manifest \in {"beside", "system"}
                \/ InLibraryPath(manifest, scan.libs)
                \/ manifest = "linker" /\ in_linker
    IN [scan EXCEPT
          !.script = @ \o Row \o Row,
          !.found_json = @ \/ HasIcd(manifest),
          !.found_lib = HasIcd(manifest) /\ lib,
          !.libs = IF cuts THEN AtMostOne(@) ELSE @,
          !.cut = @ \/ cuts]
ReadManifest(scan, manifest, in_linker) ==
    LET cuts == HasBareName(manifest) /\ manifest # "system" /\ scan.libs > 0
        lib  == \/ scan.found_this_lib
                \/ manifest \in {"beside", "system"}
                \/ InLibraryPath(manifest, scan.libs)
                \/ manifest = "linker" /\ in_linker
    IN [scan EXCEPT
          !.script = @ \o Row \o Row,
          !.found_json = @ \/ HasIcd(manifest),
          !.found_this_lib = lib,
          !.found_lib = @ \/ (HasIcd(manifest) /\ lib),
          !.libs = IF cuts THEN AtMostOne(@) ELSE @,
          !.cut = @ \/ cuts]

(***************************************************************************)
(* The files named in VK_ICD_FILENAMES are cut off it one by one while     *)
(* they are read: scans[k] is what is known after the first k of them.     *)
(***************************************************************************)
FilesRead(scans) ==
    LET lost == {k \in DOMAIN scans : scans[k].cut} IN
    IF lost = {} THEN Max(DOMAIN scans) ELSE Min(lost)

(***************************************************************************)
(* The whole step: what it prints, its result, and the environment after.  *)
(***************************************************************************)
DriverInfo(env, scans) ==
    LET scan == scans[FilesRead(scans)]
    IN [script |-> Table(Row \o scan.script),
        result |-> IF ~scan.found_json THEN "MISSING_DRIVER_JSON"
                   ELSE IF ~scan.found_lib THEN "MISSING_DRIVER_LIB" ELSE "SUCCESSFUL",
        env |-> [env EXCEPT !.drivers = FirstOnly(@), !.icds = FirstOnly(@), !.libs = scan.libs]]

(***************************************************************************)
(* One folder that may hold runtimes.  The row of a file whose link cannot *)
(* be read is left open.                                                   *)
(***************************************************************************)
RuntimeFolders == {"missing", "no runtime", "link", "no link"}

RuntimesInFolder(folder) ==
    [script |-> IF folder = "no link" THEN Row \o OpenRow ELSE Row \o Row,
     result |-> IF folder = "no link" THEN "SYSTEM_CALL_FAILURE" ELSE "SUCCESSFUL"]

(***************************************************************************)
(* The runtimes in the folders of the system, then the one via itself      *)
(* uses: "unknown" when via cannot tell its own file, "no list" when the   *)
(* libraries of the file cannot be listed, "absent" or "nameless" when     *)
(* none of them is a runtime with a folder, else what its folder holds.    *)
(* The folder via uses decides the result when there is one.  infos and    *)
(* own are what the folders of the system and the one via uses come to.    *)
(***************************************************************************)
RuntimesUsed == RuntimeFolders \cup {"unknown", "no list", "absent", "nameless"}

RuntimeUsedScript(used) ==
    CASE used = "unknown" -> << >>
      [] used \in {"no list", "absent"} -> Row
      [] used = "no link" -> Row \o OpenRow \o Row
      [] OTHER -> Row \o Row

LoaderInfo(infos, used, own) ==
    [script |-> Row \o FlattenSeq([k \in DOMAIN infos |-> infos[k].script])
                \o RuntimeUsedScript(used),
     result |-> IF used = "no list" THEN "SYSTEM_CALL_FAILURE"
                ELSE IF used \in RuntimeFolders THEN own.result
                ELSE IF \E k \in DOMAIN infos : infos[k].result = "SUCCESSFUL"
                THEN "SUCCESSFUL" ELSE "VULKAN_CANT_FIND_RUNTIME"]

(***************************************************************************)
(* A folder of manifests of explicit layers.                               *)
(***************************************************************************)
LayerFolder(manifests) ==
    Row \o FlattenSeq([k \in DOMAIN manifests |->
                          IF manifests[k] = "unreadable" THEN Row
                          ELSE Row \o GenerateExplicitLayerJsonInfo(manifests[k])])
    \o (IF manifests = << >> THEN Row ELSE << >>)

(***************************************************************************)
(* Every folder of VK_LAYER_PATH is listed, and one is left in it.         *)
(***************************************************************************)
ExplicitLayers(overrides, env, standard) ==
    [script |-> Table((IF overrides = << >> THEN << >> ELSE Row)
                      \o FlattenSeq([k \in DOMAIN overrides |-> LayerFolder(overrides[k])])
                      \o (IF env.layers = << >> THEN << >> ELSE Row)
                      \o FlattenSeq([k \in DOMAIN env.layers |-> LayerFolder(<< >>)])
                      \o Row \o LayerFolder(standard)),
     result |-> "SUCCESSFUL",
     env |-> [env EXCEPT !.layers = FirstOnly(@)]]

ImplicitLayers(layer) ==
    [script |-> Table(Row \o Row \o (IF layer.readable THEN GenerateImplicitLayerJsonInfo(layer)
                                     ELSE Row)),
     result |-> "SUCCESSFUL"]

(***************************************************************************)
(* The exit status of a program of the SDK: 0, 1 when it is not there,     *)
(* anything else when it fails or the current directory is unknown.        *)
(***************************************************************************)
Programs == {"not there", "works", "fails"}
ExitStatus(program) == CASE program = "works" -> 0 [] program = "not there" -> 1 [] OTHER -> -1
=============================================================================
