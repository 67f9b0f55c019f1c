----------------------------- MODULE ViaLayers -----------------------------
(***************************************************************************)
(* What via prints of the manifests of layers and of settings files, on    *)
(* every system.                                                           *)
(***************************************************************************)
EXTENDS ViaReport, Integers

(***************************************************************************)
(* Manifests of explicit layers: unreadable, without a layer section, with *)
(* a library, with component layers, with both or with neither.            *)
(***************************************************************************)
LayerManifests == {"unreadable", "no layer", "library", "components", "both", "neither"}

GenerateExplicitLayerJsonInfo(manifest) ==
    IF manifest = "no layer" THEN Row ELSE Row \o Row \o Row

(***************************************************************************)
(* An implicit layer: what the variable that enables it and the one that   *)
(* disables it hold ("none": the manifest names none), when it expires     *)
(* (empty: never), and the folders it puts before those of VK_LAYER_PATH.  *)
(* A date is its year, month, day, hour and minute.                        *)
(***************************************************************************)
EnabledByEnvironment(layer) == layer.enable # "unset" /\ layer.disable # "set"

\* The layer is still valid when any field of its date is greater.
CheckExpiration(expiration, now) ==
    \E k \in DOMAIN expiration : expiration[k] > now[k]

(***************************************************************************)
(* CheckExpiration says that the layer is still valid, and its answer is   *)
(* taken to mean both that the layer is expired and that it is enabled.    *)
(***************************************************************************)
EnabledState(layer, now) ==
    LET checked == EnabledByEnvironment(layer) /\ layer.expiration # << >>
        expired == checked /\ CheckExpiration(layer.expiration, now)
        enabled == IF checked THEN expired ELSE EnabledByEnvironment(layer)
    IN IF expired THEN "EXPIRED" ELSE IF enabled THEN "ENABLED" ELSE "DISABLED"

GenerateImplicitLayerJsonInfo(layer) ==
    GenerateExplicitLayerJsonInfo(layer.manifest)
    \o (IF layer.overrides = << >> THEN << >> ELSE Row)
    \o (IF layer.expiration = << >> THEN << >> ELSE Row)
    \o Row \o Row \o Row

(***************************************************************************)
(* A settings file: missing, or with settings of so many layers.           *)
(***************************************************************************)
GenerateSettingsFileJsonInfo(layers) ==
    Row \o FlattenSeq([k \in 1..layers |-> Row \o Row])
=============================================================================
