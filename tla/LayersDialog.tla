---------------------------- MODULE LayersDialog ----------------------------
(***************************************************************************)
(* The layers of the active configuration in one run of vkconfig: the      *)
(* dialog that chooses and orders them (vkconfig/dialog_layers.cpp), the   *)
(* dialog of the custom paths it opens (vkconfig/dialog_custom_paths.cpp)  *)
(* and the override the loader reads (vkconfig_core/override.cpp).  The    *)
(* dialog works on a copy; layers come and go with the paths meanwhile.    *)
(***************************************************************************)
EXTENDS Parameters

CONSTANTS
  Standard,     \* the folders that are always searched, in order
  CustomPaths,  \* folders the user may add
  Files,        \* contents of configuration files: sequences of parameters
  NoFile,       \* there is no file to reset the configuration to
  MaxClicks     \* bound on the clicks in one opening of the dialog

ASSUME FoldersAssumption ==
  /\ Standard \in Seq(DOMAIN Manifests)
  /\ CustomPaths \subseteq DOMAIN Manifests
  /\ IsFiniteSet(CustomPaths)
\* What vkconfig writes: a parameter for each layer at most, and none that is
\* left to the application.
ASSUME FilesAssumption ==
  /\ Files \subseteq Seq([key : Keys, state : {"overridden", "excluded"},
                          rank : {NO_RANK} \cup Nat, here : BOOLEAN])
  /\ \A file \in Files : \A m, n \in DOMAIN file : file[m].key = file[n].key => m = n
ASSUME MaxClicksAssumption == MaxClicks \in Nat

VARIABLES
  paths,      \* USER_DEFINED_LAYERS_PATHS_GUI, in the order they were added
  available,  \* available_layers
  source,     \* the file the configuration came from and is reset to
  saved,      \* parameters of the configuration
  open,       \* the dialog is open
  working,    \* parameters of the dialog's copy
  override,   \* the override files, NoOverride when they are erased
  fate        \* "crashed" when a null pointer was followed

(* What the user did, for the properties *)
VARIABLES
  asked,      \* the state the user last asked for in the dialog, by layer
  chosen,     \* the same, as of the last dialog that was accepted
  refused,    \* layers whose exclusion the user took back, once
  moved,      \* device_simulation was ordered by hand, or by a file
  known,      \* the layers that were there when the configuration was ordered
  clicks      \* clicks since the dialog was opened

app == <<paths, available, source, saved, open, working, override, fate>>
user == <<asked, chosen, refused, moved, known, clicks>>
vars == <<app, user>>

NoOverride == [components |-> <<>>, excluded |-> {}, folders |-> {}]

Parameter(key, state, rank) ==
  [key |-> key, state |-> state, rank |-> rank, here |-> TRUE]

StateOf(parameters, key) ==
  IF key \in KeysOf(parameters) THEN FindByKey(parameters, key).state ELSE "app"

StatesOf(parameters) == [key \in Keys |-> StateOf(parameters, key)]

---------------------------------------------------------------------------

\* The parameters of this platform.
Here(parameters) == Only(parameters, {p \in Range(parameters) : p.here})

\* WriteLayersOverride skips parameters of other platforms, and the folders of
\* layers that are missing.
OverrideOf(parameters, layers) ==
  LET here == Here(parameters)
  IN [components |-> Overridden(here),
      excluded |-> {key \in KeysOf(here) : StateOf(here, key) = "excluded"},
      folders |-> {layer.folder : layer \in
                     {layer \in Range(layers) : layer.key \in Range(Overridden(here))}}]

\* HasOverride.
HasOverride(parameters) ==
  \E n \in DOMAIN parameters : parameters[n].here /\ parameters[n].state # "app"

\* RefreshConfiguration of an active configuration: surrender, or override.
Refreshed(parameters, layers) ==
  IF HasOverride(parameters) THEN OverrideOf(parameters, layers) ELSE NoOverride

New(layers) ==
  [n \in DOMAIN layers |-> Parameter(layers[n].key, "app", NO_RANK)]

\* The layers without a parameter, implicit or not.
Absent(parameters, layers, implicit) ==
  Only(layers, {layer \in Range(layers) :
                  /\ (layer.type = "implicit") = implicit
                  /\ layer.key \notin KeysOf(parameters)})

\* Slip: parameters of layers that are missing are left out.
BuildParameters_found(parameters, layers) ==
  OrderParameter(
    New(Absent(parameters, layers, TRUE))
    \o Only(parameters, {p \in Range(parameters) : p.key \in KeysOf(layers)})
    \o New(Absent(parameters, layers, FALSE)), layers)

\* Slip: the places are not copied.
BuildParameters_noPlace(parameters, layers) ==
  OrderParameter(
    New(Absent(parameters, layers, TRUE))
    \o [n \in DOMAIN parameters |-> [parameters[n] EXCEPT !.rank = NO_RANK]]
    \o New(Absent(parameters, layers, FALSE)), layers)

\* Implicit layers first, then what the copy has, then the other layers.
BuildParameters(parameters, layers) ==
  OrderParameter(
    New(Absent(parameters, layers, TRUE)) \o parameters
    \o New(Absent(parameters, layers, FALSE)), layers)

---------------------------------------------------------------------------

Running == fate = "running"

Click ==
  /\ Running /\ open
  /\ clicks < MaxClicks
  /\ clicks' = clicks + 1

\* A configuration is opened in the dialog.
Open ==
  /\ Running /\ ~open
  /\ open' = TRUE
  /\ working' = BuildParameters(saved, available)
  /\ asked' = StatesOf(saved)
  /\ clicks' = 0
  /\ UNCHANGED <<paths, available, source, saved, override, fate, chosen,
                 refused, moved, known>>

\* OverrideAllExplicitLayers, for device_simulation.
OverrideAll(parameters) ==
  [n \in DOMAIN parameters |->
     LET p == parameters[n]
     IN IF /\ p.state = "app" /\ p.key \in KeysOf(available)
           /\ FindByKey(available, p.key).type # "implicit"
          THEN [p EXCEPT !.state = IF p.key = Validation THEN "overridden"
                                   ELSE "excluded"]
          ELSE p]

\* What the user asks for with the same answer.
AskedAll ==
  [key \in Keys |->
     IF /\ asked[key] = "app" /\ key \in KeysOf(available)
        /\ FindByKey(available, key).type # "implicit"
       THEN IF key = Validation THEN "overridden" ELSE "excluded"
       ELSE asked[key]]

SetState(parameters, key, state) ==
  [n \in DOMAIN parameters |->
     IF parameters[n].key = key
       THEN [parameters[n] EXCEPT !.state = state, !.rank = NO_RANK]
       ELSE parameters[n]]

\* layerUseChanged, without a question or with the answer Yes or No.  The
\* state that No sets to an implicit layer is overwritten.
layerUseChanged(key, state) ==
  /\ Click
  /\ key \in KeysOf(working) /\ StateOf(working, key) # state
  /\ LET devsim == state = "overridden" /\ key = Devsim
         implicit == /\ state = "excluded" /\ key \in KeysOf(available)
                     /\ FindByKey(available, key).type = "implicit"
     IN \E yes \in IF devsim \/ implicit THEN BOOLEAN ELSE {TRUE} :
          /\ working' = OrderParameter(
                          SetState(IF devsim /\ yes THEN OverrideAll(working)
                                   ELSE working, key, state), available)
          /\ asked' = [(IF devsim /\ yes THEN AskedAll ELSE asked) EXCEPT
                         ![key] = IF implicit /\ ~yes THEN "app" ELSE state]
          /\ refused' = IF implicit /\ ~yes THEN refused \cup {key} ELSE refused
  /\ UNCHANGED <<paths, available, source, saved, open, override, fate,
                 chosen, moved, known>>

\* Slip: the wrong neighbour gives its place.
SwapRanks_same(parameters, upper, lower) ==
  [n \in DOMAIN parameters |->
     IF parameters[n].key = upper
       THEN [parameters[n] EXCEPT !.rank = FindByKey(parameters, lower).rank]
       ELSE parameters[n]]

SwapRanks(parameters, upper, lower) ==
  [n \in DOMAIN parameters |->
     CASE parameters[n].key = upper ->
            [parameters[n] EXCEPT !.rank = FindByKey(parameters, lower).rank]
       [] parameters[n].key = lower ->
            [parameters[n] EXCEPT !.rank = FindByKey(parameters, upper).rank]
       [] OTHER -> parameters[n]]

\* Up on a layer of the list of overridden ones, or Down on the one above it.
OverrideOrder(n) ==
  LET shown == Overridden(working)
  IN /\ Click
     /\ n \in 1..Len(shown) - 1
     /\ working' = OrderParameter(SwapRanks(working, shown[n], shown[n + 1]),
                                  available)
     /\ moved' = (moved \/ Devsim \in {shown[n], shown[n + 1]})
     /\ UNCHANGED <<paths, available, source, saved, open, override, fate,
                    asked, chosen, refused, known>>

\* Reset of the dialog: to the file, or to zero.  To zero needs the default
\* settings of each layer, and a missing one has none.
on_pushButtonResetLayers_clicked ==
  /\ Click
  /\ IF source # NoFile
       THEN /\ working' = BuildParameters(OrderParameter(source, available), available)
            /\ asked' = StatesOf(source)
            /\ UNCHANGED fate
     ELSE IF KeysOf(working) \subseteq KeysOf(available)
       THEN /\ working' = BuildParameters(
                            [n \in DOMAIN working |->
                               [working[n] EXCEPT !.state = "app", !.rank = NO_RANK]],
                            available)
            /\ asked' = [key \in Keys |-> "app"]
            /\ UNCHANGED fate
     ELSE fate' = "crashed" /\ UNCHANGED <<working, asked>>
  /\ moved' = (moved \/ source # NoFile)
  /\ UNCHANGED <<paths, available, source, saved, open, override, chosen,
                 refused, known>>

\* Slip: the override is left for the dialog of the layers to write.
PathOverride_later(layers) == override

\* Both buttons of the custom paths refresh the override at once, with the
\* configuration as it was saved.
PathOverride(layers) == Refreshed(saved, layers)

\* The dialog of the custom paths, opened from this one: folders are added at
\* the end and removed, any number of them, the layers are loaded again each
\* time and the copy is completed once, when that dialog closes.
on_pushButtonCustomLayers_clicked ==
  /\ Click
  /\ paths' \in SetToAllKPermutations(CustomPaths)
  /\ available' = LoadAllInstalledLayers(paths' \o Standard)
  /\ override' = PathOverride(available')
  /\ working' = BuildParameters(working, available')
  /\ UNCHANGED <<source, saved, open, fate, asked, chosen, refused, moved,
                 known>>

\* accept, and the refresh of the window that follows.
accept ==
  /\ Running /\ open
  /\ open' = FALSE
  /\ saved' = FilterParameters(working, "app")
  /\ override' = Refreshed(saved', available)
  /\ working' = <<>>
  /\ chosen' = asked /\ known' = available
  /\ UNCHANGED <<paths, available, source, fate, asked, refused, moved, clicks>>

\* The dialog is cancelled; the window refreshes all the same.
reject ==
  /\ Running /\ open
  /\ open' = FALSE
  /\ override' = Refreshed(saved, available)
  /\ working' = <<>>
  /\ asked' = chosen
  /\ UNCHANGED <<paths, available, source, saved, fate, chosen, refused, moved,
                 known, clicks>>

\* The configuration is loaded from its file and ordered, or is new.
Init ==
  /\ paths \in {<<>>} \cup {<<path>> : path \in CustomPaths}
  /\ available = LoadAllInstalledLayers(paths \o Standard)
  /\ source \in Files \cup {NoFile}
  /\ saved = IF source = NoFile THEN <<>> ELSE OrderParameter(source, available)
  /\ open = FALSE /\ working = <<>>
  /\ override = Refreshed(saved, available)
  /\ fate = "running"
  /\ asked = StatesOf(saved) /\ chosen = asked
  /\ refused = {} /\ known = available /\ clicks = 0
  /\ moved = (source # NoFile)

Next ==
  \/ Open \/ accept \/ reject
  \/ \E key \in Keys, state \in States : layerUseChanged(key, state)
  \/ \E n \in 1..Cardinality(Keys) : OverrideOrder(n)
  \/ on_pushButtonResetLayers_clicked
  \/ on_pushButtonCustomLayers_clicked

Spec == Init /\ [][Next]_vars

---------------------------------------------------------------------------
(* Properties *)

IsOrdered(list) ==
  \A n \in DOMAIN list :
    list[n].rank = IF list[n].state = "overridden" THEN n - 1 ELSE NO_RANK

\* Type invariant: one parameter for each layer, none of the configuration is
\* left to the application, and the places of the dialog's copy are the
\* positions of its overridden layers.
TypeOK ==
  /\ IsInjective(paths) /\ Range(paths) \subseteq CustomPaths
  /\ \A list \in {saved, working} :
       /\ Range(list) \subseteq [key : Keys, state : States,
                                rank : {NO_RANK} \cup Nat, here : BOOLEAN]
       /\ Cardinality(KeysOf(list)) = Len(list)
  /\ \A p \in Range(saved) : p.state # "app"
  /\ IsOrdered(working)
  /\ asked \in [Keys -> States] /\ chosen \in [Keys -> States]
  /\ refused \subseteq Keys
  /\ open \in BOOLEAN /\ moved \in BOOLEAN /\ clicks \in 0..MaxClicks
  /\ fate \in {"running", "crashed"}

\* What the user asked for is what the configuration and the copy say, for
\* every layer, also for one that is missing when the dialog is accepted and
\* comes back later; but for the exclusions the user was asked about and took
\* back.
ChoicesKept ==
  \A key \in Keys \ refused :
    /\ StateOf(saved, key) = chosen[key]
    /\ open => StateOf(working, key) = asked[key]

\* The question about device_simulation says that it "requires being executed
\* close to the Vulkan drivers": whatever is overridden before or after it, it
\* is the last overridden layer, unless it was ordered by hand or by a file.
DevsimLast ==
  ~moved =>
    \A list \in {saved, working} :
      StateOf(list, Devsim) = "overridden" => Last(Overridden(list)) = Devsim

AllFound(list) == Range(Overridden(list)) \subseteq KeysOf(available)

\* Opening the dialog and accepting it without a click leaves the layers in
\* the order they were in, while none that is overridden is missing and none
\* has come or gone since: the sort of a list that was sorted changes nothing,
\* though Less is no strict weak order.
OrderSettled ==
  [][(open /\ ~open' /\ clicks = 0 /\ AllFound(saved) /\ known = available) =>
       Overridden(saved') = Overridden(saved)]_vars

Alike(a, b) ==
  (FindByKey(available, a).type = "implicit")
    = (FindByKey(available, b).type = "implicit")

\* Up and Down exchange the layer with its neighbour and leave the others where
\* they are, when both are implicit or both are not and no overridden layer is
\* missing.
MovesAsAsked ==
  [][\A n \in 1..Cardinality(Keys) :
       OverrideOrder(n) =>
         LET shown == Overridden(working)
         IN AllFound(working) /\ Alike(shown[n], shown[n + 1]) =>
              Overridden(working') =
                [shown EXCEPT ![n] = shown[n + 1], ![n + 1] = shown[n]]]_vars

\* The override always matches the saved configuration and the layers as they
\* are found now: each overridden layer that is found is in a folder the
\* loader is told of, also when the custom paths change under an open dialog.
OverrideFindsLayers ==
  /\ override.components = Overridden(Here(saved))
  /\ \A layer \in Range(available) :
       layer.key \in Range(override.components) =>
         layer.folder \in override.folders

\* "Do you want to continue?": an implicit layer whose exclusion the user took
\* back stays on.
RefusedStaysOn ==
  \A key \in refused : open => StateOf(working, key) = asked[key]

=============================================================================
