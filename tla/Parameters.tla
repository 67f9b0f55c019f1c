----------------------------- MODULE Parameters -----------------------------
(***************************************************************************)
(* The layers vkconfig knows and the parameters of a configuration:        *)
(* which manifest of a layer counts (vkconfig_core/layer_manager.cpp), and *)
(* the order of the parameters, which is the order of the layers           *)
(* (vkconfig_core/parameter.cpp).                                          *)
(***************************************************************************)
EXTENDS Integers, Sequences, FiniteSets, FiniteSetsExt, SequencesExt

CONSTANTS
  Alphabet,     \* keys of layers, in the order of their names
  Validation,   \* VK_LAYER_KHRONOS_validation
  Devsim,       \* VK_LAYER_LUNARG_device_simulation
  Manifests     \* folder -> the layers in it: sequence of [key, type]

Keys == Range(Alphabet)
Types == {"explicit", "implicit", "custom"}
States == {"app", "overridden", "excluded"}
NO_RANK == -1

ASSUME AlphabetAssumption == IsInjective(Alphabet)
ASSUME ManifestsAssumption ==
  \A folder \in DOMAIN Manifests :
    Manifests[folder] \in Seq([key : Keys, type : Types])

\* Names are compared by their place in the alphabet.
Before(a, b) ==
  \E m, n \in DOMAIN Alphabet : m < n /\ Alphabet[m] = a /\ Alphabet[n] = b

KeysOf(list) == {list[n].key : n \in DOMAIN list}

FindByKey(list, key) ==
  list[CHOOSE n \in DOMAIN list : list[n].key = key]

\* The elements of a list that are in a set, in the order of the list.
Only(list, kept) ==
  LET Keep(some, e) == IF e \in kept THEN Append(some, e) ELSE some
  IN FoldLeft(Keep, <<>>, list)

---------------------------------------------------------------------------

\* A layer that is already known is skipped, in a folder or in a later one.
LoadLayersFromPath(available, folder) ==
  LET Load(layers, manifest) ==
        IF manifest.key \in KeysOf(layers) THEN layers
        ELSE Append(layers, [key |-> manifest.key, type |-> manifest.type,
                             folder |-> folder])
  IN FoldLeft(Load, available, Manifests[folder])

\* The folders in order: the custom paths of the user before the standard ones.
LoadAllInstalledLayers(folders) ==
  FoldLeft(LoadLayersFromPath, <<>>, folders)

---------------------------------------------------------------------------

\* GetParameterOrdering, as the numbers of ParameterRank.
GetParameterOrdering(available, p) ==
  IF p.key \notin KeysOf(available) THEN 0
  ELSE LET implicit == FindByKey(available, p.key).type = "implicit"
       IN CASE p.state = "excluded" -> 1
            [] p.state = "app" /\ implicit -> 2
            [] p.state = "overridden" /\ implicit -> 3
            [] p.state = "overridden" /\ ~implicit -> 4
            [] p.state = "app" /\ ~implicit -> 5

\* Slip: a layer without a place of its own is compared by name alone.
ByNature_nameOnly(a, b) == Before(a.key, b.key)

\* Layers of which one has no place yet: device_simulation last, validation
\* before it, the others by name.
ByNature(a, b) ==
  CASE a.key = Devsim -> FALSE
    [] a.key # Devsim /\ b.key = Devsim -> TRUE
    [] a.key = Validation /\ b.key # Devsim -> FALSE
    [] OTHER -> Before(a.key, b.key)

\* ParameterCompare.
Less(available, a, b) ==
  LET rankA == GetParameterOrdering(available, a)
      rankB == GetParameterOrdering(available, b)
  IN CASE rankA # rankB -> rankA < rankB
       [] rankA = rankB /\ a.state # "overridden" -> Before(a.key, b.key)
       [] rankA = rankB /\ a.state = "overridden" ->
            IF a.rank # NO_RANK /\ b.rank # NO_RANK
              THEN a.rank < b.rank ELSE ByNature(a, b)

\* std::sort of at most 16 elements: each is moved to the front if it is less
\* than the first, else behind the last that it is not less than.  The result
\* depends on the order before, for Less is no strict weak order.
SortInsert(available, sorted, p) ==
  IF sorted = <<>> \/ Less(available, p, sorted[1]) THEN <<p>> \o sorted
  ELSE InsertAt(sorted,
                1 + Max({n \in DOMAIN sorted : ~Less(available, p, sorted[n])}),
                p)

Sorted(available, parameters) ==
  LET Insert(sorted, p) == SortInsert(available, sorted, p)
  IN FoldLeft(Insert, <<>>, parameters)

\* Slip: the places are not given anew.
Ranked_keep(parameters) == parameters

\* The second loop of OrderParameter: places are positions, of overridden
\* layers only.
Ranked(parameters) ==
  [n \in DOMAIN parameters |->
     [parameters[n] EXCEPT
        !.rank = IF parameters[n].state = "overridden" THEN n - 1 ELSE NO_RANK]]

OrderParameter(parameters, available) ==
  Ranked(Sorted(available, parameters))

FilterParameters(parameters, state) ==
  Only(parameters, {p \in Range(parameters) : p.state # state})

\* The layers that are overridden, in the order they are executed in.
Overridden(parameters) ==
  LET chosen == Only(parameters, {p \in Range(parameters) : p.state = "overridden"})
  IN [n \in DOMAIN chosen |-> chosen[n].key]

=============================================================================
