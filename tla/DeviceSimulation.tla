-------------------------- MODULE DeviceSimulation --------------------------
(***************************************************************************)
(* The device_simulation layer in one process: instances created and       *)
(* destroyed, physical devices enumerated, the layer's table of simulated  *)
(* devices, and threads in the query functions.                            *)
(*                                                                         *)
(* Every handler runs under global_lock and is one action, but for the     *)
(* functions whose name ends in 2: they release the lock before they look  *)
(* the device up again and fill the pNext chain (GetPhysicalDevice2,       *)
(* FillPNextChain).  The query functions that change no state are          *)
(* operators over the state, which the properties apply to every device;   *)
(* EnumerateDeviceExtensionProperties is an action, for it may end the     *)
(* process.                                                                *)
(***************************************************************************)
EXTENDS DevsimData

CONSTANTS Instances,     \* handles of instances, reused after destruction
          GpuCount,      \* how many physical devices an instance has
          Threads,       \* threads that query
          Drivers,       \* the drivers considered
          Environments,  \* vk_layer_settings.txt and the environment variables
          MaxCreated,    \* bound on the calls of vkCreateInstance
          MaxCapacity    \* bound on the arrays extensions are written to

ASSUME GpuCountAssumption == GpuCount \in Nat \ {0}
ASSUME MaxCreatedAssumption == MaxCreated \in Nat
ASSUME MaxCapacityAssumption == MaxCapacity \in Nat
ASSUME DriversAssumption ==
    \A d \in Drivers :
        /\ d.api \in {10, 11, 12} /\ d.extensions \subseteq Exts /\ d.heaps \in Nat
        /\ d.extension_list \in Seq(Exts)
ASSUME EnvironmentsAssumption ==
    \A e \in Environments : e.filename.file \in Seq(Files) /\ e.filename.env \in Seq(Files)

Gpus == 1..GpuCount

VARIABLES driver, environment,
          settings,         \* what the last vkCreateInstance read of environment
          properties2,      \* get_physical_device_properties2_active
          pdd_initialized,
          pdds,             \* PhysicalDeviceData::map_
          instances,        \* what each live instance enabled
          handles,          \* the physical devices the application has
          filling,          \* the device a thread fills a chain for, outside the lock
          created,          \* calls of vkCreateInstance, for the bound
          regular,          \* observer: no device was obtained before the first initialization
                            \* and the devices of every destroyed instance could be enumerated
          fate              \* how the process ended

vars == <<driver, environment, settings, properties2, pdd_initialized, pdds,
          instances, handles, filling, created, regular, fate>>
world == <<driver, environment>>
layer == <<settings, properties2, pdd_initialized, pdds>>

NoInstance == [api |-> 0, khr2 |-> FALSE]
NoDevice == <<>>
Requests == [api : {10, 11}, khr2 : BOOLEAN]

Devices(i) == {<<i, g>> : g \in Gpus}
Live(i) == instances[i] # NoInstance
Enables2(request) == request.api > 10 \/ request.khr2

(***************************************************************************)
(* LayerSetupCreateInstance reads every setting anew.                      *)
(***************************************************************************)
ReadSettings ==
    [files |-> IF environment.filename.env # << >> THEN environment.filename.env
               ELSE environment.filename.file,
     emulate |-> GetBooleanValue(Setting(environment.emulate.file, environment.emulate.env)),
     modify_extensions |-> GetBooleanValue(environment.modify_extensions),
     modify_memory |-> GetBooleanValue(environment.modify_memory),
     exit_on_error |-> GetBooleanValue(environment.exit_on_error)]

Init ==
    /\ driver \in Drivers /\ environment \in Environments
    /\ settings = [files |-> << >>, emulate |-> 0, modify_extensions |-> 0,
                   modify_memory |-> 0, exit_on_error |-> 0]
    /\ properties2 = FALSE /\ pdd_initialized = FALSE /\ pdds = << >>
    /\ instances = [i \in Instances |-> NoInstance] /\ handles = {}
    /\ filling = [t \in Threads |-> NoDevice]
    /\ created = 0 /\ regular = TRUE /\ fate = "running"

(***************************************************************************)
(* The settings and properties2 change even when the layer below fails to  *)
(* create the instance, and properties2 is never reset.                    *)
(***************************************************************************)
CreateInstance(i, request) ==
    /\ fate = "running" /\ ~Live(i) /\ created < MaxCreated
    /\ created' = created + 1
    /\ settings' = ReadSettings
    /\ properties2' = (properties2 \/ Enables2(request))
    /\ \E succeeds \in BOOLEAN :
          instances' = IF succeeds THEN [instances EXCEPT ![i] = request] ELSE instances
    /\ UNCHANGED <<world, pdd_initialized, pdds, handles, filling, regular, fate>>

(***************************************************************************)
(* Destroy erases the entries of the devices; with assertions compiled in  *)
(* it ends the process when there is none, in a release build it goes on.  *)
(* When the devices cannot be enumerated the entries stay.                 *)
(***************************************************************************)
\* Slip: the entries of every instance go.
Erased_all(i) == << >>
Erased(i) == [d \in DOMAIN pdds \ Devices(i) |-> pdds[d]]

DestroyInstance(i) ==
    /\ fate = "running" /\ Live(i)
    /\ \A t \in Threads : filling[t] \notin Devices(i)   \* external synchronisation
    /\ \E enumerated \in BOOLEAN :
          /\ pdds' = IF enumerated THEN Erased(i) ELSE pdds
          /\ regular' = (regular /\ enumerated)
    /\ instances' = [instances EXCEPT ![i] = NoInstance]
    /\ handles' = handles \ Devices(i)
    /\ UNCHANGED <<world, settings, properties2, pdd_initialized, filling, created, fate>>

(***************************************************************************)
(* One physical device: the defaults, the files, the copies.               *)
(***************************************************************************)
Emulates == settings.emulate > 0

Simulated ==
    TransferValue(LoadFiles(Defaults(driver, properties2, Emulates), settings.files))

(***************************************************************************)
(* The first call that succeeds creates the entries of the devices of its  *)
(* instance; no later call creates any.  The defaults are read through     *)
(* functions that an instance without Vulkan 1.1 and without the KHR       *)
(* extension does not have.                                                *)
(***************************************************************************)
InitializationFate(i) ==
    IF properties2 /\ ~Enables2(instances[i]) THEN "null function"
    ELSE IF settings.exit_on_error > 0 /\ ReportsError(settings.files, driver, Emulates)
    THEN "exit" ELSE "running"

Initialize(i) ==
    /\ fate' = InitializationFate(i)
    /\ IF fate' = "running"
       THEN /\ pdds' = [d \in Devices(i) \cup DOMAIN pdds |->
                            IF d \in Devices(i) THEN Simulated ELSE pdds[d]]
            /\ pdd_initialized' = TRUE
       ELSE UNCHANGED <<pdds, pdd_initialized>>

Enumerated(capacity) == EnumerateProperties([g \in Gpus |-> g], capacity)

\* Slip: the flag is set by every first call, also by one that fails.
EnumeratePhysicalDevices_earlyFlag(i, capacity) ==
    /\ fate = "running" /\ Live(i)
    /\ \/ /\ handles' = handles \cup {<<i, g>> : g \in Range(Enumerated(capacity).list)}
          /\ IF ~pdd_initialized /\ Enumerated(capacity).result = "SUCCESS"
             THEN Initialize(i) ELSE UNCHANGED <<pdds, pdd_initialized, fate>>
          /\ regular' = (regular /\ (pdd_initialized' \/ fate' # "running"))
       \/ /\ pdd_initialized' = TRUE
          /\ UNCHANGED <<pdds, handles, regular, fate>>
    /\ UNCHANGED <<world, settings, properties2, instances, filling, created>>

EnumeratePhysicalDevices(i, capacity) ==
    /\ fate = "running" /\ Live(i)
    /\ \/ /\ handles' = handles \cup {<<i, g>> : g \in Range(Enumerated(capacity).list)}
          /\ IF ~pdd_initialized /\ Enumerated(capacity).result = "SUCCESS"
             THEN Initialize(i) ELSE UNCHANGED <<pdds, pdd_initialized, fate>>
          /\ regular' = (regular /\ (pdd_initialized' \/ fate' # "running"))
       \/ UNCHANGED <<pdds, pdd_initialized, handles, regular, fate>> \* the layer below fails
    /\ UNCHANGED <<world, settings, properties2, instances, filling, created>>

(***************************************************************************)
(* vkEnumeratePhysicalDeviceGroups goes past the layer.                    *)
(***************************************************************************)
EnumeratePhysicalDeviceGroups(i) ==
    /\ fate = "running" /\ Live(i) /\ Enables2(instances[i])
    /\ handles' = handles \cup Devices(i)
    /\ regular' = (regular /\ pdd_initialized)
    /\ UNCHANGED <<world, layer, instances, filling, created, fate>>

(***************************************************************************)
(* A thread in vkGetPhysicalDeviceProperties2, Features2 or                *)
(* MemoryProperties2, with a structure the layer knows in the chain.       *)
(***************************************************************************)
GetPhysicalDevice2(t, d) ==
    /\ fate = "running" /\ filling[t] = NoDevice
    /\ d \in handles /\ Enables2(instances[d[1]])
    /\ filling' = [filling EXCEPT ![t] = d]
    /\ UNCHANGED <<world, layer, instances, handles, created, regular, fate>>

FillPNextChain(t) ==
    /\ fate = "running" /\ filling[t] # NoDevice
    /\ fate' = IF filling[t] \in DOMAIN pdds THEN "running" ELSE "null entry"
    /\ filling' = [filling EXCEPT ![t] = NoDevice]
    /\ UNCHANGED <<world, layer, instances, handles, created, regular>>

(***************************************************************************)
(* The list of the extensions of a device, and the extension that is       *)
(* emulated.  It is counted on top of the list and written over its last   *)
(* element, without a look at whether there is one, or at whether the      *)
(* device has an entry.                                                    *)
(***************************************************************************)
HasSimulatedOrRealExtension(data, ext) ==
    ext \in Range(data.extensions) \/ HasExtension(data, ext)

DeviceExtensions(d, capacity) ==
    IF d \notin DOMAIN pdds \/ pdds[d].extensions = << >> \/ settings.modify_extensions = 0
    THEN EnumerateProperties(driver.extension_list, capacity)
    ELSE EnumerateProperties(pdds[d].extensions, capacity)

AddsPortability(d, found) ==
    found.result = "SUCCESS" /\ Emulates /\ ~HasSimulatedOrRealExtension(pdds[d], Portability)

ExtensionProperties(d, capacity) ==
    LET found == DeviceExtensions(d, capacity) IN
    IF ~AddsPortability(d, found) THEN found
    ELSE IF capacity = NoArray THEN [found EXCEPT !.count = @ + 1]
    ELSE [found EXCEPT !.list = [k \in 1..found.count |->
                                   IF k = found.count THEN Portability ELSE @[k]]]

\* The element before an array belongs to somebody else: the process may die of
\* it, now or later, or never notice.
ExtensionFates(d, capacity) ==
    LET found == DeviceExtensions(d, capacity) IN
    IF d \notin DOMAIN pdds
    THEN {IF found.result = "SUCCESS" /\ Emulates THEN "null entry" ELSE "running"}
    ELSE IF AddsPortability(d, found) /\ capacity # NoArray /\ found.count = 0
    THEN {"running", "out of bounds"}
    ELSE {"running"}

EnumerateDeviceExtensionProperties(d, capacity) ==
    /\ fate = "running" /\ d \in handles
    /\ fate' \in ExtensionFates(d, capacity)
    /\ UNCHANGED <<world, layer, instances, handles, filling, created, regular>>

Next ==
    \/ \E i \in Instances :
          \/ \E request \in Requests : CreateInstance(i, request)
          \/ DestroyInstance(i)
          \/ \E capacity \in {NoArray} \cup Gpus : EnumeratePhysicalDevices(i, capacity)
          \/ EnumeratePhysicalDeviceGroups(i)
    \/ \E t \in Threads :
          \/ \E d \in handles : GetPhysicalDevice2(t, d)
          \/ FillPNextChain(t)
    \/ \E d \in handles, capacity \in {NoArray} \cup 0..MaxCapacity :
          EnumerateDeviceExtensionProperties(d, capacity)

Spec == Init /\ [][Next]_vars

(***************************************************************************)
(* The query functions, over the state.                                    *)
(***************************************************************************)
Below(slot) == IF DriverSupports(driver, slot) THEN Driver ELSE Untouched

FillsStructure(data, slot, emulates) ==
    CASE slot = "core" -> TRUE
      [] slot \in Promoted -> HasExtension(data, slot)
      [] slot = Portability -> HasExtension(data, slot) \/ emulates
      [] slot = "protected" -> data.api >= 11
      [] OTHER -> data.api >= 12

Reported(d, slot) ==
    IF d \in DOMAIN pdds /\ FillsStructure(pdds[d], slot, Emulates)
    THEN pdds[d].value[slot] ELSE Below(slot)

GetPhysicalDeviceQueueFamilyProperties(d, capacity) ==
    EnumerateProperties(IF pdds[d].queues = << >> THEN driver.queues
                        ELSE pdds[d].queues, capacity)

GetPhysicalDeviceFormatProperties(d, name) ==
    name \in IF pdds[d].formats = {} THEN driver.formats ELSE pdds[d].formats

GetPhysicalDeviceMemoryHeaps(d) ==
    IF settings.modify_memory > 0 THEN pdds[d].heaps
    ELSE Min({driver.heaps, pdds[d].heaps})

(***************************************************************************)
(* Types.                                                                  *)
(***************************************************************************)
Data == [device_extensions : SUBSET Exts, api : {10, 11, 12}, value : [Slots -> Values],
         heaps : Nat, queues : Seq(STRING), extensions : Seq(Exts), formats : SUBSET STRING]

TypeOK ==
    /\ properties2 \in BOOLEAN /\ pdd_initialized \in BOOLEAN /\ regular \in BOOLEAN
    /\ settings \in [files : {environment.filename.env, environment.filename.file, << >>},
                     emulate : {-1, 0, 1}, modify_extensions : {-1, 0, 1},
                     modify_memory : {-1, 0, 1}, exit_on_error : {-1, 0, 1}]
    /\ instances \in [Instances -> Requests \cup {NoInstance}]
    /\ handles \subseteq UNION {Devices(i) : i \in {j \in Instances : Live(j)}}
    /\ filling \in [Threads -> handles \cup {NoDevice}]
    /\ \A d \in DOMAIN pdds : d[1] \in Instances /\ d[2] \in Gpus /\ pdds[d] \in Data
    /\ created \in 0..MaxCreated
    /\ fate \in {"running", "exit", "null entry", "null function", "out of bounds"}

(***************************************************************************)
(* An application that has one instance, and enumerates its devices the    *)
(* ordinary way before anything else, is not brought down by the layer,    *)
(* whatever its threads query: the process ends only by exit_on_error.     *)
(* FillPNextChain (line 2476) and EnumerateDeviceExtensionProperties (line *)
(* 2791) use the entry without looking whether there is one.               *)
(*                                                                         *)
(* Where an extension is emulated, the driver has to list another: its     *)
(* place is the one that is written (line 2793).                           *)
(***************************************************************************)
PlaceForPortability == Emulates => driver.extension_list # << >>

NeverDies == regular /\ created <= 1 /\ PlaceForPortability => fate \in {"running", "exit"}

(***************************************************************************)
(* What the files ask of a slot: the last file that sets it, or sets the   *)
(* structure it is copied from; else the driver, or the emulation.         *)
(***************************************************************************)
Asks(file, slot) == TransferSource(slot) \in file.sets \cap SectionsOf(file.schema)

Wanted(slot) ==
    LET asking == {k \in DOMAIN Loaded(settings.files) : Asks(settings.files[k], slot)} IN
    IF asking # {} THEN settings.files[Max(asking)].id
    ELSE IF DriverSupports(driver, slot) THEN Driver ELSE Emulated

(***************************************************************************)
(* The version the device is simulated with has the structure, the driver  *)
(* has what it describes, and the instance has the functions to ask.       *)
(***************************************************************************)
Offered(d, slot) ==
    /\ slot # "core" => Enables2(instances[d[1]])
    /\ DriverSupports(driver, slot) \/ (slot = Portability /\ Emulates)
    /\ slot \in {"protected"} => pdds[d].api >= 11
    /\ slot \notin Exts \cup {"core", "protected"} => pdds[d].api >= 12

ExtensionListed(slot) == TransferSource(slot) \in Promoted => TransferSource(slot) \in driver.extensions

(***************************************************************************)
(* Through every structure a simulated device is described as the last     *)
(* file says that says something, else as the driver does: in the          *)
(* structures of extensions and, for extensions the driver lists, in the   *)
(* Vulkan 1.1 and 1.2 structures that repeat them.                         *)
(***************************************************************************)
AnswersAsConfigured ==
    regular => \A d \in DOMAIN pdds \cap handles : \A slot \in Slots :
        Offered(d, slot) /\ ExtensionListed(slot) => Reported(d, slot) = Wanted(slot)

(***************************************************************************)
(* While an application holds a device its description does not change,    *)
(* whatever happens to other instances and whoever enumerates again.       *)
(***************************************************************************)
AnswersStable ==
    [][regular' => \A d \in handles \cap handles' : \A slot \in Slots :
                       Reported(d, slot)' = Reported(d, slot)]_vars

(***************************************************************************)
(* An array of a file that has at least one element the layer keeps        *)
(* replaces the driver's, through the two-call idiom with any capacity.    *)
(***************************************************************************)
LastArray(a) ==
    LET having == {k \in DOMAIN Loaded(settings.files) :
                      /\ settings.files[k].schema \in CoreSchemas
                      /\ a \in DOMAIN settings.files[k].arrays}
    IN IF having = {} THEN << >> ELSE settings.files[Max(having)].arrays[a]

Listed(answer, src, capacity) ==
    /\ answer.list = SubSeq(src, 1, answer.count)
    /\ answer.count = Len(src) \/ (answer.result = "INCOMPLETE" /\ answer.count = capacity)

ListsAsConfigured ==
    \A d \in DOMAIN pdds :
        /\ \A capacity \in 0..3 :
              /\ LastArray("queues") # << >> =>
                    Listed(GetPhysicalDeviceQueueFamilyProperties(d, capacity),
                           LastArray("queues"), capacity)
              /\ LastArray("extensions") # << >> /\ settings.modify_extensions > 0 /\ ~Emulates =>
                    Listed(ExtensionProperties(d, capacity),
                           LastArray("extensions"), capacity)
        /\ (\E f \in Range(LastArray("formats")) : f.features) =>
              \A f \in Range(LastArray("formats")) :
                  GetPhysicalDeviceFormatProperties(d, f.name)
                      <=> \E g \in Range(LastArray("formats")) : g.name = f.name /\ g.features
=============================================================================
