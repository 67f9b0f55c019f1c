----------------------- MODULE DeviceSimulationProofs -----------------------
(***************************************************************************)
(* Every property of the device_simulation layer, for any number of        *)
(* instances, devices and threads, any drivers and any files.              *)
(*                                                                         *)
(* NeverDies is not inductive: that the entry FillPNextChain looks up is   *)
(* there depends on who gave the device to the application, and that the   *)
(* functions the defaults are read through exist depends on which instance *)
(* set properties2.  Served says both, for an application that has called  *)
(* vkCreateInstance once; what holds before that call, and that there is   *)
(* one live instance after it, make it inductive (IInv).  That an emulated *)
(* extension is not written before an empty array follows from the types   *)
(* and PlaceForPortability (PlaceIsThere): a list with an element that is  *)
(* handed out whole has one.                                               *)
(*                                                                         *)
(* What the application is told rests on Recorded, which says where each   *)
(* entry came from, and on what LoadFiles computes (LastFileDecides): the  *)
(* fold of the files, followed file by file.                               *)
(***************************************************************************)
EXTENDS DeviceSimulation, WellFoundedInduction, TLAPS

HandlesAreLive ==
    \A d \in handles : \E i \in Instances : Live(i) /\ d \in Devices(i)

FillingIsHeld == filling \in [Threads -> handles \cup {NoDevice}]

NothingYet ==
    created = 0 =>
        /\ \A i \in Instances : ~Live(i)
        /\ ~properties2 /\ ~pdd_initialized

OneInstance ==
    created <= 1 =>
        \A i \in Instances : Live(i) =>
            /\ \A j \in Instances : Live(j) => i = j
            /\ properties2 => Enables2(instances[i])

Served ==
    regular /\ created <= 1 /\ fate = "running" =>
        /\ handles \subseteq DOMAIN pdds
        /\ pdd_initialized => \A i \in Instances : Live(i) => Devices(i) \subseteq DOMAIN pdds

IInv ==
    /\ created \in Nat
    /\ instances \in [Instances -> Requests \cup {NoInstance}]
    /\ HandlesAreLive /\ FillingIsHeld /\ NothingYet /\ OneInstance /\ Served

\* The smaller of two numbers, as Min of the community modules gives it.
LEMMA MinOfTwo ==
    ASSUME NEW a \in Nat, NEW b \in Nat
    PROVE  Min({a, b}) \in Nat /\ Min({a, b}) <= b
<1>1. \E x \in {a, b} : \A y \in {a, b} : x <= y
  OBVIOUS
<1>2. Min({a, b}) \in {a, b} /\ \A y \in {a, b} : Min({a, b}) <= y
  BY <1>1 DEF Min
<1> QED
  BY <1>2

\* The list an application gets holds devices of its instance, and none
\* when it only asks for their number.
LEMMA EnumeratedGpus ==
    ASSUME NEW capacity \in {NoArray} \cup Gpus
    PROVE  Range(Enumerated(capacity).list) \subseteq Gpus
<1> DEFINE src == [g \in Gpus |-> g]
<1>1. src \in Seq(Nat) /\ Len(src) = GpuCount /\ \A k \in 1..GpuCount : src[k] = k
  BY GpuCountAssumption DEF Gpus
<1> HIDE DEF src
<1>2. CASE capacity = NoArray
  <2>1. Enumerated(capacity).list = << >>
    BY <1>2 DEF Enumerated, EnumerateProperties
  <2> QED
    BY <2>1 DEF Range
<1>3. CASE capacity # NoArray
  <2> DEFINE n == Min({capacity, Len(src)})
  <2>1. n \in Nat /\ n <= GpuCount
    BY <1>1, <1>3, MinOfTwo, GpuCountAssumption DEF Gpus
  <2>2. Enumerated(capacity).list = SubSeq(src, 1, n)
    BY <1>3 DEF Enumerated, EnumerateProperties, src
  <2> HIDE DEF n
  <2>3. \A k \in DOMAIN SubSeq(src, 1, n) : SubSeq(src, 1, n)[k] \in Gpus
    BY <1>1, <2>1, GpuCountAssumption DEF Gpus
  <2> QED
    BY <2>2, <2>3 DEF Range
<1> QED
  BY <1>2, <1>3

\* The entries after the initialization of an instance.
LEMMA InitializedEntries ==
    ASSUME NEW i \in Instances, Initialize(i)
    PROVE  /\ fate' = "running" => /\ DOMAIN pdds' = Devices(i) \cup DOMAIN pdds
                                   /\ pdd_initialized' = TRUE
           /\ fate' # "running" => pdds' = pdds /\ pdd_initialized' = pdd_initialized
<1>1. CASE fate' = "running"
  BY <1>1 DEF Initialize
<1>2. CASE fate' # "running"
  BY <1>2 DEF Initialize
<1> QED
  BY <1>1, <1>2

\* The functions of the only instance are there when the defaults are read.
LEMMA FateOfFirst ==
    ASSUME NEW i \in Instances, properties2 => Enables2(instances[i])
    PROVE  InitializationFate(i) \in {"running", "exit"}
BY DEF InitializationFate

LEMMA Initially == Init => IInv
BY DEF Init, IInv, HandlesAreLive, FillingIsHeld, NothingYet, OneInstance, Served,
       Live, NoInstance, NoDevice

LEMMA CreateInstanceKeeps ==
    ASSUME IInv, NEW i \in Instances, NEW request \in Requests, CreateInstance(i, request)
    PROVE  IInv'
<1>1. request # NoInstance
  BY DEF Requests, NoInstance
<1>2. PICK succeeds \in BOOLEAN :
         instances' = IF succeeds THEN [instances EXCEPT ![i] = request] ELSE instances
  BY DEF CreateInstance
<1>3. \A j \in Instances : Live(j) => Live(j)'
  BY <1>1, <1>2 DEF IInv, Live
<1>4. \A j \in Instances : Live(j)' => Live(j) \/ (j = i /\ instances'[j] = request)
  BY <1>1, <1>2 DEF IInv, Live
<1>5. created' \in Nat /\ instances' \in [Instances -> Requests \cup {NoInstance}]
  BY <1>2 DEF IInv, CreateInstance
<1>6. HandlesAreLive' /\ FillingIsHeld'
  BY <1>3 DEF IInv, CreateInstance, HandlesAreLive, FillingIsHeld, Devices, NoDevice
<1>7. NothingYet' /\ created' # 0
  BY DEF IInv, CreateInstance, NothingYet
<1>8. CASE created = 0
  <2>1. OneInstance'
    BY <1>4, <1>8 DEF IInv, CreateInstance, NothingYet, OneInstance, Enables2
  <2>2. handles = {} /\ ~pdd_initialized'
    BY <1>8 DEF IInv, CreateInstance, NothingYet, HandlesAreLive
  <2>3. Served'
    BY <2>2 DEF CreateInstance, Served
  <2> QED
    BY <1>5, <1>6, <1>7, <2>1, <2>3 DEF IInv
<1>9. CASE created # 0
  <2>1. ~(created' <= 1)
    BY <1>9 DEF IInv, CreateInstance
  <2> QED
    BY <1>5, <1>6, <1>7, <2>1 DEF IInv, OneInstance, Served
<1> QED
  BY <1>8, <1>9

LEMMA DestroyInstanceKeeps ==
    ASSUME IInv, NEW i \in Instances, DestroyInstance(i)
    PROVE  IInv'
<1>1. /\ instances' \in [Instances -> Requests \cup {NoInstance}]
      /\ \A j \in Instances : Live(j)' <=> Live(j) /\ j # i
      /\ \A j \in Instances : Live(j)' => instances'[j] = instances[j]
  BY DEF IInv, DestroyInstance, Live
<1>2. HandlesAreLive'
  BY <1>1 DEF IInv, DestroyInstance, HandlesAreLive, Devices
<1>3. FillingIsHeld'
  BY DEF IInv, DestroyInstance, FillingIsHeld, Devices, NoDevice
<1>4. NothingYet' /\ OneInstance'
  BY <1>1 DEF IInv, DestroyInstance, NothingYet, OneInstance, Enables2
<1>5. Served'
  <2> SUFFICES ASSUME regular', created' <= 1
               PROVE  /\ handles' \subseteq DOMAIN pdds'
                      /\ \A j \in Instances : ~Live(j)'
    BY DEF Served
  <2>1. handles \subseteq DOMAIN pdds
    BY DEF IInv, DestroyInstance, Served
  <2>2. handles' \subseteq DOMAIN pdds'
    BY <2>1 DEF DestroyInstance, Erased
  <2>3. \A j \in Instances : ~Live(j)'
    BY <1>1 DEF IInv, DestroyInstance, OneInstance
  <2> QED
    BY <2>2, <2>3
<1>6. created' \in Nat
  BY DEF IInv, DestroyInstance
<1> QED
  BY <1>1, <1>2, <1>3, <1>4, <1>5, <1>6 DEF IInv

LEMMA EnumerateKeeps ==
    ASSUME IInv, NEW i \in Instances, NEW capacity \in {NoArray} \cup Gpus,
           EnumeratePhysicalDevices(i, capacity)
    PROVE  IInv'
<1>1. UNCHANGED <<instances, properties2, filling, created>> /\ Live(i) /\ fate = "running"
  BY DEF EnumeratePhysicalDevices
<1>2. created # 0
  BY <1>1 DEF IInv, NothingYet
<1>3. /\ created' \in Nat /\ instances' \in [Instances -> Requests \cup {NoInstance}]
      /\ NothingYet' /\ OneInstance'
  BY <1>1, <1>2 DEF IInv, NothingYet, OneInstance, Live, Enables2
<1>4. CASE UNCHANGED <<pdds, pdd_initialized, handles, regular, fate>>
  BY <1>1, <1>3, <1>4 DEF IInv, HandlesAreLive, FillingIsHeld, Served,
                          Live, Devices, NoDevice
<1>5. ASSUME handles' = handles \cup {<<i, g>> : g \in Range(Enumerated(capacity).list)},
             IF ~pdd_initialized /\ Enumerated(capacity).result = "SUCCESS"
             THEN Initialize(i) ELSE UNCHANGED <<pdds, pdd_initialized, fate>>,
             regular' = (regular /\ (pdd_initialized' \/ fate' # "running"))
      PROVE  IInv'
  <2>1. handles \subseteq handles' /\ handles' \subseteq handles \cup Devices(i)
    BY <1>5, EnumeratedGpus DEF Devices
  <2>2. HandlesAreLive' /\ FillingIsHeld'
    BY <1>1, <2>1 DEF IInv, HandlesAreLive, FillingIsHeld, Live, Devices, NoDevice
  <2>3. CASE ~pdd_initialized /\ Enumerated(capacity).result = "SUCCESS"
    <3>1. Initialize(i)
      BY <1>5, <2>3
    <3>3. Served'
      <4> SUFFICES ASSUME regular', created' <= 1, fate' = "running"
                   PROVE  /\ handles' \subseteq DOMAIN pdds'
                          /\ \A j \in Instances : Live(j)' => Devices(j) \subseteq DOMAIN pdds'
        BY DEF Served, Devices
      <4>1. DOMAIN pdds' = Devices(i) \cup DOMAIN pdds
        BY <3>1, InitializedEntries
      <4>2. handles \subseteq DOMAIN pdds
        BY <1>1, <1>5 DEF IInv, Served
      <4>3. \A j \in Instances : Live(j)' => j = i
        BY <1>1 DEF IInv, OneInstance, Live
      <4> QED
        BY <2>1, <4>1, <4>2, <4>3
    <3> QED
      BY <1>3, <2>2, <3>3 DEF IInv
  <2>4. CASE ~(~pdd_initialized /\ Enumerated(capacity).result = "SUCCESS")
    <3>1. UNCHANGED <<pdds, pdd_initialized, fate>>
      BY <1>5, <2>4
    <3>3. Served'
      BY <1>1, <1>5, <2>1, <3>1 DEF IInv, Served, Live, Devices
    <3> QED
      BY <1>3, <2>2, <3>3 DEF IInv
  <2> QED
    BY <2>3, <2>4
<1> QED
  BY <1>4, <1>5 DEF EnumeratePhysicalDevices

LEMMA EnumerateGroupsKeeps ==
    ASSUME IInv, NEW i \in Instances, EnumeratePhysicalDeviceGroups(i)
    PROVE  IInv'
<1>1. /\ UNCHANGED <<instances, properties2, filling, created, pdd_initialized, pdds, fate>>
      /\ Live(i) /\ handles' = handles \cup Devices(i)
      /\ regular' = (regular /\ pdd_initialized)
  BY DEF EnumeratePhysicalDeviceGroups, layer
<1>2. /\ created' \in Nat /\ instances' \in [Instances -> Requests \cup {NoInstance}]
      /\ NothingYet' /\ OneInstance'
  BY <1>1 DEF IInv, NothingYet, OneInstance, Live, Enables2
<1>3. HandlesAreLive' /\ FillingIsHeld'
  BY <1>1 DEF IInv, HandlesAreLive, FillingIsHeld, Live, Devices, NoDevice
<1>4. Served'
  BY <1>1 DEF IInv, Served, Live, Devices
<1> QED
  BY <1>2, <1>3, <1>4 DEF IInv

LEMMA QueryKeeps ==
    ASSUME IInv, NEW t \in Threads, NEW d \in handles, GetPhysicalDevice2(t, d)
    PROVE  IInv'
<1>1. /\ UNCHANGED <<instances, properties2, handles, created, pdd_initialized, pdds, fate, regular>>
      /\ filling' = [filling EXCEPT ![t] = d]
  BY DEF GetPhysicalDevice2, layer
<1>2. FillingIsHeld'
  BY <1>1 DEF IInv, FillingIsHeld, NoDevice
<1> QED
  BY <1>1, <1>2 DEF IInv, HandlesAreLive, NothingYet, OneInstance, Served,
                    Live, Devices, Enables2

LEMMA FillKeeps ==
    ASSUME IInv, NEW t \in Threads, FillPNextChain(t)
    PROVE  IInv'
<1>1. /\ UNCHANGED <<instances, properties2, handles, created, pdd_initialized, pdds, regular>>
      /\ filling' = [filling EXCEPT ![t] = NoDevice]
      /\ fate = "running" /\ filling[t] \in handles
      /\ fate' = IF filling[t] \in DOMAIN pdds THEN "running" ELSE "null entry"
  BY DEF FillPNextChain, layer, IInv, FillingIsHeld
<1>2. FillingIsHeld'
  BY <1>1 DEF IInv, FillingIsHeld, NoDevice
<1>3. Served'
  BY <1>1 DEF IInv, Served, Live, Devices
<1> QED
  BY <1>1, <1>2, <1>3 DEF IInv, HandlesAreLive, NothingYet, OneInstance, Live, Devices, Enables2

LEMMA ExtensionsKeep ==
    ASSUME IInv, NEW d \in handles, NEW capacity \in {NoArray} \cup 0..MaxCapacity,
           EnumerateDeviceExtensionProperties(d, capacity)
    PROVE  IInv'
<1>1. /\ UNCHANGED <<instances, properties2, handles, filling, created, pdd_initialized, pdds, regular>>
      /\ fate = "running"
  BY DEF EnumerateDeviceExtensionProperties, layer
<1>2. FillingIsHeld' /\ Served'
  BY <1>1 DEF IInv, FillingIsHeld, Served, Live, Devices, NoDevice
<1> QED
  BY <1>1, <1>2 DEF IInv, HandlesAreLive, NothingYet, OneInstance, Live, Devices, Enables2

LEMMA StepKeeps == IInv /\ [Next]_vars => IInv'
<1> SUFFICES ASSUME IInv, [Next]_vars
             PROVE  IInv'
  OBVIOUS
<1>1. CASE UNCHANGED vars
  BY <1>1 DEF vars, IInv, HandlesAreLive, FillingIsHeld, NothingYet, OneInstance, Served,
              Live, Devices, Enables2, NoDevice
<1>2. CASE Next
  BY <1>2, CreateInstanceKeeps, DestroyInstanceKeeps, EnumerateKeeps, EnumerateGroupsKeeps,
     QueryKeeps, FillKeeps, ExtensionsKeep DEF Next
<1> QED
  BY <1>1, <1>2

(***************************************************************************)
(* The rest of the state, for any number of instances.  The settings are   *)
(* those of the environment once an instance was asked for, and never      *)
(* change again; every entry was made from them and from the driver, by    *)
(* an initialization that had properties2 or had not (Described).          *)
(*                                                                         *)
(* In a regular run the entries belong to live instances, and an instance  *)
(* that has the functions to ask was created before its devices were       *)
(* described, so properties2 was set: its entries are not those of an old  *)
(* instance that had the same handle.                                      *)
(***************************************************************************)
Described(active) ==
    TransferValue(LoadFiles(Defaults(driver, active, Emulates), settings.files))

World == driver \in Drivers /\ environment \in Environments

Flags ==
    /\ properties2 \in BOOLEAN /\ pdd_initialized \in BOOLEAN /\ regular \in BOOLEAN
    /\ created \in 0..MaxCreated
    /\ fate \in {"running", "exit", "null entry", "null function",
                   "out of bounds"}

SettingsRead ==
    /\ settings \in [files : {environment.filename.env, environment.filename.file, << >>},
                     emulate : {-1, 0, 1}, modify_extensions : {-1, 0, 1},
                     modify_memory : {-1, 0, 1}, exit_on_error : {-1, 0, 1}]
    /\ created > 0 => settings = ReadSettings

FirstEnumerated == regular /\ fate = "running" /\ handles # {} => pdd_initialized

FunctionsKnown == \A i \in Instances : Live(i) /\ Enables2(instances[i]) => properties2

Entry(d) ==
    /\ \E i \in Instances : d \in Devices(i)
    /\ regular => Live(d[1])
    /\ \E active \in BOOLEAN :
          /\ pdds[d] = Described(active)
          /\ regular /\ Enables2(instances[d[1]]) => active

Entries ==
    /\ created = 0 => DOMAIN pdds = {}
    /\ \A d \in DOMAIN pdds : Entry(d)

Recorded == World /\ Flags /\ SettingsRead /\ FirstEnumerated /\ FunctionsKnown /\ Entries

\* What a call of vkCreateInstance reads.
LEMMA SettingsType ==
    ReadSettings \in [files : {environment.filename.env, environment.filename.file, << >>},
                      emulate : {-1, 0, 1}, modify_extensions : {-1, 0, 1},
                      modify_memory : {-1, 0, 1}, exit_on_error : {-1, 0, 1}]
<1>1. \A text : GetBooleanValue(text) \in {-1, 0, 1}
  BY DEF GetBooleanValue
<1> QED
  BY <1>1 DEF ReadSettings

\* A step that leaves the driver, the settings and the entries alone, and no
\* instance but one without entries, leaves every entry as it was.
LEMMA EntriesUndisturbed ==
    ASSUME Entries, UNCHANGED <<driver, settings>>, NEW d \in DOMAIN pdds,
           pdds'[d] = pdds[d], regular' => regular, regular \in BOOLEAN,
           regular' => instances'[d[1]] = instances[d[1]]
    PROVE  Entry(d)'
<1>1. Entry(d)
  BY DEF Entries
<1>2. \A active \in BOOLEAN : Described(active)' = Described(active)
  BY DEF Described, Emulates
<1> QED
  BY <1>1, <1>2 DEF Entry, Live, Enables2, Devices

LEMMA RecordedInitially == Init => Recorded
<1> SUFFICES ASSUME Init
             PROVE  Recorded
  OBVIOUS
<1>1. World /\ Flags
  <2>1. /\ World /\ created = 0 /\ fate = "running"
        /\ properties2 = FALSE /\ pdd_initialized = FALSE /\ regular = TRUE
    BY DEF Init, World
  <2>2. created \in 0..MaxCreated
    BY <2>1, MaxCreatedAssumption
  <2> QED
    BY <2>1, <2>2, Zenon DEF Flags
<1>2. SettingsRead
  BY DEF Init, SettingsRead
<1>3. FirstEnumerated /\ FunctionsKnown /\ Entries
  BY DEF Init, FirstEnumerated, FunctionsKnown, Entries, Live
<1> QED
  BY <1>1, <1>2, <1>3 DEF Recorded

LEMMA CreateInstanceRecords ==
    ASSUME IInv, Recorded, NEW i \in Instances, NEW request \in Requests,
           CreateInstance(i, request)
    PROVE  Recorded'
<1>1. PICK succeeds \in BOOLEAN :
         instances' = IF succeeds THEN [instances EXCEPT ![i] = request] ELSE instances
  BY DEF CreateInstance
<1>2. /\ \A j \in Instances : instances'[j] \in {instances[j], request}
      /\ \A j \in Instances : j # i => instances'[j] = instances[j]
  BY <1>1 DEF IInv
<1>3. World' /\ FirstEnumerated'
  BY DEF Recorded, World, world, FirstEnumerated, CreateInstance
<1>4. Flags'
  BY MaxCreatedAssumption DEF Recorded, Flags, CreateInstance
<1>5. SettingsRead'
  BY SettingsType DEF Recorded, SettingsRead, CreateInstance, ReadSettings, world
<1>6. FunctionsKnown'
  BY <1>2 DEF Recorded, Flags, FunctionsKnown, CreateInstance, Live
<1>7. Entries'
  <2>1. created' # 0 /\ pdds' = pdds /\ regular' = regular /\ driver' = driver
    BY DEF CreateInstance, IInv, world
  <2>2. ASSUME NEW d \in DOMAIN pdds
        PROVE  Entry(d)'
    <3>1. settings' = settings
      BY <2>2 DEF Recorded, Entries, Flags, SettingsRead, CreateInstance
    <3>2. regular => d[1] # i
      BY <2>2 DEF Recorded, Entries, Entry, CreateInstance
    <3>3. d[1] \in Instances
      BY <2>2 DEF Recorded, Entries, Entry, Devices
    <3> QED
      BY <1>2, <2>1, <2>2, <3>1, <3>2, <3>3, EntriesUndisturbed DEF Recorded, Flags
  <2> QED
    BY <2>1, <2>2 DEF Entries
<1> QED
  BY <1>3, <1>4, <1>5, <1>6, <1>7 DEF Recorded

LEMMA DestroyInstanceRecords ==
    ASSUME IInv, Recorded, NEW i \in Instances, DestroyInstance(i)
    PROVE  Recorded'
<1>1. PICK enumerated \in BOOLEAN :
         /\ pdds' = IF enumerated THEN Erased(i) ELSE pdds
         /\ regular' = (regular /\ enumerated)
  BY DEF DestroyInstance
<1>2. \A j \in Instances : j # i => instances'[j] = instances[j]
  BY DEF DestroyInstance, IInv
<1>3. World' /\ SettingsRead'
  BY DEF Recorded, World, SettingsRead, DestroyInstance, world, ReadSettings
<1>4. Flags' /\ FirstEnumerated'
  BY <1>1 DEF Recorded, Flags, FirstEnumerated, DestroyInstance
<1>5. FunctionsKnown'
  BY <1>2 DEF Recorded, FunctionsKnown, DestroyInstance, IInv, Live
<1>6. Entries'
  <2>1. /\ DOMAIN pdds' \subseteq DOMAIN pdds
        /\ \A d \in DOMAIN pdds' : pdds'[d] = pdds[d]
        /\ regular' => \A d \in DOMAIN pdds' : d \notin Devices(i)
    BY <1>1 DEF Erased
  <2>2. ASSUME NEW d \in DOMAIN pdds'
        PROVE  Entry(d)'
    <3>1. PICK j \in Instances : d \in Devices(j)
      BY <2>1, <2>2 DEF Recorded, Entries, Entry
    <3>2. regular' => d[1] # i
      BY <2>1, <2>2, <3>1 DEF Devices
    <3>3. UNCHANGED <<driver, settings>> /\ (regular' => regular)
      BY <1>1 DEF DestroyInstance, world
    <3>4. d[1] \in Instances
      BY <3>1 DEF Devices
    <3> QED
      BY <1>2, <2>1, <2>2, <3>2, <3>3, <3>4, EntriesUndisturbed DEF Recorded, Flags
  <2> QED
    BY <2>1, <2>2 DEF Recorded, Entries, DestroyInstance
<1> QED
  BY <1>3, <1>4, <1>5, <1>6 DEF Recorded

\* What the first enumeration does to the entries.
LEMMA InitializeRecords ==
    ASSUME IInv, Recorded, NEW i \in Instances, Live(i), Initialize(i),
           UNCHANGED <<world, settings, properties2, instances, created>>,
           regular' => regular
    PROVE  Entries' /\ pdd_initialized' \in BOOLEAN
<1>1. CASE fate' = "running"
  <2>1. /\ DOMAIN pdds' = Devices(i) \cup DOMAIN pdds
        /\ \A d \in Devices(i) : pdds'[d] = Described(properties2)
        /\ \A d \in DOMAIN pdds \ Devices(i) : pdds'[d] = pdds[d]
    BY <1>1 DEF Initialize, Simulated, Described
  <2>2. ASSUME NEW d \in Devices(i)
        PROVE  Entry(d)'
    <3>1. pdds'[d] = Described(properties2)'
      BY <2>1, <2>2 DEF Described, Emulates, world
    <3>2. d[1] = i
      BY <2>2 DEF Devices
    <3>3. properties2' \in BOOLEAN /\ (Enables2(instances[i]) => properties2')
      BY DEF Recorded, Flags, FunctionsKnown
    <3>4. Described(properties2)' = Described(properties2') 
      BY DEF Described, Emulates, world
    <3>5. /\ \E active \in BOOLEAN :
              /\ pdds'[d] = Described(active)'
              /\ regular' /\ Enables2(instances'[d[1]]) => active
      <4>1. pdds'[d] = TransferValue(LoadFiles(Defaults(driver', properties2', Emulates'), settings'.files))
        BY <3>1 DEF Described
      <4>2. regular' /\ Enables2(instances'[d[1]]) => properties2'
        BY <3>2, <3>3
      <4> QED
        BY <3>3, <4>1, <4>2 DEF Described
    <3> QED
      BY <2>2, <3>2, <3>5 DEF Entry, Live, Devices
  <2>3. ASSUME NEW d \in DOMAIN pdds \ Devices(i)
        PROVE  Entry(d)'
    BY <2>1, <2>3, EntriesUndisturbed DEF Recorded, Flags, world
  <2>4. created' # 0
    BY DEF IInv, NothingYet
  <2>5. Entries'
    BY <2>1, <2>2, <2>3, <2>4 DEF Entries
  <2> QED
    BY <1>1, <2>5 DEF Initialize
<1>2. CASE fate' # "running"
  <2>1. pdds' = pdds /\ pdd_initialized' = pdd_initialized
    BY <1>2 DEF Initialize
  <2>2. \A d \in DOMAIN pdds : Entry(d)'
    BY <2>1, EntriesUndisturbed DEF Recorded, Flags, world
  <2> QED
    BY <2>1, <2>2 DEF Recorded, Entries, Flags
<1> QED
  BY <1>1, <1>2

\* A step that leaves the layer, the instances and their number alone.
LEMMA ObserversRecord ==
    ASSUME IInv, Recorded, UNCHANGED <<world, layer, instances, created>>,
           regular' \in BOOLEAN, regular' => regular,
           fate' \in {"running", "exit", "null entry", "null function",
                   "out of bounds"}
    PROVE  World' /\ Flags' /\ SettingsRead' /\ FunctionsKnown' /\ Entries'
<1>1. World' /\ SettingsRead' /\ FunctionsKnown'
  BY DEF Recorded, World, SettingsRead, FunctionsKnown, ReadSettings, world, layer, Live
<1>2. Flags'
  <2>1. properties2' = properties2 /\ pdd_initialized' = pdd_initialized /\ created' = created
    BY DEF layer
  <2> QED
    BY <2>1, Zenon DEF Recorded, Flags
<1>3. Entries'
  <2>1. \A d \in DOMAIN pdds : Entry(d)'
    BY EntriesUndisturbed DEF Recorded, Flags, world, layer
  <2> QED
    BY <2>1 DEF Recorded, Entries, layer
<1> QED
  BY <1>1, <1>2, <1>3

LEMMA EnumerateRecords ==
    ASSUME IInv, Recorded, NEW i \in Instances, NEW capacity \in {NoArray} \cup Gpus,
           EnumeratePhysicalDevices(i, capacity)
    PROVE  Recorded'
<1>1. UNCHANGED <<world, settings, properties2, instances, created>> /\ Live(i) /\ fate = "running"
  BY DEF EnumeratePhysicalDevices
<1>2. CASE UNCHANGED <<pdds, pdd_initialized, handles, regular, fate>>
  <2>1. World' /\ Flags' /\ SettingsRead' /\ FunctionsKnown' /\ Entries'
    BY <1>1, <1>2, ObserversRecord DEF layer, Recorded, Flags
  <2>2. FirstEnumerated'
    BY <1>2 DEF Recorded, FirstEnumerated
  <2> QED
    BY <2>1, <2>2 DEF Recorded
<1>3. ASSUME IF ~pdd_initialized /\ Enumerated(capacity).result = "SUCCESS"
             THEN Initialize(i) ELSE UNCHANGED <<pdds, pdd_initialized, fate>>,
             regular' = (regular /\ (pdd_initialized' \/ fate' # "running"))
      PROVE  Recorded'
  <2>1. FirstEnumerated' /\ (regular' => regular) /\ regular' \in BOOLEAN
    BY <1>3 DEF FirstEnumerated, Recorded, Flags
  <2>2. CASE ~pdd_initialized /\ Enumerated(capacity).result = "SUCCESS"
    <3>1. Initialize(i)
      BY <1>3, <2>2
    <3>2. Entries' /\ pdd_initialized' \in BOOLEAN
      BY <1>1, <2>1, <3>1, InitializeRecords
    <3>3. fate' \in {"running", "exit", "null entry", "null function",
                   "out of bounds"}
      BY <3>1, Zenon DEF Initialize, InitializationFate
    <3>4. Flags'
      <4>1. properties2' \in BOOLEAN /\ created' \in 0..MaxCreated
        BY <1>1 DEF Recorded, Flags
      <4> QED
        BY <2>1, <3>2, <3>3, <4>1, Zenon DEF Flags
    <3>5. World' /\ SettingsRead' /\ FunctionsKnown'
      BY <1>1 DEF Recorded, World, SettingsRead, FunctionsKnown, ReadSettings, world, Live
    <3> QED
      BY <2>1, <3>2, <3>4, <3>5 DEF Recorded
  <2>3. CASE ~(~pdd_initialized /\ Enumerated(capacity).result = "SUCCESS")
    <3>1. UNCHANGED <<pdds, pdd_initialized, fate>>
      BY <1>3, <2>3
    <3>2. World' /\ Flags' /\ SettingsRead' /\ FunctionsKnown' /\ Entries'
      BY <1>1, <2>1, <3>1, ObserversRecord DEF layer, Recorded, Flags
    <3> QED
      BY <2>1, <3>2 DEF Recorded
  <2> QED
    BY <2>2, <2>3
<1> QED
  BY <1>2, <1>3 DEF EnumeratePhysicalDevices

LEMMA EnumerateGroupsRecords ==
    ASSUME IInv, Recorded, NEW i \in Instances, EnumeratePhysicalDeviceGroups(i)
    PROVE  Recorded'
<1>1. /\ UNCHANGED <<world, layer, instances, created, fate>>
      /\ regular' = (regular /\ pdd_initialized)
  BY DEF EnumeratePhysicalDeviceGroups
<1>2. World' /\ Flags' /\ SettingsRead' /\ FunctionsKnown' /\ Entries'
  BY <1>1, ObserversRecord DEF Recorded, Flags
<1>3. FirstEnumerated'
  BY <1>1 DEF FirstEnumerated, layer
<1> QED
  BY <1>2, <1>3 DEF Recorded

LEMMA QueryRecords ==
    ASSUME IInv, Recorded, NEW t \in Threads, NEW d \in handles, GetPhysicalDevice2(t, d)
    PROVE  Recorded'
<1>1. UNCHANGED <<world, layer, instances, handles, created, regular, fate>>
  BY DEF GetPhysicalDevice2
<1>2. World' /\ Flags' /\ SettingsRead' /\ FunctionsKnown' /\ Entries'
  BY <1>1, ObserversRecord DEF Recorded, Flags
<1>3. FirstEnumerated'
  BY <1>1 DEF Recorded, FirstEnumerated, layer
<1> QED
  BY <1>2, <1>3 DEF Recorded

LEMMA FillRecords ==
    ASSUME IInv, Recorded, NEW t \in Threads, FillPNextChain(t)
    PROVE  Recorded'
<1>1. /\ UNCHANGED <<world, layer, instances, handles, created, regular>>
      /\ fate = "running" /\ fate' \in {"running", "null entry"}
  BY DEF FillPNextChain
<1>2. fate' \in {"running", "exit", "null entry", "null function",
                   "out of bounds"}
  BY <1>1, Zenon
<1>3. World' /\ Flags' /\ SettingsRead' /\ FunctionsKnown' /\ Entries'
  BY <1>1, <1>2, ObserversRecord DEF Recorded, Flags
<1>4. FirstEnumerated'
  BY <1>1 DEF Recorded, FirstEnumerated, layer
<1> QED
  BY <1>3, <1>4 DEF Recorded

LEMMA ExtensionsRecord ==
    ASSUME IInv, Recorded, NEW d \in handles, NEW capacity \in {NoArray} \cup 0..MaxCapacity,
           EnumerateDeviceExtensionProperties(d, capacity)
    PROVE  Recorded'
<1>1. /\ UNCHANGED <<world, layer, instances, handles, created, regular>>
      /\ fate = "running" /\ fate' \in {"running", "null entry", "out of bounds"}
  BY DEF EnumerateDeviceExtensionProperties, ExtensionFates
<1>2. fate' \in {"running", "exit", "null entry", "null function", "out of bounds"}
  BY <1>1, Zenon
<1>3. World' /\ Flags' /\ SettingsRead' /\ FunctionsKnown' /\ Entries'
  BY <1>1, <1>2, ObserversRecord DEF Recorded, Flags
<1>4. FirstEnumerated'
  BY <1>1 DEF Recorded, FirstEnumerated, layer
<1> QED
  BY <1>3, <1>4 DEF Recorded

LEMMA StepRecords == IInv /\ Recorded /\ [Next]_vars => Recorded'
<1> SUFFICES ASSUME IInv, Recorded, [Next]_vars
             PROVE  Recorded'
  OBVIOUS
<1>1. CASE UNCHANGED vars
  <2>1. /\ UNCHANGED <<world, layer, instances, created>>
        /\ handles' = handles /\ regular' = regular /\ fate' = fate
    BY <1>1 DEF vars, world, layer
  <2>2. World' /\ Flags' /\ SettingsRead' /\ FunctionsKnown' /\ Entries'
    BY <2>1, ObserversRecord DEF Recorded, Flags
  <2>3. FirstEnumerated'
    BY <2>1 DEF Recorded, FirstEnumerated, layer
  <2> QED
    BY <2>2, <2>3 DEF Recorded
<1>2. CASE Next
  BY <1>2, CreateInstanceRecords, DestroyInstanceRecords, EnumerateRecords,
     EnumerateGroupsRecords, QueryRecords, FillRecords, ExtensionsRecord DEF Next
<1> QED
  BY <1>1, <1>2

LEMMA Invariantly == Spec => [](IInv /\ Recorded)
<1>1. Init => IInv /\ Recorded
  BY Initially, RecordedInitially
<1>2. IInv /\ Recorded /\ [Next]_vars => (IInv /\ Recorded)'
  BY StepKeeps, StepRecords
<1> QED
  BY <1>1, <1>2, PTL DEF Spec

(***************************************************************************)
(* What is reported of a device depends on the driver, the settings and    *)
(* the entry of the device only.                                           *)
(***************************************************************************)
LEMMA SameEntrySameReport ==
    ASSUME NEW d, UNCHANGED <<driver, settings>>, d \in DOMAIN pdds' <=> d \in DOMAIN pdds,
           d \in DOMAIN pdds => pdds'[d] = pdds[d]
    PROVE  \A slot \in Slots : Reported(d, slot)' = Reported(d, slot)
<1>1. CASE d \in DOMAIN pdds
  BY <1>1 DEF Reported, FillsStructure, HasExtension, Emulates, Below
<1>2. CASE d \notin DOMAIN pdds
  BY <1>2 DEF Reported, Below
<1> QED
  BY <1>1, <1>2

(***************************************************************************)
(* A step that changes the entry of a device creates or ends the device:   *)
(* the settings do not change while an instance is there, other instances  *)
(* have other entries, and the initialization comes before the first       *)
(* handle when the application enumerates the ordinary way.                *)
(***************************************************************************)
LEMMA StepIsStable ==
    ASSUME IInv, Recorded, [Next]_vars, regular', NEW d \in handles \cap handles'
    PROVE  \A slot \in Slots : Reported(d, slot)' = Reported(d, slot)
<1>1. PICK j \in Instances : Live(j) /\ d \in Devices(j)
  BY DEF IInv, HandlesAreLive
<1>2. driver' = driver
  BY DEF Next, vars, world, CreateInstance, DestroyInstance, EnumeratePhysicalDevices,
         EnumeratePhysicalDeviceGroups, GetPhysicalDevice2, FillPNextChain,
         EnumerateDeviceExtensionProperties
<1>3. settings' = settings
  <2>1. ASSUME NEW i \in Instances, NEW request \in Requests, CreateInstance(i, request)
        PROVE  settings' = settings
    BY <1>1, <2>1 DEF CreateInstance, IInv, NothingYet, Recorded, SettingsRead
  <2> QED
    BY <2>1 DEF Next, vars, layer, DestroyInstance, EnumeratePhysicalDevices,
                EnumeratePhysicalDeviceGroups, GetPhysicalDevice2, FillPNextChain,
         EnumerateDeviceExtensionProperties
<1>4. /\ d \in DOMAIN pdds' <=> d \in DOMAIN pdds
      /\ d \in DOMAIN pdds => pdds'[d] = pdds[d]
  <2>1. ASSUME NEW i \in Instances, DestroyInstance(i)
        PROVE  /\ d \in DOMAIN pdds' <=> d \in DOMAIN pdds
               /\ d \in DOMAIN pdds => pdds'[d] = pdds[d]
    BY <2>1 DEF DestroyInstance, Erased
  <2>2. ASSUME NEW i \in Instances, NEW capacity \in {NoArray} \cup Gpus,
               EnumeratePhysicalDevices(i, capacity)
        PROVE  pdds' = pdds
    <3>1. regular /\ fate = "running" /\ handles # {} => pdd_initialized
      BY DEF Recorded, FirstEnumerated
    <3> QED
      BY <2>2, <3>1 DEF EnumeratePhysicalDevices
  <2> QED
    BY <2>1, <2>2 DEF Next, vars, layer, CreateInstance, EnumeratePhysicalDeviceGroups,
                      GetPhysicalDevice2, FillPNextChain,
         EnumerateDeviceExtensionProperties
<1> QED
  BY <1>2, <1>3, <1>4, SameEntrySameReport

(***************************************************************************)
(* While an application holds a device the layer describes it the same.    *)
(***************************************************************************)
THEOREM AnswersStableCorrect == Spec => AnswersStable
<1>1. IInv /\ Recorded /\ [Next]_vars =>
         [regular' => \A d \in handles \cap handles' : \A slot \in Slots :
                          Reported(d, slot)' = Reported(d, slot)]_vars
  BY StepIsStable
<1> QED
  BY <1>1, Invariantly, PTL DEF Spec, AnswersStable

(***************************************************************************)
(* The fold of LoadFiles, step by step.  The induction theorems of the     *)
(* library take an operator and cannot be used here, so the induction is   *)
(* made from the least number outside a set.                               *)
(***************************************************************************)
LEMMA LeastNumber ==
    ASSUME NEW S \in SUBSET Nat, S # {}
    PROVE  \E least \in S : \A number \in S : least <= number
<1> DEFINE Less == {pair \in Nat \X Nat : pair[1] < pair[2]}
<1>1. IsWellFoundedOn(Less, Nat)
  BY NatLessThanWellFounded DEF OpToRel
<1>2. PICK least \in S : \A number \in S : <<number, least>> \notin Less
  <2> HIDE DEF Less
  <2> QED
    BY <1>1, WFMin
<1>3. ASSUME NEW number \in S
      PROVE  least <= number
  <2>1. <<number, least>> \notin Less
    BY <1>2, <1>3
  <2>2. number \in Nat /\ least \in Nat
    BY <1>2, <1>3
  <2>3. ~(number < least)
    BY <2>1, <2>2
  <2> QED
    BY <2>2, <2>3
<1> QED
  BY <1>2, <1>3

LEMMA InductionOnSet ==
    ASSUME NEW S, 0 \in S, \A n \in Nat : n \in S => n + 1 \in S
    PROVE  Nat \subseteq S
<1> SUFFICES ASSUME ~(Nat \subseteq S)
             PROVE  FALSE
  OBVIOUS
<1> DEFINE gap == Nat \ S
<1>1. gap # {} /\ gap \in SUBSET Nat
  OBVIOUS
<1>2. PICK least \in gap : \A number \in gap : least <= number
  <2> HIDE DEF gap
  <2> QED
    BY <1>1, LeastNumber
<1>3. least \in Nat /\ least \notin S /\ least # 0
  BY <1>2
<1>4. least - 1 \in Nat /\ least - 1 \notin gap
  BY <1>2, <1>3
<1>5. (least - 1) + 1 = least
  BY <1>3
<1> QED
  BY <1>3, <1>4, <1>5

\* Folding(fold, n, data, files): fold is what MapThenFoldSet computes for
\* every set of positions up to n.
Folding(fold, n, data, files) ==
    fold = [s \in SUBSET (1..n) |->
               IF s = {} THEN data ELSE Override(fold[s \ {Max(s)}], files[Max(s)])]

\* The largest position of a set whose largest position is known.
LEMMA MaxIs ==
    ASSUME NEW s \in SUBSET Nat, NEW n \in s, \A m \in s : m <= n
    PROVE  Max(s) = n
<1>1. \A k \in s : n >= k
  <2>1. \A k \in s : k \in Nat /\ n \in Nat /\ k <= n
    OBVIOUS
  <2> QED
    BY <2>1
<1>2. Max(s) \in s /\ \A m \in s : Max(s) >= m
  BY <1>1 DEF Max
<1>3. Max(s) \in Nat /\ n \in Nat /\ Max(s) >= n /\ Max(s) <= n
  BY <1>2
<1> QED
  BY <1>3

LEMMA FoldingGoesOn ==
    ASSUME NEW n \in Nat, NEW data, NEW files, NEW fold, Folding(fold, n, data, files)
    PROVE  \E next : Folding(next, n + 1, data, files)
<1> DEFINE next == [s \in SUBSET (1..(n + 1)) |->
                       IF n + 1 \in s THEN Override(fold[s \ {n + 1}], files[n + 1]) ELSE fold[s]]
<1>1. ASSUME NEW s \in SUBSET (1..(n + 1))
      PROVE  next[s] = IF s = {} THEN data ELSE Override(next[s \ {Max(s)}], files[Max(s)])
  <2>1. CASE n + 1 \in s
    <3>1. Max(s) = n + 1
      BY <2>1, MaxIs
    <3>2. s \ {n + 1} \in SUBSET (1..(n + 1)) /\ n + 1 \notin s \ {n + 1}
      OBVIOUS
    <3>3. next[s \ {n + 1}] = fold[s \ {n + 1}]
      BY <3>2
    <3>4. next[s] = Override(fold[s \ {n + 1}], files[n + 1])
      BY <2>1
    <3> QED
      BY <2>1, <3>1, <3>3, <3>4
  <2>2. CASE n + 1 \notin s
    <3>1. s \in SUBSET (1..n)
      BY <2>2
    <3>2. next[s] = fold[s]
      BY <2>2
    <3>3. next[s \ {Max(s)}] = fold[s \ {Max(s)}]
      BY <2>2
    <3>4. fold[s] = IF s = {} THEN data ELSE Override(fold[s \ {Max(s)}], files[Max(s)])
      BY <3>1 DEF Folding
    <3> QED
      BY <3>2, <3>3, <3>4
  <2> QED
    BY <2>1, <2>2
<1>2. next = [s \in SUBSET (1..(n + 1)) |->
                 IF s = {} THEN data ELSE Override(next[s \ {Max(s)}], files[Max(s)])]
  <2>1. next = [s \in SUBSET (1..(n + 1)) |-> next[s]]
    OBVIOUS
  <2> HIDE DEF next
  <2> QED
    BY <1>1, <2>1
<1> HIDE DEF next
<1> QED
  BY <1>2 DEF Folding

LEMMA FoldingExists ==
    ASSUME NEW data, NEW files, NEW n \in Nat
    PROVE  \E fold : Folding(fold, n, data, files)
<1> DEFINE Reached == {m \in Nat : \E fold : Folding(fold, m, data, files)}
<1>1. 0 \in Reached
  <2> DEFINE fold == [s \in SUBSET (1..0) |-> data]
  <2>1. \A s \in SUBSET (1..0) : s = {}
    OBVIOUS
  <2>2. fold = [s \in SUBSET (1..0) |->
                   IF s = {} THEN data ELSE Override(fold[s \ {Max(s)}], files[Max(s)])]
    BY <2>1
  <2> HIDE DEF fold
  <2> QED
    BY <2>2 DEF Folding
<1>2. \A m \in Nat : m \in Reached => m + 1 \in Reached
  BY FoldingGoesOn
<1>3. Nat \subseteq Reached
  <2> HIDE DEF Reached
  <2> QED
    BY <1>1, <1>2, InductionOnSet
<1> QED
  BY <1>3

\* stages[k] is what the first k files make of data.
Stages(stages, data, files) ==
    /\ stages[0] = data
    /\ \A k \in 1..Len(files) : stages[k] = Override(stages[k - 1], files[k])

LEMMA FoldInStages ==
    ASSUME NEW data, NEW files \in Seq(Files)
    PROVE  \E stages : /\ Stages(stages, data, files)
                       /\ FoldLeft(Override, data, files) = stages[Len(files)]
<1>1. DOMAIN files = 1..Len(files) /\ Len(files) \in Nat
  OBVIOUS
<1> DEFINE fold == CHOOSE iter : iter = [s \in SUBSET DOMAIN files |->
                       IF s = {} THEN data ELSE Override(iter[s \ {Max(s)}], files[Max(s)])]
           stages == [k \in 0..Len(files) |-> fold[1..k]]
<1>2. fold = [s \in SUBSET DOMAIN files |->
                 IF s = {} THEN data ELSE Override(fold[s \ {Max(s)}], files[Max(s)])]
  <2>1. \E iter : Folding(iter, Len(files), data, files)
    BY <1>1, FoldingExists
  <2>2. \E iter : iter = [s \in SUBSET DOMAIN files |->
                 IF s = {} THEN data ELSE Override(iter[s \ {Max(s)}], files[Max(s)])]
    BY <1>1, <2>1, Zenon DEF Folding
  <2> QED
    BY <2>2
<1>3. FoldLeft(Override, data, files) = fold[DOMAIN files]
  BY DEF FoldLeft, MapThenFoldSet
<1> HIDE DEF fold
<1>4. stages[0] = data
  <2>1. 1..0 = {} /\ 0 \in 0..Len(files)
    BY <1>1
  <2> QED
    BY <1>2, <2>1
<1>5. ASSUME NEW k \in 1..Len(files)
      PROVE  stages[k] = Override(stages[k - 1], files[k])
  <2>1. Max(1..k) = k
    BY <1>1, MaxIs
  <2>2. 1..k # {} /\ 1..k \in SUBSET DOMAIN files
    <3>1. k \in 1..k /\ \A j \in 1..k : j \in 1..Len(files)
      BY <1>1
    <3> QED
      BY <1>1, <3>1
  <2>3. (1..k) \ {k} = 1..(k - 1)
    <3>1. \A j : j \in (1..k) \ {k} <=> j \in 1..(k - 1)
      BY <1>1
    <3> QED
      BY <3>1
  <2>4. k \in 0..Len(files) /\ k - 1 \in 0..Len(files)
    BY <1>1
  <2>5. fold[1..k] = Override(fold[1..(k - 1)], files[k])
    BY <1>2, <2>1, <2>2, <2>3
  <2> QED
    BY <2>4, <2>5
<1>6. stages[Len(files)] = fold[DOMAIN files]
  BY <1>1
<1> HIDE DEF stages
<1> QED
  BY <1>3, <1>4, <1>5, <1>6 DEF Stages

\* A value that some steps set: at the end it is what the last of them gave.
LEMMA LastStepDecides ==
    ASSUME NEW n \in Nat, NEW now, NEW given, NEW setting \in SUBSET (1..n),
           \A k \in 1..n : now[k] = IF k \in setting THEN given[k] ELSE now[k - 1]
    PROVE  now[n] = IF setting = {} THEN now[0] ELSE given[Max(setting)]
<1> DEFINE So(k) == setting \cap (1..k)
           Says == {k \in Nat : k <= n =>
                       now[k] = IF So(k) = {} THEN now[0] ELSE given[Max(So(k))]}
<1>1. 0 \in Says
  <2>1. So(0) = {}
    OBVIOUS
  <2> QED
    BY <2>1
<1>2. ASSUME NEW k \in Nat, k \in Says, k + 1 <= n
      PROVE  now[k + 1] = IF So(k + 1) = {} THEN now[0] ELSE given[Max(So(k + 1))]
  <2>1. k <= n /\ k + 1 \in 1..n /\ (k + 1) - 1 = k
    BY <1>2
  <2>2. now[k] = IF So(k) = {} THEN now[0] ELSE given[Max(So(k))]
    BY <1>2, <2>1
  <2>3. now[k + 1] = IF k + 1 \in setting THEN given[k + 1] ELSE now[k]
    BY <2>1
  <2>4. CASE k + 1 \in setting
    <3>1. k + 1 \in So(k + 1) /\ \A m \in So(k + 1) : m <= k + 1
      BY <2>1, <2>4
    <3>2. So(k + 1) \in SUBSET Nat
      OBVIOUS
    <3>3. Max(So(k + 1)) = k + 1
      <4> HIDE DEF So
      <4> QED
        BY <3>1, <3>2, MaxIs
    <3> QED
      BY <2>3, <2>4, <3>1, <3>3
  <2>5. CASE k + 1 \notin setting
    <3>1. \A m \in setting : m <= k + 1 <=> m <= k
      BY <2>5
    <3>2. So(k + 1) = So(k)
      BY <3>1
    <3> QED
      BY <2>2, <2>3, <2>5, <3>2
  <2> QED
    BY <2>4, <2>5
<1>3. \A k \in Nat : k \in Says => k + 1 \in Says
  BY <1>2
<1>4. n \in Says
  <2> HIDE DEF Says
  <2> QED
    BY <1>1, <1>3, InductionOnSet
<1>5. So(n) = setting
  OBVIOUS
<1> QED
  BY <1>4, <1>5

\* The files that are loaded are the first ones.
LEMMA LoadedFiles ==
    ASSUME NEW files \in Seq(Files)
    PROVE  /\ Loaded(files) \in Seq(Files)
           /\ DOMAIN Loaded(files) = 1..Len(Loaded(files)) /\ Len(Loaded(files)) \in Nat
           /\ DOMAIN Loaded(files) \subseteq DOMAIN files
           /\ \A k \in DOMAIN Loaded(files) : Loaded(files)[k] = files[k]
<1> DEFINE bad == {k \in DOMAIN files : ~LoadFile(files[k])}
           last == IF bad = {} THEN Len(files) ELSE Min(bad) - 1
<1>1. DOMAIN files = 1..Len(files) /\ Len(files) \in Nat
  OBVIOUS
<1>2. Loaded(files) = SubSeq(files, 1, last)
  BY DEF Loaded
<1>3. last \in 0..Len(files)
  <2>1. CASE bad = {}
    BY <1>1, <2>1
  <2>2. CASE bad # {}
    <3>1. bad \in SUBSET Nat /\ bad \subseteq 1..Len(files)
      BY <1>1
    <3>2. \E least \in bad : \A number \in bad : least <= number
      <4> HIDE DEF bad
      <4> QED
        BY <2>2, <3>1, LeastNumber
    <3>3. Min(bad) \in bad
      <4> HIDE DEF bad
      <4> QED
        BY <3>2 DEF Min
    <3>4. Min(bad) \in 1..Len(files)
      BY <3>1, <3>3
    <3> QED
      BY <1>1, <2>2, <3>4
  <2> QED
    BY <2>1, <2>2
<1> HIDE DEF last
<1>4. /\ SubSeq(files, 1, last) \in Seq(Files) /\ Len(SubSeq(files, 1, last)) = last
      /\ \A k \in 1..last : SubSeq(files, 1, last)[k] = files[k]
  BY <1>1, <1>3
<1>5. DOMAIN SubSeq(files, 1, last) = 1..last
  BY <1>3, <1>4
<1> QED
  BY <1>1, <1>2, <1>3, <1>4, <1>5

\* What one file does.
Sets(file, slot) == slot \in file.sets \cap SectionsOf(file.schema)
Has(file, a) == file.schema \in CoreSchemas /\ a \in DOMAIN file.arrays

Formats(list) == {f.name : f \in {g \in Range(list) : IsFormatSupported(g)}}

LEMMA OverrideOnce ==
    ASSUME NEW data \in Data, NEW file \in Files
    PROVE  /\ Override(data, file) \in Data
           /\ Override(data, file).device_extensions = data.device_extensions
           /\ \A slot \in Slots : Override(data, file).value[slot] =
                 IF Sets(file, slot) THEN file.id ELSE data.value[slot]
           /\ Override(data, file).queues =
                 IF Has(file, "queues") THEN file.arrays["queues"] ELSE data.queues
           /\ Override(data, file).extensions =
                 IF Has(file, "extensions") THEN file.arrays["extensions"] ELSE data.extensions
           /\ Override(data, file).formats =
                 IF Has(file, "formats") THEN Formats(file.arrays["formats"]) ELSE data.formats
<1>1. IsFile(file)
  BY FilesAssumption
<1>2. GetValue(file, data) \in [Slots -> Values]
  BY <1>1 DEF GetValue, IsFile, Values, Data
<1>3. \A slot \in Slots : GetValue(file, data)[slot] =
         IF Sets(file, slot) THEN file.id ELSE data.value[slot]
  BY DEF GetValue, Sets
<1>4. GetArray(file, "queues", data.queues) \in Seq(STRING)
  BY <1>1 DEF GetArray, IsFile, Data
<1>5. GetArray(file, "extensions", data.extensions) \in Seq(Exts)
  BY <1>1 DEF GetArray, IsFile, Data
<1>6. GetFormats(file, data.formats) \in SUBSET STRING
  <2>1. CASE "formats" \in DOMAIN file.arrays
    <3> DEFINE list == file.arrays["formats"]
               Format == [name : STRING, features : BOOLEAN]
    <3>1. list \in Seq(Format)
      BY <1>1, <2>1 DEF IsFile
    <3>2. GetFormats(file, data.formats) = Formats(list)
      BY <2>1 DEF GetFormats, Formats
    <3> HIDE DEF list
    <3>3. \A k \in DOMAIN list : list[k] \in Format
      <4> HIDE DEF Format
      <4> QED
        BY <3>1
    <3> QED
      BY <3>2, <3>3 DEF Formats, Range
  <2>2. CASE "formats" \notin DOMAIN file.arrays
    BY <2>2 DEF GetFormats, Data
  <2> QED
    BY <2>1, <2>2
<1>7. (IF file.api > 0 THEN file.api ELSE data.api) \in {10, 11, 12}
  BY <1>1 DEF IsFile, Data
<1>8. (IF file.heaps >= 0 THEN file.heaps ELSE data.heaps) \in Nat
  BY <1>1 DEF IsFile, Data
<1>9. CASE file.schema \in CoreSchemas
  <2>1. Override(data, file) =
           [data EXCEPT !.value = GetValue(file, data),
                        !.api = IF file.api > 0 THEN file.api ELSE @,
                        !.heaps = IF file.heaps >= 0 THEN file.heaps ELSE @,
                        !.queues = GetArray(file, "queues", @),
                        !.extensions = GetArray(file, "extensions", @),
                        !.formats = GetFormats(file, @)]
    BY <1>9 DEF Override
  <2>2. Override(data, file) =
           [device_extensions |-> data.device_extensions,
            api |-> IF file.api > 0 THEN file.api ELSE data.api,
            value |-> GetValue(file, data),
            heaps |-> IF file.heaps >= 0 THEN file.heaps ELSE data.heaps,
            queues |-> GetArray(file, "queues", data.queues),
            extensions |-> GetArray(file, "extensions", data.extensions),
            formats |-> GetFormats(file, data.formats)]
    BY <2>1 DEF Data
  <2>3. Override(data, file) \in Data
    BY <1>2, <1>4, <1>5, <1>6, <1>7, <1>8, <2>2 DEF Data
  <2>4. /\ Override(data, file).queues =
              IF Has(file, "queues") THEN file.arrays["queues"] ELSE data.queues
        /\ Override(data, file).extensions =
              IF Has(file, "extensions") THEN file.arrays["extensions"] ELSE data.extensions
        /\ Override(data, file).formats =
              IF Has(file, "formats") THEN Formats(file.arrays["formats"]) ELSE data.formats
    BY <1>9, <2>2 DEF Has, GetArray, GetFormats, Formats
  <2> QED
    BY <1>3, <2>2, <2>3, <2>4
<1>10. CASE file.schema \notin CoreSchemas
  <2>1. Override(data, file) = [data EXCEPT !.value = GetValue(file, data)]
    BY <1>10 DEF Override
  <2> QED
    BY <1>2, <1>3, <1>10, <2>1 DEF Has, Data
<1> QED
  BY <1>9, <1>10

\* The largest position of a set of positions is one of them.
LEMMA MaxInRange ==
    ASSUME NEW n \in Nat, NEW s \in SUBSET (1..n), s # {}
    PROVE  Max(s) \in s
<1> DEFINE Above == {m \in Nat : \A k \in s : k <= m}
<1>1. n \in Above /\ Above \in SUBSET Nat
  OBVIOUS
<1>2. PICK bound \in Above : \A m \in Above : bound <= m
  <2> HIDE DEF Above
  <2> QED
    BY <1>1, LeastNumber
<1>3. bound \in s
  <2> SUFFICES ASSUME bound \notin s
               PROVE  FALSE
    OBVIOUS
  <2>1. \A k \in s : k \in Nat /\ k >= 1 /\ k <= bound /\ k # bound
    BY <1>2
  <2>2. bound \in Nat
    BY <1>2
  <2>3. PICK k \in s : k \in Nat /\ k >= 1 /\ k <= bound
    BY <2>1
  <2>4. bound - 1 \in Nat /\ \A m \in s : m <= bound - 1
    BY <2>1, <2>2, <2>3
  <2>5. bound - 1 \in Above
    BY <2>4
  <2> QED
    BY <1>2, <2>2, <2>5
<1>4. \A k \in s : k <= bound /\ k \in Nat
  BY <1>2
<1> HIDE DEF Above
<1>5. Max(s) = bound
  BY <1>3, <1>4, MaxIs
<1> QED
  BY <1>3, <1>5

LEMMA StagesTyped ==
    ASSUME NEW data \in Data, NEW files \in Seq(Files), NEW stages, Stages(stages, data, files),
           NEW k \in 0..Len(files)
    PROVE  stages[k] \in Data /\ stages[k].device_extensions = data.device_extensions
<1> DEFINE Typed == {m \in Nat : m <= Len(files) =>
               stages[m] \in Data /\ stages[m].device_extensions = data.device_extensions}
<1>1. 0 \in Typed
  BY DEF Stages
<1>2. ASSUME NEW m \in Nat, m \in Typed, m + 1 <= Len(files)
      PROVE  /\ stages[m + 1] \in Data
             /\ stages[m + 1].device_extensions = data.device_extensions
  <2>1. m + 1 \in 1..Len(files) /\ (m + 1) - 1 = m /\ m <= Len(files)
    BY <1>2
  <2>2. stages[m + 1] = Override(stages[m], files[m + 1]) /\ files[m + 1] \in Files
    BY <2>1 DEF Stages
  <2>3. stages[m] \in Data /\ stages[m].device_extensions = data.device_extensions
    BY <1>2, <2>1
  <2>4. \A d \in Data, file \in Files :
           /\ Override(d, file) \in Data
           /\ Override(d, file).device_extensions = d.device_extensions
    BY OverrideOnce
  <2> QED
    BY <2>2, <2>3, <2>4
<1>3. \A m \in Nat : m \in Typed => m + 1 \in Typed
  BY <1>2
<1>4. k \in Typed
  <2> HIDE DEF Typed
  <2> QED
    BY <1>1, <1>3, InductionOnSet
<1> QED
  BY <1>4

\* The files that are loaded and say something of a slot, or have an array.
Asking(files, slot) == {k \in DOMAIN Loaded(files) : Sets(files[k], slot)}
Having(files, a) == {k \in DOMAIN Loaded(files) : Has(files[k], a)}

(***************************************************************************)
(* What LoadFiles makes of data: of each slot and of each array what the   *)
(* last file says that says something, else what was there before.         *)
(***************************************************************************)
LEMMA LastFileDecides ==
    ASSUME NEW data \in Data, NEW files \in Seq(Files)
    PROVE  /\ LoadFiles(data, files) \in Data
           /\ LoadFiles(data, files).device_extensions = data.device_extensions
           /\ \A slot \in Slots : LoadFiles(data, files).value[slot] =
                 IF Asking(files, slot) = {} THEN data.value[slot]
                 ELSE files[Max(Asking(files, slot))].id
           /\ LoadFiles(data, files).queues =
                 IF Having(files, "queues") = {} THEN data.queues
                 ELSE files[Max(Having(files, "queues"))].arrays["queues"]
           /\ LoadFiles(data, files).extensions =
                 IF Having(files, "extensions") = {} THEN data.extensions
                 ELSE files[Max(Having(files, "extensions"))].arrays["extensions"]
           /\ LoadFiles(data, files).formats =
                 IF Having(files, "formats") = {} THEN data.formats
                 ELSE Formats(files[Max(Having(files, "formats"))].arrays["formats"])
<1> DEFINE loaded == Loaded(files)
           n == Len(loaded)
<1>1. /\ loaded \in Seq(Files) /\ DOMAIN loaded = 1..n /\ n \in Nat
      /\ \A k \in 1..n : loaded[k] = files[k]
  BY LoadedFiles
<1>2. PICK stages : Stages(stages, data, loaded) /\ LoadFiles(data, files) = stages[n]
  <2> HIDE DEF loaded
  <2>1. \E stages : Stages(stages, data, loaded)
                    /\ FoldLeft(Override, data, loaded) = stages[Len(loaded)]
    BY <1>1, FoldInStages
  <2>2. LoadFiles(data, files) = FoldLeft(Override, data, loaded)
    BY DEF LoadFiles, loaded
  <2> QED
    BY <2>1, <2>2
<1> HIDE DEF loaded
<1>3. \A k \in 0..n : stages[k] \in Data /\ stages[k].device_extensions = data.device_extensions
  BY <1>1, <1>2, StagesTyped
<1>4. ASSUME NEW k \in 1..n
      PROVE  /\ stages[k] = Override(stages[k - 1], files[k])
             /\ stages[k - 1] \in Data /\ files[k] \in Files
  <2>1. k - 1 \in 0..n
    BY <1>1
  <2> QED
    BY <1>1, <1>2, <1>3, <2>1 DEF Stages
<1>5. stages[0] = data
  BY <1>2 DEF Stages
<1>6. ASSUME NEW slot \in Slots
      PROVE  stages[n].value[slot] =
                 IF Asking(files, slot) = {} THEN data.value[slot]
                 ELSE files[Max(Asking(files, slot))].id
  <2> DEFINE now == [k \in 0..n |-> stages[k].value[slot]]
             given == [k \in 1..n |-> files[k].id]
  <2>1. Asking(files, slot) \in SUBSET (1..n)
    BY <1>1 DEF Asking, loaded
  <2>2. ASSUME NEW k \in 1..n
        PROVE  now[k] = IF k \in Asking(files, slot) THEN given[k] ELSE now[k - 1]
    <3>1. k \in 0..n /\ k - 1 \in 0..n
      BY <1>1
    <3>2. k \in Asking(files, slot) <=> Sets(files[k], slot)
      BY <1>1 DEF Asking, loaded
    <3>3. \A d \in Data, file \in Files :
             Override(d, file).value[slot] =
                 IF Sets(file, slot) THEN file.id ELSE d.value[slot]
      BY OverrideOnce
    <3>4. stages[k].value[slot] =
             IF Sets(files[k], slot) THEN files[k].id ELSE stages[k - 1].value[slot]
      BY <1>4, <3>3
    <3> QED
      BY <3>1, <3>2, <3>4
  <2>3. now[0] = data.value[slot] /\ now[n] = stages[n].value[slot]
    BY <1>1, <1>5
  <2>4. \A k \in 1..n : given[k] = files[k].id
    OBVIOUS
  <2>5. Asking(files, slot) # {} => Max(Asking(files, slot)) \in 1..n
    BY <1>1, <2>1, MaxInRange
  <2>6. now[n] = IF Asking(files, slot) = {} THEN now[0] ELSE given[Max(Asking(files, slot))]
    <3> DEFINE asking == Asking(files, slot)
    <3>1. asking \in SUBSET (1..n) /\ \A k \in 1..n :
              now[k] = IF k \in asking THEN given[k] ELSE now[k - 1]
      BY <2>1, <2>2
    <3> HIDE DEF asking, now, given, n
    <3>2. now[n] = IF asking = {} THEN now[0] ELSE given[Max(asking)]
      BY <1>1, <3>1, LastStepDecides
    <3> QED
      BY <3>2 DEF asking
  <2> HIDE DEF now, given
  <2> QED
    BY <2>3, <2>4, <2>5, <2>6

<1>7. stages[n].queues = IF Having(files, "queues") = {} THEN data.queues
                       ELSE files[Max(Having(files, "queues"))].arrays["queues"]
  <2> DEFINE now == [k \in 0..n |-> stages[k].queues]
             given == [k \in 1..n |-> files[k].arrays["queues"]]
             having == Having(files, "queues")
  <2>1. having \in SUBSET (1..n)
    BY <1>1 DEF Having, loaded
  <2>2. ASSUME NEW k \in 1..n
        PROVE  now[k] = IF k \in having THEN given[k] ELSE now[k - 1]
    <3>1. k \in 0..n /\ k - 1 \in 0..n /\ (k \in having <=> Has(files[k], "queues"))
      BY <1>1 DEF Having, loaded
    <3>2. \A d \in Data, file \in Files :
             Override(d, file).queues =
                 IF Has(file, "queues") THEN file.arrays["queues"] ELSE d.queues
      BY OverrideOnce
    <3> QED
      BY <1>4, <3>1, <3>2
  <2>3. now[0] = data.queues /\ now[n] = stages[n].queues
    BY <1>1, <1>5
  <2>4. having # {} => Max(having) \in 1..n
    <3> HIDE DEF having
    <3> QED
      BY <1>1, <2>1, MaxInRange
  <2>5. having # {} =>
           given[Max(having)] = files[Max(having)].arrays["queues"]
    BY <2>4
  <2> HIDE DEF now, given, having, n
  <2>6. now[n] = IF having = {} THEN now[0] ELSE given[Max(having)]
    BY <1>1, <2>1, <2>2, LastStepDecides
  <2> QED
    BY <2>3, <2>5, <2>6 DEF having
<1>8. stages[n].extensions = IF Having(files, "extensions") = {} THEN data.extensions
                       ELSE files[Max(Having(files, "extensions"))].arrays["extensions"]
  <2> DEFINE now == [k \in 0..n |-> stages[k].extensions]
             given == [k \in 1..n |-> files[k].arrays["extensions"]]
             having == Having(files, "extensions")
  <2>1. having \in SUBSET (1..n)
    BY <1>1 DEF Having, loaded
  <2>2. ASSUME NEW k \in 1..n
        PROVE  now[k] = IF k \in having THEN given[k] ELSE now[k - 1]
    <3>1. k \in 0..n /\ k - 1 \in 0..n /\ (k \in having <=> Has(files[k], "extensions"))
      BY <1>1 DEF Having, loaded
    <3>2. \A d \in Data, file \in Files :
             Override(d, file).extensions =
                 IF Has(file, "extensions") THEN file.arrays["extensions"] ELSE d.extensions
      BY OverrideOnce
    <3> QED
      BY <1>4, <3>1, <3>2
  <2>3. now[0] = data.extensions /\ now[n] = stages[n].extensions
    BY <1>1, <1>5
  <2>4. having # {} => Max(having) \in 1..n
    <3> HIDE DEF having
    <3> QED
      BY <1>1, <2>1, MaxInRange
  <2>5. having # {} =>
           given[Max(having)] = files[Max(having)].arrays["extensions"]
    BY <2>4
  <2> HIDE DEF now, given, having, n
  <2>6. now[n] = IF having = {} THEN now[0] ELSE given[Max(having)]
    BY <1>1, <2>1, <2>2, LastStepDecides
  <2> QED
    BY <2>3, <2>5, <2>6 DEF having
<1>9. stages[n].formats = IF Having(files, "formats") = {} THEN data.formats
                       ELSE Formats(files[Max(Having(files, "formats"))].arrays["formats"])
  <2> DEFINE now == [k \in 0..n |-> stages[k].formats]
             given == [k \in 1..n |-> Formats(files[k].arrays["formats"])]
             having == Having(files, "formats")
  <2>1. having \in SUBSET (1..n)
    BY <1>1 DEF Having, loaded
  <2>2. ASSUME NEW k \in 1..n
        PROVE  now[k] = IF k \in having THEN given[k] ELSE now[k - 1]
    <3>1. k \in 0..n /\ k - 1 \in 0..n /\ (k \in having <=> Has(files[k], "formats"))
      BY <1>1 DEF Having, loaded
    <3>2. \A d \in Data, file \in Files :
             Override(d, file).formats =
                 IF Has(file, "formats") THEN Formats(file.arrays["formats"]) ELSE d.formats
      BY OverrideOnce
    <3> QED
      BY <1>4, <3>1, <3>2
  <2>3. now[0] = data.formats /\ now[n] = stages[n].formats
    BY <1>1, <1>5
  <2>4. having # {} => Max(having) \in 1..n
    <3> HIDE DEF having
    <3> QED
      BY <1>1, <2>1, MaxInRange
  <2>5. having # {} =>
           given[Max(having)] = Formats(files[Max(having)].arrays["formats"])
    BY <2>4
  <2> HIDE DEF now, given, having, n
  <2>6. now[n] = IF having = {} THEN now[0] ELSE given[Max(having)]
    BY <1>1, <2>1, <2>2, LastStepDecides
  <2> QED
    BY <2>3, <2>5, <2>6 DEF having
<1>10. stages[n] \in Data /\ stages[n].device_extensions = data.device_extensions
  BY <1>1, <1>3
<1> QED
  BY <1>2, <1>6, <1>7, <1>8, <1>9, <1>10

\* The files of the settings, and the defaults of a driver.
LEMMA FilesOfSettings ==
    ASSUME Recorded
    PROVE  settings.files \in Seq(Files)
<1>1. /\ environment.filename.env \in Seq(Files) /\ environment.filename.file \in Seq(Files)
      /\ << >> \in Seq(Files)
  BY EnvironmentsAssumption DEF Recorded, World
<1>2. settings.files \in {environment.filename.env, environment.filename.file, << >>}
  BY DEF Recorded, SettingsRead
<1> QED
  BY <1>1, <1>2

LEMMA DefaultsTyped ==
    ASSUME Recorded, NEW active \in BOOLEAN
    PROVE  /\ Defaults(driver, active, Emulates) \in Data
           /\ Defaults(driver, active, Emulates).device_extensions = driver.extensions
           /\ Defaults(driver, active, Emulates).queues = << >>
           /\ Defaults(driver, active, Emulates).extensions = << >>
           /\ Defaults(driver, active, Emulates).formats = {}
           /\ \A slot \in Slots : Defaults(driver, active, Emulates).value[slot] =
                 DefaultValue(driver, active, Emulates, slot)
<1>1. driver.api \in {10, 11, 12} /\ driver.extensions \subseteq Exts /\ driver.heaps \in Nat
  BY DriversAssumption DEF Recorded, World
<1>2. \A slot \in Slots : DefaultValue(driver, active, Emulates, slot) \in Values
  BY DEF DefaultValue, Values
<1>3. Defaults(driver, active, Emulates) =
         [device_extensions |-> driver.extensions, api |-> driver.api,
          value |-> [slot \in Slots |-> DefaultValue(driver, active, Emulates, slot)],
          heaps |-> driver.heaps, queues |-> << >>, extensions |-> << >>, formats |-> {}]
  BY DEF Defaults, Constructed
<1>4. Defaults(driver, active, Emulates) \in Data
  BY <1>1, <1>2, <1>3 DEF Data
<1> QED
  BY <1>3, <1>4

LEMMA TransferSourceIsSlot == \A slot \in Slots : TransferSource(slot) \in Slots
BY DEF TransferSource, Slots

\* An entry, member by member.
LEMMA DescribedSays ==
    ASSUME Recorded, NEW active \in BOOLEAN
    PROVE  LET data == Described(active)
               files == settings.files
           IN /\ data \in Data
              /\ data.device_extensions = driver.extensions
              /\ \A slot \in Slots : data.value[slot] =
                    IF Asking(files, TransferSource(slot)) = {}
                    THEN DefaultValue(driver, active, Emulates, TransferSource(slot))
                    ELSE files[Max(Asking(files, TransferSource(slot)))].id
              /\ data.queues = IF Having(files, "queues") = {} THEN << >>
                               ELSE files[Max(Having(files, "queues"))].arrays["queues"]
              /\ data.extensions =
                    IF Having(files, "extensions") = {} THEN << >>
                    ELSE files[Max(Having(files, "extensions"))].arrays["extensions"]
              /\ data.formats =
                    IF Having(files, "formats") = {} THEN {}
                    ELSE Formats(files[Max(Having(files, "formats"))].arrays["formats"])
<1> DEFINE files == settings.files
           start == Defaults(driver, active, Emulates)
           loaded == LoadFiles(start, files)
<1>1. /\ start \in Data /\ start.device_extensions = driver.extensions
      /\ start.queues = << >> /\ start.extensions = << >> /\ start.formats = {}
      /\ \A slot \in Slots : start.value[slot] = DefaultValue(driver, active, Emulates, slot)
  BY DefaultsTyped
<1>2. files \in Seq(Files)
  BY FilesOfSettings
<1>3. Described(active) = [loaded EXCEPT !.value =
                              [slot \in Slots |-> loaded.value[TransferSource(slot)]]]
  BY DEF Described, TransferValue
<1> HIDE DEF files, start
<1>4. /\ loaded \in Data /\ loaded.device_extensions = start.device_extensions
      /\ \A slot \in Slots : loaded.value[slot] =
            IF Asking(files, slot) = {} THEN start.value[slot]
            ELSE files[Max(Asking(files, slot))].id
      /\ loaded.queues = IF Having(files, "queues") = {} THEN start.queues
                         ELSE files[Max(Having(files, "queues"))].arrays["queues"]
      /\ loaded.extensions =
            IF Having(files, "extensions") = {} THEN start.extensions
            ELSE files[Max(Having(files, "extensions"))].arrays["extensions"]
      /\ loaded.formats =
            IF Having(files, "formats") = {} THEN start.formats
            ELSE Formats(files[Max(Having(files, "formats"))].arrays["formats"])
  BY <1>1, <1>2, LastFileDecides
<1> HIDE DEF loaded
<1>5. \A slot \in Slots : loaded.value[TransferSource(slot)] \in Values
  BY <1>4, TransferSourceIsSlot DEF Data
<1>6. Described(active) \in Data
  BY <1>3, <1>4, <1>5 DEF Data
<1>7. /\ Described(active).device_extensions = loaded.device_extensions
      /\ Described(active).queues = loaded.queues
      /\ Described(active).extensions = loaded.extensions
      /\ Described(active).formats = loaded.formats
      /\ \A slot \in Slots : Described(active).value[slot] = loaded.value[TransferSource(slot)]
  BY <1>3, <1>4 DEF Data
<1>8. \A slot \in Slots : Described(active).value[slot] =
          IF Asking(files, TransferSource(slot)) = {}
          THEN DefaultValue(driver, active, Emulates, TransferSource(slot))
          ELSE files[Max(Asking(files, TransferSource(slot)))].id
  BY <1>1, <1>4, <1>7, TransferSourceIsSlot
<1> QED
  BY <1>1, <1>4, <1>6, <1>7, <1>8 DEF files

\* The types follow from what is recorded.
LEMMA TypesFollow ==
    ASSUME IInv, Recorded
    PROVE  TypeOK
<1>1. settings \in [files : {environment.filename.env, environment.filename.file, << >>},
                    emulate : {-1, 0, 1}, modify_extensions : {-1, 0, 1},
                    modify_memory : {-1, 0, 1}, exit_on_error : {-1, 0, 1}]
  BY DEF Recorded, SettingsRead
<1>2. /\ properties2 \in BOOLEAN /\ pdd_initialized \in BOOLEAN /\ regular \in BOOLEAN
      /\ created \in 0..MaxCreated
      /\ fate \in {"running", "exit", "null entry", "null function",
                 "out of bounds"}
  BY Zenon DEF Recorded, Flags
<1>3. instances \in [Instances -> Requests \cup {NoInstance}]
  BY DEF IInv
<1>4. handles \subseteq UNION {Devices(i) : i \in {j \in Instances : Live(j)}}
  BY DEF IInv, HandlesAreLive
<1>5. filling \in [Threads -> handles \cup {NoDevice}]
  BY DEF IInv, FillingIsHeld
<1>6. ASSUME NEW d \in DOMAIN pdds
      PROVE  d[1] \in Instances /\ d[2] \in Gpus /\ pdds[d] \in Data
  <2>1. PICK active \in BOOLEAN : pdds[d] = Described(active)
    BY <1>6 DEF Recorded, Entries, Entry
  <2>2. PICK i \in Instances : d \in Devices(i)
    BY <1>6 DEF Recorded, Entries, Entry
  <2>3. pdds[d] \in Data
    BY <2>1, DescribedSays
  <2> QED
    BY <2>2, <2>3 DEF Devices
<1> QED
  BY <1>1, <1>2, <1>3, <1>4, <1>5, <1>6, Zenon DEF TypeOK

(***************************************************************************)
(* What the types say of the state, the entries of the devices included.   *)
(***************************************************************************)
THEOREM TypeCorrect == Spec => []TypeOK
BY TypesFollow, Invariantly, PTL

\* A list that is not empty and fits has a last element.
LEMMA ListsNonempty ==
    ASSUME NEW S, NEW src \in Seq(S), src # << >>, NEW capacity \in Nat,
           EnumerateProperties(src, capacity).result = "SUCCESS"
    PROVE  EnumerateProperties(src, capacity).count # 0
<1>1. capacity # NoArray
  BY DEF NoArray
<1>2. Len(src) \in Nat /\ Len(src) # 0
  OBVIOUS
<1> DEFINE fits == Min({capacity, Len(src)})
<1>3. EnumerateProperties(src, capacity)
          = [result |-> IF fits = Len(src) THEN "SUCCESS" ELSE "INCOMPLETE",
             count |-> fits, list |-> SubSeq(src, 1, fits)]
  BY <1>1 DEF EnumerateProperties
<1> HIDE DEF fits
<1>4. fits = Len(src) /\ EnumerateProperties(src, capacity).count = fits
  BY <1>3
<1> QED
  BY <1>2, <1>4

\* The extension that is emulated takes the place of one that is listed.
LEMMA PlaceIsThere ==
    ASSUME Recorded, TypeOK, PlaceForPortability, NEW d \in DOMAIN pdds,
           NEW capacity \in {NoArray} \cup 0..MaxCapacity
    PROVE  ExtensionFates(d, capacity) = {"running"}
<1> DEFINE found == DeviceExtensions(d, capacity)
<1> SUFFICES ASSUME AddsPortability(d, found), capacity # NoArray
             PROVE  found.count # 0
  BY DEF ExtensionFates
<1>1. capacity \in Nat
  BY MaxCapacityAssumption
<1>2. found.result = "SUCCESS" /\ driver.extension_list # << >>
  BY DEF AddsPortability, PlaceForPortability
<1>3. driver.extension_list \in Seq(Exts)
  BY DriversAssumption DEF Recorded, World
<1>4. pdds[d].extensions \in Seq(Exts)
  BY DEF TypeOK, Data
<1>5. CASE found = EnumerateProperties(driver.extension_list, capacity)
  <2> HIDE DEF found
  <2> QED
    BY <1>1, <1>2, <1>3, <1>5, ListsNonempty
<1>6. CASE /\ found = EnumerateProperties(pdds[d].extensions, capacity)
           /\ pdds[d].extensions # << >>
  <2> HIDE DEF found
  <2> QED
    BY <1>1, <1>2, <1>4, <1>6, ListsNonempty
<1> QED
  BY <1>5, <1>6 DEF DeviceExtensions

(***************************************************************************)
(* No query finds an entry missing, no null function is called and nothing *)
(* is written before an array, for an application that creates one         *)
(* instance and enumerates its devices first.                              *)
(***************************************************************************)
THEOREM NeverDiesCorrect == Spec => []NeverDies
<1>1. Init => NeverDies
  BY DEF Init, NeverDies
<1>2. ASSUME IInv, Recorded, TypeOK, NeverDies, [Next]_vars
      PROVE  NeverDies'
  <2>1. ASSUME NEW i \in Instances, NEW capacity \in {NoArray} \cup Gpus,
               EnumeratePhysicalDevices(i, capacity)
        PROVE  NeverDies'
    <3>1. created' = created /\ Live(i) /\ fate = "running"
      BY <2>1 DEF EnumeratePhysicalDevices
    <3>2. CASE fate' = fate
      BY <3>1, <3>2 DEF NeverDies
    <3>3. CASE Initialize(i)
      BY <1>2, <3>1, <3>3, FateOfFirst DEF IInv, OneInstance, Initialize, NeverDies
    <3> QED
      BY <2>1, <3>2, <3>3 DEF EnumeratePhysicalDevices
  <2>2. ASSUME NEW t \in Threads, FillPNextChain(t)
        PROVE  NeverDies'
    <3>1. filling[t] \in handles
      BY <1>2, <2>2 DEF FillPNextChain, IInv, FillingIsHeld
    <3> QED
      BY <1>2, <2>2, <3>1 DEF FillPNextChain, layer, IInv, Served, NeverDies
  <2>3. ASSUME NEW d \in handles, NEW capacity \in {NoArray} \cup 0..MaxCapacity,
               EnumerateDeviceExtensionProperties(d, capacity)
        PROVE  NeverDies'
    <3>1. /\ fate = "running" /\ fate' \in ExtensionFates(d, capacity)
          /\ regular' = regular /\ created' = created
          /\ PlaceForPortability' <=> PlaceForPortability
      BY <2>3 DEF EnumerateDeviceExtensionProperties, PlaceForPortability, Emulates, world, layer
    <3>2. regular /\ created <= 1 /\ PlaceForPortability =>
             ExtensionFates(d, capacity) = {"running"}
      BY <1>2, <3>1, PlaceIsThere DEF IInv, Served
    <3> QED
      BY <3>1, <3>2 DEF NeverDies
  <2>4. CASE UNCHANGED vars
    BY <1>2, <2>4 DEF vars, world, layer, NeverDies, PlaceForPortability, Emulates
  <2>5. CASE fate = "running" /\ fate' = fate
    BY <2>5 DEF NeverDies
  <2> QED
    BY <1>2, <2>1, <2>2, <2>3, <2>4, <2>5
       DEF Next, CreateInstance, DestroyInstance, EnumeratePhysicalDeviceGroups,
           GetPhysicalDevice2
<1>3. ASSUME IInv, Recorded
      PROVE  TypeOK
  BY <1>3, TypesFollow
<1> QED
  BY <1>1, <1>2, <1>3, Invariantly, PTL DEF Spec

\* The positions of the files that ask something of a slot, in the words of
\* the property.
LEMMA AskingFiles ==
    ASSUME NEW slot \in Slots
    PROVE  {k \in DOMAIN Loaded(settings.files) : Asks(settings.files[k], slot)}
               = Asking(settings.files, TransferSource(slot))
BY DEF Asking, Asks, Sets

\* What nobody asked for is the driver's, where the description offers it.
LEMMA DefaultIsOffered ==
    ASSUME NEW slot \in Slots, NEW active \in BOOLEAN, Recorded,
           slot # "core" => active,
           DriverSupports(driver, slot) \/ (slot = Portability /\ Emulates),
           ExtensionListed(slot)
    PROVE  DefaultValue(driver, active, Emulates, TransferSource(slot))
               = IF DriverSupports(driver, slot) THEN Driver ELSE Emulated
<1>1. driver.api \in {10, 11, 12}
  BY DriversAssumption DEF Recorded, World
<1>2. CASE slot \in {"core", "multiview", "timeline", "protected", "portability", "vulkan12.only"}
  <2>1. TransferSource(slot) = slot
    BY <1>2 DEF TransferSource
  <2> QED
    BY <2>1 DEF DefaultValue, DriverSupports, Exts, Promoted, Portability
<1>3. CASE slot = "vulkan11.multiview"
  BY <1>3 DEF TransferSource, ExtensionListed, DefaultValue, DriverSupports, Exts, Promoted,
              Portability
<1>4. CASE slot = "vulkan12.timeline"
  BY <1>4 DEF TransferSource, ExtensionListed, DefaultValue, DriverSupports, Exts, Promoted,
              Portability
<1>5. CASE slot = "vulkan11.protected"
  BY <1>1, <1>5 DEF TransferSource, DefaultValue, DriverSupports, Exts, Promoted, Portability
<1> QED
  BY <1>2, <1>3, <1>4, <1>5 DEF Slots

\* A structure that is offered is filled from the entry.
LEMMA OfferedIsFilled ==
    ASSUME NEW d \in DOMAIN pdds, NEW slot \in Slots, Offered(d, slot),
           pdds[d].device_extensions = driver.extensions
    PROVE  Reported(d, slot) = pdds[d].value[slot]
<1>1. FillsStructure(pdds[d], slot, Emulates)
  <2>1. CASE slot \in {"core", "multiview", "timeline", "portability", "protected"}
    BY <2>1 DEF Offered, FillsStructure, HasExtension, DriverSupports, Exts, Promoted, Portability
  <2>2. CASE slot \in {"vulkan11.multiview", "vulkan11.protected", "vulkan12.timeline",
                       "vulkan12.only"}
    BY <2>2 DEF Offered, FillsStructure, Exts, Promoted, Portability
  <2> QED
    BY <2>1, <2>2 DEF Slots
<1> QED
  BY <1>1 DEF Reported

(***************************************************************************)
(* Through every structure it is asked for, a simulated device is          *)
(* described as the last file says that says something, else as the driver *)
(* does.                                                                   *)
(***************************************************************************)
THEOREM AnswersAsConfiguredCorrect == Spec => []AnswersAsConfigured
<1>1. ASSUME Recorded, regular, NEW d \in DOMAIN pdds \cap handles, NEW slot \in Slots,
             Offered(d, slot), ExtensionListed(slot)
      PROVE  Reported(d, slot) = Wanted(slot)
  <2>1. PICK active \in BOOLEAN :
           pdds[d] = Described(active) /\ (Enables2(instances[d[1]]) => active)
    BY <1>1 DEF Recorded, Entries, Entry
  <2> DEFINE asking == Asking(settings.files, TransferSource(slot))
  <2>2. /\ pdds[d].device_extensions = driver.extensions
        /\ pdds[d].value[slot] =
              IF asking = {} THEN DefaultValue(driver, active, Emulates, TransferSource(slot))
              ELSE settings.files[Max(asking)].id
    BY <1>1, <2>1, DescribedSays
  <2>3. DefaultValue(driver, active, Emulates, TransferSource(slot))
            = IF DriverSupports(driver, slot) THEN Driver ELSE Emulated
    <3>1. slot # "core" => active
      BY <1>1, <2>1 DEF Offered
    <3>2. DriverSupports(driver, slot) \/ (slot = Portability /\ Emulates)
      BY <1>1 DEF Offered
    <3> QED
      BY <1>1, <3>1, <3>2, DefaultIsOffered
  <2>4. Reported(d, slot) = pdds[d].value[slot]
    BY <1>1, <2>2, OfferedIsFilled
  <2>5. Wanted(slot) = IF asking # {} THEN settings.files[Max(asking)].id
                       ELSE IF DriverSupports(driver, slot) THEN Driver ELSE Emulated
    BY AskingFiles DEF Wanted
  <2> HIDE DEF asking
  <2> QED
    BY <2>2, <2>3, <2>4, <2>5
<1>2. Recorded => AnswersAsConfigured
  BY <1>1 DEF AnswersAsConfigured
<1> QED
  BY <1>2, Invariantly, PTL

\* The two-call idiom gives what fits.
LEMMA EnumeratedIsListed ==
    ASSUME NEW S, NEW src \in Seq(S), NEW capacity \in Nat
    PROVE  Listed(EnumerateProperties(src, capacity), src, capacity)
<1> DEFINE fits == Min({capacity, Len(src)})
<1>1. capacity # NoArray
  BY DEF NoArray
<1>2. fits \in {capacity, Len(src)}
  <2>1. \E x \in {capacity, Len(src)} : \A y \in {capacity, Len(src)} : x <= y
    OBVIOUS
  <2> QED
    BY <2>1 DEF Min
<1>3. EnumerateProperties(src, capacity) =
         [result |-> IF fits = Len(src) THEN "SUCCESS" ELSE "INCOMPLETE",
          count |-> fits, list |-> SubSeq(src, 1, fits)]
  BY <1>1 DEF EnumerateProperties
<1> HIDE DEF fits
<1> QED
  BY <1>2, <1>3 DEF Listed

\* The lists of an entry, in the words of the property.
LEMMA EntryLists ==
    ASSUME Recorded, NEW d \in DOMAIN pdds
    PROVE  /\ pdds[d] \in Data
           /\ pdds[d].queues = LastArray("queues")
           /\ pdds[d].extensions = LastArray("extensions")
           /\ LastArray("formats") # << >> => pdds[d].formats = Formats(LastArray("formats"))
<1>1. PICK active \in BOOLEAN : pdds[d] = Described(active)
  BY DEF Recorded, Entries, Entry
<1>2. \A a : LastArray(a) = IF Having(settings.files, a) = {} THEN << >>
                            ELSE settings.files[Max(Having(settings.files, a))].arrays[a]
  BY DEF LastArray, Having, Has
<1>3. /\ Described(active) \in Data
      /\ Described(active).queues = LastArray("queues")
      /\ Described(active).extensions = LastArray("extensions")
      /\ LastArray("formats") # << >> =>
             Described(active).formats = Formats(LastArray("formats"))
  BY <1>2, DescribedSays
<1> QED
  BY <1>1, <1>3

(***************************************************************************)
(* An array of a file replaces the driver's list, whatever its length and  *)
(* the capacity the application offers.                                    *)
(***************************************************************************)
THEOREM ListsAsConfiguredCorrect == Spec => []ListsAsConfigured
<1>1. ASSUME Recorded, NEW d \in DOMAIN pdds, NEW capacity \in 0..3,
             LastArray("queues") # << >>
      PROVE  Listed(GetPhysicalDeviceQueueFamilyProperties(d, capacity),
                    LastArray("queues"), capacity)
  <2>1. pdds[d].queues = LastArray("queues") /\ pdds[d].queues \in Seq(STRING)
    BY <1>1, EntryLists DEF Data
  <2> QED
    BY <1>1, <2>1, EnumeratedIsListed DEF GetPhysicalDeviceQueueFamilyProperties
<1>2. ASSUME Recorded, NEW d \in DOMAIN pdds, NEW capacity \in 0..3,
             LastArray("extensions") # << >>, settings.modify_extensions > 0, ~Emulates
      PROVE  Listed(ExtensionProperties(d, capacity),
                    LastArray("extensions"), capacity)
  <2>1. pdds[d].extensions = LastArray("extensions") /\ pdds[d].extensions \in Seq(Exts)
    BY <1>2, EntryLists DEF Data
  <2>2. settings.modify_extensions # 0
    BY <1>2
  <2>3. ExtensionProperties(d, capacity)
            = EnumerateProperties(pdds[d].extensions, capacity)
    BY <1>2, <2>1, <2>2 DEF ExtensionProperties, AddsPortability, DeviceExtensions
  <2> QED
    BY <2>1, <2>3, EnumeratedIsListed
<1>3. ASSUME Recorded, NEW d \in DOMAIN pdds,
             \E f \in Range(LastArray("formats")) : f.features,
             NEW f \in Range(LastArray("formats"))
      PROVE  GetPhysicalDeviceFormatProperties(d, f.name)
                 <=> \E g \in Range(LastArray("formats")) : g.name = f.name /\ g.features
  <2> DEFINE list == LastArray("formats")
  <2>1. list # << >>
    BY <1>3 DEF Range
  <2>2. pdds[d].formats = Formats(list)
    BY <1>3, <2>1, EntryLists
  <2> HIDE DEF list
  <2>3. \A name : name \in Formats(list) <=> \E g \in Range(list) : g.name = name /\ g.features
    BY DEF Formats, IsFormatSupported
  <2>4. Formats(list) # {}
    BY <1>3, <2>3 DEF list
  <2>5. GetPhysicalDeviceFormatProperties(d, f.name) <=> (f.name \in Formats(list))
    BY <2>2, <2>4 DEF GetPhysicalDeviceFormatProperties
  <2> QED
    BY <2>3, <2>5 DEF list
<1>4. Recorded => ListsAsConfigured
  BY <1>1, <1>2, <1>3 DEF ListsAsConfigured
<1> QED
  BY <1>4, Invariantly, PTL
=============================================================================
