------------------------------ MODULE ViaProofs ------------------------------
(***************************************************************************)
(* Theorems about via, on every system, for every environment, every       *)
(* folder of drivers and layers, every number of physical devices and      *)
(* whatever each step finds.                                               *)
(*                                                                         *)
(* That via cleans up what it created and that the success it prints is    *)
(* earned follows from what is known of the instances and their devices at *)
(* each step (IInv).  What the first nine steps print and find does not    *)
(* matter there: only that the verdict keeps every failure they report.    *)
(*                                                                         *)
(* That the report is a document and that the verdict on the drivers is    *)
(* right follows from what each step prints and finds (RInv): lists of any *)
(* length are read and printed by folds, and what a fold computes is known *)
(* value by value.                                                         *)
(***************************************************************************)
EXTENDS Via, FiniteSetTheorems, WellFoundedInduction, TLAPS

\* The verdict is a success as long as no step reported a failure.
VerdictKept == results = "SUCCESSFUL" <=> failed = {}

SystemSteps == {"environment", "hardware", "executable", "driver", "loader", "sdk",
                "implicit", "explicit", "settings"}

\* The devices of the other instance were counted for it.
MaxCounted == max.gpus > 0 => max.instance = "live" /\ max.desired_api_version = 1

\* What GenerateLogicalDeviceInfo leaves to clean up.
DevicesMade ==
    /\ one.instance = "live" /\ MaxCounted
    /\ max.gpus = 0 => max.devices = << >>
    /\ failed = {} /\ one.devices # << >> => "live" \in Range(one.devices \o max.devices)

\* What is known once everything was cleaned up.
CleanedUp ==
    /\ one.instance = "destroyed" /\ Released(one)
    /\ max.gpus > 0 => Released(max)
    /\ failed = {} /\ one.devices # << >> => "destroyed" \in Range(one.devices \o max.devices)

Unmade == one = NoVulkan /\ max = NoVulkan

VulkanKnown ==
    /\ phase \in SystemSteps \cup {"instance"} => Unmade
    /\ phase = "physical" =>
          /\ one.instance = "live" /\ one.devices = << >>
          /\ max.gpus = 0 /\ max.devices = << >>
    /\ phase = "logical" =>
          /\ one.instance = "live" /\ one.devices = << >>
          /\ MaxCounted /\ max.devices = << >>
    /\ phase = "cleanup" => DevicesMade
    /\ phase = "test" => CleanedUp
    /\ phase \in {"end", "ended"} =>
          \/ "instance" \in failed
          \/ Unmade /\ failed # {}
          \/ CleanedUp /\ (failed = {} /\ run_cube_tests /\ found_sdk => ran_tests)

VulkanTyped == one \in Vulkan /\ max \in Vulkan

IInv == phase \in Phases /\ VulkanTyped /\ VerdictKept /\ VulkanKnown

LEMMA ReportsKeepVerdict ==
    ASSUME VerdictKept, NEW outcome, NEW next, Reports(outcome, next)
    PROVE  /\ VerdictKept' /\ phase' = next /\ failed \subseteq failed'
           /\ outcome.result # "SUCCESSFUL" => phase \in failed'
           /\ failed' = {} => outcome.result = "SUCCESSFUL"
BY DEF Reports, VerdictKept

\* The nine steps that describe the system create nothing.
LEMMA SystemStepsKeep ==
    ASSUME IInv,
           \/ PrintSystemEnvironmentInfo \/ PrintSystemHardwareInfo \/ PrintSystemExecutableInfo
           \/ PrintSystemDriverInfo \/ PrintSystemLoaderInfo \/ PrintSystemSdkInfo
           \/ PrintSystemImplicitLayerInfo \/ PrintSystemExplicitLayerInfo
           \/ PrintSystemSettingsFileInfo
    PROVE  IInv'
<1>1. PICK outcome, next :
         /\ Reports(outcome, next)
         /\ \/ phase = "environment" /\ next = "hardware"
            \/ phase = "hardware" /\ next = "executable"
            \/ phase = "executable" /\ next = "driver"
            \/ phase = "driver" /\ next = "loader"
            \/ phase = "loader" /\ next = "sdk"
            \/ phase = "sdk" /\ next = "implicit"
            \/ phase = "implicit" /\ next = "explicit"
            \/ phase = "explicit" /\ next = "settings"
            \/ phase = "settings" /\ next = IF results = "SUCCESSFUL" THEN "instance" ELSE "end"
         /\ UNCHANGED vulkan
  <2>1. CASE PrintSystemEnvironmentInfo
    BY <2>1 DEF PrintSystemEnvironmentInfo
  <2>2. CASE PrintSystemHardwareInfo
    BY <2>2 DEF PrintSystemHardwareInfo
  <2>3. CASE PrintSystemExecutableInfo
    BY <2>3 DEF PrintSystemExecutableInfo
  <2>4. CASE PrintSystemDriverInfo
    BY <2>4 DEF PrintSystemDriverInfo
  <2>5. CASE PrintSystemLoaderInfo
    BY <2>5 DEF PrintSystemLoaderInfo
  <2>6. CASE PrintSystemSdkInfo
    BY <2>6 DEF PrintSystemSdkInfo
  <2>7. CASE PrintSystemImplicitLayerInfo
    BY <2>7 DEF PrintSystemImplicitLayerInfo
  <2>8. CASE PrintSystemExplicitLayerInfo
    BY <2>8 DEF PrintSystemExplicitLayerInfo
  <2>9. CASE PrintSystemSettingsFileInfo
    BY <2>9 DEF PrintSystemSettingsFileInfo
  <2> QED  BY <2>1, <2>2, <2>3, <2>4, <2>5, <2>6, <2>7, <2>8, <2>9
<1>2. VerdictKept' /\ phase' = next /\ failed \subseteq failed'
  BY <1>1, ReportsKeepVerdict DEF IInv
<1>3. phase \in SystemSteps /\ Unmade
  BY <1>1 DEF SystemSteps, IInv, VulkanKnown
<1>4. Unmade' /\ VulkanTyped'
  BY <1>1, <1>3 DEF Unmade, vulkan, IInv, VulkanTyped
<1>5. phase' \in SystemSteps \cup {"instance"} \/ (phase' = "end" /\ failed' # {})
  BY <1>1, <1>2 DEF SystemSteps, IInv, VerdictKept
<1> QED  BY <1>2, <1>4, <1>5 DEF IInv, VulkanKnown, SystemSteps, Phases

\* An instance, and its version, can be made for anything known of Vulkan.
LEMMA InstanceMade ==
    ASSUME NEW info \in Vulkan
    PROVE  /\ [info EXCEPT !.instance = "live"] \in Vulkan
           /\ \A version \in 0..1, made \in BOOLEAN :
                 [info EXCEPT !.max_api_version = version,
                              !.instance = IF made THEN "live" ELSE @] \in Vulkan
BY DEF Vulkan

LEMMA InstanceKeeps == ASSUME IInv, GenerateInstanceInfo PROVE IInv'
<1>1. PICK extensions \in BOOLEAN, made \in BOOLEAN, made_max \in BOOLEAN, version \in {-1, 0, 1} :
         LET result == IF ~made \/ (version >= 0 /\ ~made_max)
                       THEN "VULKAN_FAILED_CREATE_INSTANCE"
                       ELSE IF ~extensions THEN "VULKAN_CANT_FIND_EXTENSIONS" ELSE "SUCCESSFUL"
         IN /\ Reports([script |-> Table(Row \o Row \o Row), result |-> result],
                       IF result = "SUCCESSFUL" THEN "physical" ELSE "end")
            /\ one' = IF made THEN [one EXCEPT !.instance = "live"] ELSE one
            /\ max' = IF version < 0 THEN max
                      ELSE [max EXCEPT !.max_api_version = version,
                                       !.instance = IF made_max THEN "live" ELSE @]
  BY DEF GenerateInstanceInfo
<1> DEFINE result == IF ~made \/ (version >= 0 /\ ~made_max)
                     THEN "VULKAN_FAILED_CREATE_INSTANCE"
                     ELSE IF ~extensions THEN "VULKAN_CANT_FIND_EXTENSIONS" ELSE "SUCCESSFUL"
           next == IF result = "SUCCESSFUL" THEN "physical" ELSE "end"
<1>2. Reports([script |-> Table(Row \o Row \o Row), result |-> result], next)
  BY <1>1
<1>3. /\ VerdictKept' /\ phase' = next
      /\ result # "SUCCESSFUL" => phase \in failed'
  <2> HIDE DEF result
  <2> QED  BY <1>2, ReportsKeepVerdict DEF IInv
<1>4. phase = "instance" /\ Unmade
  BY DEF GenerateInstanceInfo, IInv, VulkanKnown
<1>7. VulkanTyped'
  <2>1. one' \in Vulkan
    <3>1. one \in Vulkan /\ [one EXCEPT !.instance = "live"] \in Vulkan
      BY InstanceMade DEF IInv, VulkanTyped
    <3> QED  BY <1>1, <3>1
  <2>2. max' \in Vulkan
    <3>1. CASE version < 0
      BY <1>1, <3>1 DEF IInv, VulkanTyped
    <3>2. CASE version >= 0
      <4>1. max' = [max EXCEPT !.max_api_version = version,
                               !.instance = IF made_max THEN "live" ELSE @]
        BY <1>1, <3>2
      <4>2. max \in Vulkan /\ version \in 0..1 /\ made_max \in BOOLEAN
        BY <1>1, <3>2 DEF IInv, VulkanTyped
      <4>3. [max EXCEPT !.max_api_version = version,
                        !.instance = IF made_max THEN "live" ELSE @] \in Vulkan
        BY <4>2, InstanceMade
      <4> QED  BY <4>1, <4>3
    <3> QED  BY <3>1, <3>2
  <2> QED  BY <2>1, <2>2 DEF VulkanTyped
<1>5. CASE result = "SUCCESSFUL"
  <2>1. made
    BY <1>5
  <2>2. one.instance' = "live" /\ one.devices' = << >>
    BY <1>1, <1>4, <2>1 DEF Unmade, NoVulkan
  <2>3. max.gpus' = 0 /\ max.devices' = << >>
    BY <1>1, <1>4 DEF Unmade, NoVulkan
  <2> QED  BY <1>3, <1>5, <1>7, <2>2, <2>3 DEF IInv, VulkanKnown, SystemSteps, Phases
<1>6. CASE result # "SUCCESSFUL"
  BY <1>3, <1>4, <1>6, <1>7 DEF IInv, VulkanKnown, SystemSteps, Phases
<1> QED  BY <1>5, <1>6

\* There are devices to count for the other instance only among those found.
LEMMA CountedDevices ==
    ASSUME NEW n \in 0..MaxGpus, NEW versions \in [1..n -> 0..1], NEW version
    PROVE  Cardinality({g \in DOMAIN versions : versions[g] = version}) \in 0..MaxGpus
<1> DEFINE counted == {g \in 1..n : versions[g] = version}
<1>1. n \in Nat /\ n <= MaxGpus
  BY GpusAssumption
<1>2. IsFiniteSet(1..n) /\ Cardinality(1..n) = n
  BY <1>1, FS_Interval
<1>3. IsFiniteSet(counted) /\ Cardinality(counted) <= n
  BY <1>2, FS_Subset
<1>4. Cardinality(counted) \in Nat
  BY <1>3, FS_CardinalityType
<1>5. {g \in DOMAIN versions : versions[g] = version} = counted
  OBVIOUS
<1> QED  BY <1>1, <1>3, <1>4, <1>5, GpusAssumption

LEMMA DevicesCounted ==
    ASSUME NEW info \in Vulkan, NEW version \in 0..1, NEW gpus \in 0..MaxGpus
    PROVE  /\ [info EXCEPT !.gpus = gpus] \in Vulkan
           /\ [info EXCEPT !.desired_api_version = version, !.gpus = gpus] \in Vulkan
BY DEF Vulkan

LEMMA PhysicalKeeps == ASSUME IInv, GeneratePhysDevInfo PROVE IInv'
<1>1. PICK versions, answer, answer_max :
      /\ versions \in UNION {[1..n -> 0..1] : n \in 0..MaxGpus}
      /\ LET fails   == PhysDevFails(answer, answer_max)
             overall == Lower(max.max_api_version, Highest(versions))
             result  == IF fails THEN "VULKAN_CANT_FIND_DRIVER"
                        ELSE IF answer = "no extensions" /\ versions # << >>
                        THEN "VULKAN_CANT_FIND_EXTENSIONS" ELSE "SUCCESSFUL"
         IN /\ Reports([script |-> IF fails THEN <<"table">> \o Row \o Row ELSE Table(Row \o Row),
                        result |-> result],
                       AfterPhysDevInfo(result))
            /\ one' = IF answer = "no count" THEN one ELSE [one EXCEPT !.gpus = Len(versions)]
            /\ max' = IF fails \/ ~HasMax THEN max
                      ELSE [max EXCEPT !.desired_api_version = overall,
                                       !.gpus = IF overall = 0 THEN 0
                                                ELSE Cardinality({g \in DOMAIN versions : versions[g] = overall})]
            /\ slips' = IF fails THEN slips \cup {"physical"} ELSE slips
  BY Zenon DEF GeneratePhysDevInfo
<1> DEFINE fails   == PhysDevFails(answer, answer_max)
           overall == Lower(max.max_api_version, Highest(versions))
           result  == IF fails THEN "VULKAN_CANT_FIND_DRIVER"
                      ELSE IF answer = "no extensions" /\ versions # << >>
                      THEN "VULKAN_CANT_FIND_EXTENSIONS" ELSE "SUCCESSFUL"
           script  == IF fails THEN <<"table">> \o Row \o Row ELSE Table(Row \o Row)
           counted == Cardinality({g \in DOMAIN versions : versions[g] = overall})
<1>2. PICK found \in 0..MaxGpus : versions \in [1..found -> 0..1]
  <2>1. versions \in UNION {[1..n -> 0..1] : n \in 0..MaxGpus}
    BY <1>1, Zenon
  <2> QED  BY <2>1
<1>3. Len(versions) = found /\ counted \in 0..MaxGpus
  <2>1. Len(versions) = found
    BY <1>2, GpusAssumption
  <2>2. counted \in 0..MaxGpus
    BY <1>2, CountedDevices, Zenon
  <2> QED  BY <2>1, <2>2
<1>4. /\ phase = "physical" /\ one.instance = "live" /\ one.devices = << >>
      /\ max.gpus = 0 /\ max.devices = << >>
      /\ one \in Vulkan /\ max \in Vulkan
  BY DEF GeneratePhysDevInfo, IInv, VulkanKnown, VulkanTyped
<1>5. Reports([script |-> script, result |-> result], AfterPhysDevInfo(result))
  BY <1>1
<1>6. one' = one \/ one' = [one EXCEPT !.gpus = found]
  BY <1>1, <1>3
<1>7. max' = max \/ /\ max' = [max EXCEPT !.desired_api_version = overall,
                                         !.gpus = IF overall = 0 THEN 0 ELSE counted]
                    /\ max.instance = "live"
  BY <1>1 DEF HasMax
<1>8. overall \in 0..1
  <2>1. max.max_api_version \in 0..1 /\ Highest(versions) \in 0..1
    BY <1>4 DEF Highest, Vulkan
  <2> QED  BY <2>1 DEF Lower
<1>9. /\ result \in {"SUCCESSFUL", "VULKAN_CANT_FIND_DRIVER", "VULKAN_CANT_FIND_EXTENSIONS"}
  OBVIOUS
<1> HIDE DEF script, result, counted, overall
<1>10. /\ VerdictKept' /\ phase' = AfterPhysDevInfo(result)
       /\ result # "SUCCESSFUL" => failed' # {}
  <2> DEFINE outcome == [script |-> script, result |-> result]
  <2>1. outcome.result = result
    OBVIOUS
  <2> HIDE DEF outcome
  <2>2. Reports(outcome, AfterPhysDevInfo(result)) /\ VerdictKept
    BY <1>5 DEF outcome, IInv
  <2> QED  BY <2>1, <2>2, ReportsKeepVerdict
<1>11. one' \in Vulkan /\ one.instance' = "live" /\ one.devices' = << >>
  <2>1. [one EXCEPT !.gpus = found] \in Vulkan
    BY <1>4, <1>8, DevicesCounted
  <2>2. /\ [one EXCEPT !.gpus = found].instance = one.instance
        /\ [one EXCEPT !.gpus = found].devices = one.devices
    BY <1>4 DEF Vulkan
  <2> QED  BY <1>4, <1>6, <2>1, <2>2
<1>12. max' \in Vulkan /\ MaxCounted' /\ max.devices' = << >>
  <2>1. CASE max' = max
    <3>1. max.gpus' = 0 /\ max.devices' = << >> /\ max' \in Vulkan
      BY <1>4, <2>1
    <3> QED  BY <3>1 DEF MaxCounted
  <2>2. CASE /\ max' = [max EXCEPT !.desired_api_version = overall,
                                  !.gpus = IF overall = 0 THEN 0 ELSE counted]
             /\ max.instance = "live"
    <3> DEFINE gpus == IF overall = 0 THEN 0 ELSE counted
    <3>1. gpus \in 0..MaxGpus /\ (gpus > 0 => overall = 1)
      <4>1. counted \in 0..MaxGpus /\ overall \in 0..1
        BY <1>3, <1>8
      <4> HIDE DEF counted, overall
      <4> QED  BY <4>1, GpusAssumption
    <3> HIDE DEF gpus
    <3>2. max' = [max EXCEPT !.desired_api_version = overall, !.gpus = gpus]
      BY <2>2 DEF gpus
    <3>3. max' \in Vulkan
      BY <1>4, <1>8, <3>1, <3>2, DevicesCounted
    <3>4. /\ max.instance' = max.instance /\ max.devices' = max.devices
          /\ max.desired_api_version' = overall /\ max.gpus' = gpus
      BY <1>4, <3>2 DEF Vulkan
    <3> QED  BY <1>4, <2>2, <3>1, <3>3, <3>4 DEF MaxCounted
  <2> QED  BY <1>7, <2>1, <2>2
<1>13. CASE result = "SUCCESSFUL"
  BY <1>10, <1>11, <1>12, <1>13
     DEF IInv, VulkanTyped, VulkanKnown, SystemSteps, Phases, AfterPhysDevInfo
<1>14. CASE result # "SUCCESSFUL"
  <2>1. phase' = "cleanup" /\ failed' # {}
    BY <1>10, <1>14 DEF AfterPhysDevInfo
  <2>2. DevicesMade'
    BY <1>11, <1>12, <2>1 DEF DevicesMade
  <2> QED  BY <1>10, <1>11, <1>12, <2>1, <2>2
           DEF IInv, VulkanTyped, VulkanKnown, SystemSteps, Phases
<1> QED  BY <1>13, <1>14

\* One entry for each device that was tried.
LEMMA DevicesListed ==
    ASSUME NEW n \in 0..MaxGpus, NEW devices \in [1..n -> BOOLEAN]
    PROVE  /\ Made(devices) \in [1..n -> {"live", "null"}]
           /\ Made(devices) = << >> => devices = << >>
           /\ n = 0 => Made(devices) = << >>
BY GpusAssumption DEF Made

LEMMA DevicesKept ==
    ASSUME NEW info \in Vulkan, NEW n \in 0..MaxGpus,
           NEW devices \in [1..n -> {"live", "null", "destroyed"}]
    PROVE  /\ [info EXCEPT !.devices = devices] \in Vulkan
           /\ [info EXCEPT !.devices = devices].devices = devices
           /\ \A field \in {"instance", "desired_api_version", "gpus"} :
                 [info EXCEPT !.devices = devices][field] = info[field]
BY DEF Vulkan

LEMMA RangeTogether ==
    ASSUME NEW S, NEW a \in Seq(S), NEW b \in Seq(S)
    PROVE  Range(a \o b) = Range(a) \cup Range(b)
<1>1. /\ DOMAIN (a \o b) = 1..(Len(a) + Len(b)) /\ DOMAIN a = 1..Len(a)
      /\ DOMAIN b = 1..Len(b) /\ Len(a) \in Nat /\ Len(b) \in Nat
  OBVIOUS
<1>2. ASSUME NEW k \in DOMAIN (a \o b) PROVE (a \o b)[k] \in Range(a) \cup Range(b)
  <2>1. CASE k \in DOMAIN a
    BY <1>1, <2>1 DEF Range
  <2>2. CASE k \notin DOMAIN a
    <3>1. k - Len(a) \in DOMAIN b /\ (a \o b)[k] = b[k - Len(a)]
      BY <1>1, <2>2
    <3> QED  BY <3>1 DEF Range
  <2> QED  BY <2>1, <2>2
<1>3. ASSUME NEW k \in DOMAIN a PROVE a[k] \in Range(a \o b)
  <2>1. k \in DOMAIN (a \o b) /\ (a \o b)[k] = a[k]
    BY <1>1
  <2> QED  BY <2>1 DEF Range
<1>4. ASSUME NEW k \in DOMAIN b PROVE b[k] \in Range(a \o b)
  <2>1. Len(a) + k \in DOMAIN (a \o b) /\ (a \o b)[Len(a) + k] = b[k]
    BY <1>1
  <2> QED  BY <2>1 DEF Range
<1> QED  BY <1>2, <1>3, <1>4, Zenon DEF Range

\* A device made from either list is in the two lists together.
LEMMA MadeTogether ==
    ASSUME NEW n \in Nat, NEW m \in Nat, NEW made \in [1..n -> BOOLEAN],
           NEW made_max \in [1..m -> BOOLEAN], TRUE \in Range(made \o made_max)
    PROVE  "live" \in Range(Made(made) \o Made(made_max))
<1>1. Made(made) \in Seq({"live", "null"}) /\ Made(made_max) \in Seq({"live", "null"})
  BY DEF Made
<1>2. TRUE \in Range(made) \/ TRUE \in Range(made_max)
  <2>1. made \in Seq(BOOLEAN) /\ made_max \in Seq(BOOLEAN)
    OBVIOUS
  <2>2. Range(made \o made_max) = Range(made) \cup Range(made_max)
    BY <2>1, RangeTogether, Zenon
  <2> QED  BY <2>2
<1>3. ASSUME NEW k, NEW devices \in [1..k -> BOOLEAN], TRUE \in Range(devices)
      PROVE  "live" \in Range(Made(devices))
  BY <1>3, Zenon DEF Range, Made
<1>4. "live" \in Range(Made(made)) \/ "live" \in Range(Made(made_max))
  BY <1>2, <1>3
<1> QED  BY <1>1, <1>4, RangeTogether

LEMMA LogicalKeeps == ASSUME IInv, GenerateLogicalDeviceInfo PROVE IInv'
<1> DEFINE n == one.gpus
           m == IF UsesMax THEN max.gpus ELSE 0
<1>1. PICK made \in [1..n -> BOOLEAN], made_max \in [1..m -> BOOLEAN] :
         /\ Reports([script |-> Table(Row \o Row), result |-> LogicalResult(made \o made_max)],
                    "cleanup")
         /\ one' = [one EXCEPT !.devices = Made(made)]
         /\ max' = [max EXCEPT !.devices = Made(made_max)]
  BY DEF GenerateLogicalDeviceInfo
<1>2. /\ phase = "logical" /\ one.instance = "live" /\ one.devices = << >>
      /\ MaxCounted /\ max.devices = << >> /\ one \in Vulkan /\ max \in Vulkan
  BY DEF GenerateLogicalDeviceInfo, IInv, VulkanKnown, VulkanTyped
<1>3. /\ VerdictKept' /\ phase' = "cleanup"
      /\ failed' = {} => LogicalResult(made \o made_max) = "SUCCESSFUL"
  BY <1>1, ReportsKeepVerdict DEF IInv
<1>4. n \in 0..MaxGpus /\ m \in 0..MaxGpus /\ (max.gpus = 0 => m = 0)
  BY <1>2, GpusAssumption DEF Vulkan
<1> HIDE DEF n, m
<1>5. /\ Made(made) \in [1..n -> {"live", "null"}]
      /\ Made(made) = << >> => made = << >>
      /\ Made(made_max) \in [1..m -> {"live", "null"}]
      /\ m = 0 => Made(made_max) = << >>
  BY <1>4, DevicesListed
<1>6. /\ one' \in Vulkan /\ one.devices' = Made(made) /\ one.instance' = "live"
      /\ max' \in Vulkan /\ max.devices' = Made(made_max) /\ max.instance' = max.instance
      /\ max.gpus' = max.gpus /\ max.desired_api_version' = max.desired_api_version
  <2>1. /\ Made(made) \in [1..n -> {"live", "null", "destroyed"}]
        /\ Made(made_max) \in [1..m -> {"live", "null", "destroyed"}]
    BY <1>5
  <2>2. ASSUME NEW info \in Vulkan, NEW number \in 0..MaxGpus,
               NEW devices \in [1..number -> {"live", "null", "destroyed"}],
               NEW after, after = [info EXCEPT !.devices = devices]
        PROVE  /\ after \in Vulkan /\ after.devices = devices
               /\ after.instance = info.instance /\ after.gpus = info.gpus
               /\ after.desired_api_version = info.desired_api_version
    <3>1. \A field \in {"instance", "desired_api_version", "gpus"} : after[field] = info[field]
      BY <2>2, DevicesKept, Zenon
    <3>2. after \in Vulkan /\ after.devices = devices
      BY <2>2, DevicesKept, Zenon
    <3> QED  BY <3>1, <3>2
  <2>3. /\ one' = [one EXCEPT !.devices = Made(made)]
        /\ max' = [max EXCEPT !.devices = Made(made_max)]
    BY <1>1
  <2>4. one' \in Vulkan /\ one'.devices = Made(made) /\ one'.instance = one.instance
    BY <1>2, <1>4, <2>1, <2>2, <2>3
  <2>5. /\ max' \in Vulkan /\ max'.devices = Made(made_max) /\ max'.instance = max.instance
        /\ max'.gpus = max.gpus /\ max'.desired_api_version = max.desired_api_version
    BY <1>2, <1>4, <2>1, <2>2, <2>3
  <2> QED  BY <1>2, <2>4, <2>5
<1>7. failed' = {} /\ one.devices' # << >> =>
        "live" \in Range(one.devices' \o max.devices')
  <2> SUFFICES ASSUME failed' = {}, made # << >>
               PROVE  "live" \in Range(Made(made) \o Made(made_max))
    BY <1>5, <1>6
  <2>1. n \in Nat /\ m \in Nat
    BY <1>4
  <2>2. made \o made_max # << >>
    BY <2>1
  <2>3. TRUE \in Range(made \o made_max)
    BY <1>3, <2>2 DEF LogicalResult
  <2> QED  BY <2>1, <2>3, MadeTogether
<1>8. DevicesMade'
  BY <1>2, <1>4, <1>5, <1>6, <1>7 DEF DevicesMade, MaxCounted
<1> QED  BY <1>3, <1>6, <1>8 DEF IInv, VulkanTyped, VulkanKnown, SystemSteps, Phases

\* The cleanup leaves nothing alive, and what it destroyed can be told.
LEMMA DestroysAll ==
    ASSUME NEW info \in Vulkan
    PROVE  /\ Destroyed(info) \in Vulkan /\ Destroyed(info).instance = "destroyed"
           /\ Released(Destroyed(info)) /\ Destroyed(info).gpus = info.gpus
           /\ DOMAIN Destroyed(info).devices = DOMAIN info.devices
           /\ \A d \in DOMAIN info.devices :
                 Destroyed(info).devices[d] = IF info.devices[d] = "live" THEN "destroyed"
                                              ELSE info.devices[d]
<1> DEFINE devices == [d \in DOMAIN info.devices |->
                         IF info.devices[d] = "live" THEN "destroyed" ELSE info.devices[d]]
<1>1. PICK n \in 0..MaxGpus : info.devices \in [1..n -> {"live", "null", "destroyed"}]
  BY DEF Vulkan
<1>2. devices \in [1..n -> {"null", "destroyed"}]
  BY <1>1
<1>3. Destroyed(info) = [info EXCEPT !.instance = "destroyed", !.devices = devices]
  BY DEF Destroyed, Vulkan
<1> HIDE DEF devices
<1>4. devices \in [1..n -> {"live", "null", "destroyed"}]
  BY <1>2
<1>5. /\ Destroyed(info) \in Vulkan /\ Destroyed(info).instance = "destroyed"
      /\ Destroyed(info).devices = devices /\ Destroyed(info).gpus = info.gpus
  <2> DEFINE emptied == [info EXCEPT !.devices = devices]
  <2>1. emptied \in Vulkan /\ emptied.devices = devices /\ emptied.gpus = info.gpus
    BY <1>4, DevicesKept
  <2>2. Destroyed(info) = [emptied EXCEPT !.instance = "destroyed"]
    BY <1>3 DEF Vulkan
  <2> HIDE DEF emptied
  <2> QED  BY <2>1, <2>2 DEF Vulkan
<1>6. Released(Destroyed(info))
  BY <1>2, <1>5 DEF Released, Range
<1> QED  BY <1>1, <1>5, <1>6 DEF devices

LEMMA DevicesAreSequences ==
    ASSUME NEW info \in Vulkan
    PROVE  /\ info.devices \in Seq({"live", "null", "destroyed"})
           /\ info.devices = << >> <=> DOMAIN info.devices = {}
<1>1. PICK n \in 0..MaxGpus : info.devices \in [1..n -> {"live", "null", "destroyed"}]
  BY DEF Vulkan
<1>2. n \in Nat /\ DOMAIN info.devices = 1..n
  BY <1>1, GpusAssumption
<1>3. info.devices \in Seq({"live", "null", "destroyed"}) /\ Len(info.devices) = n
  BY <1>1, <1>2
<1>4. info.devices = << >> <=> n = 0
  BY <1>3
<1>5. DOMAIN info.devices = {} <=> n = 0
  BY <1>2
<1> QED  BY <1>3, <1>4, <1>5

LEMMA CleanupKeeps == ASSUME IInv, GenerateCleanupInfo PROVE IInv'
<1>1. phase = "cleanup" /\ DevicesMade /\ one \in Vulkan /\ max \in Vulkan
  BY DEF GenerateCleanupInfo, IInv, VulkanKnown, VulkanTyped
<1>2. UNCHANGED <<options, results, failed, found_sdk, ran_tests>>
  BY DEF GenerateCleanupInfo, findings
<1>3. CASE one.gpus > Len(one.devices)
  <2>1. phase' = "crashed" /\ UNCHANGED vulkan
    BY <1>3 DEF GenerateCleanupInfo
  <2> QED  BY <1>1, <1>2, <2>1 DEF IInv, VulkanTyped, VulkanKnown, VerdictKept, SystemSteps,
                                   Phases, vulkan
<1>4. CASE ~(one.gpus > Len(one.devices))
  <2>1. /\ one' = Destroyed(one)
        /\ max' = IF max.instance = "live" /\ max.desired_api_version >= 1 /\ max.gpus > 0
                  THEN Destroyed(max) ELSE max
        /\ phase' = IF results = "SUCCESSFUL" /\ run_cube_tests THEN "test" ELSE "end"
    BY <1>4 DEF GenerateCleanupInfo
  <2>2. max.gpus = 0 \/ max' = Destroyed(max)
    BY <1>1, <2>1 DEF DevicesMade, MaxCounted, Vulkan
  <2>3. max' = max \/ max' = Destroyed(max)
    BY <2>1
  <2>4. /\ one' \in Vulkan /\ one.instance' = "destroyed" /\ Released(one')
        /\ max' \in Vulkan /\ (max.gpus' > 0 => Released(max'))
    <3>1. max.gpus' = max.gpus
      BY <1>1, <2>3, DestroysAll
    <3> QED  BY <1>1, <2>1, <2>2, <2>3, <3>1, DestroysAll
  <2>5. ASSUME failed' = {}, one.devices' # << >>
        PROVE  "destroyed" \in Range(one.devices' \o max.devices')
    <3>1. one.devices # << >>
      <4>1. PICK n \in 0..MaxGpus : one.devices \in [1..n -> {"live", "null", "destroyed"}]
        BY <1>1 DEF Vulkan
      <4>2. DOMAIN one.devices' = DOMAIN one.devices
        BY <1>1, <2>1, DestroysAll
      <4> QED  BY <2>5, <2>4, <4>2, DevicesAreSequences
    <3>2. "live" \in Range(one.devices) \cup Range(max.devices)
      BY <1>1, <1>2, <2>5, <3>1, DevicesAreSequences, RangeTogether DEF DevicesMade
    <3>3. CASE "live" \in Range(one.devices)
      <4>1. "destroyed" \in Range(one.devices')
        BY <1>1, <2>1, <3>3, DestroysAll DEF Range
      <4> QED  BY <2>4, <4>1, DevicesAreSequences, RangeTogether
    <3>4. CASE "live" \in Range(max.devices)
      <4>1. max.devices # << >>
        BY <3>4 DEF Range
      <4>2. max' = Destroyed(max)
        BY <1>1, <2>2, <4>1 DEF DevicesMade
      <4>3. "destroyed" \in Range(max.devices')
        BY <1>1, <3>4, <4>2, DestroysAll DEF Range
      <4> QED  BY <2>4, <4>3, DevicesAreSequences, RangeTogether
    <3> QED  BY <3>2, <3>3, <3>4
  <2>6. CleanedUp'
    BY <2>4, <2>5 DEF CleanedUp
  <2>7. phase' = "test" \/ (phase' = "end" /\ (failed' = {} => ~run_cube_tests'))
    BY <1>2, <2>1 DEF IInv, VerdictKept, options
  <2> QED  BY <1>2, <2>4, <2>6, <2>7
           DEF IInv, VulkanTyped, VulkanKnown, VerdictKept, SystemSteps, Phases
<1> QED  BY <1>3, <1>4

LEMMA TestKeeps == ASSUME IInv, GenerateTestInfo PROVE IInv'
<1>1. phase = "test" /\ CleanedUp /\ VulkanTyped /\ VerdictKept
  BY DEF GenerateTestInfo, IInv, VulkanKnown
<1>2. UNCHANGED <<run_cube_tests, found_sdk, one, max>>
  BY DEF GenerateTestInfo, options, vulkan
<1>3. \E outcome :
        /\ Reports(outcome, "end")
        /\ outcome.result = "SUCCESSFUL" /\ found_sdk => ran_tests'
  <2>1. CASE ~found_sdk
    BY <2>1 DEF GenerateTestInfo
  <2>2. CASE found_sdk
    <3>1. PICK validate \in Programs :
             \/ /\ Reports([script |-> Table(Row \o Row),
                            result |-> IF RunTestInDirectory(validate) \in {0, 1}
                                       THEN "SUCCESSFUL" ELSE "TEST_FAILED"], "end")
                /\ ran_tests' = TRUE
             \/ Reports([script |-> Row \o <<"end table">>, result |-> "TEST_FAILED"], "end")
      BY <2>2, Zenon DEF GenerateTestInfo
    <3>2. CASE Reports([script |-> Row \o <<"end table">>, result |-> "TEST_FAILED"], "end")
      <4> DEFINE outcome == [script |-> Row \o <<"end table">>, result |-> "TEST_FAILED"]
      <4>1. outcome.result # "SUCCESSFUL"
        OBVIOUS
      <4>2. Reports(outcome, "end")
        BY <3>2
      <4> HIDE DEF outcome
      <4> QED  BY <4>1, <4>2
    <3> QED  BY <3>1, <3>2
  <2> QED  BY <2>1, <2>2
<1>4. PICK outcome : Reports(outcome, "end")
                     /\ (outcome.result = "SUCCESSFUL" /\ found_sdk => ran_tests')
  BY <1>3
<1>5. VerdictKept' /\ phase' = "end" /\ failed \subseteq failed'
      /\ (failed' = {} => outcome.result = "SUCCESSFUL")
  BY <1>1, <1>4, ReportsKeepVerdict
<1>6. VulkanTyped' /\ CleanedUp'
  BY <1>1, <1>2, <1>5 DEF VulkanTyped, CleanedUp
<1> QED  BY <1>2, <1>4, <1>5, <1>6
         DEF IInv, VulkanKnown, SystemSteps, Phases

LEMMA IInvKept == ASSUME IInv, [Next]_vars PROVE IInv'
<1>1. CASE GenerateInfoEnds
  BY <1>1 DEF GenerateInfoEnds, IInv, VulkanTyped, VulkanKnown, VerdictKept, CleanedUp, Unmade,
              SystemSteps, Phases, options, findings, vulkan
<1>2. CASE UNCHANGED vars
  BY <1>2 DEF vars, options, findings, vulkan, IInv, VulkanTyped, VulkanKnown, VerdictKept,
              CleanedUp, DevicesMade, MaxCounted, Unmade
<1> QED  BY <1>1, <1>2, SystemStepsKeep, InstanceKeeps, PhysicalKeeps, LogicalKeeps,
            CleanupKeeps, TestKeeps DEF Next

LEMMA IInvInitial == Init => IInv
<1>1. NoVulkan \in Vulkan
  BY GpusAssumption DEF NoVulkan, Vulkan
<1> QED  BY <1>1 DEF Init, IInv, VulkanTyped, VulkanKnown, VerdictKept, Unmade, SystemSteps, Phases

LEMMA Invariance == Spec => []IInv
BY IInvInitial, IInvKept, PTL DEF Spec

\* However the calls after the creation of the instances fail, for any number of
\* physical devices, via ends with no instance and no device left, except the
\* instance of a later version for which no device was found.
THEOREM AllReleasedCorrect == Spec => []AllReleased
<1>1. Released(NoVulkan)
  BY DEF Released, NoVulkan, Range
<1>2. IInv => AllReleased
  BY <1>1 DEF IInv, VulkanKnown, AllReleased, Unmade, CleanedUp, NoVulkan
<1> QED  BY <1>2, Invariance, PTL

\* via says "SUCCESS" exactly when no step failed, Vulkan was initialised, a
\* device was made where there are any, and the tests ran where they could.
THEOREM SuccessIsEarnedCorrect == Spec => []SuccessIsEarned
<1>1. IInv => SuccessIsEarned
  <2> SUFFICES ASSUME IInv, phase = "ended", failed = {}
               PROVE  /\ one.instance = "destroyed"
                      /\ (run_cube_tests /\ found_sdk => ran_tests)
                      /\ (one.devices # << >> =>
                            "destroyed" \in Range(one.devices \o max.devices))
    BY DEF SuccessIsEarned, IInv, VerdictKept
  <2> QED  BY DEF IInv, VulkanKnown, CleanedUp
<1> QED  BY <1>1, Invariance, PTL

(***************************************************************************)
(* Induction over sequences.  The induction theorems of the library take   *)
(* an operator and cannot be used here, so the induction is made from the  *)
(* least number outside a set.                                             *)
(***************************************************************************)
LEMMA LeastNumber ==
    ASSUME NEW S \in SUBSET Nat, S # {}
    PROVE  \E least \in S : \A number \in S : least <= number
<1> DEFINE Less == {pair \in Nat \X Nat : pair[1] < pair[2]}
<1>1. IsWellFoundedOn(Less, Nat)
  BY NatLessThanWellFounded DEF OpToRel
<1>2. PICK least \in S : \A number \in S : <<number, least>> \notin Less
  <2> HIDE DEF Less
  <2> QED
    BY <1>1, WFMin
<1>3. ASSUME NEW number \in S
      PROVE  least <= number
  <2>1. <<number, least>> \notin Less
    BY <1>2, <1>3
  <2>2. number \in Nat /\ least \in Nat
    BY <1>2, <1>3
  <2>3. ~(number < least)
    BY <2>1, <2>2
  <2> QED
    BY <2>2, <2>3
<1> QED
  BY <1>2, <1>3

LEMMA InductionOnSet ==
    ASSUME NEW S, 0 \in S, \A n \in Nat : n \in S => n + 1 \in S
    PROVE  Nat \subseteq S
<1> SUFFICES ASSUME ~(Nat \subseteq S)
             PROVE  FALSE
  OBVIOUS
<1> DEFINE gap == Nat \ S
<1>1. gap # {} /\ gap \in SUBSET Nat
  OBVIOUS
<1>2. PICK least \in gap : \A number \in gap : least <= number
  <2> HIDE DEF gap
  <2> QED
    BY <1>1, LeastNumber
<1>3. least \in Nat /\ least \notin S /\ least # 0
  BY <1>2
<1>4. least - 1 \in Nat /\ least - 1 \notin gap
  BY <1>2, <1>3
<1>5. (least - 1) + 1 = least
  BY <1>3
<1> QED
  BY <1>3, <1>4, <1>5

\* The largest position of a set whose largest position is known.
LEMMA MaxIs ==
    ASSUME NEW s \in SUBSET Nat, NEW n \in s, \A m \in s : m <= n
    PROVE  Max(s) = n
<1>1. \A k \in s : n >= k
  <2>1. \A k \in s : k \in Nat /\ n \in Nat /\ k <= n
    OBVIOUS
  <2> QED
    BY <2>1
<1>2. Max(s) \in s /\ \A m \in s : Max(s) >= m
  BY <1>1 DEF Max
<1>3. Max(s) \in Nat /\ n \in Nat /\ Max(s) >= n /\ Max(s) <= n
  BY <1>2
<1> QED
  BY <1>3

\* The largest position of a set of positions is one of them.
LEMMA MaxInRange ==
    ASSUME NEW n \in Nat, NEW s \in SUBSET (1..n), s # {}
    PROVE  Max(s) \in s
<1> DEFINE Above == {m \in Nat : \A k \in s : k <= m}
<1>1. n \in Above /\ Above \in SUBSET Nat
  OBVIOUS
<1>2. PICK bound \in Above : \A m \in Above : bound <= m
  <2> HIDE DEF Above
  <2> QED
    BY <1>1, LeastNumber
<1>3. bound \in s
  <2> SUFFICES ASSUME bound \notin s
               PROVE  FALSE
    OBVIOUS
  <2>1. \A k \in s : k \in Nat /\ k >= 1 /\ k <= bound /\ k # bound
    BY <1>2
  <2>2. bound \in Nat
    BY <1>2
  <2>3. PICK k \in s : k \in Nat /\ k >= 1 /\ k <= bound
    BY <2>1
  <2>4. bound - 1 \in Nat /\ \A m \in s : m <= bound - 1
    BY <2>1, <2>2, <2>3
  <2>5. bound - 1 \in Above
    BY <2>4
  <2> QED
    BY <1>2, <2>2, <2>5
<1>4. \A k \in s : k <= bound /\ k \in Nat
  BY <1>2
<1> HIDE DEF Above
<1>5. Max(s) = bound
  BY <1>3, <1>4, MaxIs
<1> QED
  BY <1>3, <1>5

\* What MapThenFoldSet computes for every set of positions up to n, with a
\* table of what a position makes of a value.
Folding(fold, n, base, table) ==
    fold = [s \in SUBSET (1..n) |->
               IF s = {} THEN base ELSE table[<<fold[s \ {Max(s)}], Max(s)>>]]

LEMMA FoldingGoesOn ==
    ASSUME NEW n \in Nat, NEW base, NEW table, NEW fold, Folding(fold, n, base, table)
    PROVE  \E next : Folding(next, n + 1, base, table)
<1> DEFINE next == [s \in SUBSET (1..(n + 1)) |->
                       IF n + 1 \in s THEN table[<<fold[s \ {n + 1}], n + 1>>] ELSE fold[s]]
<1>1. ASSUME NEW s \in SUBSET (1..(n + 1))
      PROVE  next[s] = IF s = {} THEN base ELSE table[<<next[s \ {Max(s)}], Max(s)>>]
  <2>1. CASE n + 1 \in s
    <3>1. Max(s) = n + 1
      BY <2>1, MaxIs
    <3>2. s \ {n + 1} \in SUBSET (1..(n + 1)) /\ n + 1 \notin s \ {n + 1}
      OBVIOUS
    <3>3. next[s \ {n + 1}] = fold[s \ {n + 1}]
      BY <3>2
    <3>4. next[s] = table[<<fold[s \ {n + 1}], n + 1>>]
      BY <2>1
    <3> QED
      BY <2>1, <3>1, <3>3, <3>4
  <2>2. CASE n + 1 \notin s
    <3>1. s \in SUBSET (1..n)
      BY <2>2
    <3>2. next[s] = fold[s]
      BY <2>2
    <3>3. next[s \ {Max(s)}] = fold[s \ {Max(s)}]
      BY <2>2
    <3>4. fold[s] = IF s = {} THEN base ELSE table[<<fold[s \ {Max(s)}], Max(s)>>]
      BY <3>1 DEF Folding
    <3> QED
      BY <3>2, <3>3, <3>4
  <2> QED
    BY <2>1, <2>2
<1>2. next = [s \in SUBSET (1..(n + 1)) |->
                 IF s = {} THEN base ELSE table[<<next[s \ {Max(s)}], Max(s)>>]]
  <2>1. next = [s \in SUBSET (1..(n + 1)) |-> next[s]]
    OBVIOUS
  <2> HIDE DEF next
  <2> QED
    BY <1>1, <2>1
<1> HIDE DEF next
<1> QED
  BY <1>2 DEF Folding

LEMMA FoldingExists ==
    ASSUME NEW base, NEW table, NEW n \in Nat
    PROVE  \E fold : Folding(fold, n, base, table)
<1> DEFINE Reached == {m \in Nat : \E fold : Folding(fold, m, base, table)}
<1>1. 0 \in Reached
  <2> DEFINE fold == [s \in SUBSET (1..0) |-> base]
  <2>1. \A s \in SUBSET (1..0) : s = {}
    OBVIOUS
  <2>2. fold = [s \in SUBSET (1..0) |->
                   IF s = {} THEN base ELSE table[<<fold[s \ {Max(s)}], Max(s)>>]]
    BY <2>1
  <2> HIDE DEF fold
  <2> QED
    BY <2>2 DEF Folding
<1>2. \A m \in Nat : m \in Reached => m + 1 \in Reached
  BY FoldingGoesOn
<1>3. Nat \subseteq Reached
  <2> HIDE DEF Reached
  <2> QED
    BY <1>1, <1>2, InductionOnSet
<1> QED
  BY <1>3

\* The intervals that a fold over a sequence goes through.
LEMMA Intervals ==
    ASSUME NEW n \in Nat, NEW k \in 1..n
    PROVE  /\ Max(1..k) = k /\ (1..k) \ {k} = 1..(k - 1)
           /\ 1..k # {} /\ 1..k \in SUBSET (1..n) /\ 1..(k - 1) \in SUBSET (1..n)
<1>1. Max(1..k) = k
  BY MaxIs
<1>2. \A j : j \in (1..k) \ {k} <=> j \in 1..(k - 1)
  OBVIOUS
<1>3. k \in 1..k /\ \A j \in 1..k : j \in 1..n
  OBVIOUS
<1> QED
  BY <1>1, <1>2, <1>3

(***************************************************************************)
(* A fold whose values stay in a set X goes through its sequence value by  *)
(* value: any way the table describes it, the values exist.                *)
(***************************************************************************)
LEMMA TypedFolding ==
    ASSUME NEW X, NEW base \in X, NEW n \in Nat, NEW table \in [X \X (1..n) -> X]
    PROVE  \E fold : Folding(fold, n, base, table) /\ \A s \in SUBSET (1..n) : fold[s] \in X
<1>1. PICK fold : Folding(fold, n, base, table)
  BY FoldingExists
<1> DEFINE Typed == {m \in Nat : m <= n => \A s \in SUBSET (1..m) : fold[s] \in X}
<1>2. 0 \in Typed
  <2>1. \A s \in SUBSET (1..0) : s = {} /\ s \in SUBSET (1..n)
    OBVIOUS
  <2> QED
    BY <1>1, <2>1 DEF Folding
<1>3. ASSUME NEW m \in Nat, m \in Typed, m + 1 <= n, NEW s \in SUBSET (1..(m + 1))
      PROVE  fold[s] \in X
  <2>1. \A r \in SUBSET (1..m) : fold[r] \in X
    BY <1>3
  <2>2. CASE m + 1 \in s
    <3>1. Max(s) = m + 1
      BY <2>2, MaxIs
    <3>2. s \ {m + 1} \in SUBSET (1..m) /\ s \in SUBSET (1..n) /\ m + 1 \in 1..n /\ s # {}
      BY <1>3, <2>2
    <3>3. fold[s] = table[<<fold[s \ {m + 1}], m + 1>>]
      BY <1>1, <3>1, <3>2 DEF Folding
    <3> QED
      BY <2>1, <3>2, <3>3
  <2>3. CASE m + 1 \notin s
    <3>1. s \in SUBSET (1..m)
      BY <2>3
    <3> QED
      BY <2>1, <3>1
  <2> QED
    BY <2>2, <2>3
<1>4. \A m \in Nat : m \in Typed => m + 1 \in Typed
  BY <1>3
<1>5. n \in Typed
  <2> HIDE DEF Typed
  <2> QED
    BY <1>2, <1>4, InductionOnSet
<1> QED
  BY <1>1, <1>5

\* FlattenSeq, sequence by sequence.
LEMMA FlatteningExists ==
    ASSUME NEW E, NEW seqs \in Seq(Seq(E)), Len(seqs) # 0
    PROVE  \E flat : /\ flat = [i \in 1..Len(seqs) |-> IF i = 1 THEN seqs[i]
                                                       ELSE flat[i - 1] \o seqs[i]]
<1> DEFINE n == Len(seqs)
           table == [p \in Seq(E) \X (1..n) |-> p[1] \o seqs[p[2]]]
<1>1. n \in Nat /\ n >= 1 /\ \A k \in 1..n : seqs[k] \in Seq(E)
  OBVIOUS
<1>2. table \in [Seq(E) \X (1..n) -> Seq(E)]
  <2>1. \A x \in Seq(E), y \in Seq(E) : x \o y \in Seq(E)
    OBVIOUS
  <2> QED
    BY <1>1, <2>1
<1>3. PICK fold : Folding(fold, n, << >>, table) /\ \A s \in SUBSET (1..n) : fold[s] \in Seq(E)
  <2>1. << >> \in Seq(E)
    OBVIOUS
  <2> HIDE DEF table, n
  <2> QED
    BY <1>1, <1>2, <2>1, TypedFolding
<1>4. ASSUME NEW k \in 1..n
      PROVE  fold[1..k] = fold[1..(k - 1)] \o seqs[k] /\ fold[1..(k - 1)] \in Seq(E)
  <2> HIDE DEF n
  <2>1. /\ Max(1..k) = k /\ (1..k) \ {k} = 1..(k - 1)
        /\ 1..k # {} /\ 1..k \in SUBSET (1..n) /\ 1..(k - 1) \in SUBSET (1..n)
    BY <1>1, Intervals
  <2> HIDE DEF table
  <2>2. fold[1..k] = table[<<fold[1..(k - 1)], k>>]
    BY <1>3, <2>1 DEF Folding
  <2>3. fold[1..(k - 1)] \in Seq(E)
    BY <1>3, <2>1
  <2> QED
    BY <2>2, <2>3 DEF table
<1>5. fold[1..0] = << >>
  <2>1. 1..0 = {} /\ {} \in SUBSET (1..n)
    OBVIOUS
  <2> HIDE DEF table, n
  <2> QED
    BY <1>3, <2>1 DEF Folding
<1> DEFINE flat == [i \in 1..n |-> fold[1..i]]
<1>6. ASSUME NEW i \in 1..n
      PROVE  flat[i] = IF i = 1 THEN seqs[i] ELSE flat[i - 1] \o seqs[i]
  <2>1. CASE i = 1
    <3>1. fold[1..1] = fold[1..(1 - 1)] \o seqs[1]
      BY <1>4, <2>1
    <3>2. 1 - 1 = 0 /\ seqs[1] \in Seq(E)
      BY <1>1
    <3>3. fold[1..1] = << >> \o seqs[1]
      BY <1>5, <3>1, <3>2
    <3>4. << >> \o seqs[1] = seqs[1]
      BY <3>2
    <3> QED
      BY <1>1, <2>1, <3>3, <3>4
  <2>2. CASE i # 1
    <3>1. i - 1 \in 1..n
      BY <1>1, <2>2
    <3> QED
      BY <1>4, <2>2, <3>1
  <2> QED
    BY <2>1, <2>2
<1>7. flat = [i \in 1..n |-> flat[i]]
  OBVIOUS
<1> HIDE DEF flat
<1>8. flat = [i \in 1..n |-> IF i = 1 THEN seqs[i] ELSE flat[i - 1] \o seqs[i]]
  BY <1>6, <1>7
<1> QED
  BY <1>8

LEMMA Flattened ==
    ASSUME NEW E, NEW seqs \in Seq(Seq(E))
    PROVE  /\ FlattenSeq(seqs) \in Seq(E)
           /\ Range(FlattenSeq(seqs)) = UNION {Range(seqs[k]) : k \in DOMAIN seqs}
<1> DEFINE n == Len(seqs)
<1>1. n \in Nat /\ DOMAIN seqs = 1..n /\ \A k \in 1..n : seqs[k] \in Seq(E)
  OBVIOUS
<1>2. CASE n = 0
  <2>1. FlattenSeq(seqs) = seqs /\ seqs = << >>
    BY <1>2 DEF FlattenSeq
  <2>2. << >> \in Seq(E) /\ Range(<< >>) = {} /\ DOMAIN << >> = {}
    BY DEF Range
  <2> QED
    BY <2>1, <2>2
<1>3. CASE n # 0
  <2> DEFINE flat == CHOOSE f : f = [i \in 1..Len(seqs) |->
                                        IF i = 1 THEN seqs[i] ELSE f[i - 1] \o seqs[i]]
  <2>1. flat = [i \in 1..n |-> IF i = 1 THEN seqs[i] ELSE flat[i - 1] \o seqs[i]]
    BY <1>3, FlatteningExists
  <2>2. FlattenSeq(seqs) = flat[n]
    BY <1>3 DEF FlattenSeq
  <2> HIDE DEF flat
  <2> DEFINE Ranges(j) == {Range(seqs[k]) : k \in 1..j}
             So(j) == flat[j] \in Seq(E) /\ Range(flat[j]) = UNION Ranges(j)
             Known == {m \in Nat : m + 1 <= n => So(m + 1)}
  <2>3. 0 \in Known
    <3>1. flat[1] = seqs[1] /\ 1 \in 1..n
      BY <1>1, <1>3, <2>1
    <3>2. UNION Ranges(1) = Range(seqs[1])
      OBVIOUS
    <3> QED
      BY <1>1, <3>1, <3>2
  <2>4. ASSUME NEW m \in Nat, So(m + 1), (m + 1) + 1 <= n
        PROVE  So((m + 1) + 1)
    <3> DEFINE i == (m + 1) + 1
    <3>1. i \in 1..n /\ i # 1 /\ i - 1 = m + 1
      BY <1>1, <2>4
    <3>2. flat[i] = flat[m + 1] \o seqs[i]
      <4> HIDE DEF i
      <4> QED
        BY <2>1, <3>1
    <3>3. flat[m + 1] \in Seq(E) /\ seqs[i] \in Seq(E) /\ Range(flat[m + 1]) = UNION Ranges(m + 1)
      BY <1>1, <2>4, <3>1
    <3>4. \A k : k \in 1..i <=> k \in 1..(m + 1) \/ k = i
      BY <3>1
    <3> HIDE DEF i
    <3>5. Range(flat[i]) = Range(flat[m + 1]) \cup Range(seqs[i])
      BY <3>2, <3>3, RangeTogether
    <3>6. UNION Ranges(i) = (UNION Ranges(m + 1)) \cup Range(seqs[i])
      <4>1. Ranges(i) = Ranges(m + 1) \cup {Range(seqs[i])}
        BY <3>4
      <4> HIDE DEF Ranges
      <4> QED
        BY <4>1
    <3>7. flat[i] \in Seq(E)
      BY <3>2, <3>3
    <3> HIDE DEF Ranges
    <3> QED
      BY <3>3, <3>5, <3>6, <3>7 DEF i
  <2> HIDE DEF So
  <2>5. \A m \in Nat : m \in Known => m + 1 \in Known
    BY <2>4
  <2>6. n - 1 \in Known /\ (n - 1) + 1 = n
    <3>1. n - 1 \in Nat /\ (n - 1) + 1 = n
      BY <1>1, <1>3
    <3> HIDE DEF Known, n
    <3> QED
      BY <2>3, <2>5, <3>1, InductionOnSet
  <2>7. So(n)
    <3>1. n <= n
      BY <1>1
    <3> QED
      BY <2>6, <3>1
  <2>8. Ranges(n) = {Range(seqs[k]) : k \in DOMAIN seqs}
    BY <1>1
  <2> QED
    BY <2>2, <2>7, <2>8 DEF So
<1> QED
  BY <1>2, <1>3

(***************************************************************************)
(* The reports between two functions of via, inside a table, and inside a  *)
(* row: what is open, and counters that agree with it.                     *)
(***************************************************************************)
Kinds == {"document", "table", "row"}
Elements == [kind : Kinds, filled : BOOLEAN]
AnyReport == [format : Formats, open : Seq(Elements), tables : BOOLEAN, rows : BOOLEAN,
              cols : BOOLEAN, good : BOOLEAN]

Opened(kind, filled) == [kind |-> kind, filled |-> filled]
OpenDocument(filled) == <<Opened("document", filled)>>
OpenTable(filled) == <<Opened("document", TRUE), Opened("table", filled)>>
OpenedRow(filled) == <<Opened("document", TRUE), Opened("table", TRUE), Opened("row", filled)>>

InDocument(r) == r \in AnyReport /\ r.good /\ r.open = OpenDocument(r.tables)
InTable(r) == r \in AnyReport /\ r.good /\ r.tables /\ r.open = OpenTable(r.rows)
InRow(r) == r \in AnyReport /\ r.good /\ r.tables /\ r.rows /\ r.open = OpenedRow(r.cols)

\* What a member does to the elements that are open.
Filled(open) == [open EXCEPT ![Len(open)].filled = TRUE]

LEMMA ElementIs == ASSUME NEW kind \in Kinds, NEW filled \in BOOLEAN
  PROVE  /\ Opened(kind, filled) \in Elements
           /\ Opened(kind, filled).kind = kind
           /\ Opened(kind, filled).filled = filled
BY DEF Opened, Elements

LEMMA SameElement ==
    ASSUME NEW e \in Elements, NEW f \in Elements, e.kind = f.kind, e.filled <=> f.filled
    PROVE  e = f
BY DEF Elements

LEMMA Fronts ==
    /\ \A a : Front(<<a>>) = << >>
    /\ \A a, b : Front(<<a, b>>) = <<a>>
    /\ \A a, b, c : Front(<<a, b, c>>) = <<a, b>>
<1>1. ASSUME NEW a PROVE Front(<<a>>) = << >>
  BY DEF Front
<1>2. ASSUME NEW a, NEW b PROVE Front(<<a, b>>) = <<a>>
  <2>1. Front(<<a, b>>) = [i \in 1..1 |-> <<a, b>>[i]]
    BY DEF Front
  <2>2. Front(<<a, b>>) = [i \in 1..1 |-> a]
    BY <2>1
  <2> QED
    BY <2>2
<1>3. ASSUME NEW a, NEW b, NEW c PROVE Front(<<a, b, c>>) = <<a, b>>
  <2>1. Front(<<a, b, c>>) = [i \in 1..2 |-> <<a, b, c>>[i]]
    BY DEF Front
  <2>2. Front(<<a, b, c>>) = [i \in 1..2 |-> <<a, b>>[i]]
    BY <2>1
  <2>3. <<a, b>> = [i \in 1..2 |-> <<a, b>>[i]]
    OBVIOUS
  <2> QED
    BY <2>2, <2>3
<1> QED
  BY <1>1, <1>2, <1>3

LEMMA Lasts ==
    /\ \A a : Last(<<a>>) = a
    /\ \A a, b : Last(<<a, b>>) = b
    /\ \A a, b, c : Last(<<a, b, c>>) = c
BY DEF Last

LEMMA Appends ==
    ASSUME NEW S, NEW a \in S, NEW b \in S, NEW c \in S
    PROVE  Append(<<a>>, b) = <<a, b>> /\ Append(<<a, b>>, c) = <<a, b, c>>
<1>1. /\ Append(<<a>>, b) \in Seq(S) /\ Len(Append(<<a>>, b)) = 2
      /\ Append(<<a>>, b)[1] = a /\ Append(<<a>>, b)[2] = b
  OBVIOUS
<1>2. /\ Append(<<a, b>>, c) \in Seq(S) /\ Len(Append(<<a, b>>, c)) = 3
      /\ Append(<<a, b>>, c)[1] = a /\ Append(<<a, b>>, c)[2] = b /\ Append(<<a, b>>, c)[3] = c
  OBVIOUS
<1>3. /\ <<a, b>> \in Seq(S) /\ Len(<<a, b>>) = 2
      /\ <<a, b, c>> \in Seq(S) /\ Len(<<a, b, c>>) = 3
  OBVIOUS
<1>4. Append(<<a>>, b) = <<a, b>>
  <2>1. Append(<<a>>, b) = [i \in 1..2 |-> Append(<<a>>, b)[i]]
    BY <1>1
  <2>2. <<a, b>> = [i \in 1..2 |-> <<a, b>>[i]]
    OBVIOUS
  <2>3. \A i \in 1..2 : Append(<<a>>, b)[i] = <<a, b>>[i]
    BY <1>1
  <2> QED
    BY <2>1, <2>2, <2>3
<1>5. Append(<<a, b>>, c) = <<a, b, c>>
  <2>1. Append(<<a, b>>, c) = [i \in 1..3 |-> Append(<<a, b>>, c)[i]]
    BY <1>2
  <2>2. <<a, b, c>> = [i \in 1..3 |-> <<a, b, c>>[i]]
    OBVIOUS
  <2>3. \A i \in 1..3 : Append(<<a, b>>, c)[i] = <<a, b, c>>[i]
    BY <1>2
  <2> QED
    BY <2>1, <2>2, <2>3
<1> QED
  BY <1>4, <1>5

LEMMA Fills == ASSUME NEW open \in Seq(Elements), open # << >>
  PROVE Filled(open) = [open EXCEPT ![Len(open)] = Opened(open[Len(open)].kind, TRUE)]
<1> DEFINE last == open[Len(open)]
           full == [last EXCEPT !.filled = TRUE]
<1>1. Len(open) \in 1..Len(open)
  OBVIOUS
<1>2. last \in Elements
  BY <1>1
<1>3. Filled(open) = [open EXCEPT ![Len(open)] = full]
  BY <1>1, <1>2 DEF Filled
<1>4. full \in Elements /\ full.kind = last.kind /\ full.filled
  BY <1>2 DEF Elements
<1>5. /\ Opened(last.kind, TRUE) \in Elements
      /\ Opened(last.kind, TRUE).kind = last.kind /\ Opened(last.kind, TRUE).filled
  BY <1>2 DEF Elements, Opened
<1>7. full = Opened(last.kind, TRUE)
  <2> HIDE DEF full, last
  <2> QED BY <1>4, <1>5, SameElement
<1> QED BY <1>3, <1>7

LEMMA FillsLast ==
    ASSUME NEW a \in Elements, NEW b \in Elements, NEW c \in Elements
    PROVE  /\ Filled(<<a>>) = <<Opened(a.kind, TRUE)>>
           /\ Filled(<<a, b>>) = <<a, Opened(b.kind, TRUE)>>
           /\ Filled(<<a, b, c>>) = <<a, b, Opened(c.kind, TRUE)>>
<1> DEFINE full(e) == Opened(e.kind, TRUE)
           first == <<a>>
           second == <<a, b>>
           third == <<a, b, c>>
<1>1. first \in Seq(Elements) /\ first # << >> /\ Len(first) = 1 /\ first[1] = a
  OBVIOUS
<1>2. second \in Seq(Elements) /\ second # << >> /\ Len(second) = 2 /\ second[2] = b
  OBVIOUS
<1>3. third \in Seq(Elements) /\ third # << >> /\ Len(third) = 3 /\ third[3] = c
  OBVIOUS
<1>4. Filled(first) = [first EXCEPT ![1] = full(a)]
  <2> HIDE DEF first
  <2>1. Filled(first) = [first EXCEPT ![Len(first)] = Opened(first[Len(first)].kind, TRUE)]
    BY <1>1, Fills
  <2> QED  BY <1>1, <2>1
<1>5. Filled(second) = [second EXCEPT ![2] = full(b)]
  <2> HIDE DEF second
  <2>1. Filled(second) = [second EXCEPT ![Len(second)] = Opened(second[Len(second)].kind, TRUE)]
    BY <1>2, Fills
  <2> QED  BY <1>2, <2>1
<1>6. Filled(third) = [third EXCEPT ![3] = full(c)]
  <2> HIDE DEF third
  <2>1. Filled(third) = [third EXCEPT ![Len(third)] = Opened(third[Len(third)].kind, TRUE)]
    BY <1>3, Fills
  <2> QED  BY <1>3, <2>1
<1>7. Filled(first) = <<full(a)>>
  <2> HIDE DEF full
  <2> QED
    BY <1>4
<1>8. Filled(second) = <<a, full(b)>>
  <2> HIDE DEF full
  <2> QED
    BY <1>5
<1>9. Filled(third) = <<a, b, full(c)>>
  <2> HIDE DEF full
  <2> QED
    BY <1>6
<1> QED
  BY <1>7, <1>8, <1>9

LEMMA Opens ==
    ASSUME NEW filled \in BOOLEAN
    PROVE  /\ OpenDocument(filled) \in Seq(Elements) /\ OpenDocument(filled) # << >>
           /\ OpenTable(filled) \in Seq(Elements) /\ OpenTable(filled) # << >>
           /\ OpenedRow(filled) \in Seq(Elements) /\ OpenedRow(filled) # << >>
           /\ Append(OpenDocument(TRUE), Opened("table", FALSE)) = OpenTable(FALSE)
           /\ Append(OpenTable(TRUE), Opened("row", FALSE)) = OpenedRow(FALSE)
           /\ Last(OpenDocument(filled)).kind = "document"
           /\ Last(OpenTable(filled)).kind = "table"
           /\ Last(OpenedRow(filled)).kind = "row"
           /\ Last(OpenDocument(filled)).filled = filled
           /\ Last(OpenTable(filled)).filled = filled
           /\ Last(OpenedRow(filled)).filled = filled
           /\ Front(OpenDocument(filled)) = << >>
           /\ Front(OpenTable(filled)) = OpenDocument(TRUE)
           /\ Front(OpenedRow(filled)) = OpenTable(TRUE)
           /\ Filled(OpenDocument(filled)) = OpenDocument(TRUE)
           /\ Filled(OpenTable(filled)) = OpenTable(TRUE)
           /\ Filled(OpenedRow(filled)) = OpenedRow(TRUE)
<1> DEFINE document == Opened("document", filled)
           table == Opened("table", filled)
           row == Opened("row", filled)
           full == Opened("document", TRUE)
           fullTable == Opened("table", TRUE)
           fullRow == Opened("row", TRUE)
           empty == Opened("table", FALSE)
           emptyRow == Opened("row", FALSE)
           anyDocument == OpenDocument(filled)
           fullDocument == OpenDocument(TRUE)
           anyTable == OpenTable(filled)
           emptyTable == OpenTable(FALSE)
           filledTable == OpenTable(TRUE)
           anyRow == OpenedRow(filled)
           newRow == OpenedRow(FALSE)
           filledRow == OpenedRow(TRUE)
<1>1. /\ anyDocument = <<document>> /\ fullDocument = <<full>>
      /\ anyTable = <<full, table>> /\ filledTable = <<full, fullTable>>
      /\ anyRow = <<full, fullTable, row>>
      /\ filledRow = <<full, fullTable, fullRow>>
      /\ emptyTable = <<full, empty>> /\ newRow = <<full, fullTable, emptyRow>>
  BY Zenon DEF OpenDocument, OpenTable, OpenedRow
<1>2. /\ document \in Elements /\ table \in Elements /\ row \in Elements
      /\ full \in Elements /\ fullTable \in Elements
      /\ empty \in Elements /\ emptyRow \in Elements
      /\ document.kind = "document" /\ document.filled = filled
      /\ table.kind = "table" /\ table.filled = filled
      /\ row.kind = "row" /\ row.filled = filled
  BY ElementIs DEF Kinds
<1>3. /\ Opened(document.kind, TRUE) = full
      /\ Opened(table.kind, TRUE) = fullTable
      /\ Opened(row.kind, TRUE) = fullRow
  BY <1>2
<1>4. Opened("table", FALSE) = empty /\ Opened("row", FALSE) = emptyRow
  OBVIOUS
<1> HIDE DEF document, table, row, full, fullTable, fullRow, empty, emptyRow,
            anyDocument, fullDocument, anyTable, emptyTable, filledTable, anyRow, newRow, filledRow
<1>5. /\ anyDocument \in Seq(Elements) /\ anyDocument # << >>
      /\ anyTable \in Seq(Elements) /\ anyTable # << >>
      /\ anyRow \in Seq(Elements) /\ anyRow # << >>
  BY <1>1, <1>2
<1>6. /\ Append(fullDocument, empty) = emptyTable
      /\ Append(filledTable, emptyRow) = newRow
  BY <1>1, <1>2, Appends, Zenon
<1>7. /\ Last(anyDocument) = document
      /\ Last(anyTable) = table
      /\ Last(anyRow) = row
  BY <1>1, Lasts
<1>8. /\ Front(anyDocument) = << >>
      /\ Front(anyTable) = fullDocument
      /\ Front(anyRow) = filledTable
  BY <1>1, Fronts, Zenon
<1>9. /\ Filled(anyDocument) = fullDocument
      /\ Filled(anyTable) = filledTable
      /\ Filled(anyRow) = filledRow
  <2>1. Filled(<<document>>) = <<full>>
    BY <1>2, <1>3, FillsLast, Zenon
  <2>2. Filled(<<full, table>>) = <<full, fullTable>>
    BY <1>2, <1>3, FillsLast, Zenon
  <2>3. Filled(<<full, fullTable, row>>) = <<full, fullTable, fullRow>>
    <3>1. full \in Elements /\ fullTable \in Elements /\ row \in Elements
      BY <1>2, Zenon
    <3>2. \A a, b, c \in Elements : Filled(<<a, b, c>>) = <<a, b, Opened(c.kind, TRUE)>>
      BY FillsLast, Zenon
    <3>3. Filled(<<full, fullTable, row>>) = <<full, fullTable, Opened(row.kind, TRUE)>>
      BY <3>1, <3>2, Zenon
    <3> QED
      BY <1>3, <3>3, Zenon
  <2> QED
    BY <1>1, <2>1, <2>2, <2>3, Zenon
<1> QED
  BY <1>2, <1>4, <1>5, <1>6, <1>7, <1>8, <1>9, Zenon
     DEF document, table, row, full, fullTable, fullRow, empty, emptyRow, anyDocument,
         fullDocument, anyTable, emptyTable, filledTable, anyRow, newRow, filledRow

\* A member of the innermost element, after a comma when that has a member.
LEMMA MemberFits ==
    ASSUME NEW r \in AnyReport, r.good, r.open # << >>, NEW kind, NEW comma \in BOOLEAN,
           Last(r.open).kind = Parent[kind], Last(r.open).filled = comma,
           Filled(r.open) \in Seq(Elements)
    PROVE  /\ Member(r, kind, comma) \in AnyReport
           /\ Member(r, kind, comma).good
           /\ Member(r, kind, comma).open = Filled(r.open)
           /\ Member(r, kind, comma).tables = r.tables
           /\ Member(r, kind, comma).rows = r.rows
           /\ Member(r, kind, comma).cols = r.cols
<1>1. Member(r, kind, comma) = [r EXCEPT !.good = Member(r, kind, comma).good,
                                         !.open = Filled(r.open)]
  BY DEF Member, Innermost, Filled, AnyReport
<1>2. Member(r, kind, comma).good
  BY DEF Member, Innermost, Filled, AnyReport
<1> QED
  BY <1>1, <1>2 DEF AnyReport

LEMMA EndFits ==
    ASSUME NEW r \in AnyReport, r.good, r.open # << >>, NEW kind, Last(r.open).kind = kind,
           Front(r.open) \in Seq(Elements)
    PROVE  /\ End(r, kind) \in AnyReport
           /\ End(r, kind).good
           /\ End(r, kind).open = Front(r.open)
           /\ End(r, kind).tables = r.tables
           /\ End(r, kind).rows = r.rows
BY DEF End, Innermost, AnyReport

LEMMA TableBegins ==
    ASSUME NEW r, InDocument(r)
    PROVE  InTable(PrintBeginTable(r))
<1> DEFINE m == Member(r, "table", r.tables)
<1>1. r \in AnyReport /\ r.tables \in BOOLEAN /\ r.good /\ r.open = OpenDocument(r.tables)
  BY DEF InDocument, AnyReport
<1>2. /\ r.open # << >> /\ Last(r.open).kind = "document" /\ Last(r.open).filled = r.tables
      /\ Filled(r.open) = OpenDocument(TRUE) /\ OpenDocument(TRUE) \in Seq(Elements)
  <2>1. TRUE \in BOOLEAN
    OBVIOUS
  <2> QED
    BY <1>1, <2>1, Opens, Zenon
<1>3. Parent["table"] = "document"
  BY DEF Parent
<1>4. /\ m \in AnyReport /\ m.good /\ m.open = OpenDocument(TRUE)
      /\ m.tables = r.tables /\ m.rows = r.rows
  BY <1>1, <1>2, <1>3, MemberFits, ZenonT(30)
<1> HIDE DEF m
<1>5. PrintBeginTable(r) = [[m EXCEPT !.open = Append(@, Element("table"))]
                              EXCEPT !.tables = TRUE, !.rows = FALSE]
  BY DEF PrintBeginTable, Begin, m
<1>6. Element("table") = Opened("table", FALSE)
  BY DEF Element, Opened
<1>8. /\ Append(m.open, Element("table")) = OpenTable(FALSE)
      /\ OpenTable(FALSE) \in Seq(Elements)
  <2>1. FALSE \in BOOLEAN
    OBVIOUS
  <2> QED
    BY <1>4, <1>6, <2>1, Opens, Zenon
<1> QED
  BY <1>4, <1>5, <1>8 DEF InTable, AnyReport

LEMMA RowBegins ==
    ASSUME NEW r, InTable(r)
    PROVE  InRow(PrintBeginTableRow(r))
<1> DEFINE m == Member(r, "row", r.rows)
<1>1. r \in AnyReport /\ r.rows \in BOOLEAN /\ r.good /\ r.open = OpenTable(r.rows)
  BY DEF InTable, AnyReport
<1>2. /\ r.open # << >> /\ Last(r.open).kind = "table" /\ Last(r.open).filled = r.rows
      /\ Filled(r.open) = OpenTable(TRUE) /\ OpenTable(TRUE) \in Seq(Elements)
  <2>1. TRUE \in BOOLEAN
    OBVIOUS
  <2> QED
    BY <1>1, <2>1, Opens, Zenon
<1>3. Parent["row"] = "table"
  BY DEF Parent
<1>4. /\ m \in AnyReport /\ m.good /\ m.open = OpenTable(TRUE)
      /\ m.tables = r.tables /\ m.rows = r.rows
  BY <1>1, <1>2, <1>3, MemberFits, ZenonT(30)
<1> HIDE DEF m
<1>5. PrintBeginTableRow(r) = [[m EXCEPT !.open = Append(@, Element("row"))]
                                 EXCEPT !.rows = TRUE, !.cols = FALSE]
  BY DEF PrintBeginTableRow, Begin, m
<1>6. Element("row") = Opened("row", FALSE)
  BY DEF Element, Opened
<1>7. r.tables
  BY DEF InTable
<1>8. /\ Append(m.open, Element("row")) = OpenedRow(FALSE)
      /\ OpenedRow(FALSE) \in Seq(Elements)
  <2>1. FALSE \in BOOLEAN
    OBVIOUS
  <2> QED
    BY <1>4, <1>6, <2>1, Opens, Zenon
<1> QED
  BY <1>4, <1>5, <1>8, <1>7 DEF InRow, AnyReport

LEMMA CellFits ==
    ASSUME NEW r, InRow(r)
    PROVE  InRow(PrintTableElement(r)) /\ PrintTableElement(r).cols
<1> DEFINE m == Member(r, "cell", r.cols)
<1>1. r \in AnyReport /\ r.cols \in BOOLEAN /\ r.good /\ r.open = OpenedRow(r.cols)
  BY DEF InRow, AnyReport
<1>2. /\ r.open # << >> /\ Last(r.open).kind = "row" /\ Last(r.open).filled = r.cols
      /\ Filled(r.open) = OpenedRow(TRUE) /\ OpenedRow(TRUE) \in Seq(Elements)
  <2>1. TRUE \in BOOLEAN
    OBVIOUS
  <2> QED
    BY <1>1, <2>1, Opens, Zenon
<1>3. Parent["cell"] = "row"
  BY DEF Parent
<1>4. /\ m \in AnyReport /\ m.good /\ m.open = OpenedRow(TRUE)
      /\ m.tables = r.tables /\ m.rows = r.rows
  BY <1>1, <1>2, <1>3, MemberFits, ZenonT(30)
<1> HIDE DEF m
<1>5. PrintTableElement(r) = [m EXCEPT !.cols = TRUE]
  BY DEF PrintTableElement, m
<1>6. r.tables /\ r.rows
  BY DEF InRow
<1> QED
  BY <1>4, <1>5, <1>6 DEF InRow, AnyReport

LEMMA RowEnds ==
    ASSUME NEW r, InRow(r), r.cols
    PROVE  InTable(PrintEndTableRow(r))
<1>1. r \in AnyReport /\ r.good /\ r.open = OpenedRow(r.cols)
  BY DEF InRow
<1>2. /\ r.open # << >> /\ Last(r.open).kind = "row"
      /\ Front(r.open) = OpenTable(TRUE) /\ OpenTable(TRUE) \in Seq(Elements)
  <2>1. TRUE \in BOOLEAN
    OBVIOUS
  <2> QED
    BY <1>1, <2>1, Opens, Zenon DEF InRow, AnyReport
<1>3. /\ End(r, "row") \in AnyReport /\ End(r, "row").good
      /\ End(r, "row").open = OpenTable(TRUE)
      /\ End(r, "row").tables = r.tables /\ End(r, "row").rows = r.rows
  BY <1>1, <1>2, EndFits, Zenon
<1> QED
  BY <1>3 DEF InRow, InTable, PrintEndTableRow, AnyReport

LEMMA RowFits ==
    ASSUME NEW r, InTable(r)
    PROVE  InTable(Printed(r, "row"))
<1>1. InRow(OpenRowPrinted(r)) /\ OpenRowPrinted(r).cols
  BY RowBegins, CellFits DEF OpenRowPrinted
<1>2. Printed(r, "row") = PrintEndTableRow(OpenRowPrinted(r))
  BY DEF Printed
<1> QED
  BY <1>1, <1>2, RowEnds

LEMMA TableEnds ==
    ASSUME NEW r, InTable(r)
    PROVE  InDocument(PrintEndTable(r))
<1>1. r \in AnyReport /\ r.good /\ r.open = OpenTable(r.rows)
  BY DEF InTable
<1>2. /\ r.open # << >> /\ Last(r.open).kind = "table"
      /\ Front(r.open) = OpenDocument(TRUE) /\ OpenDocument(TRUE) \in Seq(Elements)
  <2>1. TRUE \in BOOLEAN
    OBVIOUS
  <2> QED
    BY <1>1, <2>1, Opens, Zenon DEF InTable, AnyReport
<1>3. /\ End(r, "table") \in AnyReport /\ End(r, "table").good
      /\ End(r, "table").open = OpenDocument(TRUE)
      /\ End(r, "table").tables = r.tables /\ End(r, "table").rows = r.rows
  BY <1>1, <1>2, EndFits, Zenon
<1> QED
  BY <1>3 DEF InTable, InDocument, PrintEndTable, AnyReport

LEMMA TextFits ==
    ASSUME NEW r, InDocument(r)
    PROVE  InDocument(PrintStandardText(r))
<1> DEFINE m == Member(r, "text", r.tables)
<1>1. r \in AnyReport /\ r.tables \in BOOLEAN /\ r.good /\ r.open = OpenDocument(r.tables)
  BY DEF InDocument, AnyReport
<1>2. /\ r.open # << >> /\ Last(r.open).kind = "document" /\ Last(r.open).filled = r.tables
      /\ Filled(r.open) = OpenDocument(TRUE) /\ OpenDocument(TRUE) \in Seq(Elements)
  <2>1. TRUE \in BOOLEAN
    OBVIOUS
  <2> QED
    BY <1>1, <2>1, Opens, Zenon
<1>3. Parent["text"] = "document"
  BY DEF Parent
<1>4. /\ m \in AnyReport /\ m.good /\ m.open = OpenDocument(TRUE)
      /\ m.tables = r.tables /\ m.rows = r.rows
  BY <1>1, <1>2, <1>3, MemberFits, ZenonT(30)
<1> HIDE DEF m
<1>5. PrintStandardText(r) = [m EXCEPT !.tables = TRUE]
  BY DEF PrintStandardText, m
<1> QED
  BY <1>4, <1>5 DEF InDocument, AnyReport

LEMMA DocumentBegins ==
    ASSUME NEW format \in Formats
    PROVE  InDocument(StartOutput(format))
<1>1. Element("document") = Opened("document", FALSE)
  BY DEF Element, Opened
<1>2. StartOutput(format).open = OpenDocument(FALSE)
  BY <1>1 DEF StartOutput, OpenDocument
<1>3. OpenDocument(FALSE) \in Seq(Elements)
  BY Opens
<1> QED
  BY <1>2, <1>3 DEF InDocument, AnyReport, StartOutput

LEMMA DocumentEnds ==
    ASSUME NEW r, InDocument(r)
    PROVE  WellFormed(EndOutput(r))
<1>1. r \in AnyReport /\ r.good /\ r.open = OpenDocument(r.tables)
  BY DEF InDocument
<1>2. /\ r.open # << >> /\ Last(r.open).kind = "document"
      /\ Front(r.open) = << >> /\ << >> \in Seq(Elements)
  <2>1. << >> \in Seq(Elements)
    OBVIOUS
  <2> QED
    BY <1>1, <2>1, Opens, Zenon DEF InDocument, AnyReport
<1>3. /\ End(r, "document") \in AnyReport /\ End(r, "document").good
      /\ End(r, "document").open = << >>
      /\ End(r, "document").tables = r.tables /\ End(r, "document").rows = r.rows
  BY <1>1, <1>2, EndFits, Zenon
<1> QED
  BY <1>3 DEF EndOutput, WellFormed

(***************************************************************************)
(* Scripts: whatever is printed, the report stays one, and a table of rows *)
(* leads from a report between two functions to another such report.       *)
(***************************************************************************)
Pieces == {"text", "table", "row", "open row", "end row", "end table"}
Rows == Seq({"row"})
IsTable(script) == \E rows \in Rows : script = Table(rows)

LEMMA MemberTyped ==
    ASSUME NEW r \in AnyReport, NEW kind, NEW comma \in BOOLEAN
    PROVE  Member(r, kind, comma) \in AnyReport
<1> DEFINE open == IF r.open = << >> THEN r.open ELSE Filled(r.open)
           good == /\ r.good /\ r.open # << >>
                   /\ IF r.format = "html" THEN Innermost(r).kind = Parent[kind]
                      ELSE comma = Innermost(r).filled
<1>1. Member(r, kind, comma) = [r EXCEPT !.good = good, !.open = open]
  BY DEF Member, Filled, AnyReport
<1>2. good \in BOOLEAN
  OBVIOUS
<1>3. open \in Seq(Elements)
  <2>1. CASE r.open = << >>
    BY <2>1
  <2>2. CASE r.open # << >>
    <3>1. r.open \in Seq(Elements)
      BY DEF AnyReport
    <3> DEFINE last == r.open[Len(r.open)]
               full == Opened(last.kind, TRUE)
    <3>2. Filled(r.open) = [r.open EXCEPT ![Len(r.open)] = full]
      BY <2>2, <3>1, Fills
    <3>3. full \in Elements
      <4>1. last \in Elements
        BY <2>2, <3>1
      <4> QED
        BY <4>1 DEF Elements, Opened
    <3> HIDE DEF full
    <3>4. [r.open EXCEPT ![Len(r.open)] = full] \in Seq(Elements)
      BY <2>2, <3>1, <3>3
    <3> QED
      BY <2>2, <3>2, <3>4
  <2> QED
    BY <2>1, <2>2
<1> HIDE DEF open, good
<1> QED
  BY <1>1, <1>2, <1>3 DEF AnyReport

LEMMA BeginTyped ==
    ASSUME NEW r \in AnyReport, NEW kind \in {"table", "row"}, NEW comma \in BOOLEAN
    PROVE  Begin(r, kind, comma) \in AnyReport
<1> DEFINE m == Member(r, kind, comma)
<1>1. m \in AnyReport
  BY MemberTyped
<1>2. Begin(r, kind, comma) = [m EXCEPT !.open = Append(@, Element(kind))]
  BY DEF Begin
<1>3. Element(kind) \in Elements
  BY DEF Element, Elements, Kinds
<1> HIDE DEF m
<1> DEFINE open == Append(m.open, Element(kind))
<1>4. open \in Seq(Elements)
  <2>1. m.open \in Seq(Elements)
    BY <1>1 DEF AnyReport
  <2> QED
    BY <1>3, <2>1
<1>5. Begin(r, kind, comma) = [m EXCEPT !.open = open]
  BY <1>2
<1> HIDE DEF open
<1> QED
  BY <1>1, <1>4, <1>5 DEF AnyReport

LEMMA EndTyped ==
    ASSUME NEW r \in AnyReport, NEW kind
    PROVE  End(r, kind) \in AnyReport
<1> DEFINE open == IF r.open = << >> THEN r.open ELSE Front(r.open)
           good == /\ r.good /\ r.open # << >>
                   /\ (r.format = "html" => Innermost(r).kind = kind)
<1>1. End(r, kind) = [r EXCEPT !.good = good, !.open = open]
  BY DEF End, AnyReport
<1>2. good \in BOOLEAN
  OBVIOUS
<1>3. open \in Seq(Elements)
  <2>1. r.open \in Seq(Elements)
    BY DEF AnyReport
  <2>2. ASSUME r.open # << >>
        PROVE  Front(r.open) \in Seq(Elements)
    <3>1. Front(r.open) = [i \in 1..(Len(r.open) - 1) |-> r.open[i]]
      BY DEF Front
    <3>2. Len(r.open) - 1 \in Nat /\ \A i \in 1..(Len(r.open) - 1) : r.open[i] \in Elements
      BY <2>1, <2>2
    <3> QED
      BY <3>1, <3>2
  <2> QED
    BY <2>1, <2>2
<1> HIDE DEF open, good
<1> QED
  BY <1>1, <1>2, <1>3 DEF AnyReport

LEMMA PrintedTyped ==
    ASSUME NEW r \in AnyReport, NEW piece \in Pieces
    PROVE  Printed(r, piece) \in AnyReport
<1>1. \A q \in AnyReport : q.tables \in BOOLEAN /\ q.rows \in BOOLEAN /\ q.cols \in BOOLEAN
  BY DEF AnyReport
<1>2. \A q \in AnyReport : PrintStandardText(q) \in AnyReport
  <2> SUFFICES ASSUME NEW q \in AnyReport PROVE PrintStandardText(q) \in AnyReport
    OBVIOUS
  <2> DEFINE m == Member(q, "text", q.tables)
  <2>1. m \in AnyReport
    BY <1>1, MemberTyped
  <2>2. PrintStandardText(q) = [m EXCEPT !.tables = TRUE]
    BY DEF PrintStandardText
  <2> HIDE DEF m
  <2> QED
    BY <2>1, <2>2 DEF AnyReport
<1>3. \A q \in AnyReport : PrintBeginTable(q) \in AnyReport
  <2> SUFFICES ASSUME NEW q \in AnyReport PROVE PrintBeginTable(q) \in AnyReport
    OBVIOUS
  <2> DEFINE m == Begin(q, "table", q.tables)
  <2>1. m \in AnyReport
    BY <1>1, BeginTyped
  <2>2. PrintBeginTable(q) = [m EXCEPT !.tables = TRUE, !.rows = FALSE]
    BY DEF PrintBeginTable
  <2> HIDE DEF m
  <2> QED
    BY <2>1, <2>2 DEF AnyReport
<1>4. \A q \in AnyReport : PrintBeginTableRow(q) \in AnyReport
  <2> SUFFICES ASSUME NEW q \in AnyReport PROVE PrintBeginTableRow(q) \in AnyReport
    OBVIOUS
  <2> DEFINE m == Begin(q, "row", q.rows)
  <2>1. m \in AnyReport
    BY <1>1, BeginTyped
  <2>2. PrintBeginTableRow(q) = [m EXCEPT !.rows = TRUE, !.cols = FALSE]
    BY DEF PrintBeginTableRow
  <2> HIDE DEF m
  <2> QED
    BY <2>1, <2>2 DEF AnyReport
<1>5. \A q \in AnyReport : PrintTableElement(q) \in AnyReport
  <2> SUFFICES ASSUME NEW q \in AnyReport PROVE PrintTableElement(q) \in AnyReport
    OBVIOUS
  <2> DEFINE m == Member(q, "cell", q.cols)
  <2>1. m \in AnyReport
    BY <1>1, MemberTyped
  <2>2. PrintTableElement(q) = [m EXCEPT !.cols = TRUE]
    BY DEF PrintTableElement
  <2> HIDE DEF m
  <2> QED
    BY <2>1, <2>2 DEF AnyReport
<1>6. \A q \in AnyReport : PrintEndTableRow(q) \in AnyReport /\ PrintEndTable(q) \in AnyReport
  BY EndTyped DEF PrintEndTableRow, PrintEndTable
<1>7. OpenRowPrinted(r) \in AnyReport
  BY <1>4, <1>5 DEF OpenRowPrinted
<1> QED
  BY <1>2, <1>3, <1>6, <1>7 DEF Printed, Pieces

\* A fold over a sequence, value by value.
LEMMA WrittenInStages ==
    ASSUME NEW r \in AnyReport, NEW script \in Seq(Pieces)
    PROVE  \E stages : /\ stages[0] = r
                       /\ \A k \in 1..Len(script) : stages[k] = Printed(stages[k - 1], script[k])
                       /\ \A k \in 0..Len(script) : stages[k] \in AnyReport
                       /\ Written(r, script) = stages[Len(script)]
<1> DEFINE n == Len(script)
           table == [p \in AnyReport \X (1..n) |-> Printed(p[1], script[p[2]])]
           chosen == CHOOSE iter : iter = [s \in SUBSET DOMAIN script |->
                         IF s = {} THEN r ELSE Printed(iter[s \ {Max(s)}], script[Max(s)])]
           stages == [k \in 0..n |-> chosen[1..k]]
<1>1. n \in Nat /\ DOMAIN script = 1..n /\ \A k \in 1..n : script[k] \in Pieces
  OBVIOUS
<1>2. table \in [AnyReport \X (1..n) -> AnyReport]
  <2>1. \A p \in AnyReport \X (1..n) : Printed(p[1], script[p[2]]) \in AnyReport
    BY <1>1, PrintedTyped
  <2> QED
    BY <2>1
<1>3. PICK fold : Folding(fold, n, r, table) /\ \A s \in SUBSET (1..n) : fold[s] \in AnyReport
  <2> HIDE DEF table, n
  <2> QED
    BY <1>1, <1>2, TypedFolding
<1>4. \A s \in SUBSET (1..n) : s # {} => Max(s) \in 1..n /\ fold[s \ {Max(s)}] \in AnyReport
  <2> HIDE DEF n
  <2> QED
    BY <1>1, <1>3, MaxInRange
<1>5. \A s \in SUBSET (1..n) :
         s # {} => table[<<fold[s \ {Max(s)}], Max(s)>>] = Printed(fold[s \ {Max(s)}], script[Max(s)])
  BY <1>4
<1>6. fold = [s \in SUBSET DOMAIN script |->
                 IF s = {} THEN r ELSE Printed(fold[s \ {Max(s)}], script[Max(s)])]
  <2> HIDE DEF table, n
  <2> QED
    BY <1>1, <1>3, <1>5 DEF Folding
<1>7. chosen = [s \in SUBSET DOMAIN script |->
                   IF s = {} THEN r ELSE Printed(chosen[s \ {Max(s)}], script[Max(s)])]
  BY <1>6
<1>8. Written(r, script) = chosen[DOMAIN script]
  BY DEF Written, FoldLeft, MapThenFoldSet
<1> HIDE DEF chosen, table
<1>9. stages[0] = r
  <2>1. 1..0 = {} /\ 0 \in 0..n
    BY <1>1
  <2> QED
    BY <1>1, <1>7, <2>1
<1>10. ASSUME NEW k \in 1..n
       PROVE  stages[k] = Printed(stages[k - 1], script[k])
  <2>1. /\ Max(1..k) = k /\ (1..k) \ {k} = 1..(k - 1)
        /\ 1..k # {} /\ 1..k \in SUBSET (1..n)
    <3> HIDE DEF n
    <3> QED
      BY <1>1, Intervals
  <2>2. chosen[1..k] = Printed(chosen[1..(k - 1)], script[k])
    <3> HIDE DEF n
    <3> QED
      BY <1>1, <1>7, <2>1
  <2>3. k \in 0..n /\ k - 1 \in 0..n
    BY <1>1
  <2> QED
    BY <2>2, <2>3
<1> DEFINE Typed == {k \in Nat : k <= n => stages[k] \in AnyReport}
<1> HIDE DEF stages
<1>11. 0 \in Typed
  BY <1>9
<1>12. \A k \in Nat : k \in Typed => k + 1 \in Typed
  <2> SUFFICES ASSUME NEW k \in Nat, k \in Typed, k + 1 <= n
               PROVE  stages[k + 1] \in AnyReport
    OBVIOUS
  <2>1. k + 1 \in 1..n /\ (k + 1) - 1 = k /\ k <= n
    BY <1>1
  <2>2. stages[k] \in AnyReport
    BY <2>1
  <2> QED
    BY <1>1, <1>10, <2>1, <2>2, PrintedTyped
<1>13. \A k \in 0..n : stages[k] \in AnyReport
  <2>1. Nat \subseteq Typed
    <3> HIDE DEF Typed
    <3> QED
      BY <1>11, <1>12, InductionOnSet
  <2> QED
    BY <1>1, <2>1
<1>14. stages[n] = Written(r, script)
  BY <1>1, <1>8 DEF stages
<1> QED
  BY <1>9, <1>10, <1>13, <1>14

LEMMA WrittenTyped ==
    ASSUME NEW r \in AnyReport, NEW script \in Seq(Pieces)
    PROVE  Written(r, script) \in AnyReport
BY WrittenInStages

\* A table of rows.
LEMMA TableFits ==
    ASSUME NEW r, InDocument(r), NEW rows \in Rows
    PROVE  InDocument(Written(r, Table(rows)))
<1> DEFINE script == Table(rows)
           n == Len(script)
<1> DEFINE last == "end table"
<1>1. /\ script \in Seq(Pieces) /\ n \in Nat /\ n >= 2
      /\ script[1] = "table" /\ script[n] = last
      /\ \A k \in 2..(n - 1) : script[k] = "row"
  <2>1. "table" \in Pieces /\ "row" \in Pieces /\ last \in Pieces
    BY Zenon DEF Pieces
  <2>2. script = (<<"table">> \o rows) \o <<last>>
    BY DEF Table
  <2> HIDE DEF last, script
  <2>3. rows \in Seq(Pieces) /\ Len(rows) \in Nat /\ \A k \in 1..Len(rows) : rows[k] = "row"
    BY <2>1 DEF Rows
  <2> DEFINE opening == <<"table">> \o rows
  <2>4. /\ opening \in Seq(Pieces) /\ Len(opening) = Len(rows) + 1 /\ opening[1] = "table"
        /\ \A k \in 2..Len(opening) : opening[k] = "row"
    BY <2>1, <2>3
  <2>5. script = opening \o <<last>>
    BY <2>2
  <2> HIDE DEF opening
  <2>6. /\ script \in Seq(Pieces) /\ Len(script) = Len(opening) + 1
        /\ \A k \in 1..Len(opening) : script[k] = opening[k]
        /\ script[Len(opening) + 1] = last
    BY <2>1, <2>4, <2>5
  <2> QED
    BY <2>3, <2>4, <2>6
<1>2. r \in AnyReport
  BY DEF InDocument
<1> HIDE DEF script, last
<1>3. PICK stages : /\ stages[0] = r
                    /\ \A k \in 1..n : stages[k] = Printed(stages[k - 1], script[k])
                    /\ \A k \in 0..n : stages[k] \in AnyReport
                    /\ Written(r, script) = stages[n]
  BY <1>1, <1>2, WrittenInStages
<1> HIDE DEF n
<1> DEFINE InTables == {k \in Nat : k + 2 <= n => InTable(stages[k + 1])}
<1>4. 0 \in InTables
  <2>1. 1 \in 1..n /\ 1 - 1 = 0 /\ 0 + 1 = 1
    BY <1>1
  <2>2. stages[1] = Printed(r, "table")
    BY <1>1, <1>3, <2>1
  <2>3. Printed(r, "table") = PrintBeginTable(r)
    BY DEF Printed
  <2> QED
    BY <2>1, <2>2, <2>3, TableBegins
<1>5. \A k \in Nat : k \in InTables => k + 1 \in InTables
  <2> SUFFICES ASSUME NEW k \in Nat, k \in InTables, (k + 1) + 2 <= n
               PROVE  InTable(stages[(k + 1) + 1])
    OBVIOUS
  <2>1. k + 2 <= n /\ k + 2 \in 1..n /\ k + 2 \in 2..(n - 1) /\ (k + 2) - 1 = k + 1
        /\ (k + 1) + 1 = k + 2
    BY <1>1
  <2>2. InTable(stages[k + 1])
    BY <2>1
  <2>3. stages[k + 2] = Printed(stages[k + 1], "row")
    BY <1>1, <1>3, <2>1
  <2> QED
    BY <2>1, <2>2, <2>3, RowFits
<1>6. InTable(stages[n - 1])
  <2>1. n - 2 \in Nat /\ (n - 2) + 2 <= n /\ (n - 2) + 1 = n - 1
    BY <1>1
  <2>2. n - 2 \in InTables
    <3> HIDE DEF InTables
    <3> QED
      BY <1>4, <1>5, <2>1, InductionOnSet
  <2> QED
    BY <2>1, <2>2
<1>7. stages[n] = PrintEndTable(stages[n - 1])
  <2>1. n \in 1..n
    BY <1>1
  <2>2. stages[n] = Printed(stages[n - 1], last)
    BY <1>1, <1>3, <2>1
  <2>3. Printed(stages[n - 1], "end table") = PrintEndTable(stages[n - 1])
    BY DEF Printed
  <2> QED
    BY <2>2, <2>3 DEF last
<1> QED
  BY <1>3, <1>6, <1>7, TableEnds DEF script

LEMMA OneTextFits ==
    ASSUME NEW r, InDocument(r)
    PROVE  InDocument(Written(r, <<"text">>))
<1> DEFINE script == <<"text">>
<1>1. script \in Seq(Pieces) /\ Len(script) = 1 /\ script[1] = "text"
  BY DEF Pieces
<1>2. r \in AnyReport
  BY DEF InDocument
<1> HIDE DEF script
<1>3. PICK stages : /\ stages[0] = r
                    /\ \A k \in 1..Len(script) : stages[k] = Printed(stages[k - 1], script[k])
                    /\ \A k \in 0..Len(script) : stages[k] \in AnyReport
                    /\ Written(r, script) = stages[Len(script)]
  BY <1>1, <1>2, WrittenInStages
<1>4. Written(r, script) = PrintStandardText(r)
  <2>1. 1 \in 1..Len(script) /\ 1 - 1 = 0
    BY <1>1
  <2>2. Written(r, script) = Printed(r, "text")
    BY <1>1, <1>3, <2>1
  <2>3. Printed(r, "text") = PrintStandardText(r)
    BY DEF Printed
  <2> QED
    BY <2>2, <2>3
<1> QED
  BY <1>4, TextFits DEF script

(***************************************************************************)
(* What the functions of via print of layers, runtimes and settings files  *)
(* are rows, however many there are.                                       *)
(***************************************************************************)
LEMMA RowsTogether ==
    /\ Row \in Rows /\ << >> \in Rows
    /\ \A a, b \in Rows : a \o b \in Rows
BY DEF Row, Rows

LEMMA RowsFlattened ==
    ASSUME NEW n \in Nat, NEW f \in [1..n -> Rows]
    PROVE  FlattenSeq(f) \in Rows
<1>1. f \in Seq(Rows)
  OBVIOUS
<1> QED
  BY <1>1, Flattened DEF Rows

LEMMA ExplicitRows == \A manifest : GenerateExplicitLayerJsonInfo(manifest) \in Rows
<1>1. Row \o Row \o Row \in Rows
  BY RowsTogether
<1>2. \A manifest : GenerateExplicitLayerJsonInfo(manifest) \in {Row, Row \o Row \o Row}
  BY Zenon DEF GenerateExplicitLayerJsonInfo
<1> QED
  BY <1>1, <1>2, RowsTogether

LEMMA ImplicitRows == \A layer : GenerateImplicitLayerJsonInfo(layer) \in Rows
<1> SUFFICES ASSUME NEW layer PROVE GenerateImplicitLayerJsonInfo(layer) \in Rows
  OBVIOUS
<1> DEFINE first == GenerateExplicitLayerJsonInfo(layer.manifest)
           second == IF layer.overrides = << >> THEN << >> ELSE Row
           third == IF layer.expiration = << >> THEN << >> ELSE Row
<1>1. first \in Rows /\ second \in Rows /\ third \in Rows /\ Row \in Rows
  BY ExplicitRows, RowsTogether
<1>2. GenerateImplicitLayerJsonInfo(layer) = first \o second \o third \o Row \o Row \o Row
  BY Zenon DEF GenerateImplicitLayerJsonInfo
<1> HIDE DEF first, second, third
<1> QED
  BY <1>1, <1>2, RowsTogether

LEMMA SettingsRows == \A layers \in Nat : GenerateSettingsFileJsonInfo(layers) \in Rows
<1> SUFFICES ASSUME NEW layers \in Nat PROVE GenerateSettingsFileJsonInfo(layers) \in Rows
  OBVIOUS
<1> DEFINE f == [k \in 1..layers |-> Row \o Row]
<1>1. f \in [1..layers -> Rows]
  BY RowsTogether
<1>2. GenerateSettingsFileJsonInfo(layers) = Row \o FlattenSeq(f)
  BY Zenon DEF GenerateSettingsFileJsonInfo
<1> HIDE DEF f
<1> QED
  BY <1>1, <1>2, RowsTogether, RowsFlattened

LEMMA FolderRows ==
    ASSUME NEW E, NEW manifests \in Seq(E)
    PROVE  LayerFolder(manifests) \in Rows
<1> DEFINE each(k) == IF manifests[k] = "unreadable" THEN Row
                      ELSE Row \o GenerateExplicitLayerJsonInfo(manifests[k])
           f == [k \in DOMAIN manifests |-> each(k)]
           none == IF manifests = << >> THEN Row ELSE << >>
<1>1. \A k : each(k) \in Rows
  BY ExplicitRows, RowsTogether
<1> HIDE DEF each
<1>2. DOMAIN manifests = 1..Len(manifests) /\ Len(manifests) \in Nat
  OBVIOUS
<1>3. FlattenSeq(f) \in Rows
  <2>1. f \in [1..Len(manifests) -> Rows]
    BY <1>1, <1>2
  <2> HIDE DEF f
  <2> QED
    BY <1>2, <2>1, RowsFlattened
<1>4. none \in Rows
  BY RowsTogether
<1>5. LayerFolder(manifests) = Row \o FlattenSeq(f) \o none
  BY Zenon DEF LayerFolder, each
<1> HIDE DEF f, none
<1> QED
  BY <1>3, <1>4, <1>5, RowsTogether

LEMMA FoldersRows ==
    ASSUME NEW E, NEW folders \in Seq(Seq(E))
    PROVE  FlattenSeq([k \in DOMAIN folders |-> LayerFolder(folders[k])]) \in Rows
<1>1. DOMAIN folders = 1..Len(folders) /\ Len(folders) \in Nat
  OBVIOUS
<1>2. [k \in DOMAIN folders |-> LayerFolder(folders[k])] \in [1..Len(folders) -> Rows]
  BY <1>1, FolderRows
<1> QED
  BY <1>1, <1>2, RowsFlattened

LEMMA ExplicitTable ==
    ASSUME NEW folders \in Seq(Seq(LayerManifests)), NEW e, e.layers \in Seq(STRING),
           NEW standard \in Seq(LayerManifests)
    PROVE  IsTable(ExplicitLayers(folders, e, standard).script)
<1> DEFINE listed == FlattenSeq([k \in DOMAIN folders |-> LayerFolder(folders[k])])
           paths == FlattenSeq([k \in DOMAIN e.layers |-> LayerFolder(<< >>)])
           first == IF folders = << >> THEN << >> ELSE Row
           second == IF e.layers = << >> THEN << >> ELSE Row
           last == LayerFolder(standard)
           rows == first \o listed \o second \o paths \o Row \o last
<1>1. listed \in Rows
  BY FoldersRows
<1>2. paths \in Rows
  <2>1. DOMAIN e.layers = 1..Len(e.layers) /\ Len(e.layers) \in Nat
    OBVIOUS
  <2>2. LayerFolder(<< >>) \in Rows
    <3>1. << >> \in Seq(LayerManifests)
      OBVIOUS
    <3> QED
      BY <3>1, FolderRows
  <2>3. [k \in DOMAIN e.layers |-> LayerFolder(<< >>)] \in [1..Len(e.layers) -> Rows]
    BY <2>1, <2>2
  <2> QED
    BY <2>1, <2>3, RowsFlattened
<1>3. first \in Rows /\ second \in Rows /\ Row \in Rows
  BY RowsTogether
<1>4. last \in Rows
  BY FolderRows
<1>5. ExplicitLayers(folders, e, standard).script = Table(rows)
  BY Zenon DEF ExplicitLayers
<1> HIDE DEF listed, paths, first, second, last
<1>6. rows \in Rows
  BY <1>1, <1>2, <1>3, <1>4, RowsTogether
<1> HIDE DEF rows
<1> QED
  BY <1>5, <1>6 DEF IsTable

LEMMA ImplicitTable == \A layer : IsTable(ImplicitLayers(layer).script)
<1> SUFFICES ASSUME NEW layer PROVE IsTable(ImplicitLayers(layer).script)
  OBVIOUS
<1> DEFINE last == IF layer.readable THEN GenerateImplicitLayerJsonInfo(layer) ELSE Row
           rows == Row \o Row \o last
<1>1. last \in Rows /\ Row \in Rows
  BY ImplicitRows, RowsTogether
<1>2. ImplicitLayers(layer).script = Table(rows)
  BY Zenon DEF ImplicitLayers
<1> HIDE DEF last
<1>3. rows \in Rows
  BY <1>1, RowsTogether
<1> HIDE DEF rows
<1> QED
  BY <1>2, <1>3 DEF IsTable

LEMMA TableTyped ==
    ASSUME NEW rows \in Rows
    PROVE  Table(rows) \in Seq(Pieces) /\ IsTable(Table(rows))
<1> DEFINE last == "end table"
<1>1. "table" \in Pieces /\ "row" \in Pieces /\ last \in Pieces
  BY Zenon DEF Pieces
<1>2. Table(rows) = <<"table">> \o rows \o <<last>>
  BY DEF Table
<1> HIDE DEF last
<1>3. rows \in Seq(Pieces)
  BY <1>1 DEF Rows
<1>4. Table(rows) \in Seq(Pieces)
  BY <1>1, <1>2, <1>3
<1> QED
  BY <1>4 DEF IsTable

LEMMA PiecesTogether ==
    /\ Rows \subseteq Seq(Pieces)
    /\ Row \in Seq(Pieces) /\ OpenRow \in Seq(Pieces) /\ << >> \in Seq(Pieces)
    /\ \A a, b \in Seq(Pieces) : a \o b \in Seq(Pieces)
<1> DEFINE open == "open row"
<1>1. open \in Pieces /\ "row" \in Pieces
  BY Zenon DEF Pieces
<1>2. OpenRow = <<open>> /\ Row = <<"row">>
  BY DEF OpenRow, Row
<1> HIDE DEF open
<1>3. OpenRow \in Seq(Pieces) /\ Row \in Seq(Pieces)
  BY <1>1, <1>2
<1>4. ASSUME NEW rows \in Rows PROVE rows \in Seq(Pieces)
  BY <1>1 DEF Rows
<1> QED
  BY <1>3, <1>4

LEMMA PiecesInTable ==
    ASSUME NEW pieces \in Seq(Pieces)
    PROVE  Table(pieces) \in Seq(Pieces)
<1> DEFINE last == "end table"
<1>1. "table" \in Pieces /\ last \in Pieces
  BY Zenon DEF Pieces
<1>2. Table(pieces) = <<"table">> \o pieces \o <<last>>
  BY DEF Table
<1> HIDE DEF last
<1> QED
  BY <1>1, <1>2

\* A folder that may hold runtimes, and the one via uses.
LEMMA RuntimesTyped ==
    ASSUME NEW folder
    PROVE  /\ RuntimesInFolder(folder).script \in Seq(Pieces)
           /\ RuntimesInFolder(folder).result \in Results
           /\ folder # "no link" => RuntimesInFolder(folder).script \in Rows
           /\ RuntimeUsedScript(folder) \in Seq(Pieces)
           /\ folder # "no link" => RuntimeUsedScript(folder) \in Rows
<1>1. RuntimesInFolder(folder).script \in {Row \o Row, Row \o OpenRow}
  BY Zenon DEF RuntimesInFolder
<1>2. folder # "no link" => RuntimesInFolder(folder).script = Row \o Row
  BY Zenon DEF RuntimesInFolder
<1>3. RuntimesInFolder(folder).result \in {"SYSTEM_CALL_FAILURE", "SUCCESSFUL"}
  BY Zenon DEF RuntimesInFolder
<1>4. RuntimeUsedScript(folder) \in {<< >>, Row, Row \o Row, Row \o OpenRow \o Row}
  BY DEF RuntimeUsedScript
<1>5. folder # "no link" => RuntimeUsedScript(folder) \in {<< >>, Row, Row \o Row}
  BY DEF RuntimeUsedScript
<1>6. /\ Row \o Row \in Rows /\ Row \in Rows /\ << >> \in Rows
      /\ Row \o Row \in Seq(Pieces) /\ Row \o OpenRow \in Seq(Pieces)
      /\ Row \in Seq(Pieces) /\ << >> \in Seq(Pieces) /\ Row \o OpenRow \o Row \in Seq(Pieces)
  BY RowsTogether, PiecesTogether
<1>7. RuntimesInFolder(folder).result \in Results
  BY <1>3, Zenon DEF Results
<1>8. RuntimesInFolder(folder).script \in Seq(Pieces)
  BY <1>1, <1>6, Zenon
<1>9. RuntimeUsedScript(folder) \in Seq(Pieces)
  BY <1>4, <1>6, Zenon
<1>10. folder # "no link" => RuntimeUsedScript(folder) \in Rows
  BY <1>5, <1>6, Zenon
<1> QED
  BY <1>2, <1>6, <1>7, <1>8, <1>9, <1>10, Zenon

LEMMA LoaderTyped ==
    ASSUME NEW E, NEW n \in Nat, NEW infos, DOMAIN infos = 1..n,
           \A k \in 1..n : infos[k].script \in Seq(E), NEW used, NEW own, own.result \in Results,
           Row \in Seq(E), RuntimeUsedScript(used) \in Seq(E)
    PROVE  /\ LoaderInfo(infos, used, own).script \in Seq(E)
           /\ LoaderInfo(infos, used, own).result \in Results
<1> DEFINE f == [k \in DOMAIN infos |-> infos[k].script]
<1>1. f \in [1..n -> Seq(E)]
  OBVIOUS
<1>2. LoaderInfo(infos, used, own).script = Row \o FlattenSeq(f) \o RuntimeUsedScript(used)
  BY Zenon DEF LoaderInfo
<1> HIDE DEF f
<1>3. f \in Seq(Seq(E))
  BY <1>1
<1>4. FlattenSeq(f) \in Seq(E)
  BY <1>3, Flattened
<1>5. LoaderInfo(infos, used, own).script \in Seq(E)
  <2>1. \A a, b \in Seq(E) : a \o b \in Seq(E)
    OBVIOUS
  <2> QED
    BY <1>2, <1>4, <2>1, Zenon
<1>6. LoaderInfo(infos, used, own).result
        \in {"SYSTEM_CALL_FAILURE", own.result, "SUCCESSFUL", "VULKAN_CANT_FIND_RUNTIME"}
  BY Zenon DEF LoaderInfo
<1>7. LoaderInfo(infos, used, own).result \in Results
  BY <1>6, Zenon DEF Results
<1> QED
  BY <1>5, <1>7

(***************************************************************************)
(* Reading manifests.  What is found of them is one of them that has it,   *)
(* as long as the library path is not cut shorter than it was.             *)
(***************************************************************************)
Scan == [script : Rows, found_json : BOOLEAN, found_this_lib : BOOLEAN, found_lib : BOOLEAN,
         libs : Nat, cut : BOOLEAN]

LibraryFound(manifest, libs, in_linker) ==
    \/ manifest \in {"beside", "system"}
    \/ InLibraryPath(manifest, libs)
    \/ manifest = "linker" /\ in_linker

LEMMA LibrariesHaveIcd ==
    ASSUME NEW manifest, NEW libs, NEW in_linker, LibraryFound(manifest, libs, in_linker)
    PROVE  HasIcd(manifest)
<1>1. manifest \in {"beside", "system", "first", "second", "linker"}
  BY Zenon DEF LibraryFound, InLibraryPath
<1>2. /\ HasIcd("beside")
      /\ HasIcd("system") /\ HasIcd("first") /\ HasIcd("second") /\ HasIcd("linker")
  BY DEF HasIcd
<1> QED
  BY <1>1, <1>2

LEMMA ManifestRead ==
    ASSUME NEW scan \in Scan, NEW manifest, NEW in_linker \in BOOLEAN
    PROVE  LET read == ReadManifest(scan, manifest, in_linker) IN
           /\ read \in Scan
           /\ read.libs <= scan.libs
           /\ scan.libs <= 1 => read.libs = scan.libs
           /\ read.found_json <=> scan.found_json \/ HasIcd(manifest)
           /\ read.found_this_lib <=>
                 scan.found_this_lib \/ LibraryFound(manifest, scan.libs, in_linker)
           /\ read.found_lib <=> scan.found_lib \/ (HasIcd(manifest) /\ read.found_this_lib)
<1> DEFINE cuts == HasBareName(manifest) /\ manifest # "system" /\ scan.libs > 0
           lib == \/ scan.found_this_lib
                  \/ manifest \in {"beside", "system"}
                  \/ InLibraryPath(manifest, scan.libs)
                  \/ manifest = "linker" /\ in_linker
           icd == HasIcd(manifest)
           libs == IF cuts THEN AtMostOne(scan.libs) ELSE scan.libs
           script == scan.script \o Row \o Row
           read == ReadManifest(scan, manifest, in_linker)
<1>1. /\ scan.libs \in Nat /\ scan.script \in Rows /\ scan.found_json \in BOOLEAN
      /\ scan.found_this_lib \in BOOLEAN /\ scan.found_lib \in BOOLEAN /\ scan.cut \in BOOLEAN
  BY DEF Scan
<1>2. read = [scan EXCEPT !.script = script, !.found_json = scan.found_json \/ icd,
                          !.found_this_lib = lib,
                          !.found_lib = scan.found_lib \/ (icd /\ lib),
                          !.libs = libs, !.cut = scan.cut \/ cuts]
  BY Zenon DEF ReadManifest
<1>3. libs \in Nat /\ libs <= scan.libs /\ (scan.libs <= 1 => libs = scan.libs)
  BY <1>1 DEF AtMostOne
<1>4. script \in Rows
  BY <1>1, RowsTogether
<1>5. lib \in BOOLEAN /\ icd \in BOOLEAN /\ cuts \in BOOLEAN
  BY <1>1, Zenon DEF HasIcd, HasBareName, InLibraryPath
<1>6. lib <=> scan.found_this_lib \/ LibraryFound(manifest, scan.libs, in_linker)
  BY Zenon DEF LibraryFound
<1> HIDE DEF cuts, lib, icd, libs, script, read
<1>7. /\ read \in Scan
      /\ read.libs = libs /\ (read.found_json <=> scan.found_json \/ icd)
      /\ read.found_this_lib = lib /\ (read.found_lib <=> scan.found_lib \/ (icd /\ lib))
  BY <1>1, <1>2, <1>3, <1>4, <1>5 DEF Scan
<1> QED
  BY <1>3, <1>6, <1>7 DEF read, icd

\* A fold of ReadManifest, for each of the three systems.
ReadAll(scan, manifests, in_linker) ==
    (CHOOSE iter : iter = [s \in SUBSET DOMAIN manifests |->
        IF s = {} THEN scan
        ELSE ReadManifest(iter[s \ {Max(s)}], manifests[Max(s)], in_linker)])[DOMAIN manifests]

LEMMA ManifestsReadInStages ==
    ASSUME NEW scan \in Scan, NEW manifests \in Seq(Manifests), NEW in_linker \in BOOLEAN
    PROVE  \E stages :
              /\ stages[0] = scan
              /\ \A k \in 1..Len(manifests) :
                    stages[k] = ReadManifest(stages[k - 1], manifests[k], in_linker)
              /\ ReadAll(scan, manifests, in_linker) = stages[Len(manifests)]
<1> DEFINE n == Len(manifests)
           table == [p \in Scan \X (1..n) |-> ReadManifest(p[1], manifests[p[2]], in_linker)]
           chosen == CHOOSE iter : iter = [s \in SUBSET DOMAIN manifests |->
                         IF s = {} THEN scan
                         ELSE ReadManifest(iter[s \ {Max(s)}], manifests[Max(s)], in_linker)]
           stages == [k \in 0..n |-> chosen[1..k]]
<1>1. n \in Nat /\ DOMAIN manifests = 1..n
  OBVIOUS
<1>2. table \in [Scan \X (1..n) -> Scan]
  <2>1. \A p \in Scan \X (1..n) : ReadManifest(p[1], manifests[p[2]], in_linker) \in Scan
    BY ManifestRead
  <2> QED
    BY <2>1
<1>3. PICK fold : Folding(fold, n, scan, table) /\ \A s \in SUBSET (1..n) : fold[s] \in Scan
  <2> HIDE DEF table, n
  <2> QED
    BY <1>1, <1>2, TypedFolding
<1>4. \A s \in SUBSET (1..n) : s # {} => Max(s) \in 1..n /\ fold[s \ {Max(s)}] \in Scan
  <2> HIDE DEF n
  <2> QED
    BY <1>1, <1>3, MaxInRange
<1>5. \A s \in SUBSET (1..n) :
         s # {} => table[<<fold[s \ {Max(s)}], Max(s)>>]
                     = ReadManifest(fold[s \ {Max(s)}], manifests[Max(s)], in_linker)
  BY <1>4
<1>6. fold = [s \in SUBSET DOMAIN manifests |->
                 IF s = {} THEN scan
                 ELSE ReadManifest(fold[s \ {Max(s)}], manifests[Max(s)], in_linker)]
  <2> HIDE DEF table, n
  <2> QED
    BY <1>1, <1>3, <1>5 DEF Folding
<1>7. chosen = [s \in SUBSET DOMAIN manifests |->
                   IF s = {} THEN scan
                   ELSE ReadManifest(chosen[s \ {Max(s)}], manifests[Max(s)], in_linker)]
  BY <1>6
<1>8. ReadAll(scan, manifests, in_linker) = chosen[DOMAIN manifests]
  BY DEF ReadAll
<1> HIDE DEF chosen, table
<1>9. stages[0] = scan
  <2>1. 1..0 = {} /\ 0 \in 0..n
    BY <1>1
  <2> QED
    BY <1>1, <1>7, <2>1
<1>10. ASSUME NEW k \in 1..n
       PROVE  stages[k] = ReadManifest(stages[k - 1], manifests[k], in_linker)
  <2>1. /\ Max(1..k) = k /\ (1..k) \ {k} = 1..(k - 1)
        /\ 1..k # {} /\ 1..k \in SUBSET (1..n)
    <3> HIDE DEF n
    <3> QED
      BY <1>1, Intervals
  <2>2. chosen[1..k] = ReadManifest(chosen[1..(k - 1)], manifests[k], in_linker)
    <3> HIDE DEF n
    <3> QED
      BY <1>1, <1>7, <2>1
  <2>3. k \in 0..n /\ k - 1 \in 0..n
    BY <1>1
  <2> QED
    BY <2>2, <2>3
<1>11. stages[n] = ReadAll(scan, manifests, in_linker)
  BY <1>1, <1>8
<1> HIDE DEF stages
<1> QED
  BY <1>9, <1>10, <1>11

\* What a scan knows after the manifests of a set were read.
Finds(scan, read, manifests, in_linker) ==
    /\ read \in Scan /\ read.libs <= scan.libs
    /\ scan.libs <= 1 /\ (scan.found_lib <=> scan.found_this_lib) =>
          /\ read.libs = scan.libs
          /\ read.found_lib <=> read.found_this_lib
          /\ read.found_lib <=>
                scan.found_lib \/ \E m \in manifests : LibraryFound(m, scan.libs, in_linker)
          /\ read.found_json <=> scan.found_json \/ \E m \in manifests : HasIcd(m)

LEMMA FindsNothing ==
    ASSUME NEW scan \in Scan, NEW in_linker
    PROVE  Finds(scan, scan, {}, in_linker)
<1>1. scan.libs \in Nat /\ scan.libs <= scan.libs
  BY DEF Scan
<1> QED
  BY <1>1 DEF Finds

LEMMA FindsMore ==
    ASSUME NEW scan \in Scan, NEW read, NEW manifests, NEW manifest, NEW in_linker \in BOOLEAN,
           Finds(scan, read, manifests, in_linker)
    PROVE  Finds(scan, ReadManifest(read, manifest, in_linker), manifests \cup {manifest}, in_linker)
<1> DEFINE next == ReadManifest(read, manifest, in_linker)
           all == manifests \cup {manifest}
           found(m) == LibraryFound(m, scan.libs, in_linker)
<1>1. read \in Scan /\ read.libs <= scan.libs
  BY DEF Finds
<1>2. /\ next \in Scan /\ next.libs <= read.libs
      /\ read.libs <= 1 => next.libs = read.libs
      /\ next.found_json <=> read.found_json \/ HasIcd(manifest)
      /\ next.found_this_lib <=>
            read.found_this_lib \/ LibraryFound(manifest, read.libs, in_linker)
      /\ next.found_lib <=> read.found_lib \/ (HasIcd(manifest) /\ next.found_this_lib)
  BY <1>1, ManifestRead
<1>3. read.libs \in Nat /\ scan.libs \in Nat /\ next.libs \in Nat
  BY <1>1, <1>2 DEF Scan
<1>4. /\ (\E m \in all : found(m)) <=> (\E m \in manifests : found(m)) \/ found(manifest)
      /\ (\E m \in all : HasIcd(m)) <=> (\E m \in manifests : HasIcd(m)) \/ HasIcd(manifest)
  <2> HIDE DEF found
  <2> QED
    OBVIOUS
<1>5. LibraryFound(manifest, read.libs, in_linker) => HasIcd(manifest)
  BY LibrariesHaveIcd
<1> HIDE DEF next
<1>6. ASSUME scan.libs <= 1, scan.found_lib <=> scan.found_this_lib
      PROVE  /\ next.libs = scan.libs
             /\ next.found_lib <=> next.found_this_lib
             /\ next.found_lib <=> scan.found_lib \/ \E m \in all : found(m)
             /\ next.found_json <=> scan.found_json \/ \E m \in all : HasIcd(m)
  <2>1. /\ read.libs = scan.libs
        /\ read.found_lib <=> read.found_this_lib
        /\ read.found_lib <=> scan.found_lib \/ \E m \in manifests : found(m)
        /\ read.found_json <=> scan.found_json \/ \E m \in manifests : HasIcd(m)
    BY <1>6 DEF Finds
  <2>2. next.libs = scan.libs
    BY <1>2, <1>6, <2>1
  <2>3. next.found_this_lib <=> read.found_this_lib \/ found(manifest)
    BY <1>2, <2>1
  <2>4. found(manifest) => HasIcd(manifest)
    BY <1>5, <2>1
  <2> HIDE DEF found, all
  <2>5. next.found_lib <=> next.found_this_lib
    BY <1>2, <2>1, <2>3, <2>4, Zenon
  <2>6. next.found_lib <=> scan.found_lib \/ \E m \in all : found(m)
    BY <1>4, <2>1, <2>3, <2>5, Zenon
  <2>7. next.found_json <=> scan.found_json \/ \E m \in all : HasIcd(m)
    BY <1>2, <1>4, <2>1, Zenon
  <2> QED
    BY <2>2, <2>5, <2>6, <2>7
<1>7. next \in Scan /\ next.libs <= scan.libs
  BY <1>1, <1>2, <1>3
<1> HIDE DEF all
<1> QED
  BY <1>6, <1>7, Zenon DEF Finds, next, all

LEMMA FindsBoth ==
    ASSUME NEW scan \in Scan, NEW read, NEW last, NEW first, NEW second, NEW in_linker,
           Finds(scan, read, first, in_linker), Finds(read, last, second, in_linker)
    PROVE  Finds(scan, last, first \cup second, in_linker)
<1> DEFINE all == first \cup second
           found(m) == LibraryFound(m, scan.libs, in_linker)
<1>1. read \in Scan /\ read.libs <= scan.libs /\ last \in Scan /\ last.libs <= read.libs
  BY DEF Finds
<1>2. read.libs \in Nat /\ scan.libs \in Nat /\ last.libs \in Nat
  BY <1>1 DEF Scan
<1>3. last.libs <= scan.libs
  BY <1>1, <1>2
<1>4. /\ (\E m \in all : found(m)) <=> (\E m \in first : found(m)) \/ \E m \in second : found(m)
      /\ (\E m \in all : HasIcd(m)) <=> (\E m \in first : HasIcd(m)) \/ \E m \in second : HasIcd(m)
  <2> HIDE DEF found
  <2> QED
    OBVIOUS
<1>5. ASSUME scan.libs <= 1, scan.found_lib <=> scan.found_this_lib
      PROVE  /\ last.libs = scan.libs
             /\ last.found_lib <=> last.found_this_lib
             /\ last.found_lib <=> scan.found_lib \/ \E m \in all : found(m)
             /\ last.found_json <=> scan.found_json \/ \E m \in all : HasIcd(m)
  <2>1. /\ read.libs = scan.libs
        /\ read.found_lib <=> read.found_this_lib
        /\ read.found_lib <=> scan.found_lib \/ \E m \in first : found(m)
        /\ read.found_json <=> scan.found_json \/ \E m \in first : HasIcd(m)
    BY <1>5 DEF Finds
  <2>2. /\ last.libs = scan.libs
        /\ last.found_lib <=> last.found_this_lib
        /\ last.found_lib <=> read.found_lib \/ \E m \in second : found(m)
        /\ last.found_json <=> read.found_json \/ \E m \in second : HasIcd(m)
    BY <1>5, <2>1, Zenon DEF Finds
  <2> HIDE DEF found, all
  <2> QED
    BY <1>4, <2>1, <2>2, Zenon
<1> HIDE DEF all
<1> QED
  BY <1>1, <1>3, <1>5, Zenon DEF Finds, all

LEMMA AllRead ==
    ASSUME NEW scan \in Scan, NEW manifests \in Seq(Manifests), NEW in_linker \in BOOLEAN
    PROVE  Finds(scan, ReadAll(scan, manifests, in_linker), Range(manifests), in_linker)
<1>1. PICK stages : /\ stages[0] = scan
                    /\ \A k \in 1..Len(manifests) :
                          stages[k] = ReadManifest(stages[k - 1], manifests[k], in_linker)
                    /\ ReadAll(scan, manifests, in_linker) = stages[Len(manifests)]
  BY ManifestsReadInStages
<1> DEFINE n == Len(manifests)
           first(k) == {manifests[i] : i \in 1..k}
           So(k) == Finds(scan, stages[k], first(k), in_linker)
           Known == {k \in Nat : k <= n => So(k)}
<1>2. n \in Nat
  OBVIOUS
<1>3. So(0)
  <2>1. first(0) = {}
    OBVIOUS
  <2> QED
    BY <1>1, <2>1, FindsNothing
<1>4. ASSUME NEW k \in Nat, So(k), k + 1 <= n
      PROVE  So(k + 1)
  <2>1. k + 1 \in 1..n /\ (k + 1) - 1 = k
    BY <1>2, <1>4
  <2>2. stages[k + 1] = ReadManifest(stages[k], manifests[k + 1], in_linker)
    BY <1>1, <2>1
  <2>3. first(k + 1) = first(k) \cup {manifests[k + 1]}
    <3>1. \A i : i \in 1..(k + 1) <=> i \in 1..k \/ i = k + 1
      OBVIOUS
    <3> QED
      BY <3>1
  <2> HIDE DEF first
  <2> QED
    BY <1>4, <2>2, <2>3, FindsMore
<1> HIDE DEF So
<1>5. \A k \in Nat : k \in Known => k + 1 \in Known
  <2> SUFFICES ASSUME NEW k \in Nat, k \in Known, k + 1 <= n
               PROVE  So(k + 1)
    OBVIOUS
  <2>1. So(k)
    BY <1>2
  <2> QED
    BY <1>4, <2>1
<1>6. So(n)
  <2>1. 0 \in Known
    BY <1>3
  <2>2. n \in Known
    <3> HIDE DEF Known, n
    <3> QED
      BY <1>2, <1>5, <2>1, InductionOnSet
  <2> QED
    BY <1>2, <2>2
<1>7. first(n) = Range(manifests)
  BY DEF Range
<1> QED
  BY <1>1, <1>6, <1>7 DEF So

(***************************************************************************)
(* The step of the drivers, the same on the three systems but for whether  *)
(* the dynamic linker is asked.                                            *)
(***************************************************************************)
FilesScanned(e, drivers, in_linker) ==
    LET folders == ReadAll(NothingFound(e.libs), FlattenSeq(drivers \o e.drivers), in_linker)
    IN [k \in 0..Len(e.icds) |->
           ReadAll([folders EXCEPT !.cut = FALSE], SubSeq(e.icds, 1, k), in_linker)]

LEMMA LinuxDrivers ==
    \A e, drivers : Linux!PrintSystemDriverInfo(e, drivers)
                      = DriverInfo(e, FilesScanned(e, drivers, TRUE))
<1>1. \A base, manifests :
         Linux!FoldLeft(Linux!ReadDriverJson, base, manifests) = ReadAll(base, manifests, TRUE)
  BY DEF Linux!FoldLeft, Linux!MapThenFoldSet, Linux!ReadDriverJson, Linux!ReadManifest,
         Linux!Max, Linux!Row, Linux!HasBareName, Linux!HasIcd, Linux!InLibraryPath,
         Linux!AtMostOne, ReadAll, ReadManifest, Max, Row, HasBareName, HasIcd, InLibraryPath,
         AtMostOne
<1>2. \A lists : Linux!FlattenSeq(lists) = FlattenSeq(lists)
  BY DEF Linux!FlattenSeq, FlattenSeq
<1>3. \A e, scans : Linux!DriverInfo(e, scans) = DriverInfo(e, scans)
  BY DEF Linux!DriverInfo, Linux!FilesRead, Linux!Max, Linux!Min, Linux!Table, Linux!Row,
         Linux!FirstOnly, DriverInfo, FilesRead, Max, Min, Table, Row, FirstOnly
<1>4. \A libs : Linux!NothingFound(libs) = NothingFound(libs)
  BY DEF Linux!NothingFound, NothingFound
<1> SUFFICES ASSUME NEW e, NEW drivers
             PROVE  Linux!PrintSystemDriverInfo(e, drivers)
                      = DriverInfo(e, FilesScanned(e, drivers, TRUE))
  OBVIOUS
<1>5. Linux!PrintSystemDriverInfo(e, drivers) =
        Linux!DriverInfo(e, [k \in 0..Len(e.icds) |->
            Linux!FoldLeft(Linux!ReadDriverJson,
                [Linux!FoldLeft(Linux!ReadDriverJson, Linux!NothingFound(e.libs),
                                Linux!FlattenSeq(drivers \o e.drivers)) EXCEPT !.cut = FALSE],
                SubSeq(e.icds, 1, k))])
  BY DEF Linux!PrintSystemDriverInfo
<1> QED
  BY <1>1, <1>2, <1>3, <1>4, <1>5, Zenon DEF FilesScanned

LEMMA BSDDrivers ==
    \A e, drivers : BSD!PrintSystemDriverInfo(e, drivers)
                      = DriverInfo(e, FilesScanned(e, drivers, FALSE))
<1>1. \A base, manifests :
         BSD!FoldLeft(BSD!ReadDriverJson, base, manifests) = ReadAll(base, manifests, FALSE)
  BY DEF BSD!FoldLeft, BSD!MapThenFoldSet, BSD!ReadDriverJson, BSD!ReadManifest,
         BSD!Max, BSD!Row, BSD!HasBareName, BSD!HasIcd, BSD!InLibraryPath,
         BSD!AtMostOne, ReadAll, ReadManifest, Max, Row, HasBareName, HasIcd, InLibraryPath,
         AtMostOne
<1>2. \A lists : BSD!FlattenSeq(lists) = FlattenSeq(lists)
  BY DEF BSD!FlattenSeq, FlattenSeq
<1>3. \A e, scans : BSD!DriverInfo(e, scans) = DriverInfo(e, scans)
  BY DEF BSD!DriverInfo, BSD!FilesRead, BSD!Max, BSD!Min, BSD!Table, BSD!Row,
         BSD!FirstOnly, DriverInfo, FilesRead, Max, Min, Table, Row, FirstOnly
<1>4. \A libs : BSD!NothingFound(libs) = NothingFound(libs)
  BY DEF BSD!NothingFound, NothingFound
<1> SUFFICES ASSUME NEW e, NEW drivers
             PROVE  BSD!PrintSystemDriverInfo(e, drivers)
                      = DriverInfo(e, FilesScanned(e, drivers, FALSE))
  OBVIOUS
<1>5. BSD!PrintSystemDriverInfo(e, drivers) =
        BSD!DriverInfo(e, [k \in 0..Len(e.icds) |->
            BSD!FoldLeft(BSD!ReadDriverJson,
                [BSD!FoldLeft(BSD!ReadDriverJson, BSD!NothingFound(e.libs),
                                BSD!FlattenSeq(drivers \o e.drivers)) EXCEPT !.cut = FALSE],
                SubSeq(e.icds, 1, k))])
  BY DEF BSD!PrintSystemDriverInfo
<1> QED
  BY <1>1, <1>2, <1>3, <1>4, <1>5, Zenon DEF FilesScanned

LEMMA MacosDrivers ==
    \A e, drivers : Macos!PrintSystemDriverInfo(e, drivers)
                      = DriverInfo(e, FilesScanned(e, drivers, TRUE))
<1>1. \A base, manifests :
         Macos!FoldLeft(Macos!ReadDriverJson, base, manifests) = ReadAll(base, manifests, TRUE)
  BY DEF Macos!FoldLeft, Macos!MapThenFoldSet, Macos!ReadDriverJson, Macos!ReadManifest,
         Macos!Max, Macos!Row, Macos!HasBareName, Macos!HasIcd, Macos!InLibraryPath,
         Macos!AtMostOne, ReadAll, ReadManifest, Max, Row, HasBareName, HasIcd, InLibraryPath,
         AtMostOne
<1>2. \A lists : Macos!FlattenSeq(lists) = FlattenSeq(lists)
  BY DEF Macos!FlattenSeq, FlattenSeq
<1>3. \A e, scans : Macos!DriverInfo(e, scans) = DriverInfo(e, scans)
  BY DEF Macos!DriverInfo, Macos!FilesRead, Macos!Max, Macos!Min, Macos!Table, Macos!Row,
         Macos!FirstOnly, DriverInfo, FilesRead, Max, Min, Table, Row, FirstOnly
<1>4. \A libs : Macos!NothingFound(libs) = NothingFound(libs)
  BY DEF Macos!NothingFound, NothingFound
<1> SUFFICES ASSUME NEW e, NEW drivers
             PROVE  Macos!PrintSystemDriverInfo(e, drivers)
                      = DriverInfo(e, FilesScanned(e, drivers, TRUE))
  OBVIOUS
<1>5. Macos!PrintSystemDriverInfo(e, drivers) =
        Macos!DriverInfo(e, [k \in 0..Len(e.icds) |->
            Macos!FoldLeft(Macos!ReadDriverJson,
                [Macos!FoldLeft(Macos!ReadDriverJson, Macos!NothingFound(e.libs),
                                Macos!FlattenSeq(drivers \o e.drivers)) EXCEPT !.cut = FALSE],
                SubSeq(e.icds, 1, k))])
  BY DEF Macos!PrintSystemDriverInfo
<1> QED
  BY <1>1, <1>2, <1>3, <1>4, <1>5, Zenon DEF FilesScanned

Environment == [icds : Seq(Manifests), drivers : Seq(Seq(Manifests)), libs : Nat,
                layers : Seq(STRING)]

\* A list that was cut, and one that was not.
LEMMA CutShort ==
    ASSUME NEW E, NEW list \in Seq(E)
    PROVE  /\ FirstOnly(list) \in Seq(E)
           /\ IsPrefix(FirstOnly(list), list) /\ IsPrefix(list, list)
<1> DEFINE n == IF list = << >> THEN 0 ELSE 1
<1>1. Len(list) \in Nat /\ n \in Nat /\ n <= Len(list)
  OBVIOUS
<1>2. FirstOnly(list) = SubSeq(list, 1, n)
  BY DEF FirstOnly
<1> HIDE DEF n
<1> DEFINE cut == SubSeq(list, 1, n)
<1>3. cut \in Seq(E) /\ Len(cut) = n /\ \A i \in 1..n : cut[i] = list[i]
  BY <1>1
<1>4. SubSeq(cut, 1, n) = cut
  BY <1>3
<1>5. IsPrefix(cut, list)
  <2> HIDE DEF cut
  <2>1. SubSeq(cut, 1, Len(cut)) = SubSeq(list, 1, Len(cut))
    BY <1>3, <1>4 DEF cut
  <2> QED
    BY <1>1, <1>3, <2>1 DEF IsPrefix
<1>6. IsPrefix(list, list)
  BY <1>1 DEF IsPrefix
<1> QED
  BY <1>2, <1>3, <1>5, <1>6

\* The files of VK_ICD_FILENAMES that are read, among those that are named.
LEMMA FilesAreRead ==
    ASSUME NEW n \in Nat, NEW scans, DOMAIN scans = 0..n
    PROVE  /\ FilesRead(scans) \in 0..n
           /\ n <= 1 /\ ~scans[0].cut => FilesRead(scans) = n
<1> DEFINE lost == {k \in 0..n : scans[k].cut}
<1>1. CASE lost = {}
  <2>1. FilesRead(scans) = Max(0..n)
    BY <1>1 DEF FilesRead
  <2>2. n \in 0..n /\ 0..n \in SUBSET Nat /\ \A m \in 0..n : m <= n
    OBVIOUS
  <2>3. Max(0..n) = n
    BY <2>2, MaxIs
  <2> QED
    BY <2>1, <2>2, <2>3
<1>2. CASE lost # {}
  <2>1. lost \in SUBSET Nat
    OBVIOUS
  <2>2. PICK least \in lost : \A number \in lost : least <= number
    <3> HIDE DEF lost
    <3> QED
      BY <1>2, <2>1, LeastNumber
  <2>3. FilesRead(scans) = Min(lost)
    BY <1>2 DEF FilesRead
  <2>4. \A number \in lost : number \in Nat /\ least \in Nat /\ least =< number
    BY <2>1, <2>2
  <2>5. Min(lost) \in lost
    <3> HIDE DEF lost
    <3> QED
      BY <2>2, <2>4 DEF Min
  <2>6. n <= 1 /\ ~scans[0].cut => Min(lost) = n
    BY <2>5
  <2> QED
    BY <2>3, <2>5, <2>6
<1> QED
  BY <1>1, <1>2

LEMMA CutCleared ==
    ASSUME NEW scan \in Scan
    PROVE  LET clear == [scan EXCEPT !.cut = FALSE] IN
           /\ clear \in Scan /\ ~clear.cut /\ clear.libs = scan.libs
           /\ clear.found_json = scan.found_json /\ clear.found_lib = scan.found_lib
           /\ clear.found_this_lib = scan.found_this_lib
BY DEF Scan

\* What is found when everything was read.
LEMMA EverythingRead ==
    ASSUME NEW e \in Environment, NEW drivers \in Seq(Seq(Manifests)), NEW in_linker \in BOOLEAN
    PROVE  LET scans == FilesScanned(e, drivers, in_linker)
               scan == scans[FilesRead(scans)]
               named == (UNION {Range((drivers \o e.drivers)[k]) : k \in DOMAIN (drivers \o e.drivers)})
                        \cup Range(e.icds)
           IN /\ scan \in Scan /\ scan.libs <= e.libs
              /\ e.libs <= 1 /\ Len(e.icds) <= 1 =>
                    (scan.found_json /\ scan.found_lib <=>
                        \E m \in named : LibraryFound(m, e.libs, in_linker))
<1> DEFINE base == NothingFound(e.libs)
           lists == drivers \o e.drivers
           all == FlattenSeq(lists)
           folders == ReadAll(base, all, in_linker)
           clear == [folders EXCEPT !.cut = FALSE]
           n == Len(e.icds)
           read(k) == SubSeq(e.icds, 1, k)
           scans == FilesScanned(e, drivers, in_linker)
           f == FilesRead(scans)
           scan == scans[f]
           inFolders == UNION {Range(lists[k]) : k \in DOMAIN lists}
<1>1. /\ e.libs \in Nat /\ e.icds \in Seq(Manifests) /\ n \in Nat
      /\ lists \in Seq(Seq(Manifests))
  BY DEF Environment
<1>2. /\ base \in Scan /\ base.libs = e.libs
      /\ ~base.found_lib /\ ~base.found_this_lib /\ ~base.found_json
  BY <1>1, RowsTogether DEF NothingFound, Scan
<1>3. all \in Seq(Manifests) /\ Range(all) = inFolders
  <2> HIDE DEF lists
  <2> QED
    BY <1>1, Flattened
<1>4. scans = [k \in 0..n |-> ReadAll(clear, read(k), in_linker)]
  BY DEF FilesScanned
<1> HIDE DEF base, lists, all, scans, inFolders
<1>5. Finds(base, folders, inFolders, in_linker)
  BY <1>2, <1>3, AllRead
<1>6. folders \in Scan
  BY <1>5 DEF Finds
<1> HIDE DEF folders
<1>7. /\ clear \in Scan /\ ~clear.cut /\ clear.libs = folders.libs
      /\ clear.found_json = folders.found_json /\ clear.found_lib = folders.found_lib
      /\ clear.found_this_lib = folders.found_this_lib
  BY <1>6, CutCleared
<1> HIDE DEF clear
<1>8. Finds(base, clear, inFolders, in_linker)
  BY <1>5, <1>7, Zenon DEF Finds
<1>9. DOMAIN scans = 0..n
  BY <1>4
<1>10. \A k \in 0..n : read(k) \in Seq(Manifests) /\ Len(read(k)) = k
  BY <1>1
<1>11. ~scans[0].cut
  <2>1. 0 \in 0..n
    BY <1>1
  <2>2. read(0) \in Seq(Manifests) /\ Len(read(0)) = 0
    BY <1>10, <2>1
  <2> HIDE DEF read
  <2>3. scans[0] = ReadAll(clear, read(0), in_linker)
    BY <1>4, <2>1
  <2>4. \E stages : stages[0] = clear /\ ReadAll(clear, read(0), in_linker) = stages[Len(read(0))]
    BY <1>7, <2>2, ManifestsReadInStages
  <2> QED
    BY <1>7, <2>2, <2>3, <2>4
<1>12. f \in 0..n /\ (n <= 1 => f = n)
  <2> HIDE DEF n
  <2> QED
    BY <1>1, <1>9, <1>11, FilesAreRead
<1> HIDE DEF f
<1>13. Finds(clear, scan, Range(read(f)), in_linker)
  <2>1. scan = ReadAll(clear, read(f), in_linker) /\ read(f) \in Seq(Manifests)
    BY <1>4, <1>10, <1>12
  <2> HIDE DEF read, scan
  <2> QED
    BY <1>7, <2>1, AllRead
<1> HIDE DEF scan, n
<1> DEFINE known == inFolders \cup Range(read(f))
<1>14. Finds(base, scan, known, in_linker)
  <2> HIDE DEF read
  <2> QED
    BY <1>2, <1>8, <1>13, FindsBoth
<1>15. scan \in Scan /\ scan.libs <= e.libs
  BY <1>2, <1>14 DEF Finds
<1>16. ASSUME e.libs <= 1, n <= 1
       PROVE  scan.found_json /\ scan.found_lib <=>
                 \E m \in inFolders \cup Range(e.icds) : LibraryFound(m, e.libs, in_linker)
  <2>1. read(f) = e.icds
    BY <1>1, <1>12, <1>16 DEF n
  <2> HIDE DEF read, known
  <2>2. /\ scan.found_lib <=> \E m \in known : LibraryFound(m, e.libs, in_linker)
        /\ scan.found_json <=> \E m \in known : HasIcd(m)
    BY <1>2, <1>14, <1>16 DEF Finds
  <2>3. \A m \in known : LibraryFound(m, e.libs, in_linker) => HasIcd(m)
    BY LibrariesHaveIcd
  <2>4. known = inFolders \cup Range(e.icds)
    BY <2>1 DEF known
  <2> QED
    BY <2>2, <2>3, <2>4, Zenon
<1> QED
  BY <1>15, <1>16, Zenon DEF scan, f, n, scans, inFolders, lists

\* The step: its table, its verdict and the environment after it.
LEMMA DriverStep ==
    ASSUME NEW e \in Environment, NEW drivers \in Seq(Seq(Manifests)), NEW in_linker \in BOOLEAN
    PROVE  LET info == DriverInfo(e, FilesScanned(e, drivers, in_linker))
               lists == drivers \o e.drivers
               named == (UNION {Range(lists[k]) : k \in DOMAIN lists}) \cup Range(e.icds)
           IN /\ IsTable(info.script) /\ info.result \in Results
              /\ info.env \in Environment
              /\ info.env.icds = FirstOnly(e.icds) /\ info.env.drivers = FirstOnly(e.drivers)
              /\ info.env.layers = e.layers /\ info.env.libs <= e.libs
              /\ e.libs <= 1 /\ Len(e.icds) <= 1 =>
                    (info.result = "SUCCESSFUL" <=>
                        \E m \in named : LibraryFound(m, e.libs, in_linker))
<1> DEFINE scans == FilesScanned(e, drivers, in_linker)
           scan == scans[FilesRead(scans)]
           info == DriverInfo(e, scans)
           lists == drivers \o e.drivers
           named == (UNION {Range(lists[k]) : k \in DOMAIN lists}) \cup Range(e.icds)
           Found == \E m \in named : LibraryFound(m, e.libs, in_linker)
<1>1. /\ scan \in Scan /\ scan.libs <= e.libs
      /\ e.libs <= 1 /\ Len(e.icds) <= 1 => (scan.found_json /\ scan.found_lib <=> Found)
  BY EverythingRead, Zenon
<1> HIDE DEF named, lists, Found
<1>2. /\ info.script = Table(Row \o scan.script)
      /\ info.result = (IF ~scan.found_json THEN "MISSING_DRIVER_JSON"
                        ELSE IF ~scan.found_lib THEN "MISSING_DRIVER_LIB" ELSE "SUCCESSFUL")
      /\ info.env = [e EXCEPT !.drivers = FirstOnly(e.drivers), !.icds = FirstOnly(e.icds),
                              !.libs = scan.libs]
  BY Zenon DEF DriverInfo
<1> HIDE DEF scan, info, scans
<1>3. IsTable(info.script)
  <2>1. Row \o scan.script \in Rows
    BY <1>1, RowsTogether DEF Scan
  <2> DEFINE rows == Row \o scan.script
  <2> HIDE DEF rows
  <2>2. rows \in Rows => IsTable(Table(rows))
    BY TableTyped
  <2> QED
    BY <1>2, <2>1, <2>2 DEF rows
<1>4. /\ info.result \in {"MISSING_DRIVER_JSON", "MISSING_DRIVER_LIB", "SUCCESSFUL"}
      /\ info.result = "SUCCESSFUL" <=> scan.found_json /\ scan.found_lib
  BY <1>2
<1>5. info.result \in Results
  BY <1>4, Zenon DEF Results
<1>6. /\ e.icds \in Seq(Manifests) /\ e.drivers \in Seq(Seq(Manifests)) /\ scan.libs \in Nat
  BY <1>1 DEF Environment, Scan
<1>7. FirstOnly(e.icds) \in Seq(Manifests) /\ FirstOnly(e.drivers) \in Seq(Seq(Manifests))
  BY <1>6, CutShort
<1>8. /\ info.env \in Environment
      /\ info.env.icds = FirstOnly(e.icds) /\ info.env.drivers = FirstOnly(e.drivers)
      /\ info.env.layers = e.layers /\ info.env.libs <= e.libs
  BY <1>1, <1>2, <1>6, <1>7 DEF Environment
<1>9. e.libs <= 1 /\ Len(e.icds) <= 1 => (info.result = "SUCCESSFUL" <=> Found)
  BY <1>1, <1>4, Zenon
<1> QED
  BY <1>3, <1>5, <1>8, <1>9, Zenon DEF info, scans, named, lists, Found

\* Windows reads the registry, then the files that are named.
WindowsRead(scan, manifest, registry) ==
    IF registry THEN Windows!PrintDriverRegistryInfo(scan, manifest)
    ELSE Windows!PrintDriverFile(scan, manifest)

LEMMA WindowsReadTyped ==
    ASSUME NEW scan \in Scan, NEW manifest, NEW registry \in BOOLEAN
    PROVE  WindowsRead(scan, manifest, registry) \in Scan
<1> DEFINE lib == scan.found_this_lib \/ manifest \in {"beside", "system"}
           icd == HasIcd(manifest)
           script == scan.script \o Row \o Row
           read == Windows!PrintDriverRegistryInfo(scan, manifest)
<1>1. script \in Rows
  BY RowsTogether DEF Scan
<1>2. lib \in BOOLEAN /\ icd \in BOOLEAN
  BY DEF Scan, HasIcd
<1>3. read = [scan EXCEPT !.script = script, !.found_json = scan.found_json \/ icd,
                          !.found_this_lib = lib, !.found_lib = scan.found_lib \/ (icd /\ lib)]
  BY Zenon DEF Windows!PrintDriverRegistryInfo, Windows!Row, Row, Windows!HasIcd, HasIcd
<1>4. /\ WindowsRead(scan, manifest, registry)
             \in {read, [read EXCEPT !.found_json = scan.found_json]}
  BY Zenon DEF WindowsRead, Windows!PrintDriverFile
<1> HIDE DEF lib, icd, script, read
<1>5. read \in Scan
  BY <1>1, <1>2, <1>3 DEF Scan
<1>6. [read EXCEPT !.found_json = scan.found_json] \in Scan
  BY <1>5 DEF Scan
<1> QED
  BY <1>4, <1>5, <1>6

WindowsReadAll(scan, manifests, registry) ==
    (CHOOSE iter : iter = [s \in SUBSET DOMAIN manifests |->
        IF s = {} THEN scan
        ELSE WindowsRead(iter[s \ {Max(s)}], manifests[Max(s)], registry)])[DOMAIN manifests]

LEMMA WindowsReadAllTyped ==
    ASSUME NEW scan \in Scan, NEW manifests \in Seq(Manifests), NEW registry \in BOOLEAN
    PROVE  WindowsReadAll(scan, manifests, registry) \in Scan
<1> DEFINE n == Len(manifests)
           table == [p \in Scan \X (1..n) |-> WindowsRead(p[1], manifests[p[2]], registry)]
           chosen == CHOOSE iter : iter = [s \in SUBSET DOMAIN manifests |->
                         IF s = {} THEN scan
                         ELSE WindowsRead(iter[s \ {Max(s)}], manifests[Max(s)], registry)]
           stages == [k \in 0..n |-> chosen[1..k]]
<1>1. n \in Nat /\ DOMAIN manifests = 1..n
  OBVIOUS
<1>2. table \in [Scan \X (1..n) -> Scan]
  <2>1. \A p \in Scan \X (1..n) : WindowsRead(p[1], manifests[p[2]], registry) \in Scan
    BY WindowsReadTyped
  <2> QED
    BY <2>1
<1>3. PICK fold : Folding(fold, n, scan, table) /\ \A s \in SUBSET (1..n) : fold[s] \in Scan
  <2> HIDE DEF table, n
  <2> QED
    BY <1>1, <1>2, TypedFolding
<1>4. \A s \in SUBSET (1..n) : s # {} => Max(s) \in 1..n /\ fold[s \ {Max(s)}] \in Scan
  <2> HIDE DEF n
  <2> QED
    BY <1>1, <1>3, MaxInRange
<1>5. \A s \in SUBSET (1..n) :
         s # {} => table[<<fold[s \ {Max(s)}], Max(s)>>]
                     = WindowsRead(fold[s \ {Max(s)}], manifests[Max(s)], registry)
  BY <1>4
<1>6. fold = [s \in SUBSET DOMAIN manifests |->
                 IF s = {} THEN scan
                 ELSE WindowsRead(fold[s \ {Max(s)}], manifests[Max(s)], registry)]
  <2> HIDE DEF table, n
  <2> QED
    BY <1>1, <1>3, <1>5 DEF Folding
<1>7. chosen = [s \in SUBSET DOMAIN manifests |->
                   IF s = {} THEN scan
                   ELSE WindowsRead(chosen[s \ {Max(s)}], manifests[Max(s)], registry)]
  BY <1>6
<1>8. WindowsReadAll(scan, manifests, registry) = chosen[1..n]
  BY <1>1 DEF WindowsReadAll
<1> HIDE DEF chosen, table
<1> DEFINE Typed == {k \in Nat : k <= n => chosen[1..k] \in Scan}
<1>9. 0 \in Typed
  <2>1. 1..0 = {} /\ 1..0 \in SUBSET DOMAIN manifests
    OBVIOUS
  <2> QED
    BY <1>7, <2>1
<1>10. \A k \in Nat : k \in Typed => k + 1 \in Typed
  <2> SUFFICES ASSUME NEW k \in Nat, k \in Typed, k + 1 <= n
               PROVE  chosen[1..(k + 1)] \in Scan
    OBVIOUS
  <2>1. k + 1 \in 1..n /\ (k + 1) - 1 = k /\ k <= n
    BY <1>1
  <2>2. /\ Max(1..(k + 1)) = k + 1 /\ (1..(k + 1)) \ {k + 1} = 1..((k + 1) - 1)
        /\ 1..(k + 1) # {} /\ 1..(k + 1) \in SUBSET (1..n)
    <3> HIDE DEF n
    <3> QED
      BY <1>1, <2>1, Intervals
  <2>3. chosen[1..(k + 1)] = WindowsRead(chosen[1..k], manifests[k + 1], registry)
    <3> HIDE DEF n
    <3> QED
      BY <1>1, <1>7, <2>1, <2>2
  <2> QED
    BY <2>1, <2>3, WindowsReadTyped
<1>11. n \in Typed
  <2> HIDE DEF Typed, n
  <2> QED
    BY <1>1, <1>9, <1>10, InductionOnSet
<1> QED
  BY <1>1, <1>8, <1>11

LEMMA WindowsDrivers ==
    ASSUME NEW e \in Environment, NEW drivers \in Seq(Seq(Manifests))
    PROVE  LET info == Windows!PrintSystemDriverInfo(e, drivers) IN
           IsTable(info.script) /\ info.result \in Results /\ info.env = e
<1> DEFINE base == NothingFound(0)
           all == FlattenSeq(drivers \o e.drivers)
           listed == WindowsReadAll(base, all, TRUE)
           scan == WindowsReadAll(listed, e.icds, FALSE)
           info == Windows!PrintSystemDriverInfo(e, drivers)
<1>1. \A b, manifests : Windows!FoldLeft(Windows!PrintDriverRegistryInfo, b, manifests)
                          = WindowsReadAll(b, manifests, TRUE)
  BY Zenon DEF Windows!FoldLeft, Windows!MapThenFoldSet, Windows!Max, Max, WindowsReadAll, WindowsRead
<1>2. \A b, manifests : Windows!FoldLeft(Windows!PrintDriverFile, b, manifests)
                          = WindowsReadAll(b, manifests, FALSE)
  BY Zenon DEF Windows!FoldLeft, Windows!MapThenFoldSet, Windows!Max, Max, WindowsReadAll, WindowsRead
<1>3. /\ Windows!NothingFound(0) = base
      /\ \A lists : Windows!FlattenSeq(lists) = FlattenSeq(lists)
      /\ \A rows : Windows!Table(rows) = Table(rows)
      /\ Windows!Row = Row
  BY DEF Windows!NothingFound, NothingFound, Windows!FlattenSeq, FlattenSeq,
         Windows!Table, Table, Windows!Row, Row
<1>4. /\ info.script = Table(Row \o scan.script)
      /\ info.result = (IF ~scan.found_json THEN "MISSING_DRIVER_JSON"
                        ELSE IF ~scan.found_lib THEN "MISSING_DRIVER_LIB" ELSE "SUCCESSFUL")
      /\ info.env = e
  BY <1>1, <1>2, <1>3, Zenon DEF Windows!PrintSystemDriverInfo
<1>5. e.icds \in Seq(Manifests) /\ drivers \o e.drivers \in Seq(Seq(Manifests))
  BY DEF Environment
<1>6. all \in Seq(Manifests)
  BY <1>5, Flattened
<1>7. base \in Scan
  BY RowsTogether DEF NothingFound, Scan
<1> HIDE DEF base, all
<1>8. scan \in Scan
  BY <1>5, <1>6, <1>7, WindowsReadAllTyped
<1> HIDE DEF listed, scan, info
<1> DEFINE rows == Row \o scan.script
<1>9. rows \in Rows
  BY <1>8, RowsTogether DEF Scan
<1> HIDE DEF rows
<1>10. IsTable(info.script)
  BY <1>4, <1>9, TableTyped DEF rows
<1>11. info.result \in {"MISSING_DRIVER_JSON", "MISSING_DRIVER_LIB", "SUCCESSFUL"}
  BY <1>4
<1>12. info.result \in Results
  BY <1>11, Zenon DEF Results
<1> QED
  BY <1>4, <1>10, <1>12, Zenon DEF info

(***************************************************************************)
(* What the four systems have in common is the same in all of them.        *)
(***************************************************************************)
LEMMA LinuxNames ==
    /\ Linux!Row = Row /\ Linux!OpenRow = OpenRow
    /\ \A rows : Linux!Table(rows) = Table(rows)
    /\ \A seqs : Linux!FlattenSeq(seqs) = FlattenSeq(seqs)
    /\ \A manifest : Linux!GenerateExplicitLayerJsonInfo(manifest)
           = GenerateExplicitLayerJsonInfo(manifest)
    /\ \A layer : Linux!GenerateImplicitLayerJsonInfo(layer) = GenerateImplicitLayerJsonInfo(layer)
    /\ \A layers : Linux!GenerateSettingsFileJsonInfo(layers) = GenerateSettingsFileJsonInfo(layers)
    /\ \A manifests : Linux!LayerFolder(manifests) = LayerFolder(manifests)
    /\ \A layer : Linux!ImplicitLayers(layer) = ImplicitLayers(layer)
    /\ \A folder : Linux!RuntimesInFolder(folder) = RuntimesInFolder(folder)
    /\ \A infos, used, own : Linux!LoaderInfo(infos, used, own) = LoaderInfo(infos, used, own)
    /\ \A folders, e, standard :
          Linux!ExplicitLayers(folders, e, standard) = ExplicitLayers(folders, e, standard)
<1>1. /\ Linux!Row = Row /\ Linux!OpenRow = OpenRow
      /\ \A rows : Linux!Table(rows) = Table(rows)
  BY Zenon DEF Linux!Row, Row, Linux!OpenRow, OpenRow, Linux!Table, Table
<1>2. \A seqs : Linux!FlattenSeq(seqs) = FlattenSeq(seqs)
  BY DEF Linux!FlattenSeq, FlattenSeq
<1>3. \A manifest : Linux!GenerateExplicitLayerJsonInfo(manifest)
          = GenerateExplicitLayerJsonInfo(manifest)
  BY <1>1, Zenon DEF Linux!GenerateExplicitLayerJsonInfo, GenerateExplicitLayerJsonInfo
<1>4. \A layer : Linux!GenerateImplicitLayerJsonInfo(layer) = GenerateImplicitLayerJsonInfo(layer)
  BY <1>1, <1>3, Zenon DEF Linux!GenerateImplicitLayerJsonInfo, GenerateImplicitLayerJsonInfo
<1>5. \A layers : Linux!GenerateSettingsFileJsonInfo(layers) = GenerateSettingsFileJsonInfo(layers)
  BY <1>1, <1>2, Zenon DEF Linux!GenerateSettingsFileJsonInfo, GenerateSettingsFileJsonInfo
<1>6. \A manifests : Linux!LayerFolder(manifests) = LayerFolder(manifests)
  BY <1>1, <1>2, <1>3, Zenon DEF Linux!LayerFolder, LayerFolder
<1>7. \A layer : Linux!ImplicitLayers(layer) = ImplicitLayers(layer)
  BY <1>1, <1>4, Zenon DEF Linux!ImplicitLayers, ImplicitLayers
<1>8. \A folder : Linux!RuntimesInFolder(folder) = RuntimesInFolder(folder)
  BY <1>1, Zenon DEF Linux!RuntimesInFolder, RuntimesInFolder
<1>9. \A infos, used, own : Linux!LoaderInfo(infos, used, own) = LoaderInfo(infos, used, own)
  BY <1>1, <1>2, Zenon DEF Linux!LoaderInfo, LoaderInfo, Linux!RuntimeUsedScript, RuntimeUsedScript,
                          Linux!RuntimeFolders, RuntimeFolders
<1>10. \A folders, e, standard :
          Linux!ExplicitLayers(folders, e, standard) = ExplicitLayers(folders, e, standard)
  BY <1>1, <1>2, <1>6, Zenon DEF Linux!ExplicitLayers, ExplicitLayers, Linux!FirstOnly, FirstOnly
<1> QED
  BY <1>1, <1>2, <1>3, <1>4, <1>5, <1>6, <1>7, <1>8, <1>9, <1>10

LEMMA BSDNames ==
    /\ BSD!Row = Row /\ BSD!OpenRow = OpenRow
    /\ \A rows : BSD!Table(rows) = Table(rows)
    /\ \A seqs : BSD!FlattenSeq(seqs) = FlattenSeq(seqs)
    /\ \A manifest : BSD!GenerateExplicitLayerJsonInfo(manifest)
           = GenerateExplicitLayerJsonInfo(manifest)
    /\ \A layer : BSD!GenerateImplicitLayerJsonInfo(layer) = GenerateImplicitLayerJsonInfo(layer)
    /\ \A layers : BSD!GenerateSettingsFileJsonInfo(layers) = GenerateSettingsFileJsonInfo(layers)
    /\ \A manifests : BSD!LayerFolder(manifests) = LayerFolder(manifests)
    /\ \A layer : BSD!ImplicitLayers(layer) = ImplicitLayers(layer)
    /\ \A folder : BSD!RuntimesInFolder(folder) = RuntimesInFolder(folder)
    /\ \A infos, used, own : BSD!LoaderInfo(infos, used, own) = LoaderInfo(infos, used, own)
    /\ \A folders, e, standard :
          BSD!ExplicitLayers(folders, e, standard) = ExplicitLayers(folders, e, standard)
<1>1. /\ BSD!Row = Row /\ BSD!OpenRow = OpenRow
      /\ \A rows : BSD!Table(rows) = Table(rows)
  BY Zenon DEF BSD!Row, Row, BSD!OpenRow, OpenRow, BSD!Table, Table
<1>2. \A seqs : BSD!FlattenSeq(seqs) = FlattenSeq(seqs)
  BY DEF BSD!FlattenSeq, FlattenSeq
<1>3. \A manifest : BSD!GenerateExplicitLayerJsonInfo(manifest)
          = GenerateExplicitLayerJsonInfo(manifest)
  BY <1>1, Zenon DEF BSD!GenerateExplicitLayerJsonInfo, GenerateExplicitLayerJsonInfo
<1>4. \A layer : BSD!GenerateImplicitLayerJsonInfo(layer) = GenerateImplicitLayerJsonInfo(layer)
  BY <1>1, <1>3, Zenon DEF BSD!GenerateImplicitLayerJsonInfo, GenerateImplicitLayerJsonInfo
<1>5. \A layers : BSD!GenerateSettingsFileJsonInfo(layers) = GenerateSettingsFileJsonInfo(layers)
  BY <1>1, <1>2, Zenon DEF BSD!GenerateSettingsFileJsonInfo, GenerateSettingsFileJsonInfo
<1>6. \A manifests : BSD!LayerFolder(manifests) = LayerFolder(manifests)
  BY <1>1, <1>2, <1>3, Zenon DEF BSD!LayerFolder, LayerFolder
<1>7. \A layer : BSD!ImplicitLayers(layer) = ImplicitLayers(layer)
  BY <1>1, <1>4, Zenon DEF BSD!ImplicitLayers, ImplicitLayers
<1>8. \A folder : BSD!RuntimesInFolder(folder) = RuntimesInFolder(folder)
  BY <1>1, Zenon DEF BSD!RuntimesInFolder, RuntimesInFolder
<1>9. \A infos, used, own : BSD!LoaderInfo(infos, used, own) = LoaderInfo(infos, used, own)
  BY <1>1, <1>2, Zenon DEF BSD!LoaderInfo, LoaderInfo, BSD!RuntimeUsedScript, RuntimeUsedScript,
                          BSD!RuntimeFolders, RuntimeFolders
<1>10. \A folders, e, standard :
          BSD!ExplicitLayers(folders, e, standard) = ExplicitLayers(folders, e, standard)
  BY <1>1, <1>2, <1>6, Zenon DEF BSD!ExplicitLayers, ExplicitLayers, BSD!FirstOnly, FirstOnly
<1> QED
  BY <1>1, <1>2, <1>3, <1>4, <1>5, <1>6, <1>7, <1>8, <1>9, <1>10

LEMMA MacosNames ==
    /\ Macos!Row = Row /\ Macos!OpenRow = OpenRow
    /\ \A rows : Macos!Table(rows) = Table(rows)
    /\ \A seqs : Macos!FlattenSeq(seqs) = FlattenSeq(seqs)
    /\ \A manifest : Macos!GenerateExplicitLayerJsonInfo(manifest)
           = GenerateExplicitLayerJsonInfo(manifest)
    /\ \A layer : Macos!GenerateImplicitLayerJsonInfo(layer) = GenerateImplicitLayerJsonInfo(layer)
    /\ \A layers : Macos!GenerateSettingsFileJsonInfo(layers) = GenerateSettingsFileJsonInfo(layers)
    /\ \A manifests : Macos!LayerFolder(manifests) = LayerFolder(manifests)
    /\ \A layer : Macos!ImplicitLayers(layer) = ImplicitLayers(layer)
    /\ \A folder : Macos!RuntimesInFolder(folder) = RuntimesInFolder(folder)
    /\ \A infos, used, own : Macos!LoaderInfo(infos, used, own) = LoaderInfo(infos, used, own)
    /\ \A folders, e, standard :
          Macos!ExplicitLayers(folders, e, standard) = ExplicitLayers(folders, e, standard)
<1>1. /\ Macos!Row = Row /\ Macos!OpenRow = OpenRow
      /\ \A rows : Macos!Table(rows) = Table(rows)
  BY Zenon DEF Macos!Row, Row, Macos!OpenRow, OpenRow, Macos!Table, Table
<1>2. \A seqs : Macos!FlattenSeq(seqs) = FlattenSeq(seqs)
  BY DEF Macos!FlattenSeq, FlattenSeq
<1>3. \A manifest : Macos!GenerateExplicitLayerJsonInfo(manifest)
          = GenerateExplicitLayerJsonInfo(manifest)
  BY <1>1, Zenon DEF Macos!GenerateExplicitLayerJsonInfo, GenerateExplicitLayerJsonInfo
<1>4. \A layer : Macos!GenerateImplicitLayerJsonInfo(layer) = GenerateImplicitLayerJsonInfo(layer)
  BY <1>1, <1>3, Zenon DEF Macos!GenerateImplicitLayerJsonInfo, GenerateImplicitLayerJsonInfo
<1>5. \A layers : Macos!GenerateSettingsFileJsonInfo(layers) = GenerateSettingsFileJsonInfo(layers)
  BY <1>1, <1>2, Zenon DEF Macos!GenerateSettingsFileJsonInfo, GenerateSettingsFileJsonInfo
<1>6. \A manifests : Macos!LayerFolder(manifests) = LayerFolder(manifests)
  BY <1>1, <1>2, <1>3, Zenon DEF Macos!LayerFolder, LayerFolder
<1>7. \A layer : Macos!ImplicitLayers(layer) = ImplicitLayers(layer)
  BY <1>1, <1>4, Zenon DEF Macos!ImplicitLayers, ImplicitLayers
<1>8. \A folder : Macos!RuntimesInFolder(folder) = RuntimesInFolder(folder)
  BY <1>1, Zenon DEF Macos!RuntimesInFolder, RuntimesInFolder
<1>9. \A infos, used, own : Macos!LoaderInfo(infos, used, own) = LoaderInfo(infos, used, own)
  BY <1>1, <1>2, Zenon DEF Macos!LoaderInfo, LoaderInfo, Macos!RuntimeUsedScript, RuntimeUsedScript,
                          Macos!RuntimeFolders, RuntimeFolders
<1>10. \A folders, e, standard :
          Macos!ExplicitLayers(folders, e, standard) = ExplicitLayers(folders, e, standard)
  BY <1>1, <1>2, <1>6, Zenon DEF Macos!ExplicitLayers, ExplicitLayers, Macos!FirstOnly, FirstOnly
<1> QED
  BY <1>1, <1>2, <1>3, <1>4, <1>5, <1>6, <1>7, <1>8, <1>9, <1>10

LEMMA WindowsNames ==
    /\ Windows!Row = Row /\ Windows!OpenRow = OpenRow
    /\ \A rows : Windows!Table(rows) = Table(rows)
    /\ \A seqs : Windows!FlattenSeq(seqs) = FlattenSeq(seqs)
    /\ \A manifest : Windows!GenerateExplicitLayerJsonInfo(manifest)
           = GenerateExplicitLayerJsonInfo(manifest)
    /\ \A layer : Windows!GenerateImplicitLayerJsonInfo(layer)
           = GenerateImplicitLayerJsonInfo(layer)
    /\ \A layers : Windows!GenerateSettingsFileJsonInfo(layers)
           = GenerateSettingsFileJsonInfo(layers)
<1>1. /\ Windows!Row = Row /\ Windows!OpenRow = OpenRow
      /\ \A rows : Windows!Table(rows) = Table(rows)
  BY Zenon DEF Windows!Row, Row, Windows!OpenRow, OpenRow, Windows!Table, Table
<1>2. \A seqs : Windows!FlattenSeq(seqs) = FlattenSeq(seqs)
  BY DEF Windows!FlattenSeq, FlattenSeq
<1>3. \A manifest : Windows!GenerateExplicitLayerJsonInfo(manifest)
          = GenerateExplicitLayerJsonInfo(manifest)
  BY <1>1, Zenon DEF Windows!GenerateExplicitLayerJsonInfo, GenerateExplicitLayerJsonInfo
<1>4. \A layer : Windows!GenerateImplicitLayerJsonInfo(layer) = GenerateImplicitLayerJsonInfo(layer)
  BY <1>1, <1>3, Zenon DEF Windows!GenerateImplicitLayerJsonInfo, GenerateImplicitLayerJsonInfo
<1>5. \A layers : Windows!GenerateSettingsFileJsonInfo(layers)
          = GenerateSettingsFileJsonInfo(layers)
  BY <1>1, <1>2, Zenon DEF Windows!GenerateSettingsFileJsonInfo, GenerateSettingsFileJsonInfo
<1> QED
  BY <1>1, <1>2, <1>3, <1>4, <1>5

(***************************************************************************)
(* What the steps print and return, on each system and however the system  *)
(* answers.                                                                *)
(***************************************************************************)
Sound(outcome) ==
    (IsTable(outcome.script) \/ outcome.script = <<"text">>) /\ outcome.result \in Results
Typed(outcome) == outcome.script \in Seq(Pieces) /\ outcome.result \in Results

LEMMA SoundIsTyped == ASSUME NEW outcome, Sound(outcome) PROVE Typed(outcome)
<1>1. <<"text">> \in Seq(Pieces)
  BY DEF Pieces
<1>2. IsTable(outcome.script) => outcome.script \in Seq(Pieces)
  BY TableTyped DEF IsTable
<1> QED
  BY <1>1, <1>2, Zenon DEF Sound, Typed

LEMMA FewRows ==
    /\ IsTable(Table(Row)) /\ IsTable(Table(Row \o Row)) /\ IsTable(Table(Row \o Row \o Row))
    /\ IsTable(Table(Row \o Row \o Row \o Row))
<1>1. /\ Row \in Rows /\ Row \o Row \in Rows /\ Row \o Row \o Row \in Rows
      /\ Row \o Row \o Row \o Row \in Rows
  BY RowsTogether
<1> QED
  BY <1>1, TableTyped

LEMMA CommonResults ==
    /\ "SUCCESSFUL" \in Results /\ "SYSTEM_CALL_FAILURE" \in Results
    /\ "UNKNOWN_ERROR" \in Results /\ "VULKAN_CANT_FIND_RUNTIME" \in Results
BY Zenon DEF Results

LEMMA EnvironmentStep ==
    ASSUME NEW release, NEW uname
    PROVE  /\ Sound(Linux!PrintSystemEnvironmentInfo(release, uname))
           /\ Sound(BSD!PrintSystemEnvironmentInfo(uname))
           /\ Sound(Macos!PrintSystemEnvironmentInfo(release, uname))
           /\ Sound(Windows!PrintSystemEnvironmentInfo(release))
<1>1. Sound(Linux!PrintSystemEnvironmentInfo(release, uname))
  BY LinuxNames, FewRows, CommonResults, Zenon DEF Linux!PrintSystemEnvironmentInfo, Sound
<1>2. Sound(BSD!PrintSystemEnvironmentInfo(uname))
  BY BSDNames, FewRows, CommonResults, Zenon DEF BSD!PrintSystemEnvironmentInfo, Sound
<1>3. Sound(Macos!PrintSystemEnvironmentInfo(release, uname))
  BY MacosNames, FewRows, CommonResults, Zenon DEF Macos!PrintSystemEnvironmentInfo, Sound
<1>4. Sound(Windows!PrintSystemEnvironmentInfo(release))
  BY WindowsNames, FewRows, CommonResults, Zenon DEF Windows!PrintSystemEnvironmentInfo, Sound
<1> QED
  BY <1>1, <1>2, <1>3, <1>4

\* A free space in gigabytes leaves a row open on the BSDs.
LEMMA HardwareStep ==
    ASSUME NEW disk
    PROVE  /\ Sound(Linux!PrintSystemHardwareInfo(disk))
           /\ Typed(BSD!PrintSystemHardwareInfo(disk))
           /\ disk # "GB" => Sound(BSD!PrintSystemHardwareInfo(disk))
           /\ Sound(Macos!PrintSystemHardwareInfo(disk))
           /\ Sound(Windows!PrintSystemHardwareInfo(disk))
<1> DEFINE unit == IF disk = "unknown" THEN << >> ELSE Row
           rows == Row \o Row \o unit \o Row
           open == CASE disk = "unknown" -> << >>
                     [] disk = "GB" -> OpenRow
                     [] OTHER -> Row
           pieces == Row \o Row \o open \o Row
<1>1. IsTable(Table(rows))
  <2>1. unit \in Rows
    BY RowsTogether
  <2> HIDE DEF unit
  <2>2. rows \in Rows
    BY <2>1, RowsTogether
  <2> HIDE DEF rows
  <2> QED
    BY <2>2, TableTyped
<1>2. Sound(Linux!PrintSystemHardwareInfo(disk))
  <2>1. /\ Linux!PrintSystemHardwareInfo(disk).script = Table(rows)
        /\ Linux!PrintSystemHardwareInfo(disk).result = "SUCCESSFUL"
    BY LinuxNames, Zenon DEF Linux!PrintSystemHardwareInfo
  <2> HIDE DEF rows
  <2> QED
    BY <1>1, <2>1, CommonResults, Zenon DEF Sound
<1>3. Sound(Macos!PrintSystemHardwareInfo(disk))
  <2>1. /\ Macos!PrintSystemHardwareInfo(disk).script = Table(rows)
        /\ Macos!PrintSystemHardwareInfo(disk).result = "SUCCESSFUL"
    BY MacosNames, Zenon DEF Macos!PrintSystemHardwareInfo
  <2> HIDE DEF rows
  <2> QED
    BY <1>1, <2>1, CommonResults, Zenon DEF Sound
<1>4. Sound(Windows!PrintSystemHardwareInfo(disk))
  BY WindowsNames, FewRows, CommonResults, Zenon DEF Windows!PrintSystemHardwareInfo, Sound
<1>5. /\ BSD!PrintSystemHardwareInfo(disk).script = Table(pieces)
      /\ BSD!PrintSystemHardwareInfo(disk).result = "SUCCESSFUL"
  <2>1. BSD!PrintSystemHardwareInfo(disk)
          = [script |-> BSD!Table(BSD!Row \o BSD!Row \o (CASE disk = "unknown" -> << >>
                                                           [] disk = "GB" -> BSD!OpenRow
                                                           [] OTHER -> BSD!Row) \o BSD!Row),
             result |-> "SUCCESSFUL"]
    BY DEF BSD!PrintSystemHardwareInfo
  <2> QED
    BY <2>1, BSDNames
<1>6. Table(pieces) \in Seq(Pieces)
  <2>1. open \in Seq(Pieces)
    BY PiecesTogether
  <2> HIDE DEF open
  <2>2. pieces \in Seq(Pieces)
    BY <2>1, PiecesTogether
  <2> HIDE DEF pieces
  <2> QED
    BY <2>2, PiecesInTable
<1>7. disk # "GB" => IsTable(Table(pieces))
  <2> SUFFICES ASSUME disk # "GB" PROVE IsTable(Table(pieces))
    OBVIOUS
  <2>1. open \in Rows
    BY RowsTogether
  <2> HIDE DEF open
  <2>2. pieces \in Rows
    BY <2>1, RowsTogether
  <2> HIDE DEF pieces
  <2> QED
    BY <2>2, TableTyped
<1> HIDE DEF pieces
<1>8. Typed(BSD!PrintSystemHardwareInfo(disk))
  BY <1>5, <1>6, CommonResults, Zenon DEF Typed
<1>9. disk # "GB" => Sound(BSD!PrintSystemHardwareInfo(disk))
  BY <1>5, <1>7, CommonResults, Zenon DEF Sound
<1> QED
  BY <1>2, <1>3, <1>4, <1>8, <1>9

LEMMA ExecutableStep ==
    /\ Sound(Linux!PrintSystemExecutableInfo) /\ Sound(BSD!PrintSystemExecutableInfo)
    /\ Sound(Macos!PrintSystemExecutableInfo) /\ Sound(Windows!PrintSystemExecutableInfo)
BY LinuxNames, BSDNames, MacosNames, WindowsNames, FewRows, CommonResults, Zenon
   DEF Linux!PrintSystemExecutableInfo, BSD!PrintSystemExecutableInfo,
       Macos!PrintSystemExecutableInfo, Windows!PrintSystemExecutableInfo, Sound

LEMMA TablePut ==
    ASSUME NEW script, NEW result, NEW table
    PROVE  LET info == [[script |-> script, result |-> result] EXCEPT !.script = table] IN
           info.script = table /\ info.result = result
<1> DEFINE given == [script |-> script, result |-> result]
<1>1. given \in [script : {script}, result : {result}]
  OBVIOUS
<1> HIDE DEF given
<1>2. /\ [given EXCEPT !.script = table].script = table
      /\ [given EXCEPT !.script = table].result = result
  BY <1>1
<1> QED
  BY <1>2, Zenon DEF given

\* The step of the loader, but for what the BSDs print at its end.
LEMMA LoaderStepTyped ==
    ASSUME NEW folder, NEW used
    PROVE  LET folders == <<folder, "link">>
               info == LoaderInfo([k \in DOMAIN folders |-> RuntimesInFolder(folders[k])], used,
                                  RuntimesInFolder(used))
           IN /\ info.script \in Seq(Pieces) /\ info.result \in Results
              /\ folder # "no link" /\ used # "no link" => info.script \in Rows
<1> DEFINE folders == <<folder, "link">>
           infos == [k \in DOMAIN folders |-> RuntimesInFolder(folders[k])]
           own == RuntimesInFolder(used)
           info == LoaderInfo(infos, used, own)
           closed == "no link"
<1>1. DOMAIN folders = 1..2 /\ folders[1] = folder /\ folders[2] = "link"
  OBVIOUS
<1>2. "link" # closed
  OBVIOUS
<1>3. \A other : /\ RuntimesInFolder(other).script \in Seq(Pieces)
                 /\ RuntimesInFolder(other).result \in Results
                 /\ other # closed => RuntimesInFolder(other).script \in Rows
                 /\ RuntimeUsedScript(other) \in Seq(Pieces)
                 /\ other # closed => RuntimeUsedScript(other) \in Rows
  BY RuntimesTyped, Zenon
<1> HIDE DEF closed, folders
<1>4. DOMAIN infos = 1..2 /\ 2 \in Nat
  BY <1>1
<1>5. \A k \in 1..2 : infos[k] = RuntimesInFolder(folders[k])
  BY <1>1
<1> HIDE DEF infos
<1>6. own.result \in Results
  BY <1>3
<1>7. Row \in Seq(Pieces) /\ Row \in Rows
  BY PiecesTogether, RowsTogether
<1>8. info.script \in Seq(Pieces) /\ info.result \in Results
  <2>1. \A k \in 1..2 : infos[k].script \in Seq(Pieces)
    BY <1>3, <1>5
  <2> HIDE DEF own
  <2> QED
    BY <1>3, <1>4, <1>6, <1>7, <2>1, LoaderTyped
<1>9. ASSUME folder # closed, used # closed
      PROVE  info.script \in Rows
  <2>1. \A k \in 1..2 : folders[k] # closed
    <3>1. \A k \in 1..2 : k = 1 \/ k = 2
      OBVIOUS
    <3> QED
      BY <1>1, <1>2, <1>9, <3>1
  <2>2. \A k \in 1..2 : infos[k].script \in Seq({"row"})
    BY <1>3, <1>5, <2>1 DEF Rows
  <2>3. RuntimeUsedScript(used) \in Seq({"row"}) /\ Row \in Seq({"row"})
    BY <1>3, <1>7, <1>9 DEF Rows
  <2> HIDE DEF own
  <2>4. info.script \in Seq({"row"})
    BY <1>4, <1>6, <2>2, <2>3, LoaderTyped
  <2> QED
    BY <2>4 DEF Rows
<1> HIDE DEF info
<1> QED
  BY <1>8, <1>9, Zenon DEF info, infos, own, folders, closed

LEMMA LoaderStep ==
    ASSUME NEW folder, NEW used
    PROVE  LET folders == <<folder, "link">> IN
           /\ Typed(Linux!PrintSystemLoaderInfo(folders, used))
           /\ Typed(BSD!PrintSystemLoaderInfo(folders, used))
           /\ Typed(Macos!PrintSystemLoaderInfo(folders, used))
           /\ Sound(Windows!PrintSystemLoaderInfo(used = "link"))
           /\ folder # "no link" /\ used # "no link" =>
                 /\ Sound(Linux!PrintSystemLoaderInfo(folders, used))
                 /\ Sound(Macos!PrintSystemLoaderInfo(folders, used))
                 /\ used = "unknown" => Sound(BSD!PrintSystemLoaderInfo(folders, used))
<1> DEFINE folders == <<folder, "link">>
           infos == [k \in DOMAIN folders |-> RuntimesInFolder(folders[k])]
           info == LoaderInfo(infos, used, RuntimesInFolder(used))
           linked == folder # "no link" /\ used # "no link"
           ended == IF used = "unknown" THEN info.script ELSE Append(info.script, "end row")
           Ended(table) == [info EXCEPT !.script = table]
<1>1. info.script \in Seq(Pieces) /\ info.result \in Results /\ (linked => info.script \in Rows)
  BY LoaderStepTyped, Zenon
<1>2. \A table : Ended(table).script = table /\ Ended(table).result = info.result
  <2>1. \E script, result : info = [script |-> script, result |-> result]
    BY Zenon DEF LoaderInfo
  <2>2. PICK script, result : info = [script |-> script, result |-> result]
    BY <2>1, Zenon
  <2> HIDE DEF info
  <2>3. info.result = result
    BY <2>2, Zenon
  <2> QED
    BY <2>2, <2>3, TablePut, Zenon
<1>3. /\ Linux!PrintSystemLoaderInfo(folders, used) = Ended(Table(info.script))
      /\ Macos!PrintSystemLoaderInfo(folders, used) = Ended(Table(info.script))
      /\ BSD!PrintSystemLoaderInfo(folders, used) = Ended(Table(ended))
  <2>1. Linux!PrintSystemLoaderInfo(folders, used) = Ended(Table(info.script))
    BY LinuxNames, Zenon DEF Linux!PrintSystemLoaderInfo, Linux!PrintRuntimesInFolder
  <2>2. Macos!PrintSystemLoaderInfo(folders, used) = Ended(Table(info.script))
    BY MacosNames, Zenon DEF Macos!PrintSystemLoaderInfo, Macos!PrintRuntimesInFolder
  <2>3. BSD!PrintSystemLoaderInfo(folders, used) = Ended(Table(ended))
    BY BSDNames, Zenon DEF BSD!PrintSystemLoaderInfo, BSD!PrintRuntimesInFolder
  <2> QED
    BY <2>1, <2>2, <2>3
<1>4. Sound(Windows!PrintSystemLoaderInfo(used = "link"))
  BY WindowsNames, FewRows, CommonResults, Zenon DEF Windows!PrintSystemLoaderInfo, Sound
<1>5. ended \in Seq(Pieces) /\ (used = "unknown" => ended = info.script)
  <2> DEFINE last == "end row"
  <2>1. last \in Pieces
    BY Zenon DEF Pieces
  <2>2. /\ ended \in {info.script, Append(info.script, last)}
        /\ (used = "unknown" => ended = info.script)
    BY Zenon
  <2> HIDE DEF last, ended, info, linked
  <2>3. Append(info.script, last) \in Seq(Pieces)
    BY <1>1, <2>1
  <2> QED
    BY <1>1, <2>2, <2>3
<1> HIDE DEF info, ended, linked
<1>6. Table(info.script) \in Seq(Pieces) /\ Table(ended) \in Seq(Pieces)
  BY <1>1, <1>5, PiecesInTable
<1>7. linked => IsTable(Table(info.script))
  BY <1>1, TableTyped
<1>8. /\ Typed(Ended(Table(info.script))) /\ Typed(Ended(Table(ended)))
      /\ linked => Sound(Ended(Table(info.script)))
      /\ linked /\ used = "unknown" => Sound(Ended(Table(ended)))
  <2> HIDE DEF Ended
  <2> QED
    BY <1>1, <1>2, <1>5, <1>6, <1>7, Zenon DEF Typed, Sound
<1> HIDE DEF Ended
<1> QED
  BY <1>3, <1>4, <1>8, Zenon DEF linked, folders

LEMMA SdkStep ==
    ASSUME NEW variable, NEW packaged \in BOOLEAN
    PROVE  /\ Sound(Linux!PrintSystemSdkInfo(variable, packaged))
           /\ Sound(BSD!PrintSystemSdkInfo(variable, packaged))
           /\ Sound(Macos!PrintSystemSdkInfo(variable, packaged))
           /\ Sound(Windows!PrintSystemSdkInfo(variable))
           /\ Linux!PrintSystemSdkInfo(variable, packaged).found_sdk \in BOOLEAN
           /\ BSD!PrintSystemSdkInfo(variable, packaged).found_sdk \in BOOLEAN
           /\ Macos!PrintSystemSdkInfo(variable, packaged).found_sdk \in BOOLEAN
           /\ Windows!PrintSystemSdkInfo(variable).found_sdk \in BOOLEAN
<1> DEFINE first == IF variable = "unset" THEN << >> ELSE Row
           layers == LayerFolder(<<"library">>)
           second == IF variable = "layers" THEN layers ELSE << >>
           rows == first \o second \o Row
           found == variable = "layers" \/ (variable = "unset" /\ packaged)
           here == Row \o (IF found THEN layers ELSE Row)
<1>1. layers \in Rows
  <2>1. <<"library">> \in Seq(LayerManifests)
    <3>1. "library" \in LayerManifests
      BY Zenon DEF LayerManifests
    <3> QED
      BY <3>1
  <2> QED
    BY <2>1, FolderRows
<1> HIDE DEF layers
<1>2. IsTable(Table(rows)) /\ IsTable(Table(here))
  <2>1. first \in Rows /\ second \in Rows
    BY <1>1, RowsTogether
  <2> HIDE DEF first, second
  <2>2. rows \in Rows /\ here \in Rows
    BY <1>1, <2>1, RowsTogether
  <2> HIDE DEF rows, here
  <2> QED
    BY <2>2, TableTyped
<1>3. /\ Linux!PrintSystemSdkInfo(variable, packaged).script = Table(rows)
      /\ Linux!PrintSystemSdkInfo(variable, packaged).result = "SUCCESSFUL"
  BY LinuxNames, Zenon DEF Linux!PrintSystemSdkInfo, Linux!PrintExplicitLayersInFolder, layers
<1>4. /\ BSD!PrintSystemSdkInfo(variable, packaged).script = Table(rows)
      /\ BSD!PrintSystemSdkInfo(variable, packaged).result = "SUCCESSFUL"
  BY BSDNames, Zenon DEF BSD!PrintSystemSdkInfo, BSD!PrintExplicitLayersInFolder, layers
<1>5. /\ Macos!PrintSystemSdkInfo(variable, packaged).script = Table(here)
      /\ Macos!PrintSystemSdkInfo(variable, packaged).result = "SUCCESSFUL"
  BY MacosNames, Zenon DEF Macos!PrintSystemSdkInfo, Macos!PrintExplicitLayersInFolder, layers
<1>6. Sound(Windows!PrintSystemSdkInfo(variable))
  BY WindowsNames, FewRows, CommonResults, Zenon DEF Windows!PrintSystemSdkInfo, Sound
<1>7. /\ Linux!PrintSystemSdkInfo(variable, packaged).found_sdk \in BOOLEAN
      /\ BSD!PrintSystemSdkInfo(variable, packaged).found_sdk \in BOOLEAN
      /\ Macos!PrintSystemSdkInfo(variable, packaged).found_sdk \in BOOLEAN
      /\ Windows!PrintSystemSdkInfo(variable).found_sdk \in BOOLEAN
  BY Zenon DEF Linux!PrintSystemSdkInfo, BSD!PrintSystemSdkInfo, Macos!PrintSystemSdkInfo,
               Windows!PrintSystemSdkInfo
<1> HIDE DEF rows, here
<1>8. /\ Sound(Linux!PrintSystemSdkInfo(variable, packaged))
      /\ Sound(BSD!PrintSystemSdkInfo(variable, packaged))
      /\ Sound(Macos!PrintSystemSdkInfo(variable, packaged))
  BY <1>2, <1>3, <1>4, <1>5, CommonResults, Zenon DEF Sound
<1> QED
  BY <1>6, <1>7, <1>8

LEMMA ImplicitStep ==
    ASSUME NEW layer
    PROVE  /\ Sound(Linux!PrintSystemImplicitLayerInfo(layer))
           /\ Sound(BSD!PrintSystemImplicitLayerInfo(layer))
           /\ Sound(Macos!PrintSystemImplicitLayerInfo(layer))
           /\ Sound(Windows!PrintSystemImplicitLayerInfo(layer))
<1>1. Sound(ImplicitLayers(layer))
  <2>1. ImplicitLayers(layer).result = "SUCCESSFUL"
    BY Zenon DEF ImplicitLayers
  <2> QED
    BY <2>1, ImplicitTable, CommonResults, Zenon DEF Sound
<1> DEFINE rows == IF layer.readable THEN Row \o GenerateImplicitLayerJsonInfo(layer) ELSE Row
<1>2. Sound(Windows!PrintSystemImplicitLayerInfo(layer))
  <2>1. /\ Windows!PrintSystemImplicitLayerInfo(layer).script = Table(rows)
        /\ Windows!PrintSystemImplicitLayerInfo(layer).result = "SUCCESSFUL"
    BY WindowsNames, Zenon DEF Windows!PrintSystemImplicitLayerInfo
  <2>2. Row \o GenerateImplicitLayerJsonInfo(layer) \in Rows /\ Row \in Rows
    BY ImplicitRows, RowsTogether
  <2>3. rows \in Rows
    BY <2>2, Zenon
  <2> HIDE DEF rows
  <2>4. IsTable(Table(rows))
    BY <2>3, TableTyped
  <2> QED
    BY <2>1, <2>4, CommonResults, Zenon DEF Sound
<1> QED
  BY <1>1, <1>2, LinuxNames, BSDNames, MacosNames, Zenon
     DEF Linux!PrintSystemImplicitLayerInfo, BSD!PrintSystemImplicitLayerInfo,
         Macos!PrintSystemImplicitLayerInfo

LEMMA SettingsStep ==
    ASSUME NEW path_set, NEW layers \in Nat
    PROVE  /\ Sound(Linux!PrintSystemSettingsFileInfo(path_set, layers))
           /\ Sound(BSD!PrintSystemSettingsFileInfo(path_set, layers))
           /\ Sound(Macos!PrintSystemSettingsFileInfo(path_set, layers))
           /\ Sound(Windows!PrintSystemSettingsFileInfo(path_set, layers))
<1> DEFINE n == IF path_set THEN 1 ELSE 2
           file == GenerateSettingsFileJsonInfo(layers)
           files == [k \in 1..n |-> file]
           rows == Row \o FlattenSeq(files)
           here == Row \o (IF path_set THEN file ELSE Row \o Row \o Row)
<1>1. n \in Nat /\ file \in Rows
  BY SettingsRows
<1> HIDE DEF n, file
<1>2. files \in [1..n -> Rows]
  BY <1>1
<1> HIDE DEF files
<1>3. FlattenSeq(files) \in Rows
  BY <1>1, <1>2, RowsFlattened
<1>4. rows \in Rows /\ here \in Rows
  BY <1>1, <1>3, RowsTogether
<1>5. /\ Linux!PrintSystemSettingsFileInfo(path_set, layers).script = Table(rows)
      /\ Linux!PrintSystemSettingsFileInfo(path_set, layers).result = "SUCCESSFUL"
  BY LinuxNames, Zenon DEF Linux!PrintSystemSettingsFileInfo, n, file, files
<1>6. /\ BSD!PrintSystemSettingsFileInfo(path_set, layers).script = Table(rows)
      /\ BSD!PrintSystemSettingsFileInfo(path_set, layers).result = "SUCCESSFUL"
  BY BSDNames, Zenon DEF BSD!PrintSystemSettingsFileInfo, n, file, files
<1>7. /\ Macos!PrintSystemSettingsFileInfo(path_set, layers).script = Table(rows)
      /\ Macos!PrintSystemSettingsFileInfo(path_set, layers).result = "SUCCESSFUL"
  BY MacosNames, Zenon DEF Macos!PrintSystemSettingsFileInfo, n, file, files
<1>8. /\ Windows!PrintSystemSettingsFileInfo(path_set, layers).script = Table(here)
      /\ Windows!PrintSystemSettingsFileInfo(path_set, layers).result = "SUCCESSFUL"
  BY WindowsNames, Zenon DEF Windows!PrintSystemSettingsFileInfo, file
<1> HIDE DEF rows, here
<1>9. IsTable(Table(rows)) /\ IsTable(Table(here))
  BY <1>4, TableTyped
<1> QED
  BY <1>5, <1>6, <1>7, <1>8, <1>9, CommonResults, Zenon DEF Sound

\* A folder of layers on Windows, and the folders of VK_LAYER_PATH there.
LEMMA WindowsFolderRows ==
    ASSUME NEW manifests \in Seq(LayerManifests)
    PROVE  Windows!FindAndPrintAllExplicitLayersInPath(manifests) \in Rows
<1> DEFINE each(k) == Row \o (IF manifests[k] = "unreadable" THEN Row
                              ELSE GenerateExplicitLayerJsonInfo(manifests[k]))
           f == [k \in DOMAIN manifests |-> each(k)]
<1>1. \A k : each(k) \in Rows
  BY ExplicitRows, RowsTogether
<1>2. Windows!FindAndPrintAllExplicitLayersInPath(manifests) = FlattenSeq(f)
  BY WindowsNames, Zenon DEF Windows!FindAndPrintAllExplicitLayersInPath
<1> HIDE DEF each
<1>3. DOMAIN manifests = 1..Len(manifests) /\ Len(manifests) \in Nat
  OBVIOUS
<1>4. f \in [1..Len(manifests) -> Rows]
  BY <1>1, <1>3
<1> HIDE DEF f
<1> QED
  BY <1>2, <1>3, <1>4, RowsFlattened

LEMMA WindowsExplicit ==
    ASSUME NEW folders \in Seq(Seq(LayerManifests)), NEW e \in Environment
    PROVE  /\ Sound(Windows!PrintSystemExplicitLayerInfo(folders, e))
           /\ Windows!PrintSystemExplicitLayerInfo(folders, e).env = e
<1> DEFINE each(k) == Row \o Windows!FindAndPrintAllExplicitLayersInPath(folders[k])
           listed == [k \in DOMAIN folders |-> each(k)]
           n == Windows!LayerPathsRead(e.layers)
           paths == [k \in 1..n |-> Row]
           rows == Row \o FlattenSeq(listed) \o FlattenSeq(paths)
<1>1. /\ Windows!PrintSystemExplicitLayerInfo(folders, e).script = Table(rows)
      /\ Windows!PrintSystemExplicitLayerInfo(folders, e).result = "SUCCESSFUL"
      /\ Windows!PrintSystemExplicitLayerInfo(folders, e).env = e
  BY WindowsNames, Zenon DEF Windows!PrintSystemExplicitLayerInfo
<1>2. DOMAIN folders = 1..Len(folders) /\ Len(folders) \in Nat
      /\ \A k \in 1..Len(folders) : folders[k] \in Seq(LayerManifests)
  OBVIOUS
<1>3. \A k \in 1..Len(folders) : each(k) \in Rows
  BY <1>2, WindowsFolderRows, RowsTogether
<1>4. n \in Nat
  <2>1. e.layers \in Seq(STRING)
    BY DEF Environment
  <2>2. Len(e.layers) \in Nat
    BY <2>1
  <2>3. n \in {1, Len(e.layers)}
    BY Zenon DEF Windows!LayerPathsRead
  <2> QED
    BY <2>2, <2>3
<1> HIDE DEF each, n
<1>5. listed \in [1..Len(folders) -> Rows] /\ paths \in [1..n -> Rows]
  BY <1>2, <1>3, RowsTogether
<1> HIDE DEF listed, paths
<1>6. rows \in Rows
  BY <1>2, <1>4, <1>5, RowsFlattened, RowsTogether
<1> HIDE DEF rows
<1>7. IsTable(Table(rows))
  BY <1>6, TableTyped
<1> QED
  BY <1>1, <1>7, CommonResults, Zenon DEF Sound

LEMMA ExplicitStep ==
    ASSUME NEW folders \in Seq(Seq(LayerManifests)), NEW e \in Environment,
           NEW standard \in Seq(LayerManifests)
    PROVE  LET info == ExplicitLayers(folders, e, standard) IN
           /\ Linux!PrintSystemExplicitLayerInfo(folders, e, standard) = info
           /\ BSD!PrintSystemExplicitLayerInfo(folders, e, standard) = info
           /\ Macos!PrintSystemExplicitLayerInfo(folders, e, standard) = info
           /\ Sound(info) /\ info.env \in Environment
           /\ info.env.icds = e.icds /\ info.env.drivers = e.drivers /\ info.env.libs = e.libs
           /\ info.env.layers = FirstOnly(e.layers)
<1> DEFINE info == ExplicitLayers(folders, e, standard)
<1>1. info.result = "SUCCESSFUL" /\ info.env = [e EXCEPT !.layers = FirstOnly(e.layers)]
  BY Zenon DEF ExplicitLayers
<1>2. e.layers \in Seq(STRING)
  BY DEF Environment
<1>3. Sound(info)
  BY <1>1, <1>2, ExplicitTable, CommonResults, Zenon DEF Sound
<1>4. FirstOnly(e.layers) \in Seq(STRING)
  BY <1>2, CutShort
<1>5. /\ Linux!PrintSystemExplicitLayerInfo(folders, e, standard) = info
      /\ BSD!PrintSystemExplicitLayerInfo(folders, e, standard) = info
      /\ Macos!PrintSystemExplicitLayerInfo(folders, e, standard) = info
  BY LinuxNames, BSDNames, MacosNames, Zenon
     DEF Linux!PrintSystemExplicitLayerInfo, BSD!PrintSystemExplicitLayerInfo,
         Macos!PrintSystemExplicitLayerInfo
<1> HIDE DEF info
<1>6. /\ info.env \in Environment
      /\ info.env.icds = e.icds /\ info.env.drivers = e.drivers /\ info.env.libs = e.libs
      /\ info.env.layers = FirstOnly(e.layers)
  BY <1>1, <1>4 DEF Environment
<1> QED
  BY <1>3, <1>5, <1>6 DEF info

(***************************************************************************)
(* The second inductive invariant: what the report is between two steps,   *)
(* what is left of the environment, and what is known of the drivers.      *)
(***************************************************************************)
BeforeDrivers == {"environment", "hardware", "executable", "driver"}
BeforeLayers == BeforeDrivers \cup {"loader", "sdk", "implicit", "explicit"}
Slips == {"gigabytes", "link", "own runtime", "physical", "no test"}

Started ==
    /\ os \in Systems /\ run_cube_tests \in BOOLEAN
    /\ start \in [env : Environment, drivers : Seq(Seq(Manifests))]

\* What is left of the lists of an environment.
Cut(e, whole) ==
    /\ IsPrefix(e.icds, whole.icds) /\ IsPrefix(e.drivers, whole.drivers)
    /\ IsPrefix(e.layers, whole.layers) /\ e.libs <= whole.libs

EnvironmentKept ==
    /\ env \in Environment /\ Cut(env, start.env)
    /\ phase \in BeforeDrivers => env = start.env
    /\ phase \in BeforeLayers => env.layers = start.env.layers

Collected ==
    /\ found_sdk \in BOOLEAN /\ ran_tests \in BOOLEAN
    /\ overrides \in Seq(Seq(LayerManifests))

ReportKept ==
    /\ report \in AnyReport
    /\ slips = {} /\ phase \notin {"ended", "crashed"} => InDocument(report)
    /\ slips = {} /\ phase = "ended" => WellFormed(report)

Answers == results \in Results /\ failed \subseteq Phases /\ slips \subseteq Slips

DriverKnown == (phase \in BeforeDrivers => "driver" \notin failed) /\ DriverVerdict

RInv == /\ phase \in Phases /\ Started /\ EnvironmentKept /\ Collected
        /\ ReportKept /\ Answers /\ DriverKnown

\* A step that reports.
LEMMA ReportsFit ==
    ASSUME RInv, NEW outcome, NEW next, Reports(outcome, next), Typed(outcome),
           phase \notin {"ended", "crashed"}, next \notin {"ended", "crashed"},
           slips' = {} => slips = {} /\ Sound(outcome), slips' \subseteq Slips
    PROVE  ReportKept' /\ Answers'
<1>1. /\ report \in AnyReport /\ results \in Results /\ failed \subseteq Phases /\ phase \in Phases
      /\ slips = {} => InDocument(report)
  BY DEF RInv, ReportKept, Answers
<1>2. /\ report' = Written(report, outcome.script)
      /\ results' = (IF outcome.result = "SUCCESSFUL" THEN results ELSE outcome.result)
      /\ failed' = (IF outcome.result = "SUCCESSFUL" THEN failed ELSE failed \cup {phase})
      /\ phase' = next
  BY DEF Reports
<1>3. outcome.script \in Seq(Pieces) /\ outcome.result \in Results
  BY DEF Typed
<1>4. report' \in AnyReport
  BY <1>1, <1>2, <1>3, WrittenTyped
<1>5. ASSUME slips' = {}
      PROVE  InDocument(report')
  <2>1. InDocument(report) /\ (IsTable(outcome.script) \/ outcome.script = <<"text">>)
    BY <1>1, <1>5, Zenon DEF Sound
  <2>2. CASE IsTable(outcome.script)
    <3>1. PICK rows \in Rows : outcome.script = Table(rows)
      BY <2>2, Zenon DEF IsTable
    <3> QED
      BY <1>2, <2>1, <3>1, TableFits, Zenon
  <2>3. CASE outcome.script = <<"text">>
    BY <1>2, <2>1, <2>3, OneTextFits, Zenon
  <2> QED
    BY <2>1, <2>2, <2>3
<1>6. results' \in Results /\ failed' \subseteq Phases
  BY <1>1, <1>2, <1>3, Zenon
<1>7. ReportKept'
  BY <1>2, <1>4, <1>5, Zenon DEF ReportKept
<1> QED
  BY <1>6, <1>7 DEF Answers

\* Nothing but the step of the drivers changes what is known of them.
LEMMA DriverKnowledgeKept ==
    ASSUME RInv, UNCHANGED options, phase # "driver", "driver" \in failed' <=> "driver" \in failed,
           phase' \in BeforeDrivers <=> phase \in BeforeDrivers
    PROVE  DriverKnown'
<1> DEFINE Exists == \E m \in NamedManifests : HasIcd(m) /\ LibraryExists(m)
           Bounded == start.env.libs <= 1 /\ Len(start.env.icds) <= 1
<1>1. os' = os /\ start' = start
  BY DEF options
<1>2. (Exists' <=> Exists) /\ (Bounded' <=> Bounded)
  BY <1>1 DEF NamedManifests, LibraryExists, InLibraryPath
<1>3. /\ phase \in BeforeDrivers => "driver" \notin failed
      /\ os # "windows" /\ phase \notin BeforeDrivers /\ Bounded => ("driver" \notin failed <=> Exists)
  BY Zenon DEF RInv, DriverKnown, DriverVerdict, BeforeDrivers
<1> HIDE DEF Exists, Bounded
<1>4. /\ phase' \in BeforeDrivers => "driver" \notin failed'
      /\ os' # "windows" /\ phase' \notin BeforeDrivers /\ Bounded'
             => ("driver" \notin failed' <=> Exists')
  BY <1>1, <1>2, <1>3
<1>5. DriverVerdict' <=>
         (os' # "windows" /\ phase' \notin BeforeDrivers /\ Bounded'
             => ("driver" \notin failed' <=> Exists'))
  BY Zenon DEF DriverVerdict, BeforeDrivers, Exists, Bounded
<1> QED
  BY <1>4, <1>5, Zenon DEF DriverKnown

LEMMA StartedKept == ASSUME RInv, UNCHANGED options PROVE Started'
BY DEF RInv, Started, options

LEMMA EnvironmentAlone ==
    ASSUME RInv, UNCHANGED options, UNCHANGED env,
           phase' \in BeforeDrivers => phase \in BeforeDrivers,
           phase' \in BeforeLayers => phase \in BeforeLayers
    PROVE  EnvironmentKept'
<1>1. start' = start /\ env' = env
  BY DEF options
<1> QED
  BY <1>1, Zenon DEF RInv, EnvironmentKept

LEMMA Enters ==
    /\ "environment" \in BeforeDrivers /\ "hardware" \in BeforeDrivers
    /\ "executable" \in BeforeDrivers /\ "driver" \in BeforeDrivers
    /\ \A p \in BeforeDrivers : p \in BeforeLayers
    /\ \A p \in {"loader", "sdk", "implicit", "explicit"} : p \in BeforeLayers /\ p \notin BeforeDrivers
    /\ \A p \in {"settings", "instance", "physical", "logical", "cleanup", "test", "end",
                 "ended", "crashed"} : p \notin BeforeLayers /\ p \notin BeforeDrivers
BY DEF BeforeDrivers, BeforeLayers

\* A step that reports and leaves the environment as it is.
LEMMA StepKeeps ==
    ASSUME RInv, NEW outcome, NEW next, Reports(outcome, next), Typed(outcome),
           phase \notin {"driver", "ended", "crashed"}, next \in Phases \ {"ended", "crashed"},
           slips' = {} => slips = {} /\ Sound(outcome), slips' \subseteq Slips,
           UNCHANGED options, UNCHANGED env, Collected',
           next \in BeforeDrivers <=> phase \in BeforeDrivers,
           next \in BeforeLayers => phase \in BeforeLayers
    PROVE  RInv'
<1>1. ReportKept' /\ Answers'
  BY ReportsFit, Zenon
<1>2. phase' = next /\ (failed' = failed \/ failed' = failed \cup {phase})
  BY Zenon DEF Reports
<1>3. "driver" \in failed' <=> "driver" \in failed
  BY <1>2
<1>4. DriverKnown'
  BY <1>2, <1>3, DriverKnowledgeKept, Zenon
<1>5. EnvironmentKept'
  BY <1>2, EnvironmentAlone, Zenon
<1>6. phase' \in Phases
  BY <1>2
<1> QED
  BY <1>1, <1>4, <1>5, <1>6, StartedKept, Zenon DEF RInv

LEMMA SystemIs == ASSUME RInv PROVE os \in {"linux", "bsd", "macos", "windows"}
BY SystemsAssumption DEF RInv, Started

LEMMA SlipsKept ==
    ASSUME RInv, UNCHANGED slips
    PROVE  slips' \subseteq Slips /\ (slips' = {} => slips = {})
BY DEF RInv, Answers

LEMMA CollectedKept == ASSUME RInv, UNCHANGED findings PROVE Collected'
BY DEF RInv, Collected, findings

LEMMA EnvironmentReported == ASSUME RInv, PrintSystemEnvironmentInfo PROVE RInv'
<1> DEFINE outcome(release, uname) ==
             CASE os = "linux" -> Linux!PrintSystemEnvironmentInfo(release, uname)
               [] os = "bsd" -> BSD!PrintSystemEnvironmentInfo(uname)
               [] os = "macos" -> Macos!PrintSystemEnvironmentInfo(release, uname)
               [] os = "windows" -> Windows!PrintSystemEnvironmentInfo(release)
<1>1. PICK release, uname \in BOOLEAN : Reports(outcome(release, uname), "hardware")
  BY Zenon DEF PrintSystemEnvironmentInfo
<1>2. phase = "environment" /\ UNCHANGED <<options, env, findings, slips>>
  BY DEF PrintSystemEnvironmentInfo
<1>3. Sound(outcome(release, uname))
  BY EnvironmentStep, SystemIs
<1> HIDE DEF outcome
<1>4. Typed(outcome(release, uname))
  BY <1>3, SoundIsTyped
<1>5. phase \notin {"driver", "ended", "crashed"} /\ "hardware" \in Phases \ {"ended", "crashed"}
  BY <1>2 DEF Phases
<1>6. /\ "hardware" \in BeforeDrivers <=> phase \in BeforeDrivers
      /\ "hardware" \in BeforeLayers => phase \in BeforeLayers
  BY <1>2, Enters
<1> QED
  BY <1>1, <1>2, <1>3, <1>4, <1>5, <1>6, StepKeeps, SlipsKept, CollectedKept, Zenon

LEMMA HardwareReported == ASSUME RInv, PrintSystemHardwareInfo PROVE RInv'
<1> DEFINE outcome(disk) ==
             CASE os = "linux" -> Linux!PrintSystemHardwareInfo(disk)
               [] os = "bsd" -> BSD!PrintSystemHardwareInfo(disk)
               [] os = "macos" -> Macos!PrintSystemHardwareInfo(disk)
               [] os = "windows" -> Windows!PrintSystemHardwareInfo(disk)
           open(disk) == os = "bsd" /\ disk = "GB"
<1>1. PICK disk : /\ Reports(outcome(disk), "executable")
                  /\ slips' = IF open(disk) THEN slips \cup {"gigabytes"} ELSE slips
  BY Zenon DEF PrintSystemHardwareInfo
<1>2. phase = "hardware" /\ UNCHANGED <<options, env, findings>>
  BY DEF PrintSystemHardwareInfo
<1>3. Typed(outcome(disk)) /\ (~open(disk) => Sound(outcome(disk)))
  BY HardwareStep, SystemIs, SoundIsTyped
<1> HIDE DEF outcome
<1>4. slips' \subseteq Slips /\ (slips' = {} => slips = {} /\ Sound(outcome(disk)))
  <2>1. slips \subseteq Slips /\ "gigabytes" \in Slips
    BY Zenon DEF RInv, Answers, Slips
  <2> HIDE DEF open
  <2> QED
    BY <1>1, <1>3, <2>1
<1>5. phase \notin {"driver", "ended", "crashed"} /\ "executable" \in Phases \ {"ended", "crashed"}
  BY <1>2 DEF Phases
<1>6. /\ "executable" \in BeforeDrivers <=> phase \in BeforeDrivers
      /\ "executable" \in BeforeLayers => phase \in BeforeLayers
  BY <1>2, Enters
<1> QED
  BY <1>1, <1>2, <1>3, <1>4, <1>5, <1>6, StepKeeps, CollectedKept, Zenon

LEMMA ExecutableReported == ASSUME RInv, PrintSystemExecutableInfo PROVE RInv'
<1> DEFINE outcome == CASE os = "linux" -> Linux!PrintSystemExecutableInfo
                        [] os = "bsd" -> BSD!PrintSystemExecutableInfo
                        [] os = "macos" -> Macos!PrintSystemExecutableInfo
                        [] os = "windows" -> Windows!PrintSystemExecutableInfo
<1>1. /\ phase = "executable" /\ UNCHANGED <<options, env, findings, slips>>
      /\ Reports(outcome, "driver")
  BY Zenon DEF PrintSystemExecutableInfo
<1>2. Sound(outcome)
  BY ExecutableStep, SystemIs
<1> HIDE DEF outcome
<1>3. Typed(outcome)
  BY <1>2, SoundIsTyped
<1>4. phase \notin {"driver", "ended", "crashed"} /\ "driver" \in Phases \ {"ended", "crashed"}
  BY <1>1 DEF Phases
<1>5. /\ "driver" \in BeforeDrivers <=> phase \in BeforeDrivers
      /\ "driver" \in BeforeLayers => phase \in BeforeLayers
  BY <1>1, Enters
<1> QED
  BY <1>1, <1>2, <1>3, <1>4, <1>5, StepKeeps, SlipsKept, CollectedKept, Zenon

\* The linker of the BSDs is not asked.
Asked == os # "bsd"

\* What the step of the drivers comes to, whatever the system.
LEMMA DriverOutcome ==
    ASSUME RInv
    PROVE  LET outcome == CASE os = "linux" -> Linux!PrintSystemDriverInfo(env, start.drivers)
                            [] os = "bsd" -> BSD!PrintSystemDriverInfo(env, start.drivers)
                            [] os = "macos" -> Macos!PrintSystemDriverInfo(env, start.drivers)
                            [] os = "windows" -> Windows!PrintSystemDriverInfo(env, start.drivers)
           IN /\ os # "windows" => outcome = DriverInfo(env, FilesScanned(env, start.drivers, Asked))
              /\ os = "windows" => Sound(outcome) /\ outcome.env = env
<1>1. os \in {"linux", "bsd", "macos", "windows"}
  BY SystemIs
<1>2. env \in Environment /\ start.drivers \in Seq(Seq(Manifests))
  BY DEF RInv, EnvironmentKept, Started
<1>3. LET info == Windows!PrintSystemDriverInfo(env, start.drivers) IN Sound(info) /\ info.env = env
  BY <1>2, WindowsDrivers, Zenon DEF Sound
<1>4. os = "bsd" => Asked = FALSE
  BY DEF Asked
<1>5. os # "bsd" => Asked = TRUE
  BY DEF Asked
<1>6. os = "linux" => Linux!PrintSystemDriverInfo(env, start.drivers)
                        = DriverInfo(env, FilesScanned(env, start.drivers, Asked))
  <2> SUFFICES ASSUME os = "linux"
               PROVE  Linux!PrintSystemDriverInfo(env, start.drivers)
                        = DriverInfo(env, FilesScanned(env, start.drivers, Asked))
    OBVIOUS
  <2>1. Asked = TRUE
    BY <1>5
  <2> QED
    BY <2>1, LinuxDrivers, Zenon
<1>7. os = "macos" => Macos!PrintSystemDriverInfo(env, start.drivers)
                        = DriverInfo(env, FilesScanned(env, start.drivers, Asked))
  <2> SUFFICES ASSUME os = "macos"
               PROVE  Macos!PrintSystemDriverInfo(env, start.drivers)
                        = DriverInfo(env, FilesScanned(env, start.drivers, Asked))
    OBVIOUS
  <2>1. Asked = TRUE
    BY <1>5
  <2> QED
    BY <2>1, MacosDrivers, Zenon
<1>8. os = "bsd" => BSD!PrintSystemDriverInfo(env, start.drivers)
                      = DriverInfo(env, FilesScanned(env, start.drivers, Asked))
  <2> SUFFICES ASSUME os = "bsd"
               PROVE  BSD!PrintSystemDriverInfo(env, start.drivers)
                        = DriverInfo(env, FilesScanned(env, start.drivers, Asked))
    OBVIOUS
  <2>1. Asked = FALSE
    BY <1>4
  <2> QED
    BY <2>1, BSDDrivers, Zenon
<1> QED
  BY <1>1, <1>3, <1>6, <1>7, <1>8

\* The manifests and libraries of the verdict are those that are searched.
LEMMA SearchedIsNamed ==
    ASSUME NEW e, e = start.env
    PROVE  LET lists == start.drivers \o e.drivers
               named == (UNION {Range(lists[k]) : k \in DOMAIN lists}) \cup Range(e.icds)
           IN (\E m \in named : LibraryFound(m, e.libs, Asked))
                 <=> \E m \in NamedManifests : HasIcd(m) /\ LibraryExists(m)
<1> DEFINE lists == start.drivers \o e.drivers
           named == (UNION {Range(lists[k]) : k \in DOMAIN lists}) \cup Range(e.icds)
<1>1. {Range(folder) : folder \in Range(lists)} = {Range(lists[k]) : k \in DOMAIN lists}
  <2> HIDE DEF lists
  <2>1. Range(lists) = {lists[k] : k \in DOMAIN lists}
    BY DEF Range
  <2> QED
    BY <2>1
<1>2. NamedManifests = named
  <2>1. NamedManifests = (UNION {Range(folder) : folder \in Range(lists)}) \cup Range(e.icds)
    BY Zenon DEF NamedManifests
  <2> HIDE DEF lists
  <2> QED
    BY <1>1, <2>1
<1>3. \A m : LibraryFound(m, e.libs, Asked) <=> LibraryExists(m)
  BY Zenon DEF LibraryFound, LibraryExists, Asked
<1>4. \A m : LibraryFound(m, e.libs, Asked) => HasIcd(m)
  BY LibrariesHaveIcd
<1> HIDE DEF named
<1>5. (\E m \in named : LibraryFound(m, e.libs, Asked))
         <=> \E m \in NamedManifests : HasIcd(m) /\ LibraryExists(m)
  BY <1>2, <1>3, <1>4
<1> QED
  BY <1>5, Zenon DEF named, lists

LEMMA CutOnce ==
    ASSUME NEW e \in Environment, NEW cut,
           cut.icds \in {e.icds, FirstOnly(e.icds)}, cut.drivers \in {e.drivers, FirstOnly(e.drivers)},
           cut.layers \in {e.layers, FirstOnly(e.layers)}, cut.libs <= e.libs
    PROVE  Cut(cut, e)
<1>1. /\ e.icds \in Seq(Manifests) /\ e.drivers \in Seq(Seq(Manifests))
      /\ e.layers \in Seq(STRING)
  BY DEF Environment
<1>2. \A icds \in {e.icds, FirstOnly(e.icds)} : IsPrefix(icds, e.icds)
  BY <1>1, CutShort
<1>3. \A drivers \in {e.drivers, FirstOnly(e.drivers)} : IsPrefix(drivers, e.drivers)
  BY <1>1, CutShort
<1>4. \A layers \in {e.layers, FirstOnly(e.layers)} : IsPrefix(layers, e.layers)
  BY <1>1, CutShort
<1> QED
  BY <1>2, <1>3, <1>4 DEF Cut

LEMMA DriversReported == ASSUME RInv, PrintSystemDriverInfo PROVE RInv'
<1> DEFINE outcome == CASE os = "linux" -> Linux!PrintSystemDriverInfo(env, start.drivers)
                        [] os = "bsd" -> BSD!PrintSystemDriverInfo(env, start.drivers)
                        [] os = "macos" -> Macos!PrintSystemDriverInfo(env, start.drivers)
                        [] os = "windows" -> Windows!PrintSystemDriverInfo(env, start.drivers)
           info == DriverInfo(env, FilesScanned(env, start.drivers, Asked))
           Exists == \E m \in NamedManifests : HasIcd(m) /\ LibraryExists(m)
           Bounded == start.env.libs <= 1 /\ Len(start.env.icds) <= 1
<1>1. /\ phase = "driver" /\ Reports(outcome, "loader") /\ env' = outcome.env
      /\ UNCHANGED <<options, found_sdk, ran_tests, overrides, slips>>
  BY Zenon DEF PrintSystemDriverInfo
<1>2. /\ os # "windows" => outcome = info
      /\ os = "windows" => Sound(outcome) /\ outcome.env = env
  BY DriverOutcome
<1> HIDE DEF outcome
<1>3. env \in Environment /\ start.drivers \in Seq(Seq(Manifests)) /\ Asked \in BOOLEAN
  BY DEF RInv, EnvironmentKept, Started, Asked
<1>4. env = start.env
  BY <1>1, Enters DEF RInv, EnvironmentKept
<1>5. /\ IsTable(info.script) /\ info.result \in Results
      /\ info.env \in Environment
      /\ info.env.icds = FirstOnly(env.icds) /\ info.env.drivers = FirstOnly(env.drivers)
      /\ info.env.layers = env.layers /\ info.env.libs <= env.libs
  BY <1>3, DriverStep, Zenon
<1>6. Bounded => (info.result = "SUCCESSFUL" <=> Exists)
  <2> DEFINE lists == start.drivers \o env.drivers
             named == (UNION {Range(lists[k]) : k \in DOMAIN lists}) \cup Range(env.icds)
             Found == \E m \in named : LibraryFound(m, env.libs, Asked)
  <2>1. env.libs <= 1 /\ Len(env.icds) <= 1 => (info.result = "SUCCESSFUL" <=> Found)
    BY <1>3, DriverStep, Zenon
  <2>2. Found <=> Exists
    BY <1>4, SearchedIsNamed, Zenon
  <2> HIDE DEF Found, Exists, info
  <2> QED
    BY <1>4, <2>1, <2>2
<1> HIDE DEF info, Exists
<1>7. Sound(outcome)
  BY <1>2, <1>5, Zenon DEF Sound
<1>8. ReportKept' /\ Answers'
  <2>1. Typed(outcome)
    BY <1>7, SoundIsTyped
  <2>2. phase \notin {"ended", "crashed"} /\ "loader" \notin {"ended", "crashed"}
    BY <1>1
  <2> QED
    BY <1>1, <1>7, <2>1, <2>2, ReportsFit, SlipsKept, Zenon
<1>9. start' = start /\ os' = os /\ phase' = "loader"
  BY <1>1 DEF options, Reports
<1>10. EnvironmentKept'
  <2>1. Cut(info.env, env) /\ Cut(env, env)
    <3>1. env.libs <= env.libs
      BY <1>3 DEF Environment
    <3> QED
      BY <1>3, <1>5, <3>1, CutOnce
  <2>2. /\ os # "windows" => env' = info.env
        /\ os = "windows" => env' = env
    BY <1>1, <1>2
  <2>3. env' \in Environment /\ Cut(env', start.env) /\ env'.layers = start.env.layers
    BY <1>3, <1>4, <1>5, <2>1, <2>2, Zenon
  <2>4. phase' \notin BeforeDrivers
    BY <1>9, Enters
  <2> QED
    BY <1>9, <2>3, <2>4, Zenon DEF EnvironmentKept
<1>11. DriverKnown'
  <2>1. phase' \notin BeforeDrivers /\ phase \in BeforeDrivers
    BY <1>1, <1>9, Enters
  <2>2. "driver" \notin failed
    BY <2>1 DEF RInv, DriverKnown
  <2>3. "driver" \notin failed' <=> outcome.result = "SUCCESSFUL"
    BY <1>1, <2>2 DEF Reports
  <2>4. Exists' <=> Exists
    BY <1>9 DEF Exists, NamedManifests, LibraryExists, InLibraryPath
  <2>5. Bounded' <=> Bounded
    BY <1>9
  <2>6. os' # "windows" /\ Bounded' => ("driver" \notin failed' <=> Exists')
    BY <1>2, <1>6, <1>9, <2>3, <2>4, <2>5
  <2>7. DriverVerdict'
    BY <2>6, Zenon DEF DriverVerdict, Exists
  <2> QED
    BY <2>1, <2>7, Zenon DEF DriverKnown
<1>12. Collected'
  BY <1>1 DEF RInv, Collected
<1>13. phase' \in Phases
  BY <1>9 DEF Phases
<1> QED
  BY <1>1, <1>8, <1>10, <1>11, <1>12, <1>13, StartedKept, Zenon DEF RInv

LEMMA LoaderReported == ASSUME RInv, PrintSystemLoaderInfo PROVE RInv'
<1> DEFINE outcome(folder, used) ==
             CASE os = "linux" -> Linux!PrintSystemLoaderInfo(<<folder, "link">>, used)
               [] os = "bsd" -> BSD!PrintSystemLoaderInfo(<<folder, "link">>, used)
               [] os = "macos" -> Macos!PrintSystemLoaderInfo(<<folder, "link">>, used)
               [] os = "windows" -> Windows!PrintSystemLoaderInfo(used = "link")
           lost == "no link"
           open(folder, used) == os # "windows" /\ lost \in {folder, used}
           again(used) == os = "bsd" /\ used # "unknown"
           own == "own runtime"
<1>1. PICK folder, used :
         /\ Reports(outcome(folder, used), "sdk")
         /\ slips' = slips \cup (IF open(folder, used) THEN {"link"} ELSE {})
                           \cup (IF again(used) THEN {own} ELSE {})
  BY Zenon DEF PrintSystemLoaderInfo
<1>2. /\ phase = "loader" /\ UNCHANGED <<options, findings>>
      /\ env' = IF os = "windows" THEN env ELSE [env EXCEPT !.libs = AtMostOne(@)]
  BY DEF PrintSystemLoaderInfo
<1>3. /\ Typed(Linux!PrintSystemLoaderInfo(<<folder, "link">>, used))
      /\ Typed(BSD!PrintSystemLoaderInfo(<<folder, "link">>, used))
      /\ Typed(Macos!PrintSystemLoaderInfo(<<folder, "link">>, used))
      /\ Sound(Windows!PrintSystemLoaderInfo(used = "link"))
      /\ folder # lost /\ used # lost =>
            /\ Sound(Linux!PrintSystemLoaderInfo(<<folder, "link">>, used))
            /\ Sound(Macos!PrintSystemLoaderInfo(<<folder, "link">>, used))
            /\ used = "unknown" => Sound(BSD!PrintSystemLoaderInfo(<<folder, "link">>, used))
  BY LoaderStep, Zenon
<1>4. slips \subseteq Slips /\ "link" \in Slips /\ own \in Slips
  BY Zenon DEF RInv, Answers, Slips
<1> HIDE DEF lost, own
<1>5. Typed(outcome(folder, used))
  BY <1>3, SystemIs, SoundIsTyped
<1>6. ~open(folder, used) /\ ~again(used) => Sound(outcome(folder, used))
  BY <1>3, SystemIs
<1> HIDE DEF outcome, open, again
<1>7. slips' \subseteq Slips /\ (slips' = {} => slips = {} /\ Sound(outcome(folder, used)))
  BY <1>1, <1>4, <1>6
<1>8. phase \notin {"driver", "ended", "crashed"} /\ "sdk" \in Phases \ {"ended", "crashed"}
  BY <1>2 DEF Phases
<1>9. /\ phase \in BeforeLayers /\ phase \notin BeforeDrivers
      /\ "sdk" \in BeforeLayers /\ "sdk" \notin BeforeDrivers
  BY <1>2, Enters
<1>10. ReportKept' /\ Answers'
  BY <1>1, <1>5, <1>7, <1>8, ReportsFit, Zenon
<1>11. start' = start /\ phase' = "sdk" /\ (failed' = failed \/ failed' = failed \cup {phase})
  BY <1>1, <1>2, Zenon DEF options, Reports
<1>12. EnvironmentKept'
  <2>1. /\ env \in Environment /\ Cut(env, start.env) /\ env.layers = start.env.layers
        /\ start.env \in Environment
    BY <1>9 DEF RInv, EnvironmentKept, Started
  <2>2. env.libs \in Nat /\ start.env.libs \in Nat /\ env.libs <= start.env.libs
    BY <2>1 DEF Environment, Cut
  <2>3. AtMostOne(env.libs) \in Nat /\ AtMostOne(env.libs) <= start.env.libs
    BY <2>2 DEF AtMostOne
  <2>4. /\ env' \in Environment /\ env'.icds = env.icds /\ env'.drivers = env.drivers
        /\ env'.layers = env.layers /\ env'.libs \in {env.libs, AtMostOne(env.libs)}
    BY <1>2, <2>1, <2>3 DEF Environment
  <2>5. Cut(env', start.env)
    BY <2>1, <2>2, <2>3, <2>4 DEF Cut
  <2> QED
    BY <1>9, <1>11, <2>1, <2>4, <2>5, Zenon DEF EnvironmentKept
<1>13. DriverKnown'
  <2>1. "driver" \in failed' <=> "driver" \in failed
    BY <1>8, <1>11
  <2> QED
    BY <1>2, <1>9, <1>11, <2>1, DriverKnowledgeKept, Zenon
<1>14. Collected' /\ phase' \in Phases
  BY <1>2, <1>8, <1>11, CollectedKept
<1> QED
  BY <1>2, <1>10, <1>12, <1>13, <1>14, StartedKept, Zenon DEF RInv

LEMMA SdkReported == ASSUME RInv, PrintSystemSdkInfo PROVE RInv'
<1> DEFINE outcome(variable, packaged) ==
             CASE os = "linux" -> Linux!PrintSystemSdkInfo(variable, packaged)
               [] os = "bsd" -> BSD!PrintSystemSdkInfo(variable, packaged)
               [] os = "macos" -> Macos!PrintSystemSdkInfo(variable, packaged)
               [] os = "windows" -> Windows!PrintSystemSdkInfo(variable)
<1>1. PICK variable \in {"unset", "nothing", "layers"}, packaged \in BOOLEAN :
         /\ Reports(outcome(variable, packaged), "implicit")
         /\ found_sdk' = outcome(variable, packaged).found_sdk
  BY Zenon DEF PrintSystemSdkInfo
<1>2. phase = "sdk" /\ UNCHANGED <<options, env, ran_tests, overrides, slips>>
  BY DEF PrintSystemSdkInfo
<1>3. Sound(outcome(variable, packaged)) /\ outcome(variable, packaged).found_sdk \in BOOLEAN
  BY SdkStep, SystemIs
<1> HIDE DEF outcome
<1>4. Typed(outcome(variable, packaged))
  BY <1>3, SoundIsTyped
<1>5. phase \notin {"driver", "ended", "crashed"} /\ "implicit" \in Phases \ {"ended", "crashed"}
  BY <1>2 DEF Phases
<1>6. /\ "implicit" \in BeforeDrivers <=> phase \in BeforeDrivers
      /\ "implicit" \in BeforeLayers => phase \in BeforeLayers
  BY <1>2, Enters
<1>7. Collected'
  BY <1>1, <1>2, <1>3 DEF RInv, Collected
<1> QED
  BY <1>1, <1>2, <1>3, <1>4, <1>5, <1>6, <1>7, StepKeeps, SlipsKept, Zenon

LEMMA ImplicitReported == ASSUME RInv, PrintSystemImplicitLayerInfo PROVE RInv'
<1> DEFINE outcome(layer) == CASE os = "linux" -> Linux!PrintSystemImplicitLayerInfo(layer)
                               [] os = "bsd" -> BSD!PrintSystemImplicitLayerInfo(layer)
                               [] os = "macos" -> Macos!PrintSystemImplicitLayerInfo(layer)
                               [] os = "windows" -> Windows!PrintSystemImplicitLayerInfo(layer)
<1>1. PICK layer \in Layers :
         /\ Reports(outcome(layer), "explicit")
         /\ overrides' = IF layer.readable THEN overrides \o layer.overrides ELSE overrides
  BY Zenon DEF PrintSystemImplicitLayerInfo
<1>2. phase = "implicit" /\ UNCHANGED <<options, env, found_sdk, ran_tests, slips>>
  BY DEF PrintSystemImplicitLayerInfo
<1>3. Sound(outcome(layer))
  BY ImplicitStep, SystemIs
<1> HIDE DEF outcome
<1>4. Typed(outcome(layer))
  BY <1>3, SoundIsTyped
<1>5. phase \notin {"driver", "ended", "crashed"} /\ "explicit" \in Phases \ {"ended", "crashed"}
  BY <1>2 DEF Phases
<1>6. /\ "explicit" \in BeforeDrivers <=> phase \in BeforeDrivers
      /\ "explicit" \in BeforeLayers => phase \in BeforeLayers
  BY <1>2, Enters
<1>7. Collected'
  <2>1. layer.overrides \in Seq(Seq(LayerManifests))
    BY <1>1, LayersAssumption
  <2> QED
    BY <1>1, <1>2, <2>1 DEF RInv, Collected
<1> QED
  BY <1>1, <1>2, <1>3, <1>4, <1>5, <1>6, <1>7, StepKeeps, SlipsKept, Zenon

LEMMA SettingsReported == ASSUME RInv, PrintSystemSettingsFileInfo PROVE RInv'
<1> DEFINE outcome(path_set, layers) ==
             CASE os = "linux" -> Linux!PrintSystemSettingsFileInfo(path_set, layers)
               [] os = "bsd" -> BSD!PrintSystemSettingsFileInfo(path_set, layers)
               [] os = "macos" -> Macos!PrintSystemSettingsFileInfo(path_set, layers)
               [] os = "windows" -> Windows!PrintSystemSettingsFileInfo(path_set, layers)
           next == IF results = "SUCCESSFUL" THEN "instance" ELSE "end"
<1>1. PICK path_set \in BOOLEAN, layers \in 0..1 : Reports(outcome(path_set, layers), next)
  BY Zenon DEF PrintSystemSettingsFileInfo
<1>2. phase = "settings" /\ UNCHANGED <<options, env, findings, slips>>
  BY DEF PrintSystemSettingsFileInfo
<1>3. Sound(outcome(path_set, layers))
  BY SettingsStep, SystemIs
<1> HIDE DEF outcome
<1>4. Typed(outcome(path_set, layers))
  BY <1>3, SoundIsTyped
<1>5. phase \notin {"driver", "ended", "crashed"} /\ next \in Phases \ {"ended", "crashed"}
  BY <1>2 DEF Phases
<1>6. /\ next \in BeforeDrivers <=> phase \in BeforeDrivers
      /\ next \in BeforeLayers => phase \in BeforeLayers
  BY <1>2, Enters
<1> HIDE DEF next
<1> QED
  BY <1>1, <1>2, <1>3, <1>4, <1>5, <1>6, StepKeeps, SlipsKept, CollectedKept, Zenon

LEMMA StandardFolders ==
    /\ << >> \in Seq(LayerManifests) /\ <<"unreadable", "library">> \in Seq(LayerManifests)
    /\ <<"no layer">> \in Seq(LayerManifests)
<1> DEFINE none == "no layer"
<1>1. "unreadable" \in LayerManifests /\ "library" \in LayerManifests /\ none \in LayerManifests
  BY Zenon DEF LayerManifests
<1> HIDE DEF none
<1>2. << >> \in Seq(LayerManifests) /\ <<none>> \in Seq(LayerManifests)
  BY <1>1
<1>3. <<"unreadable", "library">> \in Seq(LayerManifests)
  BY <1>1
<1> QED
  BY <1>2, <1>3, Zenon DEF none

LEMMA ExplicitReported == ASSUME RInv, PrintSystemExplicitLayerInfo PROVE RInv'
<1> DEFINE outcome(standard) ==
             CASE os = "linux" -> Linux!PrintSystemExplicitLayerInfo(overrides, env, standard)
               [] os = "bsd" -> BSD!PrintSystemExplicitLayerInfo(overrides, env, standard)
               [] os = "macos" -> Macos!PrintSystemExplicitLayerInfo(overrides, env, standard)
               [] os = "windows" -> Windows!PrintSystemExplicitLayerInfo(overrides, env)
           info(standard) == ExplicitLayers(overrides, env, standard)
<1>1. PICK standard \in {<< >>, <<"unreadable", "library">>, <<"no layer">>} :
         Reports(outcome(standard), "settings") /\ env' = outcome(standard).env
  BY Zenon DEF PrintSystemExplicitLayerInfo
<1>2. standard \in Seq(LayerManifests)
  BY StandardFolders, Zenon
<1>3. phase = "explicit" /\ UNCHANGED <<options, found_sdk, ran_tests, overrides, slips>>
  BY Zenon DEF PrintSystemExplicitLayerInfo
<1> DEFINE reported == outcome(standard)
<1>4. overrides \in Seq(Seq(LayerManifests)) /\ env \in Environment
  BY DEF RInv, Collected, EnvironmentKept
<1>5. /\ Sound(info(standard)) /\ info(standard).env \in Environment
      /\ info(standard).env.icds = env.icds /\ info(standard).env.drivers = env.drivers
      /\ info(standard).env.libs = env.libs /\ info(standard).env.layers = FirstOnly(env.layers)
  BY <1>2, <1>4, ExplicitStep, Zenon
<1>6. os # "windows" => reported = info(standard)
  BY <1>2, <1>4, ExplicitStep, SystemIs
<1>7. os = "windows" => Sound(reported) /\ reported.env = env
  <2>1. /\ Sound(Windows!PrintSystemExplicitLayerInfo(overrides, env))
        /\ Windows!PrintSystemExplicitLayerInfo(overrides, env).env = env
    BY <1>4, WindowsExplicit, Zenon
  <2> QED
    BY <2>1
<1>8. Reports(reported, "settings") /\ env' = reported.env
  BY <1>1, Zenon
<1> HIDE DEF outcome, info, reported
<1>9. Sound(reported)
  BY <1>5, <1>6, <1>7, Zenon
<1>10. phase \notin {"ended", "crashed", "driver"} /\ "settings" \notin {"ended", "crashed"}
       /\ "settings" \in Phases /\ "settings" \notin BeforeLayers /\ "settings" \notin BeforeDrivers
       /\ phase \in BeforeLayers /\ phase \notin BeforeDrivers
  BY <1>3, Enters DEF Phases
<1>11. ReportKept' /\ Answers'
  <2>1. Typed(reported)
    BY <1>9, SoundIsTyped
  <2> QED
    BY <1>3, <1>8, <1>9, <1>10, <2>1, ReportsFit, SlipsKept, Zenon
<1>12. start' = start /\ phase' = "settings" /\ (failed' = failed \/ failed' = failed \cup {phase})
  BY <1>3, <1>8 DEF options, Reports
<1>13. EnvironmentKept'
  <2>1. Cut(env, start.env) /\ env.layers = start.env.layers
    BY <1>10 DEF RInv, EnvironmentKept
  <2>2. IsPrefix(FirstOnly(env.layers), env.layers) /\ IsPrefix(env.layers, env.layers)
    <3>1. env.layers \in Seq(STRING)
      BY <1>4 DEF Environment
    <3> QED
      BY <3>1, CutShort
  <2>3. Cut(info(standard).env, start.env)
    BY <1>5, <2>1, <2>2, Zenon DEF Cut
  <2>4. env' \in Environment /\ Cut(env', start.env)
    BY <1>4, <1>5, <1>6, <1>7, <1>8, <2>1, <2>3, Zenon
  <2> QED
    BY <1>10, <1>12, <2>4, Zenon DEF EnvironmentKept
<1>14. DriverKnown'
  <2>1. "driver" \in failed' <=> "driver" \in failed
    BY <1>10, <1>12
  <2> QED
    BY <1>3, <1>10, <1>12, <2>1, DriverKnowledgeKept, Zenon
<1>15. Collected'
  BY <1>3 DEF RInv, Collected
<1>16. phase' \in Phases
  BY <1>10, <1>12
<1> QED
  BY <1>3, <1>11, <1>13, <1>14, <1>15, <1>16, StartedKept, Zenon DEF RInv

LEMMA InstanceReported == ASSUME RInv, GenerateInstanceInfo PROVE RInv'
<1> DEFINE outcome(result) == [script |-> Table(Row \o Row \o Row), result |-> result]
           next(result) == IF result = "SUCCESSFUL" THEN "physical" ELSE "end"
<1>1. PICK result \in {"VULKAN_FAILED_CREATE_INSTANCE", "VULKAN_CANT_FIND_EXTENSIONS", "SUCCESSFUL"} :
         Reports(outcome(result), next(result))
  BY Zenon DEF GenerateInstanceInfo
<1>2. phase = "instance" /\ UNCHANGED <<options, env, findings, slips>>
  BY DEF GenerateInstanceInfo
<1>3. Sound(outcome(result))
  <2>1. result \in Results
    BY <1>1, Zenon DEF Results
  <2> QED
    BY <2>1, FewRows, Zenon DEF Sound
<1> HIDE DEF outcome
<1>4. Typed(outcome(result))
  BY <1>3, SoundIsTyped
<1>5. phase \notin {"driver", "ended", "crashed"} /\ next(result) \in Phases \ {"ended", "crashed"}
  BY <1>2 DEF Phases
<1>6. (next(result) \in BeforeDrivers <=> phase \in BeforeDrivers)
      /\ (next(result) \in BeforeLayers => phase \in BeforeLayers)
  BY <1>2, Enters
<1> HIDE DEF next
<1> QED
  BY <1>1, <1>2, <1>3, <1>4, <1>5, <1>6, StepKeeps, SlipsKept, CollectedKept, Zenon

\* A list of devices that fails goes past the end of the table.
LEMMA PhysicalReported == ASSUME RInv, GeneratePhysDevInfo PROVE RInv'
<1> DEFINE outcome(fails, result) ==
             [script |-> IF fails THEN <<"table">> \o Row \o Row ELSE Table(Row \o Row),
              result |-> result]
           all == {"VULKAN_CANT_FIND_DRIVER", "VULKAN_CANT_FIND_EXTENSIONS", "SUCCESSFUL"}
<1>1. PICK fails \in BOOLEAN, result \in all :
         /\ Reports(outcome(fails, result), AfterPhysDevInfo(result))
         /\ slips' = IF fails THEN slips \cup {"physical"} ELSE slips
  BY Zenon DEF GeneratePhysDevInfo, PhysDevFails
<1> DEFINE reported == outcome(fails, result)
           next == AfterPhysDevInfo(result)
<1>2. phase = "physical" /\ UNCHANGED <<options, env, findings>>
  BY Zenon DEF GeneratePhysDevInfo
<1>3. /\ reported.script = (IF fails THEN <<"table">> \o Row \o Row ELSE Table(Row \o Row))
      /\ reported.result = result
  BY Zenon
<1>4. result \in Results
  BY <1>1, Zenon DEF Results
<1>5. next \in {"logical", "cleanup"}
  BY Zenon DEF AfterPhysDevInfo
<1>6. Reports(reported, next) /\ slips' = IF fails THEN slips \cup {"physical"} ELSE slips
  BY <1>1, Zenon
<1> HIDE DEF outcome, reported, next
<1>7. <<"table">> \o Row \o Row \in Seq(Pieces)
  <2>1. "table" \in Pieces
    BY Zenon DEF Pieces
  <2>2. <<"table">> \in Seq(Pieces)
    BY <2>1
  <2> QED
    BY <2>2, PiecesTogether
<1>8. Table(Row \o Row) \in Seq(Pieces)
  BY PiecesTogether, PiecesInTable
<1>9. Typed(reported) /\ (~fails => Sound(reported))
  BY <1>3, <1>4, <1>7, <1>8, FewRows, Zenon DEF Typed, Sound
<1>10. slips' \subseteq Slips /\ (slips' = {} => slips = {} /\ Sound(reported))
  <2>1. slips \subseteq Slips /\ "physical" \in Slips
    BY Zenon DEF RInv, Answers, Slips
  <2> QED
    BY <1>6, <1>9, <2>1
<1>11. phase \notin {"driver", "ended", "crashed"} /\ next \in Phases \ {"ended", "crashed"}
  BY <1>2, <1>5 DEF Phases
<1>12. /\ next \in BeforeDrivers <=> phase \in BeforeDrivers
       /\ next \in BeforeLayers => phase \in BeforeLayers
  BY <1>2, <1>5, Enters
<1> QED
  BY <1>2, <1>6, <1>9, <1>10, <1>11, <1>12, StepKeeps, CollectedKept, Zenon

LEMMA LogicalReported == ASSUME RInv, GenerateLogicalDeviceInfo PROVE RInv'
<1> DEFINE outcome(result) == [script |-> Table(Row \o Row), result |-> result]
<1>1. PICK result \in {"SUCCESSFUL", "VULKAN_FAILED_CREATE_DEVICE"} :
         Reports(outcome(result), "cleanup")
  BY Zenon DEF GenerateLogicalDeviceInfo, LogicalResult
<1>2. phase = "logical" /\ UNCHANGED <<options, env, findings, slips>>
  BY DEF GenerateLogicalDeviceInfo
<1>3. Sound(outcome(result))
  <2>1. result \in Results
    BY <1>1, Zenon DEF Results
  <2> QED
    BY <2>1, FewRows, Zenon DEF Sound
<1> HIDE DEF outcome
<1>4. Typed(outcome(result))
  BY <1>3, SoundIsTyped
<1>5. phase \notin {"driver", "ended", "crashed"} /\ "cleanup" \in Phases \ {"ended", "crashed"}
  BY <1>2 DEF Phases
<1>6. /\ "cleanup" \in BeforeDrivers <=> phase \in BeforeDrivers
      /\ "cleanup" \in BeforeLayers => phase \in BeforeLayers
  BY <1>2, Enters
<1> QED
  BY <1>1, <1>2, <1>3, <1>4, <1>5, <1>6, StepKeeps, SlipsKept, CollectedKept, Zenon

\* A step that reports nothing and leaves the results.
LEMMA QuietKeeps ==
    ASSUME RInv, ReportKept', UNCHANGED <<options, env, results, findings, failed, slips>>,
           phase \notin BeforeLayers, phase' \notin BeforeLayers, phase' \in Phases
    PROVE  RInv'
<1>1. phase \notin BeforeDrivers /\ phase' \notin BeforeDrivers /\ phase # "driver"
  BY Enters
<1>2. UNCHANGED options /\ UNCHANGED env /\ UNCHANGED findings /\ failed' = failed
  OBVIOUS
<1>3. EnvironmentKept'
  BY <1>1, <1>2, EnvironmentAlone, Zenon
<1>4. DriverKnown'
  BY <1>1, <1>2, DriverKnowledgeKept, Zenon
<1>5. Answers'
  BY Zenon DEF RInv, Answers
<1> QED
  BY <1>2, <1>3, <1>4, <1>5, StartedKept, CollectedKept, Zenon DEF RInv

LEMMA CleanupReported == ASSUME RInv, GenerateCleanupInfo PROVE RInv'
<1>1. phase = "cleanup" /\ UNCHANGED <<options, env, results, findings, failed, slips>>
  BY DEF GenerateCleanupInfo
<1>2. \/ report' = Written(report, <<"table">> \o Row) /\ phase' = "crashed"
      \/ report' = Written(report, Table(Row \o Row)) /\ phase' \in {"test", "end"}
  BY Zenon DEF GenerateCleanupInfo
<1>3. report \in AnyReport /\ (slips = {} => InDocument(report))
  BY <1>1 DEF RInv, ReportKept
<1>4. Row \o Row \in Rows
  BY RowsTogether
<1>5. ReportKept'
  <2>1. CASE report' = Written(report, <<"table">> \o Row) /\ phase' = "crashed"
    <3>1. <<"table">> \o Row \in Seq(Pieces)
      <4>1. "table" \in Pieces
        BY Zenon DEF Pieces
      <4>2. <<"table">> \in Seq(Pieces)
        BY <4>1
      <4> QED
        BY <4>2, PiecesTogether
    <3>2. report' \in AnyReport
      BY <1>3, <2>1, <3>1, WrittenTyped, Zenon
    <3> QED
      BY <2>1, <3>2 DEF ReportKept
  <2>2. CASE report' = Written(report, Table(Row \o Row)) /\ phase' \in {"test", "end"}
    <3>1. Table(Row \o Row) \in Seq(Pieces)
      BY <1>4, TableTyped
    <3>2. report' \in AnyReport
      BY <1>3, <2>2, <3>1, WrittenTyped, Zenon
    <3>3. slips = {} => InDocument(report')
      BY <1>3, <1>4, <2>2, TableFits, Zenon
    <3>4. phase' # "ended" /\ slips' = slips
      BY <1>1, <2>2
    <3> QED
      BY <3>2, <3>3, <3>4, Zenon DEF ReportKept
  <2> QED
    BY <1>2, <2>1, <2>2
<1>6. phase' \in {"crashed", "test", "end"}
  BY <1>2
<1>7. phase \notin BeforeLayers /\ phase' \notin BeforeLayers /\ phase' \in Phases
  BY <1>1, <1>6, Enters DEF Phases
<1> QED
  BY <1>1, <1>5, <1>7, QuietKeeps, Zenon

LEMMA EndReported == ASSUME RInv, GenerateInfoEnds PROVE RInv'
<1>1. /\ phase = "end" /\ phase' = "ended" /\ report' = EndOutput(report)
      /\ UNCHANGED <<options, env, results, findings, failed, slips>>
  BY DEF GenerateInfoEnds
<1>2. report \in AnyReport /\ (slips = {} => InDocument(report))
  BY <1>1 DEF RInv, ReportKept
<1>3. report' \in AnyReport
  BY <1>1, <1>2, EndTyped DEF EndOutput
<1>4. slips' = {} => WellFormed(report')
  BY <1>1, <1>2, DocumentEnds
<1>5. ReportKept'
  BY <1>1, <1>3, <1>4 DEF ReportKept
<1>6. phase \notin BeforeLayers /\ phase' \notin BeforeLayers /\ phase' \in Phases
  BY <1>1, Enters DEF Phases
<1> QED
  BY <1>1, <1>5, <1>6, QuietKeeps, Zenon

LEMMA TestReported == ASSUME RInv, GenerateTestInfo PROVE RInv'
<1> DEFINE text == [script |-> <<"text">>, result |-> "SUCCESSFUL"]
           ran(result) == [script |-> Table(Row \o Row), result |-> result]
           last == "end table"
           lost == [script |-> Row \o <<last>>, result |-> "TEST_FAILED"]
           none == "no test"
<1>1. phase = "test" /\ UNCHANGED <<options, env, found_sdk, overrides>>
  BY Zenon DEF GenerateTestInfo
<1>2. \/ Reports(text, "end") /\ UNCHANGED <<ran_tests, slips>>
      \/ \E result \in {"SUCCESSFUL", "TEST_FAILED"} :
            Reports(ran(result), "end") /\ ran_tests' = TRUE /\ UNCHANGED slips
      \/ Reports(lost, "end") /\ slips' = slips \cup {none} /\ UNCHANGED ran_tests
  BY Zenon DEF GenerateTestInfo
<1>3. Collected'
  BY <1>1, <1>2 DEF RInv, Collected
<1>4. phase \notin {"driver", "ended", "crashed"} /\ "end" \in Phases \ {"ended", "crashed"}
  BY <1>1 DEF Phases
<1>5. /\ "end" \in BeforeDrivers <=> phase \in BeforeDrivers
      /\ "end" \in BeforeLayers => phase \in BeforeLayers
  BY <1>1, Enters
<1>6. "SUCCESSFUL" \in Results /\ "TEST_FAILED" \in Results
  BY Zenon DEF Results
<1>7. Sound(text) /\ Typed(text)
  <2>1. Sound(text)
    BY <1>6, Zenon DEF Sound
  <2> QED
    BY <2>1, SoundIsTyped
<1>8. \A result \in {"SUCCESSFUL", "TEST_FAILED"} : Sound(ran(result)) /\ Typed(ran(result))
  <2> SUFFICES ASSUME NEW result \in {"SUCCESSFUL", "TEST_FAILED"}
               PROVE  Sound(ran(result)) /\ Typed(ran(result))
    OBVIOUS
  <2>1. Sound(ran(result))
    BY <1>6, FewRows, Zenon DEF Sound
  <2> QED
    BY <2>1, SoundIsTyped
<1>9. Typed(lost)
  <2>1. last \in Pieces
    BY Zenon DEF Pieces
  <2> HIDE DEF last
  <2>2. <<last>> \in Seq(Pieces)
    BY <2>1
  <2>3. Row \o <<last>> \in Seq(Pieces)
    BY <2>2, PiecesTogether
  <2> QED
    BY <1>6, <2>3, Zenon DEF Typed
<1>10. slips \subseteq Slips /\ none \in Slips
  BY Zenon DEF RInv, Answers, Slips
<1> HIDE DEF text, ran, lost, none
<1>11. CASE Reports(text, "end") /\ UNCHANGED <<ran_tests, slips>>
  <2>1. UNCHANGED slips
    BY <1>11
  <2> QED
    BY <1>1, <1>3, <1>4, <1>5, <1>7, <1>11, <2>1, StepKeeps, SlipsKept, Zenon
<1>12. ASSUME NEW result \in {"SUCCESSFUL", "TEST_FAILED"},
         Reports(ran(result), "end"), UNCHANGED slips
       PROVE  RInv'
  BY <1>1, <1>3, <1>4, <1>5, <1>8, <1>12, StepKeeps, SlipsKept, Zenon
<1>13. CASE Reports(lost, "end") /\ slips' = slips \cup {none}
  <2>1. slips' \subseteq Slips /\ slips' # {}
    BY <1>10, <1>13
  <2> QED
    BY <1>1, <1>3, <1>4, <1>5, <1>9, <1>13, <2>1, StepKeeps, Zenon
<1> QED
  BY <1>2, <1>11, <1>12, <1>13, Zenon

LEMMA RInvKept == ASSUME RInv, [Next]_vars PROVE RInv'
<1>1. CASE UNCHANGED vars
  <2>1. /\ UNCHANGED <<options, env, results, findings, failed, slips>>
        /\ phase' = phase /\ report' = report
    BY <1>1 DEF vars, options, findings
  <2>2. ReportKept'
    BY <2>1 DEF RInv, ReportKept
  <2>3. EnvironmentKept' /\ Answers'
    BY <2>1 DEF RInv, EnvironmentKept, Answers, options
  <2>4. DriverKnown'
    BY <2>1 DEF RInv, DriverKnown, DriverVerdict, NamedManifests, LibraryExists, InLibraryPath, options
  <2> QED
    BY <2>1, <2>2, <2>3, <2>4, StartedKept, CollectedKept, Zenon DEF RInv
<1> QED
  BY <1>1, EnvironmentReported, HardwareReported, ExecutableReported, DriversReported,
     LoaderReported, SdkReported, ImplicitReported, ExplicitReported, SettingsReported,
     InstanceReported, PhysicalReported, LogicalReported, CleanupReported, TestReported,
     EndReported, Zenon DEF Next

LEMMA RInvInitial == Init => RInv
<1> SUFFICES ASSUME Init PROVE RInv
  OBVIOUS
<1>1. PICK format \in Formats : report = StartOutput(format)
  BY DEF Init
<1>2. /\ phase = "environment" /\ slips = {} /\ failed = {} /\ results = "SUCCESSFUL"
      /\ env = start.env /\ os \in Systems /\ run_cube_tests \in BOOLEAN
      /\ found_sdk = FALSE /\ ran_tests = FALSE /\ overrides = << >>
      /\ start \in [env : Environments, drivers : DriverFolders]
  BY DEF Init
<1>3. Started
  BY <1>2, EnvironmentsAssumption, DriverFoldersAssumption DEF Started, Environment
<1>4. env \in Environment
  BY <1>2, <1>3 DEF Started
<1>5. Cut(env, env)
  <2>1. env.libs <= env.libs
    BY <1>4 DEF Environment
  <2> QED
    BY <1>4, <2>1, CutOnce
<1>6. EnvironmentKept
  BY <1>2, <1>4, <1>5 DEF EnvironmentKept
<1>7. InDocument(report) /\ report \in AnyReport
  BY <1>1, DocumentBegins DEF InDocument
<1>8. ReportKept
  BY <1>2, <1>7 DEF ReportKept
<1>9. Answers
  <2>1. "SUCCESSFUL" \in Results
    BY Zenon DEF Results
  <2> QED
    BY <1>2, <2>1 DEF Answers
<1>10. DriverKnown
  BY <1>2, Zenon DEF DriverKnown, DriverVerdict
<1>11. phase \in Phases
  BY <1>2 DEF Phases
<1>12. Collected
  <2>1. << >> \in Seq(Seq(LayerManifests))
    OBVIOUS
  <2> QED
    BY <1>2, <2>1, Zenon DEF Collected
<1> QED
  BY <1>3, <1>6, <1>8, <1>9, <1>10, <1>11, <1>12 DEF RInv

LEMMA ReportInvariance == Spec => []RInv
BY RInvInitial, RInvKept, PTL DEF Spec

\* A report that is finished is a document of its format, whatever the system
\* answers, but for the five paths that are known to print too much or too little.
THEOREM WellFormedReportCorrect == Spec => []WellFormedReport
<1>1. RInv => WellFormedReport
  BY DEF RInv, ReportKept, WellFormedReport
<1> QED
  BY <1>1, ReportInvariance, PTL

\* The step of the drivers fails exactly when no manifest that the system or the
\* environment names has a library where the loader looks for it, on Linux, the
\* BSDs and macOS, for any folders of any length, when VK_ICD_FILENAMES and
\* LD_LIBRARY_PATH name one thing each: a second one strtok may lose.
THEOREM DriverVerdictCorrect == Spec => []DriverVerdict
<1>1. RInv => DriverVerdict
  BY DEF RInv, DriverKnown
<1> QED
  BY <1>1, ReportInvariance, PTL

\* What via keeps has its type, and the environment is only ever cut shorter.
THEOREM TypeCorrect == Spec => []TypeOK
<1>1. RInv /\ IInv => TypeOK
  <2> SUFFICES ASSUME RInv, IInv PROVE TypeOK
    OBVIOUS
  <2>1. \A list \in {"icds", "drivers", "layers"} : IsPrefix(env[list], start.env[list])
    BY DEF RInv, EnvironmentKept, Cut
  <2>2. env.libs <= start.env.libs
    BY DEF RInv, EnvironmentKept, Cut
  <2>3. report.format \in Formats /\ report.good \in BOOLEAN
    BY DEF RInv, ReportKept, AnyReport
  <2>4. os \in Systems /\ run_cube_tests \in BOOLEAN /\ phase \in Phases
    BY DEF RInv, Started
  <2>5. found_sdk \in BOOLEAN /\ ran_tests \in BOOLEAN
    BY DEF RInv, Collected
  <2>6. results \in Results /\ failed \subseteq Phases /\ slips \subseteq Slips
    BY DEF RInv, Answers
  <2>7. one \in Vulkan /\ max \in Vulkan
    BY DEF IInv, VulkanTyped
  <2> QED
    BY <2>1, <2>2, <2>3, <2>4, <2>5, <2>6, <2>7, Zenon DEF TypeOK, Slips
<1> QED
  BY <1>1, ReportInvariance, Invariance, PTL
=============================================================================
