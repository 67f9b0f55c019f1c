----------------------------- MODULE Screenshot -----------------------------
(***************************************************************************)
(* The objects the screenshot layer tracks (layersvt/screenshot.cpp): its  *)
(* maps from Vulkan handles to what it must know to capture an image, and  *)
(* the way vkQueuePresentKHR uses them.  One application thread calls the  *)
(* layer, so each intercepted call is one step.                            *)
(*                                                                         *)
(* A device is known by its creation number, which also names the          *)
(* DispatchMapStruct the layer allocates for it.  Handles are what the     *)
(* maps are keyed by: the driver may give a new object the handle of a     *)
(* destroyed one.  A swapchain is known by its creation number too, which  *)
(* stands for its extent and format.                                       *)
(***************************************************************************)
EXTENDS ScreenshotRange, FiniteSets

CONSTANTS
  Options, MaxInstances, MaxFrame,  \* the schedule, see ScreenshotFrames
  Gpus,            \* VkPhysicalDevice handles
  Handles,         \* VkDevice, VkQueue and VkCommandBuffer handles
  GraphicsHandles, \* the ones that, as a queue, belong to a graphics family
  Swapchains,      \* VkSwapchainKHR handles
  Images,          \* VkImage handles
  MaxDevices,      \* bound on vkCreateDevice calls
  MaxSwapchains,   \* bound on vkCreateSwapchainKHR calls
  ReuseHandles,    \* the driver reuses handles of destroyed devices
  NDEBUG,          \* the layer is built without assertions
  Absent           \* no entry, or no object

ASSUME ScheduleAssumption ==
  /\ MaxInstances \in Nat /\ MaxFrame \in Nat
  /\ \A opt \in Options :
       /\ opt \in [kind : {"none", "list", "all", "range"},
                   frames : SUBSET Nat, tokens : Seq(Int)]
       /\ IsFiniteSet(opt.frames)
ASSUME BoundsAssumption ==
  MaxDevices \in Nat /\ MaxSwapchains \in Nat
ASSUME BuildAssumption == ReuseHandles \in BOOLEAN /\ NDEBUG \in BOOLEAN
ASSUME GraphicsAssumption == GraphicsHandles \subseteq Handles

(* What the maps hold, and what a swapchain is to its application *)
ImageLists ==
  UNION {{f \in [1 .. n -> Images] :
            \A i, j \in 1 .. n : i # j => f[i] # f[j]} : n \in 1 .. Cardinality(Images)}

DeviceEntry == [physicalDevice : Gpus, queues : SUBSET Handles]
SwapchainEntry ==
  [device : Handles, info : 1 .. MaxSwapchains, imageList : ImageLists \cup {Absent}]
ImageEntry == [device : Handles, info : 1 .. MaxSwapchains]
Swapchain == [id : 1 .. MaxSwapchains, device : Handles, images : ImageLists]

ASSUME AbsentAssumption ==
  Absent \notin DeviceEntry \cup SwapchainEntry \cup ImageEntry \cup Swapchain
               \cup ImageLists

(* Implementation state: the schedule *)
VARIABLES screenshotFrames, screenshotFramesReceived, screenShotFrameRange,
          frameNumber
(* Implementation state: the maps *)
VARIABLES
  dispatchMap,    \* handle -> the device whose table it points to, 0 for no entry
  deviceMap,      \* device handle -> physical device and queues
  physDeviceMap,  \* the physical devices that have an entry
  swapchainMap,   \* swapchain -> device, extent and format, images
  imageMap,       \* image -> device, extent and format
  allocated       \* the DispatchMapStructs not deleted yet

(* The application and the driver *)
VARIABLES
  option, instances, shots,  \* see ScreenshotFrames
  knownGpus,    \* physical devices the application may create a device on
  live,         \* handles of the devices that exist
  queues,       \* handles that were last a queue
  owner,        \* handle -> the last device it was, or belonged to; 0 for none
  devices,      \* vkCreateDevice calls so far
  swapchains,   \* swapchain handle -> the swapchain it is
  created,      \* vkCreateSwapchainKHR calls so far
  fault         \* why the process died, "none" while it runs

(* Observers *)
VARIABLES
  seenQueues,   \* queues last obtained while the layer was tracking them
  queried,      \* swapchains the application has all the images of
  captures      \* screenshots written so far

schedule == <<screenshotFrames, screenshotFramesReceived, screenShotFrameRange,
              frameNumber, option, instances, shots>>
maps == <<dispatchMap, deviceMap, physDeviceMap, swapchainMap, imageMap, allocated>>
app == <<knownGpus, live, queues, owner, devices, swapchains, created>>
seen == <<seenQueues, queried, captures>>
vars == <<schedule, maps, app, fault, seen>>

\* Every present here carries a swapchain.
Frames == INSTANCE ScreenshotFrames WITH carried <- frameNumber > 0

---------------------------------------------------------------------------
(* What exists                                                             *)

LiveDevices == {owner[device] : device \in live}

\* The driver can give handle h to a new object.
CanName(h) ==
  /\ owner[h] \notin LiveDevices
  /\ owner[h] = 0 \/ ReuseHandles

QueuesOf(device) == {h \in queues : owner[h] = owner[device]}

ImagesInUse ==
  UNION {{swapchains[s].images[i] : i \in DOMAIN swapchains[s].images} :
           s \in {t \in Swapchains : swapchains[t] # Absent}}

Init ==
  /\ Frames!Init
  /\ dispatchMap = [h \in Handles |-> 0]
  /\ deviceMap = [h \in Handles |-> Absent]
  /\ physDeviceMap = {}
  /\ swapchainMap = [s \in Swapchains |-> Absent]
  /\ imageMap = [i \in Images |-> Absent]
  /\ allocated = {}
  /\ knownGpus = {}
  /\ live = {}
  /\ queues = {}
  /\ owner = [h \in Handles |-> 0]
  /\ devices = 0
  /\ swapchains = [s \in Swapchains |-> Absent]
  /\ created = 0
  /\ fault = "none"
  /\ seenQueues = {}
  /\ queried = {}
  /\ captures = {}

Running == fault = "none"

\* The process dies in the layer, and takes no further step.
Die(why) ==
  /\ fault' = why
  /\ UNCHANGED <<schedule, maps, app, seen>>

---------------------------------------------------------------------------
(* Instances and devices                                                   *)

CreateInstance ==
  /\ Running
  /\ Frames!CreateInstance
  /\ UNCHANGED <<maps, app, fault, seen>>

\* A result other than VK_SUCCESS, as when the application asks for fewer
\* physical devices than there are, leaves physDeviceMap as it is.
EnumeratePhysicalDevices(gpus) ==
  /\ Running
  /\ instances > 0
  /\ knownGpus' = knownGpus \cup gpus
  /\ physDeviceMap' = IF gpus = Gpus THEN physDeviceMap \cup gpus ELSE physDeviceMap
  /\ UNCHANGED <<schedule, dispatchMap, deviceMap, swapchainMap, imageMap,
                 allocated, live, queues, owner, devices, swapchains, created,
                 fault, seen>>

\* physDeviceMap[gpu]->instance is read before anything else.
CreateDevice(gpu, device) ==
  /\ Running
  /\ gpu \in knownGpus
  /\ devices < MaxDevices
  /\ CanName(device)
  /\ IF gpu \notin physDeviceMap THEN Die("CreateDevice: physical device has no entry")
     ELSE IF ~NDEBUG /\ (deviceMap[device] # Absent \/ dispatchMap[device] # 0)
     THEN Die("CreateDevice: device has an entry")
     ELSE /\ devices' = devices + 1
          /\ live' = live \cup {device}
          /\ queues' = queues \ {device}
          /\ owner' = [owner EXCEPT ![device] = devices + 1]
          /\ allocated' = allocated \cup {devices + 1}
          /\ dispatchMap' = [dispatchMap EXCEPT ![device] = devices + 1]
          /\ deviceMap' = [deviceMap EXCEPT ![device] =
                             [physicalDevice |-> gpu, queues |-> {}]]
          /\ UNCHANGED <<schedule, physDeviceMap, swapchainMap, imageMap,
                         knownGpus, swapchains, created, fault, seen>>

\* The application has destroyed the device's swapchains by then.  The entries of
\* dispatchMap for the device, its queues and the layer's command buffers stay.
DestroyDevice(device) ==
  /\ Running
  /\ device \in live
  /\ \A s \in Swapchains : swapchains[s] # Absent => swapchains[s].device # device
  /\ live' = live \ {device}
  /\ allocated' = allocated \ {dispatchMap[device]}
  /\ deviceMap' = [deviceMap EXCEPT ![device] = Absent]
  /\ UNCHANGED <<schedule, dispatchMap, physDeviceMap, swapchainMap, imageMap,
                 knownGpus, queues, owner, devices, swapchains, created, fault, seen>>

\* Slip: an entry the queue's handle already has is kept.
GetDeviceQueue_keepEntry(device, queue) ==
  /\ Running
  /\ device \in live
  /\ queue \in QueuesOf(device) \/ CanName(queue)
  /\ queues' = queues \cup {queue}
  /\ owner' = [owner EXCEPT ![queue] = owner[device]]
  /\ ~Frames!NothingToTake
  /\ seenQueues' = seenQueues \cup {queue}
  /\ deviceMap' = [deviceMap EXCEPT ![device].queues = @ \cup {queue}]
  /\ dispatchMap' = [dispatchMap EXCEPT ![queue] = IF @ = 0 THEN dispatchMap[device] ELSE @]
  /\ UNCHANGED <<schedule, physDeviceMap, swapchainMap, imageMap, allocated,
                 knownGpus, live, devices, swapchains, created, fault,
                 queried, captures>>

\* vkGetDeviceQueue2 is the same call.
GetDeviceQueue(device, queue) ==
  /\ Running
  /\ device \in live
  /\ queue \in QueuesOf(device) \/ CanName(queue)
  /\ queues' = queues \cup {queue}
  /\ owner' = [owner EXCEPT ![queue] = owner[device]]
  /\ IF Frames!NothingToTake
     THEN /\ seenQueues' = IF queue \in QueuesOf(device) THEN seenQueues
                           ELSE seenQueues \ {queue}
          /\ UNCHANGED maps
     ELSE /\ seenQueues' = seenQueues \cup {queue}
          /\ deviceMap' = [deviceMap EXCEPT ![device].queues = @ \cup {queue}]
          /\ dispatchMap' = [dispatchMap EXCEPT ![queue] = dispatchMap[device]]
          /\ UNCHANGED <<physDeviceMap, swapchainMap, imageMap, allocated>>
  /\ UNCHANGED <<schedule, knownGpus, live, devices, swapchains, created, fault,
                 queried, captures>>

---------------------------------------------------------------------------
(* Swapchains                                                              *)

\* Slip: the entry of a destroyed swapchain with the same handle is kept.
CreateSwapchainKHR_keepEntry(device, s, images) ==
  /\ Running
  /\ device \in live
  /\ swapchains[s] = Absent
  /\ created < MaxSwapchains
  /\ \A i \in DOMAIN images : images[i] \notin ImagesInUse
  /\ created' = created + 1
  /\ swapchains' = [swapchains EXCEPT ![s] =
                      [id |-> created + 1, device |-> device, images |-> images]]
  /\ swapchainMap' = IF Frames!NothingToTake \/ swapchainMap[s] # Absent
                     THEN swapchainMap
                     ELSE [swapchainMap EXCEPT ![s] =
                             [device |-> device, info |-> created + 1,
                              imageList |-> Absent]]
  /\ UNCHANGED <<schedule, dispatchMap, deviceMap, physDeviceMap, imageMap,
                 allocated, knownGpus, live, queues, owner, devices, fault, seen>>

CreateSwapchainKHR(device, s, images) ==
  /\ Running
  /\ device \in live
  /\ swapchains[s] = Absent
  /\ created < MaxSwapchains
  /\ \A i \in DOMAIN images : images[i] \notin ImagesInUse
  /\ created' = created + 1
  /\ swapchains' = [swapchains EXCEPT ![s] =
                      [id |-> created + 1, device |-> device, images |-> images]]
  /\ swapchainMap' = IF Frames!NothingToTake THEN swapchainMap
                     ELSE [swapchainMap EXCEPT ![s] =
                             [device |-> device, info |-> created + 1,
                              imageList |-> Absent]]
  /\ UNCHANGED <<schedule, dispatchMap, deviceMap, physDeviceMap, imageMap,
                 allocated, knownGpus, live, queues, owner, devices, fault, seen>>

\* The layer does not intercept vkDestroySwapchainKHR.
DestroySwapchainKHR(s) ==
  /\ Running
  /\ swapchains[s] # Absent
  /\ swapchains' = [swapchains EXCEPT ![s] = Absent]
  /\ queried' = queried \ {s}
  /\ UNCHANGED <<schedule, maps, knownGpus, live, queues, owner, devices, created, fault,
                 seenQueues, captures>>

\* Slip: the images get no entries.
GetSwapchainImagesKHR_listOnly(s) ==
  /\ Running
  /\ swapchains[s] # Absent
  /\ queried' = queried \cup {s}
  /\ swapchainMap' = IF Frames!NothingToTake \/ swapchainMap[s] = Absent
                     THEN swapchainMap
                     ELSE [swapchainMap EXCEPT ![s].imageList = swapchains[s].images]
  /\ UNCHANGED <<schedule, dispatchMap, deviceMap, physDeviceMap, imageMap,
                 allocated, app, fault, seenQueues, captures>>

\* The call that returns all the images.  One that returns their number, or only
\* some of them with VK_INCOMPLETE, changes nothing.
GetSwapchainImagesKHR(s) ==
  /\ Running
  /\ swapchains[s] # Absent
  /\ queried' = queried \cup {s}
  /\ LET images == swapchains[s].images
         entry == swapchainMap[s]
     IN  IF Frames!NothingToTake \/ entry = Absent
         THEN UNCHANGED <<imageMap, swapchainMap>>
         ELSE /\ imageMap' = [i \in Images |->
                                IF \E n \in DOMAIN images : images[n] = i
                                THEN [device |-> entry.device, info |-> entry.info]
                                ELSE imageMap[i]]
              /\ swapchainMap' = [swapchainMap EXCEPT ![s].imageList = images]
  /\ UNCHANGED <<schedule, dispatchMap, deviceMap, physDeviceMap, allocated, app,
                 fault, seenQueues, captures>>

---------------------------------------------------------------------------
(* Presenting                                                              *)

\* The application may present image number n of swapchain s on the queue.
MayPresent(queue, s, n) ==
  /\ swapchains[s] # Absent
  /\ queue \in QueuesOf(swapchains[s].device)
  /\ n \in DOMAIN swapchains[s].images

\* The swapchain has no entry, or its imageList was never set.
Unset(s) ==
  \/ swapchainMap[s] = Absent
  \/ swapchainMap[s].imageList = Absent

ImageOf(s, n) == swapchainMap[s].imageList[n]

\* The first graphics queue in the order of the handles, else the last queue
\* looked at.
getQueueForScreenshot(device) ==
  IF deviceMap[device].queues \cap GraphicsHandles # {}
  THEN deviceMap[device].queues \cap GraphicsHandles
  ELSE deviceMap[device].queues

\* vkQueuePresentKHR calls writePPM, which knows the image.
Writing(s, n) ==
  /\ Frames!ShotDue
  /\ ~Unset(s)
  /\ imageMap[ImageOf(s, n)] # Absent

\* Its device has a queue to capture with; otherwise writePPM gives up.
Capturing(s, n) ==
  /\ Writing(s, n)
  /\ deviceMap[imageMap[ImageOf(s, n)].device] # Absent
  /\ deviceMap[imageMap[ImageOf(s, n)].device].queues # {}

\* The table of writePPM's command buffer: emplace keeps an entry that is there.
CommandTable(device, buffer) ==
  IF dispatchMap[buffer] = 0 THEN dispatchMap[device] ELSE dispatchMap[buffer]

\* writePPM follows an entry that is missing or whose table is deleted.
WriteDies(device, capturer, buffer) ==
  \/ deviceMap[device] = Absent
  \/ deviceMap[device].physicalDevice \notin physDeviceMap
  \/ /\ deviceMap[device].queues # {}
     /\ \/ dispatchMap[device] \notin allocated
        \/ dispatchMap[capturer] \notin allocated
        \/ CommandTable(device, buffer) \notin allocated

\* The queue writePPM submits to, and the handle the driver gives its command
\* buffer.
MayCapture(s, n, capturer, buffer) ==
  Capturing(s, n) =>
    LET device == imageMap[ImageOf(s, n)].device
    IN  /\ capturer \in getQueueForScreenshot(device)
        /\ \/ CanName(buffer)
           \/ owner[buffer] = owner[device] /\ buffer \notin queues \cup live

\* Why vkQueuePresentKHR dies, in the order it could.
PresentFault(queue, s, n, capturer, buffer) ==
  CASE dispatchMap[queue] = 0 -> "QueuePresentKHR: queue has no entry"
    [] dispatchMap[queue] # 0 /\ Frames!ShotDue /\ Unset(s) ->
         "QueuePresentKHR: swapchain images are not known"
    [] /\ dispatchMap[queue] # 0
       /\ Writing(s, n)
       /\ WriteDies(imageMap[ImageOf(s, n)].device, capturer, buffer) ->
         "writePPM: dead entry"
    [] OTHER -> IF dispatchMap[queue] \in allocated THEN "none"
                ELSE "QueuePresentKHR: queue has a dead entry"

\* A picture as large as the image's entry says; the copy and its failures are
\* left out.
writePPM(s, n, capturer, buffer) ==
  LET image == imageMap[ImageOf(s, n)]
  IN  /\ dispatchMap' = [dispatchMap EXCEPT ![buffer] = CommandTable(image.device, buffer)]
      /\ owner' = [owner EXCEPT ![buffer] = owner[image.device]]
      /\ queues' = queues \ {buffer}
      /\ captures' = captures \cup
           {[frame |-> frameNumber, of |-> swapchains[s].id,
             info |-> image.info, queue |-> capturer]}

QueuePresentKHR(queue, s, n, capturer, buffer) ==
  /\ Running
  /\ MayPresent(queue, s, n)
  /\ MayCapture(s, n, capturer, buffer)
  /\ IF PresentFault(queue, s, n, capturer, buffer) # "none"
     THEN Die(PresentFault(queue, s, n, capturer, buffer))
     ELSE /\ Frames!QueuePresentKHR(TRUE)
          /\ \/ Capturing(s, n) /\ writePPM(s, n, capturer, buffer)
             \/ ~Capturing(s, n) /\ UNCHANGED <<dispatchMap, owner, queues, captures>>
          /\ IF Frames!LastShot
             THEN /\ swapchainMap' = [t \in Swapchains |-> Absent]
                  /\ imageMap' = [i \in Images |-> Absent]
                  /\ physDeviceMap' = {}
             ELSE UNCHANGED <<swapchainMap, imageMap, physDeviceMap>>
          /\ UNCHANGED <<deviceMap, allocated, knownGpus, live, devices,
                         swapchains, created, fault, seenQueues, queried>>

Next ==
  \/ CreateInstance
  \/ \E gpus \in SUBSET Gpus : EnumeratePhysicalDevices(gpus)
  \/ \E gpu \in Gpus, device \in Handles : CreateDevice(gpu, device)
  \/ \E device \in Handles : DestroyDevice(device)
  \/ \E device, queue \in Handles : GetDeviceQueue(device, queue)
  \/ \E device \in Handles, s \in Swapchains, images \in ImageLists :
       CreateSwapchainKHR(device, s, images)
  \/ \E s \in Swapchains : DestroySwapchainKHR(s)
  \/ \E s \in Swapchains : GetSwapchainImagesKHR(s)
  \/ \E queue, capturer, buffer \in Handles, s \in Swapchains :
       \E n \in 1 .. Cardinality(Images) :
         QueuePresentKHR(queue, s, n, capturer, buffer)

Spec == Init /\ [][Next]_vars

---------------------------------------------------------------------------
(* Properties                                                              *)

\* Types; and the frames of the schedule.
TypeOK ==
  /\ Frames!TypeOK
  /\ dispatchMap \in [Handles -> 0 .. MaxDevices]
  /\ deviceMap \in [Handles -> DeviceEntry \cup {Absent}]
  /\ physDeviceMap \subseteq Gpus
  /\ swapchainMap \in [Swapchains -> SwapchainEntry \cup {Absent}]
  /\ imageMap \in [Images -> ImageEntry \cup {Absent}]
  /\ allocated \subseteq 1 .. MaxDevices
  /\ knownGpus \subseteq Gpus
  /\ live \subseteq Handles /\ queues \subseteq Handles
  /\ owner \in [Handles -> 0 .. MaxDevices]
  /\ devices \in 0 .. MaxDevices
  /\ created \in 0 .. MaxSwapchains
  /\ swapchains \in [Swapchains -> Swapchain \cup {Absent}]
  /\ seenQueues \subseteq Handles /\ queried \subseteq Swapchains

\* What a present may be: any queue and swapchain of one device.
Presents ==
  {p \in [queue : Handles, s : Swapchains, n : 1 .. Cardinality(Images),
          capturer : Handles, buffer : Handles] :
     /\ MayPresent(p.queue, p.s, p.n)
     /\ MayCapture(p.s, p.n, p.capturer, p.buffer)}

\* A queue obtained while the layer was tracking dispatches to the live table of
\* the device it belongs to now, however often its handle changed hands.
SeenQueuesDispatch ==
  Running =>
    \A queue \in seenQueues \cap queues :
      owner[queue] \in LiveDevices =>
        dispatchMap[queue] = owner[queue] /\ owner[queue] \in allocated

\* The image of a swapchain that the layer is about to capture is that
\* swapchain's, with its own device, extent and format: entries of destroyed
\* swapchains whose handles are in use again never leak into a screenshot.
CapturesOwnSwapchain == \A capture \in captures : capture.info = capture.of

\* An application that obtained its queue while screenshots were pending and has
\* all the images of the swapchain presents safely: no assertion, no missing
\* entry and no deleted table, before or after the last screenshot, across new
\* swapchains, devices and instances.
SeenPresentsSurvive ==
  Running =>
    \A p \in Presents :
      (p.queue \in seenQueues /\ p.s \in queried) =>
        PresentFault(p.queue, p.s, p.n, p.capturer, p.buffer) = "none"

\* ... and when its frame is due, it is captured.
DuePresentsCaptured ==
  (Running /\ Frames!ShotDue) =>
    \A p \in Presents :
      (p.queue \in seenQueues /\ p.s \in queried) => Capturing(p.s, p.n)
=============================================================================
