------------------------------ MODULE WritePPM ------------------------------
(***************************************************************************)
(* How the screenshot layer takes one screenshot: writePPM of              *)
(* layersvt/screenshot.cpp, one action per Vulkan call that may fail.      *)
(* While a present waits, it copies or blits the swapchain image (image1)  *)
(* into image2, and from there into image3 when the device cannot blit to  *)
(* a linear image, then reads the result.  The device executes what is     *)
(* submitted in its own time.                                              *)
(***************************************************************************)
EXTENDS Naturals, Sequences, FiniteSets

CONSTANTS
  Formats,      \* formats of swapchains: [channels, class, kind, order]
  ColorSpaces,  \* what the user may ask for: kinds, or "UNDEFINED"
  MaxFailures   \* bound on the calls that fail in one screenshot

Kinds == {"UNORM", "SRGB", "SNORM", "USCALED", "SSCALED", "UINT", "SINT"}

ASSUME FormatsAssumption ==
  /\ Formats \subseteq [channels : 1..4, class : {"8", "16", "24", "32", "64"},
                        kind : Kinds \cup {"other"}, order : {"RGBA", "other"}]
  /\ Formats # {}
ASSUME ColorSpacesAssumption ==
  ColorSpaces \subseteq Kinds \cup {"UNDEFINED"} /\ "UNDEFINED" \in ColorSpaces

Images == {"image1", "image2", "image3"}
Layouts == {"UNDEFINED", "RENDERING", "PRESENT_SRC", "TRANSFER_SRC",
            "TRANSFER_DST", "GENERAL"}
Calls == {"CreateImage2", "AllocateMemory2", "BindImageMemory2",
          "CreateImage3", "AllocateMemory3", "BindImageMemory3",
          "CreateCommandPool", "AllocateCommandBuffers", "pfn_dev_init",
          "BeginCommandBuffer", "EndCommandBuffer", "QueueSubmit",
          "QueueWaitIdle", "DeviceWaitIdle", "MapMemory", "open"}
Steps == Calls \cup {"enter", "check", "record", "write"}
Ends == {"aborted", "undefined"}

VARIABLES
  pc,        \* the step of writePPM that comes next
  shot,      \* what the present finds: image, user's choice, device, build
  live,      \* the Vulkan objects in data, of type WritePPMCleanupData
  commands,  \* the commands recorded so far
  file,      \* the screenshot
  failed,    \* the calls that failed in this screenshot
  images,    \* layout and contents of the images
  queue,     \* work on the queue writePPM submits to, the oldest first
  other,     \* work of the application on another queue
  executed,  \* how many of the commands the device has executed
  misused    \* a command found an image in a layout it does not name

vars == <<pc, shot, live, commands, file, failed, images, queue, other,
          executed, misused>>

\* Numeric class of a kind: integers blit to integers of their sign only.
Numeric(kind) == IF kind \in {"UINT", "SINT"} THEN kind ELSE "float"

\* Slip: a swapchain format of no kind gives no format.
DestKind_noFallback(format, user) ==
  IF user # "UNDEFINED" THEN user ELSE format.kind

\* The kind of destformat: the user's, else the swapchain's, else UNORM.
DestKind(format, user) ==
  IF user # "UNDEFINED" THEN user
  ELSE IF format.kind # "other" THEN format.kind ELSE "UNORM"

\* Slip: formats are compared by their kind alone.
DestFormat_kindOnly(format, user) ==
  [format EXCEPT !.kind = DestKind(format, user)]

\* destformat: R8G8B8A8 or R8G8B8, by the number of channels.
DestFormat(format, user) ==
  [channels |-> format.channels,
   class    |-> IF format.channels = 4 THEN "32" ELSE "24",
   kind     |-> DestKind(format, user),
   order    |-> "RGBA"]

dest == DestFormat(shot.format, shot.user)

\* The early returns on the format.
Supported ==
  /\ shot.format.channels \in {3, 4}
  /\ dest.class = shot.format.class

CanBlit == shot.bltLinear \/ shot.bltOptimal
copyOnly == dest = shot.format \/ ~CanBlit
need2steps == ~copyOnly /\ ~shot.bltLinear /\ shot.bltOptimal
FinalImage == IF need2steps THEN "image3" ELSE "image2"
FinalMapped == IF need2steps THEN "mem3mapped" ELSE "mem2mapped"

---------------------------------------------------------------------------
(* The device *)

Barrier(image, old, new) ==
  [op |-> "barrier", from |-> image, to |-> image, old |-> old, new |-> new]
Transfer(op, from, to) ==
  [op |-> op, from |-> from, to |-> to, old |-> "TRANSFER_SRC",
   new |-> "TRANSFER_DST"]

\* What a command does to the images.  A blit converts to the format of its
\* destination, a copy takes the bytes as they are.
Apply(contents, command) ==
  CASE command.op = "barrier" ->
         [contents EXCEPT ![command.to].layout = command.new]
    [] command.op = "copy" ->
         [contents EXCEPT ![command.to].holds = contents[command.from].holds,
                          ![command.to].order = contents[command.from].order]
    [] command.op = "blit" ->
         [contents EXCEPT ![command.to].holds = contents[command.from].holds,
                          ![command.to].order = dest.order]

\* The command names the layouts its images are in; anything may be UNDEFINED.
Fits(contents, command) ==
  IF command.op = "barrier"
    THEN command.old \in {"UNDEFINED", contents[command.to].layout}
    ELSE /\ contents[command.from].layout = command.old
         /\ contents[command.to].layout = command.new

Fresh == [layout |-> "UNDEFINED", holds |-> "garbage", order |-> "other"]

\* The application has acquired image1 and submitted its rendering.
Acquired(format) ==
  [layout |-> "RENDERING", holds |-> "garbage", order |-> format.order]

Rendered(contents) ==
  [contents EXCEPT !["image1"].layout = "PRESENT_SRC",
                   !["image1"].holds = "frame"]

\* The device takes the next step of the oldest work of the queue that writePPM
\* uses: it finishes the rendering, or executes one of the commands in their
\* order, and the copy is over with the last.
Execute ==
  /\ queue # <<>>
  /\ \/ /\ Head(queue) = "rendering"
        /\ queue' = Tail(queue)
        /\ images' = Rendered(images)
        /\ UNCHANGED <<executed, misused>>
     \/ /\ Head(queue) = "copy"
        /\ executed' = executed + 1
        /\ queue' = IF executed' = Len(commands) THEN Tail(queue) ELSE queue
        /\ images' = Apply(images, commands[executed'])
        /\ misused' = (misused \/ ~Fits(images, commands[executed']))
  /\ UNCHANGED <<pc, shot, live, commands, file, failed, other>>

ExecuteOther ==
  /\ other # <<>>
  /\ other' = Tail(other)
  /\ images' = Rendered(images)
  /\ UNCHANGED <<pc, shot, live, commands, file, failed, queue, executed, misused>>

---------------------------------------------------------------------------
(* writePPM *)

\* ~WritePPMCleanupData unmaps, frees and destroys what there is.
Cleaned(objects) ==
  objects \ {"mem2mapped", "mem2", "image2",
             "mem3mapped", "mem3", "image3", "buffer", "pool"}

\* An early return, or the end: the present goes on.
Return ==
  /\ pc' = "enter"
  /\ live' = Cleaned(live)

\* What an error does: the assertion ends a debug build, and a release build
\* returns where the code looks at err, and goes on where it does not.
Fail(call, checked, next) ==
  /\ Cardinality(failed) < MaxFailures
  /\ failed' = failed \cup {call}
  /\ IF shot.debug THEN pc' = "aborted" /\ UNCHANGED live
     ELSE IF checked THEN Return
     ELSE pc' = next /\ UNCHANGED live

Proceed(next, objects) ==
  /\ pc' = next
  /\ live' = live \cup objects
  /\ UNCHANGED failed

device == <<images, queue, other, executed, misused>>

\* A call that makes an object and whose result is looked at.
Make(call, object, next) ==
  /\ pc = call
  /\ Proceed(next, object) \/ Fail(call, TRUE, next)
  /\ UNCHANGED <<shot, commands, file, device>>

\* A call whose result is only asserted.
Asserted(call, next) ==
  /\ pc = call
  /\ Proceed(next, {}) \/ Fail(call, FALSE, next)
  /\ UNCHANGED <<shot, commands, file, device>>

\* A call on an object that does not exist, or not in the state it must be
\* in: what the driver does is undefined.
Misuse(call) ==
  /\ pc = call
  /\ pc' = "undefined"
  /\ UNCHANGED <<shot, live, commands, file, failed, device>>

\* A present of a due frame: any image, device, format the user chose, build,
\* and rendering on the queue of the screenshot or on another.
Enter ==
  /\ pc = "enter"
  /\ queue = <<>> /\ other = <<>>
  /\ \E format \in Formats, user \in ColorSpaces,
        bltLinear, bltOptimal, debug, known, hasQueue, sameQueue \in BOOLEAN :
       /\ shot' = [format |-> format, user |-> user, bltLinear |-> bltLinear,
                   bltOptimal |-> bltOptimal, debug |-> debug,
                   known |-> known, hasQueue |-> hasQueue,
                   sameQueue |-> sameQueue]
       /\ images' = [image \in Images |->
                       IF image = "image1" THEN Acquired(format) ELSE Fresh]
       /\ queue' = IF sameQueue THEN <<"rendering">> ELSE <<>>
       /\ other' = IF sameQueue THEN <<>> ELSE <<"rendering">>
  /\ pc' = "check"
  /\ file' = [written |-> FALSE, holds |-> "garbage", order |-> "other"]
  /\ commands' = <<>>
  /\ failed' = {}
  /\ executed' = 0
  /\ misused' = FALSE
  /\ UNCHANGED live

\* The image and the queue must be known, and the format convertible.
Check ==
  /\ pc = "check"
  /\ IF ~shot.known \/ ~shot.hasQueue THEN Return
     ELSE IF ~Supported /\ shot.debug THEN pc' = "aborted" /\ UNCHANGED live
     ELSE IF ~Supported THEN Return
     ELSE pc' = "CreateImage2" /\ UNCHANGED live
  /\ UNCHANGED <<shot, commands, file, failed, device>>

CreateImage2 == Make("CreateImage2", {"image2"}, "AllocateMemory2")
AllocateMemory2 == Make("AllocateMemory2", {"mem2"}, "BindImageMemory2")
BindImageMemory2 ==
  Make("BindImageMemory2", {},
       IF need2steps THEN "CreateImage3" ELSE "CreateCommandPool")
CreateImage3 == Make("CreateImage3", {"image3"}, "AllocateMemory3")
AllocateMemory3 == Make("AllocateMemory3", {"mem3"}, "BindImageMemory3")
BindImageMemory3 == Make("BindImageMemory3", {}, "CreateCommandPool")

CreateCommandPool ==
  /\ pc = "CreateCommandPool"
  /\ \/ Proceed("AllocateCommandBuffers", {"pool"})
     \/ Fail("CreateCommandPool", FALSE, "AllocateCommandBuffers")
  /\ UNCHANGED <<shot, commands, file, device>>

AllocateCommandBuffers ==
  IF "pool" \in live
    THEN Make("AllocateCommandBuffers", {"buffer"}, "pfn_dev_init")
    ELSE Misuse("AllocateCommandBuffers")

\* The loader, where it offers to, makes the buffer one that can be called.
pfn_dev_init == Asserted("pfn_dev_init", "BeginCommandBuffer")

BeginCommandBuffer ==
  IF "pfn_dev_init" \in failed
    THEN Misuse("BeginCommandBuffer")
    ELSE Asserted("BeginCommandBuffer", "record")

\* Slip: image2 is read in the layout it was written in.
Script_noSecondBarrier ==
  <<Barrier("image1", "PRESENT_SRC", "TRANSFER_SRC"),
    Barrier("image2", "UNDEFINED", "TRANSFER_DST"),
    Transfer(IF copyOnly THEN "copy" ELSE "blit", "image1", "image2")>>
  \o (IF need2steps
        THEN <<Barrier("image3", "UNDEFINED", "TRANSFER_DST"),
               Transfer("copy", "image2", "image3")>>
        ELSE <<>>)
  \o <<Barrier(FinalImage, "TRANSFER_DST", "GENERAL"),
       Barrier("image1", "TRANSFER_SRC", "PRESENT_SRC")>>

\* The commands, in the order of the code.
Script ==
  <<Barrier("image1", "PRESENT_SRC", "TRANSFER_SRC"),
    Barrier("image2", "UNDEFINED", "TRANSFER_DST"),
    Transfer(IF copyOnly THEN "copy" ELSE "blit", "image1", "image2")>>
  \o (IF need2steps
        THEN <<Barrier("image3", "UNDEFINED", "TRANSFER_DST"),
               Barrier("image2", "TRANSFER_DST", "TRANSFER_SRC"),
               Transfer("copy", "image2", "image3")>>
        ELSE <<>>)
  \o <<Barrier(FinalImage, "TRANSFER_DST", "GENERAL"),
       Barrier("image1", "TRANSFER_SRC", "PRESENT_SRC")>>

\* Recording needs a buffer that was begun, and a blit formats that convert.
Record ==
  /\ pc = "record"
  /\ IF \/ "BeginCommandBuffer" \in failed
        \/ ~copyOnly /\ Numeric(dest.kind) # Numeric(shot.format.kind)
       THEN pc' = "undefined" /\ UNCHANGED commands
       ELSE pc' = "EndCommandBuffer" /\ commands' = Script
  /\ UNCHANGED <<shot, live, file, failed, device>>

EndCommandBuffer == Asserted("EndCommandBuffer", "QueueSubmit")

\* The copy waits for none of the semaphores of the present.
QueueSubmit ==
  IF "EndCommandBuffer" \in failed THEN Misuse("QueueSubmit")
  ELSE /\ pc = "QueueSubmit"
       /\ \/ Proceed("QueueWaitIdle", {}) /\ queue' = Append(queue, "copy")
          \/ Fail("QueueSubmit", FALSE, "QueueWaitIdle") /\ UNCHANGED queue
       /\ UNCHANGED <<shot, commands, file, images, other, executed, misused>>

\* Slip: the wait does not wait.
QueueIdle_notWaiting == TRUE

QueueIdle == queue = <<>>

\* A wait returns when the queue has drained, or fails at once.
QueueWaitIdle ==
  /\ pc = "QueueWaitIdle"
  /\ \/ QueueIdle /\ Proceed("DeviceWaitIdle", {})
     \/ Fail("QueueWaitIdle", FALSE, "DeviceWaitIdle")
  /\ UNCHANGED <<shot, commands, file, device>>

\* Slip: the wait is for a fence that nobody signals.
DeviceIdle_fence == "fence" \in live

DeviceIdle == QueueIdle /\ other = <<>>

DeviceWaitIdle ==
  /\ pc = "DeviceWaitIdle"
  /\ \/ DeviceIdle /\ Proceed("MapMemory", {})
     \/ Fail("DeviceWaitIdle", FALSE, "MapMemory")
  /\ UNCHANGED <<shot, commands, file, device>>

\* MapMemory sets mem2mapped or mem3mapped.
MapMemory == Make("MapMemory", {FinalMapped}, "open")

OpenFile == Make("open", {}, "write")

\* The bytes of the final image as they are: three per pixel.
WriteFile ==
  /\ pc = "write"
  /\ file' = [written |-> TRUE, holds |-> images[FinalImage].holds,
              order |-> images[FinalImage].order]
  /\ Return
  /\ UNCHANGED <<shot, commands, failed, device>>

---------------------------------------------------------------------------

Init ==
  /\ pc = "enter"
  /\ shot \in {[format |-> CHOOSE format \in Formats : TRUE,
                user |-> "UNDEFINED", bltLinear |-> TRUE, bltOptimal |-> TRUE,
                debug |-> TRUE, known |-> FALSE, hasQueue |-> FALSE,
                sameQueue |-> TRUE]}
  /\ images = [image \in Images |-> Fresh]
  /\ file = [written |-> FALSE, holds |-> "garbage", order |-> "other"]
  /\ live = {} /\ failed = {}
  /\ commands = <<>> /\ queue = <<>> /\ other = <<>>
  /\ executed = 0 /\ misused = FALSE

Step ==
  \/ Check
  \/ CreateImage2 \/ AllocateMemory2 \/ BindImageMemory2
  \/ CreateImage3 \/ AllocateMemory3 \/ BindImageMemory3
  \/ CreateCommandPool \/ AllocateCommandBuffers
  \/ pfn_dev_init \/ BeginCommandBuffer \/ Record \/ EndCommandBuffer
  \/ QueueSubmit \/ QueueWaitIdle \/ DeviceWaitIdle
  \/ MapMemory \/ OpenFile \/ WriteFile

Next == Enter \/ Step \/ Execute \/ ExecuteOther

Spec == Init /\ [][Next]_vars

\* The thread of the present runs on, and the device finishes its work.
FairSpec ==
  Spec /\ WF_vars(Step) /\ WF_vars(Execute) /\ WF_vars(ExecuteOther)

---------------------------------------------------------------------------
(* Properties *)

Objects == {"image2", "mem2", "image3", "mem3", "pool", "buffer",
            "mem2mapped", "mem3mapped"}

\* Type invariant of writePPM: the format it converts to is always a known
\* one, also when neither the user nor the swapchain names its kind.
TypeOK ==
  /\ pc \in Steps \cup Ends
  /\ shot \in [format : Formats, user : ColorSpaces, bltLinear : BOOLEAN,
               bltOptimal : BOOLEAN, debug : BOOLEAN, known : BOOLEAN,
               hasQueue : BOOLEAN, sameQueue : BOOLEAN]
  /\ dest.kind \in Kinds
  /\ live \subseteq Objects
  /\ failed \subseteq Calls
  /\ images \in [Images -> [layout : Layouts, holds : {"garbage", "frame"},
                           order : {"RGBA", "other"}]]
  /\ \A n \in DOMAIN commands : commands[n].op \in {"barrier", "copy", "blit"}
  /\ queue \in Seq({"rendering", "copy"}) /\ other \in Seq({"rendering"})
  /\ executed \in 0..Len(commands)
  /\ file.written \in BOOLEAN /\ misused \in BOOLEAN

BothWaitsFailed == {"QueueWaitIdle", "DeviceWaitIdle"} \subseteq failed

NoCopy == queue \in {<<>>, <<"rendering">>}

\* "this function should silently fail without affecting the Present
\* operation": when writePPM returns, the device no longer uses what the
\* destructor freed.  One wait that fails is made up for by the other.
PresentUndisturbed == pc = "enter" => NoCopy \/ BothWaitsFailed

\* Every command finds its images in the layouts it names, on each of the
\* three ways through the device, when the application renders on the queue
\* of the screenshot; and once the device is idle the swapchain image is back
\* in the layout it is presented in, wherever the application renders.
LayoutsFit ==
  /\ shot.sameQueue => ~misused
  /\ (pc = "enter" /\ shot.known /\ DeviceIdle) =>
       images["image1"].layout = "PRESENT_SRC"

\* The file shows the frame that is presented, in the order of a PPM file
\* unless the device can blit to neither tiling, when the application renders
\* on the queue of the screenshot, the copy was submitted and a wait worked.
FileShowsFrame ==
  (file.written /\ shot.sameQueue /\ "QueueSubmit" \notin failed
     /\ ~BothWaitsFailed) =>
    /\ file.holds = "frame"
    /\ CanBlit => file.order = "RGBA"

\* The present is not held up for ever: the waits of writePPM end when the
\* device finishes the work it has.
Returns == pc # "enter" ~> pc \in {"enter"} \cup Ends

=============================================================================
