-------------------------- MODULE ScreenshotFrames --------------------------
(***************************************************************************)
(* The schedule of the screenshot layer (layersvt/screenshot.cpp): which   *)
(* frames are still to be captured.  It is process-wide state that every   *)
(* vkCreateInstance fills and every vkQueuePresentKHR consumes.            *)
(***************************************************************************)
EXTENDS ScreenshotRange, FiniteSets

CONSTANTS
  Options,       \* the options the user may have set
  MaxInstances,  \* bound on vkCreateInstance calls
  MaxFrame       \* bound on presents

ASSUME MaxInstancesAssumption == MaxInstances \in Nat
ASSUME MaxFrameAssumption == MaxFrame \in Nat

Kinds == {"none", "list", "all", "range"}

ASSUME OptionsAssumption ==
  \A option \in Options :
    /\ option \in [kind : Kinds, frames : SUBSET Nat, tokens : Seq(Int)]
    /\ IsFiniteSet(option.frames)

(* Implementation state *)
VARIABLES
  screenshotFrames,          \* frames of the list still to capture
  screenshotFramesReceived,  \* the option was read at least once
  screenShotFrameRange,      \* the range, valid until its last frame is captured
  frameNumber                \* static counter of vkQueuePresentKHR

(* The process around it *)
VARIABLES
  option,     \* VK_SCREENSHOT_FRAMES or the setting, fixed for the process
  instances,  \* vkCreateInstance calls so far
  shots       \* frames for which a screenshot was taken so far

(* History *)
VARIABLE
  carried     \* the last present carried a swapchain, see FrameCapture

vars == <<screenshotFrames, screenshotFramesReceived, screenShotFrameRange,
          frameNumber, option, instances, shots, carried>>

---------------------------------------------------------------------------

\* Slip: the range is forgotten.
NothingToTake_listOnly == screenshotFramesReceived /\ screenshotFrames = {}

\* The early return of vkGetDeviceQueue, vkCreateSwapchainKHR and
\* vkGetSwapchainImagesKHR: nothing is left to take.
NothingToTake ==
  /\ screenshotFramesReceived
  /\ screenshotFrames = {}
  /\ ~screenShotFrameRange.valid

\* vkQueuePresentKHR looks at the schedule at all.
Pending == screenshotFrames # {} \/ screenShotFrameRange.valid

ShotDue ==
  /\ Pending
  /\ \/ frameNumber \in screenshotFrames
     \/ isInScreenShotFrameRange(frameNumber, screenShotFrameRange)

\* Slip: the rest of the list is forgotten.
LastShot_rangeOnly ==
  ShotDue /\ isEndOfScreenShotFrameRange(frameNumber, screenShotFrameRange)

\* The screenshot of this frame is the last one, and the layer frees its maps.
LastShot ==
  /\ ShotDue
  /\ screenshotFrames \subseteq {frameNumber}
  /\ isEndOfScreenShotFrameRange(frameNumber, screenShotFrameRange)

Init ==
  /\ screenshotFrames = {}
  /\ screenshotFramesReceived = FALSE
  /\ screenShotFrameRange = NoRange
  /\ frameNumber = 0
  /\ option \in Options
  /\ instances = 0
  /\ shots = {}
  /\ carried = FALSE

\* populate_frame_list, which readScreenShotFrames calls unless there is
\* nothing to read.
populate_frame_list ==
  /\ screenshotFramesReceived' = (screenshotFramesReceived \/ option.kind # "none")
  /\ screenshotFrames' =
       IF option.kind = "list" THEN screenshotFrames \cup option.frames
       ELSE screenshotFrames
  /\ screenShotFrameRange' =
       IF isOptionBelongToScreenShotRange(option)
       THEN initScreenShotFrameRange(option, screenShotFrameRange)
       ELSE screenShotFrameRange

CreateInstance ==
  /\ instances < MaxInstances
  /\ instances' = instances + 1
  /\ populate_frame_list
  /\ UNCHANGED <<frameNumber, option, shots, carried>>

\* vkQueuePresentKHR with or without a swapchain to present.
QueuePresentKHR(swapchain) ==
  /\ instances > 0
  /\ frameNumber < MaxFrame
  /\ frameNumber' = frameNumber + 1
  /\ carried' = swapchain
  /\ shots' = IF ShotDue /\ swapchain THEN shots \cup {frameNumber} ELSE shots
  /\ screenshotFrames' = IF ShotDue THEN screenshotFrames \ {frameNumber}
                         ELSE screenshotFrames
  /\ screenShotFrameRange' = IF LastShot
                             THEN [screenShotFrameRange EXCEPT !.valid = FALSE]
                             ELSE screenShotFrameRange
  /\ UNCHANGED <<screenshotFramesReceived, option, instances>>

Next == CreateInstance \/ \E swapchain \in BOOLEAN : QueuePresentKHR(swapchain)

Spec == Init /\ [][Next]_vars

\* An application that renders presents again and again.
Rendering == WF_vars(\E swapchain \in BOOLEAN : QueuePresentKHR(swapchain))
FairSpec == Spec /\ Rendering
---------------------------------------------------------------------------
(* Properties                                                              *)

\* Types, and a range is never made valid half-initialised: it has a positive
\* interval, without which isInScreenShotFrameRange divides by 0.  A range that
\* was refused may well be left with an interval of 0.
TypeOK ==
  /\ screenshotFrames \in SUBSET Nat
  /\ IsFiniteSet(screenshotFrames)
  /\ screenshotFramesReceived \in BOOLEAN
  /\ screenShotFrameRange \in FrameRange
  /\ screenShotFrameRange.valid => screenShotFrameRange.interval > 0
  /\ frameNumber \in 0 .. MaxFrame
  /\ option \in Options
  /\ instances \in 0 .. MaxInstances
  /\ shots \in SUBSET (0 .. MaxFrame)
  /\ carried \in BOOLEAN

\* The early returns of the other handlers are sound: once NothingToTake lets
\* them stop tracking queues, swapchains and images, no later present is one the
\* documentation promises a screenshot of.
DoneMeansDone ==
  (instances > 0 /\ NothingToTake) =>
    \A frame \in frameNumber .. MaxFrame : ~Wanted(option, frame)

\* vkQueuePresentKHR frees the maps in the present that takes the last
\* screenshot.  It never does so while a later frame is still to be captured,
\* whatever other instance refilled the list or the range in between.
LastShotIsLast ==
  LastShot => \A frame \in frameNumber + 1 .. MaxFrame : ~Wanted(option, frame)

\* The list and the range the layer consumes, refills and ends capture exactly
\* what an immutable reading of the option asks for: every present of a wanted
\* frame that carries a swapchain, and no other, over any number of
\* vkCreateInstance calls.
Capture == INSTANCE FrameCapture
CapturesAsPromised == Capture!Spec

\* "<start>-0" and "<start>-0-<interval>" with a start other than 0: the one
\* kind of option the layer does not serve as promised.
LateUnlimited(opt) ==
  /\ opt.kind = "range"
  /\ RangeOf(opt).valid
  /\ RangeOf(opt).count = SCREEN_SHOT_FRAMES_UNLIMITED
  /\ RangeOf(opt).startFrame > 0

\* An option that asks for finitely many frames.
Finite(opt) ==
  \/ opt.kind = "list"
  \/ opt.kind = "range" /\ RangeOf(opt).count # SCREEN_SHOT_FRAMES_UNLIMITED
  \/ opt.kind = "range" /\ ~RangeOf(opt).valid

\* A finite option comes to an end in a process with one instance that keeps
\* presenting: the layer takes its last screenshot, frees its maps and stays out
\* of the way for good.
Disarms == (instances = 1 /\ Finite(option)) ~> [](instances = 1 /\ NothingToTake)
=============================================================================
