--------------------------- MODULE ScreenshotProofs ---------------------------
(***************************************************************************)
(* Proofs about the objects the screenshot layer tracks, for any set of    *)
(* options, handles and images, and any number of instances, devices,      *)
(* swapchains and presents.                                                *)
(*                                                                         *)
(* The argument has two halves.  The schedule is over (Done) before the    *)
(* layer stops tracking objects and when it frees its maps, and once over  *)
(* it stays over, whatever later instances read.  Until then the maps      *)
(* describe every object that is alive as it is now, so an entry of a dead *)
(* object that had the same handle is never the one that is looked up.     *)
(***************************************************************************)
EXTENDS Screenshot, FiniteSetTheorems, TLAPS

---------------------------------------------------------------------------
(* The invariant                                                           *)

ByRange == Frames!isOptionBelongToScreenShotRange(option)
RangeOfOption == Frames!RangeOf(option)

\* The range of the option ends before the next present.
RangeOver ==
  \/ ~RangeOfOption.valid
  \/ /\ Frames!getEndFrameOfRange(RangeOfOption) \in Int
     /\ Frames!getEndFrameOfRange(RangeOfOption) # Frames!SCREEN_SHOT_FRAMES_UNLIMITED
     /\ frameNumber > Frames!getEndFrameOfRange(RangeOfOption)

\* What is scheduled is what is left of the option, at any time.
Scheduled ==
  /\ instances = 0 => screenshotFrames = {} /\ ~screenShotFrameRange.valid
  /\ option.kind = "list" => screenshotFrames \subseteq option.frames
  /\ option.kind # "list" => screenshotFrames = {}
  /\ (option.kind = "list" /\ instances > 0) =>
       \A frame \in option.frames : frame >= frameNumber => frame \in screenshotFrames
  /\ ~ByRange => ~screenShotFrameRange.valid
  /\ (ByRange /\ instances > 0) =>
       \/ screenShotFrameRange = RangeOfOption
       \/ ~screenShotFrameRange.valid /\ RangeOver

\* No present from now on is one to capture, even if another instance fills the
\* list or the range again.
Done ==
  /\ instances > 0
  /\ option.kind = "list" => \A frame \in option.frames : frame < frameNumber
  /\ ByRange => RangeOver

\* Devices that exist have numbers of their own.
DevicesDistinct ==
  /\ knownGpus \cup live # {} => instances > 0
  /\ \A h \in Handles : owner[h] <= devices
  /\ \A device \in live : owner[device] > 0 /\ device \notin queues
  /\ \A device, other \in live : owner[device] = owner[other] => device = other

\* The entries of a device that exists, and of the queues found in its entry, are
\* its own; an entry it needs to be captured from is there as long as it matters.
DevicesTracked ==
  \A device \in live :
    /\ dispatchMap[device] = owner[device]
    /\ owner[device] \in allocated
    /\ deviceMap[device] # Absent
    /\ Done \/ deviceMap[device].physicalDevice \in physDeviceMap
    /\ \A queue \in deviceMap[device].queues :
         queue \in queues /\ owner[queue] = owner[device]
                          /\ dispatchMap[queue] = owner[device]

\* A queue obtained while the layer was tracking is in its device's entry.
QueuesTracked ==
  \A device \in live, queue \in seenQueues \cap queues :
    owner[queue] = owner[device] => queue \in deviceMap[device].queues

\* Swapchains that exist belong to a device that exists, and share no image.
SwapchainsDistinct ==
  \A s \in Swapchains :
    swapchains[s] # Absent =>
      /\ swapchains[s].device \in live
      /\ \A t \in Swapchains :
           (t # s /\ swapchains[t] # Absent) =>
             \A i \in DOMAIN swapchains[s].images, j \in DOMAIN swapchains[t].images :
               swapchains[s].images[i] # swapchains[t].images[j]

\* Entry s of swapchainMap and the entries of its images describe the swapchain
\* that has this handle now.
SwapchainTracked(s) ==
  /\ swapchainMap[s] # Absent
  /\ swapchainMap[s].device = swapchains[s].device
  /\ swapchainMap[s].info = swapchains[s].id
  /\ swapchainMap[s].imageList # Absent =>
       /\ swapchainMap[s].imageList = swapchains[s].images
       /\ \A n \in DOMAIN swapchains[s].images :
            imageMap[swapchains[s].images[n]] =
              [device |-> swapchains[s].device, info |-> swapchains[s].id]
  /\ s \in queried => swapchainMap[s].imageList # Absent

SwapchainsTracked ==
  /\ \A s \in queried : swapchains[s] # Absent
  /\ \A s \in Swapchains : swapchains[s] # Absent => Done \/ SwapchainTracked(s)

IInv ==
  /\ TypeOK
  /\ Scheduled
  /\ DevicesDistinct
  /\ DevicesTracked
  /\ QueuesTracked
  /\ SwapchainsDistinct
  /\ SwapchainsTracked
  /\ CapturesOwnSwapchain

\* Without reuse of handles, an entry of dispatchMap is that of the handle's owner.
EntriesOwned == \A h \in Handles : dispatchMap[h] \in {0, owner[h]}

---------------------------------------------------------------------------
(* The schedule                                                            *)

\* Whatever was in the structure before, it stays a range, and one that is made
\* valid has an interval that divides.
LEMMA RangeType ==
  ASSUME NEW opt \in Options, NEW range \in Frames!FrameRange
  PROVE  /\ Frames!initScreenShotFrameRange(opt, range) \in Frames!FrameRange
         /\ Frames!initScreenShotFrameRange(opt, range).valid =>
              Frames!initScreenShotFrameRange(opt, range).interval > 0
<1> DEFINE result == Frames!initScreenShotFrameRange(opt, range)
<1> SUFFICES /\ result \in Frames!FrameRange
             /\ result.valid => result.interval > 0
  OBVIOUS
<1>1. opt.tokens \in Seq(Int)
  BY ScheduleAssumption
<1>2. \A at \in Int : /\ Frames!ScanInt(opt.tokens, at).value \in Int
                      /\ Frames!ScanInt(opt.tokens, at).next \in Int
  <2> SUFFICES ASSUME NEW at \in Int
               PROVE  /\ Frames!ScanInt(opt.tokens, at).value \in Int
                      /\ Frames!ScanInt(opt.tokens, at).next \in Int
    OBVIOUS
  <2>1. CASE at > 0 /\ at <= Len(opt.tokens)
    <3>1. opt.tokens[at] \in Int
      BY <1>1, <2>1
    <3>2. at < Len(opt.tokens) => opt.tokens[at + 1] \in Int
      BY <1>1, <2>1
    <3> QED  BY <2>1, <3>1, <3>2 DEF Frames!ScanInt
  <2>2. CASE ~(at > 0 /\ at <= Len(opt.tokens))
    <3>1. Len(opt.tokens) \in Nat
      BY <1>1
    <3>2. ~(at > 0 /\ at < Len(opt.tokens))
      BY <2>2, <3>1
    <3> QED  BY <2>2, <3>2 DEF Frames!ScanInt
  <2> QED  BY <2>1, <2>2
<1>3. \A at \in Int : Frames!ScanDash(opt.tokens, at) \in Int
  BY DEF Frames!ScanDash
<1> DEFINE start == Frames!ScanInt(opt.tokens, 1)
           count == Frames!ScanInt(opt.tokens, Frames!ScanDash(opt.tokens, start.next))
           interval == Frames!ScanInt(opt.tokens, Frames!ScanDash(opt.tokens, count.next))
           scan == Frames!Scan(opt.tokens)
<1>4. start.value \in Int /\ count.value \in Int /\ interval.value \in Int
  BY <1>2, <1>3
<1>5. scan.start \in Int /\ scan.frameCount \in Int /\ scan.interval \in Int
  <2>1. /\ scan.start = start.value
        /\ scan.frameCount = count.value
        /\ scan.interval \in {interval.value, 1}
    BY DEF Frames!Scan, Frames!SCREEN_SHOT_FRAMES_INTERVAL_DEFAULT
  <2> QED  BY <1>4, <2>1
<1> HIDE DEF scan
<1>6. CASE result = [valid |-> TRUE, startFrame |-> 0, count |-> -1, interval |-> 1]
  <2> HIDE DEF result
  <2> QED  BY <1>6 DEF Frames!FrameRange
<1>7. CASE /\ Frames!Accepted(scan)
           /\ result = [valid |-> TRUE, startFrame |-> scan.start,
                        count |-> Frames!CountOfRange(scan.frameCount, scan.interval),
                        interval |-> scan.interval]
  <2> HIDE DEF result
  <2>1. /\ Frames!CountOfRange(scan.frameCount, scan.interval) \in Int
        /\ scan.interval > 0
    BY <1>5, <1>7 DEF Frames!Accepted, Frames!CountOfRange,
                      Frames!SCREEN_SHOT_FRAMES_UNLIMITED
  <2> QED  BY <1>5, <1>7, <2>1 DEF Frames!FrameRange
<1>8. CASE result = [range EXCEPT !.valid = FALSE]
  <2> HIDE DEF result
  <2> QED  BY <1>8 DEF Frames!FrameRange
<1>9. CASE result = Frames!Refused(scan, range)
  <2> HIDE DEF result
  <2> QED  BY <1>5, <1>9 DEF Frames!Refused, Frames!FrameRange
<1> QED  BY <1>6, <1>7, <1>8, <1>9 DEF Frames!initScreenShotFrameRange, scan,
            Frames!SCREEN_SHOT_FRAMES_UNLIMITED, Frames!SCREEN_SHOT_FRAMES_INTERVAL_DEFAULT

\* Parsing again gives the range of the first time: only what a refused string
\* leaves behind depends on what was there.
LEMMA ParsedAgain ==
  ASSUME NEW opt \in Options, NEW range \in Frames!FrameRange
  PROVE  /\ Frames!RangeOf(opt).valid =>
              Frames!initScreenShotFrameRange(opt, range) = Frames!RangeOf(opt)
         /\ ~Frames!RangeOf(opt).valid =>
              ~Frames!initScreenShotFrameRange(opt, range).valid
<1>1. Frames!NoRange \in Frames!FrameRange
  BY DEF Frames!NoRange, Frames!FrameRange, Frames!SCREEN_SHOT_FRAMES_UNLIMITED,
         Frames!SCREEN_SHOT_FRAMES_INTERVAL_DEFAULT
<1>2. /\ ~[range EXCEPT !.valid = FALSE].valid
      /\ ~[Frames!NoRange EXCEPT !.valid = FALSE].valid
      /\ ~Frames!Refused(Frames!Scan(opt.tokens), range).valid
      /\ ~Frames!Refused(Frames!Scan(opt.tokens), Frames!NoRange).valid
  BY <1>1 DEF Frames!FrameRange, Frames!Refused
<1> QED  BY <1>2 DEF Frames!RangeOf, Frames!initScreenShotFrameRange

\* The schedule's notion of a finite set is the one of the library's theorems.
LEMMA SameFiniteness == \A S : Frames!IsFiniteSet(S) <=> IsFiniteSet(S)
  BY DEF IsFiniteSet, Frames!IsFiniteSet

\* The schedule keeps its types.
LEMMA ScheduleInitType == Frames!Init => Frames!TypeOK
<1> SUFFICES ASSUME Frames!Init PROVE Frames!TypeOK
  OBVIOUS
<1>1. IsFiniteSet(screenshotFrames)
  BY FS_EmptySet DEF Frames!Init
<1>2. Frames!NoRange \in Frames!FrameRange /\ ~Frames!NoRange.valid
  BY DEF Frames!NoRange, Frames!FrameRange, Frames!SCREEN_SHOT_FRAMES_UNLIMITED,
         Frames!SCREEN_SHOT_FRAMES_INTERVAL_DEFAULT
<1>3. 0 \in 0 .. MaxInstances /\ 0 \in 0 .. MaxFrame
  BY ScheduleAssumption
<1>4. screenshotFrames \in SUBSET Nat /\ shots \in SUBSET (0 .. MaxFrame)
  BY DEF Frames!Init
<1> QED  BY <1>1, <1>2, <1>3, <1>4, SameFiniteness DEF Frames!Init, Frames!TypeOK

LEMMA ScheduleCreateType ==
  ASSUME Frames!TypeOK, Frames!CreateInstance
  PROVE  Frames!TypeOK'
<1>1. screenshotFrames' \in SUBSET Nat /\ IsFiniteSet(screenshotFrames')
  <2>1. option.frames \in SUBSET Nat /\ IsFiniteSet(option.frames)
    BY ScheduleAssumption DEF Frames!TypeOK
  <2>2. IsFiniteSet(screenshotFrames \cup option.frames)
    BY <2>1, FS_Union, SameFiniteness DEF Frames!TypeOK
  <2> QED  BY <2>1, <2>2, SameFiniteness DEF Frames!TypeOK, Frames!CreateInstance, Frames!populate_frame_list
<1>2. /\ screenShotFrameRange' \in Frames!FrameRange
      /\ screenShotFrameRange'.valid => screenShotFrameRange'.interval > 0
  BY RangeType DEF Frames!TypeOK, Frames!CreateInstance, Frames!populate_frame_list
<1>3. screenshotFramesReceived' \in BOOLEAN
  BY DEF Frames!TypeOK, Frames!CreateInstance, Frames!populate_frame_list
<1>4. /\ frameNumber' \in 0 .. MaxFrame /\ option' \in Options
      /\ instances' \in 0 .. MaxInstances /\ shots' \in SUBSET (0 .. MaxFrame)
  BY ScheduleAssumption DEF Frames!TypeOK, Frames!CreateInstance
<1> QED  BY <1>1, <1>2, <1>3, <1>4, SameFiniteness DEF Frames!TypeOK

LEMMA SchedulePresentType ==
  ASSUME Frames!TypeOK, Frames!QueuePresentKHR(TRUE)
  PROVE  Frames!TypeOK'
<1>1. screenshotFrames' \in SUBSET Nat /\ IsFiniteSet(screenshotFrames')
  <2>1. IsFiniteSet(screenshotFrames \ {frameNumber})
    BY FS_Subset, SameFiniteness DEF Frames!TypeOK
  <2> QED  BY <2>1, SameFiniteness DEF Frames!TypeOK, Frames!QueuePresentKHR
<1>2. /\ screenShotFrameRange' \in Frames!FrameRange
      /\ screenShotFrameRange'.valid => screenShotFrameRange'.interval > 0
  BY DEF Frames!TypeOK, Frames!QueuePresentKHR, Frames!FrameRange
<1>3. screenshotFramesReceived' \in BOOLEAN
  BY DEF Frames!TypeOK, Frames!QueuePresentKHR
<1>4. /\ frameNumber' \in 0 .. MaxFrame /\ option' \in Options
      /\ instances' \in 0 .. MaxInstances
  BY ScheduleAssumption DEF Frames!TypeOK, Frames!QueuePresentKHR
<1>5. shots' \in SUBSET (0 .. MaxFrame)
  BY DEF Frames!TypeOK, Frames!QueuePresentKHR
<1> QED  BY <1>1, <1>2, <1>3, <1>4, <1>5, SameFiniteness DEF Frames!TypeOK

\* Nothing is left to take only when the schedule is over.
LEMMA NothingToTakeIsDone ==
  ASSUME Frames!TypeOK, Scheduled, instances > 0, Frames!NothingToTake
  PROVE  Done
<1>1. option.kind = "list" => \A frame \in option.frames : frame < frameNumber
  <2> SUFFICES ASSUME option.kind = "list", NEW frame \in option.frames
               PROVE  frame < frameNumber
    OBVIOUS
  <2>1. frame \in Nat /\ frameNumber \in Nat
    BY ScheduleAssumption DEF Frames!TypeOK
  <2>2. ~(frame >= frameNumber)
    BY DEF Scheduled, Frames!NothingToTake
  <2> QED  BY <2>1, <2>2
<1>2. ByRange => RangeOver
  BY DEF Scheduled, Frames!NothingToTake, RangeOver
<1> QED  BY <1>1, <1>2 DEF Done

\* Once the schedule is over, no present is captured.
LEMMA DoneIsNotDue ==
  ASSUME Frames!TypeOK, Scheduled, Done
  PROVE  ~Frames!ShotDue
<1>1. frameNumber \in Nat
  BY ScheduleAssumption DEF Frames!TypeOK
<1>2. frameNumber \notin screenshotFrames
  BY <1>1 DEF Scheduled, Done
<1>3. ~Frames!isInScreenShotFrameRange(frameNumber, screenShotFrameRange)
  <2> SUFFICES ASSUME Frames!InRange(frameNumber, screenShotFrameRange) PROVE FALSE
    BY DEF Frames!isInScreenShotFrameRange
  <2>1. screenShotFrameRange.valid
    BY DEF Frames!InRange
  <2>2. screenShotFrameRange = RangeOfOption /\ RangeOver
    BY <2>1 DEF Scheduled, Done
  <2>3. /\ Frames!getEndFrameOfRange(screenShotFrameRange) \in Int
        /\ Frames!getEndFrameOfRange(screenShotFrameRange)
             # Frames!SCREEN_SHOT_FRAMES_UNLIMITED
        /\ frameNumber > Frames!getEndFrameOfRange(screenShotFrameRange)
    BY <2>1, <2>2 DEF RangeOver
  <2>4. screenShotFrameRange.count # Frames!SCREEN_SHOT_FRAMES_UNLIMITED
    BY <2>3 DEF Frames!getEndFrameOfRange
  <2> QED  BY <1>1, <2>3, <2>4 DEF Frames!InRange
<1> QED  BY <1>2, <1>3 DEF Frames!ShotDue

\* The present that captures the last frame ends the schedule.
LEMMA LastShotIsDone ==
  ASSUME Frames!TypeOK, Scheduled, Frames!LastShot, Frames!QueuePresentKHR(TRUE)
  PROVE  Done'
<1>1. /\ frameNumber \in Nat /\ frameNumber' = frameNumber + 1
      /\ instances > 0 /\ instances' = instances /\ option' = option
      /\ option \in Options
  BY ScheduleAssumption DEF Frames!TypeOK, Frames!QueuePresentKHR
<1>2. option.kind = "list" => \A frame \in option.frames : frame < frameNumber + 1
  <2> SUFFICES ASSUME option.kind = "list", NEW frame \in option.frames,
                      ~(frame < frameNumber + 1)
               PROVE  FALSE
    OBVIOUS
  <2>1. frame \in Nat
    BY <1>1, ScheduleAssumption
  <2>2. frame >= frameNumber /\ frame # frameNumber
    BY <1>1, <2>1
  <2> QED  BY <1>1, <2>2 DEF Scheduled, Frames!LastShot
<1>3. ByRange => RangeOver'
  <2> SUFFICES ASSUME ByRange PROVE RangeOver'
    OBVIOUS
  <2>1. RangeOfOption' = RangeOfOption
    BY <1>1 DEF RangeOfOption
  <2>2. CASE RangeOver
    BY <1>1, <2>1, <2>2 DEF RangeOver
  <2>3. CASE ~RangeOver
    <3>1. screenShotFrameRange = RangeOfOption
      BY <1>1, <2>3 DEF Scheduled
    <3>2. RangeOfOption.valid
      BY <2>3 DEF RangeOver
    <3>3. /\ Frames!getEndFrameOfRange(RangeOfOption) # Frames!SCREEN_SHOT_FRAMES_UNLIMITED
          /\ frameNumber >= Frames!getEndFrameOfRange(RangeOfOption)
      BY <3>1, <3>2 DEF Frames!LastShot, Frames!isEndOfScreenShotFrameRange
    <3>4. Frames!getEndFrameOfRange(RangeOfOption) \in Int
      BY <3>1 DEF Frames!TypeOK, Frames!FrameRange, Frames!getEndFrameOfRange,
                  Frames!SCREEN_SHOT_FRAMES_UNLIMITED
    <3> QED  BY <1>1, <2>1, <3>3, <3>4 DEF RangeOver
  <2> QED  BY <2>2, <2>3
<1>4. ByRange' <=> ByRange
  BY <1>1 DEF ByRange, Frames!isOptionBelongToScreenShotRange
<1> QED  BY <1>1, <1>2, <1>3, <1>4 DEF Done

\* What a step that leaves the schedule alone keeps of it.
LEMMA ScheduleUnchanged ==
  ASSUME UNCHANGED schedule
  PROVE  /\ Frames!TypeOK => Frames!TypeOK'
         /\ Scheduled => Scheduled'
         /\ Done' <=> Done
         /\ Frames!NothingToTake' <=> Frames!NothingToTake
<1>1. /\ option' = option /\ frameNumber' = frameNumber /\ instances' = instances
      /\ screenshotFrames' = screenshotFrames /\ shots' = shots
      /\ screenShotFrameRange' = screenShotFrameRange
      /\ screenshotFramesReceived' = screenshotFramesReceived
  BY DEF schedule
<1>2. /\ ByRange' <=> ByRange
      /\ RangeOfOption' = RangeOfOption
  BY <1>1 DEF ByRange, RangeOfOption, Frames!isOptionBelongToScreenShotRange
<1>3. RangeOver' <=> RangeOver
  BY <1>1, <1>2 DEF RangeOver
<1> QED  BY <1>1, <1>2, <1>3 DEF Frames!TypeOK, Scheduled, Done, Frames!NothingToTake

LEMMA ScheduledInitially == Frames!Init => Scheduled
<1> SUFFICES ASSUME Frames!Init PROVE Scheduled
  OBVIOUS
<1>1. screenshotFrames = {} /\ ~screenShotFrameRange.valid /\ instances = 0
  BY DEF Frames!Init, Frames!NoRange
<1> QED  BY <1>1 DEF Scheduled

\* Another instance refills the list and the range, and revives nothing that is
\* over.
LEMMA ScheduledCreate ==
  ASSUME Frames!TypeOK, Scheduled, Frames!CreateInstance
  PROVE  Scheduled' /\ (Done => Done')
<1>1. /\ instances' > 0 /\ instances' # 0
      /\ option' = option /\ frameNumber' = frameNumber
      /\ option.kind = "list" => screenshotFrames' = screenshotFrames \cup option.frames
      /\ option.kind # "list" => screenshotFrames' = screenshotFrames
  BY ScheduleAssumption DEF Frames!TypeOK, Frames!CreateInstance, Frames!populate_frame_list
<1>2. /\ (ByRange /\ RangeOfOption.valid) => screenShotFrameRange' = RangeOfOption
      /\ (ByRange /\ ~RangeOfOption.valid) => ~screenShotFrameRange'.valid /\ RangeOver
      /\ ~ByRange => screenShotFrameRange' = screenShotFrameRange
  BY ParsedAgain DEF Frames!TypeOK, Frames!CreateInstance, Frames!populate_frame_list,
                     ByRange, RangeOfOption, RangeOver
<1>3. /\ ByRange' <=> ByRange
      /\ RangeOfOption' = RangeOfOption
  BY <1>1 DEF ByRange, RangeOfOption, Frames!isOptionBelongToScreenShotRange
<1>4. RangeOver' <=> RangeOver
  BY <1>1, <1>3 DEF RangeOver
<1>5. Scheduled'
  BY <1>1, <1>2, <1>3, <1>4 DEF Scheduled
<1>6. Done => Done'
  BY <1>1, <1>3, <1>4 DEF Done
<1> QED  BY <1>5, <1>6

LEMMA ScheduledPresent ==
  ASSUME Frames!TypeOK, Scheduled, Frames!QueuePresentKHR(TRUE)
  PROVE  Scheduled' /\ (Done => Done')
<1>1. /\ instances' = instances /\ instances > 0 /\ instances # 0
      /\ option' = option /\ frameNumber' = frameNumber + 1
      /\ frameNumber \in Nat /\ option \in Options
  BY ScheduleAssumption DEF Frames!QueuePresentKHR, Frames!TypeOK
<1>2. /\ screenshotFrames' \subseteq screenshotFrames
      /\ \A frame \in screenshotFrames : frame # frameNumber => frame \in screenshotFrames'
  BY DEF Frames!QueuePresentKHR
<1>3. option.kind = "list" => option.frames \subseteq Nat
  BY <1>1, ScheduleAssumption
<1>4. /\ ByRange' <=> ByRange
      /\ RangeOfOption' = RangeOfOption
  BY <1>1 DEF ByRange, RangeOfOption, Frames!isOptionBelongToScreenShotRange
<1>5. RangeOver => RangeOver'
  BY <1>1, <1>4 DEF RangeOver
<1>6. Done => Done'
  <2>1. (option.kind = "list" /\ \A frame \in option.frames : frame < frameNumber) =>
          \A frame \in option.frames : frame < frameNumber + 1
    BY <1>1, <1>3
  <2> QED  BY <1>1, <1>4, <1>5, <2>1 DEF Done
<1>7. option.kind = "list" => \A frame \in option.frames :
        frame >= frameNumber + 1 => frame \in screenshotFrames'
  <2> SUFFICES ASSUME option.kind = "list", NEW frame \in option.frames,
                      frame >= frameNumber + 1
               PROVE  frame \in screenshotFrames'
    OBVIOUS
  <2>1. frame >= frameNumber /\ frame # frameNumber
    BY <1>1, <1>3
  <2> QED  BY <1>1, <1>2, <2>1 DEF Scheduled
<1>8. CASE Frames!LastShot
  <2>1. ~screenShotFrameRange'.valid
    BY <1>8 DEF Frames!QueuePresentKHR, Frames!TypeOK, Frames!FrameRange
  <2>2. ByRange => RangeOver'
    BY <1>4, <1>8, LastShotIsDone DEF Done
  <2>3. Scheduled'
    BY <1>1, <1>2, <1>4, <1>7, <2>1, <2>2 DEF Scheduled
  <2> QED  BY <1>6, <2>3
<1>9. CASE ~Frames!LastShot
  <2>1. screenShotFrameRange' = screenShotFrameRange
    BY <1>9 DEF Frames!QueuePresentKHR
  <2>2. Scheduled'
    BY <1>1, <1>2, <1>4, <1>5, <1>7, <2>1 DEF Scheduled
  <2> QED  BY <1>6, <2>2
<1> QED  BY <1>8, <1>9

---------------------------------------------------------------------------
(* Types                                                                   *)

\* The image a present captures is the swapchain's, and so is its entry.
LEMMA OwnImageWritten ==
  ASSUME TypeOK, Scheduled, SwapchainsTracked,
         NEW queue \in Handles, NEW s \in Swapchains, NEW n \in 1 .. Cardinality(Images),
         MayPresent(queue, s, n), Frames!ShotDue
  PROVE  /\ SwapchainTracked(s)
         /\ ~Unset(s) =>
              /\ ImageOf(s, n) \in Images
              /\ imageMap[ImageOf(s, n)] =
                   [device |-> swapchains[s].device, info |-> swapchains[s].id]
<1>1. swapchains[s] # Absent /\ n \in DOMAIN swapchains[s].images
  BY DEF MayPresent
<1>2. ~Done
  BY DoneIsNotDue DEF TypeOK
<1>3. SwapchainTracked(s)
  BY <1>1, <1>2 DEF SwapchainsTracked
<1>4. swapchains[s].images[n] \in Images
  <2>1. swapchains[s] \in Swapchain
    BY <1>1 DEF TypeOK
  <2>2. PICK m : swapchains[s].images \in [1 .. m -> Images]
    BY <2>1 DEF Swapchain, ImageLists
  <2> QED  BY <1>1, <2>2
<1> QED  BY <1>1, <1>3, <1>4 DEF SwapchainTracked, Unset, ImageOf

\* The death of the process changes nothing an invariant speaks of.
LEMMA DeathKeepsTypes ==
  ASSUME TypeOK, NEW why, Die(why)
  PROVE  TypeOK'
  BY ScheduleUnchanged DEF Die, TypeOK, maps, app, seen

LEMMA TypesInitially == Init => TypeOK
<1> SUFFICES ASSUME Init PROVE TypeOK
  OBVIOUS
<1>1. Frames!TypeOK
  BY ScheduleInitType DEF Init
<1>2. 0 \in 0 .. MaxDevices /\ 0 \in 0 .. MaxSwapchains
  BY BoundsAssumption
<1> QED  BY <1>1, <1>2 DEF Init, TypeOK

LEMMA TypesCreateDevice ==
  ASSUME TypeOK, NEW gpu \in Gpus, NEW device \in Handles, CreateDevice(gpu, device)
  PROVE  TypeOK'
<1>1. CASE \E why : Die(why)
  BY <1>1, DeathKeepsTypes
<1>2. CASE ~\E why : Die(why)
  <2>1. devices + 1 \in 0 .. MaxDevices /\ devices + 1 \in 1 .. MaxDevices
    <3>1. devices < MaxDevices
      BY DEF CreateDevice
    <3>2. devices \in 0 .. MaxDevices
      BY DEF TypeOK
    <3> QED  BY <3>1, <3>2, BoundsAssumption
  <2>2. [physicalDevice |-> gpu, queues |-> {}] \in DeviceEntry
    BY DEF DeviceEntry
  <2>3. Frames!TypeOK'
    BY <1>2, ScheduleUnchanged DEF TypeOK, CreateDevice
  <2>4. /\ devices' = devices + 1
        /\ live' = live \cup {device} /\ queues' = queues \ {device}
        /\ owner' = [owner EXCEPT ![device] = devices + 1]
        /\ allocated' = allocated \cup {devices + 1}
        /\ dispatchMap' = [dispatchMap EXCEPT ![device] = devices + 1]
        /\ deviceMap' = [deviceMap EXCEPT ![device] =
                           [physicalDevice |-> gpu, queues |-> {}]]
        /\ UNCHANGED <<physDeviceMap, swapchainMap, imageMap, knownGpus, swapchains,
                       created, seenQueues, queried>>
    BY <1>2 DEF CreateDevice, seen
  <2> QED  BY <2>1, <2>2, <2>3, <2>4 DEF TypeOK
<1> QED  BY <1>1, <1>2

LEMMA TypesDestroyDevice ==
  ASSUME TypeOK, NEW device \in Handles, DestroyDevice(device)
  PROVE  TypeOK'
<1>1. Frames!TypeOK'
  BY ScheduleUnchanged DEF TypeOK, DestroyDevice
<1>2. deviceMap' \in [Handles -> DeviceEntry \cup {Absent}]
  BY DEF TypeOK, DestroyDevice
<1> QED  BY <1>1, <1>2 DEF TypeOK, DestroyDevice, seen

LEMMA TypesGetDeviceQueue ==
  ASSUME TypeOK, NEW device \in Handles, NEW queue \in Handles,
         GetDeviceQueue(device, queue),
         deviceMap[device] # Absent
  PROVE  TypeOK'
<1>1. deviceMap' \in [Handles -> DeviceEntry \cup {Absent}]
  <2>1. deviceMap[device] \in DeviceEntry
    BY DEF TypeOK
  <2>2. [deviceMap[device] EXCEPT !.queues = @ \cup {queue}] \in DeviceEntry
    BY <2>1 DEF DeviceEntry
  <2> QED  BY <2>2 DEF TypeOK, GetDeviceQueue, maps
<1>2. dispatchMap' \in [Handles -> 0 .. MaxDevices]
  BY DEF TypeOK, GetDeviceQueue, maps
<1>3. owner' \in [Handles -> 0 .. MaxDevices]
  BY DEF TypeOK, GetDeviceQueue
<1>4. /\ queues' \subseteq Handles /\ seenQueues' \subseteq Handles
      /\ UNCHANGED <<physDeviceMap, swapchainMap, imageMap, allocated>>
  BY DEF TypeOK, GetDeviceQueue, maps
<1>5. Frames!TypeOK'
  BY ScheduleUnchanged DEF TypeOK, GetDeviceQueue
<1> QED  BY <1>1, <1>2, <1>3, <1>4, <1>5 DEF TypeOK, GetDeviceQueue

LEMMA TypesCreateSwapchain ==
  ASSUME TypeOK, NEW device \in Handles, NEW s \in Swapchains, NEW images \in ImageLists,
         CreateSwapchainKHR(device, s, images)
  PROVE  TypeOK'
<1>1. created + 1 \in 1 .. MaxSwapchains /\ created' \in 0 .. MaxSwapchains
  BY BoundsAssumption DEF TypeOK, CreateSwapchainKHR
<1>2. [id |-> created + 1, device |-> device, images |-> images] \in Swapchain
  BY <1>1 DEF Swapchain
<1>3. [device |-> device, info |-> created + 1, imageList |-> Absent] \in SwapchainEntry
  BY <1>1 DEF SwapchainEntry
<1>4. swapchains' \in [Swapchains -> Swapchain \cup {Absent}]
  BY <1>2 DEF TypeOK, CreateSwapchainKHR
<1>5. swapchainMap' \in [Swapchains -> SwapchainEntry \cup {Absent}]
  BY <1>3 DEF TypeOK, CreateSwapchainKHR
<1>6. Frames!TypeOK'
  BY ScheduleUnchanged DEF TypeOK, CreateSwapchainKHR
<1> QED  BY <1>1, <1>4, <1>5, <1>6 DEF TypeOK, CreateSwapchainKHR, seen

LEMMA TypesGetSwapchainImages ==
  ASSUME TypeOK, NEW s \in Swapchains, GetSwapchainImagesKHR(s)
  PROVE  TypeOK'
<1>1. swapchains[s].images \in ImageLists
  BY DEF TypeOK, GetSwapchainImagesKHR, Swapchain
<1>2. CASE Frames!NothingToTake \/ swapchainMap[s] = Absent
  <2>1. UNCHANGED <<imageMap, swapchainMap>>
    BY <1>2 DEF GetSwapchainImagesKHR
  <2> QED  BY <2>1, ScheduleUnchanged DEF TypeOK, GetSwapchainImagesKHR, app
<1>3. CASE ~(Frames!NothingToTake \/ swapchainMap[s] = Absent)
  <2>1. swapchainMap[s] \in SwapchainEntry
    BY <1>3 DEF TypeOK
  <2>2. [swapchainMap[s] EXCEPT !.imageList = swapchains[s].images] \in SwapchainEntry
    BY <1>1, <2>1 DEF SwapchainEntry
  <2>3. swapchainMap' = [swapchainMap EXCEPT ![s] =
                           [swapchainMap[s] EXCEPT !.imageList = swapchains[s].images]]
    BY <1>3 DEF GetSwapchainImagesKHR
  <2>4. swapchainMap' \in [Swapchains -> SwapchainEntry \cup {Absent}]
    BY <2>2, <2>3 DEF TypeOK
  <2>5. [device |-> swapchainMap[s].device, info |-> swapchainMap[s].info] \in ImageEntry
    BY <2>1 DEF SwapchainEntry, ImageEntry
  <2>6. imageMap' \in [Images -> ImageEntry \cup {Absent}]
    BY <1>3, <2>5 DEF TypeOK, GetSwapchainImagesKHR
  <2> QED  BY <2>4, <2>6, ScheduleUnchanged DEF TypeOK, GetSwapchainImagesKHR, app
<1> QED  BY <1>2, <1>3

LEMMA TypesPresent ==
  ASSUME TypeOK, Scheduled, SwapchainsTracked, NEW queue \in Handles, NEW capturer \in Handles, NEW buffer \in Handles,
         NEW s \in Swapchains, NEW n \in 1 .. Cardinality(Images),
         QueuePresentKHR(queue, s, n, capturer, buffer)
  PROVE  TypeOK'
<1>1. CASE \E why : Die(why)
  BY <1>1, DeathKeepsTypes
<1>2. CASE ~\E why : Die(why)
  <2>1. Frames!QueuePresentKHR(TRUE)
    BY <1>2 DEF QueuePresentKHR
  <2>2. Frames!TypeOK'
    BY <2>1, SchedulePresentType DEF TypeOK
  <2>3. /\ swapchainMap' \in [Swapchains -> SwapchainEntry \cup {Absent}]
        /\ imageMap' \in [Images -> ImageEntry \cup {Absent}]
        /\ physDeviceMap' \subseteq Gpus
    BY <1>2 DEF QueuePresentKHR, TypeOK
  <2>4. /\ dispatchMap' \in [Handles -> 0 .. MaxDevices]
        /\ owner' \in [Handles -> 0 .. MaxDevices]
        /\ queues' \subseteq Handles
    <3>1. CASE Capturing(s, n) /\ writePPM(s, n, capturer, buffer)
      <4> DEFINE image == imageMap[ImageOf(s, n)]
      <4>1. image.device \in Handles
        <5>1. Frames!ShotDue /\ ~Unset(s) /\ image # Absent
          BY <3>1 DEF Capturing, Writing
        <5>2. ImageOf(s, n) \in Images
          BY <5>1, OwnImageWritten DEF QueuePresentKHR
        <5>3. image \in ImageEntry
          BY <5>1, <5>2 DEF TypeOK
        <5> QED  BY <5>3 DEF ImageEntry
      <4>2. CommandTable(image.device, buffer) \in 0 .. MaxDevices
        BY <4>1 DEF CommandTable, TypeOK
      <4> QED  BY <3>1, <4>1, <4>2 DEF writePPM, TypeOK
    <3>2. CASE UNCHANGED <<dispatchMap, owner, queues, captures>>
      BY <3>2 DEF TypeOK
    <3> QED  BY <1>2, <3>1, <3>2 DEF QueuePresentKHR
  <2> QED  BY <1>2, <2>2, <2>3, <2>4 DEF QueuePresentKHR, TypeOK
<1> QED  BY <1>1, <1>2

LEMMA TypesKept ==
  ASSUME TypeOK, Scheduled, DevicesTracked, SwapchainsTracked, [Next]_vars
  PROVE  TypeOK'
<1>1. CASE CreateInstance
  <2>1. Frames!TypeOK'
    BY <1>1, ScheduleCreateType DEF CreateInstance, TypeOK
  <2> QED  BY <1>1, <2>1 DEF CreateInstance, TypeOK, maps, app, seen
<1>2. ASSUME NEW gpus \in SUBSET Gpus, EnumeratePhysicalDevices(gpus)
      PROVE  TypeOK'
  <2>1. Frames!TypeOK'
    BY <1>2, ScheduleUnchanged DEF EnumeratePhysicalDevices, TypeOK
  <2>2. knownGpus' \subseteq Gpus /\ physDeviceMap' \subseteq Gpus
    BY <1>2 DEF EnumeratePhysicalDevices, TypeOK
  <2> QED  BY <1>2, <2>1, <2>2 DEF EnumeratePhysicalDevices, TypeOK, seen
<1>3. ASSUME NEW gpu \in Gpus, NEW device \in Handles, CreateDevice(gpu, device)
      PROVE  TypeOK'
  BY <1>3, TypesCreateDevice
<1>4. ASSUME NEW device \in Handles, DestroyDevice(device)
      PROVE  TypeOK'
  BY <1>4, TypesDestroyDevice
<1>5. ASSUME NEW device \in Handles, NEW queue \in Handles, GetDeviceQueue(device, queue)
      PROVE  TypeOK'
  BY <1>5, TypesGetDeviceQueue DEF GetDeviceQueue, DevicesTracked
<1>6. ASSUME NEW device \in Handles, NEW s \in Swapchains, NEW images \in ImageLists,
             CreateSwapchainKHR(device, s, images)
      PROVE  TypeOK'
  BY <1>6, TypesCreateSwapchain
<1>7. ASSUME NEW s \in Swapchains, DestroySwapchainKHR(s)
      PROVE  TypeOK'
  BY <1>7, ScheduleUnchanged DEF DestroySwapchainKHR, TypeOK, maps
<1>8. ASSUME NEW s \in Swapchains, GetSwapchainImagesKHR(s)
      PROVE  TypeOK'
  BY <1>8, TypesGetSwapchainImages
<1>9. ASSUME NEW queue \in Handles, NEW capturer \in Handles, NEW buffer \in Handles,
             NEW s \in Swapchains, NEW n \in 1 .. Cardinality(Images),
             QueuePresentKHR(queue, s, n, capturer, buffer)
      PROVE  TypeOK'
  BY <1>9, TypesPresent
<1>10. CASE UNCHANGED vars
  BY <1>10, ScheduleUnchanged DEF vars, TypeOK, maps, app, seen
<1> QED  BY <1>1, <1>2, <1>3, <1>4, <1>5, <1>6, <1>7, <1>8, <1>9, <1>10 DEF Next

---------------------------------------------------------------------------
(* The steps                                                               *)

\* A step that is not one of the calls below leaves the devices and the
\* swapchains alone, or the process died in it.
Idle ==
  /\ UNCHANGED <<dispatchMap, deviceMap, physDeviceMap, swapchainMap, imageMap, allocated,
                 live, queues, owner, devices, swapchains, created, seen>>
  /\ knownGpus' = knownGpus
  /\ UNCHANGED schedule \/ Frames!CreateInstance

\* Every step, with what it does when the process survives it.
LEMMA Steps ==
  ASSUME [Next]_vars
  PROVE  \/ Idle
         \/ \E gpus \in SUBSET Gpus : EnumeratePhysicalDevices(gpus)
         \/ \E gpu \in Gpus, device \in Handles :
              CreateDevice(gpu, device) /\ gpu \in physDeviceMap /\ devices' = devices + 1
         \/ \E device \in Handles : DestroyDevice(device)
         \/ \E device, queue \in Handles : GetDeviceQueue(device, queue)
         \/ \E device \in Handles, s \in Swapchains, images \in ImageLists :
              CreateSwapchainKHR(device, s, images)
         \/ \E s \in Swapchains : DestroySwapchainKHR(s)
         \/ \E s \in Swapchains : GetSwapchainImagesKHR(s)
         \/ \E queue, capturer, buffer \in Handles, s \in Swapchains :
              \E n \in 1 .. Cardinality(Images) :
                /\ QueuePresentKHR(queue, s, n, capturer, buffer)
                /\ Frames!QueuePresentKHR(TRUE)
<1>1. CASE CreateInstance
  BY <1>1 DEF CreateInstance, Idle, maps, app
<1>2. CASE UNCHANGED vars
  BY <1>2 DEF vars, Idle, maps, app
<1>3. ASSUME NEW gpu \in Gpus, NEW device \in Handles, CreateDevice(gpu, device)
      PROVE  Idle \/ (gpu \in physDeviceMap /\ devices' = devices + 1)
  <2>1. ASSUME NEW why, Die(why) PROVE Idle
    BY <2>1 DEF Die, Idle, maps, app
  <2>2. (\E why : Die(why)) \/ (gpu \in physDeviceMap /\ devices' = devices + 1)
    BY <1>3, Zenon DEF CreateDevice
  <2> QED  BY <2>1, <2>2
<1>4. ASSUME NEW queue \in Handles, NEW capturer \in Handles, NEW buffer \in Handles,
             NEW s \in Swapchains, NEW n \in 1 .. Cardinality(Images),
             QueuePresentKHR(queue, s, n, capturer, buffer)
      PROVE  Idle \/ Frames!QueuePresentKHR(TRUE)
  BY <1>4 DEF QueuePresentKHR, Die, Idle, maps, app
<1> QED  BY <1>1, <1>2, <1>3, <1>4 DEF Next

\* The schedule is kept, and once over stays over.
LEMMA ScheduledKept ==
  ASSUME TypeOK, Scheduled, [Next]_vars
  PROVE  Scheduled' /\ (Done => Done')
<1>1. CASE UNCHANGED schedule
  BY <1>1, ScheduleUnchanged
<1>2. CASE Frames!CreateInstance
  BY <1>2, ScheduledCreate DEF TypeOK
<1>3. CASE Frames!QueuePresentKHR(TRUE)
  BY <1>3, ScheduledPresent DEF TypeOK
<1>4. UNCHANGED schedule \/ Frames!CreateInstance \/ Frames!QueuePresentKHR(TRUE)
  BY Steps DEF Idle, EnumeratePhysicalDevices, CreateDevice, Die, DestroyDevice,
               GetDeviceQueue, CreateSwapchainKHR, DestroySwapchainKHR, GetSwapchainImagesKHR
<1> QED  BY <1>1, <1>2, <1>3, <1>4

\* writePPM records a command buffer whose handle is no device's and no queue's,
\* and the capture of the swapchain by itself.
Records(s, capturer, buffer) ==
  /\ buffer \notin live
  /\ buffer \notin queues \/ owner[buffer] \notin LiveDevices
  /\ swapchains[s].device \in live
  /\ CanName(buffer) \/ owner[buffer] = owner[swapchains[s].device]
  /\ dispatchMap' = [dispatchMap EXCEPT
                       ![buffer] = CommandTable(swapchains[s].device, buffer)]
  /\ owner' = [owner EXCEPT ![buffer] = owner[swapchains[s].device]]
  /\ queues' = queues \ {buffer}
  /\ captures' = captures \cup
       {[frame |-> frameNumber, of |-> swapchains[s].id, info |-> swapchains[s].id,
         queue |-> capturer]}

\* What a present does: it records at most one command buffer, and frees the maps
\* only when the schedule is over.
LEMMA PresentEffects ==
  ASSUME TypeOK, Scheduled, SwapchainsDistinct, SwapchainsTracked,
         NEW queue \in Handles, NEW capturer \in Handles, NEW buffer \in Handles,
         NEW s \in Swapchains, NEW n \in 1 .. Cardinality(Images),
         QueuePresentKHR(queue, s, n, capturer, buffer), Frames!QueuePresentKHR(TRUE)
  PROVE  /\ UNCHANGED <<deviceMap, allocated, knownGpus, live, devices, swapchains,
                         created, seenQueues, queried, instances>>
         /\ ~Done' => UNCHANGED <<swapchainMap, imageMap, physDeviceMap>>
         /\ \/ UNCHANGED <<dispatchMap, owner, queues>> /\ captures' = captures
            \/ Records(s, capturer, buffer)
<1>1. PresentFault(queue, s, n, capturer, buffer) = "none"
  <2>1. frameNumber' # frameNumber
    <3>1. frameNumber \in Nat
      BY ScheduleAssumption DEF TypeOK, Frames!TypeOK
    <3> QED  BY <3>1 DEF Frames!QueuePresentKHR
  <2>2. \A why : ~Die(why)
    BY <2>1 DEF Die, schedule
  <2> QED  BY <2>2 DEF QueuePresentKHR
<1>2. /\ MayPresent(queue, s, n) /\ MayCapture(s, n, capturer, buffer)
      /\ \/ Capturing(s, n) /\ writePPM(s, n, capturer, buffer)
         \/ UNCHANGED <<dispatchMap, owner, queues, captures>>
      /\ ~Frames!LastShot => UNCHANGED <<swapchainMap, imageMap, physDeviceMap>>
      /\ UNCHANGED <<deviceMap, allocated, knownGpus, live, devices, swapchains, created,
                     seenQueues, queried>>
  BY <1>1 DEF QueuePresentKHR
<1>3. ~Done' => ~Frames!LastShot
  BY LastShotIsDone DEF TypeOK
<1>4. ASSUME Capturing(s, n), writePPM(s, n, capturer, buffer)
      PROVE  /\ buffer \notin live
             /\ buffer \notin queues \/ owner[buffer] \notin LiveDevices
             /\ swapchains[s].device \in live
             /\ CanName(buffer) \/ owner[buffer] = owner[swapchains[s].device]
             /\ imageMap[ImageOf(s, n)] =
                  [device |-> swapchains[s].device, info |-> swapchains[s].id]
  <2>1. imageMap[ImageOf(s, n)] =
          [device |-> swapchains[s].device, info |-> swapchains[s].id]
    BY <1>2, <1>4, OwnImageWritten DEF Capturing, Writing
  <2>2. swapchains[s].device \in live
    BY <1>2 DEF MayPresent, SwapchainsDistinct
  <2>3. \/ CanName(buffer)
        \/ owner[buffer] = owner[swapchains[s].device] /\ buffer \notin queues \cup live
    BY <1>2, <1>4, <2>1 DEF MayCapture
  <2> QED  BY <2>1, <2>2, <2>3 DEF CanName, LiveDevices
<1>5. instances' = instances
  BY DEF Frames!QueuePresentKHR
<1> QED  BY <1>2, <1>3, <1>4, <1>5 DEF writePPM, Records

---------------------------------------------------------------------------
(* Devices and queues                                                      *)

DeviceInv == TypeOK /\ Scheduled /\ DevicesDistinct /\ DevicesTracked /\ QueuesTracked
SwapchainInv == SwapchainsDistinct /\ SwapchainsTracked

\* What the devices need holds after a step that leaves them alone.
LEMMA DevicesUntouched ==
  ASSUME DeviceInv, Done => Done', instances > 0 => instances' > 0,
         UNCHANGED <<dispatchMap, deviceMap, allocated, live, queues, owner, devices>>,
         knownGpus' = knownGpus, physDeviceMap \subseteq physDeviceMap' \/ Done',
         seenQueues' \subseteq seenQueues
  PROVE  DevicesDistinct' /\ DevicesTracked' /\ QueuesTracked'
<1>1. DevicesDistinct'
  BY DEF DeviceInv, DevicesDistinct
<1>2. DevicesTracked'
  BY DEF DeviceInv, DevicesTracked
<1>3. QueuesTracked'
  BY DEF DeviceInv, QueuesTracked
<1> QED  BY <1>1, <1>2, <1>3

\* A new device has a number of its own, and a handle that names nothing alive.
LEMMA DevicesCreateDevice ==
  ASSUME DeviceInv, Done => Done',
         NEW gpu \in Gpus, NEW device \in Handles, CreateDevice(gpu, device),
         gpu \in physDeviceMap, devices' = devices + 1
  PROVE  DevicesDistinct' /\ DevicesTracked' /\ QueuesTracked'
<1>1. /\ live' = live \cup {device} /\ queues' = queues \ {device}
      /\ owner' = [owner EXCEPT ![device] = devices + 1]
      /\ allocated' = allocated \cup {devices + 1}
      /\ dispatchMap' = [dispatchMap EXCEPT ![device] = devices + 1]
      /\ deviceMap' = [deviceMap EXCEPT ![device] =
                         [physicalDevice |-> gpu, queues |-> {}]]
      /\ physDeviceMap' = physDeviceMap /\ knownGpus' = knownGpus
      /\ instances' = instances /\ seenQueues' = seenQueues
      /\ owner[device] \notin LiveDevices
      /\ gpu \in knownGpus
  <2>1. devices' # devices
    BY DEF DeviceInv, TypeOK
  <2>2. \A why : ~Die(why)
    BY <2>1 DEF Die, app
  <2>3. /\ live' = live \cup {device} /\ queues' = queues \ {device}
        /\ owner' = [owner EXCEPT ![device] = devices + 1]
        /\ allocated' = allocated \cup {devices + 1}
        /\ dispatchMap' = [dispatchMap EXCEPT ![device] = devices + 1]
        /\ deviceMap' = [deviceMap EXCEPT ![device] =
                           [physicalDevice |-> gpu, queues |-> {}]]
        /\ UNCHANGED <<schedule, physDeviceMap, swapchainMap, imageMap, knownGpus,
                       swapchains, created, fault, seen>>
    BY <2>2, Zenon DEF CreateDevice
  <2>4. gpu \in knownGpus /\ CanName(device)
    BY DEF CreateDevice
  <2> QED  BY <2>3, <2>4 DEF CanName, schedule, seen
<1>2. /\ devices \in Nat /\ owner \in [Handles -> Nat] /\ dispatchMap \in [Handles -> Nat]
      /\ live \subseteq Handles /\ queues \subseteq Handles
      /\ deviceMap \in [Handles -> DeviceEntry \cup {Absent}]
  BY DEF DeviceInv, TypeOK
<1>3. device \notin live
  BY <1>1 DEF LiveDevices
<1>4. /\ owner'[device] = devices + 1 /\ dispatchMap'[device] = devices + 1
      /\ deviceMap'[device] = [physicalDevice |-> gpu, queues |-> {}]
      /\ \A h \in Handles : h # device => /\ owner'[h] = owner[h]
                                          /\ dispatchMap'[h] = dispatchMap[h]
                                          /\ deviceMap'[h] = deviceMap[h]
  BY <1>1, <1>2
<1>5. \A h \in Handles : owner[h] <= devices /\ owner[h] # devices + 1
  BY <1>2 DEF DeviceInv, DevicesDistinct
<1>6. \A other \in live : other \in Handles /\ other # device
  BY <1>2, <1>3
<1>7. DevicesDistinct'
  <2>1. \A h \in Handles : owner'[h] <= devices + 1
    BY <1>2, <1>4, <1>5
  <2>2. \A d \in live' : owner'[d] > 0 /\ d \notin queues'
    BY <1>1, <1>2, <1>4, <1>6 DEF DeviceInv, DevicesDistinct
  <2>3. \A d, e \in live' : owner'[d] = owner'[e] => d = e
    BY <1>1, <1>4, <1>5, <1>6 DEF DeviceInv, DevicesDistinct
  <2>4. instances' > 0
    BY <1>1 DEF DeviceInv, DevicesDistinct
  <2> QED  BY <2>1, <2>2, <2>3, <2>4 DEF DevicesDistinct
<1>8. DevicesTracked'
  <2> SUFFICES ASSUME NEW d \in live'
               PROVE  /\ dispatchMap'[d] = owner'[d]
                      /\ owner'[d] \in allocated'
                      /\ deviceMap'[d] # Absent
                      /\ Done' \/ deviceMap'[d].physicalDevice \in physDeviceMap'
                      /\ \A queue \in deviceMap'[d].queues :
                           queue \in queues' /\ owner'[queue] = owner'[d]
                                             /\ dispatchMap'[queue] = owner'[d]
    BY DEF DevicesTracked
  <2>1. CASE d = device
    <3>1. [physicalDevice |-> gpu, queues |-> {}] # Absent
      BY AbsentAssumption DEF DeviceEntry
    <3> QED  BY <2>1, <3>1, <1>1, <1>4
  <2>2. CASE d # device
    <3>1. d \in live /\ d \in Handles /\ d # device
      BY <1>1, <1>2, <2>2
    <3>2. \A queue \in deviceMap[d].queues : queue \in Handles /\ queue # device
      <4>1. \A queue \in deviceMap[d].queues :
              queue \in queues /\ owner[queue] = owner[d]
        BY <3>1 DEF DeviceInv, DevicesTracked
      <4>2. owner[device] # owner[d]
        BY <1>1, <3>1 DEF LiveDevices
      <4> QED  BY <1>2, <4>1, <4>2
    <3> QED  BY <1>1, <1>4, <3>1, <3>2 DEF DeviceInv, DevicesTracked
  <2> QED  BY <2>1, <2>2
<1>9. QueuesTracked'
  <2> SUFFICES ASSUME NEW d \in live', NEW queue \in seenQueues' \cap queues',
                      owner'[queue] = owner'[d]
               PROVE  queue \in deviceMap'[d].queues
    BY DEF QueuesTracked
  <2>1. queue \in Handles /\ queue # device
    BY <1>1, <1>2
  <2>2. d # device
    BY <1>4, <1>5, <2>1
  <2> QED  BY <1>1, <1>4, <1>6, <2>1, <2>2 DEF DeviceInv, QueuesTracked
<1> QED  BY <1>7, <1>8, <1>9

\* Destroying a device deletes its table only.
LEMMA DevicesDestroyDevice ==
  ASSUME DeviceInv, Done' <=> Done, NEW device \in Handles, DestroyDevice(device)
  PROVE  DevicesDistinct' /\ DevicesTracked' /\ QueuesTracked'
<1>1. /\ device \in live /\ live' = live \ {device}
      /\ allocated' = allocated \ {owner[device]}
      /\ deviceMap' = [deviceMap EXCEPT ![device] = Absent]
      /\ UNCHANGED <<dispatchMap, physDeviceMap, knownGpus, queues, owner, devices,
                     seenQueues, instances>>
  <2>1. device \in live /\ dispatchMap[device] = owner[device]
    BY DEF DestroyDevice, DeviceInv, DevicesTracked
  <2> QED  BY <2>1 DEF DestroyDevice, schedule, seen
<1>2. \A d \in live' : d \in live /\ deviceMap'[d] = deviceMap[d] /\ owner[d] # owner[device]
  BY <1>1 DEF DeviceInv, TypeOK, DevicesDistinct
<1>3. DevicesDistinct'
  BY <1>1 DEF DeviceInv, DevicesDistinct
<1>4. DevicesTracked'
  BY <1>1, <1>2 DEF DeviceInv, DevicesTracked
<1>5. QueuesTracked'
  BY <1>1, <1>2 DEF DeviceInv, QueuesTracked
<1> QED  BY <1>3, <1>4, <1>5

\* A queue becomes the device's, and its entry with it while the layer is
\* tracking; it was nobody else's.
LEMMA DevicesGetDeviceQueue ==
  ASSUME DeviceInv, Done' <=> Done,
         NEW device \in Handles, NEW queue \in Handles, GetDeviceQueue(device, queue)
  PROVE  DevicesDistinct' /\ DevicesTracked' /\ QueuesTracked'
<1>1. /\ owner \in [Handles -> Nat] /\ dispatchMap \in [Handles -> Nat]
      /\ live \subseteq Handles /\ queues \subseteq Handles
      /\ deviceMap \in [Handles -> DeviceEntry \cup {Absent}]
  BY DEF DeviceInv, TypeOK
<1>2. /\ device \in live
      /\ queue \in QueuesOf(device) \/ owner[queue] \notin LiveDevices
      /\ queues' = queues \cup {queue}
      /\ owner' = [owner EXCEPT ![queue] = owner[device]]
      /\ UNCHANGED <<live, devices, knownGpus, instances>>
  BY DEF GetDeviceQueue, CanName, schedule
<1>3. queue \notin live
  BY <1>2 DEF QueuesOf, LiveDevices, DeviceInv, DevicesDistinct
<1>4. /\ owner'[queue] = owner[device]
      /\ \A h \in Handles : h # queue => owner'[h] = owner[h]
      /\ \A d \in live : d # queue /\ owner'[d] = owner[d]
  BY <1>1, <1>2, <1>3
<1>5. \A d \in live : owner[queue] = owner[d] => d = device /\ queue \in queues
  BY <1>2 DEF QueuesOf, LiveDevices, DeviceInv, DevicesDistinct
<1>6. DevicesDistinct'
  <2>1. \A h \in Handles : owner'[h] <= devices'
    BY <1>1, <1>2, <1>4 DEF DeviceInv, DevicesDistinct
  <2>2. \A d \in live' : owner'[d] > 0 /\ d \notin queues'
    BY <1>1, <1>2, <1>3, <1>4 DEF DeviceInv, DevicesDistinct
  <2>3. \A d, e \in live' : owner'[d] = owner'[e] => d = e
    BY <1>2, <1>4 DEF DeviceInv, DevicesDistinct
  <2> QED  BY <1>2, <2>1, <2>2, <2>3 DEF DeviceInv, DevicesDistinct
<1>7. CASE Frames!NothingToTake
  <2>1. /\ UNCHANGED maps
        /\ seenQueues' = IF queue \in QueuesOf(device) THEN seenQueues
                         ELSE seenQueues \ {queue}
    BY <1>7 DEF GetDeviceQueue
  <2>2. UNCHANGED <<dispatchMap, deviceMap, physDeviceMap, allocated>>
    BY <2>1 DEF maps
  <2>3. DevicesTracked'
    <3> SUFFICES ASSUME NEW d \in live
                 PROVE  /\ dispatchMap[d] = owner'[d]
                        /\ owner'[d] \in allocated
                        /\ deviceMap[d] # Absent
                        /\ Done \/ deviceMap[d].physicalDevice \in physDeviceMap
                        /\ \A q \in deviceMap[d].queues :
                             q \in queues' /\ owner'[q] = owner'[d]
                                           /\ dispatchMap[q] = owner'[d]
      BY <1>2, <2>2 DEF DevicesTracked
    <3>1. \A q \in deviceMap[d].queues :
            q \in queues' /\ owner'[q] = owner'[d] /\ dispatchMap[q] = owner'[d]
      <4> SUFFICES ASSUME NEW q \in deviceMap[d].queues
                   PROVE  q \in queues' /\ owner'[q] = owner'[d] /\ dispatchMap[q] = owner'[d]
        OBVIOUS
      <4>1. q \in queues /\ owner[q] = owner[d] /\ dispatchMap[q] = owner[d] /\ q \in Handles
        BY <1>1 DEF DeviceInv, DevicesTracked
      <4>2. q = queue => d = device
        BY <4>1, <1>5
      <4> QED  BY <1>2, <1>4, <4>1, <4>2
    <3> QED  BY <1>4, <3>1 DEF DeviceInv, DevicesTracked
  <2>4. QueuesTracked'
    <3> SUFFICES ASSUME NEW d \in live, NEW q \in seenQueues' \cap queues',
                        owner'[q] = owner'[d]
                 PROVE  q \in deviceMap[d].queues
      BY <1>2, <2>2 DEF QueuesTracked
    <3>1. q \in seenQueues /\ q \in Handles
      BY <1>1, <1>2, <2>1
    <3>2. CASE q = queue
      <4>1. queue \in QueuesOf(device)
        BY <2>1, <3>2
      <4>2. owner[q] = owner[device] /\ q \in queues /\ d = device
        BY <3>2, <4>1, <1>2, <1>4 DEF QueuesOf, DeviceInv, DevicesDistinct
      <4> QED  BY <3>1, <4>2 DEF DeviceInv, QueuesTracked
    <3>3. CASE q # queue
      BY <1>2, <1>4, <3>1, <3>3 DEF DeviceInv, QueuesTracked
    <3> QED  BY <3>2, <3>3
  <2> QED  BY <1>6, <2>3, <2>4
<1>8. CASE ~Frames!NothingToTake
  <2>1. /\ seenQueues' = seenQueues \cup {queue}
        /\ deviceMap' = [deviceMap EXCEPT ![device].queues = @ \cup {queue}]
        /\ dispatchMap' = [dispatchMap EXCEPT ![queue] = dispatchMap[device]]
        /\ UNCHANGED <<physDeviceMap, allocated>>
    BY <1>8 DEF GetDeviceQueue
  <2>2. deviceMap[device] \in DeviceEntry /\ dispatchMap[device] = owner[device]
    BY <1>1, <1>2 DEF DeviceInv, DevicesTracked
  <2>3. /\ deviceMap'[device].queues = deviceMap[device].queues \cup {queue}
        /\ deviceMap'[device].physicalDevice = deviceMap[device].physicalDevice
        /\ deviceMap'[device] \in DeviceEntry
    BY <1>1, <2>1, <2>2 DEF DeviceEntry
  <2>4. \A d \in Handles : d # device => deviceMap'[d] = deviceMap[d]
    BY <1>1, <2>1
  <2>5. /\ dispatchMap'[queue] = owner[device]
        /\ \A h \in Handles : h # queue => dispatchMap'[h] = dispatchMap[h]
    BY <1>1, <2>1, <2>2
  <2>6. DevicesTracked'
    <3> SUFFICES ASSUME NEW d \in live
                 PROVE  /\ dispatchMap'[d] = owner'[d]
                        /\ owner'[d] \in allocated
                        /\ deviceMap'[d] # Absent
                        /\ Done \/ deviceMap'[d].physicalDevice \in physDeviceMap
                        /\ \A q \in deviceMap'[d].queues :
                             q \in queues' /\ owner'[q] = owner'[d]
                                           /\ dispatchMap'[q] = owner'[d]
      BY <1>2, <2>1 DEF DevicesTracked
    <3>1. dispatchMap'[d] = owner'[d] /\ owner'[d] \in allocated
      BY <1>1, <1>4, <2>5 DEF DeviceInv, DevicesTracked
    <3>2. /\ deviceMap'[d] # Absent
          /\ Done \/ deviceMap'[d].physicalDevice \in physDeviceMap
      BY <1>1, <2>3, <2>4, AbsentAssumption DEF DeviceInv, DevicesTracked
    <3>3. ASSUME NEW q \in deviceMap'[d].queues
          PROVE  q \in queues' /\ owner'[q] = owner'[d] /\ dispatchMap'[q] = owner'[d]
      <4>1. CASE q = queue
        <5>1. d = device
          <6> SUFFICES ASSUME d # device PROVE FALSE
            OBVIOUS
          <6>1. queue \in deviceMap[d].queues
            BY <1>1, <2>4, <3>3, <4>1
          <6> QED  BY <6>1, <1>5 DEF DeviceInv, DevicesTracked
        <5> QED  BY <1>2, <1>4, <2>5, <4>1, <5>1
      <4>2. CASE q # queue
        <5>1. q \in deviceMap[d].queues
          BY <1>1, <2>3, <2>4, <3>3, <4>2
        <5>2. q \in queues /\ owner[q] = owner[d] /\ dispatchMap[q] = owner[d] /\ q \in Handles
          BY <1>1, <5>1 DEF DeviceInv, DevicesTracked
        <5> QED  BY <1>2, <1>4, <2>5, <4>2, <5>2
      <4> QED  BY <4>1, <4>2
    <3> QED  BY <3>1, <3>2, <3>3
  <2>7. QueuesTracked'
    <3> SUFFICES ASSUME NEW d \in live, NEW q \in seenQueues' \cap queues',
                        owner'[q] = owner'[d]
                 PROVE  q \in deviceMap'[d].queues
      BY <1>2 DEF QueuesTracked
    <3>1. CASE q = queue
      <4>1. d = device
        BY <1>2, <1>4, <3>1 DEF DeviceInv, DevicesDistinct
      <4> QED  BY <2>3, <3>1, <4>1
    <3>2. CASE q # queue
      <4>1. q \in deviceMap[d].queues
        BY <1>1, <1>2, <1>4, <2>1, <3>2 DEF DeviceInv, QueuesTracked
      <4> QED  BY <1>1, <2>3, <2>4, <4>1
    <3> QED  BY <3>1, <3>2
  <2> QED  BY <1>6, <2>6, <2>7
<1> QED  BY <1>7, <1>8

\* The command buffer of writePPM is no device's handle and no queue's.
LEMMA DevicesPresent ==
  ASSUME DeviceInv, SwapchainInv, Done => Done',
         NEW queue \in Handles, NEW capturer \in Handles, NEW buffer \in Handles,
         NEW s \in Swapchains, NEW n \in 1 .. Cardinality(Images),
         QueuePresentKHR(queue, s, n, capturer, buffer), Frames!QueuePresentKHR(TRUE)
  PROVE  DevicesDistinct' /\ DevicesTracked' /\ QueuesTracked'
<1>1. /\ UNCHANGED <<deviceMap, allocated, knownGpus, live, devices, seenQueues, instances>>
      /\ ~Done' => UNCHANGED physDeviceMap
  BY PresentEffects DEF DeviceInv, SwapchainInv
<1>2. CASE UNCHANGED <<dispatchMap, owner, queues>>
  BY <1>1, <1>2, DevicesUntouched
<1>3. CASE Records(s, capturer, buffer)
  <2>1. /\ owner \in [Handles -> Nat] /\ dispatchMap \in [Handles -> Nat]
        /\ live \subseteq Handles /\ queues \subseteq Handles
        /\ \A h \in Handles : owner[h] <= devices
    BY DEF DeviceInv, TypeOK, DevicesDistinct
  <2>2. /\ \A h \in Handles : h # buffer =>
             owner'[h] = owner[h] /\ dispatchMap'[h] = dispatchMap[h]
        /\ owner'[buffer] = owner[swapchains[s].device]
        /\ \A d \in live : d # buffer /\ owner'[d] = owner[d] /\ dispatchMap'[d] = dispatchMap[d]
    BY <1>3, <2>1 DEF Records
  <2>3. DevicesDistinct'
    <3>1. \A h \in Handles : owner'[h] <= devices
      BY <1>3, <2>1, <2>2 DEF Records
    <3> QED  BY <1>1, <1>3, <2>2, <3>1 DEF DeviceInv, DevicesDistinct, Records
  <2>4. DevicesTracked'
    <3> SUFFICES ASSUME NEW d \in live
                 PROVE  /\ dispatchMap'[d] = owner'[d]
                        /\ owner'[d] \in allocated
                        /\ deviceMap[d] # Absent
                        /\ Done' \/ deviceMap[d].physicalDevice \in physDeviceMap'
                        /\ \A q \in deviceMap[d].queues :
                             q \in queues' /\ owner'[q] = owner'[d]
                                           /\ dispatchMap'[q] = owner'[d]
      BY <1>1 DEF DevicesTracked
    <3>1. /\ dispatchMap[d] = owner[d] /\ owner[d] \in allocated /\ deviceMap[d] # Absent
          /\ Done \/ deviceMap[d].physicalDevice \in physDeviceMap
          /\ \A q \in deviceMap[d].queues :
               q \in queues /\ owner[q] = owner[d] /\ dispatchMap[q] = owner[d]
      BY DEF DeviceInv, DevicesTracked
    <3>2. \A q \in deviceMap[d].queues : q # buffer /\ q \in Handles
      BY <1>3, <2>1, <3>1 DEF LiveDevices, Records
    <3>3. Done' \/ deviceMap[d].physicalDevice \in physDeviceMap'
      BY <1>1, <3>1
    <3> QED  BY <1>3, <2>2, <3>1, <3>2, <3>3 DEF Records
  <2>5. QueuesTracked'
    <3> SUFFICES ASSUME NEW d \in live, NEW q \in seenQueues \cap queues',
                        owner'[q] = owner'[d]
                 PROVE  q \in deviceMap[d].queues
      BY <1>1 DEF QueuesTracked
    <3> QED  BY <1>3, <2>1, <2>2 DEF DeviceInv, QueuesTracked, Records
  <2> QED  BY <2>3, <2>4, <2>5
<1> QED  BY <1>2, <1>3, PresentEffects DEF DeviceInv, SwapchainInv

LEMMA DevicesKept ==
  ASSUME DeviceInv, SwapchainInv, [Next]_vars
  PROVE  DevicesDistinct' /\ DevicesTracked' /\ QueuesTracked'
<1>1. Done => Done'
  BY ScheduledKept DEF DeviceInv
<1>2. UNCHANGED schedule => (Done' <=> Done) /\ instances' = instances
  BY ScheduleUnchanged DEF schedule
<1>3. CASE Idle
  <2>1. instances > 0 => instances' > 0
    BY <1>3 DEF Idle, schedule, Frames!CreateInstance, DeviceInv, TypeOK, Frames!TypeOK
  <2> QED  BY <1>1, <1>3, <2>1, DevicesUntouched DEF Idle, seen
<1>4. ASSUME NEW gpus \in SUBSET Gpus, EnumeratePhysicalDevices(gpus)
      PROVE  DevicesDistinct' /\ DevicesTracked' /\ QueuesTracked'
  <2>1. /\ instances > 0 /\ UNCHANGED schedule
        /\ UNCHANGED <<dispatchMap, deviceMap, allocated, live, queues, owner, devices, seen>>
        /\ physDeviceMap \subseteq physDeviceMap'
    BY <1>4 DEF EnumeratePhysicalDevices
  <2>2. DevicesDistinct'
    BY <1>2, <2>1 DEF DeviceInv, DevicesDistinct
  <2>3. DevicesTracked' /\ QueuesTracked'
    BY <1>2, <2>1 DEF DeviceInv, DevicesTracked, QueuesTracked, seen
  <2> QED  BY <2>2, <2>3
<1>5. ASSUME NEW gpu \in Gpus, NEW device \in Handles, CreateDevice(gpu, device),
             gpu \in physDeviceMap, devices' = devices + 1
      PROVE  DevicesDistinct' /\ DevicesTracked' /\ QueuesTracked'
  BY <1>1, <1>5, DevicesCreateDevice
<1>6. ASSUME NEW device \in Handles, DestroyDevice(device)
      PROVE  DevicesDistinct' /\ DevicesTracked' /\ QueuesTracked'
  BY <1>2, <1>6, DevicesDestroyDevice DEF DestroyDevice
<1>7. ASSUME NEW device \in Handles, NEW queue \in Handles, GetDeviceQueue(device, queue)
      PROVE  DevicesDistinct' /\ DevicesTracked' /\ QueuesTracked'
  BY <1>2, <1>7, DevicesGetDeviceQueue DEF GetDeviceQueue
<1>8. ASSUME NEW device \in Handles, NEW s \in Swapchains, NEW images \in ImageLists,
             CreateSwapchainKHR(device, s, images)
      PROVE  DevicesDistinct' /\ DevicesTracked' /\ QueuesTracked'
  BY <1>2, <1>8, DevicesUntouched DEF CreateSwapchainKHR, seen
<1>9. ASSUME NEW s \in Swapchains, DestroySwapchainKHR(s)
      PROVE  DevicesDistinct' /\ DevicesTracked' /\ QueuesTracked'
  BY <1>2, <1>9, DevicesUntouched DEF DestroySwapchainKHR, maps
<1>10. ASSUME NEW s \in Swapchains, GetSwapchainImagesKHR(s)
       PROVE  DevicesDistinct' /\ DevicesTracked' /\ QueuesTracked'
  BY <1>2, <1>10, DevicesUntouched DEF GetSwapchainImagesKHR, app
<1>11. ASSUME NEW queue \in Handles, NEW capturer \in Handles, NEW buffer \in Handles,
              NEW s \in Swapchains, NEW n \in 1 .. Cardinality(Images),
              QueuePresentKHR(queue, s, n, capturer, buffer), Frames!QueuePresentKHR(TRUE)
       PROVE  DevicesDistinct' /\ DevicesTracked' /\ QueuesTracked'
  BY <1>1, <1>11, DevicesPresent
<1> QED  BY <1>3, <1>4, <1>5, <1>6, <1>7, <1>8, <1>9, <1>10, <1>11, Steps

---------------------------------------------------------------------------
(* Swapchains and images                                                   *)

\* What the swapchains need holds after a step that leaves them alone.
LEMMA SwapchainsUntouched ==
  ASSUME SwapchainInv, Done => Done',
         \A s \in Swapchains : swapchains[s] # Absent => swapchains[s].device \in live',
         UNCHANGED <<swapchains, queried>>,
         ~Done' => UNCHANGED <<swapchainMap, imageMap>>
  PROVE  SwapchainInv'
<1>1. SwapchainsDistinct'
  BY DEF SwapchainInv, SwapchainsDistinct
<1>2. SwapchainsTracked'
  BY DEF SwapchainInv, SwapchainsTracked, SwapchainTracked
<1> QED  BY <1>1, <1>2 DEF SwapchainInv

\* A new swapchain shares no image; unless the layer is done, it overwrites the
\* entry its handle may have.
LEMMA SwapchainsCreate ==
  ASSUME DeviceInv, SwapchainInv, Done' <=> Done,
         NEW device \in Handles, NEW s \in Swapchains, NEW images \in ImageLists,
         CreateSwapchainKHR(device, s, images)
  PROVE  SwapchainInv'
<1> DEFINE new == [id |-> created + 1, device |-> device, images |-> images]
           entry == [device |-> device, info |-> created + 1, imageList |-> Absent]
<1>1. /\ swapchains \in [Swapchains -> Swapchain \cup {Absent}]
      /\ swapchainMap \in [Swapchains -> SwapchainEntry \cup {Absent}]
      /\ created + 1 \in 1 .. MaxSwapchains
  BY BoundsAssumption DEF DeviceInv, TypeOK, CreateSwapchainKHR
<1>2. /\ swapchains[s] = Absent /\ device \in live
      /\ \A i \in DOMAIN images : images[i] \notin ImagesInUse
      /\ swapchains' = [swapchains EXCEPT ![s] = new]
      /\ swapchainMap' = IF Frames!NothingToTake THEN swapchainMap
                         ELSE [swapchainMap EXCEPT ![s] = entry]
      /\ live' = live /\ queried' = queried /\ imageMap' = imageMap
  BY DEF CreateSwapchainKHR, seen
<1>3. new # Absent /\ entry # Absent
  <2>1. new \in Swapchain
    BY <1>1 DEF Swapchain
  <2>2. entry \in SwapchainEntry
    BY <1>1 DEF SwapchainEntry
  <2> QED  BY <2>1, <2>2, AbsentAssumption
<1> HIDE DEF new, entry
<1>4. /\ swapchains'[s] = new
      /\ \A t \in Swapchains : t # s => swapchains'[t] = swapchains[t]
  BY <1>1, <1>2
<1>5. new.device = device /\ new.id = created + 1 /\ new.images = images
  BY DEF new
<1>6. \A t \in Swapchains : \A i \in DOMAIN swapchains[t].images :
        swapchains[t] # Absent => swapchains[t].images[i] \in ImagesInUse
  BY DEF ImagesInUse
<1>7. s \notin queried
  BY <1>2 DEF SwapchainInv, SwapchainsTracked
<1>8. SwapchainsDistinct'
  <2> SUFFICES ASSUME NEW t \in Swapchains, swapchains'[t] # Absent
               PROVE  /\ swapchains'[t].device \in live'
                      /\ \A u \in Swapchains :
                           (u # t /\ swapchains'[u] # Absent) =>
                             \A i \in DOMAIN swapchains'[t].images,
                                j \in DOMAIN swapchains'[u].images :
                               swapchains'[t].images[i] # swapchains'[u].images[j]
    BY DEF SwapchainsDistinct
  <2>1. swapchains'[t].device \in live'
    BY <1>2, <1>4, <1>5 DEF SwapchainInv, SwapchainsDistinct
  <2>2. ASSUME NEW u \in Swapchains, u # t, swapchains'[u] # Absent,
               NEW i \in DOMAIN swapchains'[t].images, NEW j \in DOMAIN swapchains'[u].images
        PROVE  swapchains'[t].images[i] # swapchains'[u].images[j]
    <3>1. CASE t = s
      BY <1>2, <1>4, <1>5, <1>6, <2>2, <3>1
    <3>2. CASE u = s
      BY <1>2, <1>4, <1>5, <1>6, <2>2, <3>2
    <3>3. CASE t # s /\ u # s
      BY <1>4, <2>2, <3>3 DEF SwapchainInv, SwapchainsDistinct
    <3> QED  BY <3>1, <3>2, <3>3
  <2> QED  BY <2>1, <2>2
<1>9. SwapchainsTracked'
  <2>1. \A t \in queried' : swapchains'[t] # Absent
    <3>1. queried \subseteq Swapchains
      BY DEF DeviceInv, TypeOK
    <3> QED  BY <1>2, <1>4, <1>7, <3>1 DEF SwapchainInv, SwapchainsTracked
  <2>2. ASSUME NEW t \in Swapchains, swapchains'[t] # Absent, ~Done'
        PROVE  SwapchainTracked(t)'
    <3>1. ~Frames!NothingToTake
      BY <1>2, <2>2, NothingToTakeIsDone DEF DeviceInv, TypeOK, DevicesDistinct
    <3>2. /\ swapchainMap'[s] = entry
          /\ \A u \in Swapchains : u # s => swapchainMap'[u] = swapchainMap[u]
      BY <1>1, <1>2, <3>1
    <3>3. CASE t = s
      BY <1>2, <1>3, <1>4, <1>5, <1>7, <3>2, <3>3 DEF SwapchainTracked, entry
    <3>4. CASE t # s
      <4>1. SwapchainTracked(t)
        BY <1>4, <2>2, <3>4 DEF SwapchainInv, SwapchainsTracked
      <4> QED  BY <1>2, <1>4, <3>2, <3>4, <4>1 DEF SwapchainTracked
    <3> QED  BY <3>3, <3>4
  <2> QED  BY <2>1, <2>2 DEF SwapchainsTracked
<1> QED  BY <1>8, <1>9 DEF SwapchainInv

LEMMA SwapchainsDestroy ==
  ASSUME DeviceInv, SwapchainInv, Done' <=> Done,
         NEW s \in Swapchains, DestroySwapchainKHR(s)
  PROVE  SwapchainInv'
<1>1. /\ swapchains' = [swapchains EXCEPT ![s] = Absent]
      /\ queried' = queried \ {s} /\ queried \subseteq Swapchains
      /\ UNCHANGED <<live, swapchainMap, imageMap>>
      /\ swapchains \in [Swapchains -> Swapchain \cup {Absent}]
  BY DEF DestroySwapchainKHR, maps, DeviceInv, TypeOK
<1>2. /\ swapchains'[s] = Absent
      /\ \A t \in Swapchains : t # s => swapchains'[t] = swapchains[t]
  BY <1>1
<1>3. SwapchainsDistinct'
  BY <1>1, <1>2 DEF SwapchainInv, SwapchainsDistinct
<1>4. SwapchainsTracked'
  <2>1. ASSUME NEW t \in Swapchains, swapchains'[t] # Absent, ~Done'
        PROVE  SwapchainTracked(t)'
    <3>1. SwapchainTracked(t) /\ t # s
      BY <1>2, <2>1 DEF SwapchainInv, SwapchainsTracked
    <3> QED  BY <1>1, <1>2, <3>1 DEF SwapchainTracked
  <2> QED  BY <1>1, <1>2, <2>1 DEF SwapchainInv, SwapchainsTracked
<1> QED  BY <1>3, <1>4 DEF SwapchainInv

\* The images of a swapchain get their entries, and no image of another does.
LEMMA SwapchainsGetImages ==
  ASSUME DeviceInv, SwapchainInv, Done' <=> Done,
         NEW s \in Swapchains, GetSwapchainImagesKHR(s)
  PROVE  SwapchainInv'
<1>1. /\ swapchains[s] # Absent /\ queried' = queried \cup {s}
      /\ UNCHANGED <<live, swapchains>>
      /\ queried \subseteq Swapchains
      /\ swapchainMap \in [Swapchains -> SwapchainEntry \cup {Absent}]
      /\ swapchains[s] \in Swapchain
  BY DEF GetSwapchainImagesKHR, app, DeviceInv, TypeOK
<1>2. SwapchainsDistinct'
  BY <1>1 DEF SwapchainInv, SwapchainsDistinct
<1>3. SwapchainsTracked'
  <2>1. \A t \in queried' : swapchains'[t] # Absent
    BY <1>1 DEF SwapchainInv, SwapchainsTracked
  <2>2. ASSUME NEW t \in Swapchains, swapchains'[t] # Absent, ~Done'
        PROVE  SwapchainTracked(t)'
    <3>1. /\ SwapchainTracked(s) /\ SwapchainTracked(t)
          /\ swapchains[t] \in Swapchain
      BY <1>1, <2>2 DEF SwapchainInv, SwapchainsTracked, DeviceInv, TypeOK
    <3>2. swapchains[s].device \in live
      BY <1>1 DEF SwapchainInv, SwapchainsDistinct
    <3>3. ~Frames!NothingToTake
      BY <2>2, <3>2, NothingToTakeIsDone DEF DeviceInv, TypeOK, DevicesDistinct
    <3> DEFINE images == swapchains[s].images
               entry == swapchainMap[s]
    <3>4. /\ imageMap' = [i \in Images |->
                            IF \E n \in DOMAIN images : images[n] = i
                            THEN [device |-> entry.device, info |-> entry.info]
                            ELSE imageMap[i]]
          /\ swapchainMap' = [swapchainMap EXCEPT ![s].imageList = images]
      BY <3>1, <3>3 DEF GetSwapchainImagesKHR, SwapchainTracked
    <3>5. /\ entry \in SwapchainEntry
          /\ entry.device = swapchains[s].device /\ entry.info = swapchains[s].id
      BY <1>1, <3>1 DEF SwapchainTracked
    <3>6. /\ images \in ImageLists /\ images # Absent
          /\ swapchains[t].images \in ImageLists
      BY <1>1, <3>1, AbsentAssumption DEF Swapchain
    <3>7. \A n \in DOMAIN swapchains[t].images : swapchains[t].images[n] \in Images
      <4>1. PICK m : swapchains[t].images \in [1 .. m -> Images]
        BY <3>6 DEF ImageLists
      <4> QED  BY <4>1
    <3> HIDE DEF images
    <3>8. CASE t = s
      <4>1. /\ swapchainMap'[s].imageList = images
            /\ swapchainMap'[s].device = entry.device
            /\ swapchainMap'[s].info = entry.info
            /\ swapchainMap'[s] \in SwapchainEntry
        BY <1>1, <3>4, <3>5, <3>6 DEF SwapchainEntry
      <4>2. swapchainMap'[s] # Absent
        BY <4>1, AbsentAssumption
      <4>3. \A n \in DOMAIN images :
              imageMap'[images[n]] = [device |-> entry.device, info |-> entry.info]
        BY <3>4, <3>7, <3>8 DEF images
      <4> QED  BY <1>1, <3>5, <3>6, <3>8, <4>1, <4>2, <4>3 DEF SwapchainTracked, images
    <3>9. CASE t # s
      <4>1. swapchainMap'[t] = swapchainMap[t]
        BY <1>1, <3>4, <3>9
      <4>2. \A n \in DOMAIN swapchains[t].images :
              imageMap'[swapchains[t].images[n]] = imageMap[swapchains[t].images[n]]
        <5>1. \A n \in DOMAIN swapchains[t].images, k \in DOMAIN images :
                images[k] # swapchains[t].images[n]
          BY <1>1, <2>2, <3>9 DEF SwapchainInv, SwapchainsDistinct, images
        <5> QED  BY <3>4, <3>7, <5>1
      <4>3. t \in queried' <=> t \in queried
        BY <1>1, <3>9
      <4> QED  BY <1>1, <3>1, <4>1, <4>2, <4>3 DEF SwapchainTracked
    <3> QED  BY <3>8, <3>9
  <2> QED  BY <2>1, <2>2 DEF SwapchainsTracked
<1> QED  BY <1>2, <1>3 DEF SwapchainInv

LEMMA SwapchainsKept ==
  ASSUME DeviceInv, SwapchainInv, [Next]_vars
  PROVE  SwapchainInv'
<1>1. Done => Done'
  BY ScheduledKept DEF DeviceInv
<1>2. UNCHANGED schedule => (Done' <=> Done)
  BY ScheduleUnchanged
<1>3. \A s \in Swapchains : swapchains[s] # Absent => swapchains[s].device \in live
  BY DEF SwapchainInv, SwapchainsDistinct
<1>4. CASE Idle
  BY <1>1, <1>3, <1>4, SwapchainsUntouched DEF Idle, seen
<1>5. ASSUME NEW gpus \in SUBSET Gpus, EnumeratePhysicalDevices(gpus)
      PROVE  SwapchainInv'
  BY <1>1, <1>3, <1>5, SwapchainsUntouched DEF EnumeratePhysicalDevices, seen
<1>6. ASSUME NEW gpu \in Gpus, NEW device \in Handles, CreateDevice(gpu, device)
      PROVE  SwapchainInv'
  <2>1. /\ live \subseteq live'
        /\ UNCHANGED <<swapchains, queried, swapchainMap, imageMap>>
    <3>1. CASE \E why : Die(why)
      BY <3>1 DEF Die, maps, app, seen
    <3>2. CASE ~\E why : Die(why)
      <4>1. /\ live' = live \cup {device}
            /\ UNCHANGED <<schedule, physDeviceMap, swapchainMap, imageMap, knownGpus,
                           swapchains, created, fault, seen>>
        BY <1>6, <3>2, Zenon DEF CreateDevice
      <4> QED  BY <4>1 DEF seen
    <3> QED  BY <3>1, <3>2
  <2> QED  BY <1>1, <1>3, <2>1, SwapchainsUntouched
<1>7. ASSUME NEW device \in Handles, DestroyDevice(device)
      PROVE  SwapchainInv'
  <2>1. \A s \in Swapchains : swapchains[s] # Absent => swapchains[s].device \in live'
    BY <1>3, <1>7 DEF DestroyDevice
  <2> QED  BY <1>1, <1>7, <2>1, SwapchainsUntouched DEF DestroyDevice, seen
<1>8. ASSUME NEW device \in Handles, NEW queue \in Handles, GetDeviceQueue(device, queue)
      PROVE  SwapchainInv'
  BY <1>1, <1>3, <1>8, SwapchainsUntouched DEF GetDeviceQueue, maps
<1>9. ASSUME NEW device \in Handles, NEW s \in Swapchains, NEW images \in ImageLists,
             CreateSwapchainKHR(device, s, images)
      PROVE  SwapchainInv'
  BY <1>2, <1>9, SwapchainsCreate DEF CreateSwapchainKHR
<1>10. ASSUME NEW s \in Swapchains, DestroySwapchainKHR(s)
       PROVE  SwapchainInv'
  BY <1>2, <1>10, SwapchainsDestroy DEF DestroySwapchainKHR
<1>11. ASSUME NEW s \in Swapchains, GetSwapchainImagesKHR(s)
       PROVE  SwapchainInv'
  BY <1>2, <1>11, SwapchainsGetImages DEF GetSwapchainImagesKHR
<1>12. ASSUME NEW queue \in Handles, NEW capturer \in Handles, NEW buffer \in Handles,
              NEW s \in Swapchains, NEW n \in 1 .. Cardinality(Images),
              QueuePresentKHR(queue, s, n, capturer, buffer), Frames!QueuePresentKHR(TRUE)
       PROVE  SwapchainInv'
  <2>1. /\ UNCHANGED <<live, swapchains, queried>>
        /\ ~Done' => UNCHANGED <<swapchainMap, imageMap>>
    BY <1>12, PresentEffects DEF DeviceInv, SwapchainInv
  <2> QED  BY <1>1, <1>3, <2>1, SwapchainsUntouched
<1> QED  BY <1>4, <1>5, <1>6, <1>7, <1>8, <1>9, <1>10, <1>11, <1>12, Steps

\* A capture is of the swapchain it is recorded for.
LEMMA CapturesKept ==
  ASSUME DeviceInv, SwapchainInv, CapturesOwnSwapchain, [Next]_vars
  PROVE  CapturesOwnSwapchain'
<1>1. ASSUME NEW queue \in Handles, NEW capturer \in Handles, NEW buffer \in Handles,
             NEW s \in Swapchains, NEW n \in 1 .. Cardinality(Images),
             QueuePresentKHR(queue, s, n, capturer, buffer), Frames!QueuePresentKHR(TRUE)
      PROVE  CapturesOwnSwapchain'
  <2>1. captures' = captures \/ Records(s, capturer, buffer)
    BY <1>1, PresentEffects DEF DeviceInv, SwapchainInv
  <2> QED  BY <2>1 DEF Records, CapturesOwnSwapchain
<1>2. CASE captures' = captures
  BY <1>2 DEF CapturesOwnSwapchain
<1>3. CASE ~\E queue, capturer, buffer \in Handles, s \in Swapchains :
             \E n \in 1 .. Cardinality(Images) :
               QueuePresentKHR(queue, s, n, capturer, buffer) /\ Frames!QueuePresentKHR(TRUE)
  <2>1. captures' = captures
    <3>1. ASSUME NEW gpu \in Gpus, NEW device \in Handles, CreateDevice(gpu, device)
          PROVE  captures' = captures
      <4>1. UNCHANGED seen
        <5>1. CASE \E why : Die(why)
          BY <5>1 DEF Die
        <5>2. CASE ~\E why : Die(why)
          <6>1. UNCHANGED <<schedule, physDeviceMap, swapchainMap, imageMap, knownGpus,
                            swapchains, created, fault, seen>>
            BY <3>1, <5>2, Zenon DEF CreateDevice
          <6> QED  BY <6>1
        <5> QED  BY <5>1, <5>2
      <4> QED  BY <4>1 DEF seen
    <3> QED  BY <1>3, <3>1, Steps DEF Idle, EnumeratePhysicalDevices, DestroyDevice,
                GetDeviceQueue, CreateSwapchainKHR, DestroySwapchainKHR,
                GetSwapchainImagesKHR, seen
  <2> QED  BY <1>2, <2>1
<1> QED  BY <1>1, <1>3

---------------------------------------------------------------------------
(* The theorems                                                            *)

\* The invariant holds in every reachable state.
LEMMA Invariance == Spec => []IInv
<1>1. Init => IInv
  <2> SUFFICES ASSUME Init PROVE IInv
    OBVIOUS
  <2>1. TypeOK /\ Scheduled
    BY TypesInitially, ScheduledInitially DEF Init
  <2>2. DevicesDistinct
    <3>1. \A h \in Handles : owner[h] <= devices
      BY DEF Init
    <3> QED  BY <3>1 DEF Init, DevicesDistinct
  <2>3. DevicesTracked /\ QueuesTracked
    BY DEF Init, DevicesTracked, QueuesTracked
  <2>4. SwapchainsDistinct /\ SwapchainsTracked
    BY DEF Init, SwapchainsDistinct, SwapchainsTracked
  <2> QED  BY <2>1, <2>2, <2>3, <2>4 DEF Init, IInv, CapturesOwnSwapchain
<1>2. IInv /\ [Next]_vars => IInv'
  <2> SUFFICES ASSUME IInv, [Next]_vars PROVE IInv'
    OBVIOUS
  <2>1. DeviceInv /\ SwapchainInv
    BY DEF IInv, DeviceInv, SwapchainInv
  <2>2. TypeOK' /\ Scheduled'
    BY TypesKept, ScheduledKept DEF IInv
  <2>3. DevicesDistinct' /\ DevicesTracked' /\ QueuesTracked'
    BY <2>1, DevicesKept
  <2>4. SwapchainInv'
    BY <2>1, SwapchainsKept
  <2>5. CapturesOwnSwapchain'
    BY <2>1, CapturesKept DEF IInv
  <2> QED  BY <2>2, <2>3, <2>4, <2>5 DEF IInv, SwapchainInv
<1> QED  BY <1>1, <1>2, PTL DEF Spec

\* Every reachable state of the layer's maps, and of the objects they are about,
\* is well typed.
THEOREM TypeCorrect == Spec => []TypeOK
<1>1. IInv => TypeOK
  BY DEF IInv
<1> QED  BY <1>1, Invariance, PTL

\* A queue obtained while the layer was tracking dispatches to the live table of
\* its device, whatever handles the driver reuses.
THEOREM SeenQueuesDispatchCorrect == Spec => []SeenQueuesDispatch
<1>1. IInv => SeenQueuesDispatch
  <2> SUFFICES ASSUME IInv, NEW queue \in seenQueues \cap queues,
                      owner[queue] \in LiveDevices
               PROVE  dispatchMap[queue] = owner[queue] /\ owner[queue] \in allocated
    BY DEF SeenQueuesDispatch
  <2>1. PICK device \in live : owner[queue] = owner[device]
    BY DEF LiveDevices
  <2>2. queue \in deviceMap[device].queues
    BY <2>1 DEF IInv, QueuesTracked
  <2> QED  BY <2>1, <2>2 DEF IInv, DevicesTracked
<1> QED  BY <1>1, Invariance, PTL

\* A screenshot is of the swapchain presented, in its own extent and format,
\* whatever handles the driver reuses.
THEOREM CapturesOwnSwapchainCorrect == Spec => []CapturesOwnSwapchain
<1>1. IInv => CapturesOwnSwapchain
  BY DEF IInv
<1> QED  BY <1>1, Invariance, PTL

\* What a present finds when its queue and its images were obtained in time: a
\* due frame has its image, its device and a queue to capture it with.
LEMMA SeenPresent ==
  ASSUME IInv, NEW queue \in seenQueues, NEW s \in queried,
         NEW n \in 1 .. Cardinality(Images), MayPresent(queue, s, n)
  PROVE  /\ swapchains[s].device \in live
         /\ queue \in deviceMap[swapchains[s].device].queues
         /\ Frames!ShotDue =>
              /\ ~Unset(s)
              /\ imageMap[ImageOf(s, n)] =
                   [device |-> swapchains[s].device, info |-> swapchains[s].id]
              /\ Capturing(s, n)
<1>1. queue \in Handles /\ s \in Swapchains
  BY DEF IInv, TypeOK
<1>2. swapchains[s].device \in live
  BY <1>1 DEF MayPresent, IInv, SwapchainsDistinct
<1>3. queue \in deviceMap[swapchains[s].device].queues
  BY <1>2 DEF MayPresent, QueuesOf, IInv, QueuesTracked
<1>4. ASSUME Frames!ShotDue
      PROVE  /\ ~Unset(s)
             /\ imageMap[ImageOf(s, n)] =
                  [device |-> swapchains[s].device, info |-> swapchains[s].id]
             /\ Capturing(s, n)
  <2>1. SwapchainTracked(s)
    BY <1>1, <1>4, OwnImageWritten DEF IInv
  <2>2. ~Unset(s)
    BY <2>1 DEF SwapchainTracked, Unset
  <2>3. /\ ImageOf(s, n) \in Images
        /\ imageMap[ImageOf(s, n)] =
             [device |-> swapchains[s].device, info |-> swapchains[s].id]
    BY <1>1, <1>4, <2>2, OwnImageWritten DEF IInv
  <2>4. imageMap[ImageOf(s, n)] # Absent
    <3>1. swapchains[s] \in Swapchain
      BY <1>1 DEF IInv, TypeOK, MayPresent
    <3>2. [device |-> swapchains[s].device, info |-> swapchains[s].id] \in ImageEntry
      BY <3>1 DEF Swapchain, ImageEntry
    <3> QED  BY <2>3, <3>2, AbsentAssumption
  <2>5. deviceMap[swapchains[s].device] # Absent
    BY <1>2 DEF IInv, DevicesTracked
  <2> QED  BY <1>3, <1>4, <2>2, <2>3, <2>4, <2>5 DEF Capturing, Writing
<1> QED  BY <1>2, <1>3, <1>4

\* A frame that is due is captured, when its queue and its images were obtained in
\* time, whatever handles the driver reuses.
THEOREM DuePresentsCapturedCorrect == Spec => []DuePresentsCaptured
<1>1. IInv => DuePresentsCaptured
  <2> SUFFICES ASSUME IInv, Frames!ShotDue, NEW p \in Presents,
                      p.queue \in seenQueues, p.s \in queried
               PROVE  Capturing(p.s, p.n)
    BY DEF DuePresentsCaptured
  <2>1. p.n \in 1 .. Cardinality(Images) /\ MayPresent(p.queue, p.s, p.n)
    BY DEF Presents
  <2> QED  BY <2>1, SeenPresent
<1> QED  BY <1>1, Invariance, PTL

---------------------------------------------------------------------------
(* Without reuse of handles                                                *)

\* A handle that is used once has no entry of anybody else.
LEMMA EntriesOwnedKept ==
  ASSUME ~ReuseHandles, IInv, EntriesOwned, [Next]_vars
  PROVE  EntriesOwned'
<1>1. /\ owner \in [Handles -> Nat] /\ dispatchMap \in [Handles -> Nat]
      /\ live \subseteq Handles /\ devices \in Nat
  BY DEF IInv, TypeOK
<1>2. \A h \in Handles : CanName(h) => dispatchMap[h] = 0
  BY DEF CanName, EntriesOwned
<1>3. CASE UNCHANGED <<dispatchMap, owner>>
  BY <1>3 DEF EntriesOwned
<1>4. ASSUME NEW gpu \in Gpus, NEW device \in Handles, CreateDevice(gpu, device)
      PROVE  EntriesOwned'
  <2>1. CASE \E why : Die(why)
    BY <1>3, <2>1 DEF Die, maps, app
  <2>2. CASE ~\E why : Die(why)
    <3>1. /\ owner' = [owner EXCEPT ![device] = devices + 1]
          /\ dispatchMap' = [dispatchMap EXCEPT ![device] = devices + 1]
      BY <1>4, <2>2, Zenon DEF CreateDevice
    <3> QED  BY <1>1, <3>1 DEF EntriesOwned
  <2> QED  BY <2>1, <2>2
<1>5. ASSUME NEW device \in Handles, NEW queue \in Handles, GetDeviceQueue(device, queue)
      PROVE  EntriesOwned'
  <2>1. /\ device \in live /\ dispatchMap[device] = owner[device]
        /\ owner' = [owner EXCEPT ![queue] = owner[device]]
        /\ dispatchMap[queue] \in {0, owner[device]}
    BY <1>2, <1>5 DEF GetDeviceQueue, QueuesOf, IInv, DevicesTracked, EntriesOwned
  <2>2. \/ dispatchMap' = dispatchMap
        \/ dispatchMap' = [dispatchMap EXCEPT ![queue] = dispatchMap[device]]
    BY <1>5 DEF GetDeviceQueue, maps
  <2> QED  BY <1>1, <2>1, <2>2 DEF EntriesOwned
<1>6. ASSUME NEW queue \in Handles, NEW capturer \in Handles, NEW buffer \in Handles,
             NEW s \in Swapchains, NEW n \in 1 .. Cardinality(Images),
             QueuePresentKHR(queue, s, n, capturer, buffer), Frames!QueuePresentKHR(TRUE)
      PROVE  EntriesOwned'
  <2>1. UNCHANGED <<dispatchMap, owner, queues>> \/ Records(s, capturer, buffer)
    BY <1>6, PresentEffects DEF IInv
  <2>2. ASSUME Records(s, capturer, buffer)
        PROVE  EntriesOwned'
    <3> DEFINE device == swapchains[s].device
    <3>1. /\ device \in live /\ dispatchMap[device] = owner[device]
      BY <2>2 DEF Records, IInv, DevicesTracked
    <3>2. /\ owner' = [owner EXCEPT ![buffer] = owner[device]]
          /\ dispatchMap' = [dispatchMap EXCEPT ![buffer] = CommandTable(device, buffer)]
      BY <2>2 DEF Records
    <3>3. dispatchMap[buffer] \in {0, owner[device]}
      BY <1>1, <1>2, <2>2 DEF Records, EntriesOwned
    <3> QED  BY <1>1, <3>1, <3>2, <3>3 DEF EntriesOwned, CommandTable
  <2> QED  BY <1>3, <2>1, <2>2
<1> QED  BY <1>3, <1>4, <1>5, <1>6, Steps DEF Idle, EnumeratePhysicalDevices, DestroyDevice,
            CreateSwapchainKHR, DestroySwapchainKHR, GetSwapchainImagesKHR, maps, app

\* A driver that does not reuse the handles of destroyed devices never makes a
\* present in time die in the layer: not on a missing entry, not on a deleted
\* table, before or after the maps are freed.
THEOREM SeenPresentsSurviveCorrect ==
  ASSUME ~ReuseHandles
  PROVE  Spec => []SeenPresentsSurvive
<1>1. Init => EntriesOwned
  BY DEF Init, EntriesOwned
<1>2. IInv /\ EntriesOwned /\ [Next]_vars => EntriesOwned'
  BY EntriesOwnedKept
<1>3. IInv /\ EntriesOwned => SeenPresentsSurvive
  <2> SUFFICES ASSUME IInv, EntriesOwned, NEW p \in Presents,
                      p.queue \in seenQueues, p.s \in queried
               PROVE  PresentFault(p.queue, p.s, p.n, p.capturer, p.buffer) = "none"
    BY DEF SeenPresentsSurvive
  <2> DEFINE device == swapchains[p.s].device
  <2>1. /\ p.queue \in Handles /\ p.s \in Swapchains /\ p.n \in 1 .. Cardinality(Images)
        /\ p.capturer \in Handles /\ p.buffer \in Handles
        /\ MayPresent(p.queue, p.s, p.n) /\ MayCapture(p.s, p.n, p.capturer, p.buffer)
    BY DEF Presents
  <2>2. /\ device \in live
        /\ p.queue \in deviceMap[device].queues
        /\ Frames!ShotDue =>
             /\ ~Unset(p.s)
             /\ imageMap[ImageOf(p.s, p.n)] = [device |-> device, info |-> swapchains[p.s].id]
             /\ Capturing(p.s, p.n)
    BY <2>1, SeenPresent
  <2> HIDE DEF device
  <2>3. /\ dispatchMap[device] = owner[device] /\ owner[device] \in allocated
        /\ deviceMap[device] # Absent
        /\ Done \/ deviceMap[device].physicalDevice \in physDeviceMap
        /\ \A queue \in deviceMap[device].queues : dispatchMap[queue] = owner[device]
        /\ owner[device] # 0
    BY <2>2 DEF IInv, TypeOK, DevicesTracked, DevicesDistinct
  <2>4. dispatchMap[p.queue] # 0 /\ dispatchMap[p.queue] \in allocated
    BY <2>2, <2>3
  <2>5. Frames!ShotDue => ~WriteDies(device, p.capturer, p.buffer)
    <3> SUFFICES ASSUME Frames!ShotDue PROVE ~WriteDies(device, p.capturer, p.buffer)
      OBVIOUS
    <3>1. deviceMap[device].physicalDevice \in physDeviceMap
      BY <2>3, DoneIsNotDue DEF IInv, TypeOK
    <3>2. dispatchMap[p.capturer] \in allocated
      <4>1. p.capturer \in deviceMap[device].queues
        BY <2>1, <2>2 DEF MayCapture, getQueueForScreenshot
      <4> QED  BY <2>3, <4>1
    <3>3. CommandTable(device, p.buffer) \in allocated
      <4>1. CanName(p.buffer) \/ owner[p.buffer] = owner[device]
        BY <2>1, <2>2 DEF MayCapture
      <4>2. dispatchMap[p.buffer] \in {0, owner[device]}
        BY <2>1, <4>1 DEF CanName, EntriesOwned
      <4> QED  BY <2>3, <4>2 DEF CommandTable
    <3> QED  BY <2>3, <3>1, <3>2, <3>3 DEF WriteDies
  <2> QED  BY <2>2, <2>4, <2>5 DEF PresentFault, Writing
<1> QED  BY <1>1, <1>2, <1>3, Invariance, PTL DEF Spec
=============================================================================
