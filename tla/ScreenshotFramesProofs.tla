----------------------- MODULE ScreenshotFramesProofs -----------------------
(***************************************************************************)
(* Proofs about the schedule of the screenshot layer, for any set of       *)
(* options, number of instances and number of presents.                    *)
(***************************************************************************)
EXTENDS ScreenshotFrames, FiniteSetTheorems, TLAPS

---------------------------------------------------------------------------
(* Arithmetic of the range                                                 *)

\* A larger multiple of a positive interval is larger by the interval at least.
LEMMA MultipleStep ==
  ASSUME NEW k \in Nat, k > 0, NEW p \in Int, NEW q \in Int, p < q
  PROVE  k * p + k <= k * q
<1>1. k * (q - p - 1) >= 0
  BY SMT
<1>2. k * (q - p - 1) = k * q - k * p - k
  BY SMT
<1> QED  BY <1>1, <1>2, SMT

\* Division with remainder.
LEMMA DivMod ==
  ASSUME NEW x \in Int, NEW k \in Nat, k > 0
  PROVE  /\ x \div k \in Int
         /\ x % k \in 0 .. k - 1
         /\ x = k * (x \div k) + (x % k)
  BY SMT

\* A multiple of the interval is one of the first CountOfRange(n, k) multiples
\* exactly when it is less than n: rounding the count up neither adds nor drops
\* a frame.
LEMMA CountIsCeiling ==
  ASSUME NEW n \in Nat, n > 0, NEW k \in Nat, k > 0, NEW x \in Int, x % k = 0
  PROVE  x <= (CountOfRange(n, k) - 1) * k <=> x < n
<1> DEFINE q == x \div k
           m == n \div k
           s == n % k
<1>1. q \in Int /\ x = k * q
  BY DivMod
<1>2. m \in Int /\ s \in 0 .. k - 1 /\ n = k * m + s
  BY DivMod
<1> HIDE DEF q, m, s
<1>3. CountOfRange(n, k) = m + (IF s # 0 THEN 1 ELSE 0)
  BY DEF CountOfRange, m, s
<1>4. CASE s = 0
  <2>1. CountOfRange(n, k) - 1 = m - 1
    BY <1>2, <1>3, <1>4
  <2>2. (m - 1) * k = k * m - k
    BY <1>2, SMT
  <2>3. CASE q < m
    BY <2>1, <2>2, <2>3, <1>1, <1>2, <1>4, MultipleStep
  <2>4. CASE ~(q < m)
    <3>1. q = m \/ k * m + k <= k * q
      BY <2>4, <1>1, <1>2, MultipleStep
    <3> QED  BY <3>1, <2>1, <2>2, <1>1, <1>2, <1>4
  <2> QED  BY <2>3, <2>4
<1>5. CASE s # 0
  <2>1. CountOfRange(n, k) - 1 = m
    BY <1>2, <1>3, <1>5
  <2>2. m * k = k * m
    BY <1>2, SMT
  <2>3. CASE q <= m
    <3>1. q = m \/ k * q + k <= k * m
      BY <2>3, <1>1, <1>2, MultipleStep
    <3> QED  BY <3>1, <2>1, <2>2, <1>1, <1>2, <1>5
  <2>4. CASE ~(q <= m)
    <3>1. k * m + k <= k * q
      BY <2>4, <1>1, <1>2, MultipleStep
    <3> QED  BY <3>1, <2>1, <2>2, <1>1, <1>2, <1>5
  <2> QED  BY <2>3, <2>4, <1>1, <1>2
<1> QED  BY <1>4, <1>5

---------------------------------------------------------------------------
(* The range an option sets                                                *)

\* What sscanf reads are integers.
LEMMA ScanType ==
  ASSUME NEW tokens \in Seq(Int)
  PROVE  /\ Scan(tokens).start \in Int
         /\ Scan(tokens).frameCount \in Int
         /\ Scan(tokens).interval \in Int
<1>1. \A at \in Int : ScanInt(tokens, at).value \in Int /\ ScanInt(tokens, at).next \in Int
  <2> SUFFICES ASSUME NEW at \in Int
               PROVE  ScanInt(tokens, at).value \in Int /\ ScanInt(tokens, at).next \in Int
    OBVIOUS
  <2>1. CASE at > 0 /\ at <= Len(tokens) /\ tokens[at] >= 0
    BY <2>1 DEF ScanInt
  <2>2. CASE /\ ~(at > 0 /\ at <= Len(tokens) /\ tokens[at] >= 0)
             /\ at > 0 /\ at < Len(tokens) /\ tokens[at] = Dash /\ tokens[at + 1] >= 0
    <3>1. tokens[at + 1] \in Int
      BY <2>2
    <3> QED  BY <2>2, <3>1 DEF ScanInt
  <2>3. CASE /\ ~(at > 0 /\ at <= Len(tokens) /\ tokens[at] >= 0)
             /\ ~(at > 0 /\ at < Len(tokens) /\ tokens[at] = Dash /\ tokens[at + 1] >= 0)
    BY <2>3 DEF ScanInt
  <2> QED  BY <2>1, <2>2, <2>3
<1>2. \A at \in Int : ScanDash(tokens, at) \in Int
  BY DEF ScanDash
<1> DEFINE start == ScanInt(tokens, 1)
           count == ScanInt(tokens, ScanDash(tokens, start.next))
           interval == ScanInt(tokens, ScanDash(tokens, count.next))
<1>3. start.value \in Int /\ ScanDash(tokens, start.next) \in Int
  BY <1>1, <1>2
<1>4. count.value \in Int /\ ScanDash(tokens, count.next) \in Int
  BY <1>1, <1>2, <1>3
<1>5. interval.value \in Int
  BY <1>1, <1>4
<1>6. /\ Scan(tokens).start = start.value
      /\ Scan(tokens).frameCount = count.value
      /\ Scan(tokens).interval \in {interval.value, 1}
  BY DEF Scan, SCREEN_SHOT_FRAMES_INTERVAL_DEFAULT
<1> QED  BY <1>3, <1>4, <1>5, <1>6

\* Whatever was in the structure before, it stays a range, and one that is made
\* valid has an interval that divides.
LEMMA RangeType ==
  ASSUME NEW opt \in Options, isOptionBelongToScreenShotRange(opt),
         NEW range \in FrameRange
  PROVE  /\ initScreenShotFrameRange(opt, range) \in FrameRange
         /\ initScreenShotFrameRange(opt, range).valid =>
              initScreenShotFrameRange(opt, range).interval > 0
<1> DEFINE scan == Scan(opt.tokens)
           result == initScreenShotFrameRange(opt, range)
<1> SUFFICES /\ result \in FrameRange
             /\ result.valid => result.interval > 0
  OBVIOUS
<1>1. /\ scan.start \in Int /\ scan.frameCount \in Int /\ scan.interval \in Int
  BY ScanType, OptionsAssumption
<1>2. ASSUME NEW n \in Int, n >= 0, NEW k \in Int, k > 0
      PROVE  CountOfRange(n, k) \in Int
  BY <1>2 DEF CountOfRange, SCREEN_SHOT_FRAMES_UNLIMITED
<1>3. CASE opt.kind = "all"
  <2>1. result = [valid |-> TRUE, startFrame |-> 0, count |-> -1, interval |-> 1]
    BY <1>3 DEF initScreenShotFrameRange,
                SCREEN_SHOT_FRAMES_UNLIMITED, SCREEN_SHOT_FRAMES_INTERVAL_DEFAULT
  <2> HIDE DEF result
  <2> QED  BY <2>1 DEF FrameRange
<1>4. CASE opt.kind # "all" /\ ~checkScreenShotFrameRangeString(opt.tokens)
  <2>1. result = [range EXCEPT !.valid = FALSE]
    BY <1>4 DEF initScreenShotFrameRange
  <2> HIDE DEF result
  <2> QED  BY <2>1 DEF FrameRange
<1>5. CASE /\ opt.kind # "all" /\ checkScreenShotFrameRangeString(opt.tokens)
           /\ Accepted(scan)
  <2>1. result = [valid |-> TRUE, startFrame |-> scan.start,
                  count |-> CountOfRange(scan.frameCount, scan.interval),
                  interval |-> scan.interval]
    BY <1>5 DEF initScreenShotFrameRange
  <2>2. CountOfRange(scan.frameCount, scan.interval) \in Int /\ scan.interval > 0
    BY <1>1, <1>2, <1>5 DEF Accepted
  <2> HIDE DEF scan, result
  <2> QED  BY <1>1, <2>1, <2>2 DEF FrameRange
<1>6. CASE /\ opt.kind # "all" /\ checkScreenShotFrameRangeString(opt.tokens)
           /\ ~Accepted(scan)
  <2>1. result = Refused(scan, range)
    BY <1>6 DEF initScreenShotFrameRange
  <2> HIDE DEF scan, result
  <2> QED  BY <1>1, <2>1 DEF Refused, FrameRange
<1> QED  BY <1>3, <1>4, <1>5, <1>6

\* Parsing again gives the range of the first time: only what a refused string
\* leaves behind depends on what was there.
LEMMA ParsedAgain ==
  ASSUME NEW opt \in Options, isOptionBelongToScreenShotRange(opt),
         NEW range \in FrameRange
  PROVE  /\ RangeOf(opt).valid => initScreenShotFrameRange(opt, range) = RangeOf(opt)
         /\ ~RangeOf(opt).valid => ~initScreenShotFrameRange(opt, range).valid
<1>1. NoRange \in FrameRange
  BY DEF NoRange, FrameRange, SCREEN_SHOT_FRAMES_UNLIMITED,
         SCREEN_SHOT_FRAMES_INTERVAL_DEFAULT
<1>2. /\ ~[range EXCEPT !.valid = FALSE].valid
      /\ ~[NoRange EXCEPT !.valid = FALSE].valid
      /\ ~Refused(Scan(opt.tokens), range).valid
      /\ ~Refused(Scan(opt.tokens), NoRange).valid
  BY <1>1 DEF FrameRange, Refused
<1> QED  BY <1>2 DEF RangeOf, initScreenShotFrameRange

\* The range captures every frame the documentation promises, and unless it is
\* unlimited and late no other.
LEMMA RangeServes ==
  ASSUME NEW opt \in Options, isOptionBelongToScreenShotRange(opt), NEW frame \in Nat
  PROVE  /\ Wanted(opt, frame) =>
              isInScreenShotFrameRange(frame, RangeOf(opt))
         /\ /\ isInScreenShotFrameRange(frame, RangeOf(opt))
            /\ ~LateUnlimited(opt)
            => Wanted(opt, frame)
<1> DEFINE range == RangeOf(opt)
           scan == Scan(opt.tokens)
<1>1. CASE opt.kind = "all"
  <2>1. range = [valid |-> TRUE, startFrame |-> 0,
                 count |-> SCREEN_SHOT_FRAMES_UNLIMITED,
                 interval |-> SCREEN_SHOT_FRAMES_INTERVAL_DEFAULT]
    BY <1>1 DEF RangeOf, initScreenShotFrameRange
  <2>2. frame % 1 = 0
    BY SMT
  <2>3. isInScreenShotFrameRange(frame, range)
    BY <2>1, <2>2 DEF isInScreenShotFrameRange, InRange,
                      SCREEN_SHOT_FRAMES_INTERVAL_DEFAULT
  <2>4. Wanted(opt, frame)
    BY <1>1 DEF Wanted
  <2> QED  BY <2>3, <2>4
<1>2. CASE opt.kind = "range" /\ ~range.valid
  BY <1>2 DEF Wanted, isInScreenShotFrameRange, InRange
<1>3. CASE opt.kind = "range" /\ range.valid
  <2>1. /\ scan.start \in Int /\ scan.frameCount \in Int /\ scan.interval \in Int
    BY ScanType, OptionsAssumption
  <2>0. range = RangeOf(opt)
    OBVIOUS
  <2> HIDE DEF scan, range
  <2>2. /\ scan.start >= 0 /\ scan.frameCount >= 0 /\ scan.interval > 0
        /\ range = [valid |-> TRUE, startFrame |-> scan.start,
                    count |-> CountOfRange(scan.frameCount, scan.interval),
                    interval |-> scan.interval]
    <3>1. /\ ~[NoRange EXCEPT !.valid = FALSE].valid
          /\ ~Refused(scan, NoRange).valid
      BY DEF NoRange, Refused
    <3>2. opt.kind # "all"
      BY <1>3
    <3>3. Accepted(scan) /\ checkScreenShotFrameRangeString(opt.tokens)
      BY <1>3, <3>1, <3>2 DEF RangeOf, initScreenShotFrameRange, scan, range
    <3> QED  BY <3>2, <3>3 DEF RangeOf, initScreenShotFrameRange, Accepted, scan, range
  <2>3. Wanted(opt, frame) <=>
          /\ frame >= scan.start
          /\ scan.frameCount # 0 => frame < scan.start + scan.frameCount
          /\ (frame - scan.start) % scan.interval = 0
    BY <1>3 DEF Wanted, scan, range
  <2>4. LateUnlimited(opt) <=>
          CountOfRange(scan.frameCount, scan.interval) = -1 /\ scan.start > 0
    BY <1>3, <2>2 DEF LateUnlimited, SCREEN_SHOT_FRAMES_UNLIMITED, range
  <2> DEFINE c == CountOfRange(scan.frameCount, scan.interval)
  <2>5. isInScreenShotFrameRange(frame, range) <=>
          /\ \/ c = -1
             \/ /\ frame >= scan.start
                /\ \/ frame <= scan.start + (c - 1) * scan.interval
                   \/ scan.start + (c - 1) * scan.interval = -1
          /\ (frame - scan.start) % scan.interval = 0
    <3>1. c # -1 => getEndFrameOfRange(range) = scan.start + (c - 1) * scan.interval
      BY <2>2 DEF getEndFrameOfRange, SCREEN_SHOT_FRAMES_UNLIMITED
    <3> QED  BY <2>2, <3>1 DEF isInScreenShotFrameRange, InRange, SCREEN_SHOT_FRAMES_UNLIMITED
  <2>6. CASE scan.frameCount = 0
    <3>1. c = -1
      BY <2>6 DEF CountOfRange, SCREEN_SHOT_FRAMES_UNLIMITED
    <3> QED  BY <3>1, <2>0, <2>1, <2>2, <2>3, <2>4, <2>5, <2>6
  <2>7. CASE scan.frameCount > 0
    <3>1. c \in Nat /\ c > 0
      <4>1. /\ scan.frameCount \div scan.interval \in Int
            /\ scan.frameCount % scan.interval \in 0 .. scan.interval - 1
            /\ scan.frameCount = scan.interval * (scan.frameCount \div scan.interval)
                                 + (scan.frameCount % scan.interval)
        <5>1. scan.interval \in Nat
          BY <2>1, <2>2
        <5> QED  BY <5>1, <2>1, <2>2, DivMod
      <4>2. scan.frameCount \div scan.interval >= 0
        BY <2>1, <2>2, <2>7, SMT
      <4>3. ~(scan.frameCount \div scan.interval = 0 /\ scan.frameCount % scan.interval = 0)
        <5>1. SUFFICES ASSUME scan.frameCount \div scan.interval = 0,
                              scan.frameCount % scan.interval = 0
                       PROVE  FALSE
          OBVIOUS
        <5>2. scan.interval * 0 = 0
          BY <2>1
        <5> QED  BY <5>1, <5>2, <4>1, <2>7
      <4> QED  BY <4>1, <4>2, <4>3, <2>7 DEF CountOfRange
    <3>2. (c - 1) * scan.interval >= 0
      BY <3>1, <2>1, <2>2, SMT
    <3>3. (frame - scan.start) % scan.interval = 0 =>
            (frame - scan.start <= (c - 1) * scan.interval <=>
               frame - scan.start < scan.frameCount)
      BY <2>1, <2>2, <2>7, CountIsCeiling
    <3>4. (c - 1) * scan.interval \in Int
      BY <3>1, <2>1
    <3> HIDE DEF c
    <3> QED  BY <3>1, <3>2, <3>3, <3>4, <2>0, <2>1, <2>2, <2>3, <2>5, <2>7
  <2> QED  BY <2>1, <2>2, <2>6, <2>7
<1> QED  BY <1>1, <1>2, <1>3 DEF isOptionBelongToScreenShotRange

---------------------------------------------------------------------------
(* Types                                                                   *)

\* Every reachable state is well typed, and the interval of a valid range is
\* positive.
THEOREM TypeCorrect == Spec => []TypeOK
<1>1. Init => TypeOK
  <2> SUFFICES ASSUME Init PROVE TypeOK
    OBVIOUS
  <2>1. IsFiniteSet(screenshotFrames)
    BY FS_EmptySet DEF Init
  <2>2. NoRange \in FrameRange /\ ~NoRange.valid
    BY DEF NoRange, FrameRange, SCREEN_SHOT_FRAMES_UNLIMITED,
           SCREEN_SHOT_FRAMES_INTERVAL_DEFAULT
  <2>3. 0 \in 0 .. MaxInstances /\ 0 \in 0 .. MaxFrame
    BY MaxInstancesAssumption, MaxFrameAssumption
  <2>4. screenshotFrames \in SUBSET Nat /\ shots \in SUBSET (0 .. MaxFrame)
    BY DEF Init
  <2> QED  BY <2>1, <2>2, <2>3, <2>4 DEF Init, TypeOK
<1>2. TypeOK /\ [Next]_vars => TypeOK'
  <2> SUFFICES ASSUME TypeOK, [Next]_vars PROVE TypeOK'
    OBVIOUS
  <2>1. CASE CreateInstance
    <3>1. screenshotFrames' \in SUBSET Nat /\ IsFiniteSet(screenshotFrames')
      <4>1. option.frames \in SUBSET Nat /\ IsFiniteSet(option.frames)
        BY OptionsAssumption DEF TypeOK
      <4>2. IsFiniteSet(screenshotFrames \cup option.frames)
        BY <4>1, FS_Union DEF TypeOK
      <4> QED  BY <2>1, <4>1, <4>2 DEF TypeOK, CreateInstance, populate_frame_list
    <3>2. /\ screenShotFrameRange' \in FrameRange
          /\ screenShotFrameRange'.valid => screenShotFrameRange'.interval > 0
      BY <2>1, RangeType DEF TypeOK, CreateInstance, populate_frame_list
    <3>3. screenshotFramesReceived' \in BOOLEAN
      BY <2>1 DEF TypeOK, CreateInstance, populate_frame_list
    <3>4. /\ frameNumber' \in 0 .. MaxFrame /\ option' \in Options
          /\ instances' \in 0 .. MaxInstances /\ shots' \in SUBSET (0 .. MaxFrame)
          /\ carried' \in BOOLEAN
      BY <2>1, MaxInstancesAssumption DEF TypeOK, CreateInstance
    <3> QED  BY <3>1, <3>2, <3>3, <3>4 DEF TypeOK
  <2>2. ASSUME NEW swapchain \in BOOLEAN, QueuePresentKHR(swapchain) PROVE TypeOK'
    <3>1. screenshotFrames' \in SUBSET Nat /\ IsFiniteSet(screenshotFrames')
      <4>1. IsFiniteSet(screenshotFrames \ {frameNumber})
        BY FS_Subset DEF TypeOK
      <4> QED  BY <2>2, <4>1 DEF TypeOK, QueuePresentKHR
    <3>2. /\ screenShotFrameRange' \in FrameRange
          /\ screenShotFrameRange'.valid => screenShotFrameRange'.interval > 0
      BY <2>2 DEF TypeOK, QueuePresentKHR, FrameRange
    <3>3. screenshotFramesReceived' \in BOOLEAN
      BY <2>2 DEF TypeOK, QueuePresentKHR
    <3>4. /\ frameNumber' \in 0 .. MaxFrame /\ option' \in Options
          /\ instances' \in 0 .. MaxInstances /\ carried' \in BOOLEAN
      BY <2>2, MaxFrameAssumption DEF TypeOK, QueuePresentKHR
    <3>5. shots' \in SUBSET (0 .. MaxFrame)
      BY <2>2 DEF TypeOK, QueuePresentKHR
    <3> QED  BY <3>1, <3>2, <3>3, <3>4, <3>5 DEF TypeOK
  <2>3. CASE UNCHANGED vars
    BY <2>3 DEF TypeOK, vars
  <2> QED  BY <2>1, <2>2, <2>3 DEF Next
<1> QED  BY <1>1, <1>2, PTL DEF Spec

---------------------------------------------------------------------------
(* The schedule serves the option                                          *)

\* No frame from here on is one the option asks for.
NothingLeft(from) == \A frame \in Nat : frame >= from => ~Wanted(option, frame)

\* What is scheduled, at any time, is what the option still asks for: the rest of
\* its list; or its range, until no wanted frame is left.
Serving ==
  /\ instances = 0 => screenshotFrames = {} /\ ~screenShotFrameRange.valid
  /\ option.kind # "list" => screenshotFrames = {}
  /\ option.kind = "list" => screenshotFrames \subseteq option.frames
  /\ (option.kind = "list" /\ instances > 0) =>
       \A frame \in option.frames : frame >= frameNumber => frame \in screenshotFrames
  /\ option.kind \in {"none", "list"} => ~screenShotFrameRange.valid
  /\ (isOptionBelongToScreenShotRange(option) /\ instances > 0) =>
       \/ screenShotFrameRange = RangeOf(option)
       \/ ~screenShotFrameRange.valid /\ NothingLeft(frameNumber)

\* An option for a range that is refused asks for nothing.
LEMMA RefusedAsksNothing ==
  ASSUME NEW opt \in Options, isOptionBelongToScreenShotRange(opt),
         ~RangeOf(opt).valid, NEW frame \in Nat
  PROVE  ~Wanted(opt, frame)
  BY RangeServes DEF isInScreenShotFrameRange, InRange

\* A wanted frame is due when it is presented.
LEMMA WantedIsDue ==
  ASSUME TypeOK, Serving, instances > 0, Wanted(option, frameNumber)
  PROVE  ShotDue
<1>1. frameNumber \in Nat /\ option \in Options
  BY MaxFrameAssumption DEF TypeOK
<1>2. CASE option.kind = "list"
  <2>1. frameNumber \in screenshotFrames
    BY <1>1, <1>2 DEF Wanted, Serving
  <2> QED  BY <2>1 DEF ShotDue, Pending
<1>3. CASE isOptionBelongToScreenShotRange(option)
  <2>1. screenShotFrameRange = RangeOf(option)
    BY <1>1, <1>3 DEF Serving, NothingLeft
  <2>2. isInScreenShotFrameRange(frameNumber, screenShotFrameRange)
    BY <1>1, <1>3, <2>1, RangeServes
  <2> QED  BY <2>2 DEF ShotDue, Pending, isInScreenShotFrameRange, InRange
<1> QED  BY <1>2, <1>3 DEF Wanted, isOptionBelongToScreenShotRange

\* Nothing is due before the first instance.
LEMMA DueNeedsInstance ==
  ASSUME TypeOK, Serving, ShotDue
  PROVE  instances > 0
<1>1. instances # 0
  BY DEF Serving, ShotDue, Pending
<1> QED  BY <1>1, MaxInstancesAssumption DEF TypeOK

\* A frame that is due is a wanted one, unless the option is unlimited and late.
LEMMA DueIsWanted ==
  ASSUME TypeOK, Serving, ShotDue, ~LateUnlimited(option)
  PROVE  Wanted(option, frameNumber)
<1>1. frameNumber \in Nat /\ option \in Options /\ instances > 0
  BY MaxFrameAssumption, DueNeedsInstance DEF TypeOK
<1>2. CASE frameNumber \in screenshotFrames
  BY <1>2 DEF Serving, Wanted
<1>3. CASE isInScreenShotFrameRange(frameNumber, screenShotFrameRange)
  <2>1. screenShotFrameRange.valid
    BY <1>3 DEF isInScreenShotFrameRange, InRange
  <2>2. option.kind \notin {"none", "list"}
    BY <2>1 DEF Serving
  <2>3. isOptionBelongToScreenShotRange(option)
    BY <1>1, <2>2, OptionsAssumption DEF isOptionBelongToScreenShotRange, Kinds
  <2>4. screenShotFrameRange = RangeOf(option)
    BY <1>1, <2>1, <2>3 DEF Serving
  <2> QED  BY <1>1, <1>3, <2>3, <2>4, RangeServes
<1> QED  BY <1>2, <1>3 DEF ShotDue

\* The screenshot that ends the schedule leaves no wanted frame behind.
LEMMA LastShotLeavesNothing ==
  ASSUME TypeOK, Serving, LastShot
  PROVE  NothingLeft(frameNumber + 1)
<1>1. frameNumber \in Nat /\ option \in Options /\ instances > 0
  BY MaxFrameAssumption, DueNeedsInstance DEF TypeOK, LastShot
<1> SUFFICES ASSUME NEW frame \in Nat, frame >= frameNumber + 1, Wanted(option, frame)
             PROVE  FALSE
  BY DEF NothingLeft
<1>2. CASE option.kind = "list"
  <2>1. frame \in screenshotFrames
    BY <1>1, <1>2 DEF Wanted, Serving
  <2> QED  BY <1>1, <2>1 DEF LastShot
<1>3. CASE isOptionBelongToScreenShotRange(option)
  <2>1. screenShotFrameRange = RangeOf(option)
    BY <1>1, <1>3 DEF Serving, NothingLeft
  <2>2. isInScreenShotFrameRange(frame, screenShotFrameRange)
    BY <1>1, <1>3, <2>1, RangeServes
  <2>3. /\ screenShotFrameRange.valid
        /\ getEndFrameOfRange(screenShotFrameRange) # SCREEN_SHOT_FRAMES_UNLIMITED
        /\ frameNumber >= getEndFrameOfRange(screenShotFrameRange)
    BY <2>2 DEF LastShot, isEndOfScreenShotFrameRange, isInScreenShotFrameRange, InRange
  <2>4. frame <= getEndFrameOfRange(screenShotFrameRange)
    BY <2>2, <2>3 DEF isInScreenShotFrameRange, InRange, getEndFrameOfRange
  <2>5. getEndFrameOfRange(screenShotFrameRange) \in Int
    BY <2>3 DEF TypeOK, FrameRange, getEndFrameOfRange
  <2> QED  BY <1>1, <2>3, <2>4, <2>5
<1> QED  BY <1>2, <1>3 DEF Wanted, isOptionBelongToScreenShotRange

\* The schedule serves the option in every reachable state.
LEMMA ServingInvariant == Spec => []Serving
<1>1. Init => Serving
  BY OptionsAssumption DEF Init, Serving, NoRange
<1>2. TypeOK /\ Serving /\ [Next]_vars => Serving'
  <2> SUFFICES ASSUME TypeOK, Serving, [Next]_vars PROVE Serving'
    OBVIOUS
  <2>1. CASE CreateInstance
    <3>1. /\ instances' # 0
          /\ option' = option /\ frameNumber' = frameNumber
          /\ option.kind = "list" => screenshotFrames' = screenshotFrames \cup option.frames
          /\ option.kind # "list" => screenshotFrames' = screenshotFrames
      BY <2>1, MaxInstancesAssumption DEF TypeOK, CreateInstance, populate_frame_list
    <3>2. /\ (isOptionBelongToScreenShotRange(option) /\ RangeOf(option).valid) =>
               screenShotFrameRange' = RangeOf(option)
          /\ (isOptionBelongToScreenShotRange(option) /\ ~RangeOf(option).valid) =>
               ~screenShotFrameRange'.valid /\ NothingLeft(frameNumber)
          /\ ~isOptionBelongToScreenShotRange(option) =>
               screenShotFrameRange' = screenShotFrameRange
      BY <2>1, ParsedAgain, RefusedAsksNothing
         DEF TypeOK, CreateInstance, populate_frame_list, NothingLeft
    <3>5. NothingLeft(frameNumber) => NothingLeft(frameNumber)'
      BY <3>1 DEF NothingLeft
    <3>3. isOptionBelongToScreenShotRange(option) <=> option.kind \in {"all", "range"}
      BY DEF isOptionBelongToScreenShotRange
    <3>4. isOptionBelongToScreenShotRange(option)' <=> isOptionBelongToScreenShotRange(option)
      BY <3>1 DEF isOptionBelongToScreenShotRange
    <3> QED  BY <3>1, <3>2, <3>3, <3>4, <3>5 DEF Serving
  <2>2. ASSUME NEW swapchain \in BOOLEAN, QueuePresentKHR(swapchain) PROVE Serving'
    <3>1. /\ instances' = instances /\ instances > 0
          /\ option' = option /\ frameNumber' = frameNumber + 1
          /\ frameNumber \in Nat /\ option \in Options
      BY <2>2, MaxFrameAssumption DEF QueuePresentKHR, TypeOK
    <3>2. /\ screenshotFrames' \subseteq screenshotFrames
          /\ \A frame \in screenshotFrames :
               frame # frameNumber => frame \in screenshotFrames'
      BY <2>2 DEF QueuePresentKHR
    <3>3. option.kind = "list" => \A frame \in option.frames :
            frame >= frameNumber + 1 => frame \in screenshotFrames'
      <4> SUFFICES ASSUME option.kind = "list", NEW frame \in option.frames,
                          frame >= frameNumber + 1
                   PROVE  frame \in screenshotFrames'
        OBVIOUS
      <4>1. frame \in Nat
        BY <3>1, OptionsAssumption
      <4>2. frame >= frameNumber /\ frame # frameNumber
        BY <3>1, <4>1
      <4> QED  BY <3>1, <3>2, <4>2 DEF Serving
    <3>4. screenShotFrameRange'.valid => screenShotFrameRange' = screenShotFrameRange
      BY <2>2 DEF QueuePresentKHR, TypeOK, FrameRange
    <3>5. isOptionBelongToScreenShotRange(option) =>
            \/ screenShotFrameRange' = RangeOf(option)
            \/ ~screenShotFrameRange'.valid /\ NothingLeft(frameNumber + 1)
      <4> SUFFICES ASSUME isOptionBelongToScreenShotRange(option)
                   PROVE  \/ screenShotFrameRange' = RangeOf(option)
                          \/ ~screenShotFrameRange'.valid /\ NothingLeft(frameNumber + 1)
        OBVIOUS
      <4>1. CASE LastShot
        <5>1. ~screenShotFrameRange'.valid
          BY <2>2, <4>1 DEF QueuePresentKHR, TypeOK, FrameRange
        <5> QED  BY <4>1, <5>1, LastShotLeavesNothing
      <4>2. CASE ~LastShot
        <5>1. screenShotFrameRange' = screenShotFrameRange
          BY <2>2, <4>2 DEF QueuePresentKHR
        <5>2. NothingLeft(frameNumber) => NothingLeft(frameNumber + 1)
          BY <3>1 DEF NothingLeft
        <5> QED  BY <3>1, <5>1, <5>2 DEF Serving
      <4> QED  BY <4>1, <4>2
    <3>6. NothingLeft(frameNumber + 1) => NothingLeft(frameNumber)'
      BY <3>1 DEF NothingLeft
    <3> QED  BY <3>1, <3>2, <3>3, <3>4, <3>5, <3>6 DEF Serving
  <2>3. CASE UNCHANGED vars
    BY <2>3 DEF Serving, vars, NothingLeft
  <2> QED  BY <2>1, <2>2, <2>3 DEF Next
<1> QED  BY <1>1, <1>2, TypeCorrect, PTL DEF Spec

---------------------------------------------------------------------------
(* What the user gets                                                      *)

\* The other handlers stop tracking objects only when no present from then on is
\* one the documentation promises a screenshot of.
THEOREM DoneMeansDoneCorrect == Spec => []DoneMeansDone
<1>1. TypeOK /\ Serving => DoneMeansDone
  <2> SUFFICES ASSUME TypeOK, Serving, instances > 0, NothingToTake,
                      NEW frame \in frameNumber .. MaxFrame, Wanted(option, frame)
               PROVE  FALSE
    BY DEF DoneMeansDone
  <2>1. frame \in Nat /\ frame >= frameNumber /\ option \in Options
    BY MaxFrameAssumption DEF TypeOK
  <2>2. CASE option.kind = "list"
    BY <2>1, <2>2 DEF Wanted, Serving, NothingToTake
  <2>3. CASE isOptionBelongToScreenShotRange(option)
    <3>1. screenShotFrameRange = RangeOf(option)
      BY <2>1, <2>3 DEF Serving, NothingLeft
    <3> QED  BY <2>1, <2>3, <3>1, RefusedAsksNothing DEF NothingToTake
  <2> QED  BY <2>2, <2>3 DEF Wanted, isOptionBelongToScreenShotRange
<1> QED  BY <1>1, TypeCorrect, ServingInvariant, PTL

\* The maps are freed in the present that captures the last wanted frame.
THEOREM LastShotIsLastCorrect == Spec => []LastShotIsLast
<1>1. TypeOK /\ Serving => LastShotIsLast
  <2> SUFFICES ASSUME TypeOK, Serving, LastShot,
                      NEW frame \in frameNumber + 1 .. MaxFrame
               PROVE  ~Wanted(option, frame)
    BY DEF LastShotIsLast
  <2>1. frame \in Nat /\ frame >= frameNumber + 1
    BY MaxFrameAssumption DEF TypeOK
  <2> QED  BY <2>1, LastShotLeavesNothing DEF NothingLeft
<1> QED  BY <1>1, TypeCorrect, ServingInvariant, PTL

\* Unless some option is unlimited and late, the mutable schedule implements the
\* abstract promise: each present of a wanted frame that carries a swapchain is
\* captured, none is missed, and no other present is.
THEOREM CapturesAsPromisedCorrect ==
  ASSUME \A opt \in Options : ~LateUnlimited(opt)
  PROVE  Spec => CapturesAsPromised
<1>1. Init => Capture!Init
  BY DEF Init, Capture!Init
<1>2. TypeOK /\ Serving /\ [Next]_vars => [Capture!Next]_Capture!vars
  <2> SUFFICES ASSUME TypeOK, Serving, [Next]_vars
               PROVE  Capture!Next \/ UNCHANGED Capture!vars
    OBVIOUS
  <2>1. CASE CreateInstance
    BY <2>1 DEF CreateInstance, Capture!vars
  <2>2. CASE QueuePresentKHR(FALSE)
    BY <2>2 DEF QueuePresentKHR, Capture!Next, Capture!PresentNothing
  <2>3. CASE QueuePresentKHR(TRUE)
    <3>1. ShotDue <=> Wanted(option, frameNumber)
      <4>1. instances > 0 /\ option \in Options
        BY <2>3 DEF QueuePresentKHR, TypeOK
      <4> QED  BY <4>1, WantedIsDue, DueIsWanted
    <3>2. /\ frameNumber' = frameNumber + 1 /\ option' = option
          /\ shots' = IF ShotDue THEN shots \cup {frameNumber} ELSE shots
          /\ carried' = TRUE
      BY <2>3 DEF QueuePresentKHR
    <3> QED  BY <3>1, <3>2 DEF Capture!Next, Capture!Present
  <2>4. CASE UNCHANGED vars
    BY <2>4 DEF vars, Capture!vars
  <2> QED  BY <2>1, <2>2, <2>3, <2>4 DEF Next
<1> QED  BY <1>1, <1>2, TypeCorrect, ServingInvariant, PTL
         DEF Spec, CapturesAsPromised, Capture!Spec
=============================================================================
