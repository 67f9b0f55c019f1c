-------------------------- MODULE ScreenshotRange --------------------------
(***************************************************************************)
(* How the screenshot layer reads its "frames" option and decides which    *)
(* frames it asks for: layersvt/screenshot_parsing.cpp and the range       *)
(* helpers of layersvt/screenshot.cpp.                                     *)
(*                                                                         *)
(* An option is one of                                                     *)
(*   kind "none"   the environment variable and the setting are both empty *)
(*   kind "list"   a string with no '-' in it, other than "all": `frames'  *)
(*                 is the set of its words that start with a digit         *)
(*   kind "all"    the string "all"                                        *)
(*   kind "range"  a string with a '-': `tokens' is its sequence of        *)
(*                 numbers (naturals), dashes (Dash) and other characters  *)
(*                 (Other); two numbers are never adjacent.                *)
(***************************************************************************)
EXTENDS Integers, Sequences

SCREEN_SHOT_FRAMES_UNLIMITED == -1
SCREEN_SHOT_FRAMES_INTERVAL_DEFAULT == 1

Dash == -1
Other == -2

FrameRange == [valid : BOOLEAN, startFrame : Int, count : Int, interval : Int]

\* Before anything is read.
NoRange == [valid |-> FALSE, startFrame |-> 0,
            count |-> SCREEN_SHOT_FRAMES_UNLIMITED,
            interval |-> SCREEN_SHOT_FRAMES_INTERVAL_DEFAULT]

---------------------------------------------------------------------------
(* Parsing                                                                 *)

isOptionBelongToScreenShotRange(option) == option.kind \in {"all", "range"}

\* Digits and at most two dashes.
checkScreenShotFrameRangeString(tokens) ==
  /\ \A i \in DOMAIN tokens : tokens[i] # Other
  /\ \A i, j, k \in DOMAIN tokens :
       (i < j /\ j < k) => \E n \in {i, j, k} : tokens[n] # Dash

\* One "%d" of sscanf: an optional sign, then digits.  What is left of the
\* input starts at `next'; a conversion that fails leaves `next' at 0.
ScanInt(tokens, at) ==
  IF at > 0 /\ at <= Len(tokens) /\ tokens[at] >= 0
  THEN [value |-> tokens[at], next |-> at + 1]
  ELSE IF at > 0 /\ at < Len(tokens) /\ tokens[at] = Dash /\ tokens[at + 1] >= 0
  THEN [value |-> -tokens[at + 1], next |-> at + 2]
  ELSE [value |-> 0, next |-> 0]

\* The literal '-' between two conversions.
ScanDash(tokens, at) ==
  IF at > 0 /\ at <= Len(tokens) /\ tokens[at] = Dash THEN at + 1 ELSE 0

\* sscanf(parameter, "%d-%d-%d", &start, &frameCount, &interval)
Scan(tokens) ==
  LET start    == ScanInt(tokens, 1)
      count    == ScanInt(tokens, ScanDash(tokens, start.next))
      interval == ScanInt(tokens, ScanDash(tokens, count.next))
  IN  [items |-> IF start.next = 0 THEN 0
                 ELSE IF count.next = 0 THEN 1
                 ELSE IF interval.next = 0 THEN 2 ELSE 3,
       start |-> start.value, frameCount |-> count.value,
       interval |-> IF interval.next = 0 THEN SCREEN_SHOT_FRAMES_INTERVAL_DEFAULT
                    ELSE interval.value]

\* The number of screenshots of a range of frameCount frames.
CountOfRange(frameCount, interval) ==
  IF frameCount = 0 THEN SCREEN_SHOT_FRAMES_UNLIMITED
  ELSE (frameCount \div interval) + (IF frameCount % interval # 0 THEN 1 ELSE 0)

\* Slip: the interval is not checked.
initScreenShotFrameRange_noIntervalCheck(option, range) ==
  IF option.kind = "all" THEN range
  ELSE LET scan == Scan(option.tokens)
       IN  [valid |-> scan.items >= 2, startFrame |-> scan.start,
            count |-> scan.frameCount, interval |-> scan.interval]

\* The numbers of the string make a range.
Accepted(scan) ==
  scan.items >= 2 /\ scan.start >= 0 /\ scan.frameCount >= 0 /\ scan.interval > 0

\* What sscanf leaves of a string whose numbers make none: it has assigned the
\* start and the interval as far as it got, 0 and negative numbers included.
Refused(scan, range) ==
  [valid |-> FALSE,
   startFrame |-> IF scan.items >= 1 THEN scan.start ELSE range.startFrame,
   count |-> range.count,
   interval |-> IF scan.items >= 2 THEN scan.interval ELSE range.interval]

\* What *pFrameRange holds afterwards, when it held `range' before: the structure
\* is the process's one range, which every vkCreateInstance parses into again.
initScreenShotFrameRange(option, range) ==
  LET scan == Scan(option.tokens)
  IN  IF option.kind = "all"
      THEN [valid |-> TRUE, startFrame |-> 0,
            count |-> SCREEN_SHOT_FRAMES_UNLIMITED,
            interval |-> SCREEN_SHOT_FRAMES_INTERVAL_DEFAULT]
      ELSE IF ~checkScreenShotFrameRangeString(option.tokens)
      THEN [range EXCEPT !.valid = FALSE]
      ELSE IF Accepted(scan)
      THEN [valid |-> TRUE, startFrame |-> scan.start,
            count |-> CountOfRange(scan.frameCount, scan.interval),
            interval |-> scan.interval]
      ELSE Refused(scan, range)

\* The range the first vkCreateInstance reads.
RangeOf(option) == initScreenShotFrameRange(option, NoRange)

---------------------------------------------------------------------------
(* Membership                                                              *)

getEndFrameOfRange(range) ==
  IF range.count = SCREEN_SHOT_FRAMES_UNLIMITED THEN SCREEN_SHOT_FRAMES_UNLIMITED
  ELSE range.startFrame + (range.count - 1) * range.interval

\* Slip: the range starts after its first frame.
InRange_afterStart(frame, range) ==
  /\ range.valid
  /\ \/ range.count = SCREEN_SHOT_FRAMES_UNLIMITED
     \/ frame > range.startFrame /\ frame <= getEndFrameOfRange(range)

InRange(frame, range) ==
  /\ range.valid
  /\ \/ range.count = SCREEN_SHOT_FRAMES_UNLIMITED
     \/ /\ frame >= range.startFrame
        /\ \/ frame <= getEndFrameOfRange(range)
           \/ getEndFrameOfRange(range) = SCREEN_SHOT_FRAMES_UNLIMITED

\* *pScreenShotFrame.  C's % and TLA+'s agree on which operands give 0.
isInScreenShotFrameRange(frame, range) ==
  InRange(frame, range) /\ (frame - range.startFrame) % range.interval = 0

\* Slip: the range ends after its last frame instead of at it.
isEndOfScreenShotFrameRange_after(frame, range) ==
  \/ ~range.valid
  \/ /\ getEndFrameOfRange(range) # SCREEN_SHOT_FRAMES_UNLIMITED
     /\ isInScreenShotFrameRange(frame, range)
     /\ frame > getEndFrameOfRange(range)

isEndOfScreenShotFrameRange(frame, range) ==
  \/ ~range.valid
  \/ /\ getEndFrameOfRange(range) # SCREEN_SHOT_FRAMES_UNLIMITED
     /\ isInScreenShotFrameRange(frame, range)
     /\ frame >= getEndFrameOfRange(range)

---------------------------------------------------------------------------
(* What the documentation promises                                         *)

\* screenshot_layer.md and screenshot_parsing.h: a list asks for its frames,
\* "all" for every frame, <start>-<count>[-<interval>] for every interval-th
\* of the count frames from start on, and for every one from start on when
\* count is 0.
Wanted(option, frame) ==
  \/ option.kind = "list" /\ frame \in option.frames
  \/ option.kind = "all"
  \/ /\ option.kind = "range"
     /\ RangeOf(option).valid
     /\ LET scan == Scan(option.tokens)
        IN  /\ frame >= scan.start
            /\ scan.frameCount # 0 => frame < scan.start + scan.frameCount
            /\ (frame - scan.start) % scan.interval = 0
=============================================================================
