---------------------------- MODULE FrameCapture ----------------------------
(***************************************************************************)
(* What the screenshot layer promises its user, with none of its state:    *)
(* presents are numbered from 0, and a present that carries a swapchain is *)
(* captured exactly when the option asks for its number.  `carried' makes  *)
(* the two kinds of present observable: without it a missed frame could    *)
(* pass for a present that had nothing to capture.                         *)
(***************************************************************************)
EXTENDS Naturals

CONSTANT Wanted(_, _)  \* Wanted(option, frame): the option asks for the frame

VARIABLES
  option,       \* what the user asked for, fixed for the process
  frameNumber,  \* number of the next present
  shots,        \* frames captured so far
  carried       \* the last present carried a swapchain

vars == <<option, frameNumber, shots, carried>>

Init ==
  /\ frameNumber = 0
  /\ shots = {}
  /\ carried = FALSE

Present ==
  /\ frameNumber' = frameNumber + 1
  /\ shots' = IF Wanted(option, frameNumber) THEN shots \cup {frameNumber}
              ELSE shots
  /\ carried' = TRUE
  /\ UNCHANGED option

\* A present without a swapchain has nothing to capture.
PresentNothing ==
  /\ frameNumber' = frameNumber + 1
  /\ carried' = FALSE
  /\ UNCHANGED <<option, shots>>

Next == Present \/ PresentNothing

Spec == Init /\ [][Next]_vars
=============================================================================
