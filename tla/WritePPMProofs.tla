--------------------------- MODULE WritePPMProofs ---------------------------
(***************************************************************************)
(* That writePPM leaves nothing in use behind, and that its commands copy  *)
(* the frame, for every set of formats and any number of failures.         *)
(***************************************************************************)
EXTENDS WritePPM, TLAPS

\* The steps after the submission at which the queue was, or should have been,
\* waited for, with "enter" for the return.
Waited == {"MapMemory", "open", "write", "enter"}

\* PresentUndisturbed is not inductive: that no copy is left at the return
\* depends on which wait failed on the way.
InFlight ==
  /\ pc \notin Waited \cup Ends \cup {"QueueWaitIdle", "DeviceWaitIdle"} => NoCopy
  /\ pc = "DeviceWaitIdle" => NoCopy \/ "QueueWaitIdle" \in failed
  /\ pc \in Waited => NoCopy \/ BothWaitsFailed

\* A call that submits nothing and is not a wait moves within the steps before
\* the submission, or within those after the waits.
LEMMA CallsKeepFlight ==
  ASSUME InFlight, NEW call, NEW next, NEW object,
         Make(call, object, next) \/ Asserted(call, next),
         call \notin Ends \cup {"QueueWaitIdle", "DeviceWaitIdle"},
         call \in Waited => next \in Waited,
         next \notin {"QueueWaitIdle", "DeviceWaitIdle"}
  PROVE  InFlight'
BY DEF InFlight, NoCopy, BothWaitsFailed, Waited, Ends, Make, Asserted,
       Proceed, Fail, Return, device

LEMMA StepKeepsFlight == ASSUME InFlight, Step PROVE InFlight'
<1> USE DEF Waited, Ends
<1>1. CASE Check
  BY <1>1 DEF InFlight, NoCopy, BothWaitsFailed, Check, Return, device
<1>2. CASE \/ CreateImage2 \/ AllocateMemory2 \/ BindImageMemory2
           \/ CreateImage3 \/ AllocateMemory3 \/ BindImageMemory3
  BY <1>2
     DEF CreateImage2, AllocateMemory2, BindImageMemory2, CreateImage3,
         AllocateMemory3, BindImageMemory3, Make, Proceed, Fail, Return,
         InFlight, NoCopy, BothWaitsFailed, device
<1>3. CASE CreateCommandPool
  BY <1>3 DEF InFlight, NoCopy, BothWaitsFailed, CreateCommandPool, Proceed,
              Fail, Return, device
<1>4. CASE AllocateCommandBuffers
  BY <1>4, CallsKeepFlight
     DEF AllocateCommandBuffers, Misuse, InFlight, NoCopy, BothWaitsFailed, device
<1>5. CASE pfn_dev_init \/ BeginCommandBuffer \/ EndCommandBuffer
  <2>1. CASE Misuse("BeginCommandBuffer")
    BY <2>1 DEF Misuse, InFlight, NoCopy, BothWaitsFailed, device
  <2>2. CASE ~Misuse("BeginCommandBuffer")
    BY <1>5, <2>2, CallsKeepFlight DEF pfn_dev_init, BeginCommandBuffer, EndCommandBuffer
  <2> QED
    BY <2>1, <2>2
<1>6. CASE Record
  BY <1>6 DEF Record, InFlight, NoCopy, BothWaitsFailed, device
<1>7. CASE QueueSubmit
  <2>1. CASE "EndCommandBuffer" \in failed
    BY <1>7, <2>1 DEF QueueSubmit, Misuse, InFlight, NoCopy, BothWaitsFailed, device
  <2>2. CASE "EndCommandBuffer" \notin failed
    <3>1. NoCopy /\ pc = "QueueSubmit"
      BY <1>7, <2>2 DEF QueueSubmit, InFlight
    <3>2. pc' \in {"QueueWaitIdle", "aborted"}
      BY <1>7, <2>2 DEF QueueSubmit, Proceed, Fail
    <3> QED
      BY <3>2 DEF InFlight
  <2> QED
    BY <2>1, <2>2
<1>8. CASE QueueWaitIdle
  BY <1>8 DEF QueueWaitIdle, QueueIdle, InFlight, NoCopy, BothWaitsFailed,
              Proceed, Fail, Return, device
<1>9. CASE DeviceWaitIdle
  BY <1>9 DEF DeviceWaitIdle, DeviceIdle, QueueIdle, InFlight, NoCopy,
              BothWaitsFailed, Proceed, Fail, Return, device
<1>10. CASE MapMemory \/ OpenFile
  BY <1>10, CallsKeepFlight DEF MapMemory, OpenFile
<1>11. CASE WriteFile
  BY <1>11 DEF WriteFile, InFlight, NoCopy, BothWaitsFailed, Return, device
<1> QED
  BY <1>1, <1>2, <1>3, <1>4, <1>5, <1>6, <1>7, <1>8, <1>9, <1>10, <1>11 DEF Step

LEMMA InFlightInit == Init => InFlight
BY DEF Init, InFlight, NoCopy, Waited, Ends

LEMMA InFlightNext == ASSUME InFlight, [Next]_vars PROVE InFlight'
<1> USE DEF Waited, Ends
<1>1. CASE Enter
  <2>1. queue' \in {<<>>, <<"rendering">>} /\ pc' = "check"
    BY <1>1 DEF Enter
  <2> QED
    BY <2>1 DEF InFlight, NoCopy
<1>2. CASE Step
  BY <1>2, StepKeepsFlight
<1>3. CASE Execute
  <2>1. NoCopy => queue' = <<>>
    <3> SUFFICES ASSUME NoCopy PROVE queue' = <<>>
      OBVIOUS
    <3>1. queue = <<"rendering">> /\ Head(queue) # "copy"
      BY <1>3 DEF Execute, NoCopy
    <3>2. queue' = Tail(queue)
      BY <1>3, <3>1 DEF Execute
    <3> QED
      BY <3>1, <3>2
  <2>2. UNCHANGED <<pc, failed>>
    BY <1>3 DEF Execute
  <2> QED
    BY <2>1, <2>2 DEF InFlight, NoCopy, BothWaitsFailed
<1>4. CASE ExecuteOther
  BY <1>4 DEF ExecuteOther, InFlight, NoCopy, BothWaitsFailed
<1>5. CASE UNCHANGED vars
  BY <1>5 DEF vars, InFlight, NoCopy, BothWaitsFailed
<1> QED
  BY <1>1, <1>2, <1>3, <1>4, <1>5 DEF Next

\* Whatever fails and however long the device takes, writePPM does not return
\* while the device is still to run the copy, unless both of its waits failed:
\* what the destructor frees is out of use.
THEOREM PresentUndisturbedCorrect == Spec => []PresentUndisturbed
<1>1. InFlight /\ [Next]_vars => InFlight'
  BY InFlightNext
<1>2. InFlight => PresentUndisturbed
  BY DEF InFlight, PresentUndisturbed, Waited, Ends
<1> QED  BY <1>1, <1>2, InFlightInit, PTL DEF Spec

---------------------------------------------------------------------------
(* What the device has done, and what the images are after each command    *)

RenderingQueued == queue \in {<<"rendering">>, <<"rendering", "copy">>}
CopyQueued == queue \in {<<"copy">>, <<"rendering", "copy">>}

\* The copy is queued once, after it was recorded, and behind the rendering.
Queued ==
  /\ queue \in {<<>>, <<"rendering">>, <<"copy">>, <<"rendering", "copy">>}
  /\ other \in {<<>>, <<"rendering">>}
  /\ shot.sameQueue => other = <<>>
  /\ RenderingQueued => shot.sameQueue /\ executed = 0
  /\ CopyQueued => commands = Script /\ executed \in 0..(Len(Script) - 1)
  /\ ~CopyQueued => executed \in {0, Len(commands)}

BeforeRecord ==
  {"check", "CreateImage2", "AllocateMemory2", "BindImageMemory2", "CreateImage3",
   "AllocateMemory3", "BindImageMemory3", "CreateCommandPool",
   "AllocateCommandBuffers", "pfn_dev_init", "BeginCommandBuffer", "record"}
AfterSubmit == {"QueueWaitIdle", "DeviceWaitIdle", "MapMemory", "open", "write"}

\* How far writePPM is, and the device with what it submitted.
Recorded ==
  /\ commands \in {<<>>, Script}
  /\ pc \in BeforeRecord => commands = <<>> /\ executed = 0 /\ ~CopyQueued
  /\ pc \in {"EndCommandBuffer", "QueueSubmit"} =>
       commands = Script /\ executed = 0 /\ ~CopyQueued
  /\ pc \in AfterSubmit /\ "QueueSubmit" \notin failed =>
       commands = Script /\ (CopyQueued \/ executed = Len(Script))
  /\ ~shot.known => pc \in {"enter", "check"} /\ commands = <<>>

\* The order of the pixels in image2 after the first transfer.
Order2 == IF copyOnly THEN shot.format.order ELSE dest.order

\* What the images are after the rendering and k commands, on the way with two
\* images and on the one with three.
Layout1(k) == IF k \in {0, Len(Script)} THEN "PRESENT_SRC" ELSE "TRANSFER_SRC"
Layout2(k) ==
  IF k < 2 THEN "UNDEFINED"
  ELSE IF k < (IF need2steps THEN 5 ELSE 4) THEN "TRANSFER_DST"
  ELSE IF need2steps THEN "TRANSFER_SRC" ELSE "GENERAL"
Layout3(k) ==
  IF ~need2steps \/ k < 4 THEN "UNDEFINED"
  ELSE IF k < 7 THEN "TRANSFER_DST" ELSE "GENERAL"

At(layout, holds, order) == [layout |-> layout, holds |-> holds, order |-> order]
Contents(first, second, third) ==
  [image \in Images |-> CASE image = "image1" -> first
                          [] image = "image2" -> second
                          [] image = "image3" -> third]

Expected(k) ==
  Contents(At(Layout1(k), "frame", shot.format.order),
           At(Layout2(k), IF k < 3 THEN "garbage" ELSE "frame",
                          IF k < 3 THEN "other" ELSE Order2),
           At(Layout3(k), IF ~need2steps \/ k < 6 THEN "garbage" ELSE "frame",
                          IF ~need2steps \/ k < 6 THEN "other" ELSE Order2))

\* Behind the rendering, the images are what the commands so far make of them.
Staged ==
  shot.sameQueue =>
    /\ ~misused
    /\ shot.known =>
         images = IF RenderingQueued
                  THEN [image \in Images |->
                          IF image = "image1" THEN Acquired(shot.format) ELSE Fresh]
                  ELSE Expected(executed)

\* Wherever the application renders, the copy gives the swapchain image back.
GivenBack ==
  shot.known /\ ~RenderingQueued /\ other = <<>> /\ executed \in {0, Len(commands)} =>
    images["image1"].layout = "PRESENT_SRC"

\* Inductive with InFlight, which the writing of the file needs.
Kept == TypeOK /\ Queued /\ Recorded /\ Staged /\ GivenBack /\ FileShowsFrame

---------------------------------------------------------------------------
(* The commands, one by one *)

\* The script with two images has five commands, the one with three has eight.
LEMMA ScriptTwo ==
  ASSUME ~need2steps
  PROVE  /\ Len(Script) = 5
         /\ Script[1] = Barrier("image1", "PRESENT_SRC", "TRANSFER_SRC")
         /\ Script[2] = Barrier("image2", "UNDEFINED", "TRANSFER_DST")
         /\ Script[3] = Transfer(IF copyOnly THEN "copy" ELSE "blit", "image1", "image2")
         /\ Script[4] = Barrier("image2", "TRANSFER_DST", "GENERAL")
         /\ Script[5] = Barrier("image1", "TRANSFER_SRC", "PRESENT_SRC")
BY DEF Script, FinalImage
LEMMA ScriptThree ==
  ASSUME need2steps
  PROVE  /\ Len(Script) = 8
         /\ Script[1] = Barrier("image1", "PRESENT_SRC", "TRANSFER_SRC")
         /\ Script[2] = Barrier("image2", "UNDEFINED", "TRANSFER_DST")
         /\ Script[3] = Transfer(IF copyOnly THEN "copy" ELSE "blit", "image1", "image2")
         /\ Script[4] = Barrier("image3", "UNDEFINED", "TRANSFER_DST")
         /\ Script[5] = Barrier("image2", "TRANSFER_DST", "TRANSFER_SRC")
         /\ Script[6] = Transfer("copy", "image2", "image3")
         /\ Script[7] = Barrier("image3", "TRANSFER_DST", "GENERAL")
         /\ Script[8] = Barrier("image1", "TRANSFER_SRC", "PRESENT_SRC")
BY DEF Script, FinalImage

\* A barrier changes the layout of its image, and a transfer what its destination
\* holds, of all that is known of the three images.
LEMMA BarrierApplied ==
  ASSUME NEW layout, NEW holds, NEW order, NEW old, NEW new, NEW a, NEW b
  PROVE  /\ Apply(Contents(At(layout, holds, order), a, b), Barrier("image1", old, new)) =
              Contents(At(new, holds, order), a, b)
         /\ Apply(Contents(a, At(layout, holds, order), b), Barrier("image2", old, new)) =
              Contents(a, At(new, holds, order), b)
         /\ Apply(Contents(a, b, At(layout, holds, order)), Barrier("image3", old, new)) =
              Contents(a, b, At(new, holds, order))
<1>1. ASSUME NEW image \in Images, NEW contents
      PROVE  Apply(contents, Barrier(image, old, new)) =
               [contents EXCEPT ![image].layout = new]
  BY DEF Apply, Barrier
<1>2. [At(layout, holds, order) EXCEPT !.layout = new] = At(new, holds, order)
  BY DEF At
<1>3. ASSUME NEW f, NEW image \in Images, DOMAIN f = Images, f[image] = At(layout, holds, order)
      PROVE  Apply(f, Barrier(image, old, new)) = [f EXCEPT ![image] = At(new, holds, order)]
  <2>1. Apply(f, Barrier(image, old, new)) = [f EXCEPT ![image].layout = new]
    BY <1>1
  <2>2. [f EXCEPT ![image].layout = new] = [f EXCEPT ![image] = [f[image] EXCEPT !.layout = new]]
    OBVIOUS
  <2> QED  BY <1>2, <1>3, <2>1, <2>2
<1>4. /\ DOMAIN Contents(At(layout, holds, order), a, b) = Images
      /\ DOMAIN Contents(a, At(layout, holds, order), b) = Images
      /\ DOMAIN Contents(a, b, At(layout, holds, order)) = Images
      /\ Contents(At(layout, holds, order), a, b)["image1"] = At(layout, holds, order)
      /\ Contents(a, At(layout, holds, order), b)["image2"] = At(layout, holds, order)
      /\ Contents(a, b, At(layout, holds, order))["image3"] = At(layout, holds, order)
      /\ "image1" \in Images /\ "image2" \in Images /\ "image3" \in Images
  BY DEF Contents, Images
<1>5. /\ [Contents(At(layout, holds, order), a, b) EXCEPT !["image1"] = At(new, holds, order)] =
           Contents(At(new, holds, order), a, b)
      /\ [Contents(a, At(layout, holds, order), b) EXCEPT !["image2"] = At(new, holds, order)] =
           Contents(a, At(new, holds, order), b)
      /\ [Contents(a, b, At(layout, holds, order)) EXCEPT !["image3"] = At(new, holds, order)] =
           Contents(a, b, At(new, holds, order))
  BY DEF Contents, Images
<1> QED
  BY <1>3, <1>4, <1>5
LEMMA BarrierFits ==
  ASSUME NEW layout, NEW holds, NEW order, NEW old, NEW new, NEW a, NEW b,
         old = "UNDEFINED" \/ old = layout
  PROVE  /\ Fits(Contents(At(layout, holds, order), a, b), Barrier("image1", old, new))
         /\ Fits(Contents(a, At(layout, holds, order), b), Barrier("image2", old, new))
         /\ Fits(Contents(a, b, At(layout, holds, order)), Barrier("image3", old, new))
BY DEF Fits, Contents, Barrier, At, Images

LEMMA TransferApplied ==
  ASSUME NEW layout, NEW holds, NEW order, NEW l, NEW h, NEW o, NEW a
  PROVE  /\ Apply(Contents(At(l, h, o), At(layout, holds, order), a),
                  Transfer("copy", "image1", "image2")) =
              Contents(At(l, h, o), At(layout, h, o), a)
         /\ Apply(Contents(At(l, h, o), At(layout, holds, order), a),
                  Transfer("blit", "image1", "image2")) =
              Contents(At(l, h, o), At(layout, h, dest.order), a)
         /\ Apply(Contents(a, At(l, h, o), At(layout, holds, order)),
                  Transfer("copy", "image2", "image3")) =
              Contents(a, At(l, h, o), At(layout, h, o))
<1>1. ASSUME NEW f, NEW from \in Images, NEW to \in Images, DOMAIN f = Images,
             f[from] = At(l, h, o), f[to] = At(layout, holds, order)
      PROVE  /\ Apply(f, Transfer("copy", from, to)) = [f EXCEPT ![to] = At(layout, h, o)]
             /\ Apply(f, Transfer("blit", from, to)) =
                  [f EXCEPT ![to] = At(layout, h, dest.order)]
  <2>1. /\ Apply(f, Transfer("copy", from, to)) =
             [f EXCEPT ![to].holds = f[from].holds, ![to].order = f[from].order]
        /\ Apply(f, Transfer("blit", from, to)) =
             [f EXCEPT ![to].holds = f[from].holds, ![to].order = dest.order]
    BY DEF Apply, Transfer
  <2>2. ASSUME NEW x, NEW y
        PROVE  [f EXCEPT ![to].holds = x, ![to].order = y] =
                 [f EXCEPT ![to] = [f[to] EXCEPT !.holds = x, !.order = y]]
    <3>1. [f EXCEPT ![to].holds = x] = [f EXCEPT ![to] = [f[to] EXCEPT !.holds = x]]
      OBVIOUS
    <3> DEFINE g == [f EXCEPT ![to] = [f[to] EXCEPT !.holds = x]]
    <3>2. [f EXCEPT ![to].holds = x, ![to].order = y] = [g EXCEPT ![to].order = y]
      BY <3>1
    <3>3. [g EXCEPT ![to].order = y] = [g EXCEPT ![to] = [g[to] EXCEPT !.order = y]]
      OBVIOUS
    <3>4. g[to] = [f[to] EXCEPT !.holds = x]
      BY <1>1
    <3>5. [g EXCEPT ![to] = [g[to] EXCEPT !.order = y]] =
            [f EXCEPT ![to] = [[f[to] EXCEPT !.holds = x] EXCEPT !.order = y]]
      BY <3>4
    <3> QED  BY <3>2, <3>3, <3>5
  <2>3. ASSUME NEW x, NEW y
        PROVE  [f EXCEPT ![to].holds = x, ![to].order = y] = [f EXCEPT ![to] = At(layout, x, y)]
    <3>1. [At(layout, holds, order) EXCEPT !.holds = x, !.order = y] = At(layout, x, y)
      <4>1. [At(layout, holds, order) EXCEPT !.holds = x] = At(layout, x, order)
        BY DEF At
      <4>2. [At(layout, x, order) EXCEPT !.order = y] = At(layout, x, y)
        BY DEF At
      <4>3. [At(layout, holds, order) EXCEPT !.holds = x, !.order = y] =
              [[At(layout, holds, order) EXCEPT !.holds = x] EXCEPT !.order = y]
        OBVIOUS
      <4> QED  BY <4>1, <4>2, <4>3
    <3>2. [f[to] EXCEPT !.holds = x, !.order = y] = At(layout, x, y)
      BY <1>1, <3>1
    <3> QED  BY <2>2, <3>2
  <2>4. f[from].holds = h /\ f[from].order = o
    BY <1>1 DEF At
  <2>5. /\ [f EXCEPT ![to].holds = f[from].holds, ![to].order = f[from].order] =
             [f EXCEPT ![to] = At(layout, h, o)]
        /\ [f EXCEPT ![to].holds = f[from].holds, ![to].order = dest.order] =
             [f EXCEPT ![to] = At(layout, h, dest.order)]
    BY <2>3, <2>4, Zenon
  <2> QED  BY <2>1, <2>5
<1> DEFINE Before12 == Contents(At(l, h, o), At(layout, holds, order), a)
           Before23 == Contents(a, At(l, h, o), At(layout, holds, order))
<1>2. /\ DOMAIN Before12 = Images /\ DOMAIN Before23 = Images
      /\ Before12["image1"] = At(l, h, o) /\ Before12["image2"] = At(layout, holds, order)
      /\ Before23["image2"] = At(l, h, o) /\ Before23["image3"] = At(layout, holds, order)
      /\ "image1" \in Images /\ "image2" \in Images /\ "image3" \in Images
  BY DEF Contents, Images
<1>3. ASSUME NEW x
      PROVE  /\ [Before12 EXCEPT !["image2"] = x] = Contents(At(l, h, o), x, a)
             /\ [Before23 EXCEPT !["image3"] = x] = Contents(a, At(l, h, o), x)
  BY DEF Contents, Images
<1> HIDE DEF Before12, Before23
<1>4. /\ Apply(Before12, Transfer("copy", "image1", "image2")) =
           [Before12 EXCEPT !["image2"] = At(layout, h, o)]
      /\ Apply(Before12, Transfer("blit", "image1", "image2")) =
           [Before12 EXCEPT !["image2"] = At(layout, h, dest.order)]
      /\ Apply(Before23, Transfer("copy", "image2", "image3")) =
           [Before23 EXCEPT !["image3"] = At(layout, h, o)]
  BY <1>1, <1>2
<1> QED  BY <1>3, <1>4 DEF Before12, Before23

LEMMA TransferFits ==
  ASSUME NEW op \in {"copy", "blit"}, NEW h, NEW o, NEW h2, NEW o2, NEW a
  PROVE  /\ Fits(Contents(At("TRANSFER_SRC", h, o), At("TRANSFER_DST", h2, o2), a),
                 Transfer(op, "image1", "image2"))
         /\ Fits(Contents(a, At("TRANSFER_SRC", h, o), At("TRANSFER_DST", h2, o2)),
                 Transfer(op, "image2", "image3"))
BY DEF Fits, Contents, Transfer, At, Images

\* Each command finds its images in the layouts it names, and makes of them what
\* the table says.
LEMMA CommandsOfTwo ==
  ASSUME ~need2steps, NEW k \in 1..Len(Script)
  PROVE  /\ Fits(Expected(k - 1), Script[k])
         /\ Apply(Expected(k - 1), Script[k]) = Expected(k)
<1>0. /\ Expected(0) = Contents(At("PRESENT_SRC", "frame", shot.format.order),
                                 At("UNDEFINED", "garbage", "other"),
                                 At("UNDEFINED", "garbage", "other"))
      /\ Expected(1) = Contents(At("TRANSFER_SRC", "frame", shot.format.order),
                                 At("UNDEFINED", "garbage", "other"),
                                 At("UNDEFINED", "garbage", "other"))
      /\ Expected(2) = Contents(At("TRANSFER_SRC", "frame", shot.format.order),
                                 At("TRANSFER_DST", "garbage", "other"),
                                 At("UNDEFINED", "garbage", "other"))
      /\ Expected(3) = Contents(At("TRANSFER_SRC", "frame", shot.format.order),
                                 At("TRANSFER_DST", "frame", Order2),
                                 At("UNDEFINED", "garbage", "other"))
      /\ Expected(4) = Contents(At("TRANSFER_SRC", "frame", shot.format.order),
                                 At("GENERAL", "frame", Order2),
                                 At("UNDEFINED", "garbage", "other"))
      /\ Expected(5) = Contents(At("PRESENT_SRC", "frame", shot.format.order),
                                 At("GENERAL", "frame", Order2),
                                 At("UNDEFINED", "garbage", "other"))
  <2>1. Len(Script) = 5
    BY ScriptTwo
  <2>2. /\ Layout1(0) = "PRESENT_SRC" /\ Layout1(5) = "PRESENT_SRC"
        /\ \A j \in 1..4 : Layout1(j) = "TRANSFER_SRC"
    BY <2>1 DEF Layout1
  <2>3. /\ Layout2(0) = "UNDEFINED" /\ Layout2(1) = "UNDEFINED"
        /\ Layout2(2) = "TRANSFER_DST" /\ Layout2(3) = "TRANSFER_DST"
        /\ Layout2(4) = "GENERAL" /\ Layout2(5) = "GENERAL"
    BY DEF Layout2
  <2>4. \A j \in 0..5 : Layout3(j) = "UNDEFINED"
    BY DEF Layout3
  <2> QED  BY <2>2, <2>3, <2>4 DEF Expected
<1> HIDE DEF Expected
<1>1. CASE k = 1
  BY <1>0, <1>1, ScriptTwo, BarrierApplied, BarrierFits
<1>2. CASE k = 2
  BY <1>0, <1>2, ScriptTwo, BarrierApplied, BarrierFits
<1>3. CASE k = 3
  BY <1>0, <1>3, ScriptTwo, TransferApplied, TransferFits DEF Order2
<1>4. CASE k = 4
  BY <1>0, <1>4, ScriptTwo, BarrierApplied, BarrierFits
<1>5. CASE k = 5
  BY <1>0, <1>5, ScriptTwo, BarrierApplied, BarrierFits
<1>6. k \in {1, 2, 3, 4, 5}
  <2>1. Len(Script) = 5
    BY ScriptTwo
  <2> QED  BY <2>1
<1> QED  BY <1>1, <1>2, <1>3, <1>4, <1>5, <1>6

LEMMA CommandsOfThree ==
  ASSUME need2steps, NEW k \in 1..Len(Script)
  PROVE  /\ Fits(Expected(k - 1), Script[k])
         /\ Apply(Expected(k - 1), Script[k]) = Expected(k)
<1>0. /\ Expected(0) = Contents(At("PRESENT_SRC", "frame", shot.format.order),
                                 At("UNDEFINED", "garbage", "other"),
                                 At("UNDEFINED", "garbage", "other"))
      /\ Expected(1) = Contents(At("TRANSFER_SRC", "frame", shot.format.order),
                                 At("UNDEFINED", "garbage", "other"),
                                 At("UNDEFINED", "garbage", "other"))
      /\ Expected(2) = Contents(At("TRANSFER_SRC", "frame", shot.format.order),
                                 At("TRANSFER_DST", "garbage", "other"),
                                 At("UNDEFINED", "garbage", "other"))
      /\ Expected(3) = Contents(At("TRANSFER_SRC", "frame", shot.format.order),
                                 At("TRANSFER_DST", "frame", Order2),
                                 At("UNDEFINED", "garbage", "other"))
      /\ Expected(4) = Contents(At("TRANSFER_SRC", "frame", shot.format.order),
                                 At("TRANSFER_DST", "frame", Order2),
                                 At("TRANSFER_DST", "garbage", "other"))
      /\ Expected(5) = Contents(At("TRANSFER_SRC", "frame", shot.format.order),
                                 At("TRANSFER_SRC", "frame", Order2),
                                 At("TRANSFER_DST", "garbage", "other"))
      /\ Expected(6) = Contents(At("TRANSFER_SRC", "frame", shot.format.order),
                                 At("TRANSFER_SRC", "frame", Order2),
                                 At("TRANSFER_DST", "frame", Order2))
      /\ Expected(7) = Contents(At("TRANSFER_SRC", "frame", shot.format.order),
                                 At("TRANSFER_SRC", "frame", Order2),
                                 At("GENERAL", "frame", Order2))
      /\ Expected(8) = Contents(At("PRESENT_SRC", "frame", shot.format.order),
                                 At("TRANSFER_SRC", "frame", Order2),
                                 At("GENERAL", "frame", Order2))
  BY ScriptThree DEF Expected, Layout1, Layout2, Layout3
<1> HIDE DEF Expected
<1>1. CASE k = 1
  BY <1>0, <1>1, ScriptThree, BarrierApplied, BarrierFits
<1>2. CASE k = 2
  BY <1>0, <1>2, ScriptThree, BarrierApplied, BarrierFits
<1>3. CASE k = 3
  BY <1>0, <1>3, ScriptThree, TransferApplied, TransferFits DEF Order2
<1>4. CASE k = 4
  BY <1>0, <1>4, ScriptThree, BarrierApplied, BarrierFits
<1>5. CASE k = 5
  BY <1>0, <1>5, ScriptThree, BarrierApplied, BarrierFits
<1>6. CASE k = 6
  BY <1>0, <1>6, ScriptThree, TransferApplied, TransferFits DEF Order2
<1>7. CASE k = 7
  BY <1>0, <1>7, ScriptThree, BarrierApplied, BarrierFits
<1>8. CASE k = 8
  BY <1>0, <1>8, ScriptThree, BarrierApplied, BarrierFits
<1>9. k \in {1, 2, 3, 4, 5, 6, 7, 8}
  <2>1. Len(Script) = 8
    BY ScriptThree
  <2> QED  BY <2>1
<1> QED  BY <1>1, <1>2, <1>3, <1>4, <1>5, <1>6, <1>7, <1>8, <1>9

LEMMA Commands ==
  ASSUME NEW k \in 1..Len(Script)
  PROVE  /\ Fits(Expected(k - 1), Script[k])
         /\ Apply(Expected(k - 1), Script[k]) = Expected(k)
BY CommandsOfTwo, CommandsOfThree, Zenon

\* The rendering gives the first stage, and so does the last command for the
\* swapchain image, whatever the images were.
LEMMA Stages ==
  ASSUME shot.format \in Formats
  PROVE  /\ Len(Script) \in {5, 8}
         /\ Rendered([image \in Images |->
                        IF image = "image1" THEN Acquired(shot.format) ELSE Fresh]) =
              Expected(0)
         /\ Expected(0)["image1"].layout = "PRESENT_SRC"
         /\ Expected(Len(Script))["image1"].layout = "PRESENT_SRC"
<1>1. Len(Script) \in {5, 8}
  BY ScriptTwo, ScriptThree
<1>2. Expected(0) = Contents(At("PRESENT_SRC", "frame", shot.format.order),
                             At("UNDEFINED", "garbage", "other"),
                             At("UNDEFINED", "garbage", "other"))
  BY <1>1 DEF Expected, Layout1, Layout2, Layout3
<1>3. Expected(Len(Script))["image1"].layout = "PRESENT_SRC"
  BY <1>1 DEF Expected, Contents, At, Layout1, Images
<1>4. [image \in Images |-> IF image = "image1" THEN Acquired(shot.format) ELSE Fresh] =
        Contents(At("RENDERING", "garbage", shot.format.order),
                 At("UNDEFINED", "garbage", "other"), At("UNDEFINED", "garbage", "other"))
  BY DEF Contents, At, Images, Acquired, Fresh
<1>5. ASSUME NEW layout, NEW holds, NEW order, NEW a, NEW b
      PROVE  Rendered(Contents(At(layout, holds, order), a, b)) =
               Contents(At("PRESENT_SRC", "frame", order), a, b)
  <2> DEFINE f == Contents(At(layout, holds, order), a, b)
             g == [f EXCEPT !["image1"] = At("PRESENT_SRC", holds, order)]
  <2>1. /\ DOMAIN f = Images /\ f["image1"] = At(layout, holds, order) /\ "image1" \in Images
    BY DEF Contents, Images
  <2>2. [f EXCEPT !["image1"] = At("PRESENT_SRC", "frame", order)] =
          Contents(At("PRESENT_SRC", "frame", order), a, b)
    BY DEF Contents, Images
  <2> HIDE DEF f
  <2>3. [f EXCEPT !["image1"].layout = "PRESENT_SRC"] =
          [f EXCEPT !["image1"] = [f["image1"] EXCEPT !.layout = "PRESENT_SRC"]]
    OBVIOUS
  <2>4. [At(layout, holds, order) EXCEPT !.layout = "PRESENT_SRC"] = At("PRESENT_SRC", holds, order)
    BY DEF At
  <2>5. Rendered(f) = [g EXCEPT !["image1"].holds = "frame"]
    <3>1. Rendered(f) =
            [[f EXCEPT !["image1"].layout = "PRESENT_SRC"] EXCEPT !["image1"].holds = "frame"]
      BY DEF Rendered
    <3> QED  BY <2>1, <2>3, <2>4, <3>1
  <2>6. [g EXCEPT !["image1"].holds = "frame"] =
          [g EXCEPT !["image1"] = [g["image1"] EXCEPT !.holds = "frame"]]
    OBVIOUS
  <2>7. [At("PRESENT_SRC", holds, order) EXCEPT !.holds = "frame"] = At("PRESENT_SRC", "frame", order)
    BY DEF At
  <2>8. g["image1"] = At("PRESENT_SRC", holds, order)
    BY <2>1
  <2>9. [g EXCEPT !["image1"] = At("PRESENT_SRC", "frame", order)] =
          [f EXCEPT !["image1"] = At("PRESENT_SRC", "frame", order)]
    OBVIOUS
  <2> QED  BY <2>2, <2>5, <2>6, <2>7, <2>8, <2>9 DEF f
<1>6. Expected(0)["image1"].layout = "PRESENT_SRC"
  BY <1>2 DEF Contents, At, Images
<1>7. Rendered([image \in Images |->
                  IF image = "image1" THEN Acquired(shot.format) ELSE Fresh]) = Expected(0)
  BY <1>2, <1>4, <1>5
<1> QED  BY <1>1, <1>3, <1>6, <1>7

---------------------------------------------------------------------------
(* The type invariant *)

TypedShot ==
  [format : Formats, user : ColorSpaces, bltLinear : BOOLEAN, bltOptimal : BOOLEAN,
   debug : BOOLEAN, known : BOOLEAN, hasQueue : BOOLEAN, sameQueue : BOOLEAN]
TypedImages ==
  [Images -> [layout : Layouts, holds : {"garbage", "frame"}, order : {"RGBA", "other"}]]

\* The format that is converted to is one of a known kind.
LEMMA KnownKind == ASSUME shot \in TypedShot PROVE dest.kind \in Kinds /\ dest.order = "RGBA"
<1>1. shot.format.kind \in Kinds \cup {"other"} /\ shot.user \in Kinds \cup {"UNDEFINED"}
  BY FormatsAssumption, ColorSpacesAssumption DEF TypedShot
<1>2. DestKind(shot.format, shot.user) \in Kinds
  BY <1>1 DEF DestKind, Kinds
<1> QED  BY <1>2 DEF dest, DestFormat

\* Every command is one the device knows.
LEMMA CommandsKnown ==
  \A n \in DOMAIN Script :
    /\ Script[n].op \in {"barrier", "copy", "blit"}
    /\ Script[n].to \in Images /\ Script[n].new \in Layouts
    /\ Script[n].op # "barrier" => Script[n].from \in Images
<1>1. ASSUME NEW n \in 1..Len(Script)
      PROVE  \/ \E image \in Images, old \in Layouts, new \in Layouts :
                  Script[n] = Barrier(image, old, new)
             \/ \E op \in {"copy", "blit"}, from \in Images, to \in Images :
                  Script[n] = Transfer(op, from, to)
  <2>1. CASE ~need2steps
    <3>1. n \in {1, 2, 3, 4, 5}
      <4>1. Len(Script) = 5
        BY <2>1, ScriptTwo
      <4> QED  BY <4>1
    <3> QED  BY <2>1, <3>1, ScriptTwo DEF Images, Layouts
  <2>2. CASE need2steps
    <3>1. n \in {1, 2, 3, 4, 5, 6, 7, 8}
      <4>1. Len(Script) = 8
        BY <2>2, ScriptThree
      <4> QED  BY <4>1
    <3> QED  BY <2>2, <3>1, ScriptThree DEF Images, Layouts
  <2> QED  BY <2>1, <2>2
<1>2. DOMAIN Script = 1..Len(Script)
  BY DEF Script
<1> QED  BY <1>1, <1>2 DEF Barrier, Transfer, Layouts

---------------------------------------------------------------------------
(* The steps *)

\* A step of writePPM that neither records, nor submits, nor writes the file.
Quiet ==
  /\ UNCHANGED <<shot, commands, file, images, queue, other, executed, misused>>
  /\ failed \subseteq failed' /\ failed' \subseteq Calls /\ live' \subseteq Objects
  /\ \/ pc \in BeforeRecord /\ pc' \in BeforeRecord \cup Ends \cup {"enter"}
     \/ pc = "EndCommandBuffer" /\ pc' \in {"QueueSubmit", "aborted"}
     \/ pc = "QueueSubmit" /\ pc' = "undefined"
     \/ pc \in AfterSubmit /\ pc' \in AfterSubmit \cup {"enter", "aborted"}
  /\ pc = "check" /\ ~shot.known => pc' = "enter"

LEMMA ScriptKept ==
  ASSUME UNCHANGED shot
  PROVE  /\ Script' = Script /\ dest' = dest /\ Order2' = Order2
         /\ need2steps' = need2steps /\ copyOnly' = copyOnly /\ CanBlit' = CanBlit
BY DEF Script, dest, Order2, need2steps, copyOnly, CanBlit, FinalImage

LEMMA ExpectedKept ==
  ASSUME UNCHANGED shot, NEW k
  PROVE  Expected(k)' = Expected(k')
BY ScriptKept DEF Expected, Layout1, Layout2, Layout3

LEMMA QuietKeeps ==
  ASSUME TypeOK, Queued, Recorded, Staged, GivenBack, FileShowsFrame, Quiet
  PROVE  TypeOK' /\ Queued' /\ Recorded' /\ Staged' /\ GivenBack' /\ FileShowsFrame'
<1> USE DEF Quiet
<1>1. Script' = Script /\ dest' = dest /\ CanBlit' = CanBlit
  BY ScriptKept
<1>2. TypeOK'
  BY <1>1 DEF TypeOK, Steps, Ends, Calls, BeforeRecord, AfterSubmit
<1>3. Queued'
  BY <1>1 DEF Queued, RenderingQueued, CopyQueued
<1>4. Recorded'
  BY <1>1 DEF Recorded, CopyQueued, BeforeRecord, AfterSubmit, Ends
<1>5. Staged'
  <2>1. Expected(executed)' = Expected(executed)
    BY ExpectedKept
  <2> QED  BY <2>1 DEF Staged, RenderingQueued
<1>6. GivenBack'
  BY DEF GivenBack, RenderingQueued
<1>7. FileShowsFrame'
  BY <1>1 DEF FileShowsFrame, BothWaitsFailed
<1> QED  BY <1>2, <1>3, <1>4, <1>5, <1>6, <1>7

\* Every call of writePPM but the submission is quiet.
LEMMA CallsAreQuiet ==
  ASSUME live \subseteq Objects, failed \subseteq Calls,
         NEW call \in Calls, NEW next, NEW objects \in SUBSET Objects,
         Make(call, objects, next) \/ Asserted(call, next),
         \/ call \in BeforeRecord \ {"check"} /\ next \in BeforeRecord
         \/ call = "EndCommandBuffer" /\ next = "QueueSubmit" /\ Asserted(call, next)
         \/ call \in AfterSubmit /\ next \in AfterSubmit
  PROVE  Quiet
<1>1. /\ pc = call /\ UNCHANGED <<shot, commands, file, device>>
      /\ \/ Proceed(next, objects) \/ Proceed(next, {})
         \/ Fail(call, TRUE, next) \/ Fail(call, FALSE, next)
  BY DEF Make, Asserted
<1>2. /\ failed \subseteq failed' /\ failed' \subseteq Calls /\ live' \subseteq Objects
      /\ pc' \in {next, "aborted", "enter"}
  BY <1>1 DEF Proceed, Fail, Return, Cleaned, Calls
<1>3. UNCHANGED <<shot, commands, file, images, queue, other, executed, misused>>
  BY <1>1 DEF device
<1>4. call = "EndCommandBuffer" => pc' \in {"QueueSubmit", "aborted"}
  BY DEF Asserted, Proceed, Fail, Calls, BeforeRecord, AfterSubmit
<1> QED  BY <1>1, <1>2, <1>3, <1>4 DEF Quiet, Ends, BeforeRecord, AfterSubmit

LEMMA QuietSteps ==
  ASSUME TypeOK, Recorded, Step
  PROVE  Quiet \/ Record \/ QueueSubmit \/ WriteFile
<1> USE DEF Calls, BeforeRecord, AfterSubmit, Objects
<1>0. live \subseteq Objects /\ failed \subseteq Calls
  BY DEF TypeOK
<1>1. CASE Check
  BY <1>0, <1>1 DEF Check, Return, Cleaned, device, Quiet, Ends
<1>2. CASE \/ CreateImage2 \/ AllocateMemory2 \/ BindImageMemory2
           \/ CreateImage3 \/ AllocateMemory3 \/ BindImageMemory3
  BY <1>0, <1>2, CallsAreQuiet
     DEF CreateImage2, AllocateMemory2, BindImageMemory2, CreateImage3,
         AllocateMemory3, BindImageMemory3
<1>3. CASE CreateCommandPool
  BY <1>0, <1>3 DEF CreateCommandPool, Proceed, Fail, Return, Cleaned, device, Quiet, Ends
<1>4. CASE AllocateCommandBuffers
  BY <1>0, <1>4, CallsAreQuiet DEF AllocateCommandBuffers, Misuse, device, Quiet, Ends
<1>5. CASE pfn_dev_init \/ BeginCommandBuffer \/ EndCommandBuffer
  BY <1>0, <1>5, CallsAreQuiet
     DEF pfn_dev_init, BeginCommandBuffer, EndCommandBuffer, Misuse, device, Quiet, Ends
<1>6. CASE QueueWaitIdle \/ DeviceWaitIdle
  BY <1>0, <1>6 DEF QueueWaitIdle, DeviceWaitIdle, Proceed, Fail, Return, Cleaned, device, Quiet, Ends
<1>7. CASE MapMemory \/ OpenFile
  BY <1>0, <1>7, CallsAreQuiet DEF MapMemory, OpenFile, FinalMapped
<1> QED  BY <1>1, <1>2, <1>3, <1>4, <1>5, <1>6, <1>7 DEF Step

LEMMA ScriptTyped ==
  /\ Script # <<>> /\ Len(Script) \in {5, 8} /\ DOMAIN Script = 1..Len(Script)
  /\ \A n \in DOMAIN Script : Script[n].op \in {"barrier", "copy", "blit"}
<1>1. Len(Script) \in {5, 8}
  BY ScriptTwo, ScriptThree
<1>2. Script # <<>>
  BY <1>1
<1>3. DOMAIN Script = 1..Len(Script)
  BY DEF Script
<1> QED  BY <1>1, <1>2, <1>3, CommandsKnown

LEMMA RecordKeeps == ASSUME Kept, Record PROVE Kept'
<1>1. /\ pc = "record" /\ UNCHANGED <<shot, live, file, failed, device>>
      /\ \/ pc' = "undefined" /\ UNCHANGED commands
         \/ pc' = "EndCommandBuffer" /\ commands' = Script
  BY DEF Record
<1>2. commands = <<>> /\ executed = 0 /\ ~CopyQueued /\ shot.known
  BY <1>1 DEF Kept, Recorded, BeforeRecord
<1>3. UNCHANGED <<images, queue, other, executed, misused>> /\ CopyQueued' = CopyQueued
  BY <1>1 DEF device, CopyQueued
<1>4. Script' = Script /\ dest' = dest /\ CanBlit' = CanBlit
  BY <1>1, ScriptKept
<1>5. TypeOK'
  <2>1. 0 \in 0..Len(commands')
    BY <1>1, <1>2, ScriptTyped
  <2>2. \A n \in DOMAIN commands' : commands'[n].op \in {"barrier", "copy", "blit"}
    BY <1>1, <1>2, ScriptTyped
  <2> QED  BY <1>1, <1>2, <1>3, <1>4, <2>1, <2>2 DEF Kept, TypeOK, Steps, Ends, Calls
<1>6. Queued'
  BY <1>1, <1>2, <1>3, <1>4 DEF Kept, Queued, RenderingQueued, CopyQueued
<1>7. Recorded'
  BY <1>1, <1>2, <1>3, <1>4 DEF Recorded, BeforeRecord, AfterSubmit
<1>8. Staged'
  <2>1. Expected(executed)' = Expected(executed)
    BY <1>1, <1>3, ExpectedKept
  <2> QED  BY <1>1, <1>3, <2>1 DEF Kept, Staged, RenderingQueued
<1>9. GivenBack'
  BY <1>1, <1>2, <1>3 DEF Kept, GivenBack, RenderingQueued
<1>10. FileShowsFrame'
  BY <1>1, <1>4 DEF Kept, FileShowsFrame, BothWaitsFailed
<1> QED  BY <1>5, <1>6, <1>7, <1>8, <1>9, <1>10 DEF Kept

\* The copy is queued behind what there is.
LEMMA CopyAppended ==
  /\ Append(<<>>, "copy") = <<"copy">>
  /\ Append(<<"rendering">>, "copy") = <<"rendering", "copy">>
<1> DEFINE both == Append(<<"rendering">>, "copy")
<1>1. both \in Seq({"rendering", "copy"})
  OBVIOUS
<1>2. Len(both) = 2 /\ both[1] = "rendering" /\ both[2] = "copy"
  OBVIOUS
<1> HIDE DEF both
<1>3. both = <<"rendering", "copy">>
  BY <1>1, <1>2
<1> QED  BY <1>3 DEF both

LEMMA SubmitKeeps == ASSUME Kept, QueueSubmit PROVE Kept'
<1>1. CASE "EndCommandBuffer" \in failed
  <2>1. Quiet
    BY <1>1 DEF QueueSubmit, Misuse, Quiet, device, Kept, TypeOK, BeforeRecord, AfterSubmit
  <2> QED  BY <2>1, QuietKeeps DEF Kept
<1>2. CASE "EndCommandBuffer" \notin failed
  <2>1. /\ pc = "QueueSubmit"
        /\ UNCHANGED <<shot, commands, file, images, other, executed, misused>>
        /\ \/ /\ Proceed("QueueWaitIdle", {}) /\ queue' = Append(queue, "copy")
           \/ /\ Fail("QueueSubmit", FALSE, "QueueWaitIdle") /\ queue' = queue
    BY <1>2 DEF QueueSubmit
  <2>2. commands = Script /\ executed = 0 /\ ~CopyQueued /\ shot.known
    BY <2>1 DEF Kept, Recorded, BeforeRecord
  <2>3. queue = <<>> \/ queue = <<"rendering">>
    BY <2>2 DEF Kept, Queued, CopyQueued
  <2>4. Script' = Script /\ dest' = dest /\ CanBlit' = CanBlit
    BY <2>1, ScriptKept
  <2>5. /\ queue' = queue
           \/ (queue = <<>> /\ queue' = <<"copy">>)
           \/ (queue = <<"rendering">> /\ queue' = <<"rendering", "copy">>)
        /\ RenderingQueued' <=> RenderingQueued
    <3>1. \/ queue' = queue
          \/ (queue = <<>> /\ queue' = <<"copy">>)
          \/ (queue = <<"rendering">> /\ queue' = <<"rendering", "copy">>)
      BY <2>1, <2>3, CopyAppended, Zenon
    <3>2. /\ <<"copy">> # <<"rendering">> /\ <<"copy">> # <<"rendering", "copy">>
          /\ <<>> # <<"rendering">> /\ <<>> # <<"rendering", "copy">>
      OBVIOUS
    <3>3. CASE queue' = queue
      BY <3>1, <3>3 DEF RenderingQueued
    <3>4. CASE queue = <<>> /\ queue' = <<"copy">>
      <4>1. ~RenderingQueued /\ ~RenderingQueued'
        BY <3>2, <3>4, Zenon DEF RenderingQueued
      <4> QED  BY <3>1, <4>1, Zenon
    <3>5. CASE queue = <<"rendering">> /\ queue' = <<"rendering", "copy">>
      <4>1. RenderingQueued /\ RenderingQueued'
        BY <3>5, Zenon DEF RenderingQueued
      <4> QED  BY <3>1, <4>1, Zenon
    <3> QED  BY <3>1, <3>3, <3>4, <3>5, Zenon
  <2>6. /\ pc' \in {"QueueWaitIdle", "aborted"} /\ live' \subseteq Objects
        /\ failed \subseteq failed' /\ failed' \subseteq Calls
        /\ "QueueSubmit" \in failed' \/ queue' = Append(queue, "copy")
    BY <2>1 DEF Proceed, Fail, Return, Calls, Kept, TypeOK
  <2>7. queue' = Append(queue, "copy") => CopyQueued'
    BY <2>3, CopyAppended, Zenon DEF CopyQueued
  <2>8. TypeOK'
    <3>1. queue' \in Seq({"rendering", "copy"})
      <4>1. /\ <<"copy">> \in Seq({"rendering", "copy"})
            /\ <<"rendering", "copy">> \in Seq({"rendering", "copy"})
        OBVIOUS
      <4> QED  BY <2>5, <4>1, Zenon DEF Kept, TypeOK
    <3> QED  BY <2>1, <2>2, <2>4, <2>6, <3>1 DEF Kept, TypeOK, Steps, Ends, Calls
  <2>9. Queued'
    <3>1. queue' \in {<<>>, <<"rendering">>, <<"copy">>, <<"rendering", "copy">>}
      BY <2>3, <2>5
    <3>2. executed \in 0..(Len(Script) - 1)
      BY <2>2, ScriptTyped
    <3> QED  BY <2>1, <2>2, <2>4, <2>5, <3>1, <3>2 DEF Kept, Queued
  <2>10. Recorded'
    BY <2>1, <2>2, <2>4, <2>6, <2>7 DEF Recorded, BeforeRecord, AfterSubmit
  <2>11. Staged'
    <3>1. Expected(executed)' = Expected(executed)
      BY <2>1, ExpectedKept
    <3> QED  BY <2>1, <2>5, <3>1 DEF Kept, Staged
  <2>12. GivenBack'
    BY <2>1, <2>5 DEF Kept, GivenBack
  <2>13. FileShowsFrame'
    BY <2>1, <2>4, <2>6 DEF Kept, FileShowsFrame, BothWaitsFailed
  <2> QED  BY <2>8, <2>9, <2>10, <2>11, <2>12, <2>13 DEF Kept
<1> QED  BY <1>1, <1>2

\* What is read into the file is the frame, if the copy was submitted and one of
\* the waits for it worked.
LEMMA WriteKeeps == ASSUME Kept, InFlight, WriteFile PROVE Kept'
<1>1. /\ pc = "write" /\ pc' = "enter" /\ live' = Cleaned(live)
      /\ file' = [written |-> TRUE, holds |-> images[FinalImage].holds,
                  order |-> images[FinalImage].order]
      /\ UNCHANGED <<shot, commands, failed, images, queue, other, executed, misused>>
  BY DEF WriteFile, Return, device
<1>2. Script' = Script /\ dest' = dest /\ CanBlit' = CanBlit
  BY <1>1, ScriptKept
<1>3. TypeOK'
  BY <1>1, <1>2 DEF Kept, TypeOK, Steps, Cleaned
<1>4. Queued'
  BY <1>1, <1>2 DEF Kept, Queued, RenderingQueued, CopyQueued
<1>5. shot.known /\ Recorded'
  BY <1>1, <1>2 DEF Kept, Recorded, CopyQueued, BeforeRecord, AfterSubmit
<1>6. Staged'
  <2>1. Expected(executed)' = Expected(executed)
    BY <1>1, ExpectedKept
  <2> QED  BY <1>1, <2>1 DEF Kept, Staged, RenderingQueued
<1>7. GivenBack'
  BY <1>1 DEF Kept, GivenBack, RenderingQueued
<1>8. ASSUME shot.sameQueue, "QueueSubmit" \notin failed, ~BothWaitsFailed
      PROVE  file'.holds = "frame" /\ (CanBlit => file'.order = "RGBA")
  <2>1. NoCopy
    BY <1>1, <1>8 DEF InFlight, Waited, Ends
  <2>2. ~CopyQueued
    BY <2>1 DEF NoCopy, CopyQueued
  <2>3. executed = Len(Script)
    BY <1>1, <1>8, <2>2 DEF Kept, Recorded, AfterSubmit
  <2>4. executed \in {5, 8} /\ ~RenderingQueued
    BY <2>3, ScriptTyped DEF Kept, Queued
  <2>5. images = Expected(executed)
    BY <1>5, <1>8, <2>4 DEF Kept, Staged
  <2>6. images[FinalImage].holds = "frame" /\ images[FinalImage].order = Order2
    <3>1. CASE need2steps
      <4>1. executed = 8
        BY <2>3, <3>1, ScriptThree
      <4> QED  BY <2>5, <3>1, <4>1 DEF Expected, Contents, At, Images, FinalImage
    <3>2. CASE ~need2steps
      <4>1. executed = 5
        BY <2>3, <3>2, ScriptTwo
      <4> QED  BY <2>5, <3>2, <4>1 DEF Expected, Contents, At, Images, FinalImage
    <3> QED  BY <3>1, <3>2
  <2>7. CanBlit => Order2 = "RGBA"
    <3>1. dest.order = "RGBA"
      BY KnownKind DEF Kept, TypeOK, TypedShot
    <3> QED  BY <3>1 DEF Order2, copyOnly
  <2> QED  BY <1>1, <2>6, <2>7
<1>9. FileShowsFrame'
  BY <1>1, <1>2, <1>8 DEF FileShowsFrame, BothWaitsFailed
<1> QED  BY <1>3, <1>4, <1>5, <1>6, <1>7, <1>9 DEF Kept

\* A present finds nothing executed, and the swapchain image not rendered yet.
LEMMA EnterKeeps == ASSUME Kept, Enter PROVE Kept'
<1>1. PICK format \in Formats, user \in ColorSpaces,
           bltLinear, bltOptimal, debug, known, hasQueue, sameQueue \in BOOLEAN :
        /\ shot' = [format |-> format, user |-> user, bltLinear |-> bltLinear,
                    bltOptimal |-> bltOptimal, debug |-> debug,
                    known |-> known, hasQueue |-> hasQueue, sameQueue |-> sameQueue]
        /\ images' = [image \in Images |->
                        IF image = "image1" THEN Acquired(format) ELSE Fresh]
        /\ queue' = IF sameQueue THEN <<"rendering">> ELSE <<>>
        /\ other' = IF sameQueue THEN <<>> ELSE <<"rendering">>
  BY DEF Enter
<1>2. /\ pc' = "check" /\ commands' = <<>> /\ failed' = {} /\ executed' = 0
      /\ misused' = FALSE /\ live' = live /\ file'.written = FALSE
  BY DEF Enter
<1>3. shot' \in TypedShot /\ shot'.format = format /\ shot'.sameQueue = sameQueue
  BY <1>1 DEF TypedShot
<1>4. images' \in TypedImages
  <2>1. format.order \in {"RGBA", "other"}
    BY FormatsAssumption
  <2> QED  BY <1>1, <2>1 DEF TypedImages, Acquired, Fresh, Layouts
<1>5. TypeOK'
  <2>1. dest'.kind \in Kinds
    <3>1. shot'.format.kind \in Kinds \cup {"other"} /\ shot'.user \in Kinds \cup {"UNDEFINED"}
      BY <1>3, FormatsAssumption, ColorSpacesAssumption DEF TypedShot
    <3>2. DestKind(shot'.format, shot'.user) \in Kinds
      BY <3>1 DEF DestKind, Kinds
    <3> QED  BY <3>2 DEF dest, DestFormat
  <2>2. queue' \in Seq({"rendering", "copy"}) /\ other' \in Seq({"rendering"})
    <3>1. /\ <<"rendering">> \in Seq({"rendering", "copy"}) /\ <<>> \in Seq({"rendering", "copy"})
          /\ <<"rendering">> \in Seq({"rendering"}) /\ <<>> \in Seq({"rendering"})
      OBVIOUS
    <3> QED  BY <1>1, <3>1, Zenon
  <2>3. /\ executed' \in 0..Len(commands')
        /\ \A n \in DOMAIN commands' : commands'[n].op \in {"barrier", "copy", "blit"}
    BY <1>2
  <2>4. /\ pc' \in Steps \cup Ends /\ live' \subseteq Objects /\ failed' \subseteq Calls
        /\ file'.written \in BOOLEAN /\ misused' \in BOOLEAN
    BY <1>2 DEF Kept, TypeOK, Steps
  <2> QED  BY <1>3, <1>4, <2>1, <2>2, <2>3, <2>4, Zenon DEF TypeOK, TypedShot, TypedImages
<1>6. ~CopyQueued' /\ (RenderingQueued' <=> shot'.sameQueue)
  BY <1>1, <1>3 DEF CopyQueued, RenderingQueued
<1>7. /\ queue' \in {<<>>, <<"rendering">>, <<"copy">>, <<"rendering", "copy">>}
      /\ other' \in {<<>>, <<"rendering">>}
      /\ (shot.sameQueue)' => other' = <<>>
      /\ ~(shot.sameQueue)' => other' # <<>>
  BY <1>1, <1>3
<1>8. Queued'
  BY <1>2, <1>6, <1>7 DEF Queued
<1>9. Recorded'
  BY <1>2, <1>6 DEF Recorded, BeforeRecord, AfterSubmit
<1>10. Staged'
  BY <1>1, <1>2, <1>3, <1>6 DEF Staged
<1>11. GivenBack'
  BY <1>6, <1>7 DEF GivenBack
<1>12. FileShowsFrame'
  BY <1>2 DEF FileShowsFrame
<1> QED  BY <1>5, <1>8, <1>9, <1>10, <1>11, <1>12 DEF Kept

\* Images stay images under the rendering and under the commands.
WithLayout(contents, image, layout) == [contents EXCEPT ![image].layout = layout]
WithHolds(contents, image, holds) == [contents EXCEPT ![image].holds = holds]
WithOrder(contents, image, order) == [contents EXCEPT ![image].order = order]

LEMMA FieldsTyped ==
  ASSUME NEW contents \in TypedImages, NEW image \in Images
  PROVE  /\ \A layout \in Layouts :
              /\ WithLayout(contents, image, layout) \in TypedImages
              /\ WithLayout(contents, image, layout)[image].layout = layout
         /\ \A holds \in {"garbage", "frame"} :
              /\ WithHolds(contents, image, holds) \in TypedImages
              /\ WithHolds(contents, image, holds)[image].layout = contents[image].layout
         /\ \A order \in {"RGBA", "other"} : WithOrder(contents, image, order) \in TypedImages
BY DEF TypedImages, WithLayout, WithHolds, WithOrder

LEMMA RenderedTyped ==
  ASSUME NEW contents \in TypedImages
  PROVE  Rendered(contents) \in TypedImages /\ Rendered(contents)["image1"].layout = "PRESENT_SRC"
<1>1. "image1" \in Images /\ "PRESENT_SRC" \in Layouts /\ "frame" \in {"garbage", "frame"}
  BY DEF Images, Layouts
<1>2. Rendered(contents) = WithHolds(WithLayout(contents, "image1", "PRESENT_SRC"), "image1", "frame")
  BY DEF Rendered, WithLayout, WithHolds
<1> DEFINE presented == WithLayout(contents, "image1", "PRESENT_SRC")
<1>3. presented \in TypedImages /\ presented["image1"].layout = "PRESENT_SRC"
  BY <1>1, FieldsTyped
<1> HIDE DEF presented
<1>4. /\ WithHolds(presented, "image1", "frame") \in TypedImages
      /\ WithHolds(presented, "image1", "frame")["image1"].layout = presented["image1"].layout
  BY <1>1, <1>3, FieldsTyped
<1> QED  BY <1>2, <1>3, <1>4, Zenon DEF presented

LEMMA AppliedTyped ==
  ASSUME shot \in TypedShot, NEW contents \in TypedImages, NEW n \in DOMAIN Script
  PROVE  Apply(contents, Script[n]) \in TypedImages
<1> DEFINE command == Script[n]
<1>1. /\ command.op \in {"barrier", "copy", "blit"}
      /\ command.to \in Images /\ command.new \in Layouts
      /\ command.op # "barrier" => command.from \in Images
  BY CommandsKnown
<1> HIDE DEF command
<1>2. CASE command.op = "barrier"
  <2>1. Apply(contents, command) = WithLayout(contents, command.to, command.new)
    BY <1>2 DEF Apply, WithLayout
  <2>2. WithLayout(contents, command.to, command.new) \in TypedImages
    BY <1>1, FieldsTyped
  <2> QED  BY <2>1, <2>2, Zenon DEF command
<1>3. CASE command.op # "barrier"
  <2>1. contents[command.from] \in
          [layout : Layouts, holds : {"garbage", "frame"}, order : {"RGBA", "other"}]
    BY <1>1, <1>3 DEF TypedImages
  <2>2. /\ contents[command.from].holds \in {"garbage", "frame"}
        /\ contents[command.from].order \in {"RGBA", "other"}
    BY <2>1
  <2>3. dest.order \in {"RGBA", "other"}
    BY KnownKind
  <2>4. PICK order \in {"RGBA", "other"} :
          Apply(contents, command) =
            WithOrder(WithHolds(contents, command.to, contents[command.from].holds),
                      command.to, order)
    BY <1>1, <1>3, <2>2, <2>3 DEF Apply, WithHolds, WithOrder
  <2> DEFINE copied == WithHolds(contents, command.to, contents[command.from].holds)
  <2>5. copied \in TypedImages
    BY <1>1, <2>2, FieldsTyped
  <2> HIDE DEF copied
  <2>6. WithOrder(copied, command.to, order) \in TypedImages
    BY <1>1, <2>5, FieldsTyped
  <2> QED  BY <2>4, <2>6, Zenon DEF copied, command
<1> QED  BY <1>2, <1>3

\* The device finishes the rendering.
LEMMA RenderingKeeps ==
  ASSUME Kept, Execute, Head(queue) = "rendering"
  PROVE  Kept'
<1>1. /\ queue' = Tail(queue) /\ queue # <<>> /\ images' = Rendered(images)
      /\ UNCHANGED <<pc, shot, live, commands, file, failed, other, executed, misused>>
  BY DEF Execute
<1>2. \/ queue = <<"rendering">> /\ queue' = <<>>
      \/ queue = <<"rendering", "copy">> /\ queue' = <<"copy">>
  <2>1. queue \in {<<"rendering">>, <<"copy">>, <<"rendering", "copy">>}
    BY <1>1 DEF Kept, Queued
  <2>2. /\ Head(<<"copy">>) = "copy" /\ Tail(<<"rendering">>) = <<>>
        /\ Tail(<<"rendering", "copy">>) = <<"copy">>
    OBVIOUS
  <2>3. "copy" # "rendering"
    OBVIOUS
  <2> QED  BY <1>1, <2>1, <2>2, <2>3, Zenon
<1>3. RenderingQueued /\ ~RenderingQueued' /\ (CopyQueued' <=> CopyQueued)
  BY <1>2 DEF RenderingQueued, CopyQueued
<1>4. executed = 0 /\ shot.sameQueue
  BY <1>3 DEF Kept, Queued
<1>5. Script' = Script /\ dest' = dest /\ CanBlit' = CanBlit
  BY <1>1, ScriptKept
<1>6. images \in TypedImages
  BY DEF Kept, TypeOK, TypedImages
<1>7. images' \in TypedImages /\ images'["image1"].layout = "PRESENT_SRC"
  BY <1>1, <1>6, RenderedTyped
<1>8. TypeOK'
  <2>1. queue' \in Seq({"rendering", "copy"})
    <3>1. <<>> \in Seq({"rendering", "copy"}) /\ <<"copy">> \in Seq({"rendering", "copy"})
      OBVIOUS
    <3> QED  BY <1>2, <3>1, Zenon
  <2> QED  BY <1>1, <1>5, <1>7, <2>1 DEF Kept, TypeOK, TypedImages
<1>9. Queued'
  <2>1. queue' \in {<<>>, <<"copy">>}
    BY <1>2
  <2> QED  BY <1>1, <1>3, <1>5, <2>1 DEF Kept, Queued
<1>10. Recorded'
  BY <1>1, <1>3, <1>5 DEF Kept, Recorded
<1>11. Staged'
  <2>1. Expected(executed)' = Expected(0)
    BY <1>1, <1>4, ExpectedKept
  <2>2. ~misused /\ (shot.known => images' = Expected(0))
    BY <1>1, <1>3, <1>4, Stages DEF Kept, Staged, TypeOK
  <2> QED  BY <1>1, <1>3, <2>1, <2>2 DEF Staged
<1>12. GivenBack'
  BY <1>7 DEF GivenBack
<1>13. FileShowsFrame'
  BY <1>1, <1>5 DEF Kept, FileShowsFrame, BothWaitsFailed
<1> QED  BY <1>8, <1>9, <1>10, <1>11, <1>12, <1>13 DEF Kept

\* The device executes a command.
LEMMA CommandKeeps ==
  ASSUME Kept, Execute, Head(queue) = "copy"
  PROVE  Kept'
<1>1. /\ executed' = executed + 1 /\ queue # <<>>
      /\ queue' = IF executed' = Len(commands) THEN Tail(queue) ELSE queue
      /\ images' = Apply(images, commands[executed'])
      /\ misused' = (misused \/ ~Fits(images, commands[executed']))
      /\ UNCHANGED <<pc, shot, live, commands, file, failed, other>>
  BY DEF Execute
<1>2. queue = <<"copy">>
  BY <1>1 DEF Kept, Queued
<1>3. CopyQueued /\ ~RenderingQueued
  BY <1>2 DEF RenderingQueued, CopyQueued
<1>4. commands = Script /\ executed \in 0..(Len(Script) - 1)
  BY <1>3 DEF Kept, Queued
<1>5. executed' \in 1..Len(Script) /\ executed' - 1 = executed
  <2>1. Len(Script) \in {5, 8}
    BY ScriptTyped
  <2> QED  BY <1>1, <1>4, <2>1
<1>6. Script' = Script /\ dest' = dest /\ CanBlit' = CanBlit /\ need2steps' = need2steps
  BY <1>1, ScriptKept
<1>7. queue' = IF executed' = Len(Script) THEN <<>> ELSE <<"copy">>
  BY <1>1, <1>2, <1>4
<1>8. ~RenderingQueued' /\ (CopyQueued' <=> executed' # Len(Script))
  BY <1>7 DEF RenderingQueued, CopyQueued
<1>9. images \in TypedImages /\ shot \in TypedShot
  BY DEF Kept, TypeOK, TypedImages, TypedShot
<1>10. shot.known
  BY <1>4, ScriptTyped DEF Kept, Recorded
<1>11. TypeOK'
  <2>1. queue' \in Seq({"rendering", "copy"})
    <3>1. <<>> \in Seq({"rendering", "copy"}) /\ <<"copy">> \in Seq({"rendering", "copy"})
      OBVIOUS
    <3> QED  BY <1>7, <3>1, Zenon
  <2>2. images' \in TypedImages
    BY <1>1, <1>4, <1>5, <1>9, AppliedTyped, ScriptTyped, Zenon
  <2>3. executed' \in 0..Len(commands')
    BY <1>1, <1>4, <1>5
  <2>4. misused' \in BOOLEAN
    BY <1>1
  <2> QED  BY <1>1, <1>6, <2>1, <2>2, <2>3, <2>4 DEF Kept, TypeOK, TypedImages
<1>12. Queued'
  <2>1. queue' \in {<<>>, <<"copy">>}
    BY <1>7
  <2>2. CopyQueued' => executed' \in 0..(Len(Script) - 1)
    BY <1>5, <1>8, ScriptTyped
  <2> QED  BY <1>1, <1>4, <1>6, <1>8, <2>1, <2>2 DEF Kept, Queued
<1>13. Recorded'
  BY <1>1, <1>3, <1>4, <1>6, <1>8 DEF Kept, Recorded
<1>14. Staged'
  <2>1. Expected(executed)' = Expected(executed')
    BY <1>1, ExpectedKept
  <2>2. /\ Fits(Expected(executed), Script[executed'])
        /\ Apply(Expected(executed), Script[executed']) = Expected(executed')
    BY <1>5, Commands
  <2>3. shot.sameQueue => ~misused /\ images = Expected(executed)
    BY <1>3, <1>10 DEF Kept, Staged
  <2> QED  BY <1>1, <1>4, <1>8, <2>1, <2>2, <2>3 DEF Staged
<1>15. GivenBack'
  <2> SUFFICES ASSUME executed' = Len(Script)
               PROVE  images'["image1"].layout = "PRESENT_SRC"
    BY <1>1, <1>4, <1>5 DEF GivenBack
  <2>1. Script[executed'] = Barrier("image1", "TRANSFER_SRC", "PRESENT_SRC")
    BY ScriptTwo, ScriptThree
  <2>2. images' = WithLayout(images, "image1", "PRESENT_SRC")
    BY <1>1, <1>4, <2>1 DEF Apply, Barrier, WithLayout
  <2>3. "image1" \in Images /\ "PRESENT_SRC" \in Layouts
    BY DEF Images, Layouts
  <2> QED  BY <1>9, <2>2, <2>3, FieldsTyped, Zenon
<1>16. FileShowsFrame'
  BY <1>1, <1>6 DEF Kept, FileShowsFrame, BothWaitsFailed
<1> QED  BY <1>11, <1>12, <1>13, <1>14, <1>15, <1>16 DEF Kept

\* The rendering on another queue ends: the swapchain image is as it is presented,
\* whatever the copy has made of it.
LEMMA OtherKeeps == ASSUME Kept, ExecuteOther PROVE Kept'
<1>1. /\ other # <<>> /\ other' = Tail(other) /\ images' = Rendered(images)
      /\ UNCHANGED <<pc, shot, live, commands, file, failed, queue, executed, misused>>
  BY DEF ExecuteOther
<1>2. other' = <<>> /\ ~shot.sameQueue
  <2>1. Tail(<<"rendering">>) = <<>>
    OBVIOUS
  <2>2. other \in {<<>>, <<"rendering">>} /\ (shot.sameQueue => other = <<>>)
    BY DEF Kept, Queued
  <2> QED  BY <1>1, <2>1, <2>2, Zenon
<1>3. Script' = Script /\ dest' = dest /\ CanBlit' = CanBlit
  BY <1>1, ScriptKept
<1>4. images' \in TypedImages /\ images'["image1"].layout = "PRESENT_SRC"
  BY <1>1, RenderedTyped DEF Kept, TypeOK, TypedImages
<1>5. TypeOK'
  <2>1. <<>> \in Seq({"rendering"})
    OBVIOUS
  <2> QED  BY <1>1, <1>2, <1>3, <1>4, <2>1 DEF Kept, TypeOK, TypedImages
<1>6. Queued'
  BY <1>1, <1>2, <1>3 DEF Kept, Queued, RenderingQueued, CopyQueued
<1>7. Recorded'
  BY <1>1, <1>3 DEF Kept, Recorded, CopyQueued
<1>8. Staged'
  BY <1>1, <1>2 DEF Staged
<1>9. GivenBack'
  BY <1>4 DEF GivenBack
<1>10. FileShowsFrame'
  BY <1>1, <1>3 DEF Kept, FileShowsFrame, BothWaitsFailed
<1> QED  BY <1>5, <1>6, <1>7, <1>8, <1>9, <1>10 DEF Kept

\* In the beginning nothing is known, queued or recorded.
LEMMA InitKept == ASSUME Init PROVE Kept
<1>1. /\ pc = "enter" /\ live = {} /\ failed = {} /\ commands = <<>> /\ queue = <<>>
      /\ other = <<>> /\ executed = 0 /\ misused = FALSE /\ file.written = FALSE
      /\ images = [image \in Images |-> Fresh]
      /\ shot.known = FALSE
  BY DEF Init
<1>2. shot \in TypedShot
  <2>1. (CHOOSE format \in Formats : TRUE) \in Formats
    BY FormatsAssumption
  <2>2. \A format \in Formats :
          [format |-> format, user |-> "UNDEFINED", bltLinear |-> TRUE,
           bltOptimal |-> TRUE, debug |-> TRUE, known |-> FALSE, hasQueue |-> FALSE,
           sameQueue |-> TRUE] \in TypedShot
    BY ColorSpacesAssumption DEF TypedShot
  <2> QED  BY <2>1, <2>2, Zenon DEF Init
<1>3. TypeOK
  <2>1. dest.kind \in Kinds
    BY <1>2, KnownKind
  <2>2. images \in TypedImages
    BY <1>1 DEF TypedImages, Fresh, Layouts
  <2>3. <<>> \in Seq({"rendering", "copy"}) /\ <<>> \in Seq({"rendering"})
    OBVIOUS
  <2>4. /\ executed \in 0..Len(commands)
        /\ \A n \in DOMAIN commands : commands[n].op \in {"barrier", "copy", "blit"}
    BY <1>1
  <2>5. /\ pc \in Steps \cup Ends /\ live \subseteq Objects /\ failed \subseteq Calls
        /\ file.written \in BOOLEAN /\ misused \in BOOLEAN
    BY <1>1 DEF Steps
  <2> QED  BY <1>1, <1>2, <2>1, <2>2, <2>3, <2>4, <2>5, Zenon DEF TypeOK, TypedShot, TypedImages
<1>4. ~RenderingQueued /\ ~CopyQueued
  BY <1>1 DEF RenderingQueued, CopyQueued
<1>5. Queued
  BY <1>1, <1>4 DEF Queued
<1>6. Recorded
  BY <1>1, <1>4 DEF Recorded, BeforeRecord, AfterSubmit
<1>7. Staged /\ GivenBack /\ FileShowsFrame
  BY <1>1 DEF Staged, GivenBack, FileShowsFrame
<1> QED  BY <1>3, <1>5, <1>6, <1>7 DEF Kept

LEMMA UnchangedKeeps == ASSUME Kept, UNCHANGED vars PROVE Kept'
<1>1. UNCHANGED <<pc, shot, live, commands, file, failed, images, queue, other,
                  executed, misused>>
  BY DEF vars
<1>2. Script' = Script /\ dest' = dest /\ CanBlit' = CanBlit
  BY <1>1, ScriptKept
<1>3. Expected(executed)' = Expected(executed)
  BY <1>1, ExpectedKept
<1>4. TypeOK'
  BY <1>1, <1>2 DEF Kept, TypeOK
<1>5. Queued' /\ Recorded'
  BY <1>1, <1>2 DEF Kept, Queued, Recorded, RenderingQueued, CopyQueued
<1>6. Staged' /\ GivenBack'
  BY <1>1, <1>3 DEF Kept, Staged, GivenBack, RenderingQueued
<1>7. FileShowsFrame'
  BY <1>1, <1>2 DEF Kept, FileShowsFrame, BothWaitsFailed
<1> QED  BY <1>4, <1>5, <1>6, <1>7 DEF Kept

LEMMA NextKeeps == ASSUME Kept, InFlight, [Next]_vars PROVE Kept'
<1>1. CASE Step
  BY <1>1, QuietSteps, QuietKeeps, RecordKeeps, SubmitKeeps, WriteKeeps DEF Kept
<1>2. CASE Execute
  <2>1. Head(queue) = "rendering" \/ Head(queue) = "copy"
    BY <1>2 DEF Execute
  <2> QED  BY <1>2, <2>1, RenderingKeeps, CommandKeeps
<1> QED
  BY <1>1, <1>2, EnterKeeps, OtherKeeps, UnchangedKeeps DEF Next

LEMMA KeptAlways == Spec => [](Kept /\ InFlight)
<1>1. Init => Kept /\ InFlight
  BY InitKept, InFlightInit
<1>2. Kept /\ InFlight /\ [Next]_vars => (Kept /\ InFlight)'
  BY NextKeeps, InFlightNext
<1> QED  BY <1>1, <1>2, PTL DEF Spec

\* The format that writePPM converts to is always one it knows, whatever the user
\* asked for and the swapchain has; the images, the queues and the progress of the
\* device are well formed.
THEOREM TypeCorrect == Spec => []TypeOK
<1>1. Kept => TypeOK
  BY DEF Kept
<1> QED  BY <1>1, KeptAlways, PTL

\* Each command of writePPM finds its images in the layouts it names, on each of
\* the three ways through the device; and an idle device leaves the swapchain
\* image in the layout that it is presented in, whatever failed on the way.
THEOREM LayoutsFitCorrect == Spec => []LayoutsFit
<1>1. Kept => LayoutsFit
  <2> SUFFICES ASSUME Kept PROVE LayoutsFit
    OBVIOUS
  <2>1. shot.sameQueue => ~misused
    BY DEF Kept, Staged
  <2>2. ASSUME pc = "enter", shot.known, DeviceIdle
        PROVE  images["image1"].layout = "PRESENT_SRC"
    <3>1. queue = <<>> /\ other = <<>>
      BY <2>2 DEF DeviceIdle, QueueIdle
    <3>2. ~RenderingQueued /\ ~CopyQueued
      BY <3>1 DEF RenderingQueued, CopyQueued
    <3> QED  BY <2>2, <3>1, <3>2 DEF Kept, Queued, GivenBack
  <2> QED  BY <2>1, <2>2 DEF LayoutsFit
<1> QED  BY <1>1, KeptAlways, PTL

\* The file shows the frame that is presented, in the order of a PPM file when the
\* device can blit at all: the copy is behind the rendering on the same queue, and
\* the image is read after a wait for it.
THEOREM FileShowsFrameCorrect == Spec => []FileShowsFrame
<1>1. Kept => FileShowsFrame
  BY DEF Kept
<1> QED  BY <1>1, KeptAlways, PTL
=============================================================================
