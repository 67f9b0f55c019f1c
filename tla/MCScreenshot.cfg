\* One device; swapchains come and go before and after the last screenshot.
SPECIFICATION Spec
CONSTANTS
  Options <- MCOptions
  MaxInstances = 2
  MaxFrame = 3
  Gpus = {g1}
  Handles = {h1, h2, h3}
  GraphicsHandles = {h1, h2, h3}
  Swapchains = {s1, s2}
  Images = {i1, i2}
  MaxDevices = 1
  MaxSwapchains = 3
  ReuseHandles = FALSE
  NDEBUG = FALSE
  Absent = Absent
INVARIANTS
  TypeOK
  SeenPresentsSurvive
  DuePresentsCaptured
CHECK_DEADLOCK FALSE
