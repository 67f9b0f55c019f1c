\* Handles of destroyed devices are reused, in a build without assertions.
SPECIFICATION Spec
CONSTANTS
  Options <- MCOptions
  MaxInstances = 1
  MaxFrame = 3
  Gpus = {g1}
  Handles = {h1, h2, h3}
  GraphicsHandles = {h1, h2, h3}
  Swapchains = {s1, s2}
  Images = {i1, i2}
  MaxDevices = 2
  MaxSwapchains = 2
  ReuseHandles = TRUE
  NDEBUG = TRUE
  Absent = Absent
INVARIANTS
  SeenQueuesDispatch
  CapturesOwnSwapchain
SYMMETRY MCSymmetry
CHECK_DEADLOCK FALSE
