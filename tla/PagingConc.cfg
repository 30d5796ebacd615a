\* Two processes share three frames: a frame backs one page only, swap slots are never shared, and the clock never stalls the kernel.
CONSTANTS
  p1 = p1  p2 = p2  f1 = f1  f2 = f2  f3 = f3
  code = code  top = top  grow = grow  wild = wild
  Procs <- MCProcs2
  Frames <- MCFrames3
  NSlots = 2
  CodePages = {code}
  StackTop = top
  GrowPages = {}
  WildPages = {}
  Vals = {0}
  FileVal = 0
  ArgVal = 0
  NoThread = NoThread
  NoFrame = NoFrame
SPECIFICATION Spec
INVARIANT FrameExclusive SwapNoAlias
SYMMETRY Symmetry
