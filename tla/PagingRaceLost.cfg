\* Two processes: the page is evicted after demand_page records its frame and before it removes the SPT entry, so the removal drops the InSwap entry the eviction wrote.
CONSTANTS
  p1 = p1  p2 = p2  f1 = f1  f2 = f2  f3 = f3
  code = code  top = top  grow = grow  wild = wild
  Procs <- MCProcs2
  Frames <- MCFrames3
  NSlots = 2
  CodePages = {code}
  StackTop = top
  GrowPages = {}
  WildPages = {}
  Vals = {0}
  FileVal = 0
  ArgVal = 0
  NoThread = NoThread
  NoFrame = NoFrame
SPECIFICATION Spec
INVARIANT PageAccounted
SYMMETRY Symmetry
