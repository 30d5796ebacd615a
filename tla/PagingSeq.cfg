\* One process, two frames: faults, stack growth, eviction to swap and back keep every page's content and never kill the process wrongly.
CONSTANTS
  p1 = p1  p2 = p2  f1 = f1  f2 = f2  f3 = f3
  code = code  top = top  grow = grow  wild = wild
  Procs <- MCProcs1
  Frames <- MCFrames2
  NSlots = 3
  CodePages = {code}
  StackTop = top
  GrowPages = {grow}
  WildPages = {wild}
  Vals = {0, 1}
  FileVal = 1
  ArgVal = 0
  NoThread = NoThread
  NoFrame = NoFrame
SPECIFICATION Spec
INVARIANT TypeOK ContentIntegrity PageAccounted
PROPERTY FaultsResolve
