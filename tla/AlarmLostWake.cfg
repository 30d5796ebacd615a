\* A timer tick between sleep marking the thread Blocked and registering it loses the thread.
CONSTANTS
  a = a
  b = b
  c = c
  NoThread = NoThread
  Threads <- MCThreads
  Naps <- MCNaps
SPECIFICATION Spec
PROPERTY SleepersFinish
