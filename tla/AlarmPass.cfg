\* Three threads sleeping 0, 1 or 2 ticks: alarm entries stay consistent and every registered sleeper is woken.
CONSTANTS
  a = a
  b = b
  c = c
  NoThread = NoThread
  Threads <- MCThreads3
  Naps <- MCNaps3
SPECIFICATION Spec
INVARIANT TypeOK AlarmEntriesBlocked NoEarlyWake
PROPERTY RegisteredWakes
