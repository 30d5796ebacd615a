\* Four threads, two locks: a woken waiter races a newcomer for a released lock, donation chains of two hops across both locks, and the sleep locks refine the abstract lock.
CONSTANTS
  A = A  B = B  C = C  D = D  L1 = L1  L2 = L2
  NoThread = NoThread
  Main = A
  Threads <- RaceThreads
  Locks = {L1, L2}
  Priorities <- RacePriorities
  Script <- RaceScript
SPECIFICATION Spec
INVARIANT TypeOK EffIsDonorMax HighestRuns MutualExclusion
PROPERTY AcquireCompletes ImplementsSleepLock
