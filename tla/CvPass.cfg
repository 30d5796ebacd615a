\* FIFO build, n1 calls notify_one and n2 notify_all: every waiter's slot stays reachable and every waiter returns.
CONSTANTS
  w1 = w1
  w2 = w2
  n1 = n1
  n2 = n2
  Waiters <- MCWaiters
  Notifiers <- MCNotifiers
  AllNotifiers = {n2}
  PriorityBuild = FALSE
SPECIFICATION Spec
INVARIANT TypeOK SlotReachable
PROPERTY AllWaitersReturn ImplementsMonitor
