\* Priority build, notify_one under the lock: the unwrap in pop_max_priority_waiter panics.
CONSTANTS
  w1 = w1
  w2 = w2
  n1 = n1
  n2 = n2
  Waiters <- MCWaiters
  Notifiers <- MCNotifiers
  AllNotifiers = {}
  PriorityBuild = TRUE
SPECIFICATION Spec
INVARIANT NoPanic
