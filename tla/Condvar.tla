------------------------------- MODULE Condvar -------------------------------
(***************************************************************************)
(* Condvar (src/sync/condvar.rs) used as its header prescribes: waiters   *)
(* test a flag under a Sleep lock and wait while it is false; notifiers   *)
(* set the flag and notify while holding the lock.  Each wait pushes a    *)
(* fresh slot semaphore (src/sync/sema.rs) that the waiter then downs.    *)
(* All threads have the same priority, so donation never changes an      *)
(* effective priority, every semaphore wakes its oldest waiter, and the  *)
(* timer may switch between any two ready threads wherever interrupts    *)
(* are on: every step below is one interrupts-off section or one RefCell *)
(* access, by any ready thread.                                           *)
(***************************************************************************)
EXTENDS Integers, Sequences, SequencesExt, FiniteSets

CONSTANTS
  Waiters,        \* threads that wait for the flag
  Notifiers,      \* threads that set it and notify
  AllNotifiers,   \* the notifiers that call notify_all; the others call notify_one
  PriorityBuild   \* the thread-scheduler-priority feature is on

Threads == Waiters \cup Notifiers
ASSUME Waiters \cap Notifiers = {} /\ AllNotifiers \subseteq Notifiers /\ PriorityBuild \in BOOLEAN

VARIABLES
  lockHolder,   \* the Sleep lock's holder, or "none"
  lockValue,    \* the value of its semaphore
  lockWaiters,  \* its semaphore's waiters
  flag,         \* the condition the lock protects
  cv,           \* the Condvar's VecDeque of slot semaphores, named by owner
  slotValue,    \* value of each thread's current slot semaphore
  slotWaiting,  \* the thread is in its slot semaphore's waiters
  blocked,      \* threads blocked in a down
  pc,           \* where each thread is
  kpanic        \* the kernel panic, "none" while running

vars == <<lockHolder, lockValue, lockWaiters, flag, cv, slotValue, slotWaiting,
          blocked, pc, kpanic>>

WaiterPCs == {"acquire", "check", "push", "release", "down", "reacquire", "unlock", "done"}
NotifierPCs == {"acquire", "set", "notify", "unlock", "done"}

TypeOK ==
  /\ lockHolder \in Threads \cup {"none"}
  /\ lockValue \in {0, 1}
  /\ lockWaiters \in Seq(Threads)
  /\ flag \in BOOLEAN
  /\ cv \in Seq(Waiters)
  /\ slotValue \in [Waiters -> {0, 1}]
  /\ slotWaiting \in [Waiters -> BOOLEAN]
  /\ blocked \subseteq Threads
  /\ pc \in [Threads -> WaiterPCs \cup NotifierPCs]
  /\ kpanic \in {"none", "unwrap_none"}

Init ==
  /\ lockHolder = "none"
  /\ lockValue = 1
  /\ lockWaiters = <<>>
  /\ flag = FALSE
  /\ cv = <<>>
  /\ slotValue = [w \in Waiters |-> 0]
  /\ slotWaiting = [w \in Waiters |-> FALSE]
  /\ blocked = {}
  /\ pc = [t \in Threads |-> "acquire"]
  /\ kpanic = "none"

(* A thread that may run: not blocked, the kernel alive.                 *)
Ready(t) == t \notin blocked /\ kpanic = "none"

(***************************************************************************)
(* The Sleep lock (sleep.rs:33-95) over its Semaphore(1).  With equal     *)
(* priorities the donation edges never raise anyone, and the semaphore's  *)
(* pop_first_max, or pop_front without the priority feature, is the      *)
(* oldest waiter.                                                         *)
(***************************************************************************)

(* Sleep::acquire: down loops while the value is 0 (sema.rs:75-81), so a *)
(* woken thread stays at the same pc and tests the value again.          *)
LockAcquire(t, next) ==
  \/ /\ lockValue = 1
     /\ lockValue' = 0
     /\ lockHolder' = t
     /\ pc' = [pc EXCEPT ![t] = next]
     /\ UNCHANGED <<lockWaiters, blocked>>
  \/ /\ lockValue = 0
     /\ lockWaiters' = Append(lockWaiters, t)
     /\ blocked' = blocked \cup {t}
     /\ UNCHANGED <<lockValue, lockHolder, pc>>

(* Sleep::release: clear the holder, then up, which wakes the oldest    *)
(* waiter (sema.rs:89-101).                                              *)
LockRelease(t, next) ==
  /\ lockHolder = t
  /\ lockHolder' = "none"
  /\ lockValue' = 1
  /\ IF lockWaiters = <<>>
       THEN UNCHANGED <<lockWaiters, blocked>>
       ELSE /\ lockWaiters' = Tail(lockWaiters)
            /\ blocked' = blocked \ {Head(lockWaiters)}
  /\ pc' = [pc EXCEPT ![t] = next]

(* Semaphore::up on the slot of waiter s: the value goes up and its one  *)
(* waiter, if it already sleeps, is woken (sema.rs:89-101).             *)
SlotUpNoWake(s, sv, sw, b) ==
  [v |-> [sv EXCEPT ![s] = @ + 1], w |-> sw, b |-> b]

SlotUp(s, sv, sw, b) ==
  [v |-> [sv EXCEPT ![s] = @ + 1],
   w |-> [sw EXCEPT ![s] = FALSE],
   b |-> IF sw[s] THEN b \ {s} ELSE b]

LockVars == <<lockHolder, lockValue, lockWaiters>>
SlotVars == <<slotValue, slotWaiting>>

(***************************************************************************)
(* The waiter: lock; while !flag { wait }; unlock.                        *)
(***************************************************************************)
WAcquire(t) ==
  /\ pc[t] \in {"acquire", "reacquire"}
  /\ LockAcquire(t, "check")
  /\ UNCHANGED <<flag, cv, slotValue, slotWaiting, kpanic>>

WCheck(t) ==
  /\ pc[t] = "check"
  /\ pc' = [pc EXCEPT ![t] = IF flag THEN "unlock" ELSE "push"]
  /\ UNCHANGED <<LockVars, flag, cv, SlotVars, blocked, kpanic>>

(* Condvar::wait, condvar.rs:62-63: a new Semaphore(0) is pushed at the  *)
(* front of the queue while the guard is still held.                     *)
WPush(t) ==
  /\ pc[t] = "push"
  /\ cv' = <<t>> \o cv
  /\ slotValue' = [slotValue EXCEPT ![t] = 0]
  /\ slotWaiting' = [slotWaiting EXCEPT ![t] = FALSE]
  /\ pc' = [pc EXCEPT ![t] = "release"]
  /\ UNCHANGED <<LockVars, flag, blocked, kpanic>>

(* condvar.rs:65, guard.release().                                       *)
WRelease(t) ==
  /\ pc[t] = "release"
  /\ LockRelease(t, "down")
  /\ UNCHANGED <<flag, cv, SlotVars, kpanic>>

(* condvar.rs:66, sema.down() on the slot: block until it is upped; a   *)
(* woken waiter tests the value again (sema.rs:71-86).                   *)
WDown(t) ==
  /\ pc[t] = "down"
  /\ \/ /\ slotValue[t] > 0
        /\ slotValue' = [slotValue EXCEPT ![t] = @ - 1]
        /\ pc' = [pc EXCEPT ![t] = "reacquire"]
        /\ UNCHANGED <<slotWaiting, blocked>>
     \/ /\ slotValue[t] = 0
        /\ slotWaiting' = [slotWaiting EXCEPT ![t] = TRUE]
        /\ blocked' = blocked \cup {t}
        /\ UNCHANGED <<slotValue, pc>>
  /\ UNCHANGED <<LockVars, flag, cv, kpanic>>

WUnlock(t) ==
  /\ pc[t] = "unlock"
  /\ LockRelease(t, "done")
  /\ UNCHANGED <<flag, cv, SlotVars, kpanic>>

(***************************************************************************)
(* The notifier: lock; flag := true; notify; unlock.                      *)
(***************************************************************************)
NAcquire(t) ==
  /\ pc[t] = "acquire"
  /\ LockAcquire(t, "set")
  /\ UNCHANGED <<flag, cv, slotValue, slotWaiting, kpanic>>

NSet(t) ==
  /\ pc[t] = "set"
  /\ flag' = TRUE
  /\ pc' = [pc EXCEPT ![t] = "notify"]
  /\ UNCHANGED <<LockVars, cv, SlotVars, blocked, kpanic>>

(* pop_waiter, condvar.rs:72-99.  Without the priority feature: the back *)
(* of the queue, the oldest slot.  With it: every slot's front_waiter()  *)
(* is unwrapped, which panics on a slot whose waiter has not reached     *)
(* down yet; otherwise the first slot of maximal priority, with equal     *)
(* priorities the front, the newest slot.                                *)
PopWaiterIndexFront(q) == 1
PopWaiterIndex(q) == IF PriorityBuild THEN 1 ELSE Len(q)

PopWaiterPanics(q) ==
  PriorityBuild /\ \E i \in 1..Len(q) : ~slotWaiting[q[i]]

(* Condvar::notify_one, condvar.rs:102-106.                              *)
NotifyOne(t) ==
  /\ cv # <<>>
  /\ IF PopWaiterPanics(cv)
       THEN /\ kpanic' = "unwrap_none"
            /\ UNCHANGED <<cv, SlotVars, blocked, pc>>
       ELSE LET s == cv[PopWaiterIndex(cv)]
                up == SlotUp(s, slotValue, slotWaiting, blocked)
            IN /\ cv' = RemoveAt(cv, PopWaiterIndex(cv))
               /\ slotValue' = up.v
               /\ slotWaiting' = up.w
               /\ blocked' = up.b
               /\ pc' = [pc EXCEPT ![t] = "unlock"]
               /\ UNCHANGED kpanic

(* Condvar::notify_all, condvar.rs:109-112: up every slot, then clear.   *)
NotifyAllUpNoClear(q) ==
  [v |-> [w \in Waiters |-> IF w \in ToSet(q) THEN slotValue[w] + 1 ELSE slotValue[w]],
   w |-> [w \in Waiters |-> slotWaiting[w] /\ w \notin ToSet(q)],
   b |-> blocked \ ToSet(q),
   q |-> q]

NotifyAllClearOnly(q) ==
  [v |-> slotValue, w |-> slotWaiting, b |-> blocked, q |-> <<>>]

NotifyAllUpNoWake(q) ==
  [v |-> [w \in Waiters |-> IF w \in ToSet(q) THEN slotValue[w] + 1 ELSE slotValue[w]],
   w |-> slotWaiting, b |-> blocked, q |-> <<>>]

NotifyAllUp(q) ==
  [v |-> [w \in Waiters |-> IF w \in ToSet(q) THEN slotValue[w] + 1 ELSE slotValue[w]],
   w |-> [w \in Waiters |-> slotWaiting[w] /\ w \notin ToSet(q)],
   b |-> blocked \ ToSet(q),
   q |-> <<>>]

NotifyAllOp(t) ==
  LET up == NotifyAllUp(cv)
  IN /\ cv' = up.q
     /\ slotValue' = up.v
     /\ slotWaiting' = up.w
     /\ blocked' = up.b
     /\ pc' = [pc EXCEPT ![t] = "unlock"]
     /\ UNCHANGED kpanic

(* An empty queue: nothing to pop, nothing to up.                        *)
NotifyNone(t) ==
  /\ cv = <<>>
  /\ pc' = [pc EXCEPT ![t] = "unlock"]
  /\ UNCHANGED <<cv, SlotVars, blocked, kpanic>>

NNotify(t) ==
  /\ pc[t] = "notify"
  /\ IF t \in AllNotifiers THEN NotifyAllOp(t) ELSE NotifyOne(t) \/ NotifyNone(t)
  /\ UNCHANGED <<LockVars, flag>>

NUnlock(t) ==
  /\ pc[t] = "unlock"
  /\ LockRelease(t, "done")
  /\ UNCHANGED <<flag, cv, SlotVars, kpanic>>

Step(t) ==
  /\ Ready(t)
  /\ IF t \in Waiters
       THEN WAcquire(t) \/ WCheck(t) \/ WPush(t) \/ WRelease(t) \/ WDown(t) \/ WUnlock(t)
       ELSE NAcquire(t) \/ NSet(t) \/ NNotify(t) \/ NUnlock(t)

(* The idle thread runs when no thread is ready, and after a panic the   *)
(* kernel stops: both stutter.                                           *)
Idle ==
  /\ \A t \in Threads : ~Ready(t) \/ pc[t] = "done"
  /\ UNCHANGED vars

Next == (\E t \in Threads : Step(t)) \/ Idle

(* The timer preempts the running thread at every tick and all threads   *)
(* share one priority, so each ready thread keeps getting the CPU.       *)
Fairness == \A t \in Threads : WF_vars(Step(t))

Spec == Init /\ [][Next]_vars /\ Fairness

-----------------------------------------------------------------------------
(* No kernel panic: notify_one called under the lock, as the header of   *)
(* condvar.rs prescribes, never unwraps an empty slot (condvar.rs:79-81). *)
NoPanic == kpanic = "none"

(* A waiter about to sleep on its slot can still be woken: the slot has  *)
(* been upped already or is still in the queue a notifier pops from.     *)
(* This is what makes the push in wait precede the release of the lock.  *)
SlotReachable ==
  \A w \in Waiters :
    pc[w] = "down" => slotValue[w] > 0 \/ w \in ToSet(cv)

(* Every waiter eventually returns: no wakeup of a waiter is lost, as    *)
(* long as there are as many notifications as waits.                     *)
AllWaitersReturn == <>(\A w \in Waiters : pc[w] = "done")

-----------------------------------------------------------------------------
(* The refinement mapping onto CondvarMonitor.  A waiter that has pushed *)
(* its slot still holds the Sleep lock until its guard.release(), but it *)
(* has already waited: the abstract wait is the push, and the lock counts *)
(* as free from then on.  The queue pushes at the front and the FIFO      *)
(* build pops at the back, so the abstract queue, oldest first, is the    *)
(* reverse of cv.  A waiter whose slot has left cv is signalled until it   *)
(* holds the lock again.                                                  *)
MonOwner == IF lockHolder # "none" /\ pc[lockHolder] = "release" THEN "none" ELSE lockHolder

MonSignalled == {w \in Waiters : pc[w] \in {"down", "reacquire"} /\ w \notin ToSet(cv)}

Monitor == INSTANCE CondvarMonitor
             WITH owner <- MonOwner, wq <- Reverse(cv), signalled <- MonSignalled,
                  cond <- flag, NoOwner <- "none"

(* Condvar and the Sleep lock implement the monitor its header describes:*)
(* wait gives up the lock atomically, notify_one wakes the longest-       *)
(* waiting thread, notify_all every waiter, and a woken waiter gets the   *)
(* lock back.                                                              *)
ImplementsMonitor == Monitor!MonSpec

=============================================================================
