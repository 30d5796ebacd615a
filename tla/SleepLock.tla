------------------------------ MODULE SleepLock ------------------------------
(***************************************************************************)
(* What a Tacos sleep lock promises its callers (Sleep::acquire and     *)
(* release, src/sync/sleep.rs), with no semaphore, scheduler or donation:*)
(* every lock has at most one owner; a thread takes a free lock *)
(* at once or waits for a held one; only the owner releases it; and a    *)
(* thread that waits for a lock is eventually given it, however often     *)
(* others take it first.                                                 *)
(***************************************************************************)
CONSTANTS Threads, Locks, NoThread

VARIABLES
  owner,    \* owner[l]: the thread holding l, NoThread if l is free
  waitFor   \* waitFor[t]: the lock t is blocked on, NoThread if none

avars == <<owner, waitFor>>

AbsTypeOK ==
  /\ owner \in [Locks -> Threads \cup {NoThread}]
  /\ waitFor \in [Threads -> Locks \cup {NoThread}]

AbsInit ==
  /\ owner = [l \in Locks |-> NoThread]
  /\ waitFor = [t \in Threads |-> NoThread]

(* t finds l free and takes it without waiting.                          *)
TakeFree(t, l) ==
  /\ waitFor[t] = NoThread
  /\ owner[l] = NoThread
  /\ owner' = [owner EXCEPT ![l] = t]
  /\ UNCHANGED waitFor

(* t finds l held by another thread and waits.                           *)
StartWait(t, l) ==
  /\ waitFor[t] = NoThread
  /\ owner[l] \notin {NoThread, t}
  /\ waitFor' = [waitFor EXCEPT ![t] = l]
  /\ UNCHANGED owner

(* A waiting t gets l once it is free.                                   *)
TakeWaited(t) ==
  /\ waitFor[t] # NoThread
  /\ owner[waitFor[t]] = NoThread
  /\ owner' = [owner EXCEPT ![waitFor[t]] = t]
  /\ waitFor' = [waitFor EXCEPT ![t] = NoThread]

(* Only the owner releases a lock.                                       *)
Give(t, l) ==
  /\ owner[l] = t
  /\ owner' = [owner EXCEPT ![l] = NoThread]
  /\ UNCHANGED waitFor

AbsNext ==
  \E t \in Threads :
    \/ TakeWaited(t)
    \/ \E l \in Locks : TakeFree(t, l) \/ StartWait(t, l) \/ Give(t, l)

(* A waiter that finds its lock free infinitely often gets it: no waiter *)
(* starves, whatever the other threads do in between.                    *)
AbsSpec == AbsInit /\ [][AbsNext]_avars /\ \A t \in Threads : SF_avars(TakeWaited(t))
=============================================================================
