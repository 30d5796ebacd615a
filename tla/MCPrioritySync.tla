--------------------------- MODULE MCPrioritySync ---------------------------
(* Threads, locks and scripts for PrioritySync.                            *)
EXTENDS PrioritySync, TLC
CONSTANTS A, B, C, D, L1, L2

Acq(l) == [op |-> "acquire", lock |-> l]
Rel(l) == [op |-> "release", lock |-> l]
SetPri(p) == [op |-> "set_priority", prio |-> p]
Spawn_(t) == [op |-> "spawn", thread |-> t]

(* A holds L1 while B and C queue on it; on release the woken one can   *)
(* lose L1 to the other when their priorities tie.  D blocks on L2, which *)
(* B holds, then lowers itself; A (priority 1) waits for L2 behind them.  *)
RaceThreads == {A, B, C, D}
RacePriorities == {(A :> 1 @@ B :> b @@ C :> c @@ D :> d) : b, c, d \in 1 .. 3}
RaceScript ==
  (A :> <<Acq(L1), Spawn_(B), Spawn_(C), Rel(L1), Spawn_(D), Acq(L2), Rel(L2)>> @@
   B :> <<Acq(L2), Acq(L1), Rel(L1), Rel(L2)>> @@
   C :> <<Acq(L1), Rel(L1)>> @@
   D :> <<Acq(L2), SetPri(1), Rel(L2)>>)
=============================================================================
