---------------------------- MODULE MCWaitManager ----------------------------
(* r executes c1, fails to execute c2 with an argv too long for the     *)
(* stack page and waits for it, executes c2 again with any of the inputs *)
(* below (which may fail too), then waits for c1 twice and for c2 once;  *)
(* c1 executes g and exits without waiting for it; c2 waits for c1,      *)
(* which is not its child.  Together the scripts take every branch of    *)
(* wait and exit.                                                         *)
EXTENDS WaitManager, TLC

CONSTANTS r, c1, c2, g

Exec(p, hs, as) == [op |-> "exec", proc |-> p, hdrs |-> hs, argvs |-> as]
Wait(p) == [op |-> "wait", proc |-> p]
ExitWith(v) == [op |-> "exit", code |-> v]

(* The inputs an exec may take: argument vectors at and around the      *)
(* 64-byte page (TooLong and TooLong2 need 65 bytes, <<63>>, <<62, 0>>   *)
(* and <<31, 31>> exactly 64), and LOAD headers whose page offset is 0, 1 *)
(* or 63 and whose sizes end just before, at or just after a page.        *)
TooLong == <<63, 0>>
TooLong2 == <<31, 32>>
MCArgvs == {<<>>, <<0>>, <<7>>, <<63>>, <<62, 0>>, <<31, 31>>, <<7, 7>>,
            <<0, 0, 0>>, <<7, 7, 7>>, TooLong, TooLong2}
Hdr(po, f, m) == [offset |-> 64 + po, vaddr |-> 128 + po, filesz |-> f, memsz |-> m]
MCHeaders ==
  {Hdr(po, fm[1], fm[2]) : po \in {0, 1, 63},
                           fm \in {<<0, 1>>, <<1, 1>>, <<63, 64>>, <<64, 64>>, <<64, 65>>,
                                  <<65, 129>>, <<128, 128>>}}
Code == Hdr(0, 64, 64)

MCProcs == {r, c1, c2, g}
MCScript ==
  (r :> <<Exec(c1, {Code}, {<<7>>}), Exec(c2, {Code}, {TooLong}), Wait(c2),
         Exec(c2, MCHeaders, MCArgvs),
         Wait(c1), Wait(c1), Wait(c2), ExitWith(0)>>)
  @@ (c1 :> <<Exec(g, {Code}, {<<>>}), ExitWith(1)>>)
  @@ (c2 :> <<Wait(c1), ExitWith(2)>>)
  @@ (g :> <<ExitWith(0)>>)

(* The same scripts with the second execute of c2 given one input that   *)
(* loads, for the liveness run, where the race is at register.           *)
MCScriptFixedLoad ==
  [MCScript EXCEPT ![r][4] = Exec(c2, {Code}, {<<63>>})]
=============================================================================
