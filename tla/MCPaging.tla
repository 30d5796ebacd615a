------------------------------ MODULE MCPaging ------------------------------
(* Model values and bounds for Paging.                                     *)
EXTENDS Paging, TLC

CONSTANTS p1, p2, f1, f2, f3, code, top, grow, wild

MCProcs1  == {p1}
MCProcs2  == {p1, p2}
MCFrames2 == {f1, f2}
MCFrames3 == {f1, f2, f3}

(* Processes and frames are interchangeable: Init ranges over every       *)
(* assignment of stack frames and every execute order.                    *)
Symmetry == Permutations(MCProcs2) \cup Permutations(MCFrames3)
=============================================================================
