----------------------------- MODULE MCWaitSet ------------------------------
(***************************************************************************)
(* Instances of WaitSet: MCWaitSet.cfg keeps both rules of the caller,     *)
(* MCWaitSetLate.cfg and MCWaitSetCollect.cfg drop one each.               *)
(***************************************************************************)
EXTENDS WaitSet, TLC

CONSTANTS c1, c2, t1, t2

MCChannels == {c1, c2}
MCTimers == {t1, t2}
MCSymmetry == Permutations(MCChannels) \cup Permutations(MCTimers)
=============================================================================
