------------------------------ MODULE MCTimer -------------------------------
(***************************************************************************)
(* Instances of Timer: see MCTimer.cfg, MCTimerShared.cfg (a timer in two  *)
(* wait sets), and MCTimerMany.cfg (two timers in one kqueue).  A word has *)
(* 3 bits and a second has 2 ticks: the intervals are a whole second, one  *)
(* and a half, zero, and a negative one.                                   *)
(***************************************************************************)
EXTENDS Timer, TLC

CONSTANTS t1, t2, l1, l2

MCTimers == {t1, t2}
MCLoopers == {l1, l2}
MCIntervals == {-1, 0, 2, 3}
=============================================================================
