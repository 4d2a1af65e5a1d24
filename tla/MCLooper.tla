------------------------------ MODULE MCLooper ------------------------------
(***************************************************************************)
(* Instances of Looper: MCLooper.cfg, with terminate() at any time;        *)
(* MCLooperEarly.cfg, the same, asks whether the process survives that;    *)
(* in MCLooperFlood.cfg a callback may call terminate() on a full pipe.    *)
(***************************************************************************)
EXTENDS Looper, TLC

CONSTANTS t1, t2, s1

MCTerminators == {t1, t2}
MCSources == {s1}
=============================================================================
