----------------------------- MODULE MCChannel ------------------------------
(***************************************************************************)
(* Instances of Channel: the MCChannel*.cfg differ in which threads send   *)
(* on, loop over and terminate the two channels, which messages have no    *)
(* data, and in which end may be killed.                                   *)
(***************************************************************************)
EXTENDS Channel, TLC

CONSTANTS a, b, u

MCNoUsers == {}
MCNoUserEnd == <<>>
MCUser == {u}
MCUserAtA == u :> a

MCBoth == {a, b}
MCOnlyU == {u}
MCAtA == {a, u}
MCOnlyA == {a}
MCOnlyB == {b}
MCUandB == {u, b}
MCNone == {}
MCAll == {a, b, u}
MCSecond == {2}
MCThird == {3}
=============================================================================
