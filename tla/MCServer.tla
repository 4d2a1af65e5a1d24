------------------------------ MODULE MCServer ------------------------------
(***************************************************************************)
(* Instances of Server: MCServer.cfg has three servers, whose lives overlap *)
(* as they please; MCServerOverlap.cfg asks whether unlink() finds the     *)
(* name; in MCServerBind.cfg the bind() of one server fails; in            *)
(* MCServerTwoLoopers.cfg two loops watch a server.                        *)
(***************************************************************************)
EXTENDS Server, TLC

CONSTANTS s1, s2, s3, c1, c2, l1, l2

MCServers == {s1, s2, s3}
MCTwoServers == {s1, s2}
MCClients == {c1, c2}
MCOneLoop == {l1}
MCTwoLoops == {l1, l2}
MCNone == {}
MCFirst == {s1}
=============================================================================
