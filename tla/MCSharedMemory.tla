--------------------------- MODULE MCSharedMemory ---------------------------
(***************************************************************************)
(* Instances of SharedMemory.  The names are as many as the tries, so they *)
(* collide and run out.                                                    *)
(***************************************************************************)
EXTENDS SharedMemory, TLC

CONSTANTS o1, o2, o3, n1, n2

MCObjects == {o1, o2, o3}
MCNames == {n1, n2}
=============================================================================
