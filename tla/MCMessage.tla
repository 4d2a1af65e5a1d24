----------------------------- MODULE MCMessage ------------------------------
(***************************************************************************)
(* Instances of Message with two types, and a size_t of 8 bits in which    *)
(* the shifts 1 and 2 reach as far as 1 to 16 do in 64.  Two numbers and   *)
(* two files let a closed number stand for another file.  In               *)
(* MCMessageAttachments.cfg two attachments have to arrive, and in         *)
(* MCMessageGlibc.cfg one, where NullIsFirst is FALSE.                     *)
(***************************************************************************)
EXTENDS Message, TLC

CONSTANTS char, int, f1, f2

MCTypes == {char, int}
MCSizeOf == char :> 1 @@ int :> 4
MCReservations == {3, 8}
MCNumbers == {3, 4}
MCFiles == {f1, f2}
MCShifts == {1, 2}
=============================================================================
