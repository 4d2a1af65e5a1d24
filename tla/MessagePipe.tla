---------------------------- MODULE MessagePipe -----------------------------
(***************************************************************************)
(* What one direction of a pair of connected cl::Channels promises: the    *)
(* messages that sendMessage() accepted reach the message callback of the  *)
(* other channel in order, none twice and none that was not sent.  A pipe  *)
(* whose reader neither sends nor terminates also promises that each one   *)
(* arrives, even when the sender terminates behind it.                     *)
(***************************************************************************)
EXTENDS Naturals, Sequences

CONSTANT Messages

VARIABLES
  accepted,   \* the messages sendMessage() reported as sent, in order
  delivered   \* the messages handed to the callback, in order

pipeVars == <<accepted, delivered>>

Init ==
  /\ accepted = <<>>
  /\ delivered = <<>>

Accept(m) ==
  /\ accepted' = Append(accepted, m)
  /\ UNCHANGED delivered

Deliver ==
  /\ Len(delivered) < Len(accepted)
  /\ delivered' = Append(delivered, accepted[Len(delivered) + 1])
  /\ UNCHANGED accepted

Next == Deliver \/ \E m \in Messages : Accept(m)

Safety == Init /\ [][Next]_pipeVars

Spec == Safety /\ WF_pipeVars(Deliver)
=============================================================================
