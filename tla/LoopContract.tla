---------------------------- MODULE LoopContract ----------------------------
(***************************************************************************)
(* What a caller may rely on when it uses cl::Looper: loop() runs until    *)
(* somebody calls terminate().  The contract counts the loop() calls that  *)
(* are active on the owning thread (a callback may call loop() again) and  *)
(* remembers whether a termination is requested.                           *)
(*                                                                         *)
(* It has one gap: a request that is made before the first loop() is       *)
(* prepared to be woken may break the looper, at that time or later.       *)
(***************************************************************************)
EXTENDS Naturals

VARIABLES
  depth,        \* loop() calls that have not returned yet
  requested,    \* a terminate() is waiting to be honoured
  prepared,     \* the first loop() can be woken
  premature,    \* some request was made before that
  broken        \* nothing more is promised

contractVars == <<depth, requested, prepared, premature, broken>>

Init ==
  /\ depth = 0
  /\ requested = FALSE
  /\ prepared = FALSE
  /\ premature = FALSE
  /\ broken = FALSE

\* loop() is called.
Enter ==
  /\ depth' = depth + 1
  /\ UNCHANGED <<requested, prepared, premature, broken>>

\* The first loop() has set up.
Prepare ==
  /\ depth > 0
  /\ prepared' = TRUE
  /\ UNCHANGED <<depth, requested, premature, broken>>

\* terminate() is called; requests that find one pending collapse into it.
Request ==
  /\ requested' = TRUE
  /\ premature' = (premature \/ ~prepared)
  /\ UNCHANGED <<depth, prepared, broken>>

\* The innermost loop() returns and consumes the request.
Return ==
  /\ depth > 0
  /\ requested
  /\ prepared
  /\ depth' = depth - 1
  /\ requested' = FALSE
  /\ UNCHANGED <<prepared, premature, broken>>

\* A premature request takes effect: the process dies or a pipe is lost.
Break ==
  /\ premature
  /\ broken' = TRUE
  /\ UNCHANGED <<depth, requested, prepared, premature>>

Next == Enter \/ Prepare \/ Request \/ Return \/ Break

Safety == Init /\ [][Next]_contractVars

\* A requested termination is honoured: loop() does not sleep through it.
Spec == Safety /\ WF_contractVars(Return /\ ~broken)
=============================================================================
