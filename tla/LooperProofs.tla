---------------------------- MODULE LooperProofs ----------------------------
(***************************************************************************)
(* Safety of Looper, for any number of terminating threads, any nesting    *)
(* depth and any pipe capacity, whenever terminate() is called.            *)
(***************************************************************************)
EXTENDS Looper, TLAPS

SetupPoints == {"create", "register"} \cup HandlesPoints

-----------------------------------------------------------------------------
(* The inductive invariant. *)

\* A terminator is idle or inside terminate(), and all threads die at once.
TerminatorsOnlyTerminate ==
  \A t \in Terminators :
    /\ pc[t] \in {"idle", "dead"} \cup TerminatePoints \cup HandlesPoints
    /\ pc[t] = "dead" <=> pc[Owner] = "dead"

\* Until the trivial source is registered the owner is outside loop() or
\* setting up, or it dies of its own terminate(), and every other thread that
\* moves called terminate() early.
BeforeRegistration ==
  watched = None =>
    /\ \A t \in Terminators : pc[t] \notin {"idle", "dead"} => t \in early
    /\ pc[Owner] = "deref" => Owner \in early
    /\ ~trivialSource => \A t \in Terminators : pc[t] \in {"idle", "deref", "dead"}
    /\ pc[Owner] \in {"idle", "deref", "dead"} \cup SetupPoints
    /\ trivialSource <=> pc[Owner] \in HandlesPoints \cup {"register"}
    /\ pc[Owner] \in {"h_return", "register"} => allocated
    /\ pc[Owner] = "register" => handle[Owner] \in pipes
    /\ pc[Owner] \in SetupPoints => depth > 0

\* From then on the source is there and has handles, and the owner does not
\* set up again.
AfterRegistration ==
  watched # None =>
    /\ trivialSource
    /\ allocated
    /\ pc[Owner] \notin {"create", "register", "h_alloc", "dead"}

\* Who made a pipe or will make one, and which pipes the program holds.
PipesAreAccountedFor ==
  /\ pipes \subseteq early \cup {Owner}
  /\ allocated <=> handles # None
  /\ ~allocated => pipes = {}
  /\ {handles, watched} \ {None} \subseteq pipes
  /\ \A t \in Threads : pc[t] = "h_alloc" => t \notin pipes /\ t \in early \cup {Owner}
  /\ \A t \in Threads : pc[t] = "h_return" => allocated
  /\ \A t \in Threads : pc[t] = "write" => handle[t] \in pipes

\* What the owner knows at each point of loop().
OwnerKnows ==
  /\ pc[Owner] \in LoopPoints => depth > 0
  /\ pc[Owner] = "reset" => shouldTerminate
  /\ pc[Owner] = "drain" => wakes[watched] > 0
  /\ pc[Owner] = "dead" => early # {}

IInv ==
  /\ TypeOK
  /\ TerminatorsOnlyTerminate
  /\ BeforeRegistration
  /\ AfterRegistration
  /\ PipesAreAccountedFor
  /\ OwnerKnows
  /\ NoLostWakeup

-----------------------------------------------------------------------------
\* loop() was not called yet.
LEMMA IInvInit ==
  ASSUME ThreadsAssumption, BoundsAssumption, Init
  PROVE  IInv
<1> USE DEF ThreadsAssumption, BoundsAssumption, Init, Threads
<1>1. TypeOK
  <2>1. 0 \in 0 .. MaxDepth /\ 0 \in 0 .. PipeCapacity
    OBVIOUS
  <2>2. /\ wakes \in [Threads -> 0 .. PipeCapacity]
        /\ pc \in [Threads -> {"idle"}]
        /\ handle \in [Threads -> {None}]
    BY <2>1
  <2>3. QED
    BY <2>1, <2>2 DEF TypeOK
<1>2. TerminatorsOnlyTerminate /\ BeforeRegistration
  BY DEF TerminatorsOnlyTerminate, BeforeRegistration, SetupPoints, HandlesPoints
<1>3. AfterRegistration /\ PipesAreAccountedFor /\ OwnerKnows /\ NoLostWakeup
  BY DEF AfterRegistration, PipesAreAccountedFor, OwnerKnows, NoLostWakeup, LoopPoints
<1>4. QED
  BY <1>1, <1>2, <1>3 DEF IInv

\* One step for every action of Looper.
LEMMA IInvStep ==
  ASSUME ThreadsAssumption, BoundsAssumption, IInv, [Next]_vars
  PROVE  IInv'
<1> USE DEF ThreadsAssumption, BoundsAssumption, IInv, TypeOK, Threads,
      TerminatorsOnlyTerminate, BeforeRegistration, AfterRegistration,
      PipesAreAccountedFor, OwnerKnows, NoLostWakeup, OnePipe, LoopPoints,
      TerminatePoints, HandlesPoints, SetupPoints, Terminating, Goto, pipeVars, allocVars
<1>1. CASE LoopEnter
  BY <1>1 DEF LoopEnter
<1>2. CASE CreateTrivial
  BY <1>2 DEF CreateTrivial
<1>3. CASE Register
  BY <1>3 DEF Register
<1>4. CASE CheckFlag
  BY <1>4 DEF CheckFlag
<1>5. CASE WaitTrivial
  BY <1>5 DEF WaitTrivial
<1>6. CASE ReadWake
  BY <1>6 DEF ReadWake
<1>7. ASSUME NEW s \in Sources, WaitSource(s)
     PROVE  IInv'
  BY <1>7 DEF WaitSource
<1>8. CASE CallbackReturn
  BY <1>8 DEF CallbackReturn
<1>9. CASE Reset
  <2>1. depth > 0 /\ depth - 1 \in 0 .. MaxDepth /\ (depth # 1 => depth - 1 > 0)
    BY <1>9 DEF Reset
  <2>2. TypeOK'
    BY <1>9, <2>1 DEF Reset
  <2>3. watched # None /\ pc' = [pc EXCEPT ![Owner] = IF depth = 1 THEN "idle" ELSE "callback"]
    BY <1>9 DEF Reset
  <2>4. TerminatorsOnlyTerminate' /\ BeforeRegistration' /\ AfterRegistration'
    BY <1>9, <2>2, <2>3 DEF Reset
  <2>5. PipesAreAccountedFor' /\ NoLostWakeup'
    BY <1>9, <2>2, <2>3 DEF Reset
  <2>6. OwnerKnows'
    BY <1>9, <2>1, <2>2, <2>3 DEF Reset
  <2>7. QED
    BY <2>2, <2>4, <2>5, <2>6
<1>10. ASSUME NEW t \in Threads, TerminateSetFlag(t)
     PROVE  IInv'
  BY <1>10 DEF TerminateSetFlag
<1>11. ASSUME NEW t \in Threads, TerminateDeref(t)
     PROVE  IInv'
  BY <1>11 DEF TerminateDeref
<1>12. ASSUME NEW t \in Threads, TerminateNull(t)
     PROVE  IInv'
  <2>1. watched = None /\ t \in early /\ pc' = [u \in Threads |-> "dead"]
    BY <1>12 DEF TerminateNull
  <2>2. QED
    BY <1>12, <2>1 DEF TerminateNull
<1>13. ASSUME NEW t \in Threads, HandlesCheck(t)
     PROVE  IInv'
  BY <1>13 DEF HandlesCheck
<1>14. ASSUME NEW t \in Threads, HandlesAlloc(t)
     PROVE  IInv'
  BY <1>14 DEF HandlesAlloc
<1>15. ASSUME NEW t \in Threads, HandlesReturn(t)
     PROVE  IInv'
  BY <1>15 DEF HandlesReturn
<1>16. ASSUME NEW t \in Threads, TerminateWrite(t)
     PROVE  IInv'
  BY <1>16 DEF TerminateWrite
<1>17. ASSUME NEW s \in Sources, Signal(s)
     PROVE  IInv'
  BY <1>17 DEF Signal
<1>18. CASE UNCHANGED vars
  BY <1>18 DEF vars
<1>19. QED
  BY <1>1, <1>2, <1>3, <1>4, <1>5, <1>6, <1>7, <1>8, <1>9, <1>10, <1>11, <1>12,
     <1>13, <1>14, <1>15, <1>16, <1>17, <1>18
     DEF Next, LoopStep, TerminateStep, HandlesStep

\* Looper.cpp keeps IInv in every interleaving of loop() with terminate().
THEOREM Invariance == Spec => []IInv
<1>1. Init => IInv
  BY IInvInit, ThreadsAssumption, BoundsAssumption
<1>2. IInv /\ [Next]_vars => IInv'
  BY IInvStep, ThreadsAssumption, BoundsAssumption
<1>3. QED
  BY <1>1, <1>2, PTL DEF Spec

\* Every variable keeps the type of the C++ field or kernel object it models.
THEOREM TypeCorrect == Spec => []TypeOK
<1>1. IInv => TypeOK
  BY DEF IInv
<1>2. QED
  BY <1>1, Invariance, PTL

\* A loop() going to sleep with the flag set has a wake message in its pipe,
\* or coming: terminate() sets the flag before it writes (Looper.cpp:99-102).
THEOREM WakeupsAreNotLost == Spec => []NoLostWakeup
<1>1. IInv => NoLostWakeup
  BY DEF IInv
<1>2. QED
  BY <1>1, Invariance, PTL

\* The unsynchronised lazy allocation of LooperSource::handles() is repeated
\* only by early terminate() calls, and else all wakes go to the watched pipe.
THEOREM WakesReachTheLoop == Spec => []OneWakePipe
<1>1. IInv => OneWakePipe
  <2>1. ASSUME IInv, OnePipe, watched # None
        PROVE  /\ handles = watched
               /\ \A t \in Threads : pc[t] = "write" => handle[t] = watched
    BY <2>1 DEF IInv, PipesAreAccountedFor, AfterRegistration, OnePipe
  <2>2. QED
    BY <2>1 DEF IInv, PipesAreAccountedFor, OneWakePipe
<1>2. QED
  BY <1>1, Invariance, PTL

\* The reader of the trivial source, a blocking read(), finds a message.
THEOREM TheReaderDoesNotBlock == Spec => []ReadNeverBlocks
<1>1. IInv => ReadNeverBlocks
  BY ThreadsAssumption DEF IInv, BeforeRegistration, AfterRegistration,
    PipesAreAccountedFor, OwnerKnows, ReadNeverBlocks, OnePipe, SetupPoints, HandlesPoints
<1>2. QED
  BY <1>1, Invariance, PTL

-----------------------------------------------------------------------------
(* Each step of Looper is a step of LoopContract or leaves it unchanged. *)

\* A pipe that is not the only one was made by an early terminate() or beside
\* one; a process dies of an early terminate().
LEMMA StepSimulates ==
  ASSUME ThreadsAssumption, IInv, IInv', [Next]_vars
  PROVE  [Contract!Next]_(Contract!contractVars)
<1> USE DEF Contract!Next, Contract!Enter, Contract!Prepare, Contract!Request,
      Contract!Return, Contract!Break, Contract!contractVars, Goto, pipeVars, allocVars
<1>1. CASE LoopEnter
  BY <1>1 DEF LoopEnter, IInv, TypeOK, Threads, OnePipe
<1>2. CASE Reset
  <2>1. depth > 0 /\ shouldTerminate /\ watched # None /\ pc'[Owner] # "dead"
    BY <1>2 DEF Reset, IInv, OwnerKnows, LoopPoints, BeforeRegistration, SetupPoints,
      HandlesPoints, TypeOK, Threads
  <2>2. QED
    BY <1>2, <2>1 DEF Reset, OnePipe
<1>3. CASE Register
  <2>1. depth > 0 /\ watched' # None
    BY <1>3, ThreadsAssumption DEF Register, IInv, OwnerKnows, LoopPoints,
      BeforeRegistration, AfterRegistration, TypeOK, Threads
  <2>2. QED
    BY <1>3, <2>1 DEF Register, OnePipe, IInv, TypeOK, Threads
<1>4. ASSUME NEW t \in Threads, TerminateSetFlag(t)
      PROVE  Contract!Request
  BY <1>4 DEF TerminateSetFlag, IInv, TypeOK, Threads, OnePipe
<1>5. CASE LoopStep /\ ~Reset /\ ~Register
  BY <1>5 DEF LoopStep, CreateTrivial, CheckFlag, WaitTrivial, ReadWake, WaitSource,
    CallbackReturn, OnePipe, IInv, TypeOK, Threads
<1>6. ASSUME NEW t \in Threads, HandlesAlloc(t)
      PROVE  Contract!Break \/ UNCHANGED Contract!contractVars
  <2>1. CASE early = {}
    BY <1>6, <2>1, ThreadsAssumption DEF HandlesAlloc, OnePipe, IInv, TypeOK, Threads,
      PipesAreAccountedFor
  <2>2. CASE early # {}
    BY <1>6, <2>2 DEF HandlesAlloc, OnePipe, IInv, TypeOK, Threads
  <2>3. QED
    BY <2>1, <2>2
<1>7. ASSUME NEW t \in Threads, TerminateNull(t)
      PROVE  Contract!Break
  BY <1>7 DEF TerminateNull, IInv, OwnerKnows, Threads, OnePipe
<1>8. ASSUME NEW t \in Threads,
             TerminateDeref(t) \/ HandlesCheck(t) \/ HandlesReturn(t) \/ TerminateWrite(t)
      PROVE  UNCHANGED Contract!contractVars
  BY <1>8 DEF TerminateDeref, HandlesCheck, HandlesReturn, TerminateWrite, IInv, TypeOK,
    Threads, OnePipe
<1>9. ASSUME NEW s \in Sources, Signal(s)
      PROVE  UNCHANGED Contract!contractVars
  BY <1>9 DEF Signal, OnePipe
<1>10. CASE UNCHANGED vars
  BY <1>10 DEF vars, OnePipe
<1>11. QED
  BY <1>1, <1>2, <1>3, <1>4, <1>5, <1>6, <1>7, <1>8, <1>9, <1>10
     DEF Next, TerminateStep, HandlesStep

\* loop() returns only on a request, each request ends one loop(), and only a
\* premature request breaks this.
THEOREM ContractIsKept == Spec => Contract!Safety
<1>1. Init => Contract!Init
  BY ThreadsAssumption DEF Init, Contract!Init, OnePipe, Threads
<1>2. IInv /\ IInv' /\ [Next]_vars => [Contract!Next]_(Contract!contractVars)
  BY StepSimulates, ThreadsAssumption
<1>3. QED
  BY <1>1, <1>2, Invariance, PTL DEF Spec, Contract!Safety
=============================================================================
