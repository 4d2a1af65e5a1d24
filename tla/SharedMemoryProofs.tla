------------------------- MODULE SharedMemoryProofs -------------------------
(***************************************************************************)
(* Safety of SharedMemory, for any objects, names and number of tries, and *)
(* with crashes and failures at any point.                                 *)
(***************************************************************************)
EXTENDS SharedMemory, TLAPS

-----------------------------------------------------------------------------
(* The inductive invariant. *)

\* A try is left, and a name drawn, whenever shm_open() is called.
TriesAreLeft ==
  \A o \in Objects :
    /\ phase[o] \in {"none", "open"} => tries[o] < MaxRetries
    /\ phase[o] = "none" => tries[o] = 0
    /\ phase[o] \in {"open", "unlink"} => tempFile[o] \in Names

\* A handle refers to the backing that its own constructor made.
OwnBacking == \A o \in Objects : handle[o] \in {o, None}

\* The one name of a backing that is about to be unlinked is the one drawn.
OneName ==
  \A n \in Names : \A o \in Objects :
    backing[n] = o /\ phase[o] = "unlink" => n = tempFile[o]

IInv ==
  /\ TypeOK
  /\ TriesAreLeft
  /\ OwnBacking
  /\ OneName
  /\ UnlinksOwnName
  /\ NamesAreTemporary

\* No object is constructed yet.
LEMMA IInvInit ==
  ASSUME ObjectsAssumption, ParametersAssumption, Init
  PROVE  IInv
BY DEF ObjectsAssumption, ParametersAssumption, Init, IInv, TypeOK, TriesAreLeft,
  OwnBacking, OneName, UnlinksOwnName, NamesAreTemporary, Phases, Constructing

\* One step for every action of SharedMemory.
LEMMA IInvStep ==
  ASSUME ObjectsAssumption, ParametersAssumption, IInv, [Next]_vars
  PROVE  IInv'
<1> USE DEF ObjectsAssumption, ParametersAssumption, IInv, TypeOK, TriesAreLeft,
      OwnBacking, OneName, UnlinksOwnName, NamesAreTemporary, Phases, Constructing, Goto
<1>1. ASSUME NEW o \in Objects, Construct(o) PROVE IInv'
  BY <1>1 DEF Construct, Draw
<1>2. ASSUME NEW o \in Objects, Open(o) PROVE IInv'
  BY <1>2 DEF Open
<1>3. ASSUME NEW o \in Objects, OpenExists(o) PROVE IInv'
  BY <1>3 DEF OpenExists, Draw
<1>4. ASSUME NEW o \in Objects, Unlink(o) PROVE IInv'
  BY <1>4 DEF Unlink
<1>5. ASSUME NEW o \in Objects, Truncate(o) PROVE IInv'
  BY <1>5 DEF Truncate
<1>6. ASSUME NEW o \in Objects, Map(o) PROVE IInv'
  BY <1>6 DEF Map
<1>7. ASSUME NEW o \in Objects, Fail(o) PROVE IInv'
  BY <1>7 DEF Fail
<1>8. ASSUME NEW o \in Objects, FailureUnmap(o) PROVE IInv'
  BY <1>8 DEF FailureUnmap
<1>9. ASSUME NEW o \in Objects, FailureClose(o) PROVE IInv'
  BY <1>9 DEF FailureClose
<1>10. ASSUME NEW o \in Objects, Cleanup(o) PROVE IInv'
  BY <1>10 DEF Cleanup
<1>11. ASSUME NEW o \in Objects, Crash(o) PROVE IInv'
  BY <1>11 DEF Crash
<1>12. CASE UNCHANGED vars
  BY <1>12 DEF vars
<1> QED
  BY <1>1, <1>2, <1>3, <1>4, <1>5, <1>6, <1>7, <1>8, <1>9, <1>10, <1>11, <1>12
     DEF Next, ConstructorStep

-----------------------------------------------------------------------------
\* Every system call of SharedMemory.cpp, its failure or a crash keeps IInv.
THEOREM Invariance == Spec => []IInv
<1>1. Init => IInv
  BY IInvInit, ObjectsAssumption, ParametersAssumption
<1>2. IInv /\ [Next]_vars => IInv'
  BY IInvStep, ObjectsAssumption, ParametersAssumption
<1> QED
  BY <1>1, <1>2, PTL DEF Spec

\* Every variable of the shared memory model keeps its type; a constructor
\* calls shm_open() no more than MaxRetries times (SharedMemory.cpp:64).
THEOREM TypeCorrect == Spec => []TypeOK
<1>1. IInv => TypeOK
  BY DEF IInv
<1> QED
  BY <1>1, Invariance, PTL

\* O_EXCL keeps backings apart (SharedMemory.cpp:66-68): no two objects that
\* are constructed share one.
THEOREM BackingsArePrivate == Spec => []BackingIsPrivate
<1>1. IInv => BackingIsPrivate
  BY ObjectsAssumption DEF IInv, OwnBacking, BackingIsPrivate, ObjectsAssumption
<1> QED
  BY <1>1, Invariance, PTL

\* shm_unlink() finds the name its constructor made, whatever the others do
\* (SharedMemory.cpp:87).
THEOREM UnlinkFindsItsName == Spec => []UnlinksOwnName
<1>1. IInv => UnlinksOwnName
  BY DEF IInv
<1> QED
  BY <1>1, Invariance, PTL

\* Nothing but a crash between shm_open() and shm_unlink()
\* (SharedMemory.cpp:66-87) leaves a name in the system.
THEOREM NamesGoAway == Spec => []NamesAreTemporary
<1>1. IInv => NamesAreTemporary
  BY DEF IInv
<1> QED
  BY <1>1, Invariance, PTL
=============================================================================
