--------------------------- MODULE WaitSetProofs ----------------------------
(***************************************************************************)
(* Safety of WaitSet, for any channels, timers and descriptor numbers and  *)
(* for any program, but for ScheduledIsWatched, which only a program that  *)
(* unschedules its closed channels in time can rely on.                    *)
(***************************************************************************)
EXTENDS WaitSet, TLAPS

-----------------------------------------------------------------------------
(* The inductive invariant. *)

\* Descriptors are not shared, and only live channels and timers have one.
HandlesAreOwned ==
  /\ \A r, s \in Sources : handle[r] # None /\ handle[r] = handle[s] => r = s
  /\ \A c \in Channels : handle[c] # None => c \in held
  /\ \A c \in connected : handle[c] # None
  /\ \A t \in Timers : handle[t] # None => t \in held \cup sources

\* What a source has cached is its descriptor, or the one it had.
CachesAreKnown ==
  /\ \A c \in Channels : cached[c] # None => c \in held
  /\ \A c \in Channels : handle[c] # None /\ cached[c] # None => cached[c] = handle[c]
  /\ \A t \in Timers : cached[t] = handle[t]

\* A channel in the wait set is alive and has cached a descriptor.
ScheduledAreKnown ==
  /\ \A c \in Channels \cap sources : c \in held /\ cached[c] # None
  /\ \A t \in Timers \cap sources : handle[t] # None

IInv ==
  /\ TypeOK
  /\ HandlesAreOwned
  /\ CachesAreKnown
  /\ ScheduledAreKnown
  /\ WatchedIsScheduled

\* Every closed channel is unscheduled before other descriptors are opened:
\* without it ScheduledIsWatched is false (MCWaitSetLate.cfg).
TidyProgram == LateUnschedule = FALSE

\* Nobody else has the number of a closed channel that is still scheduled.
ClosedNumbersAreFree ==
  \A c \in Channels \cap sources :
    handle[c] = None => \A s \in Sources : handle[s] # cached[c]

TidyInv ==
  /\ ClosedNumbersAreFree
  /\ ScheduledIsWatched

-----------------------------------------------------------------------------
\* The wait set of a new looper is empty.
LEMMA IInvInit ==
  ASSUME SourcesAssumption, Init
  PROVE  IInv
BY DEF SourcesAssumption, Init, IInv, TypeOK, HandlesAreOwned, CachesAreKnown,
  ScheduledAreKnown, WatchedIsScheduled, Sources

\* One step for every action of WaitSet, whatever the program does.
LEMMA IInvStep ==
  ASSUME SourcesAssumption, IInv, [Next]_vars
  PROVE  IInv'
<1> USE DEF SourcesAssumption, IInv, TypeOK, HandlesAreOwned, CachesAreKnown,
      ScheduledAreKnown, WatchedIsScheduled, Sources
<1>1. ASSUME NEW c \in Channels, OpenChannel(c)
      PROVE  IInv'
  <2> USE <1>1 DEF OpenChannel
  <2>1. PICK h \in Handles \ Open : handle' = [handle EXCEPT ![c] = h]
    BY DEF NewHandle
  <2>2. h # None /\ \A s \in Sources : handle[s] # h
    BY DEF Open
  <2>3. handle[c] = None /\ cached[c] = None /\ c \notin sources /\ c \notin connected
    OBVIOUS
  <2>4. watch[h] = None
    BY <2>2
  <2>5. TypeOK'
    BY <2>1
  <2>6. HandlesAreOwned'
    BY <2>1, <2>2, <2>3
  <2>7. CachesAreKnown' /\ ScheduledAreKnown'
    BY <2>1, <2>3
  <2>8. WatchedIsScheduled'
    BY <2>1, <2>3, <2>4
  <2>9. QED
    BY <2>5, <2>6, <2>7, <2>8
<1>2. ASSUME NEW c \in Channels, TryConnect(c)
      PROVE  IInv'
  BY <1>2 DEF TryConnect
<1>3. ASSUME NEW c \in Channels, Schedule(c)
      PROVE  IInv'
  <2> USE <1>3 DEF Schedule
  <2>1. c \in held /\ handle[c] # None /\ handle[c] \in Handles /\ cached'[c] = handle[c]
    OBVIOUS
  <2>2. handle[c] \in Open'
    BY <2>1 DEF Open
  <2>3. watch' = IF c \in sources THEN watch
                 ELSE IF watch[handle[c]] = None THEN [watch EXCEPT ![handle[c]] = c]
                 ELSE watch
    BY <2>1, <2>2 DEF AddSource, WatchAdd
  <2>4. sources' = sources \cup {c}
    BY DEF AddSource
  <2>5. TypeOK' /\ HandlesAreOwned' /\ CachesAreKnown' /\ ScheduledAreKnown'
    BY <2>1, <2>3, <2>4
  <2>6. WatchedIsScheduled'
    BY <2>1, <2>3, <2>4
  <2>7. QED
    BY <2>5, <2>6
<1>4. ASSUME NEW c \in Channels, Unschedule(c)
      PROVE  IInv'
  BY <1>4 DEF Unschedule, RemoveSource, WatchDel
<1>5. ASSUME NEW c \in Channels, Terminate(c)
      PROVE  IInv'
  BY <1>5 DEF Terminate, CloseHandle, WatchDel
<1>6. ASSUME NEW c \in Channels, CollectChannel(c)
      PROVE  IInv'
  BY <1>6 DEF CollectChannel, CloseHandle, WatchDel
<1>7. ASSUME NEW t \in Timers, NewTimer(t)
      PROVE  IInv'
  BY <1>7 DEF NewTimer
<1>8. ASSUME NEW t \in Timers, AddTimer(t)
      PROVE  IInv'
  BY <1>8 DEF AddTimer, NewHandle, AddSource, WatchAdd, Open
<1>9. ASSUME NEW t \in Timers, RemoveTimer(t)
      PROVE  IInv'
  BY <1>9 DEF RemoveTimer, RemoveSource, WatchDel
<1>10. ASSUME NEW t \in Timers, DropTimer(t)
      PROVE  IInv'
  BY <1>10 DEF DropTimer, CloseHandle, WatchDel
<1>11. ASSUME NEW s \in Sources, Wait(s)
      PROVE  IInv'
  BY <1>11 DEF Wait
<1>12. CASE OnAwoken
  BY <1>12 DEF OnAwoken
<1>13. CASE DestroyWaitSet
  BY <1>13 DEF DestroyWaitSet
<1>14. CASE UNCHANGED vars
  BY <1>14 DEF vars
<1>15. QED
  BY <1>1, <1>2, <1>3, <1>4, <1>5, <1>6, <1>7, <1>8, <1>9, <1>10, <1>11, <1>12,
     <1>13, <1>14
     DEF Next

\* No step of a tidy program takes a registration away or a number over.
LEMMA TidyStep ==
  ASSUME SourcesAssumption, TidyProgram, IInv, TidyInv, [Next]_vars
  PROVE  TidyInv'
<1> USE DEF SourcesAssumption, TidyProgram, IInv, TidyInv, TypeOK, HandlesAreOwned,
      CachesAreKnown, ScheduledAreKnown, ScheduledIsWatched, WatchedIsScheduled,
      ClosedNumbersAreFree, Sources
<1>1. ASSUME NEW c \in Channels, OpenChannel(c)
      PROVE  TidyInv'
  <2> USE <1>1 DEF OpenChannel
  <2>1. PICK h \in Handles \ Open : handle' = [handle EXCEPT ![c] = h]
    BY DEF NewHandle
  <2>2. c \notin sources /\ \A d \in Channels \cap sources : handle[d] # None
    BY DEF Tidy
  <2>3. QED
    BY <2>1, <2>2
<1>2. ASSUME NEW c \in Channels, TryConnect(c)
      PROVE  TidyInv'
  BY <1>2 DEF TryConnect
<1>3. ASSUME NEW c \in Channels, Schedule(c)
      PROVE  TidyInv'
  <2> USE <1>3 DEF Schedule
  <2>1. c \in held /\ handle[c] # None /\ handle[c] \in Handles /\ cached'[c] = handle[c]
    OBVIOUS
  <2>2. c \notin sources => watch[handle[c]] = None
    BY <2>1
  <2>3. handle[c] \in Open'
    BY <2>1 DEF Open
  <2>4. watch' = IF c \in sources THEN watch ELSE [watch EXCEPT ![handle[c]] = c]
    BY <2>1, <2>2, <2>3 DEF AddSource, WatchAdd
  <2>5. QED
    BY <2>1, <2>2, <2>4 DEF AddSource
<1>4. ASSUME NEW c \in Channels, Unschedule(c)
      PROVE  TidyInv'
  BY <1>4 DEF Unschedule, RemoveSource, WatchDel
<1>5. ASSUME NEW c \in Channels, Terminate(c)
      PROVE  TidyInv'
  BY <1>5 DEF Terminate, CloseHandle, WatchDel
<1>6. ASSUME NEW c \in Channels, CollectChannel(c)
      PROVE  TidyInv'
  BY <1>6 DEF CollectChannel, CloseHandle, WatchDel
<1>7. ASSUME NEW t \in Timers, NewTimer(t)
      PROVE  TidyInv'
  BY <1>7 DEF NewTimer
<1>8. ASSUME NEW t \in Timers, AddTimer(t)
      PROVE  TidyInv'
  BY <1>8 DEF AddTimer, Tidy, NewHandle, AddSource, WatchAdd, Open
<1>9. ASSUME NEW t \in Timers, RemoveTimer(t)
      PROVE  TidyInv'
  BY <1>9 DEF RemoveTimer, RemoveSource, WatchDel
<1>10. ASSUME NEW t \in Timers, DropTimer(t)
      PROVE  TidyInv'
  BY <1>10 DEF DropTimer, CloseHandle, WatchDel
<1>11. ASSUME NEW s \in Sources, Wait(s)
      PROVE  TidyInv'
  BY <1>11 DEF Wait
<1>12. CASE OnAwoken
  BY <1>12 DEF OnAwoken
<1>13. CASE DestroyWaitSet
  BY <1>13 DEF DestroyWaitSet
<1>14. CASE UNCHANGED vars
  BY <1>14 DEF vars
<1>15. QED
  BY <1>1, <1>2, <1>3, <1>4, <1>5, <1>6, <1>7, <1>8, <1>9, <1>10, <1>11, <1>12,
     <1>13, <1>14
     DEF Next

\* Every operation of WaitSet.cpp and Channel.cpp on the wait set keeps IInv.
THEOREM Invariance == Spec => []IInv
<1>1. Init => IInv
  BY IInvInit, SourcesAssumption
<1>2. IInv /\ [Next]_vars => IInv'
  BY IInvStep, SourcesAssumption
<1>3. QED
  BY <1>1, <1>2, PTL DEF Spec

\* The fields and the epoll set have the types of what they model.
THEOREM TypeCorrect == Spec => []TypeOK
<1>1. IInv => TypeOK
  BY DEF IInv
<1>2. QED
  BY <1>1, Invariance, PTL

\* wait() never returns a pointer to a source that left the wait set, whatever
\* the program closes, drops or unschedules, and when (WaitSet_Linux.cpp:43-52).
THEOREM WaitReturnsLiveSources == Spec => []WatchedIsScheduled
<1>1. IInv => WatchedIsScheduled
  BY DEF IInv
<1>2. QED
  BY <1>1, Invariance, PTL

\* A scheduled source keeps its registration while other channels and timers
\* are opened, closed and unscheduled (WaitSet.cpp:34-54).
THEOREM ScheduledStaysWatched ==
  ASSUME TidyProgram
  PROVE  Spec => []ScheduledIsWatched
<1>1. Init => TidyInv
  BY DEF Init, TidyInv, ClosedNumbersAreFree, ScheduledIsWatched
<1>2. IInv /\ TidyInv /\ [Next]_vars => TidyInv'
  BY TidyStep, SourcesAssumption
<1>3. TidyInv => ScheduledIsWatched
  BY DEF TidyInv
<1>4. QED
  BY <1>1, <1>2, <1>3, Invariance, PTL DEF Spec
=============================================================================
