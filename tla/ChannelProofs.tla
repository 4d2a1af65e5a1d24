---------------------------- MODULE ChannelProofs ----------------------------
(***************************************************************************)
(* Safety of Channel, for any threads, queue sizes and number of messages, *)
(* with processes killed at any point.                                     *)
(***************************************************************************)
EXTENDS Channel, SequenceTheorems, TLAPS

-----------------------------------------------------------------------------
(* The ends of threads. *)

\* Every thread works at one end, and each end is the other one's peer.
LEMMA EndsAndPeers ==
  ASSUME EndsAssumption
  PROVE  /\ \A t \in Threads : EndOf(t) \in Ends
         /\ \A e \in Ends : e \in Threads /\ EndOf(e) = e
         /\ \A e \in Ends : Peer(e) \in Ends /\ Peer(e) # e /\ Peer(Peer(e)) = e
         /\ \A e, f \in Ends : f # e => f = Peer(e)
BY DEF EndsAssumption, EndOf, Peer, Threads, Ends

-----------------------------------------------------------------------------
(* Types. *)

\* Where a thread has a message in its hand that it is sending.
InHand == {"w_lock", "send", "eagain", "poll", "asleep"}

MessageInHand ==
  \A t \in Threads : pc[t] \in InHand => message[t] \in Messages

Queues ==
  /\ inbox \in [Ends -> Seq(Messages)]
  /\ \A e \in Ends : Len(inbox[e]) <= Capacity
  /\ batch \in [Threads -> Seq(Messages)]
  /\ accepted \in [Ends -> Seq(Messages)]
  /\ delivered \in [Ends -> Seq(Messages)]

TInv == TypeOK /\ MessageInHand

LEMMA TInvInit ==
  ASSUME EndsAssumption, BoundsAssumption, Init
  PROVE  TInv
BY EndsAndPeers DEF EndsAssumption, BoundsAssumption, Init, TInv, TypeOK,
   MessageInHand, InHand, Messages, Points, UserPoints, Ends

\* One step for every action that changes a queue.
LEMMA QueuesStep ==
  ASSUME EndsAssumption, BoundsAssumption, TInv, [Next]_vars
  PROVE  Queues'
<1> USE EndsAndPeers DEF BoundsAssumption, TInv, TypeOK, Queues
<1>0. ASSUME NEW e \in Ends, NEW queue \in Seq(Messages), Len(queue) <= Capacity,
             inbox' = [inbox EXCEPT ![e] = queue]
      PROVE  inbox' \in [Ends -> Seq(Messages)] /\ \A f \in Ends : Len(inbox'[f]) <= Capacity
  BY <1>0
<1>1. ASSUME NEW t \in Threads, Sent(t) PROVE Queues'
  <2>1. PICK m \in Messages : m = message[t]
    BY <1>1 DEF Sent, Goto, MessageInHand, InHand
  <2>2. PICK e \in Ends : e = EndOf(t)
    OBVIOUS
  <2>3. /\ Append(inbox[Peer(e)], m) \in Seq(Messages)
        /\ Len(Append(inbox[Peer(e)], m)) = Len(inbox[Peer(e)]) + 1
        /\ Append(accepted[e], m) \in Seq(Messages)
        /\ Len(inbox[Peer(e)]) \in Nat
    BY <2>2, AppendProperties, LenProperties
  <2>4. /\ Len(inbox[Peer(e)]) < Capacity
        /\ inbox' = [inbox EXCEPT ![Peer(e)] = Append(@, m)]
        /\ accepted' = [accepted EXCEPT ![e] = Append(@, m)]
        /\ UNCHANGED <<batch, delivered>>
    BY <1>1, <2>1, <2>2 DEF Sent, readVars
  <2>5. Len(Append(inbox[Peer(e)], m)) <= Capacity
    BY <2>3, <2>4
  <2> QED
    BY <2>2, <2>3, <2>4, <2>5
<1>2. ASSUME NEW t \in Threads, RecvMessage(t) PROVE Queues'
  <2>1. PICK e \in Ends : e = EndOf(t)
    OBVIOUS
  <2>2. /\ inbox[e] # <<>>
        /\ batch' = [batch EXCEPT ![t] = Append(@, Head(inbox[e]))]
        /\ inbox' = [inbox EXCEPT ![e] = Tail(@)]
        /\ UNCHANGED <<accepted, delivered>>
    BY <1>2, <2>1 DEF RecvMessage, callerVars
  <2>3. /\ Head(inbox[e]) \in Messages
        /\ Tail(inbox[e]) \in Seq(Messages)
        /\ Len(Tail(inbox[e])) = Len(inbox[e]) - 1
        /\ Len(inbox[e]) \in Nat
    BY <2>2, HeadTailProperties, LenProperties
  <2>4. Append(batch[t], Head(inbox[e])) \in Seq(Messages)
    BY <2>3, AppendProperties
  <2>5. Len(Tail(inbox[e])) <= Capacity
    BY <2>3
  <2>6. inbox' \in [Ends -> Seq(Messages)] /\ \A f \in Ends : Len(inbox'[f]) <= Capacity
    BY <1>0, <2>2, <2>3, <2>5
  <2>7. batch' \in [Threads -> Seq(Messages)]
    BY <2>2, <2>4
  <2> QED
    BY <2>2, <2>6, <2>7
<1>3. ASSUME NEW t \in Threads, RecvZero(t) PROVE Queues'
  <2>1. PICK e \in Ends : e = EndOf(t)
    OBVIOUS
  <2>2. CASE UNCHANGED inbox
    BY <1>3, <2>2 DEF RecvZero, callerVars
  <2>3. CASE inbox[e] # <<>> /\ inbox' = [inbox EXCEPT ![e] = Tail(@)]
    <3>1. /\ Tail(inbox[e]) \in Seq(Messages)
          /\ Len(Tail(inbox[e])) = Len(inbox[e]) - 1
          /\ Len(inbox[e]) \in Nat
      BY <2>3, HeadTailProperties, LenProperties
    <3>2. Len(Tail(inbox[e])) <= Capacity
      BY <3>1
    <3>3. inbox' \in [Ends -> Seq(Messages)] /\ \A f \in Ends : Len(inbox'[f]) <= Capacity
      BY <1>0, <2>3, <3>1, <3>2
    <3> QED
      BY <1>3, <3>3 DEF RecvZero, callerVars
  <2> QED
    BY <1>3, <2>1, <2>2, <2>3 DEF RecvZero
<1>4. ASSUME NEW t \in Threads, Dispatch(t) PROVE Queues'
  <2>1. PICK e \in Ends : e = EndOf(t)
    OBVIOUS
  <2>2. /\ batch[t] # <<>>
        /\ batch' = [batch EXCEPT ![t] = Tail(@)]
        /\ delivered' = [delivered EXCEPT ![e] = Append(@, Head(batch[t]))]
        /\ UNCHANGED <<inbox, accepted>>
    BY <1>4, <2>1 DEF Dispatch, kernelVars
  <2>3. Head(batch[t]) \in Messages /\ Tail(batch[t]) \in Seq(Messages)
    BY <2>2, HeadTailProperties
  <2>4. Append(delivered[e], Head(batch[t])) \in Seq(Messages)
    BY <2>3, AppendProperties
  <2> QED
    BY <2>2, <2>3, <2>4
<1>5. ASSUME NEW e \in Ends, DropInbox(e), UNCHANGED <<accepted, delivered>>,
             batch' \in [Threads -> Seq(Messages)]
      PROVE  Queues'
  BY <1>5 DEF DropInbox
<1>6. ASSUME NEW e \in Ends, Die(e) PROVE Queues'
  <2>1. DropInbox(e) /\ UNCHANGED <<accepted, delivered>>
    BY <1>6 DEF Die, callerVars
  <2>2. batch' = [t \in Threads |-> IF EndOf(t) = e THEN <<>> ELSE batch[t]]
    BY <1>6 DEF Die
  <2>3. batch' \in [Threads -> Seq(Messages)]
    BY <2>2
  <2> QED
    BY <1>5, <2>1, <2>3
<1>7. ASSUME NEW t \in Threads, Close(t) \/ PollReturn(t) PROVE Queues'
  <2>1. /\ UNCHANGED <<batch, accepted, delivered>>
        /\ UNCHANGED inbox \/ DropInbox(EndOf(t))
    BY <1>7 DEF Close, PollReturn, callerVars, readVars
  <2>2. CASE UNCHANGED inbox
    BY <2>1, <2>2
  <2>3. CASE DropInbox(EndOf(t))
    BY <1>5, <2>1, <2>3
  <2> QED
    BY <2>1, <2>2, <2>3
<1>8. ASSUME UNCHANGED <<inbox, batch, accepted, delivered>> PROVE Queues'
  BY <1>8
<1>9. ASSUME NEW t \in Threads, SendCall(t) \/ TerminateCall(t) PROVE Queues'
  BY <1>8, <1>9 DEF SendCall, TerminateCall, kernelVars, readVars, callerVars
<1>10. ASSUME NEW t \in Threads, SendStep(t) PROVE Queues'
  BY <1>1, <1>7, <1>8, <1>10 DEF SendStep, WriteLock, SendWouldBlock, PollCall, SendFails,
     SendBroken, kernelVars, readVars, callerVars
<1>11. ASSUME NEW t \in Threads, ReadStep(t) PROVE Queues'
  BY <1>2, <1>3, <1>4, <1>8, <1>11 DEF ReadStep, ReadCall, ReadLock, RecvStops,
     CallbackReturn, DispatchDone, kernelVars, readVars, callerVars
<1>12. ASSUME NEW t \in Threads, TerminateStep(t) PROVE Queues'
  BY <1>6, <1>7, <1>8, <1>12 DEF TerminateStep, CloseFails, CloseCheck, ClearHandle,
     Notify, kernelVars, readVars, callerVars
<1> QED
  BY <1>6, <1>8, <1>9, <1>10, <1>11, <1>12 DEF Next, Crash, vars, kernelVars, readVars,
     callerVars, EndsAssumption, Threads

Flags ==
  /\ fd \in [Ends -> BOOLEAN]
  /\ reset \in [Ends -> BOOLEAN]
  /\ handle \in [Ends -> BOOLEAN]
  /\ connected \in [Ends -> BOOLEAN]
  /\ lock \in [Ends -> Threads \cup {Nobody}]
  /\ eof \in [Threads -> BOOLEAN]
  /\ notified \in [Ends -> Nat]

Control ==
  /\ pc \in [Threads -> Points]
  /\ back \in [Threads -> UserPoints]
  /\ message \in [Threads -> 0 .. MaxSends]
  /\ sends \in [Ends -> 0 .. MaxSends]
  /\ MessageInHand

\* One step for every action that changes a flag.
LEMMA FlagsStep ==
  ASSUME EndsAssumption, Flags, [Next]_vars
  PROVE  Flags'
<1> USE EndsAndPeers DEF Flags, kernelVars, fieldVars, readVars, sendVars, callerVars
<1>a. ASSUME NEW e \in Ends, DropInbox(e) PROVE reset' \in [Ends -> BOOLEAN]
  BY <1>a DEF DropInbox
<1>b. ASSUME NEW t \in Threads, SendFails(t) \/ RecvStops(t)
      PROVE  reset' \in [Ends -> BOOLEAN]
  <2>1. PICK value \in BOOLEAN : reset' = [reset EXCEPT ![EndOf(t)] = value]
    BY <1>b, Zenon DEF SendFails, RecvStops
  <2> QED
    BY <2>1
<1>1. ASSUME NEW t \in Threads, SendStep(t) PROVE Flags'
  <2>1. CASE SendWouldBlock(t) \/ PollCall(t)
    <3>1. UNCHANGED <<kernelVars, fieldVars, lock, readVars, callerVars>>
      BY <2>1, Zenon DEF SendWouldBlock, PollCall
    <3> QED
      BY <3>1
  <2>2. CASE Sent(t)
    BY <2>2 DEF Sent, Release
  <2>3. CASE SendBroken(t)
    BY <2>3 DEF SendBroken, Release
  <2>4. CASE SendFails(t)
    BY <1>b, <2>4 DEF SendFails, Release
  <2>5. CASE PollReturn(t)
    BY <1>a, <2>5 DEF PollReturn
  <2>6. CASE WriteLock(t)
    BY <2>6 DEF WriteLock, Acquire
  <2> QED
    BY <1>1, <2>1, <2>2, <2>3, <2>4, <2>5, <2>6 DEF SendStep
<1>2. ASSUME NEW t \in Threads, ReadStep(t) PROVE Flags'
  <2>1. CASE RecvStops(t)
    BY <1>b, <2>1 DEF RecvStops, Release
  <2>2. CASE RecvZero(t)
    BY <2>2 DEF RecvZero, Release
  <2>3. CASE ~RecvStops(t) /\ ~RecvZero(t)
    BY <1>2, <2>3 DEF ReadStep, ReadCall, ReadLock, Acquire, RecvMessage, Dispatch,
       CallbackReturn, DispatchDone
  <2> QED
    BY <2>1, <2>2, <2>3
<1>5. ASSUME NEW e \in Ends, Die(e) PROVE Flags'
  BY <1>5 DEF Die, DropInbox
<1>3. ASSUME NEW t \in Threads, TerminateStep(t) PROVE Flags'
  <2>1. CASE CloseCheck(t)
    BY <2>1 DEF CloseCheck
  <2>2. CASE Close(t)
    BY <1>a, <2>2 DEF Close
  <2>3. CASE ClearHandle(t)
    BY <2>3 DEF ClearHandle
  <2>4. CASE Notify(t)
    BY <2>4 DEF Notify
  <2>5. CASE CloseFails(t)
    BY <1>5, <2>5 DEF CloseFails
  <2> QED
    BY <1>3, <2>1, <2>2, <2>3, <2>4, <2>5 DEF TerminateStep
<1>4. ASSUME NEW t \in Threads, SendCall(t) \/ TerminateCall(t) PROVE Flags'
  BY <1>4 DEF SendCall, TerminateCall
<1>6. ASSUME UNCHANGED vars PROVE Flags'
  BY <1>6 DEF vars
<1> QED
  BY <1>1, <1>2, <1>3, <1>4, <1>5, <1>6 DEF Next, Crash, EndsAssumption, Threads

\* One step for every action, as each moves a thread.
LEMMA ControlStep ==
  ASSUME EndsAssumption, BoundsAssumption, Control, [Next]_vars
  PROVE  Control'
<1> USE EndsAndPeers DEF BoundsAssumption, Control, MessageInHand, InHand, Messages,
      Goto, sendVars
<1>1. ASSUME NEW t \in Threads, NEW to \in Points, pc' = [pc EXCEPT ![t] = to],
             to \in InHand => pc[t] \in InHand, UNCHANGED <<message, sends>>,
             back' = back \/ \E from \in UserPoints : back' = [back EXCEPT ![t] = from]
      PROVE  Control'
  BY <1>1
<1> DEFINE Move(t, to) ==
      /\ pc' = [pc EXCEPT ![t] = to]
      /\ UNCHANGED <<message, sends>>
      /\ back' = back \/ \E from \in UserPoints : back' = [back EXCEPT ![t] = from]
<1>2. UserPoints \subseteq Points /\ \A t \in Threads : pc[t] \in Points /\ back[t] \in UserPoints
  BY DEF Points
<1>3. ASSUME NEW t \in Threads, SendCall(t) PROVE Control'
  <2>1. sends[EndOf(t)] + 1 \in Messages /\ Messages \subseteq 0 .. MaxSends
    BY <1>3 DEF SendCall
  <2>2. "w_lock" \in Points
    BY DEF Points
  <2> QED
    BY <1>3, <2>1, <2>2 DEF SendCall
<1>4. ASSUME NEW t \in Threads, SendStep(t) PROVE Control'
  <2>1. PICK to \in {"send", "eagain", "poll", "asleep", "check", back[t]} : Move(t, to)
    BY <1>4 DEF SendStep, WriteLock, Sent, SendWouldBlock, PollCall,
       SendFails, SendBroken, PollReturn
  <2>2. pc[t] \in InHand
    BY <1>4 DEF SendStep, WriteLock, Sent, SendWouldBlock, PollCall,
       SendFails, SendBroken, PollReturn
  <2> QED
    BY <1>1, <1>2, <2>1, <2>2 DEF Points, UserPoints
<1>5. ASSUME NEW t \in Threads, ReadStep(t), ~RecvMessage(t) PROVE Control'
  <2>1. PICK to \in {"r_lock", "recv", "dispatch", "callback", "check", "idle"} : Move(t, to)
    BY <1>5 DEF ReadStep, ReadCall, ReadLock, RecvZero, RecvStops, Dispatch,
       CallbackReturn, DispatchDone, UserPoints
  <2> QED
    BY <1>1, <2>1 DEF Points, UserPoints
<1>6. ASSUME NEW t \in Threads, TerminateCall(t) \/ TerminateStep(t), ~CloseFails(t)
      PROVE  Control'
  <2>1. PICK to \in {"check", "close", "clear", "notify", back[t]} : Move(t, to)
    BY <1>6 DEF TerminateCall, TerminateStep, CloseCheck, Close, ClearHandle, Notify
  <2> QED
    BY <1>1, <1>2, <2>1 DEF Points, UserPoints
<1>7. ASSUME NEW e \in Ends, Die(e) PROVE Control'
  BY <1>7 DEF Die, Points
<1>8. ASSUME UNCHANGED <<pc, back, message, sends>> PROVE Control'
  BY <1>8
<1> QED
  BY <1>3, <1>4, <1>5, <1>6, <1>7, <1>8
     DEF Next, Crash, CloseFails, ReadStep, RecvMessage, vars, EndsAssumption, Threads

\* One step for every action.
LEMMA TInvStep ==
  ASSUME EndsAssumption, BoundsAssumption, TInv, [Next]_vars
  PROVE  TInv'
<1>1. Flags /\ Control
  BY DEF TInv, TypeOK, Flags, Control
<1>2. Queues' /\ Flags' /\ Control'
  BY <1>1, QueuesStep, FlagsStep, ControlStep
<1> QED
  BY <1>2 DEF TInv, TypeOK, Queues, Flags, Control

\* A queue never holds more packets than the socket buffer, nor a thread
\* anything but a message of its peer.
THEOREM TypeCorrect ==
  ASSUME EndsAssumption, BoundsAssumption
  PROVE  Spec => []TypeOK
<1>1. Init => TInv
  BY TInvInit
<1>2. TInv /\ [Next]_vars => TInv'
  BY TInvStep
<1>3. TInv => TypeOK
  BY DEF TInv
<1> QED
  BY <1>1, <1>2, <1>3, PTL DEF Spec

-----------------------------------------------------------------------------
(* Socket::_lock. *)

\* Where a thread is between the AutoLock of ReadMessages() or WriteMessage()
\* and the end of its scope.
Inside == {"recv", "send", "eagain", "poll", "asleep"}

\* The lock of an end is held by the thread that is inside, and by no other.
LockIsHeldInside ==
  /\ \A t \in Threads : pc[t] \in Inside <=> lock[EndOf(t)] = t
  /\ \A e \in Ends : lock[e] # Nobody => EndOf(lock[e]) = e

OneInside ==
  \A t, u \in Threads :
    pc[t] \in Inside /\ pc[u] \in Inside /\ EndOf(t) = EndOf(u) => t = u

\* One step for every action that takes or releases the lock.
LEMMA LockStep ==
  ASSUME EndsAssumption, TypeOK, LockIsHeldInside, [Next]_vars
  PROVE  LockIsHeldInside'
<1> USE EndsAndPeers DEF LockIsHeldInside, Inside, Goto, kernelVars, fieldVars, readVars,
      sendVars, callerVars
<1>a. /\ pc \in [Threads -> Points] /\ lock \in [Ends -> Threads \cup {Nobody}]
      /\ \A t \in Threads : back[t] \notin Inside /\ t # Nobody
  BY DEF TypeOK, UserPoints, EndsAssumption
<1>1. ASSUME NEW t \in Threads, NEW to, pc' = [pc EXCEPT ![t] = to], UNCHANGED lock,
             pc[t] \in Inside <=> to \in Inside
      PROVE  LockIsHeldInside'
  BY <1>a, <1>1
<1>2. ASSUME NEW t \in Threads, NEW to \in Inside, pc' = [pc EXCEPT ![t] = to],
             Acquire(t)
      PROVE  LockIsHeldInside'
  BY <1>a, <1>2 DEF Acquire
<1>3. ASSUME NEW t \in Threads, NEW to, to \notin Inside, pc' = [pc EXCEPT ![t] = to],
             pc[t] \in Inside, Release(t)
      PROVE  LockIsHeldInside'
  BY <1>a, <1>3 DEF Release
<1>4. ASSUME NEW e \in Ends, Die(e) PROVE LockIsHeldInside'
  <2>1. /\ lock' = [lock EXCEPT ![e] = Nobody]
        /\ pc' = [t \in Threads |-> IF EndOf(t) = e THEN "dead" ELSE pc[t]]
    BY <1>4 DEF Die
  <2> QED
    BY <1>a, <2>1
<1>5. ASSUME UNCHANGED <<pc, lock>> PROVE LockIsHeldInside'
  BY <1>5
<1>6. ASSUME NEW t \in Threads, SendCall(t) \/ TerminateCall(t) PROVE LockIsHeldInside'
  BY <1>1, <1>6 DEF SendCall, TerminateCall, UserPoints
<1>7. ASSUME NEW t \in Threads, SendStep(t) PROVE LockIsHeldInside'
  BY <1>a, <1>1, <1>2, <1>3, <1>7 DEF SendStep, WriteLock, Sent, SendWouldBlock,
     PollCall, SendFails, SendBroken, PollReturn
<1>8. ASSUME NEW t \in Threads, ReadStep(t) PROVE LockIsHeldInside'
  BY <1>a, <1>1, <1>2, <1>3, <1>5, <1>8 DEF ReadStep, ReadCall, ReadLock, RecvMessage,
     RecvZero, RecvStops, Dispatch, CallbackReturn, DispatchDone
<1>9. ASSUME NEW t \in Threads, TerminateStep(t) PROVE LockIsHeldInside'
  BY <1>a, <1>1, <1>4, <1>9 DEF TerminateStep, CloseFails, CloseCheck, Close, ClearHandle,
     Notify
<1> QED
  BY <1>4, <1>5, <1>6, <1>7, <1>8, <1>9 DEF Next, Crash, vars, EndsAssumption, Threads

\* ReadMessages() receives into the one _buffer and _controlBuffer of the
\* socket and copies messages out of them: no other thread of the end reads or
\* writes the socket meanwhile, not even in a second looper, and on every way
\* out, a killed process included, the lock is free again.
THEOREM OneThreadInTheSocket ==
  ASSUME EndsAssumption, BoundsAssumption
  PROVE  Spec => [](LockIsHeldInside /\ OneInside)
<1>1. Init => TInv /\ LockIsHeldInside
  BY TInvInit, EndsAndPeers DEF Init, LockIsHeldInside, Inside, EndsAssumption
<1>2. TInv /\ LockIsHeldInside /\ [Next]_vars => TInv' /\ LockIsHeldInside'
  BY TInvStep, LockStep DEF TInv
<1>3. LockIsHeldInside => OneInside
  BY DEF LockIsHeldInside, OneInside
<1> QED
  BY <1>1, <1>2, <1>3, PTL DEF Spec

-----------------------------------------------------------------------------
(* Closing. *)

\* Who has closed the descriptor is alone on the way to the notification.
ClosedOnce ==
  /\ \A e \in Ends : fd[e] => notified[e] = 0
  /\ \A t \in Threads : pc[t] \in {"clear", "notify"} =>
       ~fd[EndOf(t)] /\ notified[EndOf(t)] = 0
  /\ \A t \in Threads : pc[t] = "notify" => ~handle[EndOf(t)]
  /\ \A t, u \in Threads :
       pc[t] \in {"clear", "notify"} /\ pc[u] \in {"clear", "notify"} /\ EndOf(t) = EndOf(u)
         => t = u
  /\ NotifiedOnce

\* One step for every action on the way, and one for all others.
LEMMA ClosedOnceStep ==
  ASSUME EndsAssumption, TypeOK, ClosedOnce, [Next]_vars
  PROVE  ClosedOnce'
<1> USE EndsAndPeers DEF ClosedOnce, NotifiedOnce, Goto, kernelVars, fieldVars, readVars,
      sendVars, callerVars
<1>a. /\ pc \in [Threads -> Points]
      /\ \A t \in Threads : back[t] \notin {"clear", "notify"}
      /\ fd \in [Ends -> BOOLEAN] /\ handle \in [Ends -> BOOLEAN]
      /\ notified \in [Ends -> Nat]
  BY DEF TypeOK, UserPoints
<1> HIDE DEF TypeOK
<1>1. ASSUME NEW t \in Threads, NEW to, to \notin {"clear", "notify"},
             pc' = [pc EXCEPT ![t] = to], UNCHANGED <<fd, handle, notified>>
      PROVE  ClosedOnce'
  BY <1>a, <1>1
<1>2. ASSUME NEW t \in Threads, Close(t) PROVE ClosedOnce'
  BY <1>a, <1>2 DEF Close
<1>3. ASSUME NEW t \in Threads, ClearHandle(t) PROVE ClosedOnce'
  BY <1>a, <1>3 DEF ClearHandle
<1>4. ASSUME NEW t \in Threads, Notify(t) PROVE ClosedOnce'
  BY <1>a, <1>4 DEF Notify
<1>5. ASSUME NEW e \in Ends, Die(e) PROVE ClosedOnce'
  BY <1>a, <1>5 DEF Die
<1>6. ASSUME UNCHANGED <<pc, fd, handle, notified>> PROVE ClosedOnce'
  BY <1>6
<1>7. ASSUME NEW t \in Threads, SendCall(t) \/ TerminateCall(t) \/ CloseCheck(t)
      PROVE  ClosedOnce'
  BY <1>a, <1>1, <1>7 DEF SendCall, TerminateCall, CloseCheck
<1>8. ASSUME NEW t \in Threads, SendStep(t) PROVE ClosedOnce'
  BY <1>a, <1>1, <1>8 DEF SendStep, WriteLock, Sent, SendWouldBlock, PollCall,
     SendFails, SendBroken, PollReturn
<1>9. ASSUME NEW t \in Threads, ReadStep(t) PROVE ClosedOnce'
  BY <1>a, <1>1, <1>6, <1>9 DEF ReadStep, ReadCall, ReadLock, RecvMessage, RecvZero,
     RecvStops, Dispatch, CallbackReturn, DispatchDone
<1> QED
  BY <1>2, <1>3, <1>4, <1>5, <1>6, <1>7, <1>8, <1>9
     DEF Next, Crash, TerminateStep, CloseFails, vars, EndsAssumption, Threads

\* However many threads terminate an end, by a call, a failed send or a failed
\* read, its termination callback runs once, after the descriptor is closed.
THEOREM OneNotification ==
  ASSUME EndsAssumption, BoundsAssumption
  PROVE  Spec => []NotifiedOnce
<1>1. Init => TInv /\ ClosedOnce
  BY TInvInit, EndsAndPeers DEF Init, ClosedOnce, NotifiedOnce
<1>2. TInv /\ ClosedOnce /\ [Next]_vars => TInv' /\ ClosedOnce'
  BY TInvStep, ClosedOnceStep DEF TInv
<1>3. ClosedOnce => NotifiedOnce
  BY DEF ClosedOnce
<1> QED
  BY <1>1, <1>2, <1>3, PTL DEF Spec

-----------------------------------------------------------------------------
(* Sequences. *)

\* A message that is sent goes to the end.
LEMMA AppendAtEnd ==
  ASSUME NEW S, NEW d \in Seq(S), NEW b \in Seq(S), NEW i \in Seq(S), NEW m \in S
  PROVE  d \o b \o Append(i, m) = Append(d \o b \o i, m)
<1>1. /\ d \o b \in Seq(S) /\ d \o b \o i \in Seq(S)
      /\ <<m>> \in Seq(S)
  BY ConcatProperties
<1> QED
  BY <1>1, AppendIsConcat, ConcatAssociative

\* The first packet of the queue becomes the last message of the batch.
LEMMA MoveToBatch ==
  ASSUME NEW d \in Seq(Messages), NEW b \in Seq(Messages), NEW i \in Seq(Messages),
         i # <<>>
  PROVE  d \o Append(b, Head(i)) \o Tail(i) = d \o b \o i
<1>1. /\ Head(i) \in Messages /\ Tail(i) \in Seq(Messages) /\ <<Head(i)>> \in Seq(Messages)
      /\ i = <<Head(i)>> \o Tail(i)
  OBVIOUS
<1>2. Append(b, Head(i)) = b \o <<Head(i)>>
  BY <1>1, AppendIsConcat
<1>3. d \o (b \o <<Head(i)>>) = (d \o b) \o <<Head(i)>>
  BY <1>1, ConcatAssociative
<1>4. d \o b \in Seq(Messages)
  BY ConcatProperties
<1>5. ((d \o b) \o <<Head(i)>>) \o Tail(i) = (d \o b) \o (<<Head(i)>> \o Tail(i))
  BY <1>1, <1>4, ConcatAssociative
<1> QED
  BY <1>1, <1>2, <1>3, <1>5

\* The first message of the batch becomes the last one that was delivered.
LEMMA MoveToCallback ==
  ASSUME NEW d \in Seq(Messages), NEW b \in Seq(Messages), b # <<>>
  PROVE  /\ Append(d, Head(b)) \o Tail(b) = d \o b
         /\ \A r \in Seq(Messages) : /\ Len(d) < Len(d \o b \o r)
                                   /\ (d \o b \o r)[Len(d) + 1] = Head(b)
<1>1. Append(d, Head(b)) \o Tail(b) = <<>> \o d \o b
  BY MoveToBatch, EmptySeq, ConcatEmptySeq, ConcatProperties
<1> QED
  OBVIOUS

-----------------------------------------------------------------------------
(* What becomes of the messages. *)

\* With a second loop for a channel PipeIsSafe is false
\* (MCChannelTwoLoopers.cfg).
OneLoop == MoreLoops = {}

\* No packet without data was sent to e: one would end the channel before what
\* follows it is read (MCChannelEmpty.cfg).
DataOnly(e) == \A i \in DOMAIN accepted[Peer(e)] : accepted[Peer(e)][i] \notin Empty

\* A read that ended the channel was the last one: until the descriptor is
\* closed, the loop thread dispatches its batch, calls back and terminates.
NoReadAfterEof(e) ==
  /\ fd[e] => handle[e]
  /\ eof[e] /\ fd[e] =>
       /\ pc[e] \in {"dispatch", "callback", "check", "close"} \cup InHand
       /\ pc[e] \in InHand => back[e] = "callback"

\* While end e reads, what its peer has sent is what e has.
Complete(e) ==
  fd[e] /\ ~eof[e] => accepted[Peer(e)] = delivered[e] \o batch[e] \o inbox[e]

\* A read that ended the channel had fetched everything.
Drained(e) ==
  DataOnly(e) /\ eof[e] =>
    /\ Gone(Peer(e))
    /\ inbox[e] = <<>>
    /\ accepted[Peer(e)] = delivered[e] \o batch[e]

\* What e has is the beginning of what its peer has sent, always.
InOrder(e) ==
  \E rest \in Seq(Messages) : accepted[Peer(e)] = delivered[e] \o batch[e] \o rest

IInv ==
  /\ TInv /\ ClosedOnce
  /\ \A e \in Ends : NoReadAfterEof(e) /\ Complete(e) /\ Drained(e) /\ InOrder(e)

LEMMA IInvInit ==
  ASSUME EndsAssumption, BoundsAssumption, Init
  PROVE  IInv
<1>1. <<>> \in Seq(Messages) /\ <<>> \o <<>> \o <<>> = <<>>
  BY EmptySeq, ConcatEmptySeq
<1>2. ClosedOnce /\ \A e \in Ends : NoReadAfterEof(e)
  BY EndsAndPeers DEF Init, ClosedOnce, NotifiedOnce, NoReadAfterEof
<1>3. \A e \in Ends : Complete(e) /\ Drained(e) /\ InOrder(e)
  BY <1>1, EndsAndPeers DEF Init, Complete, Drained, InOrder
<1> QED
  BY <1>2, <1>3, TInvInit DEF IInv

\* A socket that is released stays so.
LEMMA GoneStays ==
  ASSUME EndsAssumption, TypeOK, NEW e \in Ends, Gone(e), [Next]_vars
  PROVE  Gone(e)'
<1> USE EndsAndPeers DEF Gone, Goto, kernelVars
<1>a. /\ pc \in [Threads -> Points] /\ fd \in [Ends -> BOOLEAN]
      /\ \A t \in Threads : back[t] # "poll"
  BY DEF TypeOK, UserPoints
<1>1. ASSUME NEW t \in Threads, NEW to, to = "poll" => fd[EndOf(t)],
             pc' = [pc EXCEPT ![t] = to], UNCHANGED fd
      PROVE  Gone(e)'
  BY <1>a, <1>1
<1>2. ASSUME NEW t \in Threads, Close(t) PROVE Gone(e)'
  BY <1>a, <1>2 DEF Close
<1>3. ASSUME NEW f \in Ends, Die(f) PROVE Gone(e)'
  BY <1>a, <1>3 DEF Die
<1>4. ASSUME UNCHANGED <<pc, fd>> PROVE Gone(e)'
  BY <1>4
<1>5. ASSUME NEW t \in Threads, SendCall(t) \/ TerminateCall(t) PROVE Gone(e)'
  BY <1>a, <1>1, <1>5 DEF SendCall, TerminateCall
<1>6. ASSUME NEW t \in Threads, SendStep(t) PROVE Gone(e)'
  BY <1>a, <1>1, <1>6 DEF SendStep, WriteLock, Sent, SendWouldBlock, PollCall,
     SendFails, SendBroken, PollReturn, BadHandle
<1>7. ASSUME NEW t \in Threads, ReadStep(t) PROVE Gone(e)'
  BY <1>a, <1>1, <1>4, <1>7 DEF ReadStep, ReadCall, ReadLock, RecvMessage, RecvZero,
     RecvStops, Dispatch, CallbackReturn, DispatchDone
<1>8. ASSUME NEW t \in Threads, TerminateStep(t) PROVE Gone(e)'
  BY <1>a, <1>1, <1>2, <1>3, <1>8 DEF TerminateStep, CloseFails, CloseCheck,
     ClearHandle, Notify
<1> QED
  BY <1>3, <1>4, <1>5, <1>6, <1>7, <1>8 DEF Next, Crash, vars, EndsAssumption, Threads

\* One step for every action of the loop thread, and for those that close.
LEMMA NoReadAfterEofStep ==
  ASSUME EndsAssumption, OneLoop, TypeOK, ClosedOnce, [Next]_vars,
         NEW e \in Ends, NoReadAfterEof(e)
  PROVE  NoReadAfterEof(e)'
<1> USE EndsAndPeers DEF NoReadAfterEof, InHand, Goto, BadHandle, kernelVars,
   fieldVars, readVars, sendVars, callerVars
<1>a. /\ pc \in [Threads -> Points] /\ eof \in [Threads -> BOOLEAN]
      /\ back \in [Threads -> UserPoints] /\ e \in Threads /\ EndOf(e) = e
      /\ fd \in [Ends -> BOOLEAN] /\ handle \in [Ends -> BOOLEAN]
  BY DEF TypeOK
<1>1. ASSUME pc'[e] = pc[e], back'[e] = back[e], eof'[e] = eof[e], fd'[e] => fd[e],
             fd[e] /\ ~handle'[e] => ~handle[e] \/ ~fd'[e]
      PROVE  NoReadAfterEof(e)'
  BY <1>a, <1>1
<1>2. ASSUME NEW t \in Threads, t # e, NEW to, NEW from, NEW value,
             pc' = pc \/ pc' = [pc EXCEPT ![t] = to],
             back' = back \/ back' = [back EXCEPT ![t] = from],
             eof' = eof \/ eof' = [eof EXCEPT ![t] = value],
             fd'[e] => fd[e], fd[e] => handle'[e] = handle[e]
      PROVE  NoReadAfterEof(e)'
  BY <1>a, <1>1, <1>2
<1>3. ASSUME NEW t \in Threads, Close(t) PROVE NoReadAfterEof(e)'
  <2>1. /\ fd' = [fd EXCEPT ![EndOf(t)] = FALSE] /\ UNCHANGED <<handle, back, eof>>
        /\ pc' = [pc EXCEPT ![t] = "clear"]
    BY <1>3 DEF Close
  <2>2. CASE EndOf(t) = e
    BY <1>a, <2>1, <2>2
  <2>3. CASE EndOf(t) # e
    BY <1>a, <1>2, <2>1, <2>3
  <2> QED
    BY <2>2, <2>3
<1>4. ASSUME NEW t \in Threads, ClearHandle(t) PROVE NoReadAfterEof(e)'
  <2>1. /\ handle' = [handle EXCEPT ![EndOf(t)] = FALSE] /\ UNCHANGED <<fd, back, eof>>
        /\ pc' = [pc EXCEPT ![t] = "notify"]
        /\ ~fd[EndOf(t)]
    BY <1>4 DEF ClearHandle, ClosedOnce
  <2>2. CASE EndOf(t) = e
    BY <1>a, <2>1, <2>2
  <2>3. CASE EndOf(t) # e
    BY <1>a, <1>2, <2>1, <2>3
  <2> QED
    BY <2>2, <2>3
<1>5. ASSUME NEW f \in Ends, Die(f) PROVE NoReadAfterEof(e)'
  <2>1. /\ fd' = [fd EXCEPT ![f] = FALSE] /\ handle' = [handle EXCEPT ![f] = FALSE]
        /\ pc'[e] = (IF e = f THEN "dead" ELSE pc[e]) /\ UNCHANGED back
        /\ eof'[e] = (e # f /\ eof[e])
    BY <1>5, <1>a DEF Die
  <2>2. CASE f = e
    BY <1>a, <2>1, <2>2
  <2>3. CASE f # e
    BY <1>a, <1>1, <2>1, <2>3
  <2> QED
    BY <2>2, <2>3
<1>6. ASSUME NEW t \in Threads, SendCall(t) \/ TerminateCall(t) PROVE NoReadAfterEof(e)'
  <2>1. CASE t = e
    BY <1>a, <1>6, <2>1 DEF SendCall, TerminateCall, UserPoints
  <2>2. CASE t # e
    BY <1>2, <1>6, <2>2 DEF SendCall, TerminateCall
  <2> QED
    BY <2>1, <2>2
<1>7. ASSUME NEW t \in Threads, SendStep(t) PROVE NoReadAfterEof(e)'
  <2>1. CASE t = e
    BY <1>a, <1>7, <2>1 DEF SendStep, WriteLock, Sent, SendWouldBlock, PollCall, SendFails,
       SendBroken, PollReturn
  <2>2. CASE t # e
    BY <1>2, <1>7, <2>2 DEF SendStep, WriteLock, Sent, SendWouldBlock, PollCall, SendFails,
       SendBroken, PollReturn
  <2> QED
    BY <2>1, <2>2
<1>8. ASSUME NEW t \in Threads, ReadStep(t) PROVE NoReadAfterEof(e)'
  <2>1. CASE t = e
    BY <1>a, <1>8, <2>1 DEF ReadStep, ReadCall, ReadLock, RecvMessage, RecvZero, RecvStops,
       Dispatch, CallbackReturn, DispatchDone
  <2>2. CASE t # e
    BY <1>2, <1>8, <2>2 DEF ReadStep, ReadCall, ReadLock, RecvMessage, RecvZero, RecvStops,
       Dispatch, CallbackReturn, DispatchDone
  <2> QED
    BY <2>1, <2>2
<1>9. ASSUME NEW t \in Threads, CloseCheck(t) \/ Notify(t) PROVE NoReadAfterEof(e)'
  <2>1. CASE t = e
    BY <1>a, <1>9, <2>1 DEF CloseCheck, Notify
  <2>2. CASE t # e
    BY <1>2, <1>9, <2>2 DEF CloseCheck, Notify
  <2> QED
    BY <2>1, <2>2
<1>10. ASSUME UNCHANGED vars PROVE NoReadAfterEof(e)'
  BY <1>1, <1>10 DEF vars
<1> QED
  BY <1>3, <1>4, <1>5, <1>6, <1>7, <1>8, <1>9, <1>10
     DEF Next, Crash, TerminateStep, CloseFails, EndsAssumption, Threads

\* The steps that move messages, one by one, and all others.
LEMMA MessagesStep ==
  ASSUME EndsAssumption, BoundsAssumption, OneLoop, IInv, [Next]_vars, NEW e \in Ends
  PROVE  Complete(e)' /\ Drained(e)' /\ InOrder(e)'
<1> DEFINE Goal == Complete(e)' /\ Drained(e)' /\ InOrder(e)'
<1>a. /\ TypeOK /\ TInv /\ Queues
      /\ NoReadAfterEof(e) /\ Complete(e) /\ Drained(e) /\ InOrder(e)
  BY DEF IInv, TInv, TypeOK, Queues
<1>1. ASSUME accepted'[Peer(e)] = accepted[Peer(e)], delivered'[e] = delivered[e],
             batch'[e] = batch[e], eof'[e] = eof[e],
             \/ inbox'[e] = inbox[e] /\ (fd'[e] => fd[e])
             \/ inbox'[e] = <<>> /\ ~fd'[e]
      PROVE  Goal
  BY <1>1, <1>a, EndsAndPeers, GoneStays DEF Complete, Drained, InOrder, DataOnly
<1>c. /\ inbox \in [Ends -> Seq(Messages)] /\ batch \in [Threads -> Seq(Messages)]
      /\ accepted \in [Ends -> Seq(Messages)] /\ delivered \in [Ends -> Seq(Messages)]
      /\ fd \in [Ends -> BOOLEAN] /\ eof \in [Threads -> BOOLEAN]
      /\ Ends \subseteq Threads
  BY <1>a, EndsAndPeers DEF TypeOK
<1>b. PICK a, d, b, i \in Seq(Messages) :
        a = accepted[Peer(e)] /\ d = delivered[e] /\ b = batch[e] /\ i = inbox[e]
  BY <1>c, EndsAndPeers
<1>d. PICK rest \in Seq(Messages) : a = d \o b \o rest
  BY <1>a, <1>b DEF InOrder
<1>e. /\ fd[e] /\ ~eof[e] => a = d \o b \o i
      /\ DataOnly(e) /\ eof[e] => Gone(Peer(e)) /\ i = <<>> /\ a = d \o b
  BY <1>a, <1>b DEF Complete, Drained
<1>2. ASSUME NEW t \in Threads, Sent(t) PROVE Goal
  <2>1. /\ inbox' = [inbox EXCEPT ![Peer(EndOf(t))] = Append(@, message[t])]
        /\ accepted' = [accepted EXCEPT ![EndOf(t)] = Append(@, message[t])]
        /\ UNCHANGED <<fd, batch, eof, delivered>>
        /\ fd[EndOf(t)]
        /\ message[t] \in Messages
    BY <1>2, <1>a DEF Sent, BadHandle, readVars, TInv, MessageInHand, InHand, Goto
  <2>2. CASE EndOf(t) = e
    BY <1>1, <1>c, <2>1, <2>2, EndsAndPeers
  <2>3. CASE EndOf(t) = Peer(e)
    <3>1. PICK m \in Messages : m = message[t]
      BY <2>1
    <3>0. EndOf(t) \in Ends /\ Peer(EndOf(t)) = e
      BY <2>3, EndsAndPeers
    <3>2. inbox'[e] = Append(i, m) /\ accepted'[Peer(e)] = Append(a, m)
      <4>1. inbox'[e] = Append(inbox[e], m)
        BY <1>c, <2>1, <3>0, <3>1
      <4>2. accepted'[EndOf(t)] = Append(accepted[EndOf(t)], m)
        BY <1>c, <2>1, <3>0, <3>1
      <4> QED
        BY <1>b, <2>3, <4>1, <4>2
    <3>3. /\ delivered'[e] = d /\ batch'[e] = b /\ fd'[e] = fd[e]
          /\ eof'[e] = eof[e] /\ (DataOnly(e) => ~eof[e])
      BY <1>b, <1>e, <2>1, <2>3 DEF Gone
    <3>4. d \o b \o Append(i, m) = Append(d \o b \o i, m)
      BY AppendAtEnd
    <3>5. d \o b \o Append(rest, m) = Append(d \o b \o rest, m)
      BY AppendAtEnd
    <3>6. Append(a, m) = d \o b \o Append(rest, m)
      BY <1>d, <3>5
    <3>7. Append(rest, m) \in Seq(Messages)
      BY AppendProperties
    <3>8. DataOnly(e)' => DataOnly(e)
      <4>1. /\ DOMAIN Append(a, m) = 1 .. Len(a) + 1 /\ DOMAIN a = 1 .. Len(a)
            /\ \A k \in 1 .. Len(a) : Append(a, m)[k] = a[k] /\ k \in 1 .. Len(a) + 1
        BY AppendProperties, LenProperties
      <4> QED
        BY <1>b, <3>2, <4>1 DEF DataOnly
    <3> QED
      BY <1>e, <3>2, <3>3, <3>4, <3>6, <3>7, <3>8 DEF Complete, Drained, InOrder
  <2> QED
    BY <2>2, <2>3, EndsAndPeers
<1>3. ASSUME NEW t \in Ends, RecvMessage(t) PROVE Goal
  <2>1. /\ inbox[t] # <<>>
        /\ batch' = [batch EXCEPT ![t] = Append(@, Head(inbox[t]))]
        /\ inbox' = [inbox EXCEPT ![t] = Tail(@)]
        /\ UNCHANGED <<fd, eof, accepted, delivered>>
        /\ fd[t] /\ pc[t] = "recv"
    BY <1>3, EndsAndPeers DEF RecvMessage, BadHandle, callerVars
  <2>2. CASE t # e
    BY <1>1, <1>c, <2>1, <2>2
  <2>3. CASE t = e
    <3>1. i # <<>> /\ fd[e] /\ ~eof[e]
      BY <1>a, <1>b, <2>1, <2>3 DEF NoReadAfterEof, InHand
    <3>2. /\ batch'[e] = Append(b, Head(i)) /\ inbox'[e] = Tail(i)
          /\ accepted'[Peer(e)] = a /\ delivered'[e] = d /\ ~eof'[e]
      BY <1>b, <1>c, <2>1, <2>3, <3>1
    <3>3. d \o Append(b, Head(i)) \o Tail(i) = d \o b \o i
      BY <3>1, MoveToBatch
    <3>4. a = d \o Append(b, Head(i)) \o Tail(i)
      BY <1>e, <3>1, <3>3
    <3>5. Tail(i) \in Seq(Messages)
      BY <3>1, HeadTailProperties
    <3> QED
      BY <3>2, <3>4, <3>5 DEF Complete, Drained, InOrder
  <2> QED
    BY <2>2, <2>3
<1>4. ASSUME NEW t \in Ends, RecvZero(t) PROVE Goal
  <2>1. /\ eof' = [eof EXCEPT ![t] = TRUE]
        /\ UNCHANGED <<fd, batch, accepted, delivered>>
        /\ fd[t] /\ pc[t] = "recv"
        /\ \/ inbox[t] = <<>> /\ Gone(Peer(t)) /\ UNCHANGED inbox
           \/ /\ inbox[t] # <<>> /\ Head(inbox[t]) \in Empty
              /\ inbox' = [inbox EXCEPT ![t] = Tail(@)]
    BY <1>4, EndsAndPeers DEF RecvZero, BadHandle, callerVars, Goto
  <2>2. CASE t # e
    <3>1. inbox'[e] = inbox[e] /\ eof'[e] = eof[e]
      BY <1>c, <2>1, <2>2
    <3> QED
      BY <1>1, <2>1, <3>1
  <2>3. CASE t = e
    <3>1. fd[e] /\ ~eof[e] /\ a = d \o b \o i
      BY <1>a, <1>e, <2>1, <2>3 DEF NoReadAfterEof, InHand
    <3>2. ASSUME i # <<>>, Head(i) \in Empty PROVE ~DataOnly(e)
      <4>1. d \o b \in Seq(Messages) /\ <<>> \in Seq(Messages)
        BY ConcatProperties, EmptySeq
      <4>2. /\ Len(d \o b) < Len((d \o b) \o i \o <<>>)
            /\ ((d \o b) \o i \o <<>>)[Len(d \o b) + 1] = Head(i)
        BY <3>2, <4>1, MoveToCallback
      <4>3. (d \o b) \o i \o <<>> = a
        BY <3>1, ConcatEmptySeq
      <4>4. Len(d \o b) + 1 \in DOMAIN a
        <5>1. Len(d \o b) \in Nat /\ Len(a) \in Nat /\ DOMAIN a = 1 .. Len(a)
          BY <4>1, LenProperties
        <5> QED
          BY <4>2, <4>3, <5>1
      <4> QED
        BY <1>b, <3>2, <4>2, <4>3, <4>4 DEF DataOnly
    <3>3. ASSUME DataOnly(e) PROVE a = d \o b /\ i = <<>> /\ Gone(Peer(e)) /\ UNCHANGED inbox
      <4>1. i = <<>> /\ Gone(Peer(e)) /\ UNCHANGED inbox
        BY <1>b, <2>1, <2>3, <3>2, <3>3
      <4>2. a = (d \o b) \o <<>>
        BY <3>1, <4>1
      <4>3. d \o b \in Seq(Messages)
        BY ConcatProperties
      <4> QED
        BY <4>1, <4>2, <4>3, ConcatEmptySeq
    <3>4. DataOnly(e) => Gone(Peer(e))'
      BY <1>a, <3>3, GoneStays, EndsAndPeers
    <3>5. DataOnly(e)' => DataOnly(e)
      BY <2>1 DEF DataOnly
    <3>6. eof'[e]
      BY <1>c, <2>1, <2>3
    <3>7. Drained(e)'
      BY <1>b, <2>1, <3>3, <3>4, <3>5 DEF Drained
    <3> QED
      BY <1>a, <2>1, <3>6, <3>7 DEF Complete, InOrder
  <2> QED
    BY <2>2, <2>3
<1>5. ASSUME NEW t \in Ends, Dispatch(t) PROVE Goal
  <2>1. /\ batch[t] # <<>>
        /\ batch' = [batch EXCEPT ![t] = Tail(@)]
        /\ delivered' = [delivered EXCEPT ![t] = Append(@, Head(batch[t]))]
        /\ UNCHANGED <<fd, inbox, eof, accepted>>
    BY <1>5, EndsAndPeers DEF Dispatch, kernelVars
  <2>2. CASE t # e
    BY <1>1, <1>c, <2>1, <2>2
  <2>3. CASE t = e
    <3>1. delivered'[e] = Append(d, Head(b)) /\ batch'[e] = Tail(b) /\ b # <<>>
      BY <1>b, <1>c, <2>1, <2>3
    <3>2. delivered'[e] \o batch'[e] = d \o b
      BY <3>1, MoveToCallback
    <3>3. DataOnly(e) /\ eof[e] => Gone(Peer(e))'
      BY <1>a, <1>e, GoneStays, EndsAndPeers
    <3>4. DataOnly(e)' => DataOnly(e)
      BY <2>1 DEF DataOnly
    <3> QED
      BY <1>b, <1>d, <1>e, <2>1, <3>2, <3>3, <3>4 DEF Complete, Drained, InOrder
  <2> QED
    BY <2>2, <2>3
<1>6. ASSUME NEW t \in Threads, Close(t) \/ PollReturn(t) PROVE Goal
  <2>1. /\ UNCHANGED <<batch, eof, accepted, delivered>>
        /\ \A f \in Ends : fd'[f] => fd[f]
        /\ \/ UNCHANGED inbox
           \/ DropInbox(EndOf(t)) /\ ~fd'[EndOf(t)]
    <3>1. CASE Close(t)
      BY <3>1, <1>c, EndsAndPeers DEF Close, readVars, callerVars
    <3>2. CASE PollReturn(t)
      BY <3>2, <1>c, EndsAndPeers DEF PollReturn, readVars, callerVars
    <3> QED
      BY <1>6, <3>1, <3>2
  <2> QED
    BY <1>1, <1>c, <2>1, EndsAndPeers DEF DropInbox
<1>7. ASSUME NEW f \in Ends, Die(f) PROVE Goal
  <2>1. /\ UNCHANGED <<accepted, delivered>>
        /\ inbox' = [inbox EXCEPT ![f] = <<>>] /\ ~fd'[f]
        /\ \A g \in Ends \ {f} : fd'[g] = fd[g] /\ batch'[g] = batch[g] /\ eof'[g] = eof[g]
        /\ batch'[f] = <<>> /\ ~eof'[f]
    <3>1. \A t \in Ends : EndOf(t) = t /\ t \in Threads
      BY EndsAndPeers
    <3>2. UNCHANGED <<accepted, delivered>> /\ inbox' = [inbox EXCEPT ![f] = <<>>]
      BY <1>7 DEF Die, DropInbox, callerVars
    <3>3. fd' = [fd EXCEPT ![f] = FALSE]
      BY <1>7 DEF Die
    <3>4. \A t \in Ends : batch'[t] = IF t = f THEN <<>> ELSE batch[t]
      BY <1>7, <3>1 DEF Die
    <3>5. \A t \in Ends : eof'[t] = (t # f /\ eof[t])
      BY <1>7, <3>1 DEF Die
    <3> QED
      BY <1>c, <3>2, <3>3, <3>4, <3>5
  <2>2. CASE f # e
    BY <1>1, <1>c, <2>1, <2>2
  <2>3. CASE f = e
    <3>1. accepted'[Peer(e)] = a /\ delivered'[e] = d /\ batch'[e] = <<>> /\ ~fd'[e] /\ ~eof'[e]
      <4>1. accepted' = accepted /\ delivered' = delivered
        BY <2>1
      <4> QED
        BY <1>b, <2>1, <2>3, <4>1
    <3>2. b \o rest \in Seq(Messages) /\ a = d \o <<>> \o (b \o rest)
      BY <1>d, ConcatProperties, ConcatAssociative, ConcatEmptySeq
    <3> QED
      BY <3>1, <3>2 DEF Complete, Drained, InOrder
  <2> QED
    BY <2>2, <2>3
<1>8. ASSUME UNCHANGED <<fd, inbox, batch, eof, accepted, delivered>> PROVE Goal
  BY <1>1, <1>8
<1>9. ASSUME NEW t \in Threads, SendCall(t) \/ TerminateCall(t) PROVE Goal
  BY <1>8, <1>9 DEF SendCall, TerminateCall, kernelVars, readVars, callerVars
<1>10. ASSUME NEW t \in Threads, SendStep(t) PROVE Goal
  BY <1>2, <1>6, <1>8, <1>10 DEF SendStep, WriteLock, SendWouldBlock, PollCall, SendFails,
     SendBroken, kernelVars, readVars, callerVars
<1>11. ASSUME NEW t \in Ends, ReadStep(t) PROVE Goal
  BY <1>3, <1>4, <1>5, <1>8, <1>11 DEF ReadStep, ReadCall, ReadLock, RecvStops,
     CallbackReturn, DispatchDone, kernelVars, readVars, callerVars
<1>12. ASSUME NEW t \in Threads, TerminateStep(t) PROVE Goal
  BY <1>6, <1>7, <1>8, <1>12, EndsAndPeers DEF TerminateStep, CloseFails,
     CloseCheck, ClearHandle, Notify, kernelVars, readVars, callerVars
<1> QED
  BY <1>7, <1>8, <1>9, <1>10, <1>11, <1>12 DEF Next, Crash, vars, kernelVars, readVars,
     callerVars, OneLoop

LEMMA IInvStep ==
  ASSUME EndsAssumption, BoundsAssumption, OneLoop, IInv, [Next]_vars
  PROVE  IInv'
<1>1. TInv' /\ ClosedOnce'
  BY TInvStep, ClosedOnceStep DEF IInv, TInv
<1>2. \A e \in Ends : NoReadAfterEof(e)'
  BY NoReadAfterEofStep DEF IInv, TInv
<1>3. \A e \in Ends : (Complete(e) /\ Drained(e) /\ InOrder(e))'
  BY MessagesStep
<1> QED
  BY <1>1, <1>2, <1>3 DEF IInv

LEMMA IInvHolds ==
  ASSUME EndsAssumption, BoundsAssumption, OneLoop
  PROVE  Spec => []IInv
<1>1. Init => IInv
  BY IInvInit
<1>2. IInv /\ [Next]_vars => IInv'
  BY IInvStep
<1> QED
  BY <1>1, <1>2, PTL DEF Spec

\* readMessageOnHandle() reads in batches and sendMessage() retries behind
\* poll(): while an end reads, its callback has seen, its loop thread holds or
\* the kernel queues each message its peer has sent, once and in order.
THEOREM NothingIsLost ==
  ASSUME EndsAssumption, BoundsAssumption, OneLoop
  PROVE  Spec => []NothingLost
<1>1. IInv => NothingLost
  BY DEF IInv, Complete, NothingLost
<1> QED
  BY <1>1, IInvHolds, PTL

\* A read for which ReadMessages() returned PermanentFailure, which ends the
\* channel, has left nothing behind that the peer had sent, if every packet had
\* data.
THEOREM EofFetchedAll ==
  ASSUME EndsAssumption, BoundsAssumption, OneLoop
  PROVE  Spec => []EofIsComplete
<1>1. IInv => EofIsComplete
  BY DEF IInv, Drained, DataOnly, EofIsComplete
<1> QED
  BY <1>1, IInvHolds, PTL

\* The steps of the direction that ends in e: a message is accepted, one is
\* delivered, or nothing happens to it.
LEMMA PipeStep ==
  ASSUME EndsAssumption, BoundsAssumption, OneLoop, IInv, [Next]_vars, NEW e \in Ends
  PROVE  \/ accepted'[Peer(e)] = accepted[Peer(e)] /\ delivered'[e] = delivered[e]
         \/ \E m \in Messages : /\ accepted'[Peer(e)] = Append(accepted[Peer(e)], m)
                                /\ delivered'[e] = delivered[e]
         \/ /\ Len(delivered[e]) < Len(accepted[Peer(e)])
            /\ delivered'[e] = Append(delivered[e], accepted[Peer(e)][Len(delivered[e]) + 1])
            /\ accepted'[Peer(e)] = accepted[Peer(e)]
<1> DEFINE Accepts == \E m \in Messages :
                        /\ accepted'[Peer(e)] = Append(accepted[Peer(e)], m)
                        /\ delivered'[e] = delivered[e]
           Delivers == /\ Len(delivered[e]) < Len(accepted[Peer(e)])
                       /\ delivered'[e] =
                            Append(delivered[e], accepted[Peer(e)][Len(delivered[e]) + 1])
                       /\ accepted'[Peer(e)] = accepted[Peer(e)]
           Stays == accepted'[Peer(e)] = accepted[Peer(e)] /\ delivered'[e] = delivered[e]
<1> SUFFICES Stays \/ Accepts \/ Delivers
  OBVIOUS
<1>a. TInv /\ TypeOK /\ InOrder(e)
  BY DEF IInv, TInv
<1>b. /\ accepted \in [Ends -> Seq(Messages)] /\ delivered \in [Ends -> Seq(Messages)]
      /\ batch \in [Threads -> Seq(Messages)] /\ Ends \subseteq Threads
  BY <1>a, EndsAndPeers DEF TypeOK
<1>1. ASSUME UNCHANGED <<accepted, delivered>> PROVE Stays
  BY <1>1
<1>2. ASSUME NEW t \in Threads, Sent(t) PROVE Stays \/ Accepts
  <2>1. /\ accepted' = [accepted EXCEPT ![EndOf(t)] = Append(@, message[t])]
        /\ UNCHANGED delivered
        /\ message[t] \in Messages
    BY <1>2, <1>a DEF Sent, TInv, MessageInHand, InHand, Goto
  <2> QED
    BY <1>b, <2>1, EndsAndPeers
<1>3. ASSUME NEW t \in Ends, Dispatch(t) PROVE Stays \/ Delivers
  <2>1. /\ batch[t] # <<>>
        /\ delivered' = [delivered EXCEPT ![t] = Append(@, Head(batch[t]))]
        /\ UNCHANGED accepted
    BY <1>3, EndsAndPeers DEF Dispatch
  <2>2. CASE t # e
    BY <1>b, <2>1, <2>2
  <2>3. CASE t = e
    <3>1. PICK d, b, rest \in Seq(Messages) :
            /\ d = delivered[e] /\ b = batch[e]
            /\ accepted[Peer(e)] = d \o b \o rest
      BY <1>a, <1>b DEF InOrder
    <3>2. b # <<>>
      BY <2>1, <2>3, <3>1
    <3>3. Len(d) < Len(d \o b \o rest) /\ (d \o b \o rest)[Len(d) + 1] = Head(b)
      BY <3>2, MoveToCallback
    <3>4. delivered'[e] = Append(d, Head(b)) /\ accepted'[Peer(e)] = accepted[Peer(e)]
      BY <1>b, <2>1, <2>3, <3>1
    <3> QED
      BY <3>1, <3>3, <3>4
  <2> QED
    BY <2>2, <2>3
<1>4. ASSUME NEW t \in Threads, SendStep(t) \/ SendCall(t) \/ TerminateCall(t)
      PROVE  Stays \/ Accepts
  BY <1>1, <1>2, <1>4 DEF SendStep, WriteLock, SendWouldBlock, PollCall, SendFails,
     SendBroken, PollReturn, SendCall, TerminateCall, callerVars
<1>7. ASSUME NEW f \in Ends, Die(f) PROVE Stays
  BY <1>1, <1>7 DEF Die, callerVars
<1>5. ASSUME NEW t \in Threads, TerminateStep(t) PROVE Stays
  BY <1>1, <1>5, <1>7, EndsAndPeers DEF TerminateStep, CloseFails, CloseCheck,
     Close, ClearHandle, Notify, callerVars
<1>6. ASSUME NEW t \in Ends, ReadStep(t) PROVE Stays \/ Delivers
  BY <1>1, <1>3, <1>6 DEF ReadStep, ReadCall, ReadLock, RecvMessage, RecvZero, RecvStops,
     CallbackReturn, DispatchDone, callerVars
<1> QED
  BY <1>1, <1>4, <1>5, <1>6, <1>7 DEF Next, Crash, vars, callerVars, OneLoop

\* sendMessage() and the message callback of the other end are the two ends of
\* a queue, in both directions, whatever the threads of both sides do: no
\* message is delivered twice, out of order or without having been sent.
THEOREM ChannelIsPipe ==
  ASSUME EndsAssumption, BoundsAssumption, OneLoop
  PROVE  Spec => PipeIsSafe
<1>0. /\ A \in Ends /\ B \in Ends /\ Peer(A) = B /\ Peer(B) = A
  BY EndsAndPeers DEF Ends, Peer, EndsAssumption
<1>1. Init => ToA!Init /\ ToB!Init
  BY <1>0 DEF Init, ToA!Init, ToB!Init
<1>2. IInv /\ [Next]_vars => [ToA!Next]_ToA!pipeVars
  <2> SUFFICES ASSUME IInv, [Next]_vars PROVE [ToA!Next]_ToA!pipeVars
    OBVIOUS
  <2> QED
    BY <1>0, PipeStep DEF ToA!Next, ToA!pipeVars, ToA!Accept, ToA!Deliver
<1>3. IInv /\ [Next]_vars => [ToB!Next]_ToB!pipeVars
  <2> SUFFICES ASSUME IInv, [Next]_vars PROVE [ToB!Next]_ToB!pipeVars
    OBVIOUS
  <2> QED
    BY <1>0, PipeStep DEF ToB!Next, ToB!pipeVars, ToB!Accept, ToB!Deliver
<1> QED
  BY <1>1, <1>2, <1>3, IInvHolds, PTL DEF Spec, PipeIsSafe, ToA!Safety, ToB!Safety

-----------------------------------------------------------------------------
(* Any number of loops. *)

Elements(s) == {s[i] : i \in 1 .. Len(s)}
Distinct(s) == \A i, j \in 1 .. Len(s) : s[i] = s[j] => i = j

\* No two sendMessage() calls of an end have the same message, and what is
\* accepted is not sent again.
Fresh ==
  /\ \A e \in Ends : Elements(accepted[e]) \subseteq 1 .. sends[e]
  /\ \A t \in Threads : pc[t] \in InHand =>
       /\ message[t] \in 1 .. sends[EndOf(t)]
       /\ message[t] \notin Elements(accepted[EndOf(t)])
  /\ \A t, u \in Threads :
       pc[t] \in InHand /\ pc[u] \in InHand /\ EndOf(t) = EndOf(u) /\ t # u =>
         message[t] # message[u]

SeenOrQueued(e) ==
  /\ Distinct(delivered[e]) /\ Distinct(inbox[e])
  /\ Elements(delivered[e]) \cap Elements(inbox[e]) = {}
  /\ Elements(delivered[e]) \cup Elements(inbox[e]) \subseteq Elements(accepted[Peer(e)])

Held(e, t) ==
  /\ Distinct(batch[t])
  /\ Elements(batch[t]) \subseteq Elements(accepted[Peer(e)])
  /\ Elements(batch[t]) \cap (Elements(delivered[e]) \cup Elements(inbox[e])) = {}

\* A message is in one place: the kernel's queue of e, the batch of one thread
\* or what the callback has seen.
Apart(e) ==
  /\ SeenOrQueued(e)
  /\ \A t \in Threads : EndOf(t) = e => Held(e, t)
  /\ \A t, u \in Threads : EndOf(t) = e /\ EndOf(u) = e /\ t # u =>
       Elements(batch[t]) \cap Elements(batch[u]) = {}

\* A message is delivered at most once, and only if it was sent.
DeliveredOnce ==
  \A e \in Ends :
    /\ Distinct(delivered[e])
    /\ Elements(delivered[e]) \subseteq Elements(accepted[Peer(e)])

\* Where a message that was sent to e may be.
SomewhereAt(e, m) ==
  \/ m \in Elements(delivered[e]) \cup Elements(inbox[e])
  \/ \E t \in Threads : EndOf(t) = e /\ m \in Elements(batch[t])

\* While the channel of e is open and no read has ended it, no message is lost.
SentIsSomewhere ==
  \A e \in Ends :
    fd[e] /\ (\A t \in Threads : EndOf(t) = e => ~eof[t]) =>
      \A m \in Elements(accepted[Peer(e)]) : SomewhereAt(e, m)

LEMMA EmptyQueue == Elements(<<>>) = {} /\ Distinct(<<>>)
BY DEF Elements, Distinct

LEMMA AppendToQueue ==
  ASSUME NEW s \in Seq(Messages), NEW m \in Messages
  PROVE  /\ Elements(Append(s, m)) = Elements(s) \cup {m}
         /\ Distinct(s) /\ m \notin Elements(s) => Distinct(Append(s, m))
<1>1. PICK n \in Nat : n = Len(s)
  BY LenProperties
<1>2. PICK r : r = Append(s, m)
  OBVIOUS
<1>3. /\ Len(r) = n + 1 /\ r[n + 1] = m
      /\ \A i \in 1 .. n : r[i] = s[i]
  BY <1>1, <1>2, AppendProperties
<1>4. 1 .. n + 1 = 1 .. n \cup {n + 1}
  OBVIOUS
<1>5. Elements(r) = Elements(s) \cup {m}
  BY <1>1, <1>3, <1>4 DEF Elements
<1>6. Distinct(s) /\ m \notin Elements(s) => Distinct(r)
  BY <1>1, <1>3, <1>4 DEF Elements, Distinct
<1> QED
  BY <1>2, <1>5, <1>6

LEMMA TakeFromQueue ==
  ASSUME NEW s \in Seq(Messages), s # <<>>
  PROVE  /\ Head(s) \in Messages /\ Tail(s) \in Seq(Messages)
         /\ Elements(s) = Elements(Tail(s)) \cup {Head(s)}
         /\ Distinct(s) => Distinct(Tail(s)) /\ Head(s) \notin Elements(Tail(s))
<1>1. PICK n \in Nat : n + 1 = Len(s)
  <2>1. Len(s) \in Nat /\ Len(s) # 0
    BY EmptySeq, LenProperties
  <2> QED
    BY <2>1
<1>2. PICK r : r = Tail(s)
  OBVIOUS
<1>3. /\ Len(r) = n /\ Head(s) = s[1]
      /\ \A i \in 1 .. n : r[i] = s[i + 1]
      /\ r \in Seq(Messages) /\ Head(s) \in Messages
  BY <1>1, <1>2, HeadTailProperties
<1>4. /\ \A i \in 1 .. n : i + 1 \in 2 .. n + 1
      /\ \A j \in 2 .. n + 1 : j - 1 \in 1 .. n /\ j = (j - 1) + 1
      /\ 1 .. n + 1 = {1} \cup 2 .. n + 1
  OBVIOUS
<1>5. Elements(r) = {s[j] : j \in 2 .. n + 1}
  <2>1. Elements(r) = {s[i + 1] : i \in 1 .. n}
    BY <1>3 DEF Elements
  <2>2. \A x \in Elements(r) : x \in {s[j] : j \in 2 .. n + 1}
    BY <1>4, <2>1
  <2>3. ASSUME NEW j \in 2 .. n + 1 PROVE s[j] \in Elements(r)
    <3>1. r[j - 1] = s[j] /\ j - 1 \in 1 .. n
      BY <1>3, <1>4
    <3> QED
      BY <1>3, <3>1 DEF Elements
  <2> QED
    BY <2>2, <2>3
<1>6. Elements(s) = {s[1]} \cup {s[j] : j \in 2 .. n + 1}
  BY <1>1, <1>4 DEF Elements
<1>7. ASSUME Distinct(s) PROVE Distinct(r) /\ Head(s) \notin Elements(r)
  <2>1. \A i, j \in 1 .. n + 1 : s[i] = s[j] => i = j
    BY <1>1, <1>7 DEF Distinct
  <2>2. ASSUME NEW i \in 1 .. n, NEW j \in 1 .. n, r[i] = r[j] PROVE i = j
    <3>1. i + 1 = j + 1
      BY <1>3, <1>4, <2>1, <2>2
    <3> QED
      BY <3>1
  <2>3. ASSUME NEW j \in 2 .. n + 1 PROVE s[1] # s[j]
    BY <1>4, <2>1
  <2> QED
    BY <1>3, <1>5, <2>2, <2>3 DEF Distinct
<1> QED
  BY <1>2, <1>3, <1>5, <1>6, <1>7

LEMMA FreshStep ==
  ASSUME EndsAssumption, BoundsAssumption, TInv, Fresh, [Next]_vars
  PROVE  Fresh'
<1> USE EndsAndPeers DEF Goto
<1>a. /\ pc \in [Threads -> Points] /\ message \in [Threads -> 0 .. MaxSends]
      /\ sends \in [Ends -> 0 .. MaxSends] /\ accepted \in [Ends -> Seq(Messages)]
      /\ \A t \in Threads : back[t] \notin InHand
      /\ \A t \in Threads : pc[t] \in InHand => message[t] \in Messages
  BY DEF TInv, TypeOK, UserPoints, InHand, MessageInHand
<1>b. \A e \in Ends : sends[e] \in Nat
  BY <1>a DEF BoundsAssumption
<1>1. ASSUME UNCHANGED <<message, sends, accepted>>,
             \A t \in Threads : pc'[t] \in InHand => pc[t] \in InHand
      PROVE  Fresh'
  BY <1>1 DEF Fresh
<1>2. ASSUME NEW t \in Threads, NEW to, pc' = [pc EXCEPT ![t] = to],
             to \in InHand => pc[t] \in InHand, UNCHANGED <<message, sends, accepted>>
      PROVE  Fresh'
  BY <1>1, <1>2, <1>a
<1>3. ASSUME NEW t \in Threads, SendCall(t) PROVE Fresh'
  <2>1. PICK e \in Ends : e = EndOf(t)
    OBVIOUS
  <2>2. PICK n \in Nat : n = sends[e]
    BY <1>b
  <2>3. /\ sends' = [sends EXCEPT ![e] = n + 1]
        /\ message' = [message EXCEPT ![t] = n + 1]
        /\ pc' = [pc EXCEPT ![t] = "w_lock"]
        /\ UNCHANGED accepted
    BY <1>3, <2>1, <2>2 DEF SendCall, callerVars
  <2>4. /\ 1 .. n \subseteq 1 .. n + 1 /\ n + 1 \in 1 .. n + 1 /\ n + 1 \notin 1 .. n
        /\ sends'[e] = n + 1 /\ \A f \in Ends \ {e} : sends'[f] = sends[f]
    BY <1>a, <2>3
  <2>5. \A f \in Ends : 1 .. sends[f] \subseteq 1 .. sends'[f]
    BY <2>2, <2>4
  <2>6. \A f \in Ends : Elements(accepted'[f]) \subseteq 1 .. sends'[f]
    BY <2>3, <2>5 DEF Fresh
  <2>7. /\ message'[t] = n + 1
        /\ \A u \in Threads \ {t} : message'[u] = message[u] /\ pc'[u] = pc[u]
    BY <1>a, <2>3
  <2>8. ASSUME NEW u \in Threads, u # t, pc'[u] \in InHand
        PROVE  /\ message'[u] \in 1 .. sends[EndOf(u)]
               /\ message'[u] \notin Elements(accepted'[EndOf(u)])
    BY <2>3, <2>7, <2>8 DEF Fresh
  <2>9. n + 1 \notin Elements(accepted'[e])
    BY <2>2, <2>3, <2>4 DEF Fresh
  <2>10. ASSUME NEW u \in Threads, pc'[u] \in InHand
         PROVE  /\ message'[u] \in 1 .. sends'[EndOf(u)]
                /\ message'[u] \notin Elements(accepted'[EndOf(u)])
    BY <2>1, <2>4, <2>5, <2>7, <2>8, <2>9, <2>10
  <2>11. ASSUME NEW u \in Threads, NEW v \in Threads, pc'[u] \in InHand, pc'[v] \in InHand,
                EndOf(u) = EndOf(v), u # v
         PROVE  message'[u] # message'[v]
    <3>1. CASE u = t
      BY <2>1, <2>2, <2>4, <2>7, <2>8, <2>11, <3>1
    <3>2. CASE v = t
      BY <2>1, <2>2, <2>4, <2>7, <2>8, <2>11, <3>2
    <3>3. CASE u # t /\ v # t
      BY <2>7, <2>11, <3>3 DEF Fresh
    <3> QED
      BY <3>1, <3>2, <3>3
  <2> QED
    BY <2>6, <2>10, <2>11 DEF Fresh
<1>4. ASSUME NEW t \in Threads, Sent(t) PROVE Fresh'
  <2>1. PICK e \in Ends : e = EndOf(t)
    OBVIOUS
  <2>2. PICK m \in Messages : m = message[t]
    BY <1>4, <1>a DEF Sent, InHand
  <2>3. /\ accepted' = [accepted EXCEPT ![e] = Append(@, m)]
        /\ pc' = [pc EXCEPT ![t] = back[t]] /\ pc[t] \in InHand
        /\ UNCHANGED <<message, sends>>
    BY <1>4, <2>1, <2>2 DEF Sent, sendVars, InHand
  <2>4. /\ Elements(accepted'[e]) = Elements(accepted[e]) \cup {m}
        /\ \A f \in Ends \ {e} : accepted'[f] = accepted[f]
    <3>1. accepted[e] \in Seq(Messages) /\ accepted'[e] = Append(accepted[e], m)
      BY <1>a, <2>3
    <3> QED
      BY <1>a, <2>3, <3>1, AppendToQueue
  <2>5. m \in 1 .. sends[e]
    BY <2>1, <2>2, <2>3 DEF Fresh
  <2>6. \A f \in Ends : Elements(accepted'[f]) \subseteq 1 .. sends'[f]
    BY <2>3, <2>4, <2>5 DEF Fresh
  <2>7. \A u \in Threads : pc'[u] \in InHand => pc[u] \in InHand /\ u # t
    BY <1>a, <2>3
  <2>8. ASSUME NEW u \in Threads, pc'[u] \in InHand
        PROVE  message[u] \notin Elements(accepted'[EndOf(u)])
    <3>1. pc[u] \in InHand /\ u # t
      BY <2>7, <2>8
    <3>2. message[u] \notin Elements(accepted[EndOf(u)])
      BY <3>1 DEF Fresh
    <3>3. EndOf(u) = e => message[u] # m
      BY <2>1, <2>2, <2>3, <3>1 DEF Fresh
    <3> QED
      BY <2>4, <3>2, <3>3
  <2> QED
    BY <2>3, <2>6, <2>7, <2>8 DEF Fresh
<1>5. ASSUME NEW e \in Ends, Die(e) PROVE Fresh'
  <2>1. pc' = [t \in Threads |-> IF EndOf(t) = e THEN "dead" ELSE pc[t]]
        /\ UNCHANGED <<message, sends, accepted>>
    BY <1>5 DEF Die, sendVars, callerVars
  <2> QED
    BY <1>1, <2>1 DEF InHand
<1>6. ASSUME UNCHANGED <<pc, message, sends, accepted>> PROVE Fresh'
  BY <1>1, <1>6
<1> USE DEF sendVars, callerVars
<1>7. ASSUME NEW t \in Threads, TerminateCall(t) PROVE Fresh'
  BY <1>2, <1>7 DEF TerminateCall, InHand
<1>8. ASSUME NEW t \in Threads, SendStep(t), ~Sent(t) PROVE Fresh'
  BY <1>2, <1>8, <1>a DEF SendStep, WriteLock, SendWouldBlock, PollCall, SendFails,
     SendBroken, PollReturn, InHand
<1>9. ASSUME NEW t \in Threads, ReadStep(t) PROVE Fresh'
  BY <1>2, <1>6, <1>9 DEF ReadStep, ReadCall, ReadLock, RecvMessage, RecvZero, RecvStops,
     Dispatch, CallbackReturn, DispatchDone, InHand
<1>10. ASSUME NEW t \in Threads, TerminateStep(t) PROVE Fresh'
  BY <1>2, <1>5, <1>10, <1>a DEF TerminateStep, CloseFails, CloseCheck, Close,
     ClearHandle, Notify, InHand
<1> QED
  BY <1>3, <1>4, <1>5, <1>6, <1>7, <1>8, <1>9, <1>10
     DEF Next, Crash, vars, EndsAssumption, Threads

\* The steps that move messages, one by one, and all others.
LEMMA ApartStep ==
  ASSUME EndsAssumption, TInv, Fresh, [Next]_vars, NEW e \in Ends, Apart(e)
  PROVE  Apart(e)'
<1> USE EndsAndPeers DEF Goto
<1>a. /\ inbox \in [Ends -> Seq(Messages)] /\ batch \in [Threads -> Seq(Messages)]
      /\ accepted \in [Ends -> Seq(Messages)] /\ delivered \in [Ends -> Seq(Messages)]
  BY DEF TInv, TypeOK
<1>b. Peer(e) \in Ends
  OBVIOUS
<1>1. ASSUME accepted'[Peer(e)] = accepted[Peer(e)], delivered'[e] = delivered[e],
             inbox'[e] = inbox[e] \/ inbox'[e] = <<>>,
             \A t \in Threads : EndOf(t) = e => batch'[t] = batch[t] \/ batch'[t] = <<>>
      PROVE  Apart(e)'
  <2>1. /\ Elements(delivered'[e]) = Elements(delivered[e]) /\ Distinct(delivered'[e])
        /\ Elements(inbox'[e]) \subseteq Elements(inbox[e]) /\ Distinct(inbox'[e])
        /\ Elements(accepted'[Peer(e)]) = Elements(accepted[Peer(e)])
    BY <1>1, EmptyQueue DEF Apart, SeenOrQueued, Held
  <2>2. \A t \in Threads : EndOf(t) = e =>
          Elements(batch'[t]) \subseteq Elements(batch[t]) /\ Distinct(batch'[t])
    BY <1>1, EmptyQueue DEF Apart, SeenOrQueued, Held
  <2>3. SeenOrQueued(e)'
    BY <2>1 DEF Apart, SeenOrQueued
  <2>4. ASSUME NEW t \in Threads, EndOf(t) = e PROVE Held(e, t)'
    <3>1. /\ Elements(batch[t]) \subseteq Elements(accepted[Peer(e)])
          /\ Elements(batch[t]) \cap (Elements(delivered[e]) \cup Elements(inbox[e])) = {}
      BY <2>4 DEF Apart, Held
    <3> QED
      BY <2>1, <2>2, <2>4, <3>1 DEF Held
  <2>5. \A t, u \in Threads : EndOf(t) = e /\ EndOf(u) = e /\ t # u =>
          Elements(batch'[t]) \cap Elements(batch'[u]) = {}
    BY <2>2 DEF Apart
  <2> QED
    BY <2>3, <2>4, <2>5 DEF Apart
<1>2. ASSUME NEW t \in Threads, Sent(t) PROVE Apart(e)'
  <2>1. PICK f \in Ends : f = EndOf(t)
    OBVIOUS
  <2>2. PICK m \in Messages : m = message[t]
    BY <1>2 DEF Sent, TInv, MessageInHand, InHand
  <2>3. /\ inbox' = [inbox EXCEPT ![Peer(f)] = Append(@, m)]
        /\ accepted' = [accepted EXCEPT ![f] = Append(@, m)]
        /\ UNCHANGED <<batch, delivered>>
    BY <1>2, <2>1, <2>2 DEF Sent, readVars
  <2>4. CASE f = e
    BY <1>1, <1>a, <2>3, <2>4
  <2>5. CASE f = Peer(e)
    <3>1. inbox'[e] = Append(inbox[e], m) /\ accepted'[f] = Append(accepted[f], m)
      BY <1>a, <2>3, <2>5
    <3>2. /\ Elements(inbox'[e]) = Elements(inbox[e]) \cup {m}
          /\ Distinct(inbox[e]) /\ m \notin Elements(inbox[e]) => Distinct(inbox'[e])
          /\ Elements(accepted'[f]) = Elements(accepted[f]) \cup {m}
      <4>1. inbox[e] \in Seq(Messages) /\ accepted[f] \in Seq(Messages)
        BY <1>a
      <4> QED
        BY <3>1, <4>1, AppendToQueue
    <3>3. m \notin Elements(accepted[f])
      BY <1>2, <2>1, <2>2 DEF Sent, Fresh, InHand
    <3>4. m \notin Elements(inbox[e]) /\ m \notin Elements(delivered[e])
      BY <2>5, <3>3 DEF Apart, SeenOrQueued, Held
    <3>5. \A u \in Threads : EndOf(u) = e => m \notin Elements(batch[u])
      BY <2>5, <3>3 DEF Apart, SeenOrQueued, Held
    <3>6. SeenOrQueued(e)'
      BY <2>3, <2>5, <3>2, <3>4 DEF Apart, SeenOrQueued, Held
    <3>7. ASSUME NEW u \in Threads, EndOf(u) = e
          PROVE  Held(e, u)'
      BY <2>3, <2>5, <3>2, <3>5, <3>7 DEF Apart, SeenOrQueued, Held
    <3> QED
      BY <2>3, <3>6, <3>7 DEF Apart
  <2> QED
    BY <2>4, <2>5
<1>3. ASSUME NEW t \in Threads, RecvMessage(t) PROVE Apart(e)'
  <2>1. PICK f \in Ends : f = EndOf(t)
    OBVIOUS
  <2>2. /\ inbox[f] # <<>>
        /\ batch' = [batch EXCEPT ![t] = Append(@, Head(inbox[f]))]
        /\ inbox' = [inbox EXCEPT ![f] = Tail(@)]
        /\ UNCHANGED <<accepted, delivered>>
    BY <1>3, <2>1 DEF RecvMessage, callerVars
  <2>3. CASE f # e
    BY <1>1, <1>a, <2>1, <2>2, <2>3
  <2>4. CASE f = e
    <3>1. PICK queue \in Seq(Messages) : queue = inbox[e]
      BY <1>a
    <3>2. PICK m : m = Head(queue)
      OBVIOUS
    <3>3. /\ m \in Messages
          /\ Elements(queue) = Elements(Tail(queue)) \cup {m}
          /\ Distinct(queue) => Distinct(Tail(queue)) /\ m \notin Elements(Tail(queue))
      BY <2>2, <2>4, <3>1, <3>2, TakeFromQueue
    <3>4. inbox'[e] = Tail(queue) /\ batch'[t] = Append(batch[t], m)
      BY <1>a, <2>2, <2>4, <3>1, <3>2
    <3>5. /\ Elements(batch'[t]) = Elements(batch[t]) \cup {m}
          /\ Distinct(batch[t]) /\ m \notin Elements(batch[t]) => Distinct(batch'[t])
      <4>1. batch[t] \in Seq(Messages)
        BY <1>a
      <4> QED
        BY <3>3, <3>4, <4>1, AppendToQueue
    <3>6. \A u \in Threads \ {t} : batch'[u] = batch[u]
      BY <1>a, <2>2
    <3>7. /\ m \in Elements(inbox[e]) /\ Elements(inbox'[e]) \subseteq Elements(inbox[e])
          /\ m \notin Elements(inbox'[e]) /\ Distinct(inbox'[e])
      BY <3>1, <3>3, <3>4 DEF Apart, SeenOrQueued, Held
    <3>8. /\ m \notin Elements(delivered[e]) /\ m \in Elements(accepted[Peer(e)])
          /\ \A u \in Threads : EndOf(u) = e => m \notin Elements(batch[u])
      BY <3>7 DEF Apart, SeenOrQueued, Held
    <3>9. ASSUME NEW u \in Threads, EndOf(u) = e
          PROVE  /\ Distinct(batch'[u])
                 /\ Elements(batch'[u]) \subseteq Elements(batch[u]) \cup {m}
                 /\ u # t => Elements(batch'[u]) = Elements(batch[u])
      BY <3>5, <3>6, <3>8, <3>9 DEF Apart, SeenOrQueued, Held
    <3>10. \A u, v \in Threads : EndOf(u) = e /\ EndOf(v) = e /\ u # v =>
             Elements(batch'[u]) \cap Elements(batch'[v]) = {}
      BY <3>5, <3>6, <3>8 DEF Apart, SeenOrQueued, Held
    <3>11. SeenOrQueued(e)'
      BY <2>2, <3>7 DEF Apart, SeenOrQueued, Held
    <3>12. ASSUME NEW u \in Threads, EndOf(u) = e
           PROVE  Held(e, u)'
      <4>1. /\ Elements(batch[u]) \subseteq Elements(accepted[Peer(e)])
            /\ Elements(batch[u]) \cap (Elements(delivered[e]) \cup Elements(inbox[e])) = {}
        BY <3>12 DEF Apart, Held
      <4>2. Distinct(batch'[u]) /\ Elements(batch'[u]) \subseteq Elements(batch[u]) \cup {m}
        BY <3>9, <3>12
      <4> QED
        BY <2>2, <3>7, <3>8, <4>1, <4>2 DEF Held
    <3> QED
      BY <3>10, <3>11, <3>12 DEF Apart
  <2> QED
    BY <2>3, <2>4
<1>4. ASSUME NEW t \in Threads, RecvZero(t) PROVE Apart(e)'
  <2>1. PICK f \in Ends : f = EndOf(t)
    OBVIOUS
  <2>2. /\ \/ UNCHANGED inbox
           \/ inbox[f] # <<>> /\ inbox' = [inbox EXCEPT ![f] = Tail(@)]
        /\ UNCHANGED <<batch, accepted, delivered>>
    BY <1>4, <2>1 DEF RecvZero, callerVars
  <2>3. CASE inbox'[e] = inbox[e]
    BY <1>1, <2>2, <2>3
  <2>4. CASE inbox'[e] # inbox[e]
    <3>1. inbox[e] # <<>> /\ inbox'[e] = Tail(inbox[e])
      BY <1>a, <2>2, <2>4
    <3>2. PICK queue \in Seq(Messages) : queue = inbox[e]
      BY <1>a
    <3>3. /\ Elements(Tail(queue)) \subseteq Elements(queue)
          /\ Distinct(queue) => Distinct(Tail(queue))
      BY <3>1, <3>2, TakeFromQueue
    <3>4. Elements(inbox'[e]) \subseteq Elements(inbox[e]) /\ Distinct(inbox'[e])
      BY <3>1, <3>2, <3>3 DEF Apart, SeenOrQueued, Held
    <3> QED
      BY <2>2, <3>4 DEF Apart, SeenOrQueued, Held
  <2> QED
    BY <2>3, <2>4
<1>5. ASSUME NEW t \in Threads, Dispatch(t) PROVE Apart(e)'
  <2>1. PICK f \in Ends : f = EndOf(t)
    OBVIOUS
  <2>2. /\ batch[t] # <<>>
        /\ batch' = [batch EXCEPT ![t] = Tail(@)]
        /\ delivered' = [delivered EXCEPT ![f] = Append(@, Head(batch[t]))]
        /\ UNCHANGED <<inbox, accepted>>
    BY <1>5, <2>1 DEF Dispatch, kernelVars
  <2>3. CASE f # e
    BY <1>1, <1>a, <2>1, <2>2, <2>3
  <2>4. CASE f = e
    <3>1. PICK queue \in Seq(Messages) : queue = batch[t]
      BY <1>a
    <3>2. PICK m : m = Head(queue)
      OBVIOUS
    <3>3. /\ m \in Messages
          /\ Elements(queue) = Elements(Tail(queue)) \cup {m}
          /\ Distinct(queue) => Distinct(Tail(queue)) /\ m \notin Elements(Tail(queue))
      BY <2>2, <3>1, <3>2, TakeFromQueue
    <3>4. batch'[t] = Tail(queue) /\ delivered'[e] = Append(delivered[e], m)
      BY <1>a, <2>2, <2>4, <3>1, <3>2
    <3>5. /\ Elements(delivered'[e]) = Elements(delivered[e]) \cup {m}
          /\ Distinct(delivered[e]) /\ m \notin Elements(delivered[e]) =>
               Distinct(delivered'[e])
      <4>1. delivered[e] \in Seq(Messages)
        BY <1>a
      <4> QED
        BY <3>3, <3>4, <4>1, AppendToQueue
    <3>6. \A u \in Threads \ {t} : batch'[u] = batch[u]
      BY <1>a, <2>2
    <3>7. /\ m \in Elements(batch[t]) /\ Elements(batch'[t]) \subseteq Elements(batch[t])
          /\ m \notin Elements(batch'[t]) /\ Distinct(batch'[t])
      BY <2>1, <2>4, <3>1, <3>3, <3>4 DEF Apart, SeenOrQueued, Held
    <3>8. /\ m \notin Elements(delivered[e]) /\ m \in Elements(accepted[Peer(e)])
          /\ m \notin Elements(inbox[e])
      BY <2>1, <2>4, <3>7 DEF Apart, SeenOrQueued, Held
    <3>9. ASSUME NEW u \in Threads, EndOf(u) = e
          PROVE  /\ Distinct(batch'[u]) /\ m \notin Elements(batch'[u])
                 /\ Elements(batch'[u]) \subseteq Elements(batch[u])
      <4>1. CASE u = t
        BY <3>7, <4>1
      <4>2. CASE u # t
        BY <2>1, <2>4, <3>6, <3>7, <3>9, <4>2 DEF Apart, SeenOrQueued, Held
      <4> QED
        BY <4>1, <4>2
    <3>10. SeenOrQueued(e)'
      BY <2>2, <3>5, <3>8 DEF Apart, SeenOrQueued, Held
    <3>11. ASSUME NEW u \in Threads, EndOf(u) = e
           PROVE  Held(e, u)'
      <4>1. /\ Elements(batch[u]) \subseteq Elements(accepted[Peer(e)])
            /\ Elements(batch[u]) \cap (Elements(delivered[e]) \cup Elements(inbox[e])) = {}
        BY <3>11 DEF Apart, Held
      <4>2. /\ Distinct(batch'[u]) /\ m \notin Elements(batch'[u])
            /\ Elements(batch'[u]) \subseteq Elements(batch[u])
        BY <3>9, <3>11
      <4> QED
        BY <2>2, <3>5, <4>1, <4>2 DEF Held
    <3>12. \A u, v \in Threads : EndOf(u) = e /\ EndOf(v) = e /\ u # v =>
             Elements(batch'[u]) \cap Elements(batch'[v]) = {}
      <4>1. ASSUME NEW u \in Threads, NEW v \in Threads, EndOf(u) = e, EndOf(v) = e, u # v
            PROVE  Elements(batch'[u]) \cap Elements(batch'[v]) = {}
        <5>1. Elements(batch[u]) \cap Elements(batch[v]) = {}
          BY <4>1 DEF Apart
        <5>2. /\ Elements(batch'[u]) \subseteq Elements(batch[u])
              /\ Elements(batch'[v]) \subseteq Elements(batch[v])
          BY <3>9, <4>1
        <5> QED
          BY <5>1, <5>2
      <4> QED
        BY <4>1
    <3> QED
      BY <3>10, <3>11, <3>12 DEF Apart
  <2> QED
    BY <2>3, <2>4
<1>6. ASSUME NEW f \in Ends, DropInbox(f), UNCHANGED <<accepted, delivered>>,
             \A t \in Threads : batch'[t] = batch[t] \/ batch'[t] = <<>>
      PROVE  Apart(e)'
  BY <1>1, <1>6, <1>a DEF DropInbox
<1>7. ASSUME NEW f \in Ends, Die(f) PROVE Apart(e)'
  BY <1>6, <1>7 DEF Die, callerVars
<1>8. ASSUME UNCHANGED <<inbox, batch, accepted, delivered>> PROVE Apart(e)'
  BY <1>1, <1>8
<1> USE DEF kernelVars, readVars, callerVars
<1>9. ASSUME NEW t \in Threads, Close(t) \/ PollReturn(t) PROVE Apart(e)'
  <2>1. /\ UNCHANGED <<batch, accepted, delivered>>
        /\ UNCHANGED inbox \/ DropInbox(EndOf(t))
    BY <1>9 DEF Close, PollReturn
  <2> QED
    BY <1>6, <1>8, <2>1
<1>10. ASSUME NEW t \in Threads, SendCall(t) \/ TerminateCall(t) PROVE Apart(e)'
  BY <1>8, <1>10 DEF SendCall, TerminateCall
<1>11. ASSUME NEW t \in Threads, SendStep(t) PROVE Apart(e)'
  BY <1>2, <1>8, <1>9, <1>11 DEF SendStep, WriteLock, SendWouldBlock, PollCall,
     SendFails, SendBroken
<1>12. ASSUME NEW t \in Threads, ReadStep(t) PROVE Apart(e)'
  BY <1>3, <1>4, <1>5, <1>8, <1>12 DEF ReadStep, ReadCall, ReadLock, RecvStops,
     CallbackReturn, DispatchDone
<1>13. ASSUME NEW t \in Threads, TerminateStep(t) PROVE Apart(e)'
  BY <1>7, <1>8, <1>9, <1>13 DEF TerminateStep, CloseFails, CloseCheck, ClearHandle, Notify
<1> QED
  BY <1>7, <1>8, <1>10, <1>11, <1>12, <1>13 DEF Next, Crash, vars, EndsAssumption, Threads

\* A message moves from the queue to a batch and from a batch to the callback.
LEMMA SentIsSomewhereStep ==
  ASSUME EndsAssumption, TInv, SentIsSomewhere, [Next]_vars
  PROVE  SentIsSomewhere'
<1> USE EndsAndPeers DEF Goto, kernelVars, readVars, callerVars
<1>a. /\ inbox \in [Ends -> Seq(Messages)] /\ batch \in [Threads -> Seq(Messages)]
      /\ accepted \in [Ends -> Seq(Messages)] /\ delivered \in [Ends -> Seq(Messages)]
      /\ fd \in [Ends -> BOOLEAN] /\ eof \in [Threads -> BOOLEAN]
  BY DEF TInv, TypeOK
<1> SUFFICES ASSUME NEW e \in Ends, fd'[e], \A t \in Threads : EndOf(t) = e => ~eof'[t],
                    NEW m \in Elements(accepted'[Peer(e)])
             PROVE  SomewhereAt(e, m)'
  BY DEF SentIsSomewhere
<1>b. Peer(e) \in Ends /\ Peer(e) # e
  OBVIOUS
<1>1. ASSUME fd[e], UNCHANGED eof, m \in Elements(accepted[Peer(e)])
      PROVE  SomewhereAt(e, m)
  BY <1>1 DEF SentIsSomewhere
<1>2. ASSUME SomewhereAt(e, m), UNCHANGED <<delivered, inbox, batch>>
      PROVE  SomewhereAt(e, m)'
  BY <1>2 DEF SomewhereAt
<1>3. ASSUME fd[e], UNCHANGED <<eof, accepted, delivered, inbox, batch>>
      PROVE  SomewhereAt(e, m)'
  BY <1>1, <1>2, <1>3
<1>4. ASSUME NEW t \in Threads, Sent(t) PROVE SomewhereAt(e, m)'
  <2>1. PICK f \in Ends : f = EndOf(t)
    OBVIOUS
  <2>2. PICK n \in Messages : n = message[t]
    BY <1>4 DEF Sent, TInv, MessageInHand, InHand
  <2>3. /\ inbox' = [inbox EXCEPT ![Peer(f)] = Append(@, n)]
        /\ accepted' = [accepted EXCEPT ![f] = Append(@, n)]
        /\ UNCHANGED <<fd, eof, batch, delivered>>
    BY <1>4, <2>1, <2>2 DEF Sent
  <2>4. CASE f = e
    <3>1. accepted'[Peer(e)] = accepted[Peer(e)] /\ inbox'[e] = inbox[e]
      BY <1>a, <1>b, <2>3, <2>4
    <3> QED
      BY <1>1, <2>3, <3>1 DEF SomewhereAt
  <2>5. CASE f = Peer(e)
    <3>1. inbox'[e] = Append(inbox[e], n) /\ accepted'[Peer(e)] = Append(accepted[Peer(e)], n)
      BY <1>a, <1>b, <2>3, <2>5
    <3>2. /\ Elements(inbox'[e]) = Elements(inbox[e]) \cup {n}
          /\ Elements(accepted'[Peer(e)]) = Elements(accepted[Peer(e)]) \cup {n}
      <4>1. inbox[e] \in Seq(Messages) /\ accepted[Peer(e)] \in Seq(Messages)
        BY <1>a, <1>b
      <4> QED
        BY <3>1, <4>1, AppendToQueue
    <3>3. CASE m = n
      BY <3>2, <3>3 DEF SomewhereAt
    <3>4. CASE m # n
      BY <1>1, <2>3, <3>2, <3>4 DEF SomewhereAt
    <3> QED
      BY <3>3, <3>4
  <2> QED
    BY <2>4, <2>5
<1>5. ASSUME NEW t \in Threads, RecvMessage(t) PROVE SomewhereAt(e, m)'
  <2>1. PICK f \in Ends : f = EndOf(t)
    OBVIOUS
  <2>2. /\ inbox[f] # <<>>
        /\ batch' = [batch EXCEPT ![t] = Append(@, Head(inbox[f]))]
        /\ inbox' = [inbox EXCEPT ![f] = Tail(@)]
        /\ UNCHANGED <<fd, eof, accepted, delivered>>
    BY <1>5, <2>1 DEF RecvMessage
  <2>3. PICK queue, held \in Seq(Messages) : queue = inbox[f] /\ held = batch[t]
    BY <1>a
  <2>4. /\ Head(queue) \in Messages
        /\ Elements(queue) = Elements(Tail(queue)) \cup {Head(queue)}
    BY <2>2, <2>3, TakeFromQueue
  <2>5. Elements(Append(held, Head(queue))) = Elements(held) \cup {Head(queue)}
    BY <2>4, AppendToQueue
  <2>6. /\ inbox'[f] = Tail(queue) /\ \A g \in Ends \ {f} : inbox'[g] = inbox[g]
        /\ batch'[t] = Append(held, Head(queue))
        /\ \A u \in Threads \ {t} : batch'[u] = batch[u]
    BY <1>a, <2>2, <2>3
  <2>7. SomewhereAt(e, m)
    BY <1>1, <2>2
  <2>8. CASE m \in Elements(delivered[e])
    BY <2>2, <2>8 DEF SomewhereAt
  <2>9. CASE m \in Elements(inbox[e])
    BY <2>1, <2>3, <2>4, <2>5, <2>6, <2>9 DEF SomewhereAt
  <2>10. ASSUME NEW u \in Threads, EndOf(u) = e, m \in Elements(batch[u])
         PROVE  SomewhereAt(e, m)'
    <3>1. m \in Elements(batch'[u])
      BY <2>3, <2>5, <2>6, <2>10
    <3> QED
      BY <2>10, <3>1 DEF SomewhereAt
  <2> QED
    BY <2>7, <2>8, <2>9, <2>10 DEF SomewhereAt
<1>6. ASSUME NEW t \in Threads, RecvZero(t) PROVE SomewhereAt(e, m)'
  <2>1. PICK f \in Ends : f = EndOf(t)
    OBVIOUS
  <2>2. /\ eof' = [eof EXCEPT ![t] = TRUE]
        /\ inbox' = inbox \/ inbox' = [inbox EXCEPT ![f] = Tail(@)]
        /\ UNCHANGED <<fd, batch, accepted, delivered>>
    BY <1>6, <2>1 DEF RecvZero
  <2>3. f # e
    BY <1>a, <2>1, <2>2
  <2>4. inbox'[e] = inbox[e] /\ \A u \in Threads : EndOf(u) = e => ~eof[u]
    BY <1>a, <2>1, <2>2, <2>3
  <2>5. SomewhereAt(e, m)
    BY <2>2, <2>4 DEF SentIsSomewhere
  <2> QED
    BY <2>2, <2>4, <2>5 DEF SomewhereAt
<1>7. ASSUME NEW t \in Threads, Dispatch(t) PROVE SomewhereAt(e, m)'
  <2>1. PICK f \in Ends : f = EndOf(t)
    OBVIOUS
  <2>2. /\ batch[t] # <<>>
        /\ batch' = [batch EXCEPT ![t] = Tail(@)]
        /\ delivered' = [delivered EXCEPT ![f] = Append(@, Head(batch[t]))]
        /\ UNCHANGED <<fd, eof, inbox, accepted>>
    BY <1>7, <2>1 DEF Dispatch
  <2>3. PICK held, seen \in Seq(Messages) : held = batch[t] /\ seen = delivered[f]
    BY <1>a
  <2>4. /\ Head(held) \in Messages
        /\ Elements(held) = Elements(Tail(held)) \cup {Head(held)}
    BY <2>2, <2>3, TakeFromQueue
  <2>5. Elements(Append(seen, Head(held))) = Elements(seen) \cup {Head(held)}
    BY <2>4, AppendToQueue
  <2>6. /\ delivered'[f] = Append(seen, Head(held))
        /\ \A g \in Ends \ {f} : delivered'[g] = delivered[g]
        /\ batch'[t] = Tail(held)
        /\ \A u \in Threads \ {t} : batch'[u] = batch[u]
    BY <1>a, <2>2, <2>3
  <2>7. SomewhereAt(e, m)
    BY <1>1, <2>2
  <2>8. CASE m \in Elements(inbox[e])
    BY <2>2, <2>8 DEF SomewhereAt
  <2>9. CASE m \in Elements(delivered[e])
    <3>1. m \in Elements(delivered'[e])
      BY <2>3, <2>5, <2>6, <2>9
    <3> QED
      BY <3>1 DEF SomewhereAt
  <2>10. ASSUME NEW u \in Threads, EndOf(u) = e, m \in Elements(batch[u])
         PROVE  SomewhereAt(e, m)'
    <3>1. CASE u # t
      BY <2>6, <2>10, <3>1 DEF SomewhereAt
    <3>2. CASE u = t /\ m \in Elements(batch'[t])
      BY <2>10, <3>2 DEF SomewhereAt
    <3>3. CASE u = t /\ m \notin Elements(batch'[t])
      <4>1. m = Head(held) /\ f = e
        BY <2>1, <2>3, <2>4, <2>6, <2>10, <3>3
      <4>2. m \in Elements(delivered'[e])
        BY <2>5, <2>6, <4>1
      <4> QED
        BY <4>2 DEF SomewhereAt
    <3> QED
      BY <3>1, <3>2, <3>3
  <2> QED
    BY <2>7, <2>8, <2>9, <2>10 DEF SomewhereAt
<1>8. ASSUME NEW t \in Threads, Close(t) \/ PollReturn(t) PROVE SomewhereAt(e, m)'
  <2>1. /\ UNCHANGED <<eof, batch, accepted, delivered>>
        /\ fd[e]
        /\ inbox'[e] = inbox[e]
    <3>1. CASE Close(t)
      BY <3>1, <1>a DEF Close, DropInbox
    <3>2. CASE PollReturn(t)
      BY <3>2, <1>a DEF PollReturn, DropInbox
    <3> QED
      BY <1>8, <3>1, <3>2
  <2>2. SomewhereAt(e, m)
    BY <1>1, <2>1
  <2> QED
    BY <2>1, <2>2 DEF SomewhereAt
<1>9. ASSUME NEW f \in Ends, Die(f) PROVE SomewhereAt(e, m)'
  <2>1. /\ fd' = [fd EXCEPT ![f] = FALSE]
        /\ inbox' = [inbox EXCEPT ![f] = <<>>]
        /\ UNCHANGED <<accepted, delivered>>
        /\ batch' = [t \in Threads |-> IF EndOf(t) = f THEN <<>> ELSE batch[t]]
        /\ eof' = [t \in Threads |-> EndOf(t) # f /\ eof[t]]
    BY <1>9 DEF Die, DropInbox
  <2>2. f # e /\ fd[e] /\ inbox'[e] = inbox[e]
    BY <1>a, <2>1
  <2>3. \A t \in Threads : EndOf(t) = e => batch'[t] = batch[t]
    BY <2>1, <2>2
  <2>4. \A t \in Threads : EndOf(t) = e => ~eof[t]
    <3>1. ASSUME NEW t \in Threads, EndOf(t) = e PROVE ~eof[t]
      <4>1. eof'[t] = (EndOf(t) # f /\ eof[t])
        BY <2>1
      <4> QED
        BY <2>2, <3>1, <4>1
    <3> QED
      BY <3>1
  <2>5. SomewhereAt(e, m)
    BY <2>1, <2>2, <2>4 DEF SentIsSomewhere
  <2> QED
    BY <2>1, <2>2, <2>3, <2>5 DEF SomewhereAt
<1>10. ASSUME NEW t \in Threads, SendCall(t) \/ TerminateCall(t) PROVE SomewhereAt(e, m)'
  BY <1>3, <1>10 DEF SendCall, TerminateCall
<1>11. ASSUME NEW t \in Threads, SendStep(t) PROVE SomewhereAt(e, m)'
  BY <1>3, <1>4, <1>8, <1>11 DEF SendStep, WriteLock, SendWouldBlock, PollCall,
     SendFails, SendBroken
<1>12. ASSUME NEW t \in Threads, ReadStep(t) PROVE SomewhereAt(e, m)'
  BY <1>3, <1>5, <1>6, <1>7, <1>12 DEF ReadStep, ReadCall, ReadLock, RecvStops,
     CallbackReturn, DispatchDone
<1>13. ASSUME NEW t \in Threads, TerminateStep(t) PROVE SomewhereAt(e, m)'
  BY <1>3, <1>8, <1>9, <1>13 DEF TerminateStep, CloseFails, CloseCheck, ClearHandle, Notify
<1>14. ASSUME UNCHANGED vars PROVE SomewhereAt(e, m)'
  BY <1>3, <1>14 DEF vars
<1> QED
  BY <1>9, <1>10, <1>11, <1>12, <1>13, <1>14 DEF Next, Crash, EndsAssumption, Threads

\* A channel scheduled in two loopers is read by two threads that dispatch
\* their batches without the lock, so that messages overtake each other
\* (MCChannelTwoLoopers.cfg).  Overtake only: each is handed to the callback
\* once at most, was sent, and is lost neither between recvmsg() and the
\* callback nor between sendMessage() and the queue.
THEOREM MessagesOnlyOvertake ==
  ASSUME EndsAssumption, BoundsAssumption
  PROVE  Spec => [](DeliveredOnce /\ SentIsSomewhere)
<1> DEFINE Inv == TInv /\ Fresh /\ (\A e \in Ends : Apart(e)) /\ SentIsSomewhere
<1>1. Init => Inv
  <2> SUFFICES ASSUME Init PROVE Fresh /\ (\A e \in Ends : Apart(e)) /\ SentIsSomewhere
    BY TInvInit
  <2>1. /\ \A e \in Ends : accepted[e] = <<>> /\ delivered[e] = <<>> /\ inbox[e] = <<>>
        /\ \A t \in Threads : batch[t] = <<>> /\ pc[t] \notin InHand
    BY DEF Init, InHand
  <2>2. \A e \in Ends : Peer(e) \in Ends
    BY EndsAndPeers
  <2> QED
    BY <2>1, <2>2, EmptyQueue DEF Fresh, Apart, SeenOrQueued, Held, SentIsSomewhere
<1>2. Inv /\ [Next]_vars => Inv'
  BY TInvStep, FreshStep, ApartStep, SentIsSomewhereStep
<1>3. Inv => DeliveredOnce
  BY DEF Apart, SeenOrQueued, DeliveredOnce
<1> QED
  BY <1>1, <1>2, <1>3, PTL DEF Spec
=============================================================================
