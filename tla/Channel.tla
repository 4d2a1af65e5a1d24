------------------------------ MODULE Channel -------------------------------
(***************************************************************************)
(* Two connected cl::Channels (Source/Channel.cpp) over a socket pair      *)
(* (Source/Socket.cpp), each scheduled in the looper of one thread, with   *)
(* the kernel's SOCK_SEQPACKET queues between them.                        *)
(*                                                                         *)
(* The loop thread of an end is named like the end: it calls               *)
(* readMessageOnHandle() when the socket is readable and may send or       *)
(* terminate from a message callback or from another callback of its       *)
(* looper.  Users are further threads that send on, or terminate, the      *)
(* channel of one end, or loop over it.  Socket::_lock covers reading and  *)
(* writing; Channel::terminate() and Socket::close() take no lock.         *)
(*                                                                         *)
(* An end that may crash is a process of its own (Source/Server.cpp makes  *)
(* such ends) and dies with all its threads.  So does an end that fails an *)
(* assertion; if its peer is in the same process, what the peer does from  *)
(* there on is more than the program can do.                               *)
(*                                                                         *)
(* A step is one system call or one access to the fields shared by the     *)
(* threads of an end.  The n-th sendMessage() of an end sends message n.   *)
(***************************************************************************)
EXTENDS Naturals, Sequences

CONSTANTS
  A, B,           \* the two ends, and their loop threads
  Users,          \* other threads
  UserEnd,        \* UserEnd[u]: the end whose channel thread u uses
  MoreLoops,      \* the users in whose looper the channel is scheduled, too
  Senders,        \* the threads that may call sendMessage()
  Closers,        \* the threads that may call terminate()
  Crashes,        \* the ends whose process may be killed
  Nobody,         \* no thread holds the lock
  Capacity,       \* packets a queue holds before sendmsg() gives EAGAIN
  LowWater,       \* packets left in the queue when poll() says POLLOUT
  MaxSends,       \* bound: sendMessage() calls per end
  Empty           \* the messages without a byte of data

Ends == {A, B}
Threads == Ends \cup Users
Messages == 1 .. MaxSends

ASSUME EndsAssumption ==
  /\ A # B
  /\ Users \cap Ends = {}
  /\ UserEnd \in [Users -> Ends]
  /\ MoreLoops \subseteq Users
  /\ Nobody \notin Threads
ASSUME BoundsAssumption ==
  /\ Capacity \in Nat \ {0}
  /\ LowWater \in 0 .. Capacity - 1
  /\ MaxSends \in Nat
  /\ Empty \subseteq Messages

Peer(e) == IF e = A THEN B ELSE A
EndOf(t) == IF t \in Ends THEN t ELSE UserEnd[t]

VARIABLES
  fd,           \* fd[e]: is the descriptor of end e's socket open?
  inbox,        \* inbox[e]: packets queued in the kernel for end e
  reset,        \* reset[e]: end e has an unreported ECONNRESET
  handle,       \* handle[e]: is Socket::_handle other than -1?
  connected,    \* Channel::_connected (and _ready, which changes with it)
  lock,         \* lock[e]: the thread that holds Socket::_lock
  batch,        \* batch[t]: messages thread t has read and not dispatched yet
  eof,          \* eof[t]: ReadMessages() returned PermanentFailure to t, which
                \* terminates the channel
  pc,           \* control point of each thread
  back,         \* back[t]: where the current call of thread t returns to
  message,      \* message[t]: the argument of sendMessage()
  sends,        \* sends[e]: sendMessage() calls so far
  accepted,     \* accepted[e]: messages of end e that were sent
  delivered,    \* delivered[e]: messages handed to end e's callback
  notified      \* notified[e]: calls of end e's termination callback

kernelVars == <<fd, inbox, reset>>
fieldVars == <<handle, connected>>
readVars == <<batch, eof>>
sendVars == <<message, sends>>
callerVars == <<accepted, delivered, notified>>
vars == <<kernelVars, fieldVars, lock, readVars, pc, back, sendVars, callerVars>>

\* Where user code runs: in the thread itself, or in a message callback.
UserPoints == {"idle", "callback"}
Points == UserPoints \cup {"r_lock", "recv", "dispatch",
                           "w_lock", "send", "eagain", "poll", "asleep",
                           "check", "close", "clear", "notify", "dead"}

Init ==
  /\ fd = [e \in Ends |-> TRUE]
  /\ inbox = [e \in Ends |-> <<>>]
  /\ reset = [e \in Ends |-> FALSE]
  /\ handle = [e \in Ends |-> TRUE]
  /\ connected = [e \in Ends |-> TRUE]
  /\ lock = [e \in Ends |-> Nobody]
  /\ batch = [t \in Threads |-> <<>>]
  /\ eof = [t \in Threads |-> FALSE]
  /\ pc = [t \in Threads |-> "idle"]
  /\ back = [t \in Threads |-> "idle"]
  /\ message = [t \in Threads |-> 0]
  /\ sends = [e \in Ends |-> 0]
  /\ accepted = [e \in Ends |-> <<>>]
  /\ delivered = [e \in Ends |-> <<>>]
  /\ notified = [e \in Ends |-> 0]

Goto(t, from, to) ==
  /\ pc[t] = from
  /\ pc' = [pc EXCEPT ![t] = to]

Acquire(t) ==
  /\ lock[EndOf(t)] = Nobody
  /\ lock' = [lock EXCEPT ![EndOf(t)] = t]

Release(t) == lock' = [lock EXCEPT ![EndOf(t)] = Nobody]

-----------------------------------------------------------------------------
(* The kernel. *)

\* A system call on _handle fails with EBADF.
BadHandle(e) == ~handle[e] \/ ~fd[e]

\* The socket of end e is released: its descriptor is closed and no thread
\* sleeps in poll() on it, which keeps the socket open.
Gone(e) == ~fd[e] /\ \A t \in Threads : EndOf(t) = e => pc[t] # "poll"

\* What the release does: the packets end e has not read are dropped, which
\* the peer learns as ECONNRESET, once.
DropInbox(e) ==
  /\ inbox' = [inbox EXCEPT ![e] = <<>>]
  /\ reset' = [reset EXCEPT ![Peer(e)] = @ \/ inbox[e] # <<>>]

\* epoll reports the socket of end e: a packet, an error or a hang-up.  A
\* socket leaves the epoll set when it is released.
Readable(e) == ~Gone(e) /\ (inbox[e] # <<>> \/ reset[e] \/ Gone(Peer(e)))

Writable(e) == Len(inbox[Peer(e)]) <= LowWater \/ reset[e] \/ Gone(Peer(e))

-----------------------------------------------------------------------------
(* Channel::sendMessage() and Socket::WriteMessage(). *)

SendCall(t) ==
  LET e == EndOf(t) IN
  /\ t \in Senders
  /\ pc[t] \in UserPoints
  /\ sends[e] < MaxSends
  /\ sends' = [sends EXCEPT ![e] = @ + 1]
  /\ message' = [message EXCEPT ![t] = sends[e] + 1]
  /\ back' = [back EXCEPT ![t] = pc[t]]
  /\ pc' = [pc EXCEPT ![t] = "w_lock"]
  /\ UNCHANGED <<kernelVars, fieldVars, lock, readVars, callerVars>>

WriteLock(t) ==
  /\ Goto(t, "w_lock", "send")
  /\ Acquire(t)
  /\ UNCHANGED <<kernelVars, fieldVars, readVars, back, sendVars, callerVars>>

\* Mutant: the socket buffers are not limited.
Sent_Unlimited(t) ==
  LET e == EndOf(t) IN
  /\ ~BadHandle(e) /\ ~reset[e] /\ ~Gone(Peer(e))
  /\ Goto(t, "send", back[t])
  /\ Release(t)
  /\ inbox' = [inbox EXCEPT ![Peer(e)] = Append(@, message[t])]
  /\ accepted' = [accepted EXCEPT ![e] = Append(@, message[t])]
  /\ UNCHANGED <<fd, reset, fieldVars, readVars, back, sendVars, delivered, notified>>

\* sendmsg() queues the packet: Success.
Sent(t) ==
  LET e == EndOf(t) IN
  /\ ~BadHandle(e) /\ ~reset[e] /\ ~Gone(Peer(e))
  /\ Len(inbox[Peer(e)]) < Capacity
  /\ Goto(t, "send", back[t])
  /\ Release(t)
  /\ inbox' = [inbox EXCEPT ![Peer(e)] = Append(@, message[t])]
  /\ accepted' = [accepted EXCEPT ![e] = Append(@, message[t])]
  /\ UNCHANGED <<fd, reset, fieldVars, readVars, back, sendVars, delivered, notified>>

\* EAGAIN, the lock still held.
SendWouldBlock(t) ==
  LET e == EndOf(t) IN
  /\ ~BadHandle(e) /\ ~reset[e] /\ ~Gone(Peer(e))
  /\ Len(inbox[Peer(e)]) = Capacity
  /\ Goto(t, "send", "eagain")
  /\ UNCHANGED <<kernelVars, fieldVars, lock, readVars, back, sendVars, callerVars>>

\* poll() without a timeout, on what _handle is by now: a descriptor that was
\* closed is reported at once (POLLNVAL), and -1 is ignored, so that nothing
\* wakes the thread any more.
PollCall(t) ==
  LET e == EndOf(t) IN
  /\ \/ handle[e] /\ fd[e] /\ Goto(t, "eagain", "poll")
     \/ handle[e] /\ ~fd[e] /\ Goto(t, "eagain", "send")
     \/ ~handle[e] /\ Goto(t, "eagain", "asleep")
  /\ UNCHANGED <<kernelVars, fieldVars, lock, readVars, back, sendVars, callerVars>>

\* EBADF, or ECONNRESET (reported once): TemporaryFailure.
SendFails(t) ==
  LET e == EndOf(t) IN
  /\ BadHandle(e) \/ reset[e]
  /\ Goto(t, "send", back[t])
  /\ Release(t)
  /\ reset' = [reset EXCEPT ![e] = BadHandle(e) /\ @]
  /\ UNCHANGED <<fd, inbox, fieldVars, readVars, back, sendVars, callerVars>>

\* EPIPE (and no SIGPIPE, on a SOCK_SEQPACKET socket): PermanentFailure, and
\* sendMessage() terminates the channel.
SendBroken(t) ==
  LET e == EndOf(t) IN
  /\ ~BadHandle(e) /\ ~reset[e] /\ Gone(Peer(e))
  /\ Goto(t, "send", "check")
  /\ Release(t)
  /\ UNCHANGED <<kernelVars, fieldVars, readVars, back, sendVars, callerVars>>

\* Mutant: what poll() let through is taken as sent.
PollReturn_NoRetry(t) ==
  LET e == EndOf(t) IN
  /\ Writable(e)
  /\ Goto(t, "poll", back[t])
  /\ Release(t)
  /\ accepted' = [accepted EXCEPT ![e] = Append(@, message[t])]
  /\ IF fd[e] THEN UNCHANGED <<inbox, reset>> ELSE DropInbox(e)
  /\ UNCHANGED <<fd, fieldVars, readVars, back, sendVars, delivered, notified>>

\* poll() returns and sendmsg() is tried again.  If the descriptor was closed
\* meanwhile, this is what releases the socket.
PollReturn(t) ==
  LET e == EndOf(t) IN
  /\ Writable(e)
  /\ Goto(t, "poll", "send")
  /\ IF fd[e] THEN UNCHANGED <<inbox, reset>> ELSE DropInbox(e)
  /\ UNCHANGED <<fd, fieldVars, lock, readVars, back, sendVars, callerVars>>

-----------------------------------------------------------------------------
(* Channel::readMessageOnHandle() and Socket::ReadMessages(), on a loop    *)
(* thread t of the end.                                                    *)

\* WaitSet::wait() returned the channel's source to loop().  A loop() that a
\* message callback calls is not one of t: it does what the loop of a user in
\* MoreLoops does while t stays in the callback.
ReadCall(t) ==
  LET e == EndOf(t) IN
  /\ Readable(e)
  /\ Goto(t, "idle", "r_lock")
  /\ UNCHANGED <<kernelVars, fieldVars, lock, readVars, back, sendVars, callerVars>>

ReadLock(t) ==
  /\ Goto(t, "r_lock", "recv")
  /\ Acquire(t)
  /\ UNCHANGED <<kernelVars, fieldVars, readVars, back, sendVars, callerVars>>

\* recvmsg() returns a packet with data: keep it and try for more.
RecvMessage(t) ==
  LET e == EndOf(t) IN
  /\ pc[t] = "recv"
  /\ ~BadHandle(e) /\ ~reset[e]
  /\ inbox[e] # <<>> /\ Head(inbox[e]) \notin Empty
  /\ batch' = [batch EXCEPT ![t] = Append(@, Head(inbox[e]))]
  /\ inbox' = [inbox EXCEPT ![e] = Tail(@)]
  /\ UNCHANGED <<fd, reset, fieldVars, lock, eof, pc, back, sendVars, callerVars>>

\* Mutant: every error but EAGAIN is permanent.
RecvZero_AnyError(t) ==
  LET e == EndOf(t) IN
  /\ ~BadHandle(e)
  /\ reset[e] \/ (inbox[e] = <<>> /\ Gone(Peer(e)))
  /\ Goto(t, "recv", "dispatch")
  /\ Release(t)
  /\ eof' = [eof EXCEPT ![t] = TRUE]
  /\ UNCHANGED <<kernelVars, fieldVars, batch, back, sendVars, callerVars>>

\* recvmsg() returns 0, for a hang-up or for a packet without data:
\* PermanentFailure.
RecvZero(t) ==
  LET e == EndOf(t) IN
  /\ ~BadHandle(e) /\ ~reset[e]
  /\ \/ /\ inbox[e] = <<>> /\ Gone(Peer(e))
        /\ UNCHANGED inbox
     \/ /\ inbox[e] # <<>> /\ Head(inbox[e]) \in Empty
        /\ inbox' = [inbox EXCEPT ![e] = Tail(@)]
  /\ Goto(t, "recv", "dispatch")
  /\ Release(t)
  /\ eof' = [eof EXCEPT ![t] = TRUE]
  /\ UNCHANGED <<fd, reset, fieldVars, batch, back, sendVars, callerVars>>

\* Mutant: the lock is kept on the way out.
RecvStops_KeepsLock(t) ==
  LET e == EndOf(t) IN
  /\ BadHandle(e) \/ reset[e] \/ (inbox[e] = <<>> /\ ~Gone(Peer(e)))
  /\ Goto(t, "recv", "dispatch")
  /\ reset' = [reset EXCEPT ![e] = BadHandle(e) /\ @]
  /\ UNCHANGED <<fd, inbox, fieldVars, lock, readVars, back, sendVars, callerVars>>

\* EAGAIN (Success), or EBADF or ECONNRESET (TemporaryFailure), which the
\* caller does not tell apart.
RecvStops(t) ==
  LET e == EndOf(t) IN
  /\ BadHandle(e) \/ reset[e] \/ (inbox[e] = <<>> /\ ~Gone(Peer(e)))
  /\ Goto(t, "recv", "dispatch")
  /\ Release(t)
  /\ reset' = [reset EXCEPT ![e] = BadHandle(e) /\ @]
  /\ UNCHANGED <<fd, inbox, fieldVars, readVars, back, sendVars, callerVars>>

\* Mutant: the batch is dispatched from its end.
Dispatch_LastFirst(t) ==
  LET e == EndOf(t) IN
  /\ batch[t] # <<>>
  /\ Goto(t, "dispatch", "callback")
  /\ batch' = [batch EXCEPT ![t] = SubSeq(@, 1, Len(@) - 1)]
  /\ delivered' = [delivered EXCEPT ![e] = Append(@, batch[t][Len(batch[t])])]
  /\ UNCHANGED <<kernelVars, fieldVars, lock, eof, back, sendVars, accepted, notified>>

\* The next message of the batch is handed to the message callback.
Dispatch(t) ==
  LET e == EndOf(t) IN
  /\ batch[t] # <<>>
  /\ Goto(t, "dispatch", "callback")
  /\ batch' = [batch EXCEPT ![t] = Tail(@)]
  /\ delivered' = [delivered EXCEPT ![e] = Append(@, Head(batch[t]))]
  /\ UNCHANGED <<kernelVars, fieldVars, lock, eof, back, sendVars, accepted, notified>>

CallbackReturn(t) ==
  /\ Goto(t, "callback", "dispatch")
  /\ UNCHANGED <<kernelVars, fieldVars, lock, readVars, back, sendVars, callerVars>>

\* Mutant: the status of the read is ignored.
DispatchDone_IgnoresStatus(t) ==
  /\ batch[t] = <<>>
  /\ Goto(t, "dispatch", "idle")
  /\ back' = [back EXCEPT ![t] = "idle"]
  /\ UNCHANGED <<kernelVars, fieldVars, lock, readVars, sendVars, callerVars>>

\* The batch is dispatched; after a PermanentFailure the channel terminates.
DispatchDone(t) ==
  /\ batch[t] = <<>>
  /\ Goto(t, "dispatch", IF eof[t] THEN "check" ELSE "idle")
  /\ back' = [back EXCEPT ![t] = "idle"]
  /\ UNCHANGED <<kernelVars, fieldVars, lock, readVars, sendVars, callerVars>>

-----------------------------------------------------------------------------
(* Channel::terminate() and Socket::close(), from user code, from a failed *)
(* sendMessage() and from a failed read.                                   *)

TerminateCall(t) ==
  /\ t \in Closers
  /\ pc[t] \in UserPoints
  /\ back' = [back EXCEPT ![t] = pc[t]]
  /\ pc' = [pc EXCEPT ![t] = "check"]
  /\ UNCHANGED <<kernelVars, fieldVars, lock, readVars, sendVars, callerVars>>

\* Mutant: terminate() ignores what close() returned.
CloseCheck_AlwaysNotifies(t) ==
  LET e == EndOf(t) IN
  /\ Goto(t, "check", IF handle[e] THEN "close" ELSE "notify")
  /\ UNCHANGED <<kernelVars, fieldVars, lock, readVars, back, sendVars, callerVars>>

\* if (_handle != -1); otherwise close() returns false and only the flags
\* are written.
CloseCheck(t) ==
  LET e == EndOf(t) IN
  /\ \/ /\ handle[e]
        /\ Goto(t, "check", "close")
        /\ UNCHANGED connected
     \/ /\ ~handle[e]
        /\ Goto(t, "check", back[t])
        /\ connected' = [connected EXCEPT ![e] = FALSE]
  /\ UNCHANGED <<kernelVars, handle, lock, readVars, back, sendVars, callerVars>>

\* ::close(_handle)
Close(t) ==
  LET e == EndOf(t) IN
  /\ fd[e]
  /\ Goto(t, "close", "clear")
  /\ fd' = [fd EXCEPT ![e] = FALSE]
  /\ IF \E u \in Threads : EndOf(u) = e /\ pc[u] = "poll"
       THEN UNCHANGED <<inbox, reset>>
       ELSE DropInbox(e)
  /\ UNCHANGED <<fieldVars, lock, readVars, back, sendVars, callerVars>>

\* _handle = -1
ClearHandle(t) ==
  /\ Goto(t, "clear", "notify")
  /\ handle' = [handle EXCEPT ![EndOf(t)] = FALSE]
  /\ UNCHANGED <<kernelVars, connected, lock, readVars, back, sendVars, callerVars>>

\* The flags are cleared and the termination callback runs.
Notify(t) ==
  LET e == EndOf(t) IN
  /\ Goto(t, "notify", back[t])
  /\ connected' = [connected EXCEPT ![e] = FALSE]
  /\ notified' = [notified EXCEPT ![e] = @ + 1]
  /\ UNCHANGED <<kernelVars, handle, lock, readVars, back, sendVars, accepted, delivered>>

-----------------------------------------------------------------------------
\* The process of end e dies: its threads and their memory are gone, and the
\* kernel closes its descriptor.
Die(e) ==
  /\ pc' = [t \in Threads |-> IF EndOf(t) = e THEN "dead" ELSE pc[t]]
  /\ fd' = [fd EXCEPT ![e] = FALSE]
  /\ DropInbox(e)
  /\ handle' = [handle EXCEPT ![e] = FALSE]
  /\ lock' = [lock EXCEPT ![e] = Nobody]
  /\ batch' = [t \in Threads |-> IF EndOf(t) = e THEN <<>> ELSE batch[t]]
  /\ eof' = [t \in Threads |-> EndOf(t) # e /\ eof[t]]
  /\ UNCHANGED <<connected, back, sendVars, callerVars>>

\* It is killed.
Crash(e) ==
  /\ e \in Crashes
  /\ pc[e] # "dead"
  /\ Die(e)

\* CL_CHECK(::close(_handle)) fails: another thread has closed the descriptor
\* since _handle was compared.
CloseFails(t) ==
  /\ pc[t] = "close"
  /\ ~fd[EndOf(t)]
  /\ Die(EndOf(t))

SendStep(t) ==
  \/ WriteLock(t) \/ Sent(t) \/ SendWouldBlock(t) \/ SendFails(t)
  \/ SendBroken(t) \/ PollCall(t) \/ PollReturn(t)

ReadStep(t) ==
  \/ ReadCall(t) \/ ReadLock(t) \/ RecvMessage(t) \/ RecvZero(t) \/ RecvStops(t)
  \/ Dispatch(t) \/ CallbackReturn(t) \/ DispatchDone(t)

TerminateStep(t) ==
  CloseCheck(t) \/ Close(t) \/ CloseFails(t) \/ ClearHandle(t) \/ Notify(t)

Next ==
  \/ \E t \in Threads : SendCall(t) \/ TerminateCall(t)
  \/ \E t \in Threads : SendStep(t) \/ TerminateStep(t)
  \/ \E t \in Ends \cup MoreLoops : ReadStep(t)
  \/ \E e \in Ends : Crash(e)

\* Every thread that can run runs, the loop threads stay in loop() and
\* message callbacks return.  Nobody has to call anything.
Fairness ==
  /\ \A u \in Users \ MoreLoops : WF_vars(SendStep(u) \/ TerminateStep(u))
  /\ \A t \in Ends \cup MoreLoops :
       WF_vars(SendStep(t) \/ TerminateStep(t) \/ ReadStep(t))

Spec == Init /\ [][Next]_vars /\ Fairness

-----------------------------------------------------------------------------
TypeOK ==
  /\ fd \in [Ends -> BOOLEAN]
  /\ inbox \in [Ends -> Seq(Messages)]
  /\ \A e \in Ends : Len(inbox[e]) <= Capacity
  /\ reset \in [Ends -> BOOLEAN]
  /\ handle \in [Ends -> BOOLEAN]
  /\ connected \in [Ends -> BOOLEAN]
  /\ lock \in [Ends -> Threads \cup {Nobody}]
  /\ batch \in [Threads -> Seq(Messages)]
  /\ eof \in [Threads -> BOOLEAN]
  /\ pc \in [Threads -> Points]
  /\ back \in [Threads -> UserPoints]
  /\ message \in [Threads -> 0 .. MaxSends]
  /\ sends \in [Ends -> 0 .. MaxSends]
  /\ accepted \in [Ends -> Seq(Messages)]
  /\ delivered \in [Ends -> Seq(Messages)]
  /\ notified \in [Ends -> Nat]

\* While end e reads, what its peer sent is what e's callback saw, then
\* what its loop thread holds, then what the kernel queues: nothing is lost,
\* duplicated or reordered by the batch reads or by the retries in poll().
NothingLost ==
  \A e \in Ends :
    fd[e] /\ ~eof[e] => accepted[Peer(e)] = delivered[e] \o batch[e] \o inbox[e]

\* The end of a connection is reported behind everything the peer sent: a read
\* that ends the channel, if no packet without data was sent, found a peer that
\* is gone and has fetched every message.
EofIsComplete ==
  \A e \in Ends :
    (eof[e] /\ \A i \in DOMAIN accepted[Peer(e)] : accepted[Peer(e)][i] \notin Empty) =>
      /\ Gone(Peer(e))
      /\ accepted[Peer(e)] = delivered[e] \o batch[e]

\* A read that ends the channel found a peer that has shut down (not if a
\* packet without data is sent: MCChannelEmpty.cfg).
EofIsHangUp ==
  \A e \in Ends : eof[e] => Gone(Peer(e))

\* The termination callback runs once, after the descriptor is closed,
\* however terminate() calls nest or follow each other.
NotifiedOnce ==
  \A e \in Ends :
    /\ notified[e] <= 1
    /\ notified[e] = 1 => ~fd[e] /\ ~handle[e]

\* close() is only called on a descriptor that is open (it is not, in
\* MCChannelTwoClosers.cfg).
CloseSucceeds ==
  \A t \in Threads : pc[t] = "close" => fd[EndOf(t)]

\* A writer in poll() can still be woken (not in MCChannelAsleep.cfg).
PollCanReturn ==
  \A t \in Threads : pc[t] # "asleep"

\* Reading does not block the loop: readMessageOnHandle() gets past the lock.
ReadsDoNotBlock ==
  \A e \in Ends : pc[e] = "r_lock" ~> pc[e] # "r_lock"

\* When one end is gone, terminated or killed, the other end's channel ends as
\* well: the termination callback has run, or its process is gone too.
HangUpIsNoticed ==
  \A e \in Ends : Gone(Peer(e)) ~> notified[e] = 1 \/ pc[e] = "dead"

\* The two directions of the pair.
ToB == INSTANCE MessagePipe WITH accepted <- accepted[A], delivered <- delivered[B]
ToA == INSTANCE MessagePipe WITH accepted <- accepted[B], delivered <- delivered[A]

PipeIsSafe == ToA!Safety /\ ToB!Safety
PipeDelivers == ToB!Spec
=============================================================================
