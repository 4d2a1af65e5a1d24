------------------------------- MODULE Looper -------------------------------
(***************************************************************************)
(* cl::Looper (Source/Looper.cpp) with its trivial source, the pipe that   *)
(* LooperSource::AsTrivial builds (Source/LooperSource.cpp) and whose      *)
(* handles LooperSource::handles() allocates lazily.                       *)
(*                                                                         *)
(* One thread, Owner, runs loop(); the threads of Terminators hold the     *)
(* Looper pointer and call terminate(), which takes no lock.  A step is    *)
(* one access to shared memory or one system call, so the steps of loop()  *)
(* and of the terminate() calls interleave as threads do.                  *)
(*                                                                         *)
(* Nothing makes terminate() wait for the first loop() to have built and   *)
(* registered the trivial source.  A call that comes before finds a null   *)
(* pointer, or allocates the handles at the same time as loop() does.      *)
(*                                                                         *)
(* Each thread creates at most one pipe (it finds _handlesAllocated set    *)
(* from then on), so a pipe is named by the thread that created it.        *)
(***************************************************************************)
EXTENDS Naturals, FiniteSets

CONSTANTS
  Owner,          \* the thread whose Looper::Current() this looper is
  Terminators,    \* other threads that call terminate() on it
  Sources,        \* the user's sources in the wait set (timers, channels...)
  None,           \* no pipe: Handles(-1, -1), or nothing registered
  MaxDepth,       \* bound: loop() calls nested through callbacks
  PipeCapacity,   \* wake messages a pipe holds before write() blocks
  OwnFlood        \* may the owner call terminate() on a pipe that is full?

Threads == Terminators \cup {Owner}

ASSUME ThreadsAssumption ==
  /\ IsFiniteSet(Terminators)
  /\ Owner \notin Terminators
  /\ None \notin Threads
ASSUME BoundsAssumption ==
  /\ MaxDepth \in Nat \ {0}
  /\ PipeCapacity \in Nat \ {0}
  /\ OwnFlood \in BOOLEAN

VARIABLES
  shouldTerminate,  \* Looper::_shouldTerminate, a plain bool
  trivialSource,    \* is Looper::_trivialSource set?
  allocated,        \* the trivial source's _handlesAllocated
  handles,          \* the trivial source's _handles: a pipe, or None
  pipes,            \* the pipes created so far
  watched,          \* the pipe registered in the wait set, or None
  wakes,            \* wakes[p]: unread LooperWakeMessages in pipe p
  ready,            \* user sources whose handle is readable
  depth,            \* active loop() calls of the owner
  pc,               \* control point of each thread
  handle,           \* handle[t]: what handles() last returned to thread t
  early             \* history: who called terminate() before the set-up was over

vars == <<shouldTerminate, trivialSource, allocated, handles, pipes, watched,
          wakes, ready, depth, pc, handle, early>>
allocVars == <<allocated, handles, pipes>>
pipeVars == <<allocVars, watched, wakes>>

LoopPoints == {"create", "register", "check", "wait", "drain", "callback", "reset"}
TerminatePoints == {"deref", "write"}
HandlesPoints == {"h_check", "h_alloc", "h_return"}

Init ==
  /\ shouldTerminate = FALSE
  /\ trivialSource = FALSE
  /\ allocated = FALSE
  /\ handles = None
  /\ pipes = {}
  /\ watched = None
  /\ wakes = [p \in Threads |-> 0]
  /\ ready = {}
  /\ depth = 0
  /\ pc = [t \in Threads |-> "idle"]
  /\ handle = [t \in Threads |-> None]
  /\ early = {}

Goto(t, from, to) ==
  /\ pc[t] = from
  /\ pc' = [pc EXCEPT ![t] = to]

-----------------------------------------------------------------------------
(* LooperSource::handles() of the trivial source, called by loop() through *)
(* addSource -> updateInWaitSetHandle -> readHandle and by terminate()     *)
(* through writeHandle.  It is not synchronised.                           *)

\* Mutant: the handles are allocated on every call.
HandlesCheck_Always(t) ==
  /\ Goto(t, "h_check", "h_alloc")
  /\ UNCHANGED <<shouldTerminate, trivialSource, pipeVars, ready, depth, handle, early>>

HandlesCheck(t) ==
  /\ Goto(t, "h_check", IF allocated THEN "h_return" ELSE "h_alloc")
  /\ UNCHANGED <<shouldTerminate, trivialSource, pipeVars, ready, depth, handle, early>>

\* The allocator of AsTrivial: a new pipe replaces what _handles held.
HandlesAlloc(t) ==
  /\ Goto(t, "h_alloc", "h_return")
  /\ handles' = t
  /\ pipes' = pipes \cup {t}
  /\ allocated' = TRUE
  /\ UNCHANGED <<shouldTerminate, trivialSource, watched, wakes, ready, depth, handle, early>>

\* Back to addSource when the owner is setting up, to terminate() otherwise.
HandlesReturn(t) ==
  /\ Goto(t, "h_return", IF t = Owner /\ watched = None THEN "register" ELSE "write")
  /\ handle' = [handle EXCEPT ![t] = handles]
  /\ UNCHANGED <<shouldTerminate, trivialSource, pipeVars, ready, depth, early>>

-----------------------------------------------------------------------------
(* Looper::loop() on the owner's thread. *)

\* Mutant: loop() clears the flag when it starts.
LoopEnter_ClearsFlag ==
  /\ depth < MaxDepth
  /\ \E from \in {"idle", "callback"} :
       Goto(Owner, from, IF trivialSource THEN "check" ELSE "create")
  /\ depth' = depth + 1
  /\ shouldTerminate' = FALSE
  /\ UNCHANGED <<trivialSource, pipeVars, ready, handle, early>>

\* loop() is called, from the thread's own code or from a callback.
LoopEnter ==
  /\ depth < MaxDepth
  /\ \E from \in {"idle", "callback"} :
       Goto(Owner, from, IF trivialSource THEN "check" ELSE "create")
  /\ depth' = depth + 1
  /\ UNCHANGED <<shouldTerminate, trivialSource, pipeVars, ready, handle, early>>

\* _trivialSource = AsTrivial(); addSource goes on to ask for its handles.
CreateTrivial ==
  /\ Goto(Owner, "create", "h_check")
  /\ trivialSource' = TRUE
  /\ UNCHANGED <<shouldTerminate, pipeVars, ready, depth, handle, early>>

\* addSource ends by registering the read handle in the wait set.
Register ==
  /\ Goto(Owner, "register", "check")
  /\ watched' = handle[Owner]
  /\ UNCHANGED <<shouldTerminate, trivialSource, allocVars, wakes, ready,
                 depth, handle, early>>

\* while (!_shouldTerminate)
CheckFlag ==
  /\ Goto(Owner, "check", IF shouldTerminate THEN "reset" ELSE "wait")
  /\ UNCHANGED <<shouldTerminate, trivialSource, pipeVars, ready, depth, handle, early>>

\* Mutant: wait() does not look at the number of events epoll_wait() gave.
WaitTrivial_AnyResult ==
  /\ Goto(Owner, "wait", "drain")
  /\ watched # None
  /\ UNCHANGED <<shouldTerminate, trivialSource, pipeVars, ready, depth, handle, early>>

\* WaitSet::wait() returns the trivial source: a watched wake is unread.
WaitTrivial ==
  /\ Goto(Owner, "wait", "drain")
  /\ watched # None
  /\ wakes[watched] > 0
  /\ UNCHANGED <<shouldTerminate, trivialSource, pipeVars, ready, depth, handle, early>>

\* Its reader reads one message from readHandle() and blocks if there is none.
ReadWake ==
  /\ Goto(Owner, "drain", "check")
  /\ wakes[handles] > 0
  /\ wakes' = [wakes EXCEPT ![handles] = @ - 1]
  /\ UNCHANGED <<shouldTerminate, trivialSource, allocVars, watched, ready,
                 depth, handle, early>>

\* wait() returns a user source: its reader drains it and user code runs,
\* in the reader or in the wake function.
WaitSource(s) ==
  /\ Goto(Owner, "wait", "callback")
  /\ s \in ready
  /\ ready' = ready \ {s}
  /\ UNCHANGED <<shouldTerminate, trivialSource, pipeVars, depth, handle, early>>

\* The user code returns to the while loop.
CallbackReturn ==
  /\ Goto(Owner, "callback", "check")
  /\ UNCHANGED <<shouldTerminate, trivialSource, pipeVars, ready, depth, handle, early>>

\* _shouldTerminate = false; loop() returns, to the callback that nested it.
Reset ==
  /\ Goto(Owner, "reset", IF depth = 1 THEN "idle" ELSE "callback")
  /\ shouldTerminate' = FALSE
  /\ depth' = depth - 1
  /\ UNCHANGED <<trivialSource, pipeVars, ready, handle, early>>

-----------------------------------------------------------------------------
(* Looper::terminate() on any thread, the owner's included. *)

\* Is thread t on its way to write a wake message?
Terminating(t) == pc[t] \in TerminatePoints \cup HandlesPoints

\* Is there room in the pipe for one more than the wake messages in it and
\* those on their way?
RoomForWake ==
  \A p \in Threads :
    wakes[p] + Cardinality({t \in Threads : Terminating(t)}) < PipeCapacity

\* The other threads may call terminate() as often as they like.  The owner,
\* who is the only reader, does so when its write() will not block.
MayTerminate(t) ==
  \/ OwnFlood
  \/ RoomForWake
  \/ t # Owner /\ ~Terminating(Owner)

\* _shouldTerminate = true
TerminateSetFlag(t) ==
  /\ MayTerminate(t)
  /\ \/ Goto(t, "idle", "deref")
     \/ Goto(t, "callback", "deref")
  /\ shouldTerminate' = TRUE
  /\ early' = IF watched = None THEN early \cup {t} ELSE early
  /\ UNCHANGED <<trivialSource, pipeVars, ready, depth, handle>>

\* Mutant: terminate() sets the flag and does not signal the source.
TerminateDeref_FlagOnly(t) ==
  /\ trivialSource
  /\ Goto(t, "deref", IF t = Owner /\ depth > 0 THEN "callback" ELSE "idle")
  /\ UNCHANGED <<shouldTerminate, trivialSource, pipeVars, ready, depth, handle, early>>

\* _trivialSource->writer() and _trivialSource->writeHandle().
TerminateDeref(t) ==
  /\ trivialSource
  /\ Goto(t, "deref", "h_check")
  /\ UNCHANGED <<shouldTerminate, trivialSource, pipeVars, ready, depth, handle, early>>

\* The same on a null _trivialSource: the process, all its threads, dies.
TerminateNull(t) ==
  /\ pc[t] = "deref"
  /\ ~trivialSource
  /\ pc' = [u \in Threads |-> "dead"]
  /\ UNCHANGED <<shouldTerminate, trivialSource, pipeVars, ready, depth, handle, early>>

\* Mutant: two wake messages for one terminate().
TerminateWrite_Twice(t) ==
  /\ Goto(t, "write", IF t = Owner /\ depth > 0 THEN "callback" ELSE "idle")
  /\ wakes[handle[t]] < PipeCapacity
  /\ wakes' = [wakes EXCEPT ![handle[t]] = @ + 2]
  /\ UNCHANGED <<shouldTerminate, trivialSource, allocVars, watched, ready,
                 depth, handle, early>>

\* The writer of AsTrivial: write() blocks while the pipe is full.
TerminateWrite(t) ==
  /\ Goto(t, "write", IF t = Owner /\ depth > 0 THEN "callback" ELSE "idle")
  /\ wakes[handle[t]] < PipeCapacity
  /\ wakes' = [wakes EXCEPT ![handle[t]] = @ + 1]
  /\ UNCHANGED <<shouldTerminate, trivialSource, allocVars, watched, ready,
                 depth, handle, early>>

-----------------------------------------------------------------------------
\* A user source becomes readable: a timer fires, a packet arrives.
Signal(s) ==
  /\ ready' = ready \cup {s}
  /\ UNCHANGED <<shouldTerminate, trivialSource, pipeVars, depth, pc, handle, early>>

HandlesStep(t) == HandlesCheck(t) \/ HandlesAlloc(t) \/ HandlesReturn(t)

\* The rest of a terminate() that has set the flag.
TerminateStep(t) ==
  TerminateDeref(t) \/ TerminateNull(t) \/ HandlesStep(t) \/ TerminateWrite(t)

LoopStep ==
  \/ CreateTrivial \/ Register \/ CheckFlag
  \/ WaitTrivial \/ ReadWake
  \/ \E s \in Sources : WaitSource(s)
  \/ CallbackReturn \/ Reset

Next ==
  \/ LoopEnter
  \/ LoopStep
  \/ \E t \in Threads : TerminateSetFlag(t) \/ TerminateStep(t)
  \/ \E s \in Sources : Signal(s)

\* The scheduler runs every thread that can run and user callbacks return;
\* nothing obliges a thread to call loop() or terminate().
Fairness ==
  /\ WF_vars(LoopStep \/ TerminateStep(Owner))
  /\ \A t \in Terminators : WF_vars(TerminateStep(t))

Spec == Init /\ [][Next]_vars /\ Fairness

-----------------------------------------------------------------------------
TypeOK ==
  /\ shouldTerminate \in BOOLEAN
  /\ trivialSource \in BOOLEAN
  /\ allocated \in BOOLEAN
  /\ handles \in Threads \cup {None}
  /\ pipes \subseteq Threads
  /\ watched \in Threads \cup {None}
  /\ wakes \in [Threads -> 0 .. PipeCapacity]
  /\ ready \subseteq Sources
  /\ depth \in 0 .. MaxDepth
  /\ pc \in [Threads -> {"idle", "dead"} \cup LoopPoints \cup TerminatePoints
                          \cup HandlesPoints]
  /\ handle \in [Threads -> Threads \cup {None}]
  /\ early \subseteq Threads

\* The lazy allocation ran at most once.
OnePipe == \A p, q \in pipes : p = q

\* A loop() that is about to sleep, or sleeps, in wait() after the flag was
\* set is woken: a wake message is unread in the pipe that wait() watches, or
\* a terminate() is still on its way to write one.
NoLostWakeup ==
  pc[Owner] = "wait" /\ shouldTerminate /\ OnePipe =>
    \/ wakes[watched] > 0
    \/ \E t \in Terminators : Terminating(t)

\* The unsynchronised allocation of handles() is repeated only by threads
\* that called terminate() before the first loop() had set up; if none did,
\* terminate() writes to, and the reader reads from, the pipe that is watched.
OneWakePipe ==
  /\ pipes \subseteq early \cup {Owner}
  /\ OnePipe /\ watched # None =>
       /\ handles = watched
       /\ \A t \in Threads : pc[t] = "write" => handle[t] = watched

\* The reader of the trivial source never blocks the loop: when wait()
\* reported the source, the pipe it reads from holds a whole wake message.
ReadNeverBlocks ==
  pc[Owner] = "drain" /\ OnePipe => wakes[handles] > 0

\* terminate() may be called at any time: the process does not die of it.
NoNullTrivialSource ==
  \A t \in Threads : pc[t] # "dead"

\* The looper keeps its contract: a loop() returns only on a request, each
\* request ends one loop(), a running loop() does not miss one, and only a
\* request that came before the first loop() had set up can break all this.
Contract == INSTANCE LoopContract WITH
  requested <- shouldTerminate,
  prepared <- watched # None,
  premature <- early # {},
  broken <- pc[Owner] = "dead" \/ ~OnePipe
KeepsContract == Contract!Spec
=============================================================================
