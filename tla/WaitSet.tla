------------------------------ MODULE WaitSet -------------------------------
(***************************************************************************)
(* cl::WaitSet (Source/WaitSet.cpp, Source/Linux/WaitSet_Linux.cpp) of one *)
(* looper, with the sources it holds: channels (Source/Channel.cpp) and    *)
(* timers (Source/Linux/LooperSource_Linux.cpp).  Everything happens on    *)
(* the looper's thread: _sources is not synchronised.                      *)
(*                                                                         *)
(* The wait set owns its sources through shared pointers.  The kernel's    *)
(* epoll set holds raw pointers to them, keyed by descriptor, and forgets  *)
(* a descriptor that is closed.  A source asks for its descriptor once and *)
(* caches it; descriptor numbers are reused.                               *)
(*                                                                         *)
(* A source is named by its channel or timer: a channel makes at most one. *)
(***************************************************************************)
EXTENDS Naturals

CONSTANTS
  Channels,
  Timers,
  MaxHandle,          \* bound: descriptor numbers 1 .. MaxHandle
  None,               \* Handle -1, or nothing registered
  LateUnschedule,     \* may a terminated channel stay scheduled while other
                      \* descriptors are opened?
  CollectInCallback   \* may user code drop the last reference to the channel
                      \* or timer whose callback is running?

Sources == Channels \cup Timers
Handles == 1 .. MaxHandle

ASSUME SourcesAssumption ==
  /\ Channels \cap Timers = {}
  /\ None \notin Sources \cup Handles
ASSUME ParametersAssumption ==
  /\ MaxHandle \in Nat
  /\ LateUnschedule \in BOOLEAN
  /\ CollectInCallback \in BOOLEAN

VARIABLES
  held,        \* channels, and timers, that user code has a reference to
  handle,      \* handle[s]: the open descriptor of a channel's socket, or of
               \* a timer
  connected,   \* the channels whose _connected is set
  cached,      \* cached[s]: _handles of the source of s, None before it exists
  sources,     \* WaitSet::_sources
  watch,       \* the epoll set: watch[h] is the source registered for h
  current      \* the source whose callback loop() is running, or None

vars == <<held, handle, connected, cached, sources, watch, current>>

Init ==
  /\ held = {}
  /\ handle = [s \in Sources |-> None]
  /\ connected = {}
  /\ cached = [s \in Sources |-> None]
  /\ sources = {}
  /\ watch = [h \in Handles |-> None]
  /\ current = None

-----------------------------------------------------------------------------
(* The kernel. *)

Open == {handle[s] : s \in Sources} \ {None}

\* A new descriptor gets a number that is not open (the kernel takes the
\* lowest one).
NewHandle(s) ==
  \E h \in Handles \ Open : handle' = [handle EXCEPT ![s] = h]

\* epoll_ctl(EPOLL_CTL_ADD), whose EBADF and EEXIST are ignored.
WatchAdd(h, s) ==
  IF h \in Open' /\ watch[h] = None THEN [watch EXCEPT ![h] = s] ELSE watch

\* epoll_ctl(EPOLL_CTL_DEL), whose EBADF and ENOENT are ignored.
WatchDel(h) == [watch EXCEPT ![h] = None]

\* Mutant: a closed handle becomes 0 instead of -1.
CloseHandle_Zero(s) ==
  /\ handle' = [handle EXCEPT ![s] = 0]
  /\ watch' = IF handle[s] = None THEN watch ELSE WatchDel(handle[s])

\* close() takes the descriptor out of the epoll set.
CloseHandle(s) ==
  /\ handle' = [handle EXCEPT ![s] = None]
  /\ watch' = IF handle[s] = None THEN watch ELSE WatchDel(handle[s])

-----------------------------------------------------------------------------
(* WaitSet::addSource and WaitSet::removeSource. *)

\* handles() of the source has been asked for by then: cached' is its result.
AddSource(s) ==
  /\ sources' = sources \cup {s}
  /\ watch' = IF s \in sources THEN watch ELSE WatchAdd(cached'[s], s)

\* Mutant: the descriptor is unregistered whether or not s is in the set.
RemoveSource_NoFind(s) ==
  /\ sources' = sources \ {s}
  /\ watch' = IF cached[s] = None THEN watch ELSE WatchDel(cached[s])

\* Mutant: the kernel is not told.
RemoveSource_OnlySet(s) ==
  /\ sources' = sources \ {s}
  /\ UNCHANGED watch

RemoveSource(s) ==
  /\ sources' = sources \ {s}
  /\ watch' = IF s \in sources THEN WatchDel(cached[s]) ELSE watch

-----------------------------------------------------------------------------
(* User code and the channel and timer operations it calls.  It runs in    *)
(* the callback of the current source, between two loop() calls, or in the *)
(* callback of a source that is not modelled.                              *)

\* Unless LateUnschedule, a channel that terminated is unscheduled (from its
\* termination callback, say) before the program opens other descriptors.
Tidy == LateUnschedule \/ Channels \cap sources \subseteq connected

\* The last reference of s may not go while its callback runs.
MayCollect(s) == CollectInCallback \/ current # s

\* Channel(name), which is not connected, or Channel(handle).
OpenChannel(c) ==
  /\ c \notin held
  /\ Tidy
  /\ held' = held \cup {c}
  /\ NewHandle(c)
  /\ connected' \in {connected, connected \cup {c}}
  /\ UNCHANGED <<cached, sources, watch, current>>

\* Channel::tryConnect(), which fails on a closed socket, as for any reason.
TryConnect(c) ==
  /\ c \in held \ connected
  /\ handle[c] # None
  /\ connected' = connected \cup {c}
  /\ UNCHANGED <<held, handle, cached, sources, watch, current>>

\* Channel::scheduleInLooper(); source() makes the source on the first call.
Schedule(c) ==
  /\ c \in held \cap connected
  /\ cached' = [cached EXCEPT ![c] = IF @ = None THEN handle[c] ELSE @]
  /\ UNCHANGED <<held, handle, connected, current>>
  /\ AddSource(c)

\* Channel::unscheduleFromLooper()
Unschedule(c) ==
  /\ c \in held
  /\ RemoveSource(c)
  /\ UNCHANGED <<held, handle, connected, cached, current>>

\* Channel::terminate(), called by the user, or by readMessageOnHandle() when
\* the peer is gone.
Terminate(c) ==
  /\ c \in held
  /\ CloseHandle(c)
  /\ connected' = connected \ {c}
  /\ UNCHANGED <<held, cached, sources, current>>

\* The channel is destroyed: it terminates and drops its source.  That it is
\* unscheduled is the caller's duty (Headers/Channel.h).
CollectChannel(c) ==
  /\ c \in held \ sources
  /\ MayCollect(c)
  /\ held' = held \ {c}
  /\ CloseHandle(c)
  /\ connected' = connected \ {c}
  /\ cached' = [cached EXCEPT ![c] = None]
  /\ UNCHANGED <<sources, current>>

\* LooperSource::AsTimer()
NewTimer(t) ==
  /\ t \notin held \cup sources
  /\ held' = held \cup {t}
  /\ UNCHANGED <<handle, connected, cached, sources, watch, current>>

\* Looper::addSource() of a timer, which opens its timerfd the first time.
AddTimer(t) ==
  /\ t \in held
  /\ \/ cached[t] = None /\ Tidy /\ NewHandle(t)
     \/ cached[t] # None /\ UNCHANGED handle
  /\ cached' = [cached EXCEPT ![t] = handle'[t]]
  /\ AddSource(t)
  /\ UNCHANGED <<held, connected, current>>

\* Looper::removeSource() of a timer the caller has a reference to.
RemoveTimer(t) ==
  /\ t \in held
  /\ RemoveSource(t)
  /\ UNCHANGED <<held, handle, connected, cached, current>>

\* Mutant: the wait set does not share the ownership of its sources.
DropTimer_NotShared(t) ==
  /\ t \in held
  /\ t \notin sources => MayCollect(t)
  /\ held' = held \ {t}
  /\ CloseHandle(t)
  /\ cached' = [cached EXCEPT ![t] = None]
  /\ sources' = sources \ {t}
  /\ UNCHANGED <<connected, current>>

\* The user drops its reference.  With the last one the source is destroyed
\* and closes its timerfd.
DropTimer(t) ==
  /\ t \in held
  /\ held' = held \ {t}
  /\ IF t \in sources
       THEN UNCHANGED <<handle, watch, cached>>
       ELSE /\ MayCollect(t)
            /\ CloseHandle(t)
            /\ cached' = [cached EXCEPT ![t] = None]
  /\ UNCHANGED <<connected, sources, current>>

-----------------------------------------------------------------------------
(* Looper::loop(): wait() returns the raw pointer of a watched source, its *)
(* reader runs and then its onAwoken().  (A loop() nested in a callback is *)
(* not modelled.)                                                          *)

Wait(s) ==
  /\ current = None
  /\ \E h \in Handles : watch[h] = s
  /\ current' = s
  /\ UNCHANGED <<held, handle, connected, cached, sources, watch>>

OnAwoken ==
  /\ current # None
  /\ current' = None
  /\ UNCHANGED <<held, handle, connected, cached, sources, watch>>

\* ~WaitSet, when the looper's thread exits: every source is unregistered and
\* released.  The next looper starts with an empty wait set.
DestroyWaitSet ==
  /\ current = None
  /\ sources' = {}
  /\ watch' = [h \in Handles |-> None]
  /\ LET released == Timers \ held IN
       /\ handle' = [s \in Sources |-> IF s \in released THEN None ELSE handle[s]]
       /\ cached' = [s \in Sources |-> IF s \in released THEN None ELSE cached[s]]
  /\ UNCHANGED <<held, connected, current>>

Next ==
  \/ \E c \in Channels :
       \/ OpenChannel(c) \/ TryConnect(c) \/ Schedule(c) \/ Unschedule(c)
       \/ Terminate(c) \/ CollectChannel(c) \/ Wait(c)
  \/ \E t \in Timers :
       \/ NewTimer(t) \/ AddTimer(t) \/ RemoveTimer(t) \/ DropTimer(t) \/ Wait(t)
  \/ OnAwoken
  \/ DestroyWaitSet

Spec == Init /\ [][Next]_vars

-----------------------------------------------------------------------------
TypeOK ==
  /\ held \subseteq Sources
  /\ handle \in [Sources -> Handles \cup {None}]
  /\ connected \subseteq Channels
  /\ cached \in [Sources -> Handles \cup {None}]
  /\ sources \subseteq Sources
  /\ watch \in [Handles -> Sources \cup {None}]
  /\ current \in Sources \cup {None}

\* A source in the wait set whose descriptor is open is registered with the
\* kernel, so what arrives for it wakes the loop: no other source's
\* scheduling, closing or unscheduling takes its registration away.
ScheduledIsWatched ==
  \A s \in sources : handle[s] # None => watch[handle[s]] = s

\* The kernel only holds pointers to sources that the wait set owns, under
\* their own descriptors: what wait() returns is alive.
WatchedIsScheduled ==
  \A h \in Handles :
    watch[h] # None => watch[h] \in sources /\ handle[watch[h]] = h

\* While loop() uses a source, from the reader to onAwoken(), the source is
\* alive, and so is the channel that its reader points to.
HandlerAlive ==
  current # None => current \in held \cup (Timers \cap sources)
=============================================================================
