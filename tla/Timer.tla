------------------------------- MODULE Timer --------------------------------
(***************************************************************************)
(* The timers of LooperSource::AsTimer() in the wait sets of running       *)
(* loopers, over both implementations: a timerfd per timer in epoll sets   *)
(* (Source/Linux) and kernel timers inside kqueues (Source/Apple).         *)
(*                                                                         *)
(* Time is a count of ticks: Tick moves every kernel timer, and may come   *)
(* between any two steps of the loops, as often as it likes.  What is kept *)
(* of the time is what is left until each timer expires next.              *)
(*                                                                         *)
(* That the epoll set holds exactly the sources of the wait set is what    *)
(* WaitSet checks; here one variable stands for both.                      *)
(***************************************************************************)
EXTENDS Integers, Binary

CONSTANTS
  Timers,
  Loopers,
  None,
  Intervals,        \* repeatInterval.count(), in ticks for nanoseconds
  Width,            \* bits of a uint64_t
  NSEC_PER_SEC,
  SharedTimers,     \* may a timer be in the wait sets of two loopers?
  ManyTimers        \* may a looper hold two timers on Apple platforms?

Platforms == {"Linux", "Apple"}
Words == 0 .. Pow2[Width] - 1

ASSUME NamesAssumption ==
  /\ Timers \cap Loopers = {}
  /\ None \notin Timers \cup Loopers \cup Int
ASSUME NumbersAssumption ==
  /\ Width \in Nat \ {0}
  /\ NSEC_PER_SEC \in Nat \ {0}
  /\ Intervals \subseteq -Pow2[Width - 1] .. Pow2[Width - 1] - 1
ASSUME SwitchesAssumption ==
  /\ SharedTimers \in BOOLEAN
  /\ ManyTimers \in BOOLEAN

VARIABLES
  platform,   \* the implementation that is compiled; it never changes
  interval,   \* interval[t]: the repeatInterval that t was made with, or None
  sources,    \* sources[l]: the timers in the WaitSet::_sources of looper l
  clock,      \* the kernel's timers: clock[t] is the timerfd of t, clock[l] the
              \* entry (ident -1, EVFILT_TIMER) of l's kqueue; None if absent
  current,    \* what the iteration of loop() on l's thread is at
  due,        \* due[t]: ticks until the next interval since t was armed ends
  owed        \* timers an interval of which ended and that did not fire since

vars == <<platform, interval, sources, clock, current, due, owed>>

Init ==
  /\ platform \in Platforms
  /\ interval = [t \in Timers |-> None]
  /\ sources = [l \in Loopers |-> {}]
  /\ clock = [k \in Timers \cup Loopers |-> None]
  /\ current = [l \in Loopers |-> None]
  /\ due = [t \in Timers |-> 0]
  /\ owed = {}

-----------------------------------------------------------------------------
(* The kernel. *)

\* A repeating timer of that period for t, just started; 0 is a stopped one.
Started(t, period) ==
  [owner |-> t, period |-> period, left |-> period, expired |-> FALSE]

\* timerfd_settime() starts at it_value and repeats at it_interval; it stops
\* the timer on a zero it_value, and fails on a tv_nsec of a second or more.
SettimePeriod(spec) ==
  IF spec.tv_nsec < NSEC_PER_SEC THEN NSEC_PER_SEC * spec.tv_sec + spec.tv_nsec ELSE 0

\* The timer that wait() on l's handle and the reader of t see.
KeyOf(l, t) == IF platform = "Linux" THEN t ELSE l

\* Does the kernel report t to wait()?
Ready(l, t) ==
  /\ t \in sources[l]
  /\ clock[KeyOf(l, t)] # None
  /\ clock[KeyOf(l, t)].owner = t
  /\ clock[KeyOf(l, t)].expired

Expire(c) ==
  IF c = None \/ c.period = 0 THEN c
  ELSE IF c.left = 1 THEN [c EXCEPT !.left = c.period, !.expired = TRUE]
  ELSE [c EXCEPT !.left = @ - 1]

Tick ==
  /\ clock' = [k \in DOMAIN clock |-> Expire(clock[k])]
  /\ due' = [t \in Timers |-> IF due[t] = 1 THEN interval[t]
                              ELSE IF due[t] = 0 THEN 0 ELSE due[t] - 1]
  /\ owed' = owed \cup {t \in Timers : due[t] = 1}
  /\ UNCHANGED <<platform, interval, sources, current>>

-----------------------------------------------------------------------------
(* LooperSource::AsTimer() and its platforms' hooks into the wait set. *)

\* Mutant: the nanoseconds are not reduced to what is left of a second.
TimerSpec_NoRemainder(count) ==
  LET nano_secs == count % Pow2[Width] IN
  [tv_sec |-> nano_secs \div NSEC_PER_SEC, tv_nsec |-> nano_secs]

\* Mutant: the count stays signed.
TimerSpec_Signed(count) ==
  [tv_sec |-> count \div NSEC_PER_SEC, tv_nsec |-> count % NSEC_PER_SEC]

\* The itimerspec of the Linux allocator: the count becomes unsigned first.
TimerSpec(count) ==
  LET nano_secs == count % Pow2[Width] IN
  [tv_sec |-> nano_secs \div NSEC_PER_SEC, tv_nsec |-> nano_secs % NSEC_PER_SEC]

\* Linux: handles() of the source, asked for by every addSource(), creates
\* and arms the timerfd the first time.
AllocateOnce(t) ==
  IF clock[t] # None THEN UNCHANGED <<clock, due, owed>>
  ELSE /\ clock' = [clock EXCEPT ![t] =
                      Started(t, SettimePeriod(TimerSpec(interval[t])))]
       /\ due' = [due EXCEPT ![t] = IF interval[t] > 0 THEN interval[t] ELSE 0]
       /\ owed' = owed \ {t}

\* Apple: EV_ADD makes the kqueue's entry for ident -1, which every timer's
\* read handle is, or takes over and restarts the one that is there.
TimerAdd(l, t) ==
  /\ clock' = [clock EXCEPT ![l] = Started(t, interval[t])]
  /\ due' = [due EXCEPT ![t] = interval[t]]
  /\ owed' = owed \ {t}

\* Apple: EV_DELETE of ident -1, whose ENOENT is ignored.
TimerDelete(l, t) ==
  /\ clock' = [clock EXCEPT ![l] = None]
  /\ due' = [due EXCEPT ![t] = 0]
  /\ owed' = owed \ {t}

-----------------------------------------------------------------------------
(* User code, on the thread of looper l: between two loop() calls, in a    *)
(* wake function, or in the callback of a source that is not modelled.     *)

UserRuns(l) == current[l] # None => current[l].at = "awoken"

\* What Apple platforms make of an interval that is not positive is not
\* modelled.
NewTimer(t, count) ==
  /\ interval[t] = None
  /\ platform = "Linux" \/ count > 0
  /\ interval' = [interval EXCEPT ![t] = count]
  /\ UNCHANGED <<platform, sources, clock, current, due, owed>>

\* Looper::addSource(), of a timer that is not in l's wait set.
AddTimer(l, t) ==
  /\ UserRuns(l)
  /\ interval[t] # None
  /\ t \notin sources[l]
  /\ SharedTimers \/ \A other \in Loopers : t \notin sources[other]
  /\ ManyTimers \/ platform = "Linux" \/ sources[l] = {}
  /\ sources' = [sources EXCEPT ![l] = @ \cup {t}]
  /\ IF platform = "Linux" THEN AllocateOnce(t) ELSE TimerAdd(l, t)
  /\ UNCHANGED <<platform, interval, current>>

\* Mutant: a timerfd is stopped while it is in no wait set.
RemoveTimer_Stops(l, t) ==
  /\ UserRuns(l)
  /\ t \in sources[l]
  /\ sources' = [sources EXCEPT ![l] = @ \ {t}]
  /\ IF platform = "Linux"
       THEN clock' = [clock EXCEPT ![t].period = 0] /\ UNCHANGED <<due, owed>>
       ELSE TimerDelete(l, t)
  /\ UNCHANGED <<platform, interval, current>>

\* Looper::removeSource().  A timerfd runs on.
RemoveTimer(l, t) ==
  /\ UserRuns(l)
  /\ t \in sources[l]
  /\ sources' = [sources EXCEPT ![l] = @ \ {t}]
  /\ IF platform = "Linux" THEN UNCHANGED <<clock, due, owed>> ELSE TimerDelete(l, t)
  /\ UNCHANGED <<platform, interval, current>>

\* The last reference to t goes, outside of its own callback: the Linux
\* deallocator closes the timerfd.
DropTimer(t) ==
  /\ interval[t] # None
  /\ \A l \in Loopers : t \notin sources[l] /\ (current[l] # None => current[l].source # t)
  /\ interval' = [interval EXCEPT ![t] = None]
  /\ clock' = [clock EXCEPT ![t] = None]
  /\ due' = [due EXCEPT ![t] = 0]
  /\ owed' = owed \ {t}
  /\ UNCHANGED <<platform, sources, current>>

\* ~WaitSet, as the thread of l exits; the thread's next looper starts afresh.
\* The timers live on with the program's own references.
DestroyWaitSet(l) ==
  /\ current[l] = None
  /\ sources[l] # {}
  /\ sources' = [sources EXCEPT ![l] = {}]
  /\ IF platform = "Linux" THEN UNCHANGED <<clock, due, owed>>
     ELSE /\ clock' = [clock EXCEPT ![l] = None]
          /\ due' = [t \in Timers |-> IF t \in sources[l] THEN 0 ELSE due[t]]
          /\ owed' = owed \ sources[l]
  /\ UNCHANGED <<platform, interval, current>>

-----------------------------------------------------------------------------
(* Looper::loop() of l. *)

\* epoll_wait() leaves the timerfd readable for the reader; kevent() takes
\* the expirations, however many, with the one event it returns.
Wait(l, t) ==
  /\ current[l] = None
  /\ Ready(l, t)
  /\ IF platform = "Linux"
       THEN /\ current' = [current EXCEPT ![l] = [source |-> t, at |-> "read"]]
            /\ UNCHANGED <<clock, owed>>
       ELSE /\ current' = [current EXCEPT ![l] = [source |-> t, at |-> "awoken"]]
            /\ clock' = [clock EXCEPT ![l].expired = FALSE]
            /\ owed' = owed \ {t}
  /\ UNCHANGED <<platform, interval, sources, due>>

\* Mutant: the reader forgets to read, and the timerfd stays readable.
Reader_Nothing(t) == UNCHANGED clock

\* The timer's reader: read() takes all expirations; it blocks without one.
Reader(t) ==
  /\ clock[t].expired
  /\ clock' = [clock EXCEPT ![t].expired = FALSE]

\* Mutant: the reader reads until there is nothing left to read.
Read_Drain(l) ==
  /\ current[l] # None
  /\ current[l].at = "read"
  /\ Reader(current[l].source)
  /\ owed' = owed \ {current[l].source}
  /\ UNCHANGED <<platform, interval, sources, current, due>>

Read(l) ==
  /\ current[l] # None
  /\ current[l].at = "read"
  /\ Reader(current[l].source)
  /\ owed' = owed \ {current[l].source}
  /\ current' = [current EXCEPT ![l].at = "awoken"]
  /\ UNCHANGED <<platform, interval, sources, due>>

\* onAwoken(): the wake function has run once, and loop() goes on.
OnAwoken(l) ==
  /\ current[l] # None
  /\ current[l].at = "awoken"
  /\ current' = [current EXCEPT ![l] = None]
  /\ UNCHANGED <<platform, interval, sources, clock, due, owed>>

Next ==
  \/ Tick
  \/ \E t \in Timers : DropTimer(t) \/ \E count \in Intervals : NewTimer(t, count)
  \/ \E l \in Loopers :
       \/ Read(l) \/ OnAwoken(l) \/ DestroyWaitSet(l)
       \/ \E t \in Timers : AddTimer(l, t) \/ RemoveTimer(l, t) \/ Wait(l, t)

\* Time passes; the threads stay in loop() and their callbacks return; the
\* kernel reports the ready entries of an epoll set or a kqueue in turn.
Fairness ==
  /\ WF_vars(Tick)
  /\ \A l \in Loopers : WF_vars(Read(l)) /\ WF_vars(OnAwoken(l))
  /\ \A l \in Loopers, t \in Timers : SF_vars(Wait(l, t))

Spec == Init /\ [][Next]_vars /\ Fairness

-----------------------------------------------------------------------------
TypeOK ==
  /\ platform \in Platforms
  /\ interval \in [Timers -> Intervals \cup {None}]
  /\ sources \in [Loopers -> SUBSET Timers]
  /\ clock \in [Timers \cup Loopers ->
                  [owner : Timers, period : Words, left : Words, expired : BOOLEAN]
                    \cup {None}]
  /\ current \in [Loopers -> [source : Timers, at : {"read", "awoken"}] \cup {None}]
  /\ due \in [Timers -> Words]
  /\ owed \subseteq Timers

\* A timer in a wait set signals every interval that ended: the kernel has it
\* ready until loop() takes it.  Neither removing it and adding it again, nor
\* another looper or timer, nor the conversion of the interval loses one.
PeriodIsSignalled ==
  \A l \in Loopers : \A t \in sources[l] : t \in owed => Ready(l, t)

\* The read() of the timer's reader does not block the loop: the expiration
\* that woke it up is still there when it reads.
ReaderDoesNotBlock ==
  \A l \in Loopers :
    current[l] # None /\ current[l].at = "read" => clock[current[l].source].expired

\* The wake function does not run early: each run is for an interval, counted
\* from when the timer was armed, that ended after the expirations of the
\* previous run were taken.
NotEarly ==
  [][\A l \in Loopers, t \in Timers :
       /\ interval[t] # None /\ interval[t] > 0
       /\ current'[l] # current[l]
       /\ current'[l] = [source |-> t, at |-> "awoken"]
       => t \in owed]_vars

\* A timer with a positive interval in the wait set of a running looper has
\* its wake function called, and called again, as long as it stays there.
TimerFires ==
  \A l \in Loopers, t \in Timers :
    t \in sources[l] /\ interval[t] > 0
      ~> \/ current[l] = [source |-> t, at |-> "awoken"]
         \/ t \notin sources[l]
=============================================================================
