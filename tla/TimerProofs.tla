----------------------------- MODULE TimerProofs -----------------------------
(***************************************************************************)
(* Safety of Timer, for any timers, loopers and intervals, on both         *)
(* platforms.                                                              *)
(***************************************************************************)
EXTENDS Timer, BinaryProofs, TLAPS

\* In two loopers a timer is read twice for one expiration
\* (MCTimerShared.cfg); two timers of a looper share a clock on Apple
\* platforms (MCTimerMany.cfg).
PlainUse == SharedTimers = FALSE /\ ManyTimers = FALSE

\* The values of an int64_t are half of the words.
PowersOfTwo ==
  /\ Pow2[Width - 1] \in Nat \ {0}
  /\ Pow2[Width] = 2 * Pow2[Width - 1]

\* None stands for the absence of a clock or an iteration.
NoneIsNoRecord ==
  /\ \A o, p, n, x : None # [owner |-> o, period |-> p, left |-> n, expired |-> x]
  /\ \A s, a : None # [source |-> s, at |-> a]

-----------------------------------------------------------------------------
\* Half of the words of a uint64_t, in which AsTimer() counts the
\* nanoseconds, are the negative values of the interval's int64_t.
LEMMA WordIsTwoHalves ==
  ASSUME NumbersAssumption
  PROVE  PowersOfTwo
<1>1. Width - 1 \in Nat /\ (Width - 1) + 1 = Width
  BY DEF NumbersAssumption
<1> QED
  BY <1>1, Pow2Laws DEF PowersOfTwo

\* What AsTimer() makes of an interval is what timerfd_settime() makes of it:
\* a positive one keeps its length.
LEMMA Conversion ==
  ASSUME NumbersAssumption, PowersOfTwo, NEW i \in Intervals
  PROVE  /\ SettimePeriod(TimerSpec(i)) \in Words
         /\ i > 0 => SettimePeriod(TimerSpec(i)) = i
<1>1. PICK P \in Nat \ {0} : P = Pow2[Width]
  BY DEF PowersOfTwo
<1>2. i \in Int /\ i < P
  BY <1>1 DEF NumbersAssumption, PowersOfTwo
<1>3. i % P \in 0 .. P - 1 /\ (i > 0 => i % P = i)
  BY <1>1, <1>2
<1>4. ASSUME NEW c \in Nat
      PROVE  /\ c % NSEC_PER_SEC < NSEC_PER_SEC
             /\ NSEC_PER_SEC * (c \div NSEC_PER_SEC) + (c % NSEC_PER_SEC) = c
  <2>1. NSEC_PER_SEC \in Nat \ {0}
    BY DEF NumbersAssumption
  <2> QED
    BY <1>4, <2>1
<1>5. SettimePeriod(TimerSpec(i)) = i % P
  <2>1. PICK c \in Nat : c = i % P
    BY <1>3
  <2>2. TimerSpec(i) = [tv_sec |-> c \div NSEC_PER_SEC, tv_nsec |-> c % NSEC_PER_SEC]
    BY <1>1, <2>1 DEF TimerSpec
  <2>3. SettimePeriod(TimerSpec(i)) =
          NSEC_PER_SEC * (c \div NSEC_PER_SEC) + (c % NSEC_PER_SEC)
    BY <1>4, <2>2 DEF SettimePeriod
  <2> QED
    BY <1>4, <2>1, <2>3
<1> QED
  BY <1>1, <1>3, <1>5 DEF Words

-----------------------------------------------------------------------------
(* The inductive invariant. *)

\* The timers that no kernel timer runs for, or one that never expires.
Idle(t) == due[t] = 0 /\ t \notin owed

\* Entry k of the kernel runs for t, in step with its intervals.
InStep(t, k) ==
  /\ clock[k] # None
  /\ clock[k].owner = t
  /\ clock[k].period = interval[t]
  /\ clock[k].left = due[t]
  /\ clock[k].expired <=> t \in owed
  /\ interval[t] > 0 /\ due[t] > 0

OnLinux(t) ==
  /\ clock[t] = None => Idle(t)
  /\ clock[t] # None =>
       /\ interval[t] # None
       /\ clock[t].owner = t
       /\ interval[t] > 0 => InStep(t, t)
       /\ ~(interval[t] > 0) => Idle(t)

OnApple(t) ==
  /\ interval[t] # None => interval[t] > 0
  /\ \A l \in Loopers : t \in sources[l] => InStep(t, l)
  /\ (\A l \in Loopers : t \notin sources[l]) => Idle(t)

TimeIsKept ==
  \A t \in Timers : /\ platform = "Linux" => OnLinux(t)
                    /\ platform = "Apple" => OnApple(t)

\* A timer that expires once more has time left for it.
Running ==
  \A k \in Timers \cup Loopers :
    clock[k] # None /\ clock[k].period # 0 => clock[k].left > 0

\* A timer is in one wait set; a kqueue has one timer.
Alone ==
  /\ \A l, m \in Loopers : \A t \in sources[l] : t \in sources[m] => l = m
  /\ platform = "Apple" => \A l \in Loopers : \A t, u \in sources[l] : t = u

Armed ==
  \A l \in Loopers : \A t \in sources[l] :
    interval[t] # None /\ (platform = "Linux" => clock[t] # None)

\* Between wait() and the reader nobody else takes the expiration.
Reading ==
  \A l \in Loopers :
    current[l] # None /\ current[l].at = "read" =>
      /\ platform = "Linux"
      /\ current[l].source \in sources[l]
      /\ clock[current[l].source].expired

IInv ==
  TypeOK /\ TimeIsKept /\ Running /\ Alone /\ Armed /\ Reading

Clocks == [owner : Timers, period : Words, left : Words, expired : BOOLEAN]

-----------------------------------------------------------------------------
LEMMA IInvInit ==
  ASSUME NumbersAssumption, PowersOfTwo, Init
  PROVE  IInv
BY DEF NumbersAssumption, PowersOfTwo, Init, IInv, TypeOK, Words, TimeIsKept, OnLinux,
  OnApple, Idle, InStep, Running, Alone, Armed, Reading

\* One tick of an entry of the kernel.
LEMMA ExpireStep ==
  ASSUME PowersOfTwo, NoneIsNoRecord, TypeOK, Running, Tick, NEW k \in Timers \cup Loopers
  PROVE  /\ clock[k] = None => clock'[k] = None
         /\ clock[k] # None =>
              /\ clock'[k] # None
              /\ clock'[k].owner = clock[k].owner
              /\ clock'[k].period = clock[k].period
              /\ clock[k].period # 0 =>
                   /\ clock'[k].left > 0
                   /\ clock'[k].left = IF clock[k].left = 1 THEN clock[k].period
                                       ELSE clock[k].left - 1
              /\ clock'[k].expired <=>
                   clock[k].expired \/ (clock[k].period # 0 /\ clock[k].left = 1)
              /\ clock'[k] \in Clocks
<1> USE DEF Clocks
<1>1. clock'[k] = Expire(clock[k])
  BY DEF Tick, TypeOK
<1>2. CASE clock[k] = None
  BY <1>1, <1>2 DEF Expire
<1>3. CASE clock[k] # None
  <2>1. PICK o \in Timers, p, n \in Words, x \in BOOLEAN :
          clock[k] = [owner |-> o, period |-> p, left |-> n, expired |-> x]
    BY <1>3 DEF TypeOK
  <2>2. p \in Nat /\ n \in Nat /\ (p # 0 => n > 0)
    BY <1>3, <2>1 DEF Words, PowersOfTwo, Running
  <2>3. CASE p = 0
    BY <1>1, <1>3, <2>1, <2>3 DEF Expire
  <2>4. CASE p # 0 /\ n = 1
    <3>1. clock'[k] = [owner |-> o, period |-> p, left |-> p, expired |-> TRUE]
      <4>1. clock[k].period = p /\ clock[k].left = n
        BY <2>1
      <4>2. clock'[k] = [clock[k] EXCEPT !.left = p, !.expired = TRUE]
        BY <1>1, <1>3, <2>4, <4>1 DEF Expire
      <4>3. PICK y : y = TRUE
        OBVIOUS
      <4>4. clock'[k] = [clock[k] EXCEPT !.left = p, !.expired = y]
        BY <4>2, <4>3, Zenon
      <4>5. clock'[k] = [owner |-> o, period |-> p, left |-> p, expired |-> y]
        <5>1. PICK r : r = [clock[k] EXCEPT !.left = p]
          OBVIOUS
        <5>2. r = [owner |-> o, period |-> p, left |-> p, expired |-> x]
          BY <2>1, <5>1
        <5>3. clock'[k] = [r EXCEPT !.expired = y]
          BY <4>4, <5>1, Zenon
        <5> QED
          BY <5>2, <5>3
      <4> QED
        BY <4>3, <4>5, Zenon
    <3> QED
      BY <1>3, <2>1, <2>2, <2>4, <3>1 DEF NoneIsNoRecord
  <2>5. CASE p # 0 /\ n # 1
    <3>1. clock'[k] = [owner |-> o, period |-> p, left |-> n - 1, expired |-> x]
      BY <1>1, <1>3, <2>1, <2>5 DEF Expire
    <3>2. n - 1 \in Words /\ n - 1 > 0
      BY <2>2, <2>5 DEF Words, PowersOfTwo
    <3> QED
      BY <1>3, <2>1, <2>2, <2>5, <3>1, <3>2 DEF NoneIsNoRecord
  <2> QED
    BY <2>3, <2>4, <2>5
<1> QED
  BY <1>2, <1>3

\* A timer that is due has a clock in step with it.
LEMMA DueIsInStep ==
  ASSUME TypeOK, TimeIsKept, NEW t \in Timers, ~Idle(t)
  PROVE  \E k \in Timers \cup Loopers : InStep(t, k)
BY DEF TypeOK, Platforms, TimeIsKept, OnLinux, OnApple

LEMMA TickInStep ==
  ASSUME PowersOfTwo, NoneIsNoRecord, TypeOK, Running, Tick,
         NEW t \in Timers, NEW k \in Timers \cup Loopers, InStep(t, k)
  PROVE  InStep(t, k)'
<1>1. /\ due'[t] = IF due[t] = 1 THEN interval[t] ELSE due[t] - 1
      /\ interval'[t] = interval[t]
      /\ t \in owed' <=> t \in owed \/ due[t] = 1
  BY DEF Tick, InStep, TypeOK, Words, PowersOfTwo
<1>2. due[t] \in Nat /\ clock[k].period # 0
  BY DEF TypeOK, Words, PowersOfTwo, InStep
<1> QED
  BY <1>1, <1>2, ExpireStep DEF InStep

LEMMA TickStep ==
  ASSUME PowersOfTwo, NoneIsNoRecord, IInv, Tick
  PROVE  IInv'
<1>a. TypeOK /\ TimeIsKept /\ Running /\ Alone /\ Armed /\ Reading
  BY DEF IInv
<1>b. UNCHANGED <<platform, interval, sources, current>>
  BY DEF Tick
<1>1. ASSUME NEW t \in Timers, Idle(t) PROVE Idle(t)'
  BY <1>a, <1>1 DEF Tick, Idle, TypeOK
<1>2. TypeOK'
  <2>1. clock' \in [Timers \cup Loopers -> Clocks \cup {None}]
    <3>1. DOMAIN clock = Timers \cup Loopers
      BY <1>a DEF TypeOK
    <3>2. clock' = [k \in Timers \cup Loopers |-> clock'[k]]
      BY <3>1 DEF Tick
    <3>3. \A k \in Timers \cup Loopers : clock'[k] \in Clocks \cup {None}
      BY <1>a, ExpireStep
    <3> QED
      BY <3>2, <3>3
  <2>2. ASSUME NEW t \in Timers PROVE due'[t] \in Words
    <3>1. due'[t] = IF due[t] = 1 THEN interval[t] ELSE IF due[t] = 0 THEN 0 ELSE due[t] - 1
      BY DEF Tick
    <3>2. CASE due[t] = 1
      <4>1. PICK k \in Timers \cup Loopers : InStep(t, k)
        BY <1>a, <3>2, DueIsInStep DEF Idle
      <4> QED
        BY <1>a, <3>1, <3>2, <4>1 DEF InStep, TypeOK
    <3>3. CASE due[t] # 1
      BY <1>a, <3>1, <3>3 DEF TypeOK, Words, PowersOfTwo
    <3> QED
      BY <3>2, <3>3
  <2>3. due' \in [Timers -> Words] /\ owed' \subseteq Timers
    <3>1. due' = [t \in Timers |-> due'[t]]
      BY DEF Tick
    <3> QED
      BY <1>a, <2>2, <3>1 DEF Tick, TypeOK
  <2> QED
    BY <1>a, <1>b, <2>1, <2>3 DEF TypeOK, Clocks
<1>3. TimeIsKept'
  <2>1. ASSUME NEW t \in Timers, platform = "Linux" PROVE OnLinux(t)'
    <3>1. OnLinux(t)
      BY <1>a, <2>1 DEF TimeIsKept
    <3>2. /\ clock[t] = None => clock'[t] = None
          /\ clock[t] # None => clock'[t] # None /\ clock'[t].owner = clock[t].owner
      BY <1>a, ExpireStep
    <3>3. InStep(t, t) => InStep(t, t)'
      BY <1>a, TickInStep
    <3> QED
      BY <1>b, <1>1, <3>1, <3>2, <3>3 DEF OnLinux
  <2>2. ASSUME NEW t \in Timers, platform = "Apple" PROVE OnApple(t)'
    <3>1. OnApple(t)
      BY <1>a, <2>2 DEF TimeIsKept
    <3>2. \A l \in Loopers : InStep(t, l) => InStep(t, l)'
      BY <1>a, TickInStep
    <3> QED
      BY <1>b, <1>1, <3>1, <3>2 DEF OnApple
  <2> QED
    BY <1>b, <2>1, <2>2 DEF TimeIsKept
<1>4. Running'
  <2>1. ASSUME NEW k \in Timers \cup Loopers, clock'[k] # None, clock'[k].period # 0
        PROVE  clock'[k].left > 0
    BY <1>a, <2>1, ExpireStep
  <2> QED
    BY <2>1 DEF Running
<1>5. Alone'
  BY <1>a, <1>b DEF Alone
<1>6. Armed'
  <2>1. \A l \in Loopers : \A t \in sources[l] : t \in Timers
    BY <1>a DEF TypeOK
  <2>2. \A t \in Timers : clock[t] # None => clock'[t] # None
    BY <1>a, ExpireStep
  <2> QED
    BY <1>a, <1>b, <2>1, <2>2 DEF Armed
<1>7. Reading'
  <2> SUFFICES ASSUME NEW l \in Loopers, current[l] # None, current[l].at = "read"
               PROVE  clock'[current[l].source].expired
    BY <1>a, <1>b DEF Reading
  <2>1. /\ current[l].source \in Timers /\ current[l].source \in sources[l]
        /\ platform = "Linux" /\ clock[current[l].source].expired
    BY <1>a DEF Reading, TypeOK
  <2>2. clock[current[l].source] # None
    BY <1>a, <2>1 DEF Armed
  <2> QED
    BY <1>a, <2>1, <2>2, ExpireStep
<1> QED
  BY <1>2, <1>3, <1>4, <1>5, <1>6, <1>7 DEF IInv

LEMMA NewTimerStep ==
  ASSUME NamesAssumption, IInv, NEW t \in Timers, NEW count \in Intervals,
         NumbersAssumption, NewTimer(t, count)
  PROVE  IInv'
<1> USE DEF IInv
<1>1. /\ interval[t] = None /\ interval' = [interval EXCEPT ![t] = count]
      /\ platform = "Linux" \/ count > 0
      /\ UNCHANGED <<platform, sources, clock, current, due, owed>>
  BY DEF NewTimer
<1>2. count # None
  BY DEF NamesAssumption, NumbersAssumption
<1>3. TypeOK'
  BY <1>1 DEF TypeOK
<1>4. TimeIsKept'
  <2>1. \A u \in Timers \ {t} : interval'[u] = interval[u]
    BY <1>1 DEF TypeOK
  <2>2. interval'[t] = count
    BY <1>1 DEF TypeOK
  <2>3. \A l \in Loopers : t \notin sources[l]
    BY <1>1 DEF Armed
  <2>4. ASSUME NEW u \in Timers, platform = "Linux" PROVE OnLinux(u)'
    BY <1>1, <2>1, <2>4 DEF TimeIsKept, OnLinux, InStep, Idle
  <2>5. ASSUME NEW u \in Timers, platform = "Apple" PROVE OnApple(u)'
    BY <1>1, <2>1, <2>2, <2>3, <2>5 DEF TimeIsKept, OnApple, InStep, Idle
  <2> QED
    BY <1>1, <2>4, <2>5 DEF TimeIsKept
<1>5. Running' /\ Alone' /\ Reading'
  BY <1>1 DEF Running, Alone, Reading
<1>6. Armed'
  BY <1>1, <1>2 DEF Armed, TypeOK
<1> QED
  BY <1>3, <1>4, <1>5, <1>6

LEMMA AddTimerStep ==
  ASSUME NamesAssumption, NumbersAssumption, PowersOfTwo, NoneIsNoRecord, PlainUse, IInv,
         NEW l \in Loopers, NEW t \in Timers, AddTimer(l, t)
  PROVE  IInv'
<1> USE DEF IInv
<1>1. /\ interval[t] # None /\ t \notin sources[l] /\ UserRuns(l)
      /\ \A other \in Loopers : t \notin sources[other]
      /\ platform = "Linux" \/ sources[l] = {}
      /\ sources' = [sources EXCEPT ![l] = @ \cup {t}]
      /\ UNCHANGED <<platform, interval, current>>
  BY DEF AddTimer, PlainUse
<1>2. /\ sources'[l] = sources[l] \cup {t}
      /\ \A m \in Loopers \ {l} : sources'[m] = sources[m]
      /\ sources' \in [Loopers -> SUBSET Timers]
      /\ interval[t] \in Intervals
  BY <1>1 DEF TypeOK
<1>3. Alone'
  BY <1>1, <1>2 DEF Alone
<1>4. CASE platform = "Linux" /\ clock[t] # None
  <2>1. UNCHANGED <<clock, due, owed>>
    BY <1>4 DEF AddTimer, AllocateOnce
  <2>2. TypeOK' /\ Running'
    BY <1>1, <1>2, <2>1 DEF TypeOK, Running
  <2>3. TimeIsKept'
    BY <1>1, <1>4, <2>1 DEF TimeIsKept, OnLinux, InStep, Idle
  <2>4. Armed' /\ Reading'
    BY <1>1, <1>2, <1>4, <2>1 DEF Armed, Reading
  <2> QED
    BY <1>3, <2>2, <2>3, <2>4
<1>5. CASE platform = "Linux" /\ clock[t] = None
  <2> DEFINE p == SettimePeriod(TimerSpec(interval[t]))
  <2>1. /\ clock' = [clock EXCEPT ![t] = Started(t, p)]
        /\ due' = [due EXCEPT ![t] = IF interval[t] > 0 THEN interval[t] ELSE 0]
        /\ owed' = owed \ {t}
    BY <1>5 DEF AddTimer, AllocateOnce
  <2>2. p \in Words /\ (interval[t] > 0 => p = interval[t])
    BY <1>2, Conversion
  <2> HIDE DEF p
  <2>3. /\ clock'[t] = [owner |-> t, period |-> p, left |-> p, expired |-> FALSE]
        /\ \A k \in Timers \cup Loopers : k # t => clock'[k] = clock[k]
        /\ \A u \in Timers : u # t => due'[u] = due[u]
        /\ due'[t] = IF interval[t] > 0 THEN interval[t] ELSE 0
    BY <2>1 DEF Started, TypeOK
  <2>4. clock'[t] # None
    BY <2>3 DEF NoneIsNoRecord
  <2>5. TypeOK'
    <3>1. Started(t, p) \in Clocks
      BY <2>2 DEF Started, Clocks
    <3>2. (IF interval[t] > 0 THEN interval[t] ELSE 0) \in Words
      BY <2>2 DEF Words, PowersOfTwo
    <3> QED
      BY <1>1, <1>2, <2>1, <3>1, <3>2 DEF TypeOK, Clocks
  <2>6. TimeIsKept'
    <3>1. OnLinux(t)'
      BY <1>1, <2>1, <2>2, <2>3, <2>4 DEF OnLinux, InStep, Idle
    <3>2. ASSUME NEW u \in Timers, u # t PROVE OnLinux(u)'
      BY <1>1, <1>5, <2>1, <2>3, <3>2 DEF TimeIsKept, OnLinux, InStep, Idle
    <3> QED
      BY <1>1, <1>5, <3>1, <3>2 DEF TimeIsKept
  <2>7. Running'
    BY <2>2, <2>3 DEF Running, Words, PowersOfTwo
  <2>8. Armed'
    BY <1>1, <1>2, <1>5, <2>3, <2>4 DEF Armed, TypeOK
  <2>9. Reading'
    <3> SUFFICES ASSUME NEW m \in Loopers, current[m] # None, current[m].at = "read"
                 PROVE  /\ current[m].source \in sources'[m]
                        /\ clock'[current[m].source].expired
      BY <1>1, <1>5 DEF Reading
    <3>1. /\ current[m].source \in sources[m]
          /\ clock[current[m].source].expired
          /\ current[m].source \in Timers
      BY DEF Reading, TypeOK
    <3>2. current[m].source # t
      BY <1>1, <3>1
    <3> QED
      BY <1>2, <2>3, <3>1, <3>2
  <2> QED
    BY <1>3, <2>5, <2>6, <2>7, <2>8, <2>9
<1>6. CASE platform = "Apple"
  <2>1. /\ clock' = [clock EXCEPT ![l] = Started(t, interval[t])]
        /\ due' = [due EXCEPT ![t] = interval[t]]
        /\ owed' = owed \ {t}
    BY <1>6 DEF AddTimer, TimerAdd
  <2>2. interval[t] > 0 /\ interval[t] \in Words
    <3>1. interval[t] > 0
      BY <1>1, <1>6 DEF TimeIsKept, OnApple
    <3> QED
      BY <1>2, <3>1, Conversion
  <2>3. /\ clock'[l] = [owner |-> t, period |-> interval[t], left |-> interval[t],
                        expired |-> FALSE]
        /\ \A k \in Timers \cup Loopers : k # l => clock'[k] = clock[k]
        /\ \A u \in Timers : u # t => due'[u] = due[u]
        /\ due'[t] = interval[t]
    BY <2>1 DEF Started, TypeOK
  <2>4. clock'[l] # None
    BY <2>3 DEF NoneIsNoRecord
  <2>5. TypeOK'
    <3>1. Started(t, interval[t]) \in Clocks
      BY <2>2 DEF Started, Clocks
    <3> QED
      BY <1>1, <1>2, <2>1, <2>2, <3>1 DEF TypeOK, Clocks
  <2>6. TimeIsKept'
    <3>1. InStep(t, l)'
      BY <1>1, <2>1, <2>2, <2>3, <2>4 DEF InStep
    <3>2. OnApple(t)'
      BY <1>1, <1>2, <2>2, <3>1 DEF OnApple
    <3>3. ASSUME NEW u \in Timers, u # t PROVE OnApple(u)'
      <4>1. OnApple(u) /\ u \notin sources[l]
        BY <1>1, <1>6, <3>3 DEF TimeIsKept
      <4> QED
        BY <1>1, <1>2, <2>1, <2>3, <3>3, <4>1 DEF OnApple, InStep, Idle
    <3> QED
      BY <1>1, <1>6, <3>2, <3>3 DEF TimeIsKept
  <2>7. Running'
    BY <2>2, <2>3 DEF Running
  <2>8. Armed' /\ Reading'
    BY <1>1, <1>2, <1>6 DEF Armed, Reading
  <2> QED
    BY <1>3, <2>5, <2>6, <2>7, <2>8
<1> QED
  BY <1>4, <1>5, <1>6 DEF TypeOK, Platforms

LEMMA RemoveTimerStep ==
  ASSUME NamesAssumption, PowersOfTwo, IInv, NEW l \in Loopers, NEW t \in Timers,
         RemoveTimer(l, t)
  PROVE  IInv'
<1> USE DEF IInv
<1>1. /\ t \in sources[l] /\ UserRuns(l)
      /\ sources' = [sources EXCEPT ![l] = @ \ {t}]
      /\ UNCHANGED <<platform, interval, current>>
  BY DEF RemoveTimer
<1>2. /\ sources'[l] = sources[l] \ {t}
      /\ \A m \in Loopers \ {l} : sources'[m] = sources[m]
      /\ sources' \in [Loopers -> SUBSET Timers]
  BY <1>1 DEF TypeOK
<1>3. Alone'
  BY <1>1, <1>2 DEF Alone
<1>4. CASE platform = "Linux"
  <2>1. UNCHANGED <<clock, due, owed>>
    BY <1>4 DEF RemoveTimer
  <2>2. TypeOK' /\ Running' /\ Armed'
    BY <1>1, <1>2, <2>1 DEF TypeOK, Running, Armed
  <2>3. TimeIsKept'
    BY <1>1, <1>4, <2>1 DEF TimeIsKept, OnLinux, InStep, Idle
  <2>4. Reading'
    BY <1>1, <1>2, <1>4, <2>1 DEF Reading, UserRuns
  <2> QED
    BY <1>3, <2>2, <2>3, <2>4
<1>5. CASE platform = "Apple"
  <2>1. /\ clock' = [clock EXCEPT ![l] = None]
        /\ due' = [due EXCEPT ![t] = 0]
        /\ owed' = owed \ {t}
    BY <1>5 DEF RemoveTimer, TimerDelete
  <2>2. /\ clock'[l] = None
        /\ \A k \in Timers \cup Loopers : k # l => clock'[k] = clock[k]
        /\ due'[t] = 0
        /\ \A u \in Timers : u # t => due'[u] = due[u]
    BY <2>1 DEF TypeOK
  <2>3. TypeOK'
    <3>1. 0 \in Words
      BY DEF Words, PowersOfTwo
    <3> QED
      BY <1>1, <1>2, <2>1, <3>1 DEF TypeOK
  <2>4. TimeIsKept'
    <3>1. OnApple(t)'
      BY <1>1, <1>2, <1>5, <2>1, <2>2 DEF TimeIsKept, OnApple, Idle, Alone
    <3>2. ASSUME NEW u \in Timers, u # t PROVE OnApple(u)'
      <4>1. OnApple(u) /\ u \notin sources[l]
        BY <1>1, <1>5, <3>2 DEF TimeIsKept, Alone
      <4> QED
        BY <1>1, <1>2, <2>1, <2>2, <3>2, <4>1 DEF OnApple, InStep, Idle
    <3> QED
      BY <1>1, <1>5, <3>1, <3>2 DEF TimeIsKept
  <2>5. Running' /\ Armed' /\ Reading'
    BY <1>1, <1>2, <1>5, <2>2 DEF Running, Armed, Reading
  <2> QED
    BY <1>3, <2>3, <2>4, <2>5
<1> QED
  BY <1>4, <1>5 DEF TypeOK, Platforms

LEMMA DropTimerStep ==
  ASSUME NamesAssumption, PowersOfTwo, IInv, NEW t \in Timers, DropTimer(t)
  PROVE  IInv'
<1> USE DEF IInv
<1>1. /\ \A l \in Loopers : t \notin sources[l]
      /\ interval' = [interval EXCEPT ![t] = None]
      /\ clock' = [clock EXCEPT ![t] = None]
      /\ due' = [due EXCEPT ![t] = 0]
      /\ owed' = owed \ {t}
      /\ UNCHANGED <<platform, sources, current>>
  BY DEF DropTimer
<1>2. /\ interval'[t] = None /\ clock'[t] = None /\ due'[t] = 0
      /\ \A u \in Timers : u # t => interval'[u] = interval[u] /\ due'[u] = due[u]
      /\ \A k \in Timers \cup Loopers : k # t => clock'[k] = clock[k]
  BY <1>1 DEF TypeOK
<1>3. TypeOK'
  BY <1>1 DEF TypeOK, Words, PowersOfTwo
<1>4. TimeIsKept'
  <2>1. OnLinux(t)' /\ OnApple(t)'
    BY <1>1, <1>2 DEF OnLinux, OnApple, Idle
  <2>2. ASSUME NEW u \in Timers, u # t, platform = "Linux" PROVE OnLinux(u)'
    BY <1>1, <1>2, <2>2 DEF TimeIsKept, OnLinux, InStep, Idle
  <2>3. ASSUME NEW u \in Timers, u # t, platform = "Apple" PROVE OnApple(u)'
    <3>1. \A l \in Loopers : l # t
      BY DEF NamesAssumption
    <3> QED
      BY <1>1, <1>2, <2>3, <3>1 DEF TimeIsKept, OnApple, InStep, Idle
  <2> QED
    BY <1>1, <2>1, <2>2, <2>3 DEF TimeIsKept
<1>5. Running' /\ Alone'
  BY <1>1, <1>2 DEF Running, Alone
<1>6. Armed'
  BY <1>1, <1>2 DEF Armed, TypeOK
<1>7. Reading'
  <2> SUFFICES ASSUME NEW m \in Loopers, current[m] # None, current[m].at = "read"
               PROVE  clock'[current[m].source].expired
    BY <1>1 DEF Reading
  <2>1. /\ current[m].source \in sources[m] /\ current[m].source \in Timers
        /\ clock[current[m].source].expired
    BY DEF Reading, TypeOK
  <2> QED
    BY <1>1, <1>2, <2>1
<1> QED
  BY <1>3, <1>4, <1>5, <1>6, <1>7

LEMMA DestroyWaitSetStep ==
  ASSUME NamesAssumption, PowersOfTwo, IInv, NEW l \in Loopers, DestroyWaitSet(l)
  PROVE  IInv'
<1> USE DEF IInv
<1>1. /\ current[l] = None
      /\ sources' = [sources EXCEPT ![l] = {}]
      /\ UNCHANGED <<platform, interval, current>>
  BY DEF DestroyWaitSet
<1>2. /\ sources'[l] = {}
      /\ \A m \in Loopers \ {l} : sources'[m] = sources[m]
      /\ sources' \in [Loopers -> SUBSET Timers]
  BY <1>1 DEF TypeOK
<1>3. Alone'
  BY <1>1, <1>2 DEF Alone
<1>4. CASE platform = "Linux"
  <2>1. UNCHANGED <<clock, due, owed>>
    BY <1>4 DEF DestroyWaitSet
  <2>2. TypeOK' /\ Running' /\ Armed' /\ Reading'
    BY <1>1, <1>2, <2>1 DEF TypeOK, Running, Armed, Reading
  <2>3. TimeIsKept'
    BY <1>1, <1>4, <2>1 DEF TimeIsKept, OnLinux, InStep, Idle
  <2> QED
    BY <1>3, <2>2, <2>3
<1>5. CASE platform = "Apple"
  <2>1. /\ clock' = [clock EXCEPT ![l] = None]
        /\ due' = [t \in Timers |-> IF t \in sources[l] THEN 0 ELSE due[t]]
        /\ owed' = owed \ sources[l]
    BY <1>5 DEF DestroyWaitSet
  <2>2. /\ clock'[l] = None
        /\ \A k \in Timers \cup Loopers : k # l => clock'[k] = clock[k]
    BY <2>1 DEF TypeOK
  <2>3. TypeOK'
    BY <1>1, <1>2, <2>1 DEF TypeOK, Words, PowersOfTwo
  <2>4. ASSUME NEW t \in Timers PROVE OnApple(t)'
    <3>1. OnApple(t)
      BY <1>5 DEF TimeIsKept
    <3>2. CASE t \in sources[l]
      BY <1>1, <1>2, <2>1, <2>2, <3>1, <3>2 DEF OnApple, Idle, Alone
    <3>3. CASE t \notin sources[l]
      BY <1>1, <1>2, <2>1, <2>2, <3>1, <3>3 DEF OnApple, InStep, Idle
    <3> QED
      BY <3>2, <3>3
  <2>5. TimeIsKept'
    BY <1>1, <1>5, <2>4 DEF TimeIsKept
  <2>6. Running' /\ Armed' /\ Reading'
    BY <1>1, <1>2, <1>5, <2>2 DEF Running, Armed, Reading
  <2> QED
    BY <1>3, <2>3, <2>5, <2>6
<1> QED
  BY <1>4, <1>5 DEF TypeOK, Platforms

\* The expirations of entry k are taken.
LEMMA Taken ==
  ASSUME NoneIsNoRecord, TypeOK, Running, NEW k \in Timers \cup Loopers, clock[k] # None,
         clock' = [clock EXCEPT ![k].expired = FALSE]
  PROVE  /\ clock' \in [Timers \cup Loopers -> Clocks \cup {None}]
         /\ \A j \in Timers \cup Loopers : j # k => clock'[j] = clock[j]
         /\ clock'[k] # None
         /\ clock'[k].owner = clock[k].owner
         /\ clock'[k].period = clock[k].period
         /\ clock'[k].left = clock[k].left
         /\ ~clock'[k].expired
         /\ Running'
<1>1. PICK o \in Timers, p, n \in Words, x \in BOOLEAN :
        clock[k] = [owner |-> o, period |-> p, left |-> n, expired |-> x]
  BY DEF TypeOK
<1>2. PICK y : y = FALSE
  OBVIOUS
<1>3. clock' = [clock EXCEPT ![k] = [clock[k] EXCEPT !.expired = y]]
  BY <1>2, Zenon
<1>4. PICK r : r = [clock[k] EXCEPT !.expired = y]
  OBVIOUS
<1>5. r = [owner |-> o, period |-> p, left |-> n, expired |-> y]
  BY <1>1, <1>4
<1>6. r = [owner |-> o, period |-> p, left |-> n, expired |-> FALSE]
  BY <1>2, <1>5, Zenon
<1>7. clock' = [clock EXCEPT ![k] = r]
  BY <1>3, <1>4, Zenon
<1>8. r \in Clocks /\ r # None
  BY <1>6 DEF Clocks, NoneIsNoRecord
<1>9. clock'[k] = r /\ \A j \in Timers \cup Loopers : j # k => clock'[j] = clock[j]
  BY <1>7 DEF TypeOK
<1>10. clock' \in [Timers \cup Loopers -> Clocks \cup {None}]
  BY <1>7, <1>8 DEF TypeOK, Clocks
<1> QED
  BY <1>1, <1>6, <1>8, <1>9, <1>10 DEF Running

\* The one timer that an iteration of l is for has its expirations taken.
LEMMA TakenInStep ==
  ASSUME NoneIsNoRecord, NamesAssumption, IInv,
         NEW l \in Loopers, NEW t \in Timers, t \in sources[l],
         clock' = [clock EXCEPT ![KeyOf(l, t)].expired = FALSE], owed' = owed \ {t},
         UNCHANGED <<platform, interval, sources, due>>
  PROVE  /\ clock' \in [Timers \cup Loopers -> Clocks \cup {None}]
         /\ TimeIsKept' /\ Running' /\ Alone' /\ Armed'
         /\ clock[KeyOf(l, t)].expired /\ interval[t] > 0 => t \in owed
<1> USE DEF IInv
<1>1. CASE platform = "Linux"
  <2>1. KeyOf(l, t) = t /\ clock[t] # None
    BY <1>1 DEF KeyOf, Armed
  <2>2. /\ clock' \in [Timers \cup Loopers -> Clocks \cup {None}]
        /\ \A j \in Timers \cup Loopers : j # t => clock'[j] = clock[j]
        /\ clock'[t] # None /\ clock'[t].owner = clock[t].owner
        /\ clock'[t].period = clock[t].period /\ clock'[t].left = clock[t].left
        /\ ~clock'[t].expired
        /\ Running'
    BY <2>1, Taken
  <2>3. OnLinux(t)'
    <3>1. OnLinux(t)
      BY <1>1 DEF TimeIsKept
    <3>2. InStep(t, t) => InStep(t, t)'
      BY <2>2 DEF InStep
    <3>3. Idle(t) => Idle(t)'
      BY DEF Idle
    <3> QED
      BY <2>1, <2>2, <3>1, <3>2, <3>3 DEF OnLinux
  <2>4. ASSUME NEW u \in Timers, u # t PROVE OnLinux(u)'
    <3>1. OnLinux(u) /\ clock'[u] = clock[u]
      BY <1>1, <2>2, <2>4 DEF TimeIsKept
    <3>2. InStep(u, u) => InStep(u, u)'
      BY <2>4, <3>1 DEF InStep
    <3>3. Idle(u) => Idle(u)'
      BY DEF Idle
    <3> QED
      BY <3>1, <3>2, <3>3 DEF OnLinux
  <2>5. TimeIsKept'
    BY <1>1, <2>3, <2>4 DEF TimeIsKept
  <2>6. Alone'
    BY DEF Alone
  <2>7. Armed'
    BY <2>2 DEF Armed, TypeOK
  <2>8. clock[t].expired /\ interval[t] > 0 => t \in owed
    BY <1>1, <2>1 DEF TimeIsKept, OnLinux, InStep
  <2> QED
    BY <2>1, <2>2, <2>5, <2>6, <2>7, <2>8
<1>2. CASE platform = "Apple"
  <2>1. KeyOf(l, t) = l /\ InStep(t, l)
    BY <1>2 DEF KeyOf, TimeIsKept, OnApple
  <2>2. /\ clock' \in [Timers \cup Loopers -> Clocks \cup {None}]
        /\ \A j \in Timers \cup Loopers : j # l => clock'[j] = clock[j]
        /\ clock'[l] # None /\ clock'[l].owner = clock[l].owner
        /\ clock'[l].period = clock[l].period /\ clock'[l].left = clock[l].left
        /\ ~clock'[l].expired
        /\ Running'
    <3>1. clock[l] # None
      BY <2>1 DEF InStep
    <3> QED
      BY <2>1, <3>1, Taken
  <2>3. InStep(t, l)'
    BY <2>1, <2>2 DEF InStep
  <2>4. OnApple(t)'
    BY <1>2, <2>3 DEF TimeIsKept, OnApple, Alone
  <2>5. ASSUME NEW u \in Timers, u # t PROVE OnApple(u)'
    <3>1. OnApple(u) /\ u \notin sources[l]
      BY <1>2, <2>5 DEF TimeIsKept, Alone
    <3> QED
      BY <2>2, <2>5, <3>1 DEF OnApple, InStep, Idle
  <2>6. TimeIsKept'
    BY <1>2, <2>4, <2>5 DEF TimeIsKept
  <2>7. Alone' /\ Armed'
    BY <1>2 DEF Alone, Armed
  <2> QED
    BY <2>1, <2>2, <2>6, <2>7 DEF InStep
<1> QED
  BY <1>1, <1>2 DEF TypeOK, Platforms

\* An iteration of loop() that leaves the kernel alone.
LEMMA Unmoved ==
  ASSUME IInv, UNCHANGED <<platform, interval, sources, clock, due, owed>>
  PROVE  TimeIsKept' /\ Running' /\ Alone' /\ Armed'
<1>1. ASSUME NEW t \in Timers PROVE OnLinux(t)' <=> OnLinux(t)
  BY DEF OnLinux, InStep, Idle
<1>2. ASSUME NEW t \in Timers PROVE OnApple(t)' <=> OnApple(t)
  BY DEF OnApple, InStep, Idle
<1>3. TimeIsKept'
  BY <1>1, <1>2 DEF IInv, TimeIsKept
<1>4. Running' /\ Alone' /\ Armed'
  BY DEF IInv, Running, Alone, Armed
<1> QED
  BY <1>3, <1>4

LEMMA WaitStep ==
  ASSUME NoneIsNoRecord, NamesAssumption, IInv, NEW l \in Loopers, NEW t \in Timers,
         Wait(l, t)
  PROVE  IInv'
<1> USE DEF IInv
<1>1. /\ t \in sources[l] /\ Ready(l, t)
      /\ UNCHANGED <<platform, interval, sources, due>>
  BY DEF Wait, Ready
<1>2. CASE platform = "Linux"
  <2>1. /\ current' = [current EXCEPT ![l] = [source |-> t, at |-> "read"]]
        /\ UNCHANGED <<clock, owed>>
    BY <1>2 DEF Wait
  <2>2. clock[t].expired
    BY <1>1, <1>2 DEF Ready, KeyOf
  <2>3. TypeOK'
    BY <1>1, <2>1 DEF TypeOK
  <2>4. TimeIsKept' /\ Running' /\ Alone' /\ Armed'
    BY <1>1, <2>1, Unmoved
  <2>5. Reading'
    BY <1>1, <1>2, <2>1, <2>2 DEF Reading, TypeOK
  <2> QED
    BY <2>3, <2>4, <2>5
<1>3. CASE platform = "Apple"
  <2>1. /\ current' = [current EXCEPT ![l] = [source |-> t, at |-> "awoken"]]
        /\ clock' = [clock EXCEPT ![KeyOf(l, t)].expired = FALSE]
        /\ owed' = owed \ {t}
    BY <1>3 DEF Wait, KeyOf
  <2>2. /\ clock' \in [Timers \cup Loopers -> Clocks \cup {None}]
        /\ TimeIsKept' /\ Running' /\ Alone' /\ Armed'
    BY <1>1, <2>1, TakenInStep
  <2>3. TypeOK'
    BY <1>1, <2>1, <2>2 DEF TypeOK, Clocks
  <2>4. Reading'
    BY <1>3, <2>1 DEF Reading, TypeOK
  <2> QED
    BY <2>2, <2>3, <2>4
<1> QED
  BY <1>2, <1>3 DEF TypeOK, Platforms

LEMMA ReadStep ==
  ASSUME NoneIsNoRecord, NamesAssumption, IInv, NEW l \in Loopers, Read(l)
  PROVE  IInv'
<1> USE DEF IInv
<1>1. PICK t \in Timers :
        /\ current[l] = [source |-> t, at |-> "read"]
        /\ t \in sources[l] /\ platform = "Linux"
  BY DEF Read, TypeOK, Reading
<1>2. /\ clock' = [clock EXCEPT ![KeyOf(l, t)].expired = FALSE]
      /\ owed' = owed \ {t}
      /\ UNCHANGED <<platform, interval, sources, due>>
  BY <1>1 DEF Read, Reader, KeyOf
<1>3. current' = [current EXCEPT ![l] = [source |-> t, at |-> "awoken"]]
  <2>1. current' = [current EXCEPT ![l] = [current[l] EXCEPT !.at = "awoken"]]
    BY DEF Read
  <2>2. [current[l] EXCEPT !.at = "awoken"] = [source |-> t, at |-> "awoken"]
    BY <1>1
  <2> QED
    BY <2>1, <2>2
<1>4. /\ clock' \in [Timers \cup Loopers -> Clocks \cup {None}]
      /\ TimeIsKept' /\ Running' /\ Alone' /\ Armed'
  BY <1>1, <1>2, TakenInStep
<1>5. TypeOK'
  BY <1>2, <1>3, <1>4 DEF TypeOK, Clocks
<1>6. Reading'
  <2> SUFFICES ASSUME NEW m \in Loopers, current'[m] # None, current'[m].at = "read"
               PROVE  /\ current'[m].source \in sources[m]
                      /\ clock'[current'[m].source].expired
    BY <1>1, <1>2 DEF Reading
  <2>1. m # l /\ current'[m] = current[m]
    BY <1>3 DEF TypeOK
  <2>2. /\ current[m].source \in Timers /\ current[m].source \in sources[m]
        /\ clock[current[m].source].expired
    BY <2>1 DEF Reading, TypeOK
  <2>3. current[m].source # t
    BY <1>1, <2>1, <2>2 DEF Alone
  <2>4. clock'[current[m].source] = clock[current[m].source]
    <3>1. KeyOf(l, t) = t /\ clock[t] # None
      BY <1>1 DEF KeyOf, Armed
    <3> QED
      BY <1>2, <2>2, <2>3, <3>1, Taken
  <2> QED
    BY <2>1, <2>2, <2>4
<1> QED
  BY <1>4, <1>5, <1>6

LEMMA OnAwokenStep ==
  ASSUME IInv, NEW l \in Loopers, OnAwoken(l)
  PROVE  IInv'
<1> USE DEF IInv
<1>1. /\ current' = [current EXCEPT ![l] = None]
      /\ UNCHANGED <<platform, interval, sources, clock, due, owed>>
  BY DEF OnAwoken
<1>2. TypeOK'
  BY <1>1 DEF TypeOK
<1>3. TimeIsKept' /\ Running' /\ Alone' /\ Armed'
  BY <1>1, Unmoved
<1>4. Reading'
  BY <1>1 DEF Reading, TypeOK
<1> QED
  BY <1>2, <1>3, <1>4

LEMMA IInvStep ==
  ASSUME NamesAssumption, NumbersAssumption, PowersOfTwo, NoneIsNoRecord, PlainUse,
         IInv, [Next]_vars
  PROVE  IInv'
<1>1. CASE Tick
  BY <1>1, TickStep
<1>2. ASSUME NEW t \in Timers, DropTimer(t) PROVE IInv'
  BY <1>2, DropTimerStep
<1>3. ASSUME NEW t \in Timers, NEW count \in Intervals, NewTimer(t, count) PROVE IInv'
  BY <1>3, NewTimerStep
<1>4. ASSUME NEW l \in Loopers, Read(l) \/ OnAwoken(l) \/ DestroyWaitSet(l) PROVE IInv'
  BY <1>4, ReadStep, OnAwokenStep, DestroyWaitSetStep
<1>5. ASSUME NEW l \in Loopers, NEW t \in Timers,
             AddTimer(l, t) \/ RemoveTimer(l, t) \/ Wait(l, t)
      PROVE  IInv'
  BY <1>5, AddTimerStep, RemoveTimerStep, WaitStep
<1>6. CASE UNCHANGED vars
  <2>1. UNCHANGED <<platform, interval, sources, clock, due, owed>> /\ UNCHANGED current
    BY <1>6 DEF vars
  <2>2. TypeOK' /\ Reading'
    BY <2>1 DEF IInv, TypeOK, Reading
  <2> QED
    BY <2>1, <2>2, Unmoved DEF IInv
<1> QED
  BY <1>1, <1>2, <1>3, <1>4, <1>5, <1>6 DEF Next

LEMMA IInvHolds ==
  ASSUME NamesAssumption, NumbersAssumption, NoneIsNoRecord, PlainUse
  PROVE  Spec => []IInv
<1> PowersOfTwo
  BY WordIsTwoHalves
<1>1. Init => IInv
  BY IInvInit
<1>2. IInv /\ [Next]_vars => IInv'
  BY IInvStep
<1> QED
  BY <1>1, <1>2, PTL DEF Spec

-----------------------------------------------------------------------------
\* The itimerspec that the Linux allocator computes and the interval that
\* EVFILT_TIMER gets stay within 64 bits, whatever interval AsTimer() is given.
THEOREM TypeCorrect ==
  ASSUME NamesAssumption, NumbersAssumption, NoneIsNoRecord, PlainUse
  PROVE  Spec => []TypeOK
<1>1. IInv => TypeOK
  BY DEF IInv
<1> QED
  BY <1>1, IInvHolds, PTL

\* From AsTimer() to WaitSet::wait(), on both platforms, no interval of a timer
\* in a wait set is lost, however it is removed and added again.
THEOREM PeriodsAreSignalled ==
  ASSUME NamesAssumption, NumbersAssumption, NoneIsNoRecord, PlainUse
  PROVE  Spec => []PeriodIsSignalled
<1>1. IInv => PeriodIsSignalled
  <2> SUFFICES ASSUME IInv, NEW l \in Loopers, NEW t \in sources[l], t \in owed
               PROVE  Ready(l, t)
    BY DEF PeriodIsSignalled
  <2> USE DEF IInv
  <2>1. t \in Timers
    BY DEF TypeOK
  <2>2. ~Idle(t)
    BY DEF Idle
  <2>3. CASE platform = "Linux"
    BY <2>1, <2>2, <2>3 DEF TimeIsKept, OnLinux, InStep, Ready, KeyOf
  <2>4. CASE platform = "Apple"
    BY <2>1, <2>4 DEF TimeIsKept, OnApple, InStep, Ready, KeyOf
  <2> QED
    BY <2>3, <2>4 DEF TypeOK, Platforms
<1> QED
  BY <1>1, IInvHolds, PTL

\* The read() in the timer's reader, between WaitSet::wait() and onAwoken(),
\* finds the expiration that woke loop() up.
THEOREM TheReaderDoesNotBlock ==
  ASSUME NamesAssumption, NumbersAssumption, NoneIsNoRecord, PlainUse
  PROVE  Spec => []ReaderDoesNotBlock
<1>1. IInv => ReaderDoesNotBlock
  BY DEF IInv, Reading, ReaderDoesNotBlock
<1> QED
  BY <1>1, IInvHolds, PTL

\* Each run of the wake function is for an interval that ended since the last
\* one, whatever the timerfd's read() or kevent() took together.
THEOREM TimersAreNotEarly ==
  ASSUME NamesAssumption, NumbersAssumption, NoneIsNoRecord, PlainUse
  PROVE  Spec => NotEarly
<1> DEFINE Early(l, t) ==
      /\ interval[t] # None /\ interval[t] > 0
      /\ current'[l] # current[l]
      /\ current'[l] = [source |-> t, at |-> "awoken"]
      /\ t \notin owed
<1>1. ASSUME IInv, Next, NEW l \in Loopers, NEW t \in Timers, Early(l, t)
      PROVE  FALSE
  <2> USE DEF IInv
  <2>1. ASSUME NEW m \in Loopers, Read(m) PROVE FALSE
    <3>1. current' = [current EXCEPT ![m].at = "awoken"]
          /\ current[m] # None /\ current[m].at = "read"
      BY <2>1 DEF Read
    <3>2. m = l
      BY <1>1, <3>1 DEF TypeOK
    <3>3. PICK s \in Timers : current[l] = [source |-> s, at |-> "read"]
      BY <1>1, <3>1, <3>2 DEF TypeOK
    <3>4. current'[l] = [current[l] EXCEPT !.at = "awoken"]
      BY <1>1, <3>1, <3>2 DEF TypeOK
    <3>5. current'[l] = [source |-> s, at |-> "awoken"]
      BY <3>3, <3>4
    <3>6. s = t
      <4>1. current'[l].source = s /\ current'[l].source = t
        BY <1>1, <3>5
      <4> QED
        BY <4>1
    <3>7. platform = "Linux" /\ t \in sources[l] /\ clock[t].expired
      BY <1>1, <3>1, <3>2, <3>3, <3>6 DEF Reading
    <3> QED
      <4>1. InStep(t, t)
        BY <1>1, <3>7 DEF Armed, TimeIsKept, OnLinux
      <4> QED
        BY <1>1, <3>7, <4>1 DEF InStep
  <2>2. ASSUME NEW m \in Loopers, NEW s \in Timers, Wait(m, s) PROVE FALSE
    <3>1. PICK c : current' = [current EXCEPT ![m] = c]
                   /\ c = [source |-> s, at |-> IF platform = "Linux" THEN "read"
                                                ELSE "awoken"]
      BY <2>2 DEF Wait
    <3>2. m = l /\ c = [source |-> t, at |-> "awoken"]
      BY <1>1, <3>1 DEF TypeOK
    <3>3. s = t /\ platform = "Apple"
      BY <1>1, <3>1, <3>2 DEF TypeOK, Platforms
    <3>4. t \in sources[l] /\ clock[l].expired
      BY <2>2, <3>2, <3>3 DEF Wait, Ready, KeyOf
    <3> QED
      <4>1. InStep(t, l)
        BY <1>1, <3>3, <3>4 DEF TimeIsKept, OnApple
      <4> QED
        BY <1>1, <3>4, <4>1 DEF InStep
  <2>3. ASSUME NEW m \in Loopers, OnAwoken(m) PROVE FALSE
    <3>1. current' = [current EXCEPT ![m] = None]
      BY <2>3 DEF OnAwoken
    <3>2. current'[l] = None
      BY <1>1, <3>1 DEF TypeOK
    <3> QED
      BY <1>1, <3>2 DEF NoneIsNoRecord
  <2>4. ASSUME UNCHANGED current PROVE FALSE
    BY <1>1, <2>4
  <2> QED
    BY <1>1, <2>1, <2>2, <2>3, <2>4 DEF Next, Tick, DropTimer, NewTimer, AddTimer,
       RemoveTimer, DestroyWaitSet
<1>2. IInv /\ [Next]_vars =>
        [\A l \in Loopers, t \in Timers :
           /\ interval[t] # None /\ interval[t] > 0
           /\ current'[l] # current[l]
           /\ current'[l] = [source |-> t, at |-> "awoken"]
           => t \in owed]_vars
  BY <1>1
<1> QED
  BY <1>2, IInvHolds, PTL DEF Spec, NotEarly
=============================================================================
