------------------------------- MODULE Timer -------------------------------
(***************************************************************************)
(* Kernel::Timer, the timeouts of one CPU of the base-hw kernel            *)
(* (repos/base-hw/src/core/kernel/timer.{h,cc} and Cpu::schedule).         *)
(*                                                                         *)
(* The time is an unsigned counter of ticks that wraps around.  Timeouts   *)
(* that end before the next wrap and those that end after it are kept in   *)
(* two lists, which swap their roles at each wrap ("time period").  This   *)
(* module implements AbstractTimer, in which the time never wraps.         *)
(***************************************************************************)
EXTENDS Integers, KernelList

CONSTANTS
  Timeout,     \* timeouts of the threads of the CPU, and of the CPU itself
  CpuTimeout,  \* the Cpu object as timeout: the end of a time slice
  Never,       \* deadline of a timeout that is not installed
  Wrap,        \* number of values of time_t, 2^w
  Duration,    \* durations of the 'timeout' kernel call in ticks
  Slice,       \* time slices that the scheduler grants
  MaxEpoch     \* bound: number of wraps that are explored

ASSUME TimerAssumption ==
  /\ CpuTimeout \in Timeout
  /\ Never \notin Nat
  /\ Wrap \in Nat \ {0}
  /\ Duration \subseteq 0 .. Wrap - 1
  /\ Slice \subseteq 1 .. Wrap - 1
  /\ MaxEpoch \in Nat

VARIABLES
  time,         \* Timer::_time
  time_period,  \* Timer::_time_period
  list,         \* Timer::_timeout_list
  last,         \* Timer::_last_timeout_duration
  start,        \* Timeout::_start
  end,          \* Timeout::_end
  end_period,   \* Timeout::_end_period
  listed,       \* Timeout::_listed
  pass,         \* is the CPU in a kernel pass?
  epoch,        \* history: how often the time has wrapped
  installed,    \* history: the unwrapped time at which a timeout was set
  armed         \* history: the unwrapped time at which the timer was armed

timeouts == <<list, start, end, end_period, listed, installed>>
vars == <<time, time_period, last, timeouts, pass, epoch, armed>>

Period == {0, 1}
Other(p) == 1 - p

\* The time since boot that the wrapped time stands for
Now == epoch * Wrap + time

\* Mutant: the last tick of the period counts as the next period
TimeOverflowEarly(d) == d >= (Wrap - 1) - time

TimeOverflow(d) == d > (Wrap - 1) - time

\* The first position of l whose end time is not smaller than e
Position(l, e) ==
  CHOOSE i \in 1 .. Len(l) + 1 :
    /\ \A j \in 1 .. i - 1 : end[l[j]] < e
    /\ i <= Len(l) => end[l[i]] >= e

InsertAt(l, i, x) == SubSeq(l, 1, i - 1) \o <<x>> \o SubSeq(l, i, Len(l))

\* Mutant: a timeout that is set again keeps its start time
SetTimeoutAgain(ls, L, t, d) ==
  LET e == (time + d) % Wrap
      p == IF TimeOverflow(d) THEN Other(time_period) ELSE time_period
      r == IF t \in L THEN [ls EXCEPT ![end_period[t]] = Remove(@, t)] ELSE ls
  IN  /\ listed' = L \cup {t}
      /\ start' = IF t \in L THEN start ELSE [start EXCEPT ![t] = time]
      /\ end' = [end EXCEPT ![t] = e]
      /\ end_period' = [end_period EXCEPT ![t] = p]
      /\ installed' = [installed EXCEPT ![t] = Now]
      /\ list' = [r EXCEPT ![p] = InsertAt(@, Position(@, e), t)]

\* Mutant: a timeout that is set again is removed from the current list
SetTimeoutWrongList(ls, L, t, d) ==
  LET e == (time + d) % Wrap
      p == IF TimeOverflow(d) THEN Other(time_period) ELSE time_period
      r == IF t \in L THEN [ls EXCEPT ![time_period] = Remove(@, t)] ELSE ls
  IN  /\ listed' = L \cup {t}
      /\ start' = [start EXCEPT ![t] = time]
      /\ end' = [end EXCEPT ![t] = e]
      /\ end_period' = [end_period EXCEPT ![t] = p]
      /\ installed' = [installed EXCEPT ![t] = Now]
      /\ list' = [r EXCEPT ![p] = InsertAt(@, Position(@, e), t)]

\* Timer::set_timeout, applied to lists ls that hold the timeouts in L
SetTimeout(ls, L, t, d) ==
  LET e == (time + d) % Wrap
      p == IF TimeOverflow(d) THEN Other(time_period) ELSE time_period
      r == IF t \in L THEN [ls EXCEPT ![end_period[t]] = Remove(@, t)] ELSE ls
  IN  /\ listed' = L \cup {t}
      /\ start' = [start EXCEPT ![t] = time]
      /\ end' = [end EXCEPT ![t] = e]
      /\ end_period' = [end_period EXCEPT ![t] = p]
      /\ installed' = [installed EXCEPT ![t] = Now]
      /\ list' = [r EXCEPT ![p] = InsertAt(@, Position(@, e), t)]

---------------------------------------------------------------------------
(***************************************************************************)
(* A kernel pass: update_time, the handling of the exception, which may    *)
(* install timeouts, then process_timeouts and the arming of the timer     *)
(***************************************************************************)

\* Timer::update_time: d ticks have passed since the timer was armed.  At the
\* end of the period all timeouts of the period are flushed.
UpdateTime(d) ==
  /\ ~pass
  /\ d \in 1 .. last \/ d = 1
  /\ TimeOverflow(d) => epoch < MaxEpoch
  /\ pass' = TRUE
  /\ time' = (time + d) % Wrap
  /\ \/ /\ TimeOverflow(d)
        /\ listed' = listed \ Elems(list[time_period])
        /\ list' = [list EXCEPT ![time_period] = <<>>]
        /\ time_period' = Other(time_period)
        /\ epoch' = epoch + 1
     \/ /\ ~TimeOverflow(d)
        /\ UNCHANGED <<listed, list, time_period, epoch>>
  /\ UNCHANGED <<last, start, end, end_period, installed, armed>>

\* The 'timeout' kernel call of a thread
CallTimeout(t, d) ==
  /\ pass
  /\ t # CpuTimeout
  /\ SetTimeout(list, listed, t, d)
  /\ UNCHANGED <<time, time_period, last, pass, epoch, armed>>

\* Timer::process_timeouts fires from the head of the list of the current
\* period up to the first timeout whose end time is in the future
Expired == SubSeq(list[time_period], 1, Position(list[time_period], time + 1) - 1)

Remaining ==
  LET l == list[time_period]
  IN  [list EXCEPT ![time_period] = SubSeq(l, Len(Expired) + 1, Len(l))]

\* Timer::schedule_timeout arms the timer for the nearest timeout
Nearest ==
  IF list'[time_period] # <<>> THEN Head(list'[time_period])
  ELSE Head(list'[Other(time_period)])

\* Cpu::schedule after the exception: the job may run for q ticks
Schedule(q) ==
  /\ pass
  /\ SetTimeout(Remaining, listed \ Elems(Expired), CpuTimeout, q)
  /\ last' = (end'[Nearest] - time) % Wrap
  /\ armed' = Now
  /\ pass' = FALSE
  /\ UNCHANGED <<time, time_period, epoch>>

\* Timer::timeout_age_us in ticks
TimeoutAge(t) == (time - start[t]) % Wrap

Init ==
  /\ time = 0
  /\ time_period = 0
  /\ list = [p \in Period |-> <<>>]
  /\ last = 0
  /\ start = [t \in Timeout |-> 0]
  /\ end = [t \in Timeout |-> 0]
  /\ end_period = [t \in Timeout |-> 0]
  /\ listed = {}
  /\ pass = FALSE
  /\ epoch = 0
  /\ installed = [t \in Timeout |-> 0]
  /\ armed = 0

Next ==
  \/ \E d \in 1 .. Wrap - 1 : UpdateTime(d)
  \/ \E t \in Timeout, d \in Duration : CallTimeout(t, d)
  \/ \E q \in Slice : Schedule(q)

Spec == Init /\ [][Next]_vars

---------------------------------------------------------------------------
(***************************************************************************)
(* Properties                                                              *)
(***************************************************************************)

\* Every variable holds a value of its C++ type.
TypeOK ==
  /\ time \in 0 .. Wrap - 1
  /\ time_period \in Period
  /\ list \in [Period -> Seq(Timeout)]
  /\ last \in 0 .. Wrap - 1
  /\ start \in [Timeout -> 0 .. Wrap - 1]
  /\ end \in [Timeout -> 0 .. Wrap - 1]
  /\ end_period \in [Timeout -> Period]
  /\ listed \subseteq Timeout
  /\ pass \in BOOLEAN
  /\ epoch \in 0 .. MaxEpoch
  /\ installed \in [Timeout -> Nat]
  /\ armed \in Nat

\* Each list is sorted by end time, holds each listed timeout of its period
\* once and no other: set_timeout of a listed timeout, also of one whose
\* period has ended meanwhile, never unlinks from the wrong list.
ListsSorted ==
  \A p \in Period :
    /\ Distinct(list[p])
    /\ Elems(list[p]) = { t \in listed : end_period[t] = p }
    /\ \A i, j \in 1 .. Len(list[p]) : i < j => end[list[p][i]] <= end[list[p][j]]

\* timeout_age_us is right up to the maximum age that the interface admits,
\* across a wrap of the time.
AgeIsRight ==
  \A t \in Timeout : Now - installed[t] < Wrap => TimeoutAge(t) = Now - installed[t]

\* The unwrapped end time of a listed timeout
Deadline(t) == (IF end_period[t] = time_period THEN epoch ELSE epoch + 1) * Wrap + end[t]

Abstract == INSTANCE AbstractTimer WITH
  now      <- Now,
  deadline <- [t \in Timeout |-> IF t \in listed THEN Deadline(t) ELSE Never],
  wake     <- armed + last

\* The timer with its wrapping counter and two lists implements the timer
\* whose time never wraps: no timeout fires early, is forgotten or is late
\* because of a wrap between its installation and its end, and the one-shot
\* timer is always armed for the nearest one.
ImplementsAbstractTimer == Abstract!Spec

===========================================================================
