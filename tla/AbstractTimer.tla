--------------------------- MODULE AbstractTimer ---------------------------
(***************************************************************************)
(* What Kernel::Timer promises: timeouts on a time that never wraps.  A    *)
(* timeout fires once, never before its deadline, and at the latest in the *)
(* kernel pass in which the time reaches its deadline; and that pass comes *)
(* in time, because the CPU is back in the kernel by the nearest deadline. *)
(***************************************************************************)
EXTENDS Naturals

CONSTANTS
  Timeout,     \* the timeouts
  CpuTimeout,  \* the one that ends the time slice of the scheduled job
  Never        \* the deadline of a timeout that is not installed

VARIABLES
  now,       \* time in ticks since boot
  deadline,  \* end time of each installed timeout
  wake,      \* the time at which the CPU enters the kernel at the latest
  pass       \* is the CPU in the kernel?

vars == <<now, deadline, wake, pass>>

Due(t) == deadline[t] # Never /\ deadline[t] <= now'

Init ==
  /\ now = 0
  /\ deadline = [t \in Timeout |-> Never]
  /\ wake = 0
  /\ pass = FALSE

\* Entering the kernel; the time is accounted with one tick at least
Elapse ==
  /\ ~pass /\ pass'
  /\ now' > now
  /\ now' <= wake \/ now' = now + 1
  /\ \A t \in Timeout : deadline'[t] = deadline[t] \/ (Due(t) /\ deadline'[t] = Never)
  /\ UNCHANGED wake

Install(t) ==
  /\ pass
  /\ deadline'[t] # Never /\ deadline'[t] >= now
  /\ \A u \in Timeout \ {t} : deadline'[u] = deadline[u]
  /\ UNCHANGED <<now, wake, pass>>

\* Leaving the kernel: everything that is due has fired
Leave ==
  /\ pass /\ ~pass'
  /\ UNCHANGED now
  /\ \A t \in Timeout \ {CpuTimeout} :
       deadline'[t] = IF Due(t) THEN Never ELSE deadline[t]
  /\ deadline'[CpuTimeout] # Never /\ deadline'[CpuTimeout] > now
  /\ \E t \in Timeout : wake' = deadline'[t]
  /\ \A t \in Timeout : deadline'[t] # Never => wake' <= deadline'[t]

Next == Elapse \/ Leave \/ \E t \in Timeout : Install(t)

Spec == Init /\ [][Next]_vars

===========================================================================
