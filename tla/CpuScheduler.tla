--------------------------- MODULE CpuScheduler ---------------------------
(***************************************************************************)
(* Kernel::Cpu_scheduler, the scheduler that each CPU of the base-hw       *)
(* kernel has (repos/base-hw/src/core/kernel/cpu_scheduler.{h,cc}).        *)
(*                                                                         *)
(* A share is the scheduling context of a thread.  A share with quota is a *)
(* "claim": within each super period it may run for its quota ahead of all *)
(* shares of lower priority.  Every ready share is also a "fill" that is   *)
(* scheduled round-robin while no ready claim has quota left.              *)
(*                                                                         *)
(* The CPU owning the scheduler alternates between user mode and kernel    *)
(* passes (Cpu::schedule in cpu.cc): a pass handles one exception, which   *)
(* calls some of the scheduler's operations, and ends with 'update'.       *)
(* Kernel passes of different CPUs exclude each other (data_lock), so a    *)
(* pass of another CPU shows up here as an operation between two passes.   *)
(***************************************************************************)
EXTENDS Integers, KernelList

CONSTANTS
  Share,         \* addresses at which Cpu_share objects are constructed
  Idle,          \* the share of the idle thread
  None,          \* the null pointer
  MaxPrio,       \* Cpu_priority::MAX
  prio,          \* Cpu_share::_prio, the priority of the share at an address
  SuperPeriod,   \* Cpu_scheduler::_quota, length of the super period
  FillSlice,     \* Cpu_scheduler::_fill, time slice of the round-robin
  Quota,         \* quotas that shares are constructed with
  Donation,      \* quotas that the 'quota' operation assigns later on
  DeleteRunning  \* may another CPU delete the thread this CPU is running?

Prio == 0 .. MaxPrio

ASSUME SchedulerAssumption ==
  /\ Idle \notin Share
  /\ None \notin Share \cup {Idle}
  /\ MaxPrio \in Nat
  /\ prio \in [Share -> Prio]
  /\ SuperPeriod \in Nat \ {0}
  /\ FillSlice \in Nat \ {0}
  /\ Quota \subseteq Nat
  /\ Donation \subseteq Nat
  /\ DeleteRunning \in BOOLEAN

VARIABLES
  state,        \* life cycle of the Cpu_share object at each address
  quota,        \* Cpu_share::_quota
  claim,        \* Cpu_share::_claim, rest of the quota in this super period
  fill,         \* Cpu_share::_fill, rest of the current time slice
  ready,        \* Cpu_share::_ready
  rcl,          \* per priority, the list of ready claims
  ucl,          \* per priority, the list of unready claims
  fills,        \* the list of ready fills
  head,         \* the share that the CPU executes on behalf of
  head_quota,   \* time that was given to the head when it was chosen
  head_claims,  \* is the head charged as claim or as fill?
  head_yields,  \* has the head called 'yield'?
  residual,     \* time left in the super period
  pass,         \* is the CPU in a kernel pass?
  ipi,          \* Cpu::Ipi::pending, a reschedule request of another CPU
  used,         \* history: time charged to a claim in this super period
  granted       \* history: highest quota a claim had in this super period

shareVars == <<state, quota, claim, fill, ready>>
listVars  == <<rcl, ucl, fills>>
headVars  == <<head, head_quota, head_claims, head_yields, residual>>
cpuVars   == <<pass, ipi>>
history   == <<used, granted>>
vars      == <<shareVars, listVars, headVars, cpuVars, history>>

Inserted == { s \in Share : state[s] = "inserted" }

\* The claim lists that a ready or unready share with quota belongs to
Listed == UNION { Elems(rcl[p]) \cup Elems(ucl[p]) : p \in Prio }

Minimum(a, b) == IF a < b THEN a ELSE b
Maximum(a, b) == IF a < b THEN b ELSE a

---------------------------------------------------------------------------
(***************************************************************************)
(* Cpu_job: construction of the share, affinity, quota, destruction        *)
(***************************************************************************)

Create(s, q) ==
  /\ state[s] = "absent"
  /\ state' = [state EXCEPT ![s] = "created"]
  /\ quota' = [quota EXCEPT ![s] = q]
  /\ claim' = [claim EXCEPT ![s] = q]
  /\ UNCHANGED <<fill, ready, listVars, headVars, cpuVars, history>>

\* Cpu_job::quota of a job that has no CPU yet
PresetQuota(s, q) ==
  /\ state[s] = "created"
  /\ quota' = [quota EXCEPT ![s] = q]
  /\ UNCHANGED <<state, claim, fill, ready, listVars, headVars, cpuVars, history>>

\* 'yield' is the only scheduler call of the exception that causes it
NotYielding == ~head_yields

\* Cpu_job::affinity and Cpu_scheduler::insert
Insert(s) ==
  /\ NotYielding
  /\ state[s] = "created"
  /\ state' = [state EXCEPT ![s] = "inserted"]
  /\ \/ /\ quota[s] = 0
        /\ UNCHANGED <<claim, ucl, granted>>
     \/ /\ quota[s] > 0
        /\ claim' = [claim EXCEPT ![s] = quota[s]]
        /\ ucl' = [ucl EXCEPT ![prio[s]] = InsertHead(@, s)]
        /\ granted' = [granted EXCEPT ![s] = quota[s]]
  /\ UNCHANGED <<quota, fill, ready, rcl, fills, headVars, cpuVars, used>>

\* Unlink a claim, as 'remove' and _quota_revokation do
Unclaim(s) ==
  IF ready[s]
  THEN rcl' = [rcl EXCEPT ![prio[s]] = Remove(@, s)] /\ UNCHANGED ucl
  ELSE ucl' = [ucl EXCEPT ![prio[s]] = Remove(@, s)] /\ UNCHANGED rcl

\* Cpu_job::~Cpu_job and Cpu_scheduler::remove; the share ceases to exist
Delete(s) ==
  /\ NotYielding
  /\ state[s] # "absent"
  /\ s = head => pass \/ DeleteRunning
  /\ state' = [state EXCEPT ![s] = "absent"]
  /\ quota' = [quota EXCEPT ![s] = 0]
  /\ claim' = [claim EXCEPT ![s] = 0]
  /\ fill'  = [fill  EXCEPT ![s] = 0]
  /\ ready' = [ready EXCEPT ![s] = FALSE]
  /\ head' = IF s = head THEN None ELSE head
  /\ fills' = IF ready[s] THEN Remove(fills, s) ELSE fills
  /\ IF state[s] = "inserted" /\ quota[s] > 0 THEN Unclaim(s) ELSE UNCHANGED <<rcl, ucl>>
  /\ used' = [used EXCEPT ![s] = 0]
  /\ granted' = [granted EXCEPT ![s] = 0]
  /\ UNCHANGED <<head_quota, head_claims, head_yields, residual, cpuVars>>

\* Mutant: ignores that the share may be unready
QuotaIntroductionReady(s) ==
  rcl' = [rcl EXCEPT ![prio[s]] = InsertTail(@, s)] /\ UNCHANGED <<ucl, claim>>

\* _quota_introduction: a fill becomes a claim
QuotaIntroduction(s) ==
  /\ IF ready[s]
     THEN rcl' = [rcl EXCEPT ![prio[s]] = InsertTail(@, s)] /\ UNCHANGED ucl
     ELSE ucl' = [ucl EXCEPT ![prio[s]] = InsertTail(@, s)] /\ UNCHANGED rcl
  /\ UNCHANGED claim

\* Mutant: a new quota counts as unused
QuotaAdaptionRefills(s, q) ==
  claim' = [claim EXCEPT ![s] = q] /\ UNCHANGED <<rcl, ucl>>

\* _quota_adaption: a claim gets another quota or, by _quota_revokation, none
QuotaAdaption(s, q) ==
  IF q > 0
  THEN /\ claim' = [claim EXCEPT ![s] = Minimum(@, q)]
       /\ UNCHANGED <<rcl, ucl>>
  ELSE Unclaim(s) /\ UNCHANGED claim

\* Cpu_scheduler::quota
SetQuota(s, q) ==
  /\ NotYielding
  /\ state[s] = "inserted"
  /\ \/ quota[s] > 0 /\ QuotaAdaption(s, q)
     \/ quota[s] = 0 /\ q > 0 /\ QuotaIntroduction(s)
     \/ quota[s] = 0 /\ q = 0 /\ UNCHANGED <<claim, rcl, ucl>>
  /\ quota' = [quota EXCEPT ![s] = q]
  /\ granted' = [granted EXCEPT ![s] = Maximum(@, q)]
  /\ UNCHANGED <<state, fill, ready, fills, headVars, cpuVars, used>>

---------------------------------------------------------------------------
(***************************************************************************)
(* Readiness                                                               *)
(***************************************************************************)

\* Mutant: ready claims go to the head of the list, spent or not
BecomeReadyFirst(s) ==
  /\ state[s] = "inserted"
  /\ ~ready[s]
  /\ ready' = [ready EXCEPT ![s] = TRUE]
  /\ fill' = [fill EXCEPT ![s] = FillSlice]
  /\ fills' = InsertTail(fills, s)
  /\ ucl' = [ucl EXCEPT ![prio[s]] = Remove(@, s)]
  /\ rcl' = IF quota[s] = 0 THEN rcl ELSE [rcl EXCEPT ![prio[s]] = InsertHead(@, s)]

\* Cpu_scheduler::ready, the part common to 'ready' and 'ready_check'
BecomeReady(s) ==
  /\ state[s] = "inserted"
  /\ ~ready[s]
  /\ ready' = [ready EXCEPT ![s] = TRUE]
  /\ fill' = [fill EXCEPT ![s] = FillSlice]
  /\ fills' = InsertTail(fills, s)
  /\ \/ /\ quota[s] = 0
        /\ UNCHANGED <<rcl, ucl>>
     \/ /\ quota[s] > 0
        /\ ucl' = [ucl EXCEPT ![prio[s]] = Remove(@, s)]
        /\ rcl' = [rcl EXCEPT ![prio[s]] =
                     IF claim[s] > 0 THEN InsertHead(@, s) ELSE InsertTail(@, s)]

\* Cpu::schedule(job) on the CPU of the job
Ready(s) ==
  /\ pass
  /\ BecomeReady(s)
  /\ UNCHANGED <<state, quota, claim, headVars, cpuVars, history>>

\* Mutant: a spent claim is not worth an interrupt, even of an idle CPU
OutdatedByClaim(s) ==
  claim[s] > 0 /\ (~head_claims \/ prio[s] > prio[head])

\* The result of ready_check: does making s ready outdate the head?
Outdated(s) ==
  IF claim[s] = 0 THEN head = Idle
  ELSE IF ~head_claims THEN TRUE
  ELSE IF prio[s] # prio[head] THEN prio[s] > prio[head]
  ELSE \* s does not follow the head in the list
       /\ s # head
       /\ ~ \E i, j \in 1 .. Len(rcl'[prio[s]]) :
              i < j /\ rcl'[prio[s]][i] = head /\ rcl'[prio[s]][j] = s

\* Cpu::schedule(job) on another CPU: 'ready_check' and trigger_ip_interrupt
ReadyCheck(s) ==
  /\ ~pass
  /\ head # None
  /\ BecomeReady(s)
  /\ ipi' = (ipi \/ Outdated(s))
  /\ UNCHANGED <<state, quota, claim, headVars, pass, history>>

\* Cpu_scheduler::unready, called on the CPU of the job only
Unready(s) ==
  /\ pass /\ NotYielding
  /\ state[s] = "inserted"
  /\ ready[s]
  /\ ready' = [ready EXCEPT ![s] = FALSE]
  /\ fills' = Remove(fills, s)
  /\ \/ /\ quota[s] = 0
        /\ UNCHANGED <<rcl, ucl>>
     \/ /\ quota[s] > 0
        /\ rcl' = [rcl EXCEPT ![prio[s]] = Remove(@, s)]
        /\ ucl' = [ucl EXCEPT ![prio[s]] = InsertTail(@, s)]
  /\ UNCHANGED <<state, quota, claim, fill, headVars, cpuVars, history>>

Yield ==
  /\ pass /\ NotYielding
  /\ head # None
  /\ head_yields' = TRUE
  /\ UNCHANGED <<shareVars, listVars, head, head_quota, head_claims, residual,
                 cpuVars, history>>

---------------------------------------------------------------------------
(***************************************************************************)
(* Kernel passes: Cpu::schedule() reads the head, so it needs one; the     *)
(* pass ends with Cpu_scheduler::update(q)                                 *)
(***************************************************************************)

EnterKernel ==
  /\ ~pass
  /\ head # None
  /\ pass' = TRUE
  /\ UNCHANGED <<shareVars, listVars, headVars, ipi, history>>

\* The pass that handles the inter-processor interrupt (Ipi::occurred)
EnterIpi ==
  /\ ~pass
  /\ head # None
  /\ ipi
  /\ pass' = TRUE
  /\ ipi' = FALSE
  /\ UNCHANGED <<shareVars, listVars, headVars, history>>

\* _head_claimed: the head used its claim and r of it is left
HeadClaim(r) ==
  IF head_claims /\ quota[head] > 0
  THEN [claim EXCEPT ![head] = Minimum(r, quota[head])]
  ELSE claim

\* Mutant: a spent claim stays at the head of its list
HeadClaimListStays(r) == rcl

HeadClaimList(r) ==
  IF head_claims /\ quota[head] > 0 /\ HeadClaim(r)[head] = 0 /\ ready[head]
  THEN [rcl EXCEPT ![prio[head]] = ToTail(@, head)]
  ELSE rcl

\* _head_filled and _next_fill: the head used its time slice and r is left
HeadLeadsFills == ~head_claims /\ fills # <<>> /\ Head(fills) = head

\* Mutant: a used up time slice is not renewed
HeadFillUsedUp(r) == IF HeadLeadsFills THEN [fill EXCEPT ![head] = r] ELSE fill

HeadFill(r) ==
  IF HeadLeadsFills
  THEN [fill EXCEPT ![head] = IF r > 0 THEN r ELSE FillSlice]
  ELSE fill

\* Mutant: no round-robin
HeadFillListStays(r) == fills

HeadFillList(r) ==
  IF HeadLeadsFills /\ r = 0 THEN HeadToTail(fills) ELSE fills

\* _consumed and _next_round, after the head's claim has been updated to c
Consumed(q, c) ==
  IF residual > q
  THEN /\ residual' = residual - q
       /\ claim' = c
       /\ used' = IF head_claims THEN [used EXCEPT ![head] = @ + q] ELSE used
       /\ UNCHANGED granted
  ELSE /\ residual' = SuperPeriod
       /\ claim' = [s \in Share |-> IF s \in Listed THEN quota[s] ELSE c[s]]
       /\ used' = [s \in Share |-> 0]
       /\ granted' = quota

\* Mutant: the consumption is not limited to what was granted
ChargeUntrimmed(c) ==
  LET q == Minimum(c, residual)
      r == head_quota - q
  IN  /\ head_yields' = FALSE
      /\ rcl' = HeadClaimList(r)
      /\ fill' = HeadFill(r)
      /\ fills' = HeadFillList(r)
      /\ Consumed(q, HeadClaim(r))

\* _trim_consumption and the charging of the head for a consumption of c
Charge(c) ==
  IF head = None
  THEN UNCHANGED <<claim, fill, rcl, fills, head_yields, residual, history>>
  ELSE LET q == Minimum(Minimum(c, head_quota), residual)
           r == IF head_yields THEN 0 ELSE head_quota - q
       IN  /\ head_yields' = FALSE
           /\ rcl' = HeadClaimList(r)
           /\ fill' = HeadFill(r)
           /\ fills' = HeadFillList(r)
           /\ Consumed(q, HeadClaim(r))

\* Priorities at which _claim_for_head finds a claim that has quota left
ClaimPrio == { p \in Prio : rcl[p] # <<>> /\ claim[Head(rcl[p])] > 0 }

TopClaim == Head(rcl[CHOOSE p \in ClaimPrio : \A o \in ClaimPrio : o <= p])

\* _claim_for_head, _fill_for_head, else the idle share; the choice is made
\* on the lists and values that Charge leaves behind
ChooseHead ==
  \/ /\ ClaimPrio' # {}
     /\ head' = TopClaim'
     /\ head_quota' = claim'[head']
     /\ head_claims' = TRUE
  \/ /\ ClaimPrio' = {} /\ fills' # <<>>
     /\ head' = Head(fills')
     /\ head_quota' = fill'[head']
     /\ head_claims' = FALSE
  \/ /\ ClaimPrio' = {} /\ fills' = <<>>
     /\ head' = Idle
     /\ head_quota' = FillSlice
     /\ head_claims' = FALSE

Update(c) ==
  /\ pass
  /\ Charge(c)
  /\ ChooseHead
  /\ pass' = FALSE
  /\ UNCHANGED <<state, quota, ready, ucl, ipi>>

---------------------------------------------------------------------------
Init ==
  /\ state = [s \in Share |-> "absent"]
  /\ quota = [s \in Share |-> 0]
  /\ claim = [s \in Share |-> 0]
  /\ fill = [s \in Share |-> 0]
  /\ ready = [s \in Share |-> FALSE]
  /\ rcl = [p \in Prio |-> <<>>]
  /\ ucl = [p \in Prio |-> <<>>]
  /\ fills = <<>>
  /\ head = Idle
  /\ head_quota = FillSlice
  /\ head_claims = FALSE
  /\ head_yields = FALSE
  /\ residual = SuperPeriod
  /\ pass = FALSE
  /\ ipi = FALSE
  /\ used = [s \in Share |-> 0]
  /\ granted = [s \in Share |-> 0]

\* update_time reports at least one tick; charging is cut at the super period
Consumption == 1 .. SuperPeriod

Next ==
  \/ \E s \in Share, q \in Quota : Create(s, q)
  \/ \E s \in Share, q \in Donation : PresetQuota(s, q)
  \/ \E s \in Share : Insert(s)
  \/ \E s \in Share : Delete(s)
  \/ \E s \in Share, q \in Donation : SetQuota(s, q)
  \/ \E s \in Share : Ready(s)
  \/ \E s \in Share : ReadyCheck(s)
  \/ \E s \in Share : Unready(s)
  \/ Yield
  \/ EnterKernel
  \/ EnterIpi
  \/ \E c \in Consumption : Update(c)

Spec == Init /\ [][Next]_vars

---------------------------------------------------------------------------
(***************************************************************************)
(* Properties                                                              *)
(***************************************************************************)

\* Every variable holds a value of its C++ type.
TypeOK ==
  /\ state \in [Share -> {"absent", "created", "inserted"}]
  /\ quota \in [Share -> Nat]
  /\ claim \in [Share -> Nat]
  /\ fill \in [Share -> Nat]
  /\ ready \in [Share -> BOOLEAN]
  /\ rcl \in [Prio -> Seq(Share)]
  /\ ucl \in [Prio -> Seq(Share)]
  /\ fills \in Seq(Share)
  /\ head \in Share \cup {Idle, None}
  /\ head_quota \in Nat
  /\ head_claims \in BOOLEAN
  /\ head_yields \in BOOLEAN
  /\ residual \in 1 .. SuperPeriod
  /\ pass \in BOOLEAN
  /\ ipi \in BOOLEAN
  /\ used \in [Share -> Nat]
  /\ granted \in [Share -> Nat]

\* The three lists always hold exactly the shares they are meant for, each
\* once: whatever sequence of create, ready, unready, quota and delete calls
\* of whichever CPUs came before, no operation unlinks a share that is not in
\* the list (which would corrupt the list) or leaves a deleted share linked.
ListsConsistent ==
  /\ \A p \in Prio :
       /\ Distinct(rcl[p]) /\ Distinct(ucl[p])
       /\ Elems(rcl[p]) = { s \in Inserted : prio[s] = p /\ quota[s] > 0 /\ ready[s] }
       /\ Elems(ucl[p]) = { s \in Inserted : prio[s] = p /\ quota[s] > 0 /\ ~ready[s] }
  /\ Distinct(fills)
  /\ Elems(fills) = { s \in Inserted : ready[s] }

\* In each list of ready claims, those that have quota left come first.
\* _claim_for_head relies on it: it looks at the head of each list only.
UnspentFirst ==
  \A p \in Prio : \A i, j \in 1 .. Len(rcl[p]) :
    i < j /\ claim[rcl[p][j]] > 0 => claim[rcl[p][i]] > 0

\* The claims that are active and have quota left
LiveClaims == { s \in Inserted : ready[s] /\ quota[s] > 0 /\ claim[s] > 0 }

\* While the CPU is in user mode and no reschedule request is on its way, no
\* live claim is kept waiting for a claim of lower priority or for a fill, and
\* the idle thread does not run while any share is ready.  In particular
\* 'ready_check' never saves an inter-processor interrupt that is needed.
NoMissedPreemption ==
  ~pass /\ ~ipi /\ head # None =>
    /\ \A s \in LiveClaims : head_claims /\ prio[head] >= prio[s]
    /\ head = Idle => \A s \in Inserted : ~ready[s]

\* Within one super period no claim is charged more than the quota it had:
\* what it used and what it may still use stay within the highest quota that
\* was assigned to it in the period, yields, preemptions, quota changes and
\* repeated blocking notwithstanding.
ClaimBudget ==
  /\ \A s \in Inserted : quota[s] > 0 => used[s] + claim[s] <= granted[s]
  /\ head_claims /\ head # None => used[head] + head_quota <= granted[head]

\* In user mode the CPU always executes on behalf of a linked, ready share (or
\* idle) whose time is not yet used up, so the one-shot timer is never armed
\* with zero and 'schedule' never follows a dangling head.
HeadRunnable ==
  ~pass /\ head # None =>
    /\ head # Idle => head \in Inserted /\ ready[head]
    /\ head_quota > 0

\* ready_check asserts that there is a head, Cpu::schedule dereferences it:
\* outside a kernel pass the head is never the null pointer.
HeadPresent == ~pass => head # None

\* release_notes-14-11: "As long as there exist such claims, the scheduler
\* stays in the claim mode" (claims that are active and have quota left), and
\* "the priority defines the absolute scheduling order" among them: whenever
\* the scheduler chooses, it chooses a live claim of the highest priority.
ClaimModeFirst ==
  [][pass /\ ~pass' => \A s \in LiveClaims' : head_claims' /\ prio[head'] >= prio[s]]_vars

\* If the claims do not amount to the whole super period and no shares come
\* and go forever, every ready share gets its turn or blocks by itself: the
\* claim mode, yields and other shares that block and wake up in between never
\* starve a fill.
FillProgress ==
  <>[][UNCHANGED state]_state =>
    \A s \in Share : ready[s] ~> ~ready[s] \/ head = s

\* The one-shot timer (or any other exception) takes the CPU into the kernel
\* again, and a kernel pass terminates
Fairness == WF_vars(EnterKernel) /\ WF_vars(\E c \in Consumption : Update(c))

LiveSpec == Spec /\ Fairness

===========================================================================
