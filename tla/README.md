# TLA+ models of the Genode base-hw kernel

Genode is an operating-system framework. Its own kernel, *base-hw*
(`repos/base-hw/src/core/kernel`), schedules threads, passes synchronous
messages between them, delivers signals and manages timeouts. Everything above
it relies on these four mechanisms, they are driven by several CPUs and by
mutually distrusting components, and most of their errors show up only after a
particular order of calls. This project models them in TLA+, checks the models
with TLC and proves the central facts about them with TLAPS.
Three mechanisms built on the kernel are modelled as
well: the lock that all user-level code uses, the life of capabilities, and the
packet stream that components exchange bulk data by.

## 1. Inventory

### The kernel

A CPU enters the kernel by an exception (system call, fault, interrupt). A
*kernel pass* (`Cpu::schedule` in `cpu.cc`) reads the time, handles the
exception of the job it was executing, fires timeouts, charges the old job,
selects the next one and arms the one-shot timer. Kernel passes of different
CPUs exclude each other by one lock (`spec/smp/kernel/kernel.cc`), so a kernel
call is atomic; concurrency is the order of passes of different CPUs and
threads.

| Component | State | Operations | Hard parts |
|---|---|---|---|
| `Cpu_scheduler`, `Cpu_share` | lists of ready and unready claims per priority, list of fills, head and its time, rest of the super period | `ready`, `ready_check`, `unready`, `yield`, `insert`, `remove`, `quota`, `update` | operations of other CPUs between passes, quota changes in the middle of a super period, removal of a running job |
| `Double_list`, `Fifo` | links between items | insert, remove, move to tail | items move between lists and bring stale links |
| `Cpu`, `Cpu_job` | affinity, inter-processor interrupt | `schedule`, `affinity`, `quota`, activation of a share | remote activation must interrupt the remote CPU when needed |
| `Thread` | thread state, pause flag, share | start, stop, restart, pause, resume, cancel, destroy | a thread may be paused, cancelled or destroyed in any state |
| `Ipc_node` | state, caller, callee, helping flag, request queue | `send_request`, `await_request`, `send_reply`, `cancel_waiting` | chains of helpers, cancellation against replies |
| `Signal_receiver`, `Signal_context` | handlers, deliverable contexts, submit counter, acknowledgement, killer | `submit`, `ack`, `kill`, `add_handler`, cancellation, destruction | delivery against acknowledgement, kill and destruction |
| `Timer`, `Timeout` | wrapping time, two sorted timeout lists | `set_timeout`, `update_time`, `process_timeouts`, `schedule_timeout` | wrap of the time |
| `Object_identity_reference` | capabilities of a PD, use counts of UTCBs | transfer, acknowledge, delete | deletion while a message carries the capability |
| `Cpu_domain_update` | pending CPUs | TLB invalidation on all CPUs | waits for interrupts of all CPUs |
| `User_irq`, `Vm`, `Pd` | interrupt masks, VM state, page tables | – | hardware |

Threads use shares (`Cpu_job` is a base of `Thread`), IPC nodes and signal
handlers (also bases) and call back into the thread state when a message, a
signal or a timeout arrives. The scheduler's head selects a share; the CPU
executes the *helping sink* of the share, the thread at the end of the chain of
callees that the share's owner helps.

### Above the kernel

| Component | State | Operations | Hard parts |
|---|---|---|---|
| `Cancelable_lock`, `Lock` | owner, list of applicants on the stacks of the waiting threads | `lock`, `unlock`, `wake_up` | handover to a thread that has not stopped yet, cancellation or a page fault against handover, an owner that locks twice |
| `Pager_entrypoint`, `Pager_object` (core) | the fault in work | receive, map, restart | restarts threads with the operation that the lock uses, and neither knows of the other |
| `Native_capability` | reference count per id | copy, destroy, import from a message | the last copy dies while another thread receives the same capability |
| `Packet_stream_source`, `_sink` | two rings in shared memory, signals | submit, get, acknowledge, release, connect | two sides without common lock, signals on transitions only, connecting while packets flow |

The lock blocks by `stop_thread` and is handed over by `restart_thread`; core
cancels it like any other blocking. A thread that has met a page fault is in the
state of one that has stopped, and core's pager restarts it. Capabilities travel in messages and are
counted by the kernel while they are in a message buffer. Packet streams use
locks within each side and signals between the sides.

The base library has RPC entrypoints, the user-level signal framework and the
child and session management as well; core has the CPU, PD and RAM services and
region maps. They are listed in `PROJECT.json` with the reason why they are not
modelled. Other kernels, drivers, ports and applications are out of scope.

### What makes it correct

* Scheduler: lists and flags agree; a live claim always precedes claims of lower
  priority and fills, across CPUs; no claim exceeds its quota; fills progress.
* Threads and IPC: a share is scheduled if and only if the thread it helps can
  run; requests and the callee's books agree; replies answer the request that
  is pending; no assertion fails.
* Signals: none lost, duplicated or delivered before the acknowledgement; a kill
  waits for the handler and ends.
* Timer: the wrap is invisible.
* Lock: mutual exclusion, no lost wake-up, nobody is forgotten in the list, also
  if pages are missing.
* Capabilities: none in use is deleted or renamed, none unused is kept, ids are
  unambiguous.
* Packet stream: packets flow in order through bounded channels, come back, and
  nobody sleeps through a signal.

`PROJECT.json` lists under `hazards` the lines of code at which these are in
danger.

## 2. Modules

| Module | Models |
|---|---|
| `KernelList` | lists and queues as sequences without duplicates; no recursion |
| `CpuScheduler` | `cpu_scheduler.{h,cc}`, jobs and kernel passes of `cpu.cc` |
| `ThreadIpc` | `ipc_node.{h,cc}`, thread states and helping of `thread.{h,cc}` |
| `SignalReceiver` | `signal_receiver.{h,cc}` and the signal calls of `thread.cc` |
| `Timer`, `AbstractTimer` | `timer.{h,cc}`, and what it promises |
| `DoubleList`, `ListSpec` | `double_list.{h,cc}` as pointers, and what it promises |
| `CancelableLock` | `lock.cc`, `lock.h` of the base library on stop, restart and cancellation, page faults of `thread.cc` and the pager (`region_map_support.cc`, `pager.cc`) |
| `CapabilitySpace` | `object.{h,cc}`, `copy_msg`, the capability calls of `thread.cc`, `capability.cc`, `ipc.cc` |
| `PacketStream`, `PacketFlow` | `packet_stream.h`, wired by `packet_stream_rx/client.h`, and what it promises |
| `KernelListProofs`, `CpuSchedulerProofs`, `ThreadIpcProofs`, `SignalReceiverProofs`, `TimerProofs`, `CancelableLockProofs`, `CapabilitySpaceProofs`, `PacketStreamProofs` | lemmas and theorems |
| `MC*` | instances for TLC |

### CpuScheduler

The variables are the members of `Cpu_share` (`quota`, `claim`, `fill`, `ready`)
and of `Cpu_scheduler` (`rcl`, `ucl`, `fills`, `head`, `head_quota`,
`head_claims`, `head_yields`, `residual`). `pass` says that the owning CPU is
in the kernel, `ipi` is the pending inter-processor interrupt. `used` and
`granted` are history. Each operation is an action; `Update` is the whole of
`update` with `_head_claimed`, `_head_filled`, `_consumed`, `_next_round` and the
choice of the head. `Ready`, `Unready` and `Yield` belong to passes of the own
CPU, `ReadyCheck` to passes of others; creation, quota changes and deletion come
from anywhere. `DeleteRunning` tells whether another CPU may delete the running
thread; `Donation` holds the quotas the `quota` operation assigns, with 0 for
a revocation.

### ThreadIpc

`th` maps addresses to `Thread` objects. The handlers are functions from kernel
state to kernel state, composed as the code composes its calls, so one kernel
call is one action. A failed assertion sets `panic`. A thread makes a call only
if some CPU can execute it (`Executing`: it is the helping sink of an active
share); which of the active shares the CPU picks is left open. `Calls`
restricts who calls whom, `affinity` on which CPUs a thread may be started,
`Pausers` whom core pauses from which CPU. A thread that is not started yet
receives requests, too. `AwaitRequest` is `ipc_reply_wait` without a reply, as
`Rpc_entrypoint` does for invalid objects: a caller that is still in the inbuf is
given up. `Stop` is also what a page fault does. `Restart` targets stopped
threads; the assertion in `_restart` that the target is stopped or active is
taken as a precondition, whose keeping is a question to its callers and answered in
`CancelableLock`. The capabilities in a message are the matter of
`CapabilitySpace`; other contents are left out.

There are four cases that the code neither handles nor tests for. The model has
all of them and does what the code does; in addition it sets the history variable
`misused` (`Presume`):

1. a server gives up a caller that helps it (`ReceiveRequest`, `ipc_node.cc:90`);
2. the request of a paused thread ends (`SendRequestDone`, `thread.cc:98`);
3. a thread is paused from another CPU than its own (`PauseThread`,
   `thread.cc:227`, against the assertion in `cpu.cc:65`);
4. a request closes a circle of helpers (`SendRequest`). The recursion of
   `_deactivate_used_shares` and `helping_sink` does not end, so nothing happens
   after it.

What is said of shares, thread states and assertions holds until `misused`; what
is said of requests and replies holds without condition. `dropped` records whose
request has been given up, `serving` who has received it.

### SignalReceiver

`Listen` pairs as many deliverable contexts with waiting handlers as there are
of both, as the loop of `_listen` does. The submit counter is modulo
`MaxSubmits + 1`, so that the check against an overflow in `submit` matters. `handles` is what
a thread has received and not acknowledged: only this thread acknowledges it
(`block_for_signal`), and makes no other signal call before. `unacked` and `owed` record what
userland has not acknowledged and not received. If the thread is destroyed first,
the delivery stays unacknowledged for good (`Orphaned`). `AwaitSignal` consumes
the flag of `cancel_next_await_signal` before it looks the receiver up, so also
for a receiver that is gone. `CancelsKillers` and
`DestructsKilled` admit two things core may do that the code does not survive
(see section 3); they are off in the passing runs. A receiver is destroyed
only when no thread waits at it.

### Timer

`time` is modulo `Wrap`. `epoch` counts the wraps, so that `Now` is the time
that never wraps; the refinement maps `end` and `end_period` of a listed timeout
to a deadline on it. `Schedule` is the tail of a kernel pass:
`process_timeouts`, `set_timeout` of the CPU itself and `schedule_timeout`. The
hardware reports a remaining count of at most the armed one (`update_time`), so
1 to `last` ticks have passed. As the CPU timeout is always armed, the time never
overtakes a listed timeout, and the flush at the end of a period meets an empty
list in all reachable states.

### DoubleList

`heap` holds all pointers; following the null pointer sets `crash`. The caller's
duties (insert unlinked items, remove linked ones) are guards here and are what
`CpuScheduler!ListsConsistent` establishes for the scheduler. The names of the
module (`SpecLists`, `ListsTypeOK`, `Null`) are none of `CpuScheduler`'s, so that
`CpuSchedulerProofs` can extend both.

### CancelableLock

A node of the applicants' list is named after what it lives in: the lock
(`_owner`) or the stack of a thread (`myself`). `state`, `owner`, `last` and
`link` are the members; what the code does under the spinlock is one step, and
`pc` names the places between: `stop` before `thread_stop_myself`, `check` after
it, `in` the critical section, `wake` the loop of `wake_up`. `WakeUp` is the
iteration that finds its target stopped; one that finds it running changes
nothing. `kstate` is the kernel's thread state, with `AWAITS_IPC` for a thread
that has gone on and blocks elsewhere: `restart_thread` then fails its assertion
(`WakeUpPanics`). A `Signaller` unlocks for threads that lock twice, the way
Genode uses locks as events. `GiveUp` throws `Blocking_canceled`; `Lock::lock`
then calls again, which is the thread's next `LockFree` or `LockApply`.

A page may be missing wherever a thread runs (`PageFault`, at most `MaxFaults`
times). The thread is then in `AWAITS_RESTART`, which a wake-up loop, a
cancellation and the pager end alike; if the page is not mapped by then, the thread
faults again (`FaultAgain`). The pager is one thread that receives a fault, maps
the page and restarts the thread, whatever that does meanwhile (`PagerReceive`,
`PagerMap`, `PagerRestart`). `late` records a fault between the release of the
spinlock and `thread_stop_myself`. Faults that the pager cannot resolve end the
thread and are left out.

### CapabilitySpace

`cap[p]` is the capability tree of a PD: a function from ids to references or
`NoCap`. A waiting thread owns `RcvCaps` blocks of the slab (`slab`), of which a
message turns one into a reference or none, and returns the others. They are
allocated one after the other; `WaitFails` is the call that runs out of memory
midway, returns -2 and is repeated by userland from the first block on. Userland's
`counter` is changed under a spinlock that `_dec` keeps during `delete_cap`, so
that the decision and the call are two steps. A message carries a capability, an id
that its sender's PD does not know, or none, and who sends to whom is
unrestricted. `Cancel`, `Kill` and `WaitFails` leave blocks allocated to which no
pointer leads any more, as the code does; `lost` counts them. Core's references
belong to the identities and are never counted.

### PacketStream

Each access of one side to data that the other side writes is a step: the test
for full or empty, the slot, the index, the test for a transition. `Reorders`
lets the two accesses of `add` and of `get` change places. `tx_ready` and
`rx_ready` are pending signals, merged as `SignalReceiver` shows them to be.
`wiring` counts the steps of the client's constructor, during which the source may
submit already: the sink resets the indices of its own roles, and registers the
four signal handlers. `register_tx_ready_cap` signals if the ring is not empty,
where a waiting transmitter would need "not full"; with the wiring of this client
it makes no difference, as no packet is taken before. Only threads with packets
under way wait for acknowledgements.

## 3. Runs

Passing runs:

| Run | Instance | Shows |
|---|---|---|
| `scheduler_quota` | 3 shares on 2 priorities, super period 3, slice 1, quotas 0 and 2, later 1 | list consistency, order of claims, budget, preemption across CPUs, choice of the head |
| `scheduler_live` | a share of each priority, quotas 0 and 1 | a fill is never starved |
| `ipc_helping` | client c1 on the CPU of the servers srv and m or on another one; c1 → srv, c1 → m, srv → m, m → c1; c1 and m paused from CPU 1 | helping chains of length two, blocking across CPUs, assertions, states and shares, until a misuse |
| `ipc_live` | c1, c2 → srv, c2 on another CPU and paused there | books and replies, also after a misuse; requests are answered |
| `signal_delivery` | 2 threads, 2 contexts, counter up to 3 | delivery, acknowledgement, kill; deliveries and kills end |
| `timer_wrap` | 2 threads and the CPU, time modulo 5, 3 wraps | refinement of `AbstractTimer` |
| `double_list` | 3 items, 2 lists | refinement of `ListSpec` |
| `lock_handover` | 3 threads and a signaller at a lock, 1 cancellation, 1 missing page | mutual exclusion, the list, wake-ups; without cancellation and late fault, everyone is served |
| `packet_rings` | a source and a sink, rings of 3 and 2 slots, 3 packets | refinement of `PacketFlow`, no missed signal, stable queries, packets return |
| `capability_transfer` | core and 2 threads of a PD, 2 objects, identities and ids, 2 copies per thread, 2 blocks per waiting thread, 1 cancellation, kill or failed allocation | deletion against reception, no leak, unambiguous ids |

Each takes less than three minutes with two workers. Distinct states:
`scheduler_quota` 1.3 million, `capability_transfer` 404 thousand modulo symmetry,
`packet_rings` 349 thousand, `ipc_helping` 276 thousand, `timer_wrap` 236
thousand, `lock_handover` 89 thousand, `ipc_live` 25 thousand, `signal_delivery`
17 thousand, the others below ten thousand.

**Bounds.** Two shares of one priority and one of another suffice for
every pair of positions in a list, for a preempting priority and for a super
period that ends while claims are unspent; the quotas of two claims exceed the
super period, so overcommitment is included. Three threads that call each other
give a helping chain of length two, a thread with two callers, one that is caller
and callee, and the circle. `ipc_helping` does not follow behaviours beyond the
first misuse (`NotMisused`), where its properties say nothing; `ipc_live` does. Two
contexts and two handlers give
every order of queues. Five values of time and three wraps reach each alignment
of start, end and wrap. Three threads give a list with an inner
node, whose removal differs from that of the last; one missing page and one lock
suffice for each place of a fault, and for a wake-up loop that meets its target in a
later `lock`. The safety properties of `lock_handover` also hold with two locks
(501 thousand states) and with two missing pages (524 thousand). Rings with two and one usable
slots are full, empty, and both "single element" and "single slot free" at
once; three packets fill the larger ring and leave one on its way back. Two
threads of one PD suffice for reception against deletion, two ids and identities
for reuse of either. `RefMod` exceeds the number of copies. Two
blocks per waiting thread are the least number of which an allocation can fail midway. `MaxEpoch` cuts the exploration, therefore the run does
not check deadlock. In the IPC runs the system may stop: once everyone waits or
is dead, only core's calls are left. The same holds for the lock after a failed
assertion or a lost wake-up and for capabilities after all objects are gone. In `packet_rings`
everything may rest only if no packet is under way, which is what
`PacketsReturn` checks; therefore deadlock is not checked in addition.

**Fairness.** `CpuScheduler`: the one-shot timer is always armed, so a CPU enters
the kernel again, and a pass ends (weak fairness of both). `ThreadIpc`: servers
that get CPU time reply and wait again, and stopped servers are restarted; a
server may lose the CPU in between, hence strong fairness. `SignalReceiver`:
a thread that has received a delivery acknowledges it in `block_for_signal` (weak,
per thread, so that nothing is assumed once it is destroyed), and handlers return
to `await_signal` after each signal or cancellation (strong, because
cancellations come in between). `CancelableLock`: a
thread that can run goes on in `lock` and in the wake-up loop, or meets its page
fault again, calls are answered, and the pager goes on as long as there are faults
(weak); owners leave their critical sections, and signallers unlock
(strong, as an owner may lock twice and be waiting at any time). `PacketStream`:
threads that can run do so (weak), and the locks of each side are granted to
each who applies (strong; this is what `EveryoneServed` shows of the lock). No fairness is assumed of cancellation, creation
or deletion.

Two violation runs show where the code departs from what it says of itself.
`scheduler_deleted`: deleting the thread that another CPU runs leaves that CPU
without a head, against `assert(_head)` in `ready_check`. `lock_fault` (three
threads, one of them a signaller, two locks, one missing page): the comment in `lock.cc:110-118` says that the loop in
`unlock` handles a wake-up that comes between the release of the spinlock and
`thread_stop_myself`, by checking the thread state. A page fault in this place
puts the thread into the state that the check looks for. The loop restarts it out
of the fault and ends; the thread then stops as the owner of the lock and nobody
restarts it. `NoLostWakeUp` and `EveryoneServed` state what remains true: this
place (`late`) is the only one at which a page fault loses a wake-up.

The models show more deviations from documentation, comments or assertions. They
have no run of their own; each appears when the named property is checked on the
instance of the passing run with the setting given here:

| Property | Setting | What the code does |
|---|---|---|
| `CpuScheduler!ClaimBudget` | 0 in `Donation` | `_quota_introduction` (`cpu_scheduler.cc:109`) keeps an old `_claim`, which may exceed every quota of the super period |
| `CpuScheduler!ClaimModeFirst` | 0 in `Donation` | a share whose quota is revoked and introduced again (`cpu_scheduler.cc:111`) stands behind spent claims, and the scheduler overlooks it, against `doc/release_notes-14-11.txt:447` |
| `ThreadIpc!NoPanic` | without `~misused` | case 2: a reply activates the share of a paused thread; `_call_resume_thread` (`thread.cc:237`) activates it again, against the assertion in `cpu_scheduler.cc:162`. Case 3: `cpu.cc:65` asserts that a share is deactivated on its own CPU |
| `ThreadIpc!SharesFollowSink` | without `~misused` | cases 1, 2 and 4: a share stays active although the thread it helps is blocked, or in a circle |
| `ThreadIpc!BlockedNotExecuted` | none | case 1: a server that awaits the next request without answering forgets its caller (`ipc_node.cc:90`), whose share stays active while the server blocks, against `thread.h:120` |
| `ThreadIpc!PausedNotExecuted` | none | case 2: `_send_request_succeeded` (`thread.cc:93`) ignores `_paused`, against `core_interface.h:98` |
| `ThreadIpc!CancelUnblocks` | none | a send to an unknown recipient (`thread.cc:360`) blocks in a state that `cancel_waiting` does not end, against `core_interface.h:152` |
| `ThreadIpc!CancelledIsAnnounced` | none | `_receive_reply` keeps `_callee`, so `~Ipc_node` notifies the callee of an old request (`ipc_node.h:106`) |
| `SignalReceiver!KilledIsHalted` | none | `kill` (`signal_receiver.cc:109`) leaves a context with submits in the deliver queue, against `interface.h:342` |
| `SignalReceiver!CancelUnblocks` | `CancelsKillers` | `Signal_context_killer::cancel_waiting` does not wake the thread, against `core_interface.h:152` |
| `SignalReceiver!KillWaitsForAck` | `DestructsKilled` | `~Signal_context` leaves the `_context` of its killer dangling; a later context at the same address loses its killer |
| `CancelableLock!CancelledByCore` | cancellations | a thread that is cancelled and becomes the owner before it looks continues; the wake-up loop meant for it ends its next `thread_stop_myself`, so that it leaves `lock` with `Blocking_canceled` uncancelled, against the comment in `lock.cc:126` |
| `CancelableLock!NoPanic` | cancellations | the same wake-up loop meets its target blocked in IPC, against the assertion in `thread.cc:268` |
| `PacketStream!ImplementsFlow` | `Reorders` | nothing orders the stores of slot and index (`packet_stream.h:203`); the receiver may read a slot before it is written |
| `PacketStream!PacketsReturn` | 5 packets | with more packets than fit into both rings and the sink, a single source thread sleeps in `submit_packet` while nobody collects acknowledgements; a source has to use `ready_to_submit` |
| `CapabilitySpace!HeldNotDeleted` | `RefMod` = 3 | the `uint8_t` count of copies (`capability.cc:27`) wraps; dropping one copy then deletes a capability in use |

The passing runs exclude the triggers of those that break their properties
through constants (`Donation`, `DeleteRunning`, `CancelsKillers`,
`DestructsKilled`, `Reorders`, `RefMod`) and show that nothing else goes wrong.
The properties of `ThreadIpc`, `WokenAsOwner`, `NoLostWakeUp` and `EveryoneServed`
exclude behaviours in the property itself (`misused`, `cancels`, `late`), so that the
others are checked with them. None of the four misuse cases is superfluous: without
the first, `NoPanic`, `IpcStateMatches` and `SharesFollowSink` are violated,
without the second likewise, without the third `NoPanic`, without the fourth
`SharesFollowSink`.

## 4. Proofs

All theorems hold for every value of the constants that the assumption of the
module admits: any number of threads, shares, locks, contexts, PDs, packets, and
any width of counters, times and rings. Conditions on what core or userland does
are hypotheses of the theorems that need them; each is a setting of the table
in section 3 that breaks the property otherwise.

`KernelListProofs` has the facts about list operations: which items result,
that no item is duplicated, and that the items of a set `V` stay in front.

**`CpuSchedulerProofs`** (`SchedulerAssumption`; for the lists `ListAssumption`):

* `TypeCorrect` and `ListsAlwaysConsistent`, by the invariant `ListInv` =
  `TypeOK /\ Linked /\ HeadLinked`. `ListsConsistent` is not inductive by itself:
  charging the head must know that the head is still in the scheduler and that
  the idle share never runs as a claim (`HeadLinked`). `Linked` states the lists
  share by share, so that a step about share `s` touches `s` alone.
* `HeadAlwaysRunnable`, by `RunInv`, which adds that every ready share has a
  time slice to run as a fill (`SliceLeft`): any of them may be the next head, and
  without a slice it would run for no time.
* `HeadAlwaysPresent` assumes `DeleteRunning = FALSE`; the run
  `scheduler_deleted` shows why.
* `UnspentAlwaysFirst`, by `OrderInv`, which adds that shares without quota have
  no claim (`NoQuotaNoClaim`) and that a head running as claim is unspent and
  still has quota (`HeadUnspent`). It is needed for the step that charges the
  head: the head is moved to the tail only when it is spent.
* `ClaimModeAlwaysFirst`: from ordered lists, the head of a list is live whenever
  some claim in it is, and `_claim_for_head` takes the highest such priority.
* `PreemptionNeverMissed`, by `PreemptInv`, which adds `NoMissedPreemption`
  itself; the interesting case is `ReadyCheck`, in which `Outdated` must be true
  whenever the new share is ahead of the head.
* `ClaimsWithinBudget`, by `BudgetInv`: what a share used and what is left of its
  claim stay within its grant together (`WithinGrant`); for the head it is the time
  it was given that counts, as the claim is written only when the head is charged
  (`HeadWithinGrant`), and fills are charged nothing (`FillsUncharged`).

The last four assume `0 \notin Donation`, that is, no quota is revoked. The others
hold with revocation, and all but `HeadAlwaysPresent` with deletion of running
threads.

The same module extends `DoubleList` and has its proofs. They rest on
`ListAssumption`, that there are finitely many items and that the null pointer is
neither an item nor a list, and say nothing of the number of items or lists:

* `ListsMirrored` (`LinksMirrored`) and `DoubleListImplementsLists`
  (`ImplementsLists`), by the invariant `ListsInv`: for each list there is a
  sequence without duplicates of exactly the items inserted in it, and the head,
  the tail and both links of each of its items are what this sequence says
  (`Links`). `LinksMirrored` alone is not inductive: it says nothing of which items
  a list holds, so `remove` could be called for an item of another list.
* `InsertTailLinks`, `InsertHeadLinks` and `RemoveLinks` show what an operation
  makes of the sequence and that it writes to its own list and the items of it
  only (`Relinks`), so that every other list stays (`OtherList`). `head_to_tail` and
  `to_tail` are code of their own; `HeadToTailMoves` and `ToTailMoves` show that
  they leave the pointers that `remove` and `insert_tail` would leave.
* `WalkSeq` shows that `for_each` visits the sequence and ends, which is the
  refinement mapping.

**`ThreadIpcProofs`** (`ThreadAssumption`): `TypeCorrect`, `KernelNeverPanics`,
`BooksAgree`, `StatesAgree`, `SharesAgree` and `RepliesMatch`, by the invariant
`IInv`, which says that the kernel state is `Sound`:

* `BooksOK`: a thread is in the inbuf or queue of another if and only if it awaits
  the reply of that one and has not been given up (`Announced`); no inbuf request is
  queued as well, and it has been received (`InbufOK`, which yields
  `RepliesMatch`); callees are alive, and on the caller's CPU if helped (`OutbufOK`,
  which yields that `_deactivate_own_share` runs on the CPU of the share); helpers
  can be ranked such that each ranks above its callee (`NoCircle`).
* `StateOK`: a thread with a pending IPC operation is in `AWAITS_IPC`
  (`StateFits`).
* `ShareOK`: the share of a helper is as ready as that of its callee; any other is
  ready if and only if its thread is active and not paused (`ShareFits`).
* `NoFailure`: no assertion has failed.

The latter three, the CPUs in `OutbufOK` and `NoCircle` are claimed until a misuse;
the rest of `BooksOK` holds for good. So `TypeCorrect`, `BooksAgree` and
`RepliesMatch` have no condition, and the other theorems have just the one that
their property states. There is no assumption on who calls whom, who is paused and
what servers answer.

`SharesFollowSink` speaks of the end of a chain of helpers and says nothing of one
link of it, so it cannot be used step by step; `ShareOK` is local. That it is
enough is a matter of closures: `UsedShares` is the least set with the thread that
has the helpers of its members, so all shares in it are as ready as the thread's
own before they are switched (`UsedAlike`, hence no assertion fails), and switching
them keeps every `ShareOK` but that of the thread (`SwitchShares`). The rank says
that a chain has an end. That a request which closes no circle leaves one is the one
place where a rank is built anew: the threads that use the caller's share are lifted
above all others. Between the steps of a handler one thread is out of order;
`Apart`, `SoundBut`, `Settled` and `Freed` say in which respect, and each handler is
proved as the composition it is. `CancelRequestQueue` is a loop; its lemma follows
the queue item by item.

**`SignalReceiverProofs`** (`SignalAssumption`): `TypeCorrect`, `NeverPanics`,
`NoSignalOverlooked`, `NoHandlerStranded`, `SubmitsAccountedFor` and
`DeliveriesAcknowledged`, by the invariant `SignalInv`. The queue properties are
proved together: that the deliver queue has the right contexts depends on the
acknowledgement and submit counters of each context, whose changes depend on the
state of threads, which in turn says in which handler queue they stand.
`_listen` runs a loop in the code; in the model it pairs the queues at once,
and the lemmas about it say that afterwards one of the queues is empty
(`Served`). `KillsWaitForAck` adds `KillersWoken` and assumes that core
neither cancels killers nor destructs contexts that are being killed. The handler of
a delivery may be destroyed at any time in all of them.

**`TimerProofs`** (`TimerAssumption`): `TimerTypeCorrect`, `ListsStaySorted`,
`AgesAreRight` and the refinement `TimerImplementsAbstractTimer`, by `TimerInv`.
It says that each timeout was installed at a time that reads as its start time
(`InstalledOK`), that a listed timeout of the next period ends before a full wrap
has passed (`EndsSoon`), and that in user mode the time is the time at which the
timer was armed (`ArmedNow`). `EndsSoon` is what makes the wrap harmless: it
makes the deadline on the unwrapped time a function of `end` and `end_period`,
which the refinement maps to; `ArmedNow` shows that the hardware cannot let the
time overtake a listed timeout.

**`PacketStreamProofs`** (`StreamAssumption`): `StreamTypeCorrect` and
`QueriesAreStable`, by `StreamInv`, which says for each place in the code what
the thread has read so far and which lock it holds; only the holder moves an
index of its side. Both hold also if the accesses of `add` and `get` change places
(`Reorders`). `NoSignalMissed` and the refinement `StreamImplementsFlow` use
`OrderedInv`, which adds that between the two accesses of `add` and of `get` the
slot at the index has the thread's packet (`SlotOK`), and that for a sleeper whose
ring is no longer full or empty a signal is pending, or a thread is about to
submit one and will find the transition it tests for (`DueOK`). They assume `Reorders = FALSE`: the
code has no barrier between slot and index.

**`CancelableLockProofs`** (`LockAssumption`):

* `LockTypeCorrect`.
* `MutualExclusionHolds` and `NoWakeUpLost`, by the invariant `Inv` = `TypeOK /\
  PlaceOK /\ OwnerOK /\ DueOK`, whatever is cancelled and wherever pages are
  missing. Mutual exclusion alone is not inductive: a step into the critical section
  must know that whoever is inside is the `_owner` and that an owned lock is not free
  (`OwnerOK`). An owner that has not stopped yet must be the target of a wake-up loop,
  not only of the pager, whose restart may come before the stop (`DueOK`); this
  depends on where a thread is that awaits a restart (`PlaceOK`), and breaks with a
  fault between spinlock and stop, which `NoLostWakeUp` therefore excludes.
* `WokenOnlyAsOwner`, by `CalmInv`, which describes the states before the first
  cancellation: who runs on after `thread_stop_myself` is the owner (`RunnerOK`),
  the links of a lock's list stay among those that wait for it and no two meet
  (`ListOK`), each wake-up loop has a target of its own that waits as owner
  (`WakerOK`), so that no loop outlives its target's `lock`, and a restart by the
  pager is outstanding only as long as the thread is in its fault, or the loop has
  restarted it instead and the pager's restart stands in for that of the loop
  (`PagerOK`). The last is what shows that a pager's late restart wakes nobody who
  waits for a lock without owning it.
* `ApplicantsAlwaysListed`, whatever is cancelled, by `QueueOK`: the applicants of
  a lock can be numbered such that each link leads to the next number, the owner
  is in front of the first, and `_last_applicant` is the last. Appending, handing
  over and removing a cancelled applicant from the middle renumber them
  (`AppendQueue`, `FirstQueue`, `RemoveQueue`). That `Walk` meets exactly the
  numbered nodes (`WalkChain`) is an induction over the length of the list.

**`CapabilitySpaceProofs`** (`CapabilityAssumption`, which has fewer UTCBs than
values of the kernel's counter):

* `UtcbsAlwaysCounted`, by `CountInv`: for each PD and id, the counter is the
  cardinality of the set of threads that have the id in their message buffer, and
  the id exists if there is one; it adds that a running or waiting thread has
  nothing to acknowledge (`UtcbIdle`). The counter's wrap is excluded because that
  set is a set of threads.
* `NamesAlwaysUnique`, by `NameInv`, which adds that an identity that does not
  exist has no object (`IdentityOK`) and thus no reference; without it, an
  identity created in reused memory could give an old reference a new meaning.
* `CapabilityTypeCorrect`, by `SlabOK`: a slab has exactly the blocks in use that
  waiting threads and references need and that are `lost`, so giving one back does
  not underflow.
* `HeldNeverDeleted`, by `CopyInv`: userland's counters are the cardinalities of
  the sets of copies (`CopiesCounted`), a thread in the middle of an operation
  holds what it works on (`HandOK`), and the count that a thread saw drop to zero
  is still zero when it calls `delete_cap`, as it holds the spinlock
  (`DeleteOK`).
* `NothingEverLeaks`, by `SlabOK` and `UsedOK` in addition: each reference has a thread that has
  it, received it, or is about to delete it. If the kernel refuses to delete, the
  exact count of `UtcbsCounted` yields the thread that has received it.

The first three hold whatever userland counts. The last two assume `NoWrap`: the
threads of a PD have, within `MaxCopies` each, fewer copies of a capability than
the counter has values. The code does not check this.

**Induction.** The provers cannot instantiate induction rules that take a
predicate. Where a proof needs one (an order along a sorted list, the nodes along
a chain), it goes by the least number for which a concrete set lacks an element
(`LeastNumber`), so no fact is taken on trust.

**Only model-checked.** Liveness (`FillProgress`, `RequestAnswered`,
`SignalsDelivered`, `KillsEnd`, `EveryoneServed`, `PacketsReturn`), as fairness and
ENABLED are beyond the prover. Every invariant, action property and refinement
of the passing runs has a theorem.

## 5. Not modelled

Message payload, domain updates, interrupt dispatch, VMs, page tables, tick
conversion, hardware drivers and CPU start-up: data formats and hardware.
Destruction of installed timeouts, and of either side of a packet stream while
the other uses it. What the kernel does after a request
has closed a circle of helpers (it does not return). Page faults that the pager
cannot resolve. The transmitting client of packet streams, packet sizes. Entrypoints,
the user-level signal framework, core's services, children and sessions,
allocators, and the other kernels, drivers, ports and applications, which make up
most of the repository: each is a system of its own, and its lines are not
covered by the map.

## 6. Plan

1. Done: `KernelList`, `CpuScheduler`, `ThreadIpc`, `SignalReceiver`, `Timer`,
   `DoubleList`, `CancelableLock`, `CapabilitySpace`, `PacketStream`; theorems of
   all of them, with every safety property of their runs.
2. Next models: domain updates with remote pause; the signal framework's context
   registry on top of `SignalReceiver`; entrypoint dispatch and dissolve on top
   of `ThreadIpc`.
3. Compositions: threads with scheduler (an abstract scheduler that `CpuScheduler`
   implements), threads with timer (timeouts of destroyed threads).
