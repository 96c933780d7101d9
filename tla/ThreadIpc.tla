----------------------------- MODULE ThreadIpc -----------------------------
(***************************************************************************)
(* Synchronous IPC and the thread states of the base-hw kernel             *)
(* (repos/base-hw/src/core/kernel/{ipc_node,thread}.{h,cc}).               *)
(*                                                                         *)
(* Kernel::Thread combines a scheduling share (Cpu_job), a thread state    *)
(* and an Ipc_node.  While a thread waits for the reply of a callee on its *)
(* own CPU it "helps": its share stays in the scheduler, and the CPU time  *)
(* of the share goes to the callee (or to whom the callee helps in turn).  *)
(* Each kernel call is handled atomically under the kernel lock; it is one *)
(* action here.  A failing assertion stops the kernel for good ('panic').  *)
(***************************************************************************)
EXTENDS KernelList, FiniteSets

CONSTANTS
  Thread,        \* addresses at which Thread objects are constructed
  None,          \* the null pointer
  Cpu,           \* the CPUs
  affinity,      \* the CPUs that core may start a thread on
  Calls,         \* which threads send requests to which others
  Pausers        \* which threads core pauses and resumes, and on which CPU

ASSUME ThreadAssumption ==
  /\ IsFiniteSet(Thread)
  /\ None \notin Thread \cup Cpu
  /\ affinity \in [Thread -> SUBSET Cpu]
  /\ Calls \subseteq Thread \X Thread
  /\ Pausers \subseteq Thread \X Cpu

VARIABLES
  th,      \* the Thread objects
  panic,   \* has an assertion of the kernel failed?
  serving, \* history: the callee that received a thread's latest request
  dropped, \* history: whose latest request the callee gave up unanswered
  misused, \* history: has a call met a case that the kernel does not handle?
  event    \* history: reply or cancellation that the last step delivered

vars == <<th, panic, serving, dropped, misused, event>>

NoEvent == <<"none", None>>

ThreadState == {"ABSENT", "AWAITS_START", "ACTIVE", "AWAITS_IPC", "AWAITS_RESTART", "DEAD"}
IpcState    == {"INACTIVE", "AWAIT_REPLY", "AWAIT_REQUEST"}

\* A Thread object as far as scheduling and IPC depend on it
ThreadObject ==
  [ state  : ThreadState,             \* Thread::_state, ABSENT if destroyed
    paused : BOOLEAN,                 \* Thread::_paused
    cpu    : Cpu \cup {None},         \* Cpu_job::_cpu
    share  : BOOLEAN,                 \* Cpu_share::_ready
    ipc    : IpcState,                \* Ipc_node::_state
    caller : Thread \cup {None},      \* Ipc_node::_caller, request in inbuf
    callee : Thread \cup {None},      \* Ipc_node::_callee
    help   : BOOLEAN,                 \* Ipc_node::_help
    queue  : Seq(Thread) ]            \* Ipc_node::_request_queue

New(s) == [ state |-> s, paused |-> FALSE, cpu |-> None, share |-> FALSE,
            ipc |-> "INACTIVE", caller |-> None, callee |-> None, help |-> FALSE, queue |-> <<>> ]

(***************************************************************************)
(* The handlers are functions of the kernel state k, a record of the       *)
(* thread objects, the outcome of the assertions and the history.          *)
(***************************************************************************)
Kernel == [ th |-> th, panic |-> panic, serving |-> serving, dropped |-> dropped,
            misused |-> misused, event |-> NoEvent ]

Pending(k, t) == k.th[t].ipc = "AWAIT_REPLY"

\* Nothing happens after a failed assertion; the history of a request ends with
\* the wait for its reply
Becomes(k) ==
  /\ ~panic
  /\ th' = k.th
  /\ panic' = k.panic
  /\ serving' = [t \in Thread |-> IF Pending(k, t) THEN k.serving[t] ELSE None]
  /\ dropped' = { t \in k.dropped : Pending(k, t) }
  /\ misused' = k.misused
  /\ event' = k.event

KernelAssert(k, c) == [k EXCEPT !.panic = @ \/ ~c]

\* Remember that the kernel went on although c, which its bookkeeping of the
\* shares rests on and which it does not test, does not hold
Presume(k, c) == [k EXCEPT !.misused = @ \/ ~c]

\* What is reached from t by following R
Closure(R(_), t) ==
  LET reached[n \in 0 .. Cardinality(Thread)] ==
        IF n = 0 THEN {t}
        ELSE LET S == reached[n - 1] IN S \cup UNION { R(u) : u \in S }
  IN  reached[Cardinality(Thread)]

\* for_each_helper: a waiting caller that lends its share
Helpers(k, t) ==
  { h \in Thread : /\ k.th[h].help
                   /\ h = k.th[t].caller \/ h \in Elems(k.th[t].queue) }

\* Mutant: helpers of helpers are forgotten
UsedSharesDirect(k, t) == {t} \cup Helpers(k, t)

UsedShares(k, t) == LET Of(u) == Helpers(k, u) IN Closure(Of, t)

HelpsOutbufDst(k, t) == k.th[t].ipc = "AWAIT_REPLY" /\ k.th[t].help

\* Ipc_node::helping_sink: follow the callees that are helped
HelpingSink(k, t) ==
  LET Of(u) == IF HelpsOutbufDst(k, u) THEN {k.th[u].callee} ELSE {}
  IN  { u \in Closure(Of, t) : ~HelpsOutbufDst(k, u) }

\* A CPU executes the helping sink of the share that its scheduler selects
Executing(t) == \E u \in Thread : th[u].share /\ t \in HelpingSink(Kernel, u)

---------------------------------------------------------------------------
(***************************************************************************)
(* Thread: activation of shares and state changes                          *)
(***************************************************************************)

\* The shares in U become ready; Cpu_scheduler::ready asserts !_ready
Activate(k, U) ==
  [ KernelAssert(k, \A u \in U : ~k.th[u].share)
      EXCEPT !.th = [ u \in Thread |-> IF u \in U THEN [@[u] EXCEPT !.share = TRUE] ELSE @[u] ] ]

\* Cpu_scheduler::unready asserts _ready, _deactivate_own_share that the
\* executing CPU c is the one of the share
Deactivate(k, U, c) ==
  [ KernelAssert(k, \A u \in U : k.th[u].share /\ k.th[u].cpu = c)
      EXCEPT !.th = [ u \in Thread |-> IF u \in U THEN [@[u] EXCEPT !.share = FALSE] ELSE @[u] ] ]

BecomeActive(k, t) ==
  LET a == IF k.th[t].state # "ACTIVE" /\ ~k.th[t].paused
           THEN Activate(k, UsedShares(k, t))
           ELSE k
  IN  [a EXCEPT !.th[t].state = "ACTIVE"]

\* Threads become inactive by a call or fault of their own
BecomeInactive(k, t, s) ==
  LET d == IF k.th[t].state = "ACTIVE" /\ ~k.th[t].paused
           THEN Deactivate(k, UsedShares(k, t), k.th[t].cpu)
           ELSE k
  IN  [d EXCEPT !.th[t].state = s]

\* Mutant: activates the shares of a thread whose share helped all the while
SendRequestDoneActivates(k, t) ==
  LET p == Presume(KernelAssert(k, k.th[t].state = "AWAITS_IPC"), ~k.th[t].paused)
  IN  Activate([p EXCEPT !.th[t].state = "ACTIVE"], UsedShares(k, t))

\* _send_request_succeeded and _send_request_failed; unlike _become_active
\* they do not look at _paused
SendRequestDone(k, t) ==
  LET p == Presume(KernelAssert(k, k.th[t].state = "AWAITS_IPC"), ~k.th[t].paused)
      a == [p EXCEPT !.th[t].state = "ACTIVE"]
  IN  IF a.th[t].share THEN a ELSE Activate(a, UsedShares(a, t))

\* _await_request_succeeded and _await_request_failed
AwaitRequestDone(k, t) ==
  BecomeActive(KernelAssert(k, k.th[t].state = "AWAITS_IPC"), t)

---------------------------------------------------------------------------
(***************************************************************************)
(* Ipc_node                                                                *)
(***************************************************************************)

\* _receive_request; a caller that is still in the inbuf is forgotten, and if
\* it helps, its share is no longer among those that t takes along
ReceiveRequest(k, t, c) ==
  LET old == {k.th[t].caller} \ {None}
  IN  [ Presume(k, \A o \in old : ~HelpsOutbufDst(k, o))
          EXCEPT !.th[t].caller = c, !.th[t].ipc = "INACTIVE",
                 !.serving[c] = t, !.dropped = @ \cup old ]

ReceiveReply(k, t) ==
  SendRequestDone([k EXCEPT !.th[t].ipc = "INACTIVE", !.event = <<"reply", t>>], t)

AnnounceRequest(k, t, c) ==
  IF k.th[t].ipc = "AWAIT_REQUEST"
  THEN AwaitRequestDone(ReceiveRequest(k, t, c), t)
  ELSE [k EXCEPT !.th[t].queue = InsertTail(@, c)]

\* Ipc_node::send_request; the request is announced before it implies help
SendRequestIpc(k, t, d, help) ==
  IF k.th[t].ipc # "INACTIVE" THEN k
  ELSE LET s == [k EXCEPT !.th[t].ipc = "AWAIT_REPLY", !.th[t].callee = d,
                          !.th[t].help = FALSE,
                          !.serving[t] = None, !.dropped = @ \ {t}]
       IN  [AnnounceRequest(s, d, t) EXCEPT !.th[t].help = help]

\* _outbuf_request_cancelled
OutbufRequestCancelled(k, t) ==
  IF k.th[t].callee = None THEN k
  ELSE SendRequestDone([k EXCEPT !.th[t].callee = None, !.th[t].ipc = "INACTIVE"], t)

\* _cancel_request_queue: fail the queued requests one after the other
CancelRequestQueue(k, t) ==
  LET q == k.th[t].queue
      step[i \in 0 .. Len(q)] ==
        IF i = 0 THEN k
        ELSE OutbufRequestCancelled([step[i - 1] EXCEPT !.th[t].queue = Tail(@)], q[i])
  IN  step[Len(q)]

CancelInbufRequest(k, t) ==
  IF k.th[t].caller = None THEN k
  ELSE [OutbufRequestCancelled(k, k.th[t].caller) EXCEPT !.th[t].caller = None]

\* Mutant: the callee is told only if the request is in its inbuf
CancelOutbufQueued(k, t) ==
  LET d == k.th[t].callee
      c == IF d # None /\ k.th[d].caller = t THEN [k EXCEPT !.th[d].caller = None] ELSE k
  IN  [c EXCEPT !.th[t].callee = None]

\* Mutant: a request that is being handled is not withdrawn
CancelOutbufHandled(k, t) ==
  LET d == k.th[t].callee
      c == IF d = None THEN k ELSE [k EXCEPT !.th[d].queue = Remove(@, t)]
  IN  [c EXCEPT !.th[t].callee = None]

\* _cancel_outbuf_request and _announced_request_cancelled; a callee that was
\* destroyed meanwhile is dangling memory in which t is not found
CancelOutbufRequest(k, t) ==
  LET d == k.th[t].callee
      c == IF d = None THEN k
           ELSE IF k.th[d].caller = t THEN [k EXCEPT !.th[d].caller = None]
           ELSE [k EXCEPT !.th[d].queue = Remove(@, t)]
  IN  [c EXCEPT !.th[t].callee = None]

\* Mutant: a cancelled server still looks like one that awaits a request
CancelWaitingServer(k, t) ==
  CASE k.th[t].ipc = "AWAIT_REPLY" ->
         SendRequestDone([CancelOutbufRequest(k, t) EXCEPT !.th[t].ipc = "INACTIVE"], t)
    [] k.th[t].ipc = "AWAIT_REQUEST" -> AwaitRequestDone(k, t)
    [] OTHER -> k

\* Ipc_node::cancel_waiting
CancelWaiting(k, t) ==
  CASE k.th[t].ipc = "AWAIT_REPLY" ->
         SendRequestDone([CancelOutbufRequest(k, t) EXCEPT !.th[t].ipc = "INACTIVE"], t)
    [] k.th[t].ipc = "AWAIT_REQUEST" ->
         AwaitRequestDone([k EXCEPT !.th[t].ipc = "INACTIVE"], t)
    [] OTHER -> k

---------------------------------------------------------------------------
(***************************************************************************)
(* Kernel calls of the executing thread t                                  *)
(***************************************************************************)

\* _call_send_request_msg to a known recipient.  A request that closes a circle
\* of helpers is the kernel's last: it does not return from the recursion of
\* helping_sink or _deactivate_used_shares.
SendRequest(t, d) ==
  /\ Executing(t)
  /\ <<t, d>> \in Calls
  /\ th[d].state # "ABSENT"
  /\ LET help   == th[d].cpu = th[t].cpu
         circle == help /\ d \in UsedShares(Kernel, t)
         s      == [SendRequestIpc(Kernel, t, d, help) EXCEPT !.th[t].state = "AWAITS_IPC"]
     IN  Becomes(CASE circle -> Presume(KernelAssert(Kernel, FALSE), FALSE)
                   [] ~circle /\ (~help \/ ~s.th[d].share) ->
                        Deactivate(s, UsedShares(s, t), th[t].cpu)
                   [] OTHER -> s)

\* _call_send_request_msg with a capability whose object is gone
SendUnknown(t) ==
  /\ Executing(t)
  /\ \E d \in Thread : <<t, d>> \in Calls
  /\ Becomes(BecomeInactive(Kernel, t, "AWAITS_IPC"))

\* Mutant: waits although a request is queued
AwaitRequestMsgBlocks(k, t) ==
  IF k.th[t].ipc # "INACTIVE" THEN k
  ELSE BecomeInactive([k EXCEPT !.th[t].ipc = "AWAIT_REQUEST"], t, "AWAITS_IPC")

\* _call_await_request_msg and Ipc_node::await_request
AwaitRequestMsg(k, t) ==
  IF k.th[t].ipc # "INACTIVE" THEN k
  ELSE IF k.th[t].queue # <<>>
  THEN ReceiveRequest([k EXCEPT !.th[t].queue = Tail(@)], t, Head(k.th[t].queue))
  ELSE BecomeInactive([k EXCEPT !.th[t].ipc = "AWAIT_REQUEST"], t, "AWAITS_IPC")

Servers == { d \in Thread : \E t \in Thread : <<t, d>> \in Calls }

\* ipc_reply_wait without a reply (INVALID_OBJECT): the server awaits the next
\* request even if it did not answer the last one
AwaitRequest(t) ==
  /\ Executing(t)
  /\ t \in Servers
  /\ Becomes(AwaitRequestMsg(Kernel, t))

\* Ipc_node::send_reply
SendReplyIpc(k, t) ==
  IF k.th[t].ipc = "INACTIVE" /\ k.th[t].caller # None
  THEN [ReceiveReply(k, k.th[t].caller) EXCEPT !.th[t].caller = None]
  ELSE k

\* _call_send_reply_msg.  If the slab for received capabilities is exhausted,
\* the call fails after the reply was sent, which is as if it did not await;
\* userland upgrades the slab and repeats the call.
SendReply(t, await) ==
  /\ Executing(t)
  /\ t \in Servers
  /\ \E r \in {SendReplyIpc(Kernel, t)} :
         Becomes(IF await THEN AwaitRequestMsg(r, t) ELSE r)

\* _call_stop_thread and _mmu_exception
Stop(t) ==
  /\ Executing(t)
  /\ Becomes(BecomeInactive(KernelAssert(Kernel, th[t].state = "ACTIVE"), t, "AWAITS_RESTART"))

\* _die, the answer to invalid kernel calls
Die(t) ==
  /\ Executing(t)
  /\ Becomes(BecomeInactive(Kernel, t, "DEAD"))

\* _call_restart_thread; its contract admits stopped and active threads only
Restart(t) ==
  /\ th[t].state = "AWAITS_RESTART"
  /\ Becomes(BecomeActive(Kernel, t))

---------------------------------------------------------------------------
(***************************************************************************)
(* Kernel calls of core that target thread t                               *)
(***************************************************************************)

NewThread(t) ==
  /\ th[t].state = "ABSENT"
  /\ Becomes([Kernel EXCEPT !.th[t] = New("AWAITS_START")])

\* _call_start_thread with affinity to CPU c
StartThread(t, c) ==
  /\ th[t].state = "AWAITS_START"
  /\ c \in affinity[t]
  /\ Becomes(BecomeActive([Kernel EXCEPT !.th[t].cpu = c], t))

\* _call_pause_thread, issued by a core thread on CPU c, which takes shares out
\* of the scheduler of that CPU only
PauseThread(t, c) ==
  /\ <<t, c>> \in Pausers
  /\ th[t].state # "ABSENT"
  /\ LET d == IF th[t].state = "ACTIVE" /\ ~th[t].paused
              THEN Deactivate(Presume(Kernel, th[t].cpu = c), UsedShares(Kernel, t), c)
              ELSE Kernel
     IN  Becomes([d EXCEPT !.th[t].paused = TRUE])

ResumeThread(t) ==
  /\ \E c \in Cpu : <<t, c>> \in Pausers
  /\ th[t].state # "ABSENT"
  /\ LET a == IF th[t].state = "ACTIVE" /\ th[t].paused
              THEN Activate(Kernel, UsedShares(Kernel, t))
              ELSE Kernel
     IN  Becomes([a EXCEPT !.th[t].paused = FALSE])

\* _call_cancel_thread_blocking
CancelBlocking(t) ==
  LET k == [Kernel EXCEPT !.event = <<"cancel", t>>]
  IN  \/ th[t].state = "AWAITS_RESTART" /\ Becomes(BecomeActive(k, t))
      \/ th[t].state = "AWAITS_IPC" /\ Becomes(CancelWaiting(k, t))

\* _call_delete<Thread>: ~Ipc_node, then ~Cpu_job
DeleteThread(t) ==
  /\ th[t].state # "ABSENT"
  /\ LET i == CancelOutbufRequest(CancelInbufRequest(CancelRequestQueue(Kernel, t), t), t)
     IN  Becomes([i EXCEPT !.th[t] = New("ABSENT")])

---------------------------------------------------------------------------
Init ==
  /\ th = [t \in Thread |-> New("ABSENT")]
  /\ panic = FALSE
  /\ serving = [t \in Thread |-> None]
  /\ dropped = {}
  /\ misused = FALSE
  /\ event = NoEvent

Next ==
  \E t \in Thread :
    \/ \E d \in Thread : SendRequest(t, d)
    \/ SendUnknown(t)
    \/ AwaitRequest(t)
    \/ \E await \in BOOLEAN : SendReply(t, await)
    \/ Stop(t)
    \/ Die(t)
    \/ Restart(t)
    \/ NewThread(t)
    \/ \E c \in Cpu : StartThread(t, c) \/ PauseThread(t, c)
    \/ ResumeThread(t)
    \/ CancelBlocking(t)
    \/ DeleteThread(t)

Spec == Init /\ [][Next]_vars

---------------------------------------------------------------------------
(***************************************************************************)
(* Properties                                                              *)
(***************************************************************************)

\* Every variable holds a value of its C++ type.
TypeOK ==
  /\ th \in [Thread -> ThreadObject]
  /\ panic \in BOOLEAN
  /\ serving \in [Thread -> Thread \cup {None}]
  /\ dropped \subseteq Thread
  /\ misused \in BOOLEAN
  /\ event \in {"none", "reply", "cancel"} \X (Thread \cup {None})

\* No assertion of the kernel ever fails, whatever mixture of requests,
\* replies, cancellations, stops, pauses and deletions a chain of helpers has
\* been through, unless one of the four things happened that the kernel does
\* not test for ('misused'): a server gave up a caller that helps it, the
\* request of a paused thread ended, a thread was paused from another CPU, or
\* a request closed a circle of helpers.
NoPanic == ~misused => ~panic

\* The request of a thread and the books of its callee agree, also in a paused
\* thread, after a misuse and for servers that do not answer: a thread that
\* awaits a reply is in the inbuf or, once, in the request queue of exactly the
\* living callee it refers to, unless just that request was given up, and
\* everything in an inbuf or a queue is a thread that awaits a reply from there.
RequestsAnnounced ==
  \A t \in Thread :
    /\ Pending(Kernel, t) /\ t \notin dropped =>
         LET d == th[t].callee
         IN  /\ d # None /\ th[d].state # "ABSENT"
             /\ th[d].caller = t <=> t \notin Elems(th[d].queue)
    /\ Distinct(th[t].queue)
    /\ \A c \in Elems(th[t].queue) \cup ({th[t].caller} \ {None}) :
         Pending(Kernel, c) /\ th[c].callee = t /\ c \notin dropped

\* The thread state and the IPC state agree as long as only runnable threads
\* are executed: only a thread that waits for IPC has a pending IPC operation,
\* so no IPC call meets a "bad state".
IpcStateMatches ==
  ~misused => \A t \in Thread : th[t].ipc # "INACTIVE" => th[t].state = "AWAITS_IPC"

Runnable(t) == th[t].state = "ACTIVE" /\ ~th[t].paused

\* A share is in the scheduler if and only if the thread at the end of its
\* helping chain can run: the CPU never executes a blocked, paused, stopped or
\* destroyed thread (if), and no thread loses its CPU time while the one it
\* waits for is runnable (only if), through nested calls, cancellations and
\* deletions anywhere in the chain and requests that are given up, until one of
\* the misuses above.
SharesFollowSink ==
  ~misused =>
    \A t \in Thread :
      th[t].share <=> /\ th[t].state # "ABSENT"
                      /\ \E s \in HelpingSink(Kernel, t) : Runnable(s)

\* A reply is taken for the request it answers: when one is delivered, the
\* callee has received this very request of the thread and not an earlier one
\* that the thread cancelled.
ReplyAnswersRequest ==
  [][\A t \in Thread : event' = <<"reply", t>> => serving[t] = th[t].callee]_vars

\* Under the assumptions on servers below, each request is answered unless the
\* server is not started, dies or gives it up or a misuse happened: requests of
\* other clients, also from other CPUs, those that the server does not answer,
\* cancellations and page faults do not make it miss a request in its queue.
RequestAnswered ==
  \A call \in Calls :
    LET t == call[1]
        d == call[2]
    IN  Pending(Kernel, t) /\ th[t].callee = d
          ~> \/ ~Pending(Kernel, t)
             \/ t \in dropped
             \/ th[d].caller = t /\ th[d].ipc = "AWAIT_REQUEST"
             \/ th[d].state \in {"AWAITS_START", "DEAD"} \/ misused

\* A server that is given CPU time again and again gets to its reply, and
\* whoever stopped for a lock or a page fault is restarted; the CPU time of
\* ready shares is due to the scheduler (CpuScheduler!FillProgress)
Fairness ==
  \A d \in Servers : SF_vars(SendReply(d, TRUE)) /\ WF_vars(Restart(d))

LiveSpec == Spec /\ Fairness

(***************************************************************************)
(* What the documentation and comments say of pausing, cancelling and      *)
(* helping                                                                 *)
(***************************************************************************)

\* core_interface.h, pause_thread: the pause state "masks the thread state
\* when it comes to scheduling", so a paused thread is not executed.
PausedNotExecuted == \A t \in Thread : th[t].paused => ~Executing(t)

\* thread.h, _deactivate_used_shares: a thread that becomes inactive takes the
\* shares of its helpers out of the scheduler, so only active threads execute.
BlockedNotExecuted == \A t \in Thread : Executing(t) => th[t].state = "ACTIVE"

\* core_interface.h, cancel_thread_blocking: the thread whose blocking was
\* cancelled "goes back to the 'active' thread state".
CancelUnblocks == \A t \in Thread : event = <<"cancel", t>> => th[t].state = "ACTIVE"

\* ipc_node.h, _announced_request_cancelled: the callee that is told of the
\* cancellation has the request in its inbuf or request queue.  The destructor
\* of a thread tells whomever _callee refers to.
CancelledIsAnnounced ==
  [][\A t \in Thread :
       th[t].callee # None /\ th[t].state # "ABSENT" /\ th'[t].state = "ABSENT" =>
         LET d == th[t].callee IN th[d].caller = t \/ t \in Elems(th[d].queue)]_vars

===========================================================================
