--------------------------- MODULE SignalReceiver ---------------------------
(***************************************************************************)
(* Asynchronous notifications of the base-hw kernel                        *)
(* (repos/base-hw/src/core/kernel/signal_receiver.{h,cc} and the signal    *)
(* calls of thread.cc).                                                    *)
(*                                                                         *)
(* A signal context counts submits.  Its receiver hands the count to one   *)
(* of the threads ("handlers") that wait at the receiver; the context is   *)
(* then blocked until the delivery gets acknowledged.  A thread that kills *)
(* a context waits until no delivery of it is unacknowledged, so that the  *)
(* handler may use the context's userland object up to the acknowledgement.*)
(***************************************************************************)
EXTENDS Integers, KernelList

CONSTANTS
  Thread,         \* addresses of Thread objects: handlers and killers
  Context,        \* addresses of Signal_context objects
  Receiver,       \* addresses of Signal_receiver objects
  None,           \* the null pointer
  receiver,       \* Signal_context::_receiver of the context at an address
  MaxSubmits,     \* the largest unsigned value, (unsigned)~0
  Num,            \* numbers of submits per submit_signal call
  CancelsKillers, \* does core cancel threads that wait in a kill operation?
  DestructsKilled \* does core destruct contexts that a kill operation waits for?

ASSUME SignalAssumption ==
  /\ None \notin Thread \cup Context \cup Receiver
  /\ receiver \in [Context -> Receiver]
  /\ MaxSubmits \in Nat \ {0}
  /\ Num \subseteq 1 .. MaxSubmits
  /\ CancelsKillers \in BOOLEAN
  /\ DestructsKilled \in BOOLEAN

VARIABLES
  thread,    \* the Thread objects as signal handlers and context killers
  context,   \* the Signal_context objects
  live,      \* the receivers that exist
  handlers,  \* Signal_receiver::_handlers
  deliver,   \* Signal_receiver::_deliver
  panic,     \* has an assertion of the kernel failed?
  handles,   \* userland: the delivery a thread has got and not yet acknowledged
  unacked,   \* history: contexts with a delivery that userland still handles
  owed,      \* history: accepted submits that no handler has got yet
  event      \* history: what the last step reported to userland

vars == <<thread, context, live, handlers, deliver, panic, handles, unacked, owed, event>>

ThreadObject ==
  [ state    : {"ABSENT", "ACTIVE", "AWAITS_SIGNAL", "AWAITS_SIGNAL_CONTEXT_KILL"},
    receiver : Receiver \cup {None},   \* Signal_handler::_receiver
    kills    : Context \cup {None},    \* Signal_context_killer::_context
    cancel   : BOOLEAN ]               \* _cancel_next_await_signal

ContextObject ==
  [ exists  : BOOLEAN,
    submits : 0 .. MaxSubmits,
    ack     : BOOLEAN,
    killed  : BOOLEAN,
    killer  : Thread \cup {None} ]

NewThreadObject(s) == [state |-> s, receiver |-> None, kills |-> None, cancel |-> FALSE]

NewContextObject(e) ==
  [exists |-> e, submits |-> 0, ack |-> TRUE, killed |-> FALSE, killer |-> None]

\* Kernel calls are functions of the kernel state k
Kernel == [ thread |-> thread, context |-> context, handlers |-> handlers,
            deliver |-> deliver, panic |-> panic, handles |-> handles,
            unacked |-> unacked, owed |-> owed, event |-> {} ]

\* Nothing happens after a failed assertion
Becomes(k) ==
  ~panic /\ \E m \in {k} :
    /\ thread' = m.thread
    /\ context' = m.context
    /\ handlers' = m.handlers
    /\ deliver' = m.deliver
    /\ panic' = m.panic
    /\ handles' = m.handles
    /\ unacked' = m.unacked
    /\ owed' = m.owed
    /\ event' = m.event

KernelAssert(k, c) == [k EXCEPT !.panic = @ \/ ~c]

\* Thread::_become_active of a thread that must be in state s
Wake(k, t, s) ==
  [KernelAssert(k, k.thread[t].state = s) EXCEPT !.thread[t].state = "ACTIVE"]

Minimum(a, b) == IF a < b THEN a ELSE b

---------------------------------------------------------------------------
(***************************************************************************)
(* Signal_receiver                                                         *)
(***************************************************************************)

\* _listen with Signal_context::_delivered and Thread::_receive_signal: pair
\* the deliverable contexts with the waiting handlers as long as there are both
Listen(k, r) ==
  LET n  == Minimum(Len(k.deliver[r]), Len(k.handlers[r]))
      cs == { k.deliver[r][i] : i \in 1 .. n }
      hs == { k.handlers[r][i] : i \in 1 .. n }
      Partner(h) == k.deliver[r][CHOOSE i \in 1 .. n : k.handlers[r][i] = h]
  IN  [ KernelAssert(k, \A h \in hs : k.thread[h].state = "AWAITS_SIGNAL") EXCEPT
          !.deliver[r] = SubSeq(@, n + 1, Len(@)),
          !.handlers[r] = SubSeq(@, n + 1, Len(@)),
          !.thread = [ t \in Thread |->
             IF t \in hs THEN [@[t] EXCEPT !.receiver = None, !.state = "ACTIVE"] ELSE @[t] ],
          !.context = [ c \in Context |->
             IF c \in cs THEN [@[c] EXCEPT !.submits = 0, !.ack = FALSE] ELSE @[c] ],
          !.handles = [ t \in Thread |-> IF t \in hs THEN Partner(t) ELSE @[t] ],
          !.unacked = @ \cup cs,
          !.owed = [ c \in Context |-> IF c \in cs THEN @[c] - k.context[c].submits ELSE @[c] ],
          !.event = @ \cup { <<"delivered", c>> : c \in cs } ]

\* _add_deliverable
AddDeliverable(k, c) ==
  LET r == receiver[c]
  IN  Listen(IF c \in Elems(k.deliver[r]) THEN k
             ELSE [k EXCEPT !.deliver[r] = InsertTail(@, c)], r)

\* Signal_context::_deliverable
Deliverable(k, c) ==
  IF k.context[c].submits > 0 THEN AddDeliverable(k, c) ELSE k

---------------------------------------------------------------------------
(***************************************************************************)
(* Signal_context                                                          *)
(***************************************************************************)

\* The counter has the width of an unsigned
Wrapped(n) == n % (MaxSubmits + 1)

\* Mutant: no protection against an overflow of the counter
SubmitUnchecked(c, n) ==
  /\ context[c].exists /\ ~context[c].killed
  /\ LET k == [Kernel EXCEPT !.context[c].submits = Wrapped(@ + n), !.owed[c] = @ + n]
     IN  Becomes(IF context[c].ack THEN Deliverable(k, c) ELSE k)

\* Mutant: delivers although the last delivery is unacknowledged
SubmitDelivers(c, n) ==
  /\ context[c].exists /\ ~context[c].killed
  /\ context[c].submits < MaxSubmits - n
  /\ Becomes(Deliverable([Kernel EXCEPT !.context[c].submits = Wrapped(@ + n), !.owed[c] = @ + n], c))

\* Signal_context::submit, called by threads, interrupts, timeouts and faults;
\* killed contexts and submits that would overflow the counter are rejected
Submit(c, n) ==
  /\ context[c].exists
  /\ ~context[c].killed
  /\ context[c].submits < MaxSubmits - n
  /\ LET k == [Kernel EXCEPT !.context[c].submits = Wrapped(@ + n), !.owed[c] = @ + n]
     IN  Becomes(IF context[c].ack THEN Deliverable(k, c) ELSE k)

\* Mutant: signals that came in since the delivery are not delivered
AckOnly(t, c) ==
  /\ thread[t].state = "ACTIVE"
  /\ handles[t] = c
  /\ context[c].exists
  /\ ~context[c].ack
  /\ Becomes([Kernel EXCEPT !.context[c].ack = TRUE, !.handles[t] = None,
                            !.unacked = @ \ {c}, !.event = {<<"acked", c>>}])

\* Mutant: the killer is not told
AckKeepsKiller(t, c) ==
  /\ thread[t].state = "ACTIVE"
  /\ handles[t] = c
  /\ context[c].exists
  /\ ~context[c].ack
  /\ LET k == [Kernel EXCEPT !.handles[t] = None, !.unacked = @ \ {c}, !.event = {<<"acked", c>>}]
     IN  Becomes(IF context[c].killed THEN k
                 ELSE Deliverable([k EXCEPT !.context[c].ack = TRUE], c))

\* _call_ack_signal and Signal_context::ack, called at the end of
\* block_for_signal by the thread that got the delivery
Ack(t, c) ==
  /\ thread[t].state = "ACTIVE"
  /\ handles[t] = c
  /\ context[c].exists
  /\ ~context[c].ack
  /\ LET k == [Kernel EXCEPT !.handles[t] = None, !.unacked = @ \ {c}, !.event = {<<"acked", c>>}]
         w == context[c].killer
     IN  Becomes(
           IF ~context[c].killed THEN Deliverable([k EXCEPT !.context[c].ack = TRUE], c)
           ELSE IF w = None THEN k
           ELSE Wake([k EXCEPT !.thread[w].kills = None, !.context[c].killer = None,
                               !.event = @ \cup {<<"killed", c>>}],
                     w, "AWAITS_SIGNAL_CONTEXT_KILL"))

\* Mutant: does not wait for the acknowledgement
KillAtOnce(t, c) ==
  /\ thread[t].state = "ACTIVE"
  /\ handles[t] = None
  /\ context[c].exists
  /\ ~context[c].killed
  /\ Becomes([Kernel EXCEPT !.context[c].killed = TRUE, !.event = {<<"killed", c>>}])

\* _call_kill_signal_context and Signal_context::kill; to kill a context again
\* succeeds if no delivery is unacknowledged and fails otherwise
Kill(t, c) ==
  /\ thread[t].state = "ACTIVE"
  /\ handles[t] = None
  /\ context[c].exists
  /\ Becomes(
       IF context[c].ack
       THEN [Kernel EXCEPT !.context[c].killed = TRUE, !.event = {<<"killed", c>>}]
       ELSE IF context[c].killed THEN Kernel
       ELSE [Kernel EXCEPT !.context[c].killed = TRUE, !.context[c].killer = t,
                           !.thread[t].kills = c,
                           !.thread[t].state = "AWAITS_SIGNAL_CONTEXT_KILL"])

NewContext(c) ==
  /\ ~context[c].exists
  /\ receiver[c] \in live
  /\ Becomes([Kernel EXCEPT !.context[c] = NewContextObject(TRUE)])

\* What handlers work on once the contexts in cs are gone: the kernel does not
\* know what they acknowledge any more
Unhandled(h, cs) == [t \in Thread |-> IF h[t] \in cs THEN None ELSE h[t]]

\* ~Signal_context and _context_destructed; a killer that waits is woken with
\* an error but keeps its pointer to the context
DestructContext(k, c) ==
  LET t == k.context[c].killer
      w == IF t = None THEN k ELSE Wake(k, t, "AWAITS_SIGNAL_CONTEXT_KILL")
  IN  [w EXCEPT !.context[c] = NewContextObject(FALSE),
                !.deliver[receiver[c]] = Remove(@, c),
                !.handles = Unhandled(@, {c}),
                !.unacked = @ \ {c}, !.owed[c] = 0]

DeleteContext(c) ==
  /\ context[c].exists
  /\ context[c].killer # None => DestructsKilled
  /\ Becomes(DestructContext(Kernel, c))

---------------------------------------------------------------------------
(***************************************************************************)
(* Signal handlers                                                         *)
(***************************************************************************)

\* Mutant: signals that are pending already are not looked for
AwaitSignalBlocks(t, r) ==
  /\ thread[t].state = "ACTIVE"
  /\ handles[t] = None
  /\ Becomes(
       IF thread[t].cancel THEN [Kernel EXCEPT !.thread[t].cancel = FALSE]
       ELSE IF r \notin live \/ thread[t].receiver # None THEN Kernel
       ELSE [Kernel EXCEPT !.handlers[r] = InsertTail(@, t), !.thread[t].receiver = r,
                           !.thread[t].state = "AWAITS_SIGNAL"])

\* _call_await_signal and Signal_receiver::add_handler; the flag to cancel the
\* call is consumed before the receiver is looked up
AwaitSignal(t, r) ==
  /\ thread[t].state = "ACTIVE"
  /\ handles[t] = None
  /\ Becomes(
       IF thread[t].cancel THEN [Kernel EXCEPT !.thread[t].cancel = FALSE]
       ELSE IF r \notin live \/ thread[t].receiver # None THEN Kernel
       ELSE Listen([Kernel EXCEPT !.handlers[r] = InsertTail(@, t),
                                  !.thread[t].receiver = r,
                                  !.thread[t].state = "AWAITS_SIGNAL"], r))

\* Mutant: the handler stays in the queue of the receiver
CancelHandlerQueued(k, t) == [k EXCEPT !.thread[t].receiver = None]

\* Signal_handler::cancel_waiting
CancelHandler(k, t) ==
  LET r == k.thread[t].receiver
  IN  IF r = None THEN k
      ELSE [k EXCEPT !.handlers[r] = Remove(@, t), !.thread[t].receiver = None]

\* _call_cancel_next_await_signal
CancelNextAwaitSignal(t) ==
  /\ thread[t].state # "ABSENT"
  /\ Becomes(IF thread[t].state = "AWAITS_SIGNAL"
             THEN Wake(CancelHandler(Kernel, t), t, "AWAITS_SIGNAL")
             ELSE [Kernel EXCEPT !.thread[t].cancel = TRUE])

\* Signal_context_killer::cancel_waiting and Signal_context::_killer_cancelled
CancelKiller(k, t) ==
  LET c == k.thread[t].kills
  IN  IF c = None THEN k ELSE [k EXCEPT !.context[c].killer = None]

\* _call_cancel_thread_blocking
CancelBlocking(t) ==
  LET k == [Kernel EXCEPT !.event = {<<"cancelled", t>>}]
  IN  \/ /\ thread[t].state = "AWAITS_SIGNAL"
         /\ Becomes(Wake(CancelHandler(k, t), t, "AWAITS_SIGNAL"))
      \/ /\ thread[t].state = "AWAITS_SIGNAL_CONTEXT_KILL"
         /\ CancelsKillers
         /\ Becomes(CancelKiller(k, t))

NewThread(t) ==
  /\ thread[t].state = "ABSENT"
  /\ Becomes([Kernel EXCEPT !.thread[t] = NewThreadObject("ACTIVE")])

\* Mutant: the destructor does not cancel the waiting
DeleteThreadQueued(t) ==
  /\ thread[t].state # "ABSENT"
  /\ Becomes([Kernel EXCEPT !.thread[t] = NewThreadObject("ABSENT"), !.handles[t] = None])

\* ~Signal_handler, then ~Signal_context_killer; what the thread would have
\* acknowledged remains unacknowledged
DeleteThread(t) ==
  /\ thread[t].state # "ABSENT"
  /\ Becomes([CancelKiller(CancelHandler(Kernel, t), t)
                EXCEPT !.thread[t] = NewThreadObject("ABSENT"), !.handles[t] = None])

NewReceiver(r) ==
  /\ r \notin live
  /\ live' = live \cup {r}
  /\ Becomes(Kernel)

\* ~Signal_receiver destructs the contexts that are left.  Core destroys a
\* receiver only when no thread waits at it any more.
DeleteReceiver(r) ==
  /\ r \in live
  /\ handlers[r] = <<>>
  /\ \A c \in Context : receiver[c] = r => ~context[c].exists \/ context[c].killer = None
  /\ live' = live \ {r}
  /\ Becomes([ Kernel EXCEPT
       !.context = [c \in Context |-> IF receiver[c] = r THEN NewContextObject(FALSE) ELSE @[c]],
       !.deliver[r] = <<>>,
       !.handles = Unhandled(@, {c \in Context : receiver[c] = r}),
       !.unacked = { c \in @ : receiver[c] # r },
       !.owed = [c \in Context |-> IF receiver[c] = r THEN 0 ELSE @[c]] ])

---------------------------------------------------------------------------
Init ==
  /\ thread = [t \in Thread |-> NewThreadObject("ABSENT")]
  /\ context = [c \in Context |-> NewContextObject(FALSE)]
  /\ live = {}
  /\ handlers = [r \in Receiver |-> <<>>]
  /\ deliver = [r \in Receiver |-> <<>>]
  /\ panic = FALSE
  /\ handles = [t \in Thread |-> None]
  /\ unacked = {}
  /\ owed = [c \in Context |-> 0]
  /\ event = {}

ContextStep(c) ==
  \/ \E n \in Num : Submit(c, n)
  \/ \E t \in Thread : Ack(t, c)
  \/ \E t \in Thread : Kill(t, c)
  \/ NewContext(c)
  \/ DeleteContext(c)

ThreadStep(t) ==
  \/ \E r \in Receiver : AwaitSignal(t, r)
  \/ CancelNextAwaitSignal(t)
  \/ CancelBlocking(t)
  \/ NewThread(t)
  \/ DeleteThread(t)

Next ==
  \/ UNCHANGED live /\ \E c \in Context : ContextStep(c)
  \/ UNCHANGED live /\ \E t \in Thread : ThreadStep(t)
  \/ \E r \in Receiver : NewReceiver(r) \/ DeleteReceiver(r)

Spec == Init /\ [][Next]_vars

---------------------------------------------------------------------------
(***************************************************************************)
(* Properties                                                              *)
(***************************************************************************)

\* Every variable holds a value of its C++ type.
TypeOK ==
  /\ thread \in [Thread -> ThreadObject]
  /\ context \in [Context -> ContextObject]
  /\ live \subseteq Receiver
  /\ handlers \in [Receiver -> Seq(Thread)]
  /\ deliver \in [Receiver -> Seq(Context)]
  /\ panic \in BOOLEAN
  /\ handles \in [Thread -> Context \cup {None}]
  /\ unacked \subseteq Context
  /\ owed \in [Context -> Int]
  /\ event \subseteq ({"delivered", "acked", "killed", "cancelled"} \X (Context \cup Thread))

\* No assertion on the state of a handler or killer ever fails, whatever
\* cancellations and destructions overtake a delivery or an acknowledgement.
NoPanic == ~panic

\* No signal is overlooked: a context that has submits and is not blocked by
\* an unacknowledged delivery is queued at its receiver, once, and nothing
\* else is; and no thread waits at a receiver that has something to deliver.
DeliverableQueued ==
  \A r \in Receiver :
    /\ Distinct(deliver[r])
    /\ Elems(deliver[r]) = { c \in Context : /\ receiver[c] = r
                                             /\ context[c].exists
                                             /\ context[c].submits > 0
                                             /\ context[c].ack }
    /\ deliver[r] = <<>> \/ handlers[r] = <<>>

\* A thread blocks for signals exactly if it is in the handler queue of the
\* receiver it refers to, once: no cancelled or destroyed thread stays queued.
HandlersQueued ==
  \A r \in Receiver :
    /\ Distinct(handlers[r])
    /\ Elems(handlers[r]) =
         { t \in Thread : thread[t].state = "AWAITS_SIGNAL" /\ thread[t].receiver = r }

\* interface.h, await_signal: "Every occurence of a signal is provided": what
\* the context counts is what was accepted and not yet handed to a handler.
EveryOccurrenceProvided ==
  \A c \in Context : context[c].exists => context[c].submits = owed[c]

\* interface.h, await_signal: "A context that delivered once doesn't deliver
\* again unless its last delivery has been acknowledged".
NoDeliveryBeforeAck ==
  [][\A c \in Context : <<"delivered", c>> \in event' =>
       c \notin unacked \/ <<"acked", c>> \in event']_vars

\* A kill operation that reports success leaves no handler that still works
\* with the context; a killer waits only while there is one, so the
\* acknowledgement it waits for is still to come.
KillWaitsForAck ==
  /\ \A c \in Context : <<"killed", c>> \in event => c \notin unacked
  /\ \A t \in Thread : thread[t].state = "AWAITS_SIGNAL_CONTEXT_KILL" =>
       \E c \in Context : context[c].exists /\ context[c].killer = t /\ c \in unacked

\* The handler of the last delivery was destroyed before it acknowledged, and
\* nobody else ever will
Orphaned(c) == c \in unacked /\ \A t \in Thread : handles[t] # c

\* As long as there is a thread left to handle signals, each submit gets
\* delivered, overtaking submits, cancelled waits and the backlog of other
\* contexts notwithstanding (unless the context is killed).  The one thing that
\* stops the signals of a context is the end of the thread that handled one.
SignalsDelivered ==
  ([]<> \E t \in Thread : thread[t].state \in {"ACTIVE", "AWAITS_SIGNAL"}) =>
    \A c \in Context : context[c].submits > 0 ~>
      context[c].submits = 0 \/ context[c].killed \/ Orphaned(c)

\* Every kill operation ends: the acknowledgement that the killer waits for
\* reaches it, unless the thread that is to send it is destroyed.
KillsEnd ==
  \A t \in Thread : thread[t].state = "AWAITS_SIGNAL_CONTEXT_KILL" ~>
    \/ thread[t].state # "AWAITS_SIGNAL_CONTEXT_KILL"
    \/ Orphaned(thread[t].kills)

\* block_for_signal: a thread that got a delivery reads and acknowledges it, and
\* entrypoints return to await_signal after each signal or cancellation
Fairness ==
  /\ \A t \in Thread, c \in Context : WF_vars(Ack(t, c) /\ UNCHANGED live)
  /\ \A t \in Thread, r \in Receiver :
       /\ SF_vars(AwaitSignal(t, r) /\ UNCHANGED live)
       /\ SF_vars(~thread[t].cancel /\ AwaitSignal(t, r) /\ UNCHANGED live)

LiveSpec == Spec /\ Fairness

(***************************************************************************)
(* What the documentation says of killing and cancelling                   *)
(***************************************************************************)

\* interface.h, kill_signal_context: "Halt processing of a signal context
\* synchronously": a killed context delivers nothing any more.
KilledIsHalted ==
  [][\A c \in Context : <<"delivered", c>> \in event' => ~context[c].killed]_vars

\* core_interface.h, cancel_thread_blocking: the thread whose blocking was
\* cancelled "goes back to the 'active' thread state".
CancelUnblocks ==
  \A t \in Thread : <<"cancelled", t>> \in event => thread[t].state = "ACTIVE"

===========================================================================
