--------------------------- MODULE CancelableLock ---------------------------
(***************************************************************************)
(* Genode::Cancelable_lock and Genode::Lock, the locks of all user-level   *)
(* code (repos/base/src/lib/base/lock.cc, repos/base/include/base/lock.h), *)
(* on top of stop_thread, restart_thread and cancel_thread_blocking of the *)
(* base-hw kernel.                                                         *)
(*                                                                         *)
(* The applicants of a lock form a singly linked list that starts in the   *)
(* lock's _owner.  Its other nodes, 'myself', live on the stacks of the    *)
(* threads that wait in lock().  A node is named after what it belongs to, *)
(* the lock or the thread.                                                 *)
(* What runs under the spinlock is one step; between the steps a thread    *)
(* may be preempted for any time.  The wake-up loop of unlock() is a state *)
(* of its own: the next owner may not have stopped yet.                    *)
(*                                                                         *)
(* The kernel does not tell why a thread awaits a restart: one that has    *)
(* met a page fault is in the same state as one that has stopped in        *)
(* lock(), and the pager restarts it with the same operation               *)
(* (repos/base-hw/src/core/region_map_support.cc, pager.cc).               *)
(*                                                                         *)
(* A thread uses one lock at a time.  A thread that owns a lock and locks  *)
(* it again blocks until another thread, a Signaller, unlocks it.          *)
(***************************************************************************)
EXTENDS Naturals, FiniteSets

CONSTANTS
  Thread,      \* threads
  Signaller,   \* threads that unlock for threads that lock twice
  Lock,        \* Cancelable_lock objects
  Invalid,     \* invalid_thread_base
  Null,        \* the null pointer
  MaxCancels,  \* bound: number of cancellations by core
  MaxFaults    \* bound: number of pages that are missing when accessed

ASSUME LockAssumption ==
  /\ Signaller \subseteq Thread /\ IsFiniteSet(Thread)
  /\ Thread \cap Lock = {}
  /\ Invalid \notin Thread /\ Null \notin Thread \cup Lock
  /\ MaxCancels \in Nat /\ MaxFaults \in Nat

VARIABLES
  state,      \* _state of a lock
  owner,      \* _owner._thread_base
  last,       \* _last_applicant
  link,       \* _to_wake_up of the nodes
  pc,         \* what a thread does next
  lk,         \* the lock that it does it with, if any
  wakee,      \* the thread that its wake-up loop restarts, if any
  kstate,     \* Kernel::Thread::_state
  cancelled,  \* history: core cancelled the thread in its current lock()
  cancels,    \* history: number of cancellations so far
  panic,      \* an assertion of the kernel failed
  missing,    \* threads whose next access is to a page that is not mapped
  signalled,  \* threads whose fault the pager has been signalled and has not received
  paging,     \* the thread whose fault the pager handles, if any
  mapped,     \* the pager has inserted the translation
  late,       \* history: a fault came between the spinlock and thread_stop_myself in lock()
  faults      \* history: number of missing pages so far

lockVars == <<state, owner, last, link>>
threadVars == <<pc, lk, wakee>>
kernelVars == <<kstate, cancelled, cancels, panic>>
faultVars == <<missing, signalled, paging, mapped, late, faults>>
vars == <<lockVars, threadVars, kernelVars, faultVars>>

\* Type invariant
TypeOK ==
  /\ state \in [Lock -> {"LOCKED", "UNLOCKED"}]
  /\ owner \in [Lock -> Thread \cup {Invalid}]
  /\ last \in [Lock -> Thread \cup Lock \cup {Null}]
  /\ link \in [Thread \cup Lock -> Thread \cup {Null}]
  /\ pc \in [Thread -> {"out", "stop", "check", "in", "wake", "ipc"}]
  /\ lk \in [Thread -> Lock \cup {Null}]
  /\ wakee \in [Thread -> Thread \cup {Null}]
  /\ kstate \in [Thread -> {"ACTIVE", "AWAITS_RESTART", "AWAITS_IPC"}]
  /\ cancelled \in [Thread -> BOOLEAN]
  /\ cancels \in 0 .. MaxCancels
  /\ panic \in BOOLEAN
  /\ missing \subseteq Thread /\ signalled \subseteq Thread
  /\ paging \in Thread \cup {Null} /\ mapped \in BOOLEAN
  /\ late \in [Thread -> BOOLEAN]
  /\ faults \in 0 .. MaxFaults

Init ==
  /\ state = [l \in Lock |-> "UNLOCKED"]
  /\ owner = [l \in Lock |-> Invalid]
  /\ last = [l \in Lock |-> Null]
  /\ link = [n \in Thread \cup Lock |-> Null]
  /\ pc = [t \in Thread |-> "out"]
  /\ lk = [t \in Thread |-> Null]
  /\ wakee = [t \in Thread |-> Null]
  /\ kstate = [t \in Thread |-> "ACTIVE"]
  /\ cancelled = [t \in Thread |-> FALSE]
  /\ cancels = 0
  /\ panic = FALSE
  /\ missing = {} /\ signalled = {}
  /\ paging = Null /\ mapped = FALSE
  /\ late = [t \in Thread |-> FALSE]
  /\ faults = 0

Runs(t, where) == kstate[t] = "ACTIVE" /\ t \notin missing /\ pc[t] = where

\* The thread is in lock() and has released the spinlock
Waits(t) == pc[t] \in {"stop", "check"}

Leave(t) ==
  /\ pc' = [pc EXCEPT ![t] = "out"]
  /\ lk' = [lk EXCEPT ![t] = Null]

\* The node that a walk of k steps from _owner along the list ends at
Walk(l) ==
  LET w[k \in Nat] == IF k = 0 THEN l
                      ELSE IF w[k - 1] = Null THEN Null ELSE link[w[k - 1]]
  IN  w

\* The applicants in the list of lock l
Listed(l) == {t \in Thread : \E k \in 1 .. Cardinality(Thread) : Walk(l)[k] = t}

---------------------------------------------------------------------------
\* lock() of a free lock
LockFree(t, l) ==
  /\ Runs(t, "out") /\ t \notin Signaller
  /\ state[l] = "UNLOCKED"
  /\ state' = [state EXCEPT ![l] = "LOCKED"]
  /\ owner' = [owner EXCEPT ![l] = t]
  /\ link' = [link EXCEPT ![l] = Null]
  /\ last' = [last EXCEPT ![l] = l]
  /\ pc' = [pc EXCEPT ![t] = "in"]
  /\ lk' = [lk EXCEPT ![t] = l]
  /\ UNCHANGED <<wakee, kernelVars, faultVars>>

\* lock() of a lock that another thread owns: up to the release of the spinlock
LockApply(t, l) ==
  /\ Runs(t, "out") /\ t \notin Signaller
  /\ state[l] = "LOCKED" /\ owner[l] # t
  /\ link' = [link EXCEPT ![t] = Null, ![last[l]] = t]
  /\ last' = [last EXCEPT ![l] = t]
  /\ pc' = [pc EXCEPT ![t] = "stop"]
  /\ lk' = [lk EXCEPT ![t] = l]
  /\ UNCHANGED <<state, owner, wakee, kernelVars, faultVars>>

\* lock() by the owner: it gives up the ownership and waits in front of all others
LockTwice(t) ==
  /\ Runs(t, "in") /\ Signaller # {}
  /\ LET l == lk[t] IN
     /\ owner[l] = t
     /\ owner' = [owner EXCEPT ![l] = Invalid]
     /\ link' = [link EXCEPT ![l] = t, ![t] = link[l]]
     /\ last' = [last EXCEPT ![l] = IF link[l] = Null THEN t ELSE @]
  /\ pc' = [pc EXCEPT ![t] = "stop"]
  /\ UNCHANGED <<state, lk, wakee, kernelVars, faultVars>>

\* thread_stop_myself() in lock()
Stop(t) ==
  /\ Runs(t, "stop")
  /\ kstate' = [kstate EXCEPT ![t] = "AWAITS_RESTART"]
  /\ pc' = [pc EXCEPT ![t] = "check"]
  /\ UNCHANGED <<lockVars, lk, wakee, cancelled, cancels, panic, faultVars>>

\* The histories are about one lock()
Forget(t) ==
  /\ cancelled' = [cancelled EXCEPT ![t] = FALSE]
  /\ late' = [late EXCEPT ![t] = FALSE]
  /\ UNCHANGED <<missing, signalled, paging, mapped, faults>>

\* The rest of lock() if the thread has become the owner
Acquire(t) ==
  /\ Runs(t, "check")
  /\ owner[lk[t]] = t
  /\ pc' = [pc EXCEPT ![t] = "in"]
  /\ link' = [link EXCEPT ![t] = Null]
  /\ Forget(t)
  /\ UNCHANGED <<state, owner, last, lk, wakee, kstate, cancels, panic>>

\* Mutant: _last_applicant still refers to the thread that leaves
GiveUpForgetsLast(t) ==
  /\ Runs(t, "check")
  /\ owner[lk[t]] # t
  /\ LET l == lk[t]
         before == {p \in Listed(l) \cup {l} : link[p] = t}
     IN  link' = [p \in DOMAIN link |->
                   IF p = t THEN Null ELSE IF p \in before THEN link[t] ELSE link[p]]
  /\ Leave(t)
  /\ Forget(t)
  /\ UNCHANGED <<last, state, owner, wakee, kstate, cancels, panic>>

\* Otherwise it dequeues itself and throws Blocking_canceled; Lock::lock starts again
GiveUp(t) ==
  /\ Runs(t, "check")
  /\ owner[lk[t]] # t
  /\ LET l == lk[t]
         before == {p \in Listed(l) \cup {l} : link[p] = t}
     IN  /\ link' = [p \in DOMAIN link |->
                      IF p = t THEN Null ELSE IF p \in before THEN link[t] ELSE link[p]]
         /\ last' = [last EXCEPT ![l] = IF before # {} /\ @ = t
                                        THEN CHOOSE p \in before : TRUE ELSE @]
  /\ Leave(t)
  /\ Forget(t)
  /\ UNCHANGED <<state, owner, wakee, kstate, cancels, panic>>

\* Whose turn it is to unlock: the owner's, or a signaller's once the owner locked twice
MayUnlock(t, l) ==
  \/ Runs(t, "in") /\ lk[t] = l
  \/ Runs(t, "out") /\ t \in Signaller /\ state[l] = "LOCKED" /\ owner[l] = Invalid

\* Mutant: the lock becomes free although a thread waits
HandOverFrees(t, l) ==
  /\ MayUnlock(t, l)
  /\ link[l] # Null
  /\ LET n == link[l] IN
     /\ owner' = [owner EXCEPT ![l] = n]
     /\ link' = [link EXCEPT ![l] = link[n]]
     /\ last' = [last EXCEPT ![l] = IF @ = n THEN l ELSE @]
     /\ wakee' = [wakee EXCEPT ![t] = n]
  /\ state' = [state EXCEPT ![l] = "UNLOCKED"]
  /\ pc' = [pc EXCEPT ![t] = "wake"]
  /\ lk' = [lk EXCEPT ![t] = Null]
  /\ UNCHANGED <<kernelVars, faultVars>>

\* Mutant: the thread to wake up is read from _owner after the spinlock is released
HandOverLate(t, l) ==
  /\ MayUnlock(t, l)
  /\ link[l] # Null
  /\ LET n == link[l] IN
     /\ owner' = [owner EXCEPT ![l] = n]
     /\ link' = [link EXCEPT ![l] = link[n]]
     /\ last' = [last EXCEPT ![l] = IF @ = n THEN l ELSE @]
     /\ wakee' = [wakee EXCEPT ![t] = IF link[n] # Null THEN link[n] ELSE n]
  /\ pc' = [pc EXCEPT ![t] = "wake"]
  /\ lk' = [lk EXCEPT ![t] = Null]
  /\ UNCHANGED <<state, kernelVars, faultVars>>

\* unlock() with an applicant: it becomes the owner, and the wake-up loop begins
HandOver(t, l) ==
  /\ MayUnlock(t, l)
  /\ link[l] # Null
  /\ LET n == link[l] IN
     /\ owner' = [owner EXCEPT ![l] = n]
     /\ link' = [link EXCEPT ![l] = link[n]]
     /\ last' = [last EXCEPT ![l] = IF @ = n THEN l ELSE @]
     /\ wakee' = [wakee EXCEPT ![t] = n]
  /\ pc' = [pc EXCEPT ![t] = "wake"]
  /\ lk' = [lk EXCEPT ![t] = Null]
  /\ UNCHANGED <<state, kernelVars, faultVars>>

\* unlock() without applicants
Free(t, l) ==
  /\ MayUnlock(t, l)
  /\ link[l] = Null
  /\ state' = [state EXCEPT ![l] = "UNLOCKED"]
  /\ owner' = [owner EXCEPT ![l] = Invalid]
  /\ last' = [last EXCEPT ![l] = Null]
  /\ Leave(t)
  /\ UNCHANGED <<link, wakee, kernelVars, faultVars>>

\* Mutant: the loop ends although the thread has not stopped yet
WakeUpOnce(t) ==
  /\ Runs(t, "wake")
  /\ kstate' = [kstate EXCEPT ![wakee[t]] = "ACTIVE"]
  /\ pc' = [pc EXCEPT ![t] = "out"]
  /\ wakee' = [wakee EXCEPT ![t] = Null]
  /\ UNCHANGED <<lockVars, lk, cancelled, cancels, panic, faultVars>>

\* Applicant::wake_up(): the iteration in which restart_thread succeeds.  An
\* iteration that finds the thread active changes nothing and yields.
WakeUp(t) ==
  /\ Runs(t, "wake")
  /\ kstate[wakee[t]] = "AWAITS_RESTART"
  /\ kstate' = [kstate EXCEPT ![wakee[t]] = "ACTIVE"]
  /\ pc' = [pc EXCEPT ![t] = "out"]
  /\ wakee' = [wakee EXCEPT ![t] = Null]
  /\ UNCHANGED <<lockVars, lk, cancelled, cancels, panic, faultVars>>

\* The iteration that finds it blocked otherwise: the assertion in _restart fails
WakeUpPanics(t) ==
  /\ Runs(t, "wake")
  /\ kstate[wakee[t]] = "AWAITS_IPC"
  /\ panic' = TRUE
  /\ UNCHANGED <<lockVars, threadVars, kstate, cancelled, cancels, faultVars>>

\* Core cancels the blocking of a thread that has stopped or met a page fault
CancelBlocking(t) ==
  /\ cancels < MaxCancels
  /\ kstate[t] = "AWAITS_RESTART"
  /\ kstate' = [kstate EXCEPT ![t] = "ACTIVE"]
  /\ cancelled' = [cancelled EXCEPT ![t] = Waits(t)]
  /\ cancels' = cancels + 1
  /\ UNCHANGED <<lockVars, threadVars, panic, faultVars>>

\* A thread that uses no lock at the moment calls a server ...
SendRequest(t) ==
  /\ Runs(t, "out") /\ t \notin Signaller
  /\ kstate' = [kstate EXCEPT ![t] = "AWAITS_IPC"]
  /\ pc' = [pc EXCEPT ![t] = "ipc"]
  /\ UNCHANGED <<lockVars, lk, wakee, cancelled, cancels, panic, faultVars>>

\* ... and gets the reply, or core cancels the call
ReceiveReply(t) ==
  /\ kstate[t] = "AWAITS_IPC"
  /\ kstate' = [kstate EXCEPT ![t] = "ACTIVE"]
  /\ pc' = [pc EXCEPT ![t] = "out"]
  /\ UNCHANGED <<lockVars, lk, wakee, cancelled, cancels, panic, faultVars>>

---------------------------------------------------------------------------
(* Page faults *)

\* _mmu_exception: the thread awaits a restart, and its pager context is submitted
Fault(t) ==
  /\ kstate[t] = "ACTIVE"
  /\ kstate' = [kstate EXCEPT ![t] = "AWAITS_RESTART"]
  /\ missing' = missing \cup {t}
  /\ signalled' = signalled \cup {t}
  /\ late' = [late EXCEPT ![t] = @ \/ pc[t] = "stop"]
  /\ UNCHANGED <<lockVars, threadVars, cancelled, cancels, panic, paging, mapped>>

\* A thread accesses a page that is not mapped, wherever it is ...
PageFault(t) ==
  /\ t \notin missing /\ faults < MaxFaults
  /\ Fault(t)
  /\ faults' = faults + 1

\* ... and does so again if it is restarted before the page is mapped
FaultAgain(t) ==
  /\ t \in missing
  /\ Fault(t)
  /\ UNCHANGED faults

\* Pager_entrypoint::entry: the pager, one thread, receives the next fault ...
PagerReceive(t) ==
  /\ paging = Null /\ t \in signalled
  /\ paging' = t /\ signalled' = signalled \ {t}
  /\ mapped' = FALSE
  /\ UNCHANGED <<lockVars, threadVars, kernelVars, missing, late, faults>>

\* ... maps the page, if it is not mapped yet (faults that cannot be resolved are left out) ...
PagerMap ==
  /\ paging # Null /\ ~mapped
  /\ mapped' = TRUE
  /\ missing' = missing \ {paging}
  /\ UNCHANGED <<lockVars, threadVars, kernelVars, signalled, paging, late, faults>>

\* ... and restarts the thread, whatever it does by now (Pager_object::wake_up)
PagerRestart ==
  /\ paging # Null /\ mapped
  /\ kstate' = IF kstate[paging] = "AWAITS_RESTART" THEN [kstate EXCEPT ![paging] = "ACTIVE"]
               ELSE kstate
  /\ panic' = (kstate[paging] = "AWAITS_IPC")
  /\ paging' = Null /\ mapped' = FALSE
  /\ UNCHANGED <<lockVars, threadVars, cancelled, cancels, missing, signalled, late, faults>>

---------------------------------------------------------------------------
Unlock(t, l) == HandOver(t, l) \/ Free(t, l)

\* What the pager does
Page == PagerMap \/ PagerRestart \/ \E t \in Thread : PagerReceive(t)

Next ==
  ~panic /\
    \/ Page
    \/ \E t \in Thread :
         \/ \E l \in Lock : LockFree(t, l) \/ LockApply(t, l) \/ HandOver(t, l) \/ Free(t, l)
         \/ LockTwice(t) \/ Stop(t) \/ Acquire(t) \/ GiveUp(t)
         \/ WakeUp(t) \/ WakeUpPanics(t)
         \/ CancelBlocking(t)
         \/ SendRequest(t) \/ ReceiveReply(t)
         \/ PageFault(t) \/ FaultAgain(t)

Spec == Init /\ [][Next]_vars

\* What a thread does in lock(), in the wake-up loop and in a call without a choice
GoOn(t) ==
  Stop(t) \/ Acquire(t) \/ GiveUp(t) \/ WakeUp(t) \/ ReceiveReply(t) \/ FaultAgain(t)

\* A thread that can run goes on, and so does the pager as long as there are faults.  Owners
\* leave their critical sections sooner or later, perhaps after having locked twice, and
\* signallers unlock each lock that waits for it.
LiveSpec ==
  /\ Spec
  /\ WF_vars(Page)
  /\ \A t \in Thread : WF_vars(GoOn(t))
  /\ \A t \in Thread \ Signaller : SF_vars(\E l \in Lock : Unlock(t, l))
  /\ \A t \in Signaller, l \in Lock : SF_vars(Unlock(t, l))

---------------------------------------------------------------------------
(* Properties *)

\* The thread has left lock() with the lock and not called unlock() yet, or is on its way
Owns(t, l) == lk[t] = l /\ (pc[t] = "in" \/ (Waits(t) /\ owner[l] = t))

\* No two threads are in the critical section of one lock, whatever is cancelled and
\* whenever the ownership is handed over, and a lock that somebody owns is not free
\* (Cancelable_lock::lock, unlock).
MutualExclusion ==
  \A l \in Lock, t \in Thread :
    pc[t] = "in" /\ lk[t] = l =>
      /\ state[l] = "LOCKED"
      /\ \A u \in Thread \ {t} : ~Owns(u, l)

\* The list of a locked lock holds exactly the threads that wait in lock() and do not own
\* it, so no node is lost and none lives in a stack frame that is gone; the list ends at
\* _last_applicant (Applicant, the two ways to enqueue in lock(), the removal after a
\* cancellation, the copy of the node in unlock()).
ApplicantsListed ==
  \A l \in Lock : state[l] = "LOCKED" =>
    /\ Listed(l) = {t \in Thread : Waits(t) /\ lk[t] = l /\ owner[l] # t}
    /\ last[l] \in Listed(l) \cup {l}
    /\ link[last[l]] = Null

\* Somebody is going to restart thread t: a wake-up loop or the pager
RestartDue(t) ==
  \/ \E u \in Thread \ {t} : pc[u] = "wake" /\ wakee[u] = t
  \/ t \in signalled \/ paging = t

\* A thread that has become the owner in lock() and is not on its way out is going to be
\* restarted: no wake-up is lost to the race between the release of the spinlock and
\* thread_stop_myself, if no page fault comes in between (comment in lock(), Applicant::wake_up).
NoLostWakeUp ==
  \A t \in Thread :
    /\ Waits(t) /\ owner[lk[t]] = t /\ ~late[t]
    /\ ~(pc[t] = "check" /\ kstate[t] = "ACTIVE")
    => RestartDue(t)

\* What the comment in lock() says: the loop in unlock() handles the race, so a thread that has
\* stopped in lock() as the owner is going to be restarted.
RaceHandled ==
  \A t \in Thread :
    pc[t] = "check" /\ kstate[t] = "AWAITS_RESTART" /\ owner[lk[t]] = t => RestartDue(t)

\* What the comment in lock() says: not the owner when woken up means cancelled by core.
CancelledByCore ==
  \A t \in Thread : Runs(t, "check") /\ owner[lk[t]] # t => cancelled[t]

\* restart_thread meets its target stopped or active (assertion in Thread::_restart).
NoPanic == ~panic

\* The former two hold as long as core has cancelled nobody, page faults or not: wake-up loops
\* and the pager together restart a thread no more often than it stops and faults, and a
\* wake-up loop restarts its target in the lock() that it was meant for and nowhere else.
WokenAsOwner == cancels = 0 => CancelledByCore /\ NoPanic

\* If nothing is cancelled and no page fault comes between the spinlock and the stop, each
\* thread that applies for a lock gets it, and each wake-up loop ends.
EveryoneServed ==
  [](cancels = 0 /\ \A t \in Thread : ~late[t]) => \A t \in Thread :
    /\ Waits(t) ~> pc[t] = "in"
    /\ pc[t] = "wake" ~> pc[t] = "out"
=============================================================================
