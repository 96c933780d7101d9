------------------------ MODULE CancelableLockProofs ------------------------
(***************************************************************************)
(* Proofs about CancelableLock for any number of threads and locks.        *)
(***************************************************************************)
EXTENDS CancelableLock, FiniteSetTheorems, FunctionTheorems, NaturalsInduction,
        WellFoundedInduction, TLAPS

\* Who is where: what the state of a thread in the kernel says about what it does
PlaceOK ==
  \A t \in Thread :
    /\ pc[t] \in {"stop", "check", "in"} => lk[t] \in Lock
    /\ pc[t] = "wake" => wakee[t] \in Thread
    /\ kstate[t] = "AWAITS_IPC" <=> pc[t] = "ipc"
    /\ pc[t] = "stop" /\ ~late[t] => kstate[t] = "ACTIVE"

\* An owner keeps the lock locked, and who is in the critical section is the owner
OwnerOK ==
  /\ \A l \in Lock : owner[l] \in Thread => state[l] = "LOCKED"
  /\ \A t \in Thread : pc[t] = "in" => owner[lk[t]] = t

\* A wake-up loop restarts thread t
Woken(t) == \E u \in Thread \ {t} : pc[u] = "wake" /\ wakee[u] = t

\* An owner that has not stopped yet is the target of a loop, whatever the pager does, and
\* one that has stopped is due to be restarted
DueOK ==
  \A t \in Thread :
    Waits(t) /\ owner[lk[t]] = t /\ ~late[t] =>
      /\ pc[t] = "stop" => Woken(t)
      /\ kstate[t] = "AWAITS_RESTART" => RestartDue(t)

\* Inductive invariant, whatever is cancelled and wherever pages are missing
Inv == TypeOK /\ PlaceOK /\ OwnerOK /\ DueOK

\* The threads that wait for lock l without owning it
Applicant(l) == {t \in Thread : Waits(t) /\ lk[t] = l /\ owner[l] # t}

\* The list of applicants, as far as the next steps of the list operations depend on it
ListOK(l) ==
  /\ \A n \in Applicant(l) \cup {l} : link[n] \in Applicant(l) \cup {Null}
  /\ \A m, n \in Applicant(l) \cup {l} : m # n /\ link[m] # Null => link[m] # link[n]
  /\ state[l] = "LOCKED" => last[l] \in Applicant(l) \cup {l} /\ link[last[l]] = Null
  /\ state[l] = "UNLOCKED" => link[l] = Null

\* The thread has been restarted in thread_stop_myself and runs on as soon as its pages are there
Restarted(t) == kstate[t] = "ACTIVE" /\ pc[t] = "check"

\* A wake-up loop has a target of its own, which waits as owner and does not run on yet
WakerOK(u) ==
  pc[u] = "wake" =>
    /\ Waits(wakee[u])
    /\ owner[lk[wakee[u]]] = wakee[u]
    /\ ~Restarted(wakee[u])
    /\ \A v \in Thread \ {u} : pc[v] = "wake" => wakee[v] # wakee[u]

\* Who runs on from thread_stop_myself has been made the owner
RunnerOK == \A t \in Thread : Restarted(t) => owner[lk[t]] = t

\* The thread is the owner, and the loop that was to wake it up has ended
Served(t) == Waits(t) /\ owner[lk[t]] = t /\ ~Woken(t)

\* A restart by the pager is outstanding as long as the faulting thread awaits it, unless the
\* wake-up loop has restarted the thread instead.  Then the pager's restart stands in for the
\* one of the loop.
PagerOK(t) ==
  /\ t \in signalled /\ paging = t =>
       Served(t) /\ pc[t] = "stop" /\ kstate[t] = "AWAITS_RESTART"
  /\ t \in signalled \/ paging = t =>
       \/ Served(t) /\ (pc[t] = "stop" \/ kstate[t] = "AWAITS_RESTART")
       \/ kstate[t] = "AWAITS_RESTART" /\ pc[t] # "check"

\* Inductive invariant as long as nothing is cancelled
CalmInv ==
  cancels = 0 =>
    /\ RunnerOK
    /\ \A l \in Lock : ListOK(l)
    /\ \A u \in Thread : WakerOK(u)
    /\ \A t \in Thread : PagerOK(t)
    /\ NoPanic

---------------------------------------------------------------------------
\* What the steps need to know about the constants
LEMMA Distinct ==
  /\ \A t \in Thread : t # Null /\ t # Invalid /\ t \notin Lock
  /\ \A l \in Lock : l # Null /\ l \notin Thread
  BY LockAssumption

\* Steps preserve the types.
LEMMA TypeStep == TypeOK /\ PlaceOK /\ [Next]_vars => TypeOK'
<1> SUFFICES ASSUME TypeOK /\ PlaceOK, [Next]_vars PROVE TypeOK'
  OBVIOUS
<1> USE Distinct DEF TypeOK, PlaceOK, Runs
<1>1. ASSUME NEW t \in Thread, NEW l \in Lock, LockFree(t, l) PROVE TypeOK'
  BY <1>1 DEF LockFree, kernelVars, faultVars
<1>2. ASSUME NEW t \in Thread, NEW l \in Lock, LockApply(t, l) PROVE TypeOK'
  BY <1>2 DEF LockApply, kernelVars, faultVars
<1>3. ASSUME NEW t \in Thread, NEW l \in Lock, HandOver(t, l) PROVE TypeOK'
  BY <1>3 DEF HandOver, MayUnlock, kernelVars, faultVars
<1>4. ASSUME NEW t \in Thread, NEW l \in Lock, Free(t, l) PROVE TypeOK'
  BY <1>4 DEF Free, MayUnlock, Leave, kernelVars, faultVars
<1>5. ASSUME NEW t \in Thread, LockTwice(t) PROVE TypeOK'
  BY <1>5 DEF LockTwice, kernelVars, faultVars
<1>6. ASSUME NEW t \in Thread, Stop(t) PROVE TypeOK'
  BY <1>6 DEF Stop, lockVars, faultVars
<1>7. ASSUME NEW t \in Thread, Acquire(t) PROVE TypeOK'
  BY <1>7 DEF Acquire, Forget
<1>8. ASSUME NEW t \in Thread, GiveUp(t) PROVE TypeOK'
  BY <1>8 DEF GiveUp, Forget, Leave, Listed
<1>9. ASSUME NEW t \in Thread, WakeUp(t) PROVE TypeOK'
  BY <1>9 DEF WakeUp, lockVars, faultVars
<1>10. ASSUME NEW t \in Thread, WakeUpPanics(t) PROVE TypeOK'
  BY <1>10 DEF WakeUpPanics, lockVars, threadVars, faultVars
<1>11. ASSUME NEW t \in Thread, CancelBlocking(t) PROVE TypeOK'
  <2>1. Waits(t) \in BOOLEAN
    BY DEF Waits
  <2>2. cancelled' \in [Thread -> BOOLEAN]
    BY <1>11, <2>1 DEF CancelBlocking
  <2> QED BY <1>11, <2>2, LockAssumption DEF CancelBlocking, lockVars, threadVars, faultVars
<1>12. ASSUME NEW t \in Thread, SendRequest(t) PROVE TypeOK'
  BY <1>12 DEF SendRequest, lockVars, faultVars
<1>13. ASSUME NEW t \in Thread, ReceiveReply(t) PROVE TypeOK'
  BY <1>13 DEF ReceiveReply, lockVars, faultVars
<1>14. ASSUME NEW t \in Thread, PageFault(t) \/ FaultAgain(t) PROVE TypeOK'
  <2>1. (late[t] \/ pc[t] = "stop") \in BOOLEAN
    OBVIOUS
  <2>2. late' \in [Thread -> BOOLEAN]
    BY <1>14, <2>1 DEF PageFault, FaultAgain, Fault
  <2>3. faults' \in 0 .. MaxFaults
    BY <1>14, LockAssumption DEF PageFault, FaultAgain
  <2> QED BY <1>14, <2>2, <2>3 DEF PageFault, FaultAgain, Fault, lockVars, threadVars, kernelVars
<1>15. ASSUME NEW t \in Thread, PagerReceive(t) PROVE TypeOK'
  BY <1>15 DEF PagerReceive, lockVars, threadVars, kernelVars
<1>16. ASSUME PagerMap PROVE TypeOK'
  BY <1>16 DEF PagerMap, lockVars, threadVars, kernelVars
<1>17. ASSUME PagerRestart PROVE TypeOK'
  BY <1>17 DEF PagerRestart, lockVars, threadVars
<1>18. CASE UNCHANGED vars
  BY <1>18 DEF vars, lockVars, threadVars, kernelVars, faultVars
<1> QED
    BY <1>1, <1>2, <1>3, <1>4, <1>5, <1>6, <1>7, <1>8, <1>9, <1>10, <1>11, <1>12, <1>13, <1>14,
      <1>15, <1>16, <1>17, <1>18 DEF Next, Page

\* Threads stay where the kernel believes them to be.
LEMMA PlaceStep == TypeOK /\ PlaceOK /\ [Next]_vars => PlaceOK'
<1> SUFFICES ASSUME TypeOK /\ PlaceOK, [Next]_vars PROVE PlaceOK'
  OBVIOUS
<1> USE Distinct DEF TypeOK, PlaceOK, Runs
<1>1. ASSUME NEW t \in Thread, NEW l \in Lock, LockFree(t, l) PROVE PlaceOK'
  BY <1>1 DEF LockFree, kernelVars, faultVars
<1>2. ASSUME NEW t \in Thread, NEW l \in Lock, LockApply(t, l) PROVE PlaceOK'
  BY <1>2 DEF LockApply, kernelVars, faultVars
<1>3. ASSUME NEW t \in Thread, NEW l \in Lock, HandOver(t, l) PROVE PlaceOK'
  BY <1>3 DEF HandOver, MayUnlock, kernelVars, faultVars
<1>4. ASSUME NEW t \in Thread, NEW l \in Lock, Free(t, l) PROVE PlaceOK'
  BY <1>4 DEF Free, MayUnlock, Leave, kernelVars, faultVars
<1>5. ASSUME NEW t \in Thread, LockTwice(t) PROVE PlaceOK'
  BY <1>5 DEF LockTwice, kernelVars, faultVars
<1>6. ASSUME NEW t \in Thread, Stop(t) PROVE PlaceOK'
  BY <1>6 DEF Stop, lockVars, faultVars
<1>7. ASSUME NEW t \in Thread, Acquire(t) PROVE PlaceOK'
  BY <1>7 DEF Acquire, Forget
<1>8. ASSUME NEW t \in Thread, GiveUp(t) PROVE PlaceOK'
  BY <1>8 DEF GiveUp, Forget, Leave, Listed
<1>9. ASSUME NEW t \in Thread, WakeUp(t) PROVE PlaceOK'
  BY <1>9 DEF WakeUp, lockVars, faultVars
<1>10. ASSUME NEW t \in Thread, WakeUpPanics(t) PROVE PlaceOK'
  BY <1>10 DEF WakeUpPanics, lockVars, threadVars, faultVars
<1>11. ASSUME NEW t \in Thread, CancelBlocking(t) PROVE PlaceOK'
  BY <1>11 DEF CancelBlocking, lockVars, threadVars, faultVars
<1>12. ASSUME NEW t \in Thread, SendRequest(t) PROVE PlaceOK'
  BY <1>12 DEF SendRequest, lockVars, faultVars
<1>13. ASSUME NEW t \in Thread, ReceiveReply(t) PROVE PlaceOK'
  BY <1>13 DEF ReceiveReply, lockVars, faultVars
<1>14. ASSUME NEW t \in Thread, PageFault(t) \/ FaultAgain(t) PROVE PlaceOK'
  <2>1. pc[t] = "stop" => late'[t]
    BY <1>14 DEF PageFault, FaultAgain, Fault
  <2>2. \A u \in Thread \ {t} : late'[u] = late[u] /\ kstate'[u] = kstate[u]
    BY <1>14 DEF PageFault, FaultAgain, Fault
  <2>3. kstate[t] = "ACTIVE" /\ kstate'[t] = "AWAITS_RESTART" /\ UNCHANGED <<pc, lk, wakee>>
    BY <1>14 DEF PageFault, FaultAgain, Fault, threadVars
  <2> QED BY <2>1, <2>2, <2>3
<1>15. ASSUME NEW t \in Thread, PagerReceive(t) PROVE PlaceOK'
  BY <1>15 DEF PagerReceive, lockVars, threadVars, kernelVars
<1>16. ASSUME PagerMap PROVE PlaceOK'
  BY <1>16 DEF PagerMap, lockVars, threadVars, kernelVars
<1>17. ASSUME PagerRestart PROVE PlaceOK'
  BY <1>17 DEF PagerRestart, lockVars, threadVars
<1>18. CASE UNCHANGED vars
  BY <1>18 DEF vars, lockVars, threadVars, kernelVars, faultVars
<1> QED
    BY <1>1, <1>2, <1>3, <1>4, <1>5, <1>6, <1>7, <1>8, <1>9, <1>10, <1>11, <1>12, <1>13, <1>14,
      <1>15, <1>16, <1>17, <1>18 DEF Next, Page

\* Only owners are in critical sections, and owned locks are locked.
LEMMA OwnerStep == TypeOK /\ PlaceOK /\ OwnerOK /\ [Next]_vars => OwnerOK'
<1> SUFFICES ASSUME TypeOK /\ PlaceOK /\ OwnerOK, [Next]_vars PROVE OwnerOK'
  OBVIOUS
<1> USE Distinct DEF TypeOK, PlaceOK, OwnerOK, Runs
<1>1. ASSUME NEW t \in Thread, NEW l \in Lock, LockFree(t, l) PROVE OwnerOK'
  BY <1>1 DEF LockFree, kernelVars, faultVars
<1>2. ASSUME NEW t \in Thread, NEW l \in Lock, LockApply(t, l) PROVE OwnerOK'
  BY <1>2 DEF LockApply, kernelVars, faultVars
<1>3. ASSUME NEW t \in Thread, NEW l \in Lock, HandOver(t, l) PROVE OwnerOK'
  BY <1>3 DEF HandOver, MayUnlock, kernelVars, faultVars
<1>4. ASSUME NEW t \in Thread, NEW l \in Lock, Free(t, l) PROVE OwnerOK'
  BY <1>4 DEF Free, MayUnlock, Leave, kernelVars, faultVars
<1>5. ASSUME NEW t \in Thread, LockTwice(t) PROVE OwnerOK'
  BY <1>5 DEF LockTwice, kernelVars, faultVars
<1>6. ASSUME NEW t \in Thread, Stop(t) PROVE OwnerOK'
  BY <1>6 DEF Stop, lockVars, faultVars
<1>7. ASSUME NEW t \in Thread, Acquire(t) PROVE OwnerOK'
  BY <1>7 DEF Acquire, Forget
<1>8. ASSUME NEW t \in Thread, GiveUp(t) PROVE OwnerOK'
  BY <1>8 DEF GiveUp, Forget, Leave, Listed
<1>9. ASSUME NEW t \in Thread, WakeUp(t) PROVE OwnerOK'
  BY <1>9 DEF WakeUp, lockVars, faultVars
<1>10. ASSUME NEW t \in Thread, WakeUpPanics(t) PROVE OwnerOK'
  BY <1>10 DEF WakeUpPanics, lockVars, threadVars, faultVars
<1>11. ASSUME NEW t \in Thread, CancelBlocking(t) PROVE OwnerOK'
  BY <1>11 DEF CancelBlocking, lockVars, threadVars, faultVars
<1>12. ASSUME NEW t \in Thread, SendRequest(t) PROVE OwnerOK'
  BY <1>12 DEF SendRequest, lockVars, faultVars
<1>13. ASSUME NEW t \in Thread, ReceiveReply(t) PROVE OwnerOK'
  BY <1>13 DEF ReceiveReply, lockVars, faultVars
<1>14. ASSUME NEW t \in Thread, PageFault(t) \/ FaultAgain(t) PROVE OwnerOK'
  BY <1>14 DEF PageFault, FaultAgain, Fault, lockVars, threadVars
<1>15. ASSUME NEW t \in Thread, PagerReceive(t) PROVE OwnerOK'
  BY <1>15 DEF PagerReceive, lockVars, threadVars, kernelVars
<1>16. ASSUME PagerMap PROVE OwnerOK'
  BY <1>16 DEF PagerMap, lockVars, threadVars, kernelVars
<1>17. ASSUME PagerRestart PROVE OwnerOK'
  BY <1>17 DEF PagerRestart, lockVars, threadVars
<1>18. CASE UNCHANGED vars
  BY <1>18 DEF vars, lockVars, threadVars, kernelVars, faultVars
<1> QED
    BY <1>1, <1>2, <1>3, <1>4, <1>5, <1>6, <1>7, <1>8, <1>9, <1>10, <1>11, <1>12, <1>13, <1>14,
      <1>15, <1>16, <1>17, <1>18 DEF Next, Page

\* Who has become the owner is going to be restarted.
LEMMA DueStep == TypeOK /\ PlaceOK /\ OwnerOK /\ DueOK /\ [Next]_vars => DueOK'
<1> SUFFICES ASSUME TypeOK /\ PlaceOK /\ OwnerOK /\ DueOK, [Next]_vars PROVE DueOK'
  OBVIOUS
<1> USE Distinct DEF TypeOK, PlaceOK, OwnerOK, Runs, Waits, DueOK, Woken, RestartDue
<1>1. ASSUME NEW t \in Thread, NEW l \in Lock, LockFree(t, l) PROVE DueOK'
  BY <1>1 DEF LockFree, kernelVars, faultVars
<1>2. ASSUME NEW t \in Thread, NEW l \in Lock, LockApply(t, l) PROVE DueOK'
  BY <1>2 DEF LockApply, kernelVars, faultVars
<1>3. ASSUME NEW t \in Thread, NEW l \in Lock, HandOver(t, l) PROVE DueOK'
  BY <1>3 DEF HandOver, MayUnlock, kernelVars, faultVars
<1>4. ASSUME NEW t \in Thread, NEW l \in Lock, Free(t, l) PROVE DueOK'
  BY <1>4 DEF Free, MayUnlock, Leave, kernelVars, faultVars
<1>5. ASSUME NEW t \in Thread, LockTwice(t) PROVE DueOK'
  BY <1>5 DEF LockTwice, kernelVars, faultVars
<1>6. ASSUME NEW t \in Thread, Stop(t) PROVE DueOK'
  BY <1>6 DEF Stop, lockVars, faultVars
<1>7. ASSUME NEW t \in Thread, Acquire(t) PROVE DueOK'
  BY <1>7 DEF Acquire, Forget
<1>8. ASSUME NEW t \in Thread, GiveUp(t) PROVE DueOK'
  BY <1>8 DEF GiveUp, Forget, Leave, Listed
<1>9. ASSUME NEW t \in Thread, WakeUp(t) PROVE DueOK'
  BY <1>9 DEF WakeUp, lockVars, faultVars
<1>10. ASSUME NEW t \in Thread, WakeUpPanics(t) PROVE DueOK'
  BY <1>10 DEF WakeUpPanics, lockVars, threadVars, faultVars
<1>11. ASSUME NEW t \in Thread, CancelBlocking(t) PROVE DueOK'
  BY <1>11 DEF CancelBlocking, lockVars, threadVars, faultVars
<1>12. ASSUME NEW t \in Thread, SendRequest(t) PROVE DueOK'
  BY <1>12 DEF SendRequest, lockVars, faultVars
<1>13. ASSUME NEW t \in Thread, ReceiveReply(t) PROVE DueOK'
  BY <1>13 DEF ReceiveReply, lockVars, faultVars
<1>14. ASSUME NEW t \in Thread, PageFault(t) \/ FaultAgain(t) PROVE DueOK'
  BY <1>14 DEF PageFault, FaultAgain, Fault, lockVars, threadVars
<1>15. ASSUME NEW t \in Thread, PagerReceive(t) PROVE DueOK'
  BY <1>15 DEF PagerReceive, lockVars, threadVars, kernelVars
<1>16. ASSUME PagerMap PROVE DueOK'
  BY <1>16 DEF PagerMap, lockVars, threadVars, kernelVars
<1>17. ASSUME PagerRestart PROVE DueOK'
  BY <1>17 DEF PagerRestart, lockVars, threadVars
<1>18. CASE UNCHANGED vars
  BY <1>18 DEF vars, lockVars, threadVars, kernelVars, faultVars
<1> QED
    BY <1>1, <1>2, <1>3, <1>4, <1>5, <1>6, <1>7, <1>8, <1>9, <1>10, <1>11, <1>12, <1>13, <1>14,
      <1>15, <1>16, <1>17, <1>18 DEF Next, Page

---------------------------------------------------------------------------
\* Nothing undoes a cancellation.
LEMMA StillCalm == TypeOK /\ PlaceOK /\ [Next]_vars /\ cancels' = 0 => cancels = 0
<1> SUFFICES ASSUME TypeOK, PlaceOK, [Next]_vars, cancels' = 0 PROVE cancels = 0
  OBVIOUS
<1>1. CASE UNCHANGED vars
  BY <1>1 DEF vars, kernelVars
<1>2. ASSUME NEW t \in Thread, CancelBlocking(t) PROVE FALSE
  BY <1>2 DEF CancelBlocking, TypeOK
<1> QED
  BY <1>1, <1>2 DEF Next, Page, LockFree, LockApply, HandOver, Free, LockTwice, Stop, Acquire,
    GiveUp, WakeUp, WakeUpPanics, SendRequest, ReceiveReply, PageFault, FaultAgain, Fault,
    PagerReceive, PagerMap, PagerRestart, kernelVars

\* The actions that need a cancellation are not taken without one.
LEMMA CalmCases ==
  ASSUME TypeOK, RunnerOK, cancels' = 0, NEW t \in Thread
  PROVE  ~GiveUp(t) /\ ~CancelBlocking(t)
  BY DEF GiveUp, CancelBlocking, RunnerOK, Restarted, Runs, TypeOK

\* Who runs on from thread_stop_myself is the owner.
LEMMA RunnerStep ==
  ASSUME Inv, CalmInv, [Next]_vars, cancels' = 0
  PROVE  RunnerOK'
<1> USE Distinct DEF Inv, TypeOK, PlaceOK, OwnerOK, Runs, Waits, Restarted, RunnerOK, WakerOK
<1>0. /\ cancels = 0 /\ RunnerOK /\ NoPanic /\ \A m \in Lock : ListOK(m)
      /\ \A v \in Thread : WakerOK(v) /\ PagerOK(v)
  BY StillCalm DEF CalmInv
<1>1. ASSUME NEW t \in Thread, NEW l \in Lock, LockFree(t, l) PROVE RunnerOK'
  BY <1>0, <1>1 DEF LockFree, kernelVars, faultVars
<1>2. ASSUME NEW t \in Thread, NEW l \in Lock, LockApply(t, l) PROVE RunnerOK'
  BY <1>0, <1>2 DEF LockApply, kernelVars, faultVars
<1>3. ASSUME NEW t \in Thread, NEW l \in Lock, HandOver(t, l) PROVE RunnerOK'
  BY <1>0, <1>3 DEF HandOver, MayUnlock, kernelVars, faultVars
<1>4. ASSUME NEW t \in Thread, NEW l \in Lock, Free(t, l) PROVE RunnerOK'
  BY <1>0, <1>4 DEF Free, MayUnlock, Leave, kernelVars, faultVars
<1>5. ASSUME NEW t \in Thread, LockTwice(t) PROVE RunnerOK'
  BY <1>0, <1>5 DEF LockTwice, kernelVars, faultVars
<1>6. ASSUME NEW t \in Thread, Stop(t) PROVE RunnerOK'
  BY <1>0, <1>6 DEF Stop, lockVars, faultVars
<1>7. ASSUME NEW t \in Thread, Acquire(t) PROVE RunnerOK'
  BY <1>0, <1>7 DEF Acquire, Forget
<1>8. ASSUME NEW t \in Thread, WakeUp(t) PROVE RunnerOK'
  BY <1>0, <1>8 DEF WakeUp, lockVars, faultVars
<1>9. ASSUME NEW t \in Thread, WakeUpPanics(t) PROVE RunnerOK'
  BY <1>0, <1>9 DEF WakeUpPanics, lockVars, threadVars, faultVars
<1>10. ASSUME NEW t \in Thread, SendRequest(t) PROVE RunnerOK'
  BY <1>0, <1>10 DEF SendRequest, lockVars, faultVars
<1>11. ASSUME NEW t \in Thread, ReceiveReply(t) PROVE RunnerOK'
  BY <1>0, <1>11 DEF ReceiveReply, lockVars, faultVars
<1>12. ASSUME NEW t \in Thread, PageFault(t) \/ FaultAgain(t) PROVE RunnerOK'
  BY <1>0, <1>12 DEF PageFault, FaultAgain, Fault, lockVars, threadVars
<1>13. ASSUME NEW t \in Thread, PagerReceive(t) PROVE RunnerOK'
  BY <1>0, <1>13 DEF PagerReceive, lockVars, threadVars, kernelVars
<1>14. ASSUME PagerMap PROVE RunnerOK'
  BY <1>0, <1>14 DEF PagerMap, lockVars, threadVars, kernelVars
<1>15. ASSUME PagerRestart PROVE RunnerOK'
  <2>1. kstate[paging] = "AWAITS_RESTART" /\ pc[paging] = "check" => owner[lk[paging]] = paging
    BY <1>0, <1>15 DEF PagerRestart, PagerOK, Served
  <2> QED BY <1>15, <1>0, <2>1 DEF PagerRestart, lockVars, threadVars
<1>16. CASE UNCHANGED vars
  BY <1>0, <1>16 DEF vars, lockVars, threadVars, kernelVars, faultVars
<1> QED
    BY <1>0, <1>1, <1>2, <1>3, <1>4, <1>5, <1>6, <1>7, <1>8, <1>9, <1>10, <1>11, <1>12, <1>13,
      <1>14, <1>15, <1>16, CalmCases DEF Next, Page

\* The assertion of the kernel holds.
LEMMA PanicStep ==
  ASSUME Inv, CalmInv, [Next]_vars, cancels' = 0
  PROVE  NoPanic'
<1> USE Distinct DEF Inv, TypeOK, PlaceOK, OwnerOK, Runs, Waits, Restarted, NoPanic, WakerOK
<1>0. /\ cancels = 0 /\ RunnerOK /\ NoPanic /\ \A m \in Lock : ListOK(m)
      /\ \A v \in Thread : WakerOK(v) /\ PagerOK(v)
  BY StillCalm DEF CalmInv
<1>1. ASSUME NEW t \in Thread, NEW l \in Lock, LockFree(t, l) PROVE NoPanic'
  BY <1>0, <1>1 DEF LockFree, kernelVars, faultVars
<1>2. ASSUME NEW t \in Thread, NEW l \in Lock, LockApply(t, l) PROVE NoPanic'
  BY <1>0, <1>2 DEF LockApply, kernelVars, faultVars
<1>3. ASSUME NEW t \in Thread, NEW l \in Lock, HandOver(t, l) PROVE NoPanic'
  BY <1>0, <1>3 DEF HandOver, MayUnlock, kernelVars, faultVars
<1>4. ASSUME NEW t \in Thread, NEW l \in Lock, Free(t, l) PROVE NoPanic'
  BY <1>0, <1>4 DEF Free, MayUnlock, Leave, kernelVars, faultVars
<1>5. ASSUME NEW t \in Thread, LockTwice(t) PROVE NoPanic'
  BY <1>0, <1>5 DEF LockTwice, kernelVars, faultVars
<1>6. ASSUME NEW t \in Thread, Stop(t) PROVE NoPanic'
  BY <1>0, <1>6 DEF Stop, lockVars, faultVars
<1>7. ASSUME NEW t \in Thread, Acquire(t) PROVE NoPanic'
  BY <1>0, <1>7 DEF Acquire, Forget
<1>8. ASSUME NEW t \in Thread, WakeUp(t) PROVE NoPanic'
  BY <1>0, <1>8 DEF WakeUp, lockVars, faultVars
<1>9. ASSUME NEW t \in Thread, WakeUpPanics(t) PROVE NoPanic'
  BY <1>0, <1>9 DEF WakeUpPanics, lockVars, threadVars, faultVars
<1>10. ASSUME NEW t \in Thread, SendRequest(t) PROVE NoPanic'
  BY <1>0, <1>10 DEF SendRequest, lockVars, faultVars
<1>11. ASSUME NEW t \in Thread, ReceiveReply(t) PROVE NoPanic'
  BY <1>0, <1>11 DEF ReceiveReply, lockVars, faultVars
<1>12. ASSUME NEW t \in Thread, PageFault(t) \/ FaultAgain(t) PROVE NoPanic'
  BY <1>0, <1>12 DEF PageFault, FaultAgain, Fault, lockVars, threadVars
<1>13. ASSUME NEW t \in Thread, PagerReceive(t) PROVE NoPanic'
  BY <1>0, <1>13 DEF PagerReceive, lockVars, threadVars, kernelVars
<1>14. ASSUME PagerMap PROVE NoPanic'
  BY <1>0, <1>14 DEF PagerMap, lockVars, threadVars, kernelVars
<1>15. ASSUME PagerRestart PROVE NoPanic'
  <2>1. paging \in Thread
    BY <1>15 DEF PagerRestart
  <2>2. kstate[paging] # "AWAITS_IPC"
    BY <1>0, <2>1 DEF PagerOK, Served
  <2> QED BY <1>15, <2>2 DEF PagerRestart
<1>16. CASE UNCHANGED vars
  BY <1>0, <1>16 DEF vars, lockVars, threadVars, kernelVars, faultVars
<1> QED
    BY <1>0, <1>1, <1>2, <1>3, <1>4, <1>5, <1>6, <1>7, <1>8, <1>9, <1>10, <1>11, <1>12, <1>13,
      <1>14, <1>15, <1>16, CalmCases DEF Next, Page

\* Lists of applicants stay lists of applicants.
LEMMA ListStep ==
  ASSUME Inv, CalmInv, [Next]_vars, cancels' = 0, NEW k \in Lock
  PROVE  ListOK(k)'
<1> USE Distinct DEF Inv, TypeOK, PlaceOK, OwnerOK, Runs, Waits, Restarted, RunnerOK, ListOK,
    Applicant, WakerOK
<1>0. /\ cancels = 0 /\ RunnerOK /\ NoPanic /\ \A m \in Lock : ListOK(m)
      /\ \A v \in Thread : WakerOK(v) /\ PagerOK(v)
  BY StillCalm DEF CalmInv
<1>1. ASSUME NEW t \in Thread, NEW l \in Lock, LockFree(t, l) PROVE ListOK(k)'
  BY <1>0, <1>1 DEF LockFree, kernelVars, faultVars
<1>2. ASSUME NEW t \in Thread, NEW l \in Lock, LockApply(t, l) PROVE ListOK(k)'
  BY <1>0, <1>2 DEF LockApply, kernelVars, faultVars
<1>3. ASSUME NEW t \in Thread, NEW l \in Lock, HandOver(t, l) PROVE ListOK(k)'
  BY <1>0, <1>3 DEF HandOver, MayUnlock, kernelVars, faultVars
<1>4. ASSUME NEW t \in Thread, NEW l \in Lock, Free(t, l) PROVE ListOK(k)'
  BY <1>0, <1>4 DEF Free, MayUnlock, Leave, kernelVars, faultVars
<1>5. ASSUME NEW t \in Thread, LockTwice(t) PROVE ListOK(k)'
  <2> DEFINE l == lk[t]
  <2>1. l \in Lock /\ owner[l] = t /\ state[l] = "LOCKED" /\ t \notin Applicant(k)
    BY <1>5 DEF LockTwice
  <2>2. ListOK(k)
    BY <1>0
  <2>3. CASE k # l
    <3>1. Applicant(k)' = Applicant(k)
      BY <1>5, <2>1, <2>3 DEF LockTwice
    <3>2. /\ \A x \in Applicant(k) \cup {k} : link'[x] = link[x]
          /\ state'[k] = state[k] /\ last'[k] = last[k]
      BY <1>5, <2>1, <2>3 DEF LockTwice
    <3> QED BY <2>2, <3>1, <3>2 DEF ListOK
  <2>4. CASE k = l
    <3>1. Applicant(k)' = Applicant(k) \cup {t}
      BY <1>5, <2>1, <2>4 DEF LockTwice
    <3>2. /\ \A x \in Applicant(k) : link'[x] = link[x]
          /\ link'[k] = t /\ link'[t] = link[k]
          /\ state'[k] = state[k] /\ last'[k] = IF link[k] = Null THEN t ELSE last[k]
      BY <1>5, <2>1, <2>4 DEF LockTwice
    <3>3. link[k] = Null => last[k] = k \/ last[k] \in Applicant(k)
      BY <2>1, <2>2, <2>4 DEF ListOK
    <3>4. t # k /\ t # Null /\ k # Null /\ k \notin Applicant(k) /\ Applicant(k) \subseteq Thread
      BY <2>1, <2>4
    <3> HIDE DEF Applicant
    <3> QED BY <2>1, <2>2, <2>4, <3>1, <3>2, <3>3, <3>4 DEF ListOK
  <2> QED BY <2>3, <2>4
<1>6. ASSUME NEW t \in Thread, Stop(t) PROVE ListOK(k)'
  BY <1>0, <1>6 DEF Stop, lockVars, faultVars
<1>7. ASSUME NEW t \in Thread, Acquire(t) PROVE ListOK(k)'
  BY <1>0, <1>7 DEF Acquire, Forget
<1>8. ASSUME NEW t \in Thread, WakeUp(t) PROVE ListOK(k)'
  BY <1>0, <1>8 DEF WakeUp, lockVars, faultVars
<1>9. ASSUME NEW t \in Thread, WakeUpPanics(t) PROVE ListOK(k)'
  BY <1>0, <1>9 DEF WakeUpPanics, lockVars, threadVars, faultVars
<1>10. ASSUME NEW t \in Thread, SendRequest(t) PROVE ListOK(k)'
  BY <1>0, <1>10 DEF SendRequest, lockVars, faultVars
<1>11. ASSUME NEW t \in Thread, ReceiveReply(t) PROVE ListOK(k)'
  BY <1>0, <1>11 DEF ReceiveReply, lockVars, faultVars
<1>12. ASSUME NEW t \in Thread, PageFault(t) \/ FaultAgain(t) PROVE ListOK(k)'
  BY <1>0, <1>12 DEF PageFault, FaultAgain, Fault, lockVars, threadVars
<1>13. ASSUME NEW t \in Thread, PagerReceive(t) PROVE ListOK(k)'
  BY <1>0, <1>13 DEF PagerReceive, lockVars, threadVars, kernelVars
<1>14. ASSUME PagerMap PROVE ListOK(k)'
  BY <1>0, <1>14 DEF PagerMap, lockVars, threadVars, kernelVars
<1>15. ASSUME PagerRestart PROVE ListOK(k)'
  BY <1>0, <1>15 DEF PagerRestart, lockVars, threadVars
<1>16. CASE UNCHANGED vars
  BY <1>0, <1>16 DEF vars, lockVars, threadVars, kernelVars, faultVars
<1> QED
    BY <1>0, <1>1, <1>2, <1>3, <1>4, <1>5, <1>6, <1>7, <1>8, <1>9, <1>10, <1>11, <1>12, <1>13,
      <1>14, <1>15, <1>16, CalmCases DEF Next, Page

\* Wake-up loops keep their targets to themselves.
LEMMA WakerStep ==
  ASSUME Inv, CalmInv, [Next]_vars, cancels' = 0, NEW u \in Thread
  PROVE  WakerOK(u)'
<1> USE Distinct DEF Inv, TypeOK, PlaceOK, OwnerOK, Runs, Waits, Restarted, RunnerOK, ListOK,
    Applicant, WakerOK
<1>0. /\ cancels = 0 /\ RunnerOK /\ NoPanic /\ \A m \in Lock : ListOK(m)
      /\ \A v \in Thread : WakerOK(v) /\ PagerOK(v)
  BY StillCalm DEF CalmInv
<1>1. ASSUME NEW t \in Thread, NEW l \in Lock, LockFree(t, l) PROVE WakerOK(u)'
  BY <1>0, <1>1 DEF LockFree, kernelVars, faultVars
<1>2. ASSUME NEW t \in Thread, NEW l \in Lock, LockApply(t, l) PROVE WakerOK(u)'
  BY <1>0, <1>2 DEF LockApply, kernelVars, faultVars
<1>3. ASSUME NEW t \in Thread, NEW l \in Lock, HandOver(t, l) PROVE WakerOK(u)'
  BY <1>0, <1>3 DEF HandOver, MayUnlock, kernelVars, faultVars
<1>4. ASSUME NEW t \in Thread, NEW l \in Lock, Free(t, l) PROVE WakerOK(u)'
  BY <1>0, <1>4 DEF Free, MayUnlock, Leave, kernelVars, faultVars
<1>5. ASSUME NEW t \in Thread, LockTwice(t) PROVE WakerOK(u)'
  BY <1>0, <1>5 DEF LockTwice, kernelVars, faultVars
<1>6. ASSUME NEW t \in Thread, Stop(t) PROVE WakerOK(u)'
  BY <1>0, <1>6 DEF Stop, lockVars, faultVars
<1>7. ASSUME NEW t \in Thread, Acquire(t) PROVE WakerOK(u)'
  BY <1>0, <1>7 DEF Acquire, Forget
<1>8. ASSUME NEW t \in Thread, WakeUp(t) PROVE WakerOK(u)'
  BY <1>0, <1>8 DEF WakeUp, lockVars, faultVars
<1>9. ASSUME NEW t \in Thread, WakeUpPanics(t) PROVE WakerOK(u)'
  BY <1>0, <1>9 DEF WakeUpPanics, lockVars, threadVars, faultVars
<1>10. ASSUME NEW t \in Thread, SendRequest(t) PROVE WakerOK(u)'
  BY <1>0, <1>10 DEF SendRequest, lockVars, faultVars
<1>11. ASSUME NEW t \in Thread, ReceiveReply(t) PROVE WakerOK(u)'
  BY <1>0, <1>11 DEF ReceiveReply, lockVars, faultVars
<1>12. ASSUME NEW t \in Thread, PageFault(t) \/ FaultAgain(t) PROVE WakerOK(u)'
  BY <1>0, <1>12 DEF PageFault, FaultAgain, Fault, lockVars, threadVars
<1>13. ASSUME NEW t \in Thread, PagerReceive(t) PROVE WakerOK(u)'
  BY <1>0, <1>13 DEF PagerReceive, lockVars, threadVars, kernelVars
<1>14. ASSUME PagerMap PROVE WakerOK(u)'
  BY <1>0, <1>14 DEF PagerMap, lockVars, threadVars, kernelVars
<1>15. ASSUME PagerRestart PROVE WakerOK(u)'
  <2>1. pc[u] = "wake" /\ wakee[u] = paging => ~(kstate[paging] = "AWAITS_RESTART" /\ pc[paging] = "check")
    BY <1>0, <1>15 DEF PagerRestart, PagerOK, Served, Woken
  <2>2. wakee[u] # paging => kstate'[wakee[u]] = kstate[wakee[u]]
    BY <1>15 DEF PagerRestart
  <2>3. UNCHANGED <<lockVars, threadVars>>
    BY <1>15 DEF PagerRestart
  <2>4. pc[u] = "wake" => ~Restarted(wakee[u])'
    BY <1>0, <1>15, <2>1, <2>2, <2>3 DEF PagerRestart, threadVars
  <2> QED BY <1>0, <2>3, <2>4 DEF lockVars, threadVars
<1>16. CASE UNCHANGED vars
  BY <1>0, <1>16 DEF vars, lockVars, threadVars, kernelVars, faultVars
<1> QED
    BY <1>0, <1>1, <1>2, <1>3, <1>4, <1>5, <1>6, <1>7, <1>8, <1>9, <1>10, <1>11, <1>12, <1>13,
      <1>14, <1>15, <1>16, CalmCases DEF Next, Page

\* The pager and the wake-up loops restart a thread no more often than it stops.
LEMMA PagerStep ==
  ASSUME Inv, CalmInv, [Next]_vars, cancels' = 0, NEW p \in Thread
  PROVE  PagerOK(p)'
<1> USE Distinct DEF Inv, TypeOK, PlaceOK, OwnerOK, Runs, Waits, Restarted, RunnerOK, WakerOK,
    PagerOK, Served, Woken
<1>0. /\ cancels = 0 /\ RunnerOK /\ NoPanic /\ \A m \in Lock : ListOK(m)
      /\ \A v \in Thread : WakerOK(v) /\ PagerOK(v)
  BY StillCalm DEF CalmInv
<1>1. ASSUME NEW t \in Thread, NEW l \in Lock, LockFree(t, l) PROVE PagerOK(p)'
  BY <1>0, <1>1 DEF LockFree, kernelVars, faultVars
<1>2. ASSUME NEW t \in Thread, NEW l \in Lock, LockApply(t, l) PROVE PagerOK(p)'
  BY <1>0, <1>2 DEF LockApply, kernelVars, faultVars
<1>3. ASSUME NEW t \in Thread, NEW l \in Lock, HandOver(t, l) PROVE PagerOK(p)'
  <2> DEFINE n == link[l]
  <2>1. owner[l] \in {t, Invalid} /\ ~Waits(t) /\ pc[t] # "wake"
    BY <1>3 DEF HandOver, MayUnlock
  <2>2. n \in Thread /\ n # t /\ Waits(n) /\ lk[n] = l /\ owner[l] # n
    BY <1>0, <1>3, <2>1 DEF HandOver, ListOK, Applicant
  <2>3. /\ pc' = [pc EXCEPT ![t] = "wake"] /\ lk' = [lk EXCEPT ![t] = Null]
        /\ owner' = [owner EXCEPT ![l] = n] /\ wakee' = [wakee EXCEPT ![t] = n]
        /\ UNCHANGED <<kernelVars, faultVars>>
    BY <1>3 DEF HandOver
  <2>4. p # n /\ p # t => Served(p)' = Served(p)
    <3>1. ASSUME p # n, p # t PROVE Woken(p)' <=> Woken(p)
      BY <2>1, <2>2, <2>3, <3>1
    <3>2. ASSUME p # n, p # t PROVE Waits(p)' = Waits(p) /\ (Waits(p) => lk'[p] = lk[p] /\ lk[p] \in Lock)
      BY <2>3, <3>2
    <3>3. ASSUME p # n, p # t, Waits(p) PROVE owner'[lk[p]] = p <=> owner[lk[p]] = p
      BY <2>1, <2>3, <3>2, <3>3
    <3> QED BY <3>1, <3>2, <3>3
  <2>5. PagerOK(p)
    BY <1>0
  <2>6. CASE p = t
    BY <2>1, <2>3, <2>5, <2>6 DEF kernelVars, faultVars
  <2>7. CASE p = n
    <3>1. ~Served(p)
      BY <2>2, <2>7
    <3>2. UNCHANGED <<signalled, paging, kstate>> /\ pc'[p] = pc[p]
      BY <2>2, <2>3, <2>7 DEF kernelVars, faultVars
    <3> QED BY <2>5, <3>1, <3>2
  <2>8. CASE p # n /\ p # t
    <3>1. UNCHANGED <<signalled, paging, kstate>> /\ pc'[p] = pc[p]
      BY <2>3, <2>8 DEF kernelVars, faultVars
    <3> HIDE DEF Served
    <3> QED BY <2>4, <2>5, <2>8, <3>1
  <2> QED BY <2>6, <2>7, <2>8
<1>4. ASSUME NEW t \in Thread, NEW l \in Lock, Free(t, l) PROVE PagerOK(p)'
  BY <1>0, <1>4 DEF Free, MayUnlock, Leave, kernelVars, faultVars
<1>5. ASSUME NEW t \in Thread, LockTwice(t) PROVE PagerOK(p)'
  BY <1>0, <1>5 DEF LockTwice, kernelVars, faultVars
<1>6. ASSUME NEW t \in Thread, Stop(t) PROVE PagerOK(p)'
  BY <1>0, <1>6 DEF Stop, lockVars, faultVars
<1>7. ASSUME NEW t \in Thread, Acquire(t) PROVE PagerOK(p)'
  BY <1>0, <1>7 DEF Acquire, Forget
<1>8. ASSUME NEW t \in Thread, WakeUp(t) PROVE PagerOK(p)'
  BY <1>0, <1>8 DEF WakeUp, lockVars, faultVars
<1>9. ASSUME NEW t \in Thread, WakeUpPanics(t) PROVE PagerOK(p)'
  BY <1>0, <1>9 DEF WakeUpPanics, lockVars, threadVars, faultVars
<1>10. ASSUME NEW t \in Thread, SendRequest(t) PROVE PagerOK(p)'
  BY <1>0, <1>10 DEF SendRequest, lockVars, faultVars
<1>11. ASSUME NEW t \in Thread, ReceiveReply(t) PROVE PagerOK(p)'
  BY <1>0, <1>11 DEF ReceiveReply, lockVars, faultVars
<1>12. ASSUME NEW t \in Thread, PageFault(t) \/ FaultAgain(t) PROVE PagerOK(p)'
  BY <1>0, <1>12 DEF PageFault, FaultAgain, Fault, lockVars, threadVars
<1>13. ASSUME NEW t \in Thread, PagerReceive(t) PROVE PagerOK(p)'
  BY <1>0, <1>13 DEF PagerReceive, lockVars, threadVars, kernelVars
<1>14. ASSUME PagerMap PROVE PagerOK(p)'
  BY <1>0, <1>14 DEF PagerMap, lockVars, threadVars, kernelVars
<1>15. ASSUME PagerRestart PROVE PagerOK(p)'
  BY <1>0, <1>15 DEF PagerRestart, lockVars, threadVars
<1>16. CASE UNCHANGED vars
  BY <1>0, <1>16 DEF vars, lockVars, threadVars, kernelVars, faultVars
<1> QED
    BY <1>0, <1>1, <1>2, <1>3, <1>4, <1>5, <1>6, <1>7, <1>8, <1>9, <1>10, <1>11, <1>12, <1>13,
      <1>14, <1>15, <1>16, CalmCases DEF Next, Page

---------------------------------------------------------------------------
\* The nodes of the lists
Node == Thread \cup Lock

\* f numbers the n applicants A of lock l in the order of the links lnk that start in
\* the lock's own node and end in node lst
Chain(A, lnk, lst, l, n, f) ==
  /\ f[0] = l
  /\ A = {f[i] : i \in 1 .. n}
  /\ \A i, j \in 1 .. n : f[i] = f[j] => i = j
  /\ \A i \in 0 .. n - 1 : lnk[f[i]] = f[i + 1]
  /\ lnk[f[n]] = Null
  /\ lst = f[n]

\* The links from lock l pass each node of A once and end in node lst
Queue(A, lnk, lst, l) == \E n \in Nat, f \in [Nat -> Node] : Chain(A, lnk, lst, l, n, f)

\* A locked lock has its applicants in its list, and nobody waits for a free lock
QueueOK(l) ==
  /\ state[l] = "LOCKED" => Queue(Applicant(l), link, last[l], l)
  /\ state[l] = "UNLOCKED" => Applicant(l) = {}

\* A nonempty set of natural numbers has a least element.
LEMMA LeastNumber ==
  ASSUME NEW T \in SUBSET Nat, T # {}
  PROVE  \E n \in T : \A m \in T : n <= m
<1> DEFINE R == OpToRel(<, Nat)
<1>1. IsWellFoundedOn(R, Nat)
  BY NatLessThanWellFounded, Zenon
<1>2. \A m, n \in Nat : <<m, n>> \in R <=> m < n
  BY DEF OpToRel
<1> HIDE DEF R
<1>3. PICK n \in T : \A m \in T : ~(<<m, n>> \in R)
  BY <1>1, WFMin
<1>4. \A m \in T : ~(m < n)
  BY <1>2, <1>3
<1>5. QED BY <1>4

\* The list of a lock that has just been acquired is empty.
LEMMA EmptyQueue ==
  ASSUME NEW lnk, NEW l \in Lock, lnk[l] = Null
  PROVE  Queue({}, lnk, l, l)
<1> DEFINE g == [i \in Nat |-> l]
<1>1. g \in [Nat -> Node]
  BY DEF Node
<1>2. Chain({}, lnk, l, l, 0, g)
  BY DEF Chain
<1>3. QED BY <1>1, <1>2 DEF Queue

\* A list is left alone by whoever changes links of other nodes.
LEMMA SameQueue ==
  ASSUME NEW A, NEW lnk, NEW lst, NEW l, NEW new, Queue(A, lnk, lst, l),
         \A x \in A \cup {l} : new[x] = lnk[x]
  PROVE  Queue(A, new, lst, l)
<1>1. PICK n \in Nat, f \in [Nat -> Node] : Chain(A, lnk, lst, l, n, f)
  BY DEF Queue
<1>2. \A i \in 0 .. n : f[i] \in A \cup {l}
  BY <1>1 DEF Chain
<1>3. Chain(A, new, lst, l, n, f)
  BY <1>1, <1>2 DEF Chain
<1>4. QED BY <1>3 DEF Queue

\* The first n values of f after the one at 0 are threads of A, and all are distinct
Numbers(A, n, f) ==
  /\ \A i \in 1 .. n : f[i] \in A /\ f[i] \in Thread
  /\ \A i, j \in 0 .. n : f[i] = f[j] => i = j

\* The nodes of a list are distinct.
LEMMA ChainNodes ==
  ASSUME NEW A, A \subseteq Thread, NEW lnk, NEW lst, NEW l \in Lock, NEW n \in Nat, NEW f,
         Chain(A, lnk, lst, l, n, f)
  PROVE  Numbers(A, n, f)
<1>1. \A i \in 1 .. n : f[i] \in A /\ f[i] \in Thread /\ f[i] # f[0]
  BY Distinct DEF Chain
<1>2. \A i \in 0 .. n : i = 0 \/ i \in 1 .. n
  OBVIOUS
<1>3. QED BY <1>1, <1>2 DEF Chain, Numbers

\* lock() appends a node behind the last one.
LEMMA AppendQueue ==
  ASSUME NEW A \in SUBSET Thread, NEW lnk \in [Node -> Thread \cup {Null}], NEW lst,
         NEW l \in Lock, Queue(A, lnk, lst, l), NEW t \in Thread, t \notin A
  PROVE  Queue(A \cup {t}, [lnk EXCEPT ![t] = Null, ![lst] = t], t, l)
<1>1. PICK n \in Nat, f \in [Nat -> Node] : Chain(A, lnk, lst, l, n, f)
  BY DEF Queue
<1>0. Numbers(A, n, f)
  BY <1>1, ChainNodes
<1>2. /\ \A i \in 1 .. n : f[i] \in A
      /\ \A i, j \in 0 .. n : f[i] = f[j] => i = j
  BY <1>0 DEF Numbers
<1> DEFINE g == [i \in Nat |-> IF i = n + 1 THEN t ELSE f[i]]
           new == [lnk EXCEPT ![t] = Null, ![lst] = t]
<1>3. f[0] = l /\ lst = f[n] /\ \A i \in 0 .. n : f[i] \in Node /\ f[i] # t
  BY <1>1, <1>2, Distinct DEF Chain
<1>4. g \in [Nat -> Node]
  BY DEF Node
<1>5. g[n + 1] = t /\ \A i \in 0 .. n : g[i] = f[i]
  OBVIOUS
<1> HIDE DEF g
<1>6. A \cup {t} = {g[i] : i \in 1 .. n + 1}
  <2>1. A = {f[i] : i \in 1 .. n}
    BY <1>1 DEF Chain
  <2>2. \A i \in 1 .. n + 1 : i \in 1 .. n \/ i = n + 1
    OBVIOUS
  <2>3. \A i \in 1 .. n : i \in 1 .. n + 1 /\ g[i] = f[i]
    BY <1>5
  <2>4. n + 1 \in 1 .. n + 1
    OBVIOUS
  <2>5. QED BY <1>5, <2>1, <2>2, <2>3, <2>4
<1>7. \A i, j \in 1 .. n + 1 : g[i] = g[j] => i = j
  BY <1>2, <1>3, <1>5
<1>8. \A i \in 0 .. n : new[g[i]] = g[i + 1]
  BY <1>1, <1>2, <1>3, <1>5 DEF Chain
<1>9. new[g[n + 1]] = Null
  BY <1>3, <1>5 DEF Node
<1>10. Chain(A \cup {t}, new, t, l, n + 1, g)
  BY <1>3, <1>5, <1>6, <1>7, <1>8, <1>9 DEF Chain
<1>11. QED BY <1>4, <1>10 DEF Queue

\* An owner that locks twice prepends its node.
LEMMA PrependQueue ==
  ASSUME NEW A \in SUBSET Thread, NEW lnk \in [Node -> Thread \cup {Null}], NEW lst,
         NEW l \in Lock, Queue(A, lnk, lst, l), NEW t \in Thread, t \notin A
  PROVE  Queue(A \cup {t}, [lnk EXCEPT ![l] = t, ![t] = lnk[l]],
               IF lnk[l] = Null THEN t ELSE lst, l)
<1>1. PICK n \in Nat, f \in [Nat -> Node] : Chain(A, lnk, lst, l, n, f)
  BY DEF Queue
<1>0. Numbers(A, n, f)
  BY <1>1, ChainNodes
<1>2. /\ \A i \in 1 .. n : f[i] \in A /\ f[i] \in Thread
      /\ \A i, j \in 0 .. n : f[i] = f[j] => i = j
  BY <1>0 DEF Numbers
<1> DEFINE g == [i \in Nat |-> IF i = 0 THEN l ELSE IF i = 1 THEN t ELSE f[i - 1]]
           new == [lnk EXCEPT ![l] = t, ![t] = lnk[l]]
           end == IF lnk[l] = Null THEN t ELSE lst
<1>3. f[0] = l /\ lst = f[n] /\ \A i \in 1 .. n : f[i] \in Node /\ f[i] # t /\ f[i] # l
  BY <1>1, <1>2, Distinct DEF Chain
<1>4. g \in [Nat -> Node]
  <2>1. \A i \in Nat : i # 0 => i - 1 \in Nat
    OBVIOUS
  <2>2. QED BY <2>1 DEF Node
<1>5. g[0] = l /\ g[1] = t /\ \A i \in 2 .. n + 1 : g[i] = f[i - 1] /\ i - 1 \in 1 .. n
  OBVIOUS
<1> HIDE DEF g
<1>6. A \cup {t} = {g[i] : i \in 1 .. n + 1}
  <2>1. A = {f[i] : i \in 1 .. n}
    BY <1>1 DEF Chain
  <2>2. \A i \in 1 .. n + 1 : i = 1 \/ (i \in 2 .. n + 1 /\ g[i] = f[i - 1] /\ i - 1 \in 1 .. n)
    BY <1>5
  <2>3. \A i \in 1 .. n : i + 1 \in 1 .. n + 1 /\ g[i + 1] = f[i]
    BY <1>5
  <2>4. 1 \in 1 .. n + 1
    OBVIOUS
  <2>5. QED BY <1>5, <2>1, <2>2, <2>3, <2>4
<1>7. \A i, j \in 1 .. n + 1 : g[i] = g[j] => i = j
  BY <1>2, <1>3, <1>5
<1>8. new[l] = t /\ new[t] = lnk[l] /\ \A i \in 1 .. n : new[f[i]] = lnk[f[i]]
  BY <1>3, Distinct DEF Node
<1>9. n = 0 => lnk[l] = Null
  BY <1>1, <1>3 DEF Chain
<1>10. n # 0 => lnk[l] = f[1] /\ f[1] # Null
  BY <1>1, <1>2, Distinct DEF Chain
<1> HIDE DEF new
<1>11. \A i \in 0 .. n : new[g[i]] = g[i + 1]
  <2>1. SUFFICES ASSUME NEW i \in 0 .. n PROVE new[g[i]] = g[i + 1]
    OBVIOUS
  <2>2. CASE i = 0
    BY <1>5, <1>8, <2>2
  <2>3. CASE i = 1
    BY <1>5, <1>8, <1>10, <2>3
  <2>4. CASE i \in 2 .. n
    <3>1. lnk[f[i - 1]] = f[i]
      <4>1. i - 1 \in 0 .. n - 1 /\ i - 1 + 1 = i
        BY <2>4
      <4>2. QED BY <1>1, <4>1 DEF Chain
    <3>2. g[i] = f[i - 1] /\ i - 1 \in 1 .. n /\ g[i + 1] = f[i]
      BY <1>5, <2>4
    <3>3. QED BY <1>8, <3>1, <3>2
  <2>5. QED BY <2>2, <2>3, <2>4
<1>12. new[g[n + 1]] = Null /\ end = g[n + 1]
  <2>1. CASE n = 0
    BY <1>5, <1>8, <1>9, <2>1
  <2>2. CASE n # 0
    <3>1. g[n + 1] = f[n] /\ n \in 1 .. n
      BY <1>5, <2>2
    <3>2. QED BY <1>1, <1>3, <1>8, <1>10, <2>2, <3>1 DEF Chain
  <2>3. QED BY <2>1, <2>2
<1> HIDE DEF end
<1>13. Chain(A \cup {t}, new, end, l, n + 1, g)
  BY <1>5, <1>6, <1>7, <1>11, <1>12 DEF Chain
<1>14. Queue(A \cup {t}, new, end, l)
  BY <1>4, <1>13 DEF Queue
<1>15. QED BY <1>14 DEF new, end

\* Node p is the only one before t, and t leaves the list when p takes over its link
Unlinks(A, lnk, lst, l, t, p) ==
  /\ {x \in A \cup {l} : lnk[x] = t} = {p} /\ p # t
  /\ \A new : (\A x \in (A \cup {l}) \ {t} : new[x] = IF x = p THEN lnk[t] ELSE lnk[x])
       => Queue(A \ {t}, new, IF lst = t THEN p ELSE lst, l)

\* A node that leaves the list gives its link to the one before it.
LEMMA RemoveQueue ==
  ASSUME NEW A \in SUBSET Thread, NEW lnk \in [Node -> Thread \cup {Null}], NEW lst,
         NEW l \in Lock, Queue(A, lnk, lst, l), NEW t \in A
  PROVE  \E p \in A \cup {l} : Unlinks(A, lnk, lst, l, t, p)
<1>1. PICK n \in Nat, f \in [Nat -> Node] : Chain(A, lnk, lst, l, n, f)
  BY DEF Queue
<1>0. Numbers(A, n, f)
  BY <1>1, ChainNodes
<1>2. /\ \A i \in 1 .. n : f[i] \in A /\ f[i] \in Thread
      /\ \A i, j \in 0 .. n : f[i] = f[j] => i = j
  BY <1>0 DEF Numbers
<1>3. f[0] = l /\ lst = f[n] /\ A = {f[i] : i \in 1 .. n} /\ lnk[f[n]] = Null
  BY <1>1 DEF Chain
<1>4. \A i \in 0 .. n - 1 : lnk[f[i]] = f[i + 1]
  BY <1>1 DEF Chain
<1>5. PICK k \in 1 .. n : t = f[k]
  BY <1>3
<1> DEFINE p == f[k - 1]
           end == IF lst = t THEN p ELSE lst
           g == [i \in Nat |-> IF i < k THEN f[i] ELSE f[i + 1]]
<1>6. k - 1 \in 0 .. n /\ k - 1 \in 0 .. n - 1 /\ k - 1 + 1 = k
  OBVIOUS
<1>7. \A i \in 0 .. n : f[i] \in A \cup {l}
  BY <1>2, <1>3
<1>8. p \in A \cup {l} /\ p # t /\ lnk[p] = t
  BY <1>2, <1>4, <1>5, <1>6, <1>7
<1>9. {x \in A \cup {l} : lnk[x] = t} = {p}
  <2>1. SUFFICES ASSUME NEW x \in A \cup {l}, lnk[x] = t PROVE x = p
    BY <1>8
  <2>2. PICK i \in 0 .. n : x = f[i]
    BY <1>3
  <2>3. i # n
    BY <1>3, <2>1, <2>2, Distinct
  <2>4. i \in 0 .. n - 1 /\ i + 1 \in 0 .. n
    BY <2>3
  <2>5. f[i + 1] = f[k]
    BY <1>4, <1>5, <2>1, <2>2, <2>4
  <2>6. i + 1 = k
    BY <1>2, <2>4, <2>5
  <2>7. QED BY <2>2, <2>6
<1>10. ASSUME NEW new, \A x \in (A \cup {l}) \ {t} : new[x] = IF x = p THEN lnk[t] ELSE lnk[x]
       PROVE  Queue(A \ {t}, new, end, l)
  <2>1. g \in [Nat -> Node]
    OBVIOUS
  <2>2. \A i \in Nat : g[i] = IF i < k THEN f[i] ELSE f[i + 1]
    OBVIOUS
  <2> HIDE DEF g
  <2>3. \A i \in 1 .. n - 1 : g[i] \in A \ {t}
    BY <1>2, <1>5, <2>2
  <2>4. A \ {t} = {g[i] : i \in 1 .. n - 1}
    <3>1. ASSUME NEW x \in A \ {t} PROVE \E i \in 1 .. n - 1 : x = g[i]
      <4>1. PICK i \in 1 .. n : x = f[i]
        BY <1>3
      <4>2. CASE i < k
        BY <2>2, <4>1, <4>2
      <4>3. CASE i > k
        <5>1. i - 1 \in 1 .. n - 1 /\ ~(i - 1 < k) /\ i - 1 + 1 = i
          BY <4>3
        <5>2. QED BY <2>2, <4>1, <5>1
      <4>4. QED BY <1>5, <3>1, <4>1, <4>2, <4>3
    <3>2. QED BY <2>3, <3>1
  <2>5. \A i, j \in 1 .. n - 1 : g[i] = g[j] => i = j
    BY <1>2, <2>2
  <2>6. \A i \in 0 .. n - 1 : g[i] \in (A \cup {l}) \ {t} /\ (g[i] = p => i = k - 1)
    BY <1>2, <1>5, <1>7, <2>2
  <2>7. \A i \in 0 .. n - 1 : new[g[i]] = IF i = k - 1 THEN lnk[t] ELSE lnk[g[i]]
    BY <1>10, <2>2, <2>6
  <2>8. \A i \in 0 .. n - 2 : new[g[i]] = g[i + 1]
    <3>1. SUFFICES ASSUME NEW i \in 0 .. n - 2 PROVE new[g[i]] = g[i + 1]
      OBVIOUS
    <3>2. i \in 0 .. n - 1 /\ i + 1 \in 0 .. n - 1 /\ k \in Nat
      OBVIOUS
    <3>3. lnk[f[i]] = f[i + 1] /\ lnk[f[i + 1]] = f[i + 1 + 1]
      BY <1>4, <3>2
    <3>4. CASE i < k - 1
      BY <2>2, <2>7, <3>2, <3>3, <3>4
    <3>5. CASE i = k - 1
      BY <1>5, <2>2, <2>7, <3>2, <3>3, <3>5
    <3>6. CASE i > k - 1
      BY <2>2, <2>7, <3>2, <3>3, <3>6
    <3>7. QED BY <3>4, <3>5, <3>6
  <2>9. n - 1 \in Nat /\ n - 1 \in 0 .. n - 1 /\ n - 1 + 1 = n
    OBVIOUS
  <2>10. new[g[n - 1]] = Null /\ end = g[n - 1]
    <3>1. CASE k = n
      BY <1>3, <1>5, <2>2, <2>7, <2>9, <3>1
    <3>2. CASE k # n
      <4>1. f[n] # t
        BY <1>2, <1>5, <3>2
      <4>2. g[n - 1] = f[n]
        BY <2>2, <2>9, <3>2
      <4>3. QED BY <1>3, <2>7, <2>9, <3>2, <4>1, <4>2
    <3>3. QED BY <3>1, <3>2
  <2>11. g[0] = l
    BY <1>3, <2>2
  <2>12. Chain(A \ {t}, new, end, l, n - 1, g)
    BY <2>4, <2>5, <2>8, <2>9, <2>10, <2>11 DEF Chain
  <2>13. QED BY <2>1, <2>9, <2>12 DEF Queue
<1>11. Unlinks(A, lnk, lst, l, t, p)
  BY <1>8, <1>9, <1>10 DEF Unlinks
<1>12. QED BY <1>8, <1>11

\* The first applicant leaves the list when it becomes the owner.
LEMMA FirstQueue ==
  ASSUME NEW A \in SUBSET Thread, NEW lnk \in [Node -> Thread \cup {Null}], NEW lst,
         NEW l \in Lock, Queue(A, lnk, lst, l), lnk[l] # Null
  PROVE  /\ lnk[l] \in A
         /\ Queue(A \ {lnk[l]}, [lnk EXCEPT ![l] = lnk[lnk[l]]], IF lst = lnk[l] THEN l ELSE lst, l)
<1>1. lnk[l] \in A
  <2>1. PICK n \in Nat, f \in [Nat -> Node] : Chain(A, lnk, lst, l, n, f)
    BY DEF Queue
  <2>2. n # 0
    BY <2>1 DEF Chain
  <2>3. QED BY <2>1, <2>2 DEF Chain
<1> DEFINE t == lnk[l]
           new == [lnk EXCEPT ![l] = lnk[t]]
<1>2. PICK p \in A \cup {l} : Unlinks(A, lnk, lst, l, t, p)
  BY <1>1, RemoveQueue
<1>3. p = l
  BY <1>2 DEF Unlinks
<1>4. \A x \in (A \cup {l}) \ {t} : new[x] = IF x = p THEN lnk[t] ELSE lnk[x]
  BY <1>3 DEF Node
<1>5. QED BY <1>1, <1>2, <1>3, <1>4 DEF Unlinks

\* What the walk along the links of a list comes by: the nodes in their order, then nothing.
LEMMA WalkChain ==
  ASSUME NEW l \in Lock, NEW A \in SUBSET Thread, NEW lst, NEW n \in Nat,
         NEW f \in [Nat -> Node], Chain(A, link, lst, l, n, f)
  PROVE  \A k \in Nat : Walk(l)[k] = IF k <= n THEN f[k] ELSE Null
<1> DEFINE h == [k \in Nat |-> IF k <= n THEN f[k] ELSE Null]
           step(w) == [k \in Nat |-> IF k = 0 THEN l
                                     ELSE IF w[k - 1] = Null THEN Null ELSE link[w[k - 1]]]
           w0 == Walk(l)
<1>1. \A k \in Nat : h[k] = IF k <= n THEN f[k] ELSE Null
  OBVIOUS
<1>2. f[0] = l /\ \A k \in 0 .. n : f[k] # Null
  BY Distinct DEF Chain, Node
<1>3. \A k \in Nat : h[k] = IF k = 0 THEN l
                            ELSE IF h[k - 1] = Null THEN Null ELSE link[h[k - 1]]
  <2>1. SUFFICES ASSUME NEW k \in Nat, k # 0
                 PROVE  h[k] = IF h[k - 1] = Null THEN Null ELSE link[h[k - 1]]
    BY <1>1, <1>2
  <2>2. k - 1 \in Nat /\ k - 1 + 1 = k
    BY <2>1
  <2>3. CASE k <= n
    <3>1. k - 1 \in 0 .. n - 1 /\ k - 1 \in 0 .. n
      BY <2>1, <2>3
    <3>2. link[f[k - 1]] = f[k]
      BY <2>2, <3>1 DEF Chain
    <3>3. QED BY <1>1, <1>2, <2>2, <2>3, <3>1, <3>2
  <2>4. CASE k = n + 1
    <3>1. k - 1 = n /\ n \in 0 .. n
      BY <2>4
    <3>2. QED BY <1>1, <1>2, <2>2, <2>4, <3>1 DEF Chain
  <2>5. CASE k > n + 1
    BY <1>1, <2>2, <2>5
  <2>6. QED BY <2>3, <2>4, <2>5
<1> HIDE DEF h
<1>4. h = step(h)
  <2>1. h = [k \in Nat |-> h[k]]
    BY DEF h
  <2>2. QED BY <1>3, <2>1
<1>5. w0 = CHOOSE w : w = step(w)
  BY DEF Walk
<1> HIDE DEF w0, step
<1>6. w0 = step(w0)
  BY <1>4, <1>5, Zenon
<1>7. \A k \in Nat : w0[k] = IF k = 0 THEN l
                             ELSE IF w0[k - 1] = Null THEN Null ELSE link[w0[k - 1]]
  BY <1>6 DEF step
<1>8. \A k \in Nat : w0[k] = h[k]
  <2> DEFINE T == {k \in Nat : w0[k] # h[k]}
  <2>1. SUFFICES ASSUME T # {} PROVE FALSE
    OBVIOUS
  <2>2. PICK k \in T : \A m \in T : k <= m
    BY <2>1, LeastNumber
  <2>3. k # 0
    BY <1>3, <1>7, <2>2
  <2>4. k - 1 \in Nat /\ ~(k <= k - 1)
    BY <2>3
  <2>5. w0[k - 1] = h[k - 1]
    BY <2>2, <2>4
  <2>6. w0[k] = h[k]
    BY <1>3, <1>7, <2>3, <2>5
  <2>7. QED BY <2>6
<1>9. QED BY <1>1, <1>8 DEF w0

\* The walk finds all applicants within as many steps as there are threads.
LEMMA QueueListed ==
  ASSUME NEW l \in Lock, NEW A \in SUBSET Thread, NEW lst, Queue(A, link, lst, l)
  PROVE  Listed(l) = A
<1>1. PICK n \in Nat, f \in [Nat -> Node] : Chain(A, link, lst, l, n, f)
  BY DEF Queue
<1>0. Numbers(A, n, f)
  BY <1>1, ChainNodes
<1>2. /\ \A i \in 1 .. n : f[i] \in A /\ f[i] \in Thread
      /\ \A i, j \in 0 .. n : f[i] = f[j] => i = j
  BY <1>0 DEF Numbers
<1>3. \A k \in Nat : Walk(l)[k] = IF k <= n THEN f[k] ELSE Null
  BY <1>1, WalkChain
<1>4. Cardinality(Thread) \in Nat /\ n <= Cardinality(Thread)
  <2> DEFINE e == [i \in 1 .. n |-> f[i]]
  <2>1. IsFiniteSet(Thread) /\ Cardinality(Thread) \in Nat
    BY LockAssumption, FS_CardinalityType
  <2>2. e \in Injection(1 .. n, Thread)
    BY <1>2, Fun_IsInj
  <2>3. IsFiniteSet(1 .. n) /\ Cardinality(1 .. n) = n
    BY FS_Interval
  <2>4. QED BY <2>1, <2>2, <2>3, FS_Injection
<1>5. A = {f[i] : i \in 1 .. n}
  BY <1>1 DEF Chain
<1>6. ASSUME NEW t \in A PROVE t \in Listed(l)
  <2>1. PICK i \in 1 .. n : t = f[i]
    BY <1>5
  <2>2. i \in 1 .. Cardinality(Thread) /\ Walk(l)[i] = t
    BY <1>3, <1>4, <2>1
  <2>3. QED BY <2>2 DEF Listed
<1>7. ASSUME NEW t \in Listed(l) PROVE t \in A
  <2>1. PICK k \in 1 .. Cardinality(Thread) : t \in Thread /\ Walk(l)[k] = t
    BY DEF Listed
  <2>2. k \in Nat /\ k <= n /\ t = f[k]
    BY <1>3, <1>4, <2>1, Distinct
  <2>3. QED BY <1>2, <2>2
<1>8. QED BY <1>6, <1>7

\* What a step has to leave of a lock and its list, or to put into it.
LEMMA QueueNow ==
  ASSUME NEW k \in Lock, TypeOK',
         state[k]' = "LOCKED" => Queue(Applicant(k)', link', last[k]', k),
         state[k]' = "UNLOCKED" => Applicant(k)' = {}
  PROVE  QueueOK(k)'
  BY DEF QueueOK, Queue, Chain

\* A step that does not touch the applicants of a lock nor their links keeps its list.
LEMMA QueueKept ==
  ASSUME NEW k \in Lock, TypeOK', QueueOK(k), state[k]' = state[k], last[k]' = last[k],
         Applicant(k)' = Applicant(k), \A x \in Applicant(k) \cup {k} : link[x]' = link[x]
  PROVE  QueueOK(k)'
<1>1. ASSUME state[k]' = "LOCKED" PROVE Queue(Applicant(k)', link', last[k]', k)
  BY <1>1, SameQueue DEF QueueOK
<1>2. ASSUME state[k]' = "UNLOCKED" PROVE Applicant(k)' = {}
  BY <1>2 DEF QueueOK
<1>3. QED BY <1>1, <1>2, QueueNow

\* The lists stay complete, whatever is cancelled.
LEMMA QueueStep ==
  ASSUME Inv, \A m \in Lock : QueueOK(m), [Next]_vars, NEW k \in Lock
  PROVE  QueueOK(k)'
<1>0. TypeOK' /\ TypeOK /\ PlaceOK /\ OwnerOK
  BY TypeStep DEF Inv
<1>a. QueueOK(k) /\ Applicant(k) \in SUBSET Thread /\ k \in Node
  BY DEF Applicant, Node
<1>b. link \in [Node -> Thread \cup {Null}]
  BY <1>0 DEF TypeOK, Node
<1>1. ASSUME NEW t \in Thread, NEW l \in Lock, LockFree(t, l) PROVE QueueOK(k)'
  <2>1. Applicant(k)' = Applicant(k)
    BY <1>0, <1>1, Distinct DEF LockFree, Runs, Waits, Applicant, TypeOK, PlaceOK, OwnerOK
  <2>2. CASE k # l
    <3>1. state[k]' = state[k] /\ last[k]' = last[k] /\ \A x \in Applicant(k) \cup {k} : link[x]' = link[x]
      BY <1>0, <1>1, <2>2, Distinct DEF LockFree, Applicant, TypeOK
    <3>2. QED BY <1>0, <1>a, <2>1, <3>1, QueueKept
  <2>3. CASE k = l
    <3>1. Applicant(k)' = {}
      BY <1>1, <1>a, <2>1, <2>3 DEF LockFree, QueueOK
    <3>2. last[k]' = k /\ link[k]' = Null
      BY <1>0, <1>1, <2>3 DEF LockFree, TypeOK
    <3>3. Queue({}, link', k, k)
      BY <3>2, EmptyQueue
    <3>4. QED BY <1>0, <3>1, <3>2, <3>3, QueueNow
  <2>4. QED BY <2>2, <2>3
<1>2. ASSUME NEW t \in Thread, NEW l \in Lock, LockApply(t, l) PROVE QueueOK(k)'
  <2>1. t \notin Applicant(k) /\ state' = state /\ pc[t] = "out"
    BY <1>2 DEF LockApply, Runs, Waits, Applicant
  <2>2. CASE k # l
    <3>1. last[l] \in Applicant(l) \cup {l}
      <4>1. Queue(Applicant(l), link, last[l], l)
        BY <1>2 DEF QueueOK, LockApply
      <4>2. QED BY <4>1 DEF Queue, Chain
    <3>2. last[l] \notin Applicant(k) \cup {k}
      BY <2>2, <3>1, Distinct DEF Applicant
    <3>3. Applicant(k)' = Applicant(k)
      BY <1>0, <1>2, <2>1, <2>2, Distinct DEF LockApply, Runs, Waits, Applicant, TypeOK
    <3>4. last[k]' = last[k] /\ \A x \in Applicant(k) \cup {k} : link[x]' = link[x]
      BY <1>0, <1>2, <2>1, <2>2, <3>2, Distinct DEF LockApply, Applicant, TypeOK
    <3>5. QED BY <1>0, <1>a, <2>1, <3>3, <3>4, QueueKept
  <2>3. CASE k = l
    <3>1. Applicant(k)' = Applicant(k) \cup {t}
      BY <1>0, <1>2, <2>3 DEF LockApply, Runs, Waits, Applicant, TypeOK
    <3>2. link' = [link EXCEPT ![t] = Null, ![last[k]] = t] /\ last[k]' = t
      BY <1>0, <1>2, <2>3 DEF LockApply, TypeOK
    <3>3. Queue(Applicant(k), link, last[k], k)
      BY <1>2, <1>a, <2>3 DEF QueueOK, LockApply
    <3>4. Queue(Applicant(k) \cup {t}, [link EXCEPT ![t] = Null, ![last[k]] = t], t, k)
      BY <1>a, <1>b, <2>1, <3>3, AppendQueue
    <3>5. state[k]' = "LOCKED"
      BY <1>0, <1>2, <2>1, <2>3 DEF LockApply
    <3>6. QED BY <1>0, <3>1, <3>2, <3>4, <3>5, QueueNow
  <2>4. QED BY <2>2, <2>3
<1>3. ASSUME NEW t \in Thread, NEW l \in Lock, HandOver(t, l) PROVE QueueOK(k)'
  <2>1. state[l] = "LOCKED" /\ ~Waits(t) /\ (owner[l] = t \/ owner[l] = Invalid)
    BY <1>0, <1>3 DEF HandOver, MayUnlock, Runs, Waits, PlaceOK, OwnerOK
  <2>2. CASE k # l
    <3>1. Applicant(k)' = Applicant(k)
      BY <1>0, <1>3, <2>1, <2>2, Distinct DEF HandOver, MayUnlock, Runs, Waits, Applicant, TypeOK
    <3>2. state[k]' = state[k] /\ last[k]' = last[k] /\ \A x \in Applicant(k) \cup {k} : link[x]' = link[x]
      BY <1>0, <1>3, <2>2, Distinct DEF HandOver, Applicant, TypeOK
    <3>3. QED BY <1>0, <1>a, <3>1, <3>2, QueueKept
  <2>3. CASE k = l
    <3>1. Queue(Applicant(k), link, last[k], k) /\ link[k] # Null
      BY <1>3, <1>a, <2>1, <2>3 DEF QueueOK, HandOver
    <3>2. /\ link[k] \in Applicant(k)
          /\ Queue(Applicant(k) \ {link[k]}, [link EXCEPT ![k] = link[link[k]]],
                   IF last[k] = link[k] THEN k ELSE last[k], k)
      BY <1>a, <1>b, <3>1, FirstQueue
    <3>3. Applicant(k)' = Applicant(k) \ {link[k]}
      BY <1>0, <1>3, <2>1, <2>3, <3>2, Distinct
        DEF HandOver, MayUnlock, Runs, Waits, Applicant, TypeOK
    <3>4. /\ link' = [link EXCEPT ![k] = link[link[k]]] /\ state[k]' = "LOCKED"
          /\ last[k]' = IF last[k] = link[k] THEN k ELSE last[k]
      BY <1>0, <1>3, <2>1, <2>3 DEF HandOver, TypeOK
    <3>5. QED BY <1>0, <3>2, <3>3, <3>4, QueueNow
  <2>4. QED BY <2>2, <2>3
<1>4. ASSUME NEW t \in Thread, NEW l \in Lock, Free(t, l) PROVE QueueOK(k)'
  <2>1. state[l] = "LOCKED" /\ ~Waits(t) /\ (owner[l] = t \/ owner[l] = Invalid)
    BY <1>0, <1>4 DEF Free, MayUnlock, Runs, Waits, PlaceOK, OwnerOK
  <2>2. Applicant(k)' = Applicant(k)
    BY <1>0, <1>4, <2>1, Distinct DEF Free, MayUnlock, Leave, Runs, Waits, Applicant, TypeOK
  <2>3. CASE k # l
    <3>1. state[k]' = state[k] /\ last[k]' = last[k] /\ \A x \in Applicant(k) \cup {k} : link[x]' = link[x]
      BY <1>0, <1>4, <2>3 DEF Free, TypeOK
    <3>2. QED BY <1>0, <1>a, <2>2, <3>1, QueueKept
  <2>4. CASE k = l
    <3>1. PICK n \in Nat, f \in [Nat -> Node] : Chain(Applicant(k), link, last[k], k, n, f)
      BY <1>a, <2>1, <2>4 DEF QueueOK, Queue
    <3>2. Numbers(Applicant(k), n, f)
      BY <1>a, <3>1, ChainNodes
    <3>3. n = 0
      <4>1. ASSUME n # 0 PROVE FALSE
        <5>1. 0 \in 0 .. n - 1 /\ 1 \in 1 .. n
          BY <4>1
        <5>2. link[k] = f[1] /\ f[1] \in Thread
          BY <3>1, <3>2, <5>1 DEF Chain, Numbers
        <5>3. QED BY <1>4, <2>4, <5>2, Distinct DEF Free
      <4>2. QED BY <4>1
    <3>4. Applicant(k) = {}
      BY <3>1, <3>3 DEF Chain
    <3>5. state[k]' = "UNLOCKED"
      BY <1>0, <1>4, <2>4 DEF Free, TypeOK
    <3>6. QED BY <1>0, <2>2, <3>4, <3>5, QueueNow
  <2>5. QED BY <2>3, <2>4
<1>5. ASSUME NEW t \in Thread, LockTwice(t) PROVE QueueOK(k)'
  <2> DEFINE l == lk[t]
  <2>1. l \in Lock /\ owner[l] = t /\ state[l] = "LOCKED" /\ pc[t] = "in" /\ t \notin Applicant(k)
    BY <1>0, <1>5 DEF LockTwice, Runs, Waits, Applicant, PlaceOK, OwnerOK
  <2>2. CASE k # l
    <3>1. Applicant(k)' = Applicant(k)
      BY <1>0, <1>5, <2>1, <2>2, Distinct DEF LockTwice, Runs, Waits, Applicant, TypeOK
    <3>2. state[k]' = state[k] /\ last[k]' = last[k] /\ \A x \in Applicant(k) \cup {k} : link[x]' = link[x]
      BY <1>0, <1>5, <1>a, <2>1, <2>2, Distinct DEF LockTwice, TypeOK
    <3>3. QED BY <1>0, <1>a, <3>1, <3>2, QueueKept
  <2>3. CASE k = l
    <3>1. Applicant(k)' = Applicant(k) \cup {t}
      BY <1>0, <1>5, <2>1, <2>3, Distinct DEF LockTwice, Runs, Waits, Applicant, TypeOK
    <3>2. /\ link' = [link EXCEPT ![k] = t, ![t] = link[k]] /\ state[k]' = "LOCKED"
          /\ last[k]' = IF link[k] = Null THEN t ELSE last[k]
      BY <1>0, <1>5, <2>1, <2>3 DEF LockTwice, TypeOK
    <3>3. Queue(Applicant(k), link, last[k], k)
      BY <1>a, <2>1, <2>3 DEF QueueOK
    <3>4. Queue(Applicant(k) \cup {t}, [link EXCEPT ![k] = t, ![t] = link[k]],
                IF link[k] = Null THEN t ELSE last[k], k)
      BY <1>a, <1>b, <2>1, <3>3, PrependQueue
    <3>5. QED BY <1>0, <3>1, <3>2, <3>4, QueueNow
  <2>4. QED BY <2>2, <2>3
<1>6. ASSUME NEW t \in Thread, Acquire(t) PROVE QueueOK(k)'
  <2>1. Applicant(k)' = Applicant(k) /\ t \notin Applicant(k)
    BY <1>0, <1>6 DEF Acquire, Runs, Waits, Applicant, TypeOK
  <2>2. state[k]' = state[k] /\ last[k]' = last[k] /\ \A x \in Applicant(k) \cup {k} : link[x]' = link[x]
    BY <1>0, <1>6, <2>1, Distinct DEF Acquire, TypeOK
  <2>3. QED BY <1>0, <1>a, <2>1, <2>2, QueueKept
<1>7. ASSUME NEW t \in Thread, GiveUp(t) PROVE QueueOK(k)'
  <2> DEFINE l == lk[t]
             A == Applicant(l)
  <2>1. l \in Lock /\ owner[l] # t /\ t \in A /\ A \in SUBSET Thread /\ state' = state
    BY <1>0, <1>7 DEF GiveUp, Runs, Waits, Applicant, PlaceOK
  <2>2. state[l] = "LOCKED" /\ Queue(A, link, last[l], l)
    BY <1>0, <2>1 DEF QueueOK, TypeOK
  <2>3. Listed(l) = A
    BY <2>1, <2>2, QueueListed
  <2>4. PICK p \in A \cup {l} : Unlinks(A, link, last[l], l, t, p)
    BY <1>b, <2>1, <2>2, RemoveQueue
  <2>5. /\ link' = [x \in Node |-> IF x = t THEN Null ELSE IF x \in {p} THEN link[t] ELSE link[x]]
        /\ last' = [last EXCEPT ![l] = IF {p} # {} /\ @ = t THEN CHOOSE x \in {p} : TRUE ELSE @]
    <3>1. DOMAIN link = Node
      BY <1>b
    <3>2. {x \in Listed(l) \cup {l} : link[x] = t} = {p}
      BY <2>3, <2>4 DEF Unlinks
    <3>3. QED BY <1>7, <3>1, <3>2 DEF GiveUp
  <2>6. last' = [last EXCEPT ![l] = IF @ = t THEN p ELSE @]
    <3>1. (CHOOSE x \in {p} : TRUE) = p
      OBVIOUS
    <3>2. QED BY <2>5, <3>1
  <2>7. CASE k # l
    <3>1. Applicant(k)' = Applicant(k) /\ t \notin Applicant(k)
      BY <1>0, <1>7, <2>1, <2>7, Distinct DEF GiveUp, Leave, Runs, Waits, Applicant, TypeOK
    <3>2. p \notin Applicant(k) \cup {k}
      BY <2>1, <2>4, <2>7, Distinct DEF Applicant
    <3>3. \A x \in Applicant(k) \cup {k} : link[x]' = link[x]
      BY <1>a, <2>5, <3>1, <3>2, Distinct DEF Node
    <3>4. last[k]' = last[k]
      BY <1>0, <2>6, <2>7 DEF TypeOK
    <3>5. QED BY <1>0, <1>a, <2>1, <3>1, <3>3, <3>4, QueueKept
  <2>8. CASE k = l
    <3>1. Applicant(k)' = A \ {t}
      BY <1>0, <1>7, <2>1, <2>8, Distinct DEF GiveUp, Leave, Runs, Waits, Applicant, TypeOK
    <3>2. \A x \in (A \cup {l}) \ {t} : link'[x] = IF x = p THEN link[t] ELSE link[x]
      BY <2>1, <2>5 DEF Node
    <3>3. last[k]' = IF last[l] = t THEN p ELSE last[l]
      BY <1>0, <2>1, <2>6, <2>8 DEF TypeOK
    <3>4. Queue(A \ {t}, link', IF last[l] = t THEN p ELSE last[l], l)
      BY <2>4, <3>2 DEF Unlinks
    <3>5. QED BY <1>0, <2>1, <2>2, <2>8, <3>1, <3>3, <3>4, QueueNow
  <2>9. QED BY <2>7, <2>8
<1>8. ASSUME UNCHANGED lockVars, UNCHANGED lk, \A u \in Thread : Waits(u)' = Waits(u)
      PROVE  QueueOK(k)'
  <2>1. Applicant(k)' = Applicant(k)
    BY <1>8 DEF Applicant, lockVars
  <2>2. state[k]' = state[k] /\ last[k]' = last[k] /\ \A x \in Applicant(k) \cup {k} : link[x]' = link[x]
    BY <1>8 DEF lockVars
  <2>3. QED BY <1>0, <1>a, <2>1, <2>2, QueueKept
<1>9. ASSUME NEW t \in Thread, Stop(t) \/ WakeUp(t) \/ SendRequest(t) \/ ReceiveReply(t)
      PROVE  UNCHANGED lockVars /\ UNCHANGED lk /\ \A u \in Thread : Waits(u)' = Waits(u)
  BY <1>0, <1>9 DEF Stop, WakeUp, SendRequest, ReceiveReply, Runs, Waits, TypeOK, PlaceOK
<1>10. ASSUME NEW t \in Thread,
              WakeUpPanics(t) \/ CancelBlocking(t) \/ PageFault(t) \/ FaultAgain(t)
       PROVE  UNCHANGED lockVars /\ UNCHANGED lk /\ \A u \in Thread : Waits(u)' = Waits(u)
  BY <1>10 DEF WakeUpPanics, CancelBlocking, PageFault, FaultAgain, Fault, threadVars, Waits
<1>11. ASSUME Page PROVE QueueOK(k)'
  <2>1. UNCHANGED lockVars /\ UNCHANGED lk /\ \A u \in Thread : Waits(u)' = Waits(u)
    BY <1>11 DEF Page, PagerReceive, PagerMap, PagerRestart, threadVars, Waits
  <2>2. QED BY <1>8, <2>1
<1>12. CASE UNCHANGED vars
  BY <1>8, <1>12 DEF vars, threadVars, Waits
<1>13. QED
  BY <1>1, <1>2, <1>3, <1>4, <1>5, <1>6, <1>7, <1>8, <1>9, <1>10, <1>11, <1>12 DEF Next

---------------------------------------------------------------------------
\* The two invariants hold initially.
LEMMA InitInv == Init => Inv /\ CalmInv
<1> SUFFICES ASSUME Init PROVE Inv /\ CalmInv
  OBVIOUS
<1> USE Distinct DEF Init
<1>1. TypeOK
  <2>1. cancels \in 0 .. MaxCancels /\ faults \in 0 .. MaxFaults
    BY LockAssumption
  <2>2. /\ cancelled \in [Thread -> BOOLEAN] /\ late \in [Thread -> BOOLEAN]
        /\ panic \in BOOLEAN /\ mapped \in BOOLEAN
    BY Zenon
  <2> QED
    BY <2>1, <2>2 DEF TypeOK
<1>2. PlaceOK /\ OwnerOK /\ DueOK
  BY DEF PlaceOK, OwnerOK, DueOK, Waits
<1>3. CalmInv
  BY DEF CalmInv, RunnerOK, ListOK, Applicant, WakerOK, PagerOK, NoPanic, Restarted, Waits
<1> QED
  BY <1>1, <1>2, <1>3 DEF Inv

\* Each step preserves the two invariants.
LEMMA StepInv == Inv /\ CalmInv /\ [Next]_vars => Inv' /\ CalmInv'
<1> SUFFICES ASSUME Inv, CalmInv, [Next]_vars PROVE Inv' /\ CalmInv'
  OBVIOUS
<1>1. Inv'
  BY TypeStep, PlaceStep, OwnerStep, DueStep DEF Inv
<1>2. ASSUME cancels' = 0 PROVE (RunnerOK /\ NoPanic)'
  BY <1>2, RunnerStep, PanicStep
<1>3. ASSUME cancels' = 0, NEW l \in Lock PROVE ListOK(l)'
  BY <1>3, ListStep
<1>4. ASSUME cancels' = 0, NEW u \in Thread PROVE WakerOK(u)' /\ PagerOK(u)'
  BY <1>4, WakerStep, PagerStep
<1>5. CalmInv'
  BY <1>2, <1>3, <1>4 DEF CalmInv
<1> QED
  BY <1>1, <1>5

\* The two invariants hold in every behaviour.
LEMMA AlwaysInv == Spec => [](Inv /\ CalmInv)
  BY InitInv, StepInv, PTL DEF Spec

\* In every behaviour, each list holds the applicants of its lock.
LEMMA AlwaysQueued == Spec => [](\A m \in Lock : QueueOK(m))
<1>1. Init => \A m \in Lock : QueueOK(m)
  BY DEF Init, QueueOK, Applicant, Waits
<1>2. Inv /\ (\A m \in Lock : QueueOK(m)) /\ [Next]_vars => (\A m \in Lock : QueueOK(m))'
  BY QueueStep
<1>3. Spec => []Inv
  BY AlwaysInv, PTL
<1> QED
  BY <1>1, <1>2, <1>3, PTL DEF Spec

\* All variables keep their types, for any numbers of threads, locks,
\* cancellations and page faults.
THEOREM LockTypeCorrect == Spec => []TypeOK
<1>1. Inv => TypeOK
  BY DEF Inv
<1> QED
  BY <1>1, AlwaysInv, PTL

\* No two threads are ever in the critical section of one lock, whatever core cancels
\* (Cancelable_lock::lock, unlock).
THEOREM MutualExclusionHolds == Spec => []MutualExclusion
<1>1. Inv => MutualExclusion
  BY Distinct DEF Inv, TypeOK, OwnerOK, PlaceOK, MutualExclusion, Owns, Waits
<1> QED
  BY <1>1, AlwaysInv, PTL

\* A thread that became the owner is due to be restarted or runs already, whenever it was
\* preempted on its way to thread_stop_myself (lock.cc), whatever core cancels and wherever
\* pages are missing, except between the release of the spinlock and thread_stop_myself: the
\* restart of the wake-up loop then ends the fault, and nobody restarts the thread once more.
THEOREM NoWakeUpLost == Spec => []NoLostWakeUp
<1>1. ASSUME TypeOK, PlaceOK, DueOK, NEW t \in Thread, Waits(t), owner[lk[t]] = t, ~late[t],
             ~(pc[t] = "check" /\ kstate[t] = "ACTIVE")
      PROVE  RestartDue(t)
  <2>1. CASE pc[t] = "stop"
    BY <1>1, <2>1 DEF DueOK, Woken, RestartDue
  <2>2. CASE pc[t] = "check"
    BY <1>1, <2>2 DEF TypeOK, PlaceOK, DueOK
  <2>3. QED BY <1>1, <2>1, <2>2 DEF Waits
<1>2. Inv => NoLostWakeUp
  BY <1>1 DEF Inv, NoLostWakeUp
<1> QED
  BY <1>2, AlwaysInv, PTL

\* As long as nothing is cancelled, restart_thread wakes threads in the lock() it was meant
\* for, page faults and restarts by the pager included: they find themselves owners, and the
\* assertion in Thread::_restart holds.
THEOREM WokenOnlyAsOwner == Spec => []WokenAsOwner
<1>1. CalmInv => WokenAsOwner
  BY DEF CalmInv, RunnerOK, Restarted, Runs, WokenAsOwner, CancelledByCore
<1> QED
  BY <1>1, AlwaysInv, PTL

\* The list of a lock holds exactly the threads that wait for it, in a chain of nodes that
\* starts in the lock and ends at _last_applicant, however applications, handovers and
\* cancellations interleave: no applicant is forgotten, and no link leads into the stack
\* frame of a lock() that has returned.
THEOREM ApplicantsAlwaysListed == Spec => []ApplicantsListed
<1>1. ASSUME TypeOK, \A m \in Lock : QueueOK(m), NEW l \in Lock, state[l] = "LOCKED"
      PROVE  /\ Listed(l) = {t \in Thread : Waits(t) /\ lk[t] = l /\ owner[l] # t}
             /\ last[l] \in Listed(l) \cup {l}
             /\ link[last[l]] = Null
  <2>1. Applicant(l) \in SUBSET Thread /\ Queue(Applicant(l), link, last[l], l)
    BY <1>1 DEF Applicant, QueueOK
  <2>2. Listed(l) = Applicant(l)
    BY <2>1, QueueListed
  <2>3. last[l] \in Applicant(l) \cup {l} /\ link[last[l]] = Null
    BY <2>1 DEF Queue, Chain
  <2>4. QED BY <2>2, <2>3 DEF Applicant
<1>2. Inv /\ (\A m \in Lock : QueueOK(m)) => ApplicantsListed
  BY <1>1 DEF Inv, ApplicantsListed
<1> QED
  BY <1>2, AlwaysInv, AlwaysQueued, PTL
=============================================================================
