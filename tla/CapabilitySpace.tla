-------------------------- MODULE CapabilitySpace ---------------------------
(***************************************************************************)
(* The life of capabilities: the kernel's Object_identity_reference        *)
(* (repos/base-hw/src/core/kernel/object.{h,cc}), its transfer by messages *)
(* (Ipc_node::copy_msg), the calls new_obj, delete_obj, ack_cap and        *)
(* delete_cap of thread.cc, and the reference counts that userland keeps   *)
(* (repos/base-hw/src/lib/base/capability.cc, ipc.cc).                     *)
(*                                                                         *)
(* A capability of a PD is named by an id, and the id of a deleted one is  *)
(* used again at once.  Userland deletes a capability when it destroys its *)
(* last Native_capability object.  At this time another thread may have    *)
(* received the same capability in its message buffer, the UTCB, without   *)
(* having looked at it; the kernel counts such receptions until they are   *)
(* acknowledged and refuses to delete.                                     *)
(*                                                                         *)
(* A message carries no or one capability; memory for RcvCaps references   *)
(* is allocated before, block by block.  Who calls whom and who waits for  *)
(* what is the matter of ThreadIpc: here a thread that runs sends to one   *)
(* that waits.  Core's capabilities live and die with the kernel object,   *)
(* it does not count references.                                           *)
(***************************************************************************)
EXTENDS Naturals, FiniteSets

CONSTANTS
  Pd,         \* protection domains, core included
  Core,       \* core_pd()
  Thread,     \* threads
  PdOf,       \* the PD of each thread
  Object,     \* kernel objects
  Identity,   \* memory for Object_identity objects
  Capid,      \* capability ids of a PD without the invalid one
  NoCap,      \* cap_id_invalid(), and an id that is not in use
  Null,       \* the null pointer
  MaxCopies,  \* bound: Native_capability objects of a thread per id
  RefMod,     \* number of values of a reference counter of userland (uint8_t)
  UtcbMod,    \* number of values of Object_identity_reference::_in_utcbs
  RcvCaps,    \* capabilities that a thread is ready to receive, _rcv_caps
  MaxFaults   \* bound: number of cancellations, kills and allocations that fail

Reference == [identity : Identity \cup {Null}, in_utcbs : 0 .. UtcbMod - 1]

\* Each thread has a UTCB for one capability: the count of a reference does not overflow
ASSUME CapabilityAssumption ==
  /\ Core \in Pd /\ PdOf \in [Thread -> Pd]
  /\ NoCap \notin Capid \cup Reference /\ Null \notin Identity \cup Object \cup Thread
  /\ IsFiniteSet(Thread) /\ UtcbMod \in Nat /\ Cardinality(Thread) < UtcbMod
  /\ MaxCopies \in Nat /\ RefMod \in Nat \ {0} /\ MaxFaults \in Nat
  /\ RcvCaps \in Nat \ {0}

VARIABLES
  alive,     \* objects that exist
  object,    \* _object of an identity
  capid,     \* core's id of an identity, NoCap if the identity does not exist
  cap,       \* cap_tree of each PD: references by id
  slab,      \* blocks in use of the slab that references of a PD are taken from
  counter,   \* ref_counter of each PD
  spinlock,  \* the thread that holds the spinlock of a PD's capability.cc
  own,       \* Native_capability objects of a thread, by id
  utcb,      \* id that a thread has received or is about to delete
  pc,        \* what a thread does
  faults,    \* number of cancellations, kills and allocations that failed so far
  lost       \* history: blocks of each PD's slab that no pointer leads to any more

kernelVars == <<alive, object, capid, cap, slab>>
userVars == <<counter, spinlock, own, utcb, pc>>
vars == <<kernelVars, userVars, faults, lost>>

\* Type invariant
TypeOK ==
  /\ alive \subseteq Object
  /\ object \in [Identity -> Object \cup {Null}]
  /\ capid \in [Identity -> Capid \cup {NoCap}]
  /\ cap \in [Pd -> [Capid -> Reference \cup {NoCap}]]
  /\ slab \in [Pd -> Nat]
  /\ counter \in [Pd -> [Capid -> 0 .. RefMod - 1]]
  /\ spinlock \in [Pd -> Thread \cup {Null}]
  /\ own \in [Thread -> [Capid -> 0 .. MaxCopies]]
  /\ utcb \in [Thread -> Capid \cup {NoCap}]
  /\ pc \in [Thread -> {"run", "wait", "import", "ack", "delete", "dead"}]
  /\ faults \in 0 .. MaxFaults
  /\ lost \in [Pd -> Nat]

Init ==
  /\ alive = Object
  /\ object = [i \in Identity |-> Null]
  /\ capid = [i \in Identity |-> NoCap]
  /\ cap = [p \in Pd |-> [c \in Capid |-> NoCap]]
  /\ slab = [p \in Pd |-> 0]
  /\ counter = [p \in Pd |-> [c \in Capid |-> 0]]
  /\ spinlock = [p \in Pd |-> Null]
  /\ own = [t \in Thread |-> [c \in Capid |-> 0]]
  /\ utcb = [t \in Thread |-> NoCap]
  /\ pc = [t \in Thread |-> "run"]
  /\ faults = 0
  /\ lost = [p \in Pd |-> 0]

Ids(p) == {c \in Capid : cap[p][c] # NoCap}
FreeIds(p) == Capid \ Ids(p)
Up(n) == IF n = UtcbMod - 1 THEN 0 ELSE n + 1
Down(n) == IF n = 0 THEN UtcbMod - 1 ELSE n - 1
Goto(t, where) == pc' = [pc EXCEPT ![t] = where]

---------------------------------------------------------------------------
(* Objects and identities *)

\* Object_identity::invalidate for the identities in I: their references designate nothing
Invalidated(C, I) ==
  [p \in Pd |-> [c \in Capid |->
     IF C[p][c] # NoCap /\ C[p][c].identity \in I THEN [C[p][c] EXCEPT !.identity = Null]
     ELSE C[p][c]]]

\* _call_new_obj by core: Core_object_identity with core's reference to it
NewObj(t, i, o, c) ==
  /\ PdOf[t] = Core /\ pc[t] = "run"
  /\ o \in alive /\ capid[i] = NoCap
  /\ c \in FreeIds(Core)
  /\ object' = [object EXCEPT ![i] = o]
  /\ capid' = [capid EXCEPT ![i] = c]
  /\ cap' = [cap EXCEPT ![Core][c] = [identity |-> i, in_utcbs |-> 0]]
  /\ UNCHANGED <<alive, slab, userVars, faults, lost>>

\* Mutant: references in other PDs still refer to the destroyed identity
DeleteObjDangling(t, i) ==
  /\ PdOf[t] = Core /\ pc[t] = "run"
  /\ capid[i] # NoCap
  /\ cap' = [cap EXCEPT ![Core][capid[i]] = NoCap]
  /\ object' = [object EXCEPT ![i] = Null]
  /\ capid' = [capid EXCEPT ![i] = NoCap]
  /\ UNCHANGED <<alive, slab, userVars, faults, lost>>

\* _call_delete_obj by core: its reference is destroyed, then the identity is
DeleteObj(t, i) ==
  /\ PdOf[t] = Core /\ pc[t] = "run"
  /\ capid[i] # NoCap
  /\ cap' = Invalidated([cap EXCEPT ![Core][capid[i]] = NoCap], {i})
  /\ object' = [object EXCEPT ![i] = Null]
  /\ capid' = [capid EXCEPT ![i] = NoCap]
  /\ UNCHANGED <<alive, slab, userVars, faults, lost>>

\* ~Object: all its identities become invalid but continue to exist
DestroyObject(t, o) ==
  /\ PdOf[t] = Core /\ pc[t] = "run"
  /\ o \in alive
  /\ alive' = alive \ {o}
  /\ cap' = Invalidated(cap, {i \in Identity : object[i] = o})
  /\ object' = [i \in Identity |-> IF object[i] = o THEN Null ELSE object[i]]
  /\ UNCHANGED <<capid, slab, userVars, faults, lost>>

---------------------------------------------------------------------------
(* Messages *)

\* A thread may call send_request or await_request
Receptive(t) == pc[t] = "run" /\ \A c \in Capid : own[t][c] < MaxCopies

\* A thread waits for a message, with memory for references (send_request, await_request)
Wait(t) ==
  /\ Receptive(t)
  /\ slab' = [slab EXCEPT ![PdOf[t]] = @ + RcvCaps]
  /\ Goto(t, "wait")
  /\ UNCHANGED <<alive, object, capid, cap, counter, spinlock, own, utcb, faults, lost>>

\* The slab is exhausted after n blocks, which stay allocated.  The call returns -2, userland
\* donates memory to the slab and calls again, which allocates from the first block on.
WaitFails(t, n) ==
  /\ faults < MaxFaults /\ Receptive(t)
  /\ faults' = faults + 1
  /\ slab' = [slab EXCEPT ![PdOf[t]] = @ + n]
  /\ lost' = [lost EXCEPT ![PdOf[t]] = @ + n]
  /\ UNCHANGED <<alive, object, capid, cap, userVars>>

\* The ids of PD p that designate identity i (Object_identity_reference::find(Pd *))
Find(p, i) == {c \in Ids(p) : i # Null /\ cap[p][c].identity = i}

\* Receiver u gets capability c, and the memory for references is free again unless used
Deliver(u, c, used) ==
  /\ slab' = [slab EXCEPT ![PdOf[u]] = @ - (IF used THEN RcvCaps - 1 ELSE RcvCaps)]
  /\ utcb' = [utcb EXCEPT ![u] = c]
  /\ Goto(u, "import")
  /\ UNCHANGED <<alive, object, capid, counter, spinlock, own, faults, lost>>

\* copy_msg if the PD of the receiver has a reference to the identity
CopyKnown(u, i) ==
  \E c \in Find(PdOf[u], i) :
    /\ cap' = [cap EXCEPT ![PdOf[u]][c].in_utcbs = Up(@)]
    /\ Deliver(u, c, FALSE)

\* Mutant: a new reference is not counted as being in a UTCB
CopyNewUncounted(u, i) ==
  /\ i # Null /\ Find(PdOf[u], i) = {} /\ PdOf[u] # Core
  /\ \E c \in FreeIds(PdOf[u]) :
       /\ cap' = [cap EXCEPT ![PdOf[u]][c] = [identity |-> i, in_utcbs |-> 0]]
       /\ Deliver(u, c, TRUE)

\* copy_msg if it has none and gets one; Bit_allocator::alloc finds an unused id
CopyNew(u, i) ==
  /\ i # Null /\ Find(PdOf[u], i) = {} /\ PdOf[u] # Core
  /\ \E c \in FreeIds(PdOf[u]) :
       /\ cap' = [cap EXCEPT ![PdOf[u]][c] = [identity |-> i, in_utcbs |-> 1]]
       /\ Deliver(u, c, TRUE)

\* copy_msg of a capability that has become invalid, or that core does not know
CopyInvalid(u, i) ==
  /\ i = Null \/ (PdOf[u] = Core /\ Find(Core, i) = {})
  /\ UNCHANGED cap
  /\ Deliver(u, NoCap, FALSE)

\* Userland sends what it has, or an id that its PD does not know, or no capability at all
Holds(t, c) == c \in Ids(PdOf[t]) /\ (PdOf[t] = Core \/ own[t][c] > 0)

\* What the message of thread t designates to the kernel
Designated(t, c) == IF c \in Ids(PdOf[t]) THEN cap[PdOf[t]][c].identity ELSE Null

\* A thread sends a message to a thread that waits
Send(t, u, c) ==
  /\ pc[t] = "run" /\ pc[u] = "wait" /\ (c \in Ids(PdOf[t]) => Holds(t, c))
  /\ LET i == Designated(t, c) IN CopyKnown(u, i) \/ CopyNew(u, i) \/ CopyInvalid(u, i)

\* Of a thread that waits no more, the memory for references is lost
Unreceived(t) ==
  lost' = IF pc[t] = "wait" THEN [lost EXCEPT ![PdOf[t]] = @ + RcvCaps] ELSE lost

\* cancel_waiting does not free the memory for references, and the next call allocates anew
Cancel(t) ==
  /\ faults < MaxFaults /\ pc[t] = "wait"
  /\ faults' = faults + 1
  /\ Unreceived(t)
  /\ Goto(t, "run")
  /\ UNCHANGED <<kernelVars, counter, spinlock, own, utcb>>

\* A thread is destroyed, perhaps with a capability in its UTCB
Kill(t) ==
  /\ faults < MaxFaults /\ pc[t] \in {"wait", "import", "ack"}
  /\ faults' = faults + 1
  /\ Unreceived(t)
  /\ Goto(t, "dead")
  /\ UNCHANGED <<kernelVars, counter, spinlock, own, utcb>>

---------------------------------------------------------------------------
(* Native_capability in userland, which shares a spinlock per PD, and ack_cap, delete_cap *)

Unlocked(t) == spinlock[PdOf[t]] = Null

Count(t, c, n) == counter' = [counter EXCEPT ![PdOf[t]][c] = (@ + n) % RefMod]

\* copy_utcb_to_msg: an invalid capability needs no acknowledgement ...
ImportInvalid(t) ==
  /\ pc[t] = "import" /\ utcb[t] = NoCap
  /\ Goto(t, "run")
  /\ UNCHANGED <<kernelVars, counter, spinlock, own, utcb, faults, lost>>

\* ... a valid one is counted first (core does not count)
Import(t) ==
  /\ pc[t] = "import" /\ utcb[t] # NoCap
  /\ IF PdOf[t] = Core THEN UNCHANGED <<counter, own>>
     ELSE /\ Unlocked(t)
          /\ Count(t, utcb[t], 1)
          /\ own' = [own EXCEPT ![t][utcb[t]] = @ + 1]
  /\ Goto(t, "ack")
  /\ UNCHANGED <<kernelVars, spinlock, utcb, faults, lost>>

\* _call_ack_cap
AckCap(t) ==
  /\ pc[t] = "ack"
  /\ cap' = IF utcb[t] \notin Ids(PdOf[t]) THEN cap
            ELSE [cap EXCEPT ![PdOf[t]][utcb[t]].in_utcbs = Down(@)]
  /\ utcb' = [utcb EXCEPT ![t] = NoCap]
  /\ Goto(t, "run")
  /\ UNCHANGED <<alive, object, capid, slab, counter, spinlock, own, faults, lost>>

\* Native_capability::_inc by a copy
Copy(t, c) ==
  /\ pc[t] = "run" /\ own[t][c] \in 1 .. MaxCopies - 1 /\ Unlocked(t)
  /\ Count(t, c, 1) /\ own' = [own EXCEPT ![t][c] = @ + 1]
  /\ UNCHANGED <<kernelVars, spinlock, utcb, pc, faults, lost>>

\* Native_capability::_dec, up to the call of the kernel
Drop(t, c) ==
  /\ pc[t] = "run" /\ own[t][c] > 0 /\ Unlocked(t)
  /\ Count(t, c, RefMod - 1)
  /\ own' = [own EXCEPT ![t][c] = @ - 1]
  /\ IF counter'[PdOf[t]][c] = 0
     THEN /\ spinlock' = [spinlock EXCEPT ![PdOf[t]] = t]
          /\ utcb' = [utcb EXCEPT ![t] = c]
          /\ Goto(t, "delete")
     ELSE UNCHANGED <<spinlock, utcb, pc>>
  /\ UNCHANGED <<kernelVars, faults, lost>>

\* Mutant: capabilities in UTCBs are deleted as well
DeleteCapAlways(t) ==
  /\ pc[t] = "delete"
  /\ LET p == PdOf[t]
         c == utcb[t]
         gone == c \in Ids(p)
     IN  /\ cap' = IF gone THEN [cap EXCEPT ![p][c] = NoCap] ELSE cap
         /\ slab' = IF gone THEN [slab EXCEPT ![p] = @ - 1] ELSE slab
         /\ spinlock' = [spinlock EXCEPT ![p] = Null]
  /\ utcb' = [utcb EXCEPT ![t] = NoCap]
  /\ Goto(t, "run")
  /\ UNCHANGED <<alive, object, capid, counter, own, faults, lost>>

\* Mutant: the memory of the reference is not given back
DeleteCapKeepsBlock(t) ==
  /\ pc[t] = "delete"
  /\ LET p == PdOf[t]
         c == utcb[t]
         gone == c \in Ids(p) /\ cap[p][c].in_utcbs = 0
     IN  /\ cap' = IF gone THEN [cap EXCEPT ![p][c] = NoCap] ELSE cap
         /\ spinlock' = [spinlock EXCEPT ![p] = Null]
  /\ utcb' = [utcb EXCEPT ![t] = NoCap]
  /\ Goto(t, "run")
  /\ UNCHANGED <<slab, alive, object, capid, counter, own, faults, lost>>

\* _call_delete_cap, and the release of the spinlock
DeleteCap(t) ==
  /\ pc[t] = "delete"
  /\ LET p == PdOf[t]
         c == utcb[t]
         gone == c \in Ids(p) /\ cap[p][c].in_utcbs = 0
     IN  /\ cap' = IF gone THEN [cap EXCEPT ![p][c] = NoCap] ELSE cap
         /\ slab' = IF gone THEN [slab EXCEPT ![p] = @ - 1] ELSE slab
         /\ spinlock' = [spinlock EXCEPT ![p] = Null]
  /\ utcb' = [utcb EXCEPT ![t] = NoCap]
  /\ Goto(t, "run")
  /\ UNCHANGED <<alive, object, capid, counter, own, faults, lost>>

---------------------------------------------------------------------------
Next ==
  \E t \in Thread :
    \/ \E i \in Identity, o \in Object, c \in Capid : NewObj(t, i, o, c)
    \/ \E i \in Identity : DeleteObj(t, i)
    \/ \E o \in Object : DestroyObject(t, o)
    \/ Wait(t) \/ Cancel(t) \/ Kill(t)
    \/ \E n \in 0 .. RcvCaps - 1 : WaitFails(t, n)
    \/ \E u \in Thread \ {t}, c \in Capid \cup {NoCap} : Send(t, u, c)
    \/ ImportInvalid(t) \/ Import(t) \/ AckCap(t)
    \/ \E c \in Capid : Copy(t, c) \/ Drop(t, c)
    \/ DeleteCap(t)

Spec == Init /\ [][Next]_vars

---------------------------------------------------------------------------
(* Properties *)

\* Thread t has received capability c and not acknowledged it
InUtcb(t, c) == pc[t] \in {"import", "ack", "dead"} /\ utcb[t] = c

\* A capability that a thread has, or finds in its UTCB, is not deleted, nor does its id come
\* to designate something else; at most it becomes invalid with its object (delete_cap,
\* ack_cap, ref_counter against reception by another thread of the PD).
HeldNotDeleted ==
  [][\A t \in Thread, c \in Capid :
       LET r == cap[PdOf[t]][c] IN
       /\ PdOf[t] # Core /\ r # NoCap
       /\ own[t][c] > 0 \/ InUtcb(t, c)
       /\ own'[t][c] > 0 \/ InUtcb(t, c)'
       => cap'[PdOf[t]][c] # NoCap /\ cap'[PdOf[t]][c].identity \in {r.identity, Null}
    ]_vars

\* The threads of PD p that do
Receivers(p, c) == {t \in Thread : PdOf[t] = p /\ InUtcb(t, c)}

\* A capability that a thread finds in its UTCB exists, and the count of the UTCBs that it is
\* in is exact, whatever userland deletes meanwhile (copy_msg, ack_cap, delete_cap).
UtcbsCounted ==
  \A p \in Pd \ {Core}, c \in Capid :
    IF c \in Ids(p) THEN cap[p][c].in_utcbs = Cardinality(Receivers(p, c))
    ELSE Receivers(p, c) = {}

\* Each reference of a component belongs to a thread that has the capability, or has it in the
\* UTCB, or is about to delete it, if only to one that was destroyed; and the slab has a block in
\* use for each reference, RcvCaps blocks for each waiting thread and those that cancellations,
\* kills and failed allocations have left behind, no more and no less (delete_cap while in a
\* UTCB; pre-allocation in ipc_node.cc).
NothingLeaks ==
  \A p \in Pd :
    /\ \A c \in Ids(p) : p # Core =>
         \E t \in Thread : PdOf[t] = p /\ (own[t][c] > 0 \/ utcb[t] = c)
    /\ slab[p] = RcvCaps * Cardinality({t \in Thread : PdOf[t] = p /\ pc[t] = "wait"})
                 + (IF p = Core THEN 0 ELSE Cardinality(Ids(p))) + lost[p]

\* A PD has at most one id for an identity, so that ids can be compared, and no id that
\* designates an identity which does not exist (copy_msg, Object_identity::invalidate).
OneNamePerIdentity ==
  \A p \in Pd, i \in Identity :
    /\ \A c, d \in Find(p, i) : c = d
    /\ object[i] = Null => Find(p, i) = {}
=============================================================================
