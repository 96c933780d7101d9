------------------------ MODULE CapabilitySpaceProofs -----------------------
(***************************************************************************)
(* Proofs about CapabilitySpace, for any number of PDs, threads, objects   *)
(* and ids: the kernel's counts and names whatever userland does, the      *)
(* slabs whatever is cancelled, killed or fails, and that what is held     *)
(* stays and what nobody holds goes, if the counters of userland do not    *)
(* wrap.                                                                   *)
(***************************************************************************)
EXTENDS CapabilitySpace, FiniteSetTheorems, TLAPS

\* The types of what the kernel decides by
CapTypes ==
  /\ object \in [Identity -> Object \cup {Null}]
  /\ capid \in [Identity -> Capid \cup {NoCap}]
  /\ cap \in [Pd -> [Capid -> Reference \cup {NoCap}]]
  /\ utcb \in [Thread -> Capid \cup {NoCap}]
  /\ pc \in [Thread -> {"run", "wait", "import", "ack", "delete", "dead"}]

\* A thread that runs or waits has no reception to acknowledge
UtcbIdle == \A t \in Thread : pc[t] \in {"run", "wait"} => utcb[t] = NoCap

\* An identity that does not exist has no object
IdentityOK == \A i \in Identity : capid[i] = NoCap => object[i] = Null

\* Inductive invariant for the counts
CountInv == CapTypes /\ UtcbIdle /\ UtcbsCounted

\* Inductive invariant for the names
NameInv == CapTypes /\ IdentityOK /\ OneNamePerIdentity

---------------------------------------------------------------------------
\* The operations on references.
LEMMA References ==
  /\ UtcbMod \in Nat \ {0} /\ (Thread # {} => UtcbMod >= 2)
  /\ \A i \in Identity \cup {Null} : [identity |-> i, in_utcbs |-> 0] \in Reference
  /\ Thread # {} =>
       \A i \in Identity \cup {Null} : [identity |-> i, in_utcbs |-> 1] \in Reference
  /\ \A r \in Reference :
       /\ [r EXCEPT !.identity = Null] \in Reference
       /\ [r EXCEPT !.in_utcbs = Up(@)] \in Reference
       /\ [r EXCEPT !.in_utcbs = Down(@)] \in Reference
  /\ NoCap \notin Reference
<1>1. Cardinality(Thread) \in Nat /\ (Thread # {} => Cardinality(Thread) # 0)
  BY CapabilityAssumption, FS_CardinalityType, FS_EmptySet
<1>2. UtcbMod \in Nat \ {0} /\ (Thread # {} => UtcbMod >= 2)
  BY <1>1, CapabilityAssumption
<1> QED
  BY <1>2, CapabilityAssumption DEF Reference, Up, Down

\* Invalidation changes nothing but the identities that references designate.
LEMMA InvalidatedRefs ==
  ASSUME NEW C \in [Pd -> [Capid -> Reference \cup {NoCap}]], NEW I
  PROVE  /\ Invalidated(C, I) \in [Pd -> [Capid -> Reference \cup {NoCap}]]
         /\ \A p \in Pd, c \in Capid :
              /\ Invalidated(C, I)[p][c] = NoCap <=> C[p][c] = NoCap
              /\ C[p][c] # NoCap =>
                   /\ Invalidated(C, I)[p][c].in_utcbs = C[p][c].in_utcbs
                   /\ Invalidated(C, I)[p][c].identity =
                        IF C[p][c].identity \in I THEN Null ELSE C[p][c].identity
<1>1. \A p \in Pd, c \in Capid : C[p][c] \in Reference \cup {NoCap}
  OBVIOUS
<1>2. \A p \in Pd, c \in Capid : Invalidated(C, I)[p][c] =
        IF C[p][c] # NoCap /\ C[p][c].identity \in I THEN [C[p][c] EXCEPT !.identity = Null]
        ELSE C[p][c]
  BY DEF Invalidated
<1>3. \A r \in Reference :
        /\ [r EXCEPT !.identity = Null].in_utcbs = r.in_utcbs
        /\ [r EXCEPT !.identity = Null].identity = Null
  BY DEF Reference
<1>4. Invalidated(C, I) \in [Pd -> [Capid -> Reference \cup {NoCap}]]
  BY <1>1, References DEF Invalidated
<1>5. ASSUME NEW p \in Pd, NEW c \in Capid
      PROVE  /\ Invalidated(C, I)[p][c] = NoCap <=> C[p][c] = NoCap
             /\ C[p][c] # NoCap =>
                  /\ Invalidated(C, I)[p][c].in_utcbs = C[p][c].in_utcbs
                  /\ Invalidated(C, I)[p][c].identity =
                       IF C[p][c].identity \in I THEN Null ELSE C[p][c].identity
  <2>1. CASE C[p][c] # NoCap /\ C[p][c].identity \in I
    <3>1. PICK r \in Reference : r = C[p][c]
      BY <1>1, <2>1
    <3>2. Invalidated(C, I)[p][c] = [r EXCEPT !.identity = Null]
      BY <1>2, <2>1, <3>1
    <3>3. [r EXCEPT !.identity = Null] # NoCap
      BY References
    <3> QED
      BY <1>3, <2>1, <3>1, <3>2, <3>3
  <2>2. CASE ~(C[p][c] # NoCap /\ C[p][c].identity \in I)
    BY <1>2, <2>2
  <2> QED
    BY <2>1, <2>2
<1> QED
  BY <1>4, <1>5

\* Replacing one reference of one PD.
LEMMA Replaced ==
  ASSUME NEW C \in [Pd -> [Capid -> Reference \cup {NoCap}]], NEW q \in Pd, NEW d \in Capid,
         NEW r \in Reference \cup {NoCap}
  PROVE  [C EXCEPT ![q][d] = r] \in [Pd -> [Capid -> Reference \cup {NoCap}]]
  OBVIOUS

\* A thread that sends a message designates an identity or nothing with it.
LEMMA SentIdentity ==
  ASSUME CapTypes, NEW t \in Thread, NEW c
  PROVE  Designated(t, c) \in Identity \cup {Null}
  BY CapabilityAssumption DEF CapTypes, Designated, Ids, Reference

\* Steps preserve the types.
LEMMA TypesStep == CapTypes /\ [Next]_vars => CapTypes'
<1> SUFFICES ASSUME CapTypes, [Next]_vars PROVE CapTypes'
  OBVIOUS
<1> USE CapabilityAssumption DEF CapTypes
<1>1. ASSUME NEW t \in Thread, NEW i \in Identity, NEW o \in Object, NEW c \in Capid, NewObj(t, i, o, c) PROVE CapTypes'
  BY <1>1, References DEF NewObj, userVars
<1>2. ASSUME NEW t \in Thread, NEW i \in Identity, DeleteObj(t, i) PROVE CapTypes'
  <2>1. [cap EXCEPT ![Core][capid[i]] = NoCap] \in [Pd -> [Capid -> Reference \cup {NoCap}]]
    BY <1>2 DEF DeleteObj
  <2> QED
    BY <1>2, <2>1, InvalidatedRefs DEF DeleteObj, userVars
<1>3. ASSUME NEW t \in Thread, NEW o \in Object, DestroyObject(t, o) PROVE CapTypes'
  BY <1>3, InvalidatedRefs DEF DestroyObject, userVars
<1>4. ASSUME NEW t \in Thread, Wait(t) PROVE CapTypes'
  BY <1>4 DEF Wait, Receptive, Goto
<1>5. ASSUME NEW t \in Thread, Cancel(t) PROVE CapTypes'
  BY <1>5 DEF Cancel, Goto, kernelVars
<1>6. ASSUME NEW t \in Thread, Kill(t) PROVE CapTypes'
  BY <1>6 DEF Kill, Goto, kernelVars
<1>7. ASSUME NEW u \in Thread, NEW i \in Identity \cup {Null}, pc[u] = "wait", CopyKnown(u, i) PROVE CapTypes'
  <2>1. PICK c \in Find(PdOf[u], i) :
          cap' = [cap EXCEPT ![PdOf[u]][c].in_utcbs = Up(@)] /\ Deliver(u, c, FALSE)
    BY <1>7 DEF CopyKnown
  <2>2. c \in Capid /\ cap[PdOf[u]][c] \in Reference
    BY DEF Find, Ids
  <2> QED
    BY <2>1, <2>2, References DEF Deliver, Goto
<1>8. ASSUME NEW u \in Thread, NEW i \in Identity \cup {Null}, pc[u] = "wait", CopyNew(u, i) PROVE CapTypes'
  <2>1. PICK c \in FreeIds(PdOf[u]) :
          /\ cap' = [cap EXCEPT ![PdOf[u]][c] = [identity |-> i, in_utcbs |-> 1]]
          /\ Deliver(u, c, TRUE)
    BY <1>8 DEF CopyNew
  <2>2. cap' \in [Pd -> [Capid -> Reference \cup {NoCap}]]
    BY <2>1, References, Replaced DEF FreeIds
  <2> QED
    BY <2>1, <2>2 DEF Deliver, Goto, FreeIds
<1>9. ASSUME NEW u \in Thread, NEW i \in Identity \cup {Null}, pc[u] = "wait", CopyInvalid(u, i) PROVE CapTypes'
  BY <1>9 DEF CopyInvalid, Deliver, Goto
<1>10. ASSUME NEW t \in Thread, ImportInvalid(t) PROVE CapTypes'
  BY <1>10 DEF ImportInvalid, Goto, kernelVars
<1>11. ASSUME NEW t \in Thread, Import(t) PROVE CapTypes'
  BY <1>11 DEF Import, Goto, kernelVars
<1>12. ASSUME NEW t \in Thread, AckCap(t) PROVE CapTypes'
  <2>1. utcb[t] \in Ids(PdOf[t]) => cap[PdOf[t]][utcb[t]] \in Reference
    BY DEF Ids
  <2> QED
    BY <1>12, <2>1, References DEF AckCap, Goto, Ids
<1>13. ASSUME NEW t \in Thread, NEW c \in Capid, Copy(t, c) PROVE CapTypes'
  BY <1>13 DEF Copy, kernelVars
<1>14. ASSUME NEW t \in Thread, NEW c \in Capid, Drop(t, c) PROVE CapTypes'
  <2>1. object' = object /\ capid' = capid /\ cap' = cap
    BY <1>14 DEF Drop, kernelVars
  <2>2. \/ utcb' = [utcb EXCEPT ![t] = c] /\ pc' = [pc EXCEPT ![t] = "delete"]
        \/ utcb' = utcb /\ pc' = pc
    BY <1>14 DEF Drop, Goto
  <2>3. CASE utcb' = utcb /\ pc' = pc
    BY <2>1, <2>3
  <2>4. CASE utcb' = [utcb EXCEPT ![t] = c] /\ pc' = [pc EXCEPT ![t] = "delete"]
    BY <2>1, <2>4
  <2>5. QED BY <2>2, <2>3, <2>4
<1>15. ASSUME NEW t \in Thread, DeleteCap(t) PROVE CapTypes'
  BY <1>15 DEF DeleteCap, Goto
<1>16. ASSUME NEW t \in Thread, NEW u \in Thread \ {t}, NEW c \in Capid \cup {NoCap}, Send(t, u, c) PROVE CapTypes'
  BY <1>16, <1>7, <1>8, <1>9, SentIdentity DEF Send
<1>17. CASE UNCHANGED vars
  BY <1>17 DEF vars, kernelVars, userVars
<1>w. ASSUME NEW t \in Thread, NEW n \in 0 .. RcvCaps - 1, WaitFails(t, n) PROVE CapTypes'
  BY <1>w DEF WaitFails, userVars
<1> QED
  BY <1>1, <1>2, <1>3, <1>4, <1>5, <1>6, <1>7, <1>8, <1>9, <1>10, <1>11, <1>12, <1>13, <1>14, <1>15, <1>16, <1>17, <1>w DEF Next

\* Acknowledged receptions leave the UTCB.
LEMMA IdleStep == CapTypes /\ UtcbIdle /\ [Next]_vars => UtcbIdle'
<1> SUFFICES ASSUME CapTypes /\ UtcbIdle, [Next]_vars PROVE UtcbIdle'
  OBVIOUS
<1> USE CapabilityAssumption DEF CapTypes, UtcbIdle
<1>1. ASSUME NEW t \in Thread, NEW i \in Identity, NEW o \in Object, NEW c \in Capid, NewObj(t, i, o, c) PROVE UtcbIdle'
  BY <1>1 DEF NewObj, userVars
<1>2. ASSUME NEW t \in Thread, NEW i \in Identity, DeleteObj(t, i) PROVE UtcbIdle'
  BY <1>2 DEF DeleteObj, userVars
<1>3. ASSUME NEW t \in Thread, NEW o \in Object, DestroyObject(t, o) PROVE UtcbIdle'
  BY <1>3 DEF DestroyObject, userVars
<1>4. ASSUME NEW t \in Thread, Wait(t) PROVE UtcbIdle'
  BY <1>4 DEF Wait, Receptive, Goto
<1>5. ASSUME NEW t \in Thread, Cancel(t) PROVE UtcbIdle'
  BY <1>5 DEF Cancel, Goto, kernelVars
<1>6. ASSUME NEW t \in Thread, Kill(t) PROVE UtcbIdle'
  BY <1>6 DEF Kill, Goto, kernelVars
<1>7. ASSUME NEW u \in Thread, NEW i \in Identity \cup {Null}, pc[u] = "wait", CopyKnown(u, i) PROVE UtcbIdle'
  BY <1>7 DEF CopyKnown, Deliver, Goto
<1>8. ASSUME NEW u \in Thread, NEW i \in Identity \cup {Null}, pc[u] = "wait", CopyNew(u, i) PROVE UtcbIdle'
  BY <1>8 DEF CopyNew, Deliver, Goto
<1>9. ASSUME NEW u \in Thread, NEW i \in Identity \cup {Null}, pc[u] = "wait", CopyInvalid(u, i) PROVE UtcbIdle'
  BY <1>9 DEF CopyInvalid, Deliver, Goto
<1>10. ASSUME NEW t \in Thread, ImportInvalid(t) PROVE UtcbIdle'
  BY <1>10 DEF ImportInvalid, Goto, kernelVars
<1>11. ASSUME NEW t \in Thread, Import(t) PROVE UtcbIdle'
  BY <1>11 DEF Import, Goto, kernelVars
<1>12. ASSUME NEW t \in Thread, AckCap(t) PROVE UtcbIdle'
  BY <1>12 DEF AckCap, Goto
<1>13. ASSUME NEW t \in Thread, NEW c \in Capid, Copy(t, c) PROVE UtcbIdle'
  BY <1>13 DEF Copy, kernelVars
<1>14. ASSUME NEW t \in Thread, NEW c \in Capid, Drop(t, c) PROVE UtcbIdle'
  BY <1>14 DEF Drop, Goto, kernelVars
<1>15. ASSUME NEW t \in Thread, DeleteCap(t) PROVE UtcbIdle'
  BY <1>15 DEF DeleteCap, Goto
<1>16. ASSUME NEW t \in Thread, NEW u \in Thread \ {t}, NEW c \in Capid \cup {NoCap}, Send(t, u, c) PROVE UtcbIdle'
  BY <1>16, <1>7, <1>8, <1>9, SentIdentity DEF Send
<1>17. CASE UNCHANGED vars
  BY <1>17 DEF vars, kernelVars, userVars
<1>w. ASSUME NEW t \in Thread, NEW n \in 0 .. RcvCaps - 1, WaitFails(t, n) PROVE UtcbIdle'
  BY <1>w DEF WaitFails, userVars
<1> QED
  BY <1>1, <1>2, <1>3, <1>4, <1>5, <1>6, <1>7, <1>8, <1>9, <1>10, <1>11, <1>12, <1>13, <1>14, <1>15, <1>16, <1>17, <1>w DEF Next

---------------------------------------------------------------------------
(* Names *)

\* References may only vanish or become invalid
Kept ==
  \A p \in Pd, c \in Capid : cap'[p][c] # NoCap =>
    cap[p][c] # NoCap /\ cap'[p][c].identity \in {cap[p][c].identity, Null}

\* Then names stay unique if identities lose their references before their objects.
LEMMA NamesKept ==
  ASSUME OneNamePerIdentity, Kept,
         \A i \in Identity : object'[i] = Null =>
           \/ object[i] = Null
           \/ \A p \in Pd, c \in Capid : cap'[p][c] # NoCap => cap'[p][c].identity # i
  PROVE  OneNamePerIdentity'
<1> SUFFICES ASSUME NEW p \in Pd, NEW i \in Identity
             PROVE  /\ \A c, d \in Find(p, i)' : c = d
                    /\ object'[i] = Null => Find(p, i)' = {}
  BY DEF OneNamePerIdentity
<1>1. Find(p, i)' = {c \in Capid : cap'[p][c] # NoCap /\ i # Null /\ cap'[p][c].identity = i}
  BY DEF Find, Ids
<1>2. Find(p, i)' \subseteq Find(p, i)
  BY <1>1 DEF Kept, Find, Ids
<1> QED
  BY <1>1, <1>2 DEF OneNamePerIdentity

\* Identities that do not exist have no object.
LEMMA IdentityStep == CapTypes /\ IdentityOK /\ [Next]_vars => IdentityOK'
<1> SUFFICES ASSUME CapTypes /\ IdentityOK, [Next]_vars PROVE IdentityOK'
  OBVIOUS
<1> USE CapabilityAssumption DEF CapTypes, IdentityOK
<1>1. ASSUME NEW t \in Thread, NEW i \in Identity, NEW o \in Object, NEW c \in Capid, NewObj(t, i, o, c)
      PROVE  IdentityOK'
  BY <1>1 DEF NewObj, userVars
<1>2. ASSUME NEW t \in Thread, NEW i \in Identity, DeleteObj(t, i)
      PROVE  IdentityOK'
  BY <1>2 DEF DeleteObj, userVars
<1>3. ASSUME NEW t \in Thread, NEW o \in Object, DestroyObject(t, o)
      PROVE  IdentityOK'
  BY <1>3 DEF DestroyObject, userVars
<1>4. ASSUME NEW t \in Thread, Wait(t)
      PROVE  IdentityOK'
  BY <1>4 DEF Wait, Receptive, Goto
<1>5. ASSUME NEW t \in Thread, Cancel(t)
      PROVE  IdentityOK'
  BY <1>5 DEF Cancel, Goto, kernelVars
<1>6. ASSUME NEW t \in Thread, Kill(t)
      PROVE  IdentityOK'
  BY <1>6 DEF Kill, Goto, kernelVars
<1>7. ASSUME NEW u \in Thread, NEW i \in Identity \cup {Null}, pc[u] = "wait", CopyKnown(u, i)
      PROVE  IdentityOK'
  BY <1>7 DEF CopyKnown, Deliver, Goto
<1>8. ASSUME NEW u \in Thread, NEW i \in Identity \cup {Null}, pc[u] = "wait", CopyNew(u, i)
      PROVE  IdentityOK'
  BY <1>8 DEF CopyNew, Deliver, Goto
<1>9. ASSUME NEW u \in Thread, NEW i \in Identity \cup {Null}, pc[u] = "wait", CopyInvalid(u, i)
      PROVE  IdentityOK'
  BY <1>9 DEF CopyInvalid, Deliver, Goto
<1>10. ASSUME NEW t \in Thread, ImportInvalid(t)
      PROVE  IdentityOK'
  BY <1>10 DEF ImportInvalid, Goto, kernelVars
<1>11. ASSUME NEW t \in Thread, Import(t)
      PROVE  IdentityOK'
  BY <1>11 DEF Import, Goto, kernelVars
<1>12. ASSUME NEW t \in Thread, AckCap(t)
      PROVE  IdentityOK'
  BY <1>12 DEF AckCap, Goto
<1>13. ASSUME NEW t \in Thread, NEW c \in Capid, Copy(t, c)
      PROVE  IdentityOK'
  BY <1>13 DEF Copy, kernelVars
<1>14. ASSUME NEW t \in Thread, NEW c \in Capid, Drop(t, c)
      PROVE  IdentityOK'
  BY <1>14 DEF Drop, Goto, kernelVars
<1>15. ASSUME NEW t \in Thread, DeleteCap(t)
      PROVE  IdentityOK'
  BY <1>15 DEF DeleteCap, Goto
<1>16. ASSUME NEW t \in Thread, NEW u \in Thread \ {t}, NEW c \in Capid \cup {NoCap}, Send(t, u, c)
      PROVE  IdentityOK'
  BY <1>16, <1>7, <1>8, <1>9, SentIdentity DEF Send
<1>17. CASE UNCHANGED vars
  BY <1>17 DEF vars, kernelVars, userVars
<1>w. ASSUME NEW t \in Thread, NEW n \in 0 .. RcvCaps - 1, WaitFails(t, n) PROVE IdentityOK'
  BY <1>w DEF WaitFails, userVars
<1> QED
  BY <1>1, <1>2, <1>3, <1>4, <1>5, <1>6, <1>7, <1>8, <1>9, <1>10, <1>11, <1>12, <1>13, <1>14, <1>15, <1>16, <1>17, <1>w DEF Next

\* Names stay unique.
LEMMA NameStep == CapTypes /\ IdentityOK /\ OneNamePerIdentity /\ [Next]_vars => OneNamePerIdentity'
<1> SUFFICES ASSUME CapTypes /\ IdentityOK /\ OneNamePerIdentity, [Next]_vars PROVE OneNamePerIdentity'
  OBVIOUS
<1> USE CapabilityAssumption
<1>1. ASSUME NEW t \in Thread, NEW i \in Identity, NEW o \in Object, NEW c \in Capid, NewObj(t, i, o, c)
      PROVE  OneNamePerIdentity'
  <2>1. cap' = [cap EXCEPT ![Core][c] = [identity |-> i, in_utcbs |-> 0]] /\ object' = [object EXCEPT ![i] = o]
    BY <1>1 DEF NewObj
  <2>2. object[i] = Null /\ c \in FreeIds(Core) /\ o # Null
    BY <1>1 DEF NewObj, IdentityOK
  <2>3. ASSUME NEW p \in Pd, NEW j \in Identity
        PROVE  Find(p, j)' \subseteq Find(p, j) \cup (IF p = Core /\ j = i THEN {c} ELSE {})
    BY <2>1 DEF Find, Ids, CapTypes
  <2>4. \A p \in Pd : Find(p, i) = {}
    BY <2>2 DEF OneNamePerIdentity
  <2> QED
    BY <2>1, <2>2, <2>3, <2>4 DEF OneNamePerIdentity, CapTypes
<1>2. ASSUME NEW t \in Thread, NEW i \in Identity, DeleteObj(t, i)
      PROVE  OneNamePerIdentity'
  <2> DEFINE C == [cap EXCEPT ![Core][capid[i]] = NoCap]
  <2>1. C \in [Pd -> [Capid -> Reference \cup {NoCap}]] /\ cap' = Invalidated(C, {i})
    BY <1>2 DEF DeleteObj, CapTypes
  <2>2. \A p \in Pd, c \in Capid : C[p][c] # NoCap => C[p][c] = cap[p][c]
    BY DEF CapTypes
  <2> HIDE DEF C
  <2>3. \A p \in Pd, c \in Capid :
          /\ cap'[p][c] = NoCap <=> C[p][c] = NoCap
          /\ C[p][c] # NoCap => cap'[p][c].identity =
               IF C[p][c].identity \in {i} THEN Null ELSE C[p][c].identity
    BY <2>1, InvalidatedRefs
  <2>4. Kept /\ \A p \in Pd, c \in Capid : cap'[p][c] # NoCap => cap'[p][c].identity # i
    BY <2>3, <2>2 DEF Kept
  <2>5. \A j \in Identity : object'[j] = Null => j = i \/ object[j] = Null
    BY <1>2 DEF DeleteObj, CapTypes
  <2> QED
    BY <2>4, <2>5, NamesKept
<1>3. ASSUME NEW t \in Thread, NEW o \in Object, DestroyObject(t, o)
      PROVE  OneNamePerIdentity'
  <2> DEFINE I == {i \in Identity : object[i] = o}
  <2>1. cap' = Invalidated(cap, I)
    BY <1>3 DEF DestroyObject
  <2>2. \A p \in Pd, c \in Capid :
          /\ cap'[p][c] = NoCap <=> cap[p][c] = NoCap
          /\ cap[p][c] # NoCap => cap'[p][c].identity =
               IF cap[p][c].identity \in I THEN Null ELSE cap[p][c].identity
    BY <2>1, InvalidatedRefs DEF CapTypes
  <2>3. Kept /\ \A i \in I, p \in Pd, c \in Capid : cap'[p][c] # NoCap => cap'[p][c].identity # i
    BY <2>2 DEF Kept
  <2>4. \A j \in Identity : object'[j] = Null => j \in I \/ object[j] = Null
    BY <1>3 DEF DestroyObject, CapTypes
  <2> QED
    BY <2>3, <2>4, NamesKept
<1>4. ASSUME NEW t \in Thread, Wait(t)
      PROVE  OneNamePerIdentity'
  BY <1>4 DEF Wait, Receptive, Goto, OneNamePerIdentity, Find, Ids
<1>5. ASSUME NEW t \in Thread, Cancel(t)
      PROVE  OneNamePerIdentity'
  BY <1>5 DEF Cancel, Goto, kernelVars, OneNamePerIdentity, Find, Ids
<1>6. ASSUME NEW t \in Thread, Kill(t)
      PROVE  OneNamePerIdentity'
  BY <1>6 DEF Kill, Goto, kernelVars, OneNamePerIdentity, Find, Ids
<1>7. ASSUME NEW u \in Thread, NEW i \in Identity \cup {Null}, pc[u] = "wait", CopyKnown(u, i)
      PROVE  OneNamePerIdentity'
  <2>1. PICK c \in Find(PdOf[u], i) : cap' = [cap EXCEPT ![PdOf[u]][c].in_utcbs = Up(@)]
    BY <1>7 DEF CopyKnown
  <2>2. c \in Capid /\ cap[PdOf[u]][c] \in Reference
    BY DEF Find, Ids, CapTypes
  <2>3. Kept
    BY <2>1, <2>2 DEF Kept, Reference, CapTypes
  <2>4. object' = object
    BY <1>7 DEF CopyKnown, Deliver
  <2> QED
    BY <2>3, <2>4, NamesKept
<1>8. ASSUME NEW u \in Thread, NEW i \in Identity \cup {Null}, pc[u] = "wait", i # Null => object[i] # Null, CopyNew(u, i)
      PROVE  OneNamePerIdentity'
  <2>1. PICK c \in FreeIds(PdOf[u]) :
          cap' = [cap EXCEPT ![PdOf[u]][c] = [identity |-> i, in_utcbs |-> 1]]
    BY <1>8 DEF CopyNew
  <2>2. object' = object /\ i \in Identity /\ Find(PdOf[u], i) = {}
    BY <1>8 DEF CopyNew, Deliver
  <2>3. ASSUME NEW p \in Pd, NEW j \in Identity
        PROVE  Find(p, j)' \subseteq Find(p, j) \cup (IF p = PdOf[u] /\ j = i THEN {c} ELSE {})
    BY <2>1 DEF Find, Ids, FreeIds, CapTypes
  <2>4. object[i] # Null
    BY <1>8, <2>2
  <2> QED
    BY <2>2, <2>3, <2>4 DEF OneNamePerIdentity
<1>9. ASSUME NEW u \in Thread, NEW i \in Identity \cup {Null}, pc[u] = "wait", CopyInvalid(u, i)
      PROVE  OneNamePerIdentity'
  BY <1>9 DEF CopyInvalid, Deliver, Goto, OneNamePerIdentity, Find, Ids
<1>10. ASSUME NEW t \in Thread, ImportInvalid(t)
      PROVE  OneNamePerIdentity'
  BY <1>10 DEF ImportInvalid, Goto, kernelVars, OneNamePerIdentity, Find, Ids
<1>11. ASSUME NEW t \in Thread, Import(t)
      PROVE  OneNamePerIdentity'
  BY <1>11 DEF Import, Goto, kernelVars, OneNamePerIdentity, Find, Ids
<1>12. ASSUME NEW t \in Thread, AckCap(t)
      PROVE  OneNamePerIdentity'
  <2>1. utcb[t] \in Ids(PdOf[t]) => utcb[t] \in Capid /\ cap[PdOf[t]][utcb[t]] \in Reference
    BY DEF Ids, CapTypes
  <2>2. Kept /\ object' = object
    BY <1>12, <2>1 DEF AckCap, Kept, Reference, CapTypes
  <2> QED
    BY <2>2, NamesKept
<1>13. ASSUME NEW t \in Thread, NEW c \in Capid, Copy(t, c)
      PROVE  OneNamePerIdentity'
  BY <1>13 DEF Copy, kernelVars, OneNamePerIdentity, Find, Ids
<1>14. ASSUME NEW t \in Thread, NEW c \in Capid, Drop(t, c)
      PROVE  OneNamePerIdentity'
  BY <1>14 DEF Drop, Goto, kernelVars, OneNamePerIdentity, Find, Ids
<1>15. ASSUME NEW t \in Thread, DeleteCap(t)
      PROVE  OneNamePerIdentity'
  <2>1. Kept /\ object' = object
    BY <1>15 DEF DeleteCap, Kept, CapTypes
  <2> QED
    BY <2>1, NamesKept
<1>16. ASSUME NEW t \in Thread, NEW u \in Thread \ {t}, NEW c \in Capid \cup {NoCap}, Send(t, u, c)
      PROVE  OneNamePerIdentity'
  <2> DEFINE i == Designated(t, c)
  <2>1. i \in Identity \cup {Null} /\ (i # Null => Find(PdOf[t], i) # {})
    BY SentIdentity DEF Designated, Find, Ids
  <2>2. i # Null => object[i] # Null
    BY <2>1 DEF OneNamePerIdentity
  <2>3. pc[u] = "wait" /\ (CopyKnown(u, i) \/ CopyNew(u, i) \/ CopyInvalid(u, i))
    BY <1>16 DEF Send
  <2> HIDE DEF i
  <2> QED
    BY <2>1, <2>2, <2>3, <1>7, <1>8, <1>9
<1>17. CASE UNCHANGED vars
  BY <1>17 DEF vars, kernelVars, OneNamePerIdentity, Find, Ids
<1>w. ASSUME NEW t \in Thread, NEW n \in 0 .. RcvCaps - 1, WaitFails(t, n) PROVE OneNamePerIdentity'
  BY <1>w DEF WaitFails, OneNamePerIdentity, Find, Ids
<1> QED
  BY <1>1, <1>2, <1>3, <1>4, <1>5, <1>6, <1>7, <1>8, <1>9, <1>10, <1>11, <1>12, <1>13, <1>14, <1>15, <1>16, <1>17, <1>w DEF Next

---------------------------------------------------------------------------
(* Counts *)

\* A count is never so large that it could overflow.
LEMMA ReceiversCount ==
  ASSUME NEW p, NEW c
  PROVE  /\ IsFiniteSet(Receivers(p, c))
         /\ Cardinality(Receivers(p, c)) \in 0 .. UtcbMod - 1
         /\ Receivers(p, c) # Thread => Cardinality(Receivers(p, c)) # UtcbMod - 1
         /\ Cardinality(Receivers(p, c)) = 0 <=> Receivers(p, c) = {}
<1>1. Receivers(p, c) \in SUBSET Thread
  BY DEF Receivers
<1>2. /\ IsFiniteSet(Receivers(p, c))
      /\ Cardinality(Receivers(p, c)) <= Cardinality(Thread)
      /\ Cardinality(Thread) = Cardinality(Receivers(p, c)) => Thread = Receivers(p, c)
  BY <1>1, FS_Subset, CapabilityAssumption
<1>3. Cardinality(Receivers(p, c)) \in Nat /\ Cardinality(Thread) \in Nat
  BY <1>2, FS_CardinalityType, CapabilityAssumption
<1>4. Cardinality(Receivers(p, c)) = 0 <=> Receivers(p, c) = {}
  BY <1>2, FS_EmptySet
<1> QED
  BY <1>2, <1>3, <1>4, CapabilityAssumption

\* Counts stay exact if neither they nor the UTCBs change.
LEMMA CountsKept ==
  ASSUME UtcbsCounted,
         \A p \in Pd \ {Core}, c \in Capid :
           /\ cap'[p][c] = NoCap <=> cap[p][c] = NoCap
           /\ cap[p][c] # NoCap => cap'[p][c].in_utcbs = cap[p][c].in_utcbs,
         \A t \in Thread, c \in Capid : InUtcb(t, c)' <=> InUtcb(t, c)
  PROVE  UtcbsCounted'
<1> SUFFICES ASSUME NEW p \in Pd \ {Core}, NEW c \in Capid
             PROVE  IF c \in Ids(p)' THEN cap'[p][c].in_utcbs = Cardinality(Receivers(p, c)')
                    ELSE Receivers(p, c)' = {}
  BY DEF UtcbsCounted
<1>1. Receivers(p, c)' = Receivers(p, c)
  BY DEF Receivers
<1>2. c \in Ids(p)' <=> c \in Ids(p)
  BY DEF Ids
<1> QED
  BY <1>1, <1>2 DEF UtcbsCounted, Ids

\* Counts stay exact if those of one capability d of PD q are, and the others do not change.
LEMMA CountsChanged ==
  ASSUME UtcbsCounted, NEW q \in Pd, NEW d \in Capid,
         q # Core =>
           IF d \in Ids(q)' THEN cap'[q][d].in_utcbs = Cardinality(Receivers(q, d)')
           ELSE Receivers(q, d)' = {},
         \A p \in Pd, c \in Capid : p # q \/ c # d => cap'[p][c] = cap[p][c],
         \A t \in Thread, c \in Capid :
           PdOf[t] # q \/ c # d => (InUtcb(t, c)' <=> InUtcb(t, c))
  PROVE  UtcbsCounted'
<1> SUFFICES ASSUME NEW p \in Pd \ {Core}, NEW c \in Capid, p # q \/ c # d
             PROVE  IF c \in Ids(p)' THEN cap'[p][c].in_utcbs = Cardinality(Receivers(p, c)')
                    ELSE Receivers(p, c)' = {}
  BY DEF UtcbsCounted
<1>1. Receivers(p, c)' = Receivers(p, c)
  BY DEF Receivers
<1>2. c \in Ids(p)' <=> c \in Ids(p)
  BY DEF Ids
<1> QED
  BY <1>1, <1>2 DEF UtcbsCounted, Ids

\* Counts stay exact.
LEMMA CountStep == CountInv /\ [Next]_vars => UtcbsCounted'
<1> SUFFICES ASSUME CountInv, [Next]_vars PROVE UtcbsCounted'
  OBVIOUS
<1> USE CapabilityAssumption DEF CountInv
<1>1. ASSUME NEW t \in Thread, NEW i \in Identity, NEW o \in Object, NEW c \in Capid, NewObj(t, i, o, c)
      PROVE  UtcbsCounted'
  <2>1. \A p \in Pd \ {Core}, d \in Capid : cap'[p][d] = cap[p][d]
    BY <1>1 DEF NewObj, CapTypes
  <2>2. \A u \in Thread, d \in Capid : InUtcb(u, d)' <=> InUtcb(u, d)
    BY <1>1 DEF NewObj, userVars, InUtcb
  <2> QED
    BY <2>1, <2>2, CountsKept
<1>2. ASSUME NEW t \in Thread, NEW i \in Identity, DeleteObj(t, i)
      PROVE  UtcbsCounted'
  <2> DEFINE C == [cap EXCEPT ![Core][capid[i]] = NoCap]
  <2>1. C \in [Pd -> [Capid -> Reference \cup {NoCap}]] /\ cap' = Invalidated(C, {i})
    BY <1>2 DEF DeleteObj, CapTypes
  <2>2. \A p \in Pd \ {Core}, c \in Capid : C[p][c] = cap[p][c]
    BY DEF CapTypes
  <2> HIDE DEF C
  <2>3. \A p \in Pd, c \in Capid :
          /\ cap'[p][c] = NoCap <=> C[p][c] = NoCap
          /\ C[p][c] # NoCap => cap'[p][c].in_utcbs = C[p][c].in_utcbs
    BY <2>1, InvalidatedRefs
  <2>4. \A u \in Thread, d \in Capid : InUtcb(u, d)' <=> InUtcb(u, d)
    BY <1>2 DEF DeleteObj, userVars, InUtcb
  <2> QED
    BY <2>2, <2>3, <2>4, CountsKept
<1>3. ASSUME NEW t \in Thread, NEW o \in Object, DestroyObject(t, o)
      PROVE  UtcbsCounted'
  <2>1. cap' = Invalidated(cap, {i \in Identity : object[i] = o})
    BY <1>3 DEF DestroyObject
  <2>2. \A p \in Pd, c \in Capid :
          /\ cap'[p][c] = NoCap <=> cap[p][c] = NoCap
          /\ cap[p][c] # NoCap => cap'[p][c].in_utcbs = cap[p][c].in_utcbs
    BY <2>1, InvalidatedRefs DEF CapTypes
  <2>3. \A u \in Thread, d \in Capid : InUtcb(u, d)' <=> InUtcb(u, d)
    BY <1>3 DEF DestroyObject, userVars, InUtcb
  <2> QED
    BY <2>2, <2>3, CountsKept
<1>4. ASSUME NEW t \in Thread, Wait(t)
      PROVE  UtcbsCounted'
  <2>1. cap' = cap
    BY <1>4 DEF Wait
  <2>2. \A v \in Thread, d \in Capid : InUtcb(v, d)' <=> InUtcb(v, d)
    BY <1>4 DEF Wait, Receptive, Goto, InUtcb, UtcbIdle, CapTypes
  <2> QED
    BY <2>1, <2>2, CountsKept
<1>5. ASSUME NEW t \in Thread, Cancel(t)
      PROVE  UtcbsCounted'
  <2>1. cap' = cap
    BY <1>5 DEF Cancel, kernelVars
  <2>2. \A v \in Thread, d \in Capid : InUtcb(v, d)' <=> InUtcb(v, d)
    BY <1>5 DEF Cancel, Goto, InUtcb, UtcbIdle, CapTypes
  <2> QED
    BY <2>1, <2>2, CountsKept
<1>6. ASSUME NEW t \in Thread, Kill(t)
      PROVE  UtcbsCounted'
  <2>1. cap' = cap
    BY <1>6 DEF Kill, kernelVars
  <2>2. \A v \in Thread, d \in Capid : InUtcb(v, d)' <=> InUtcb(v, d)
    BY <1>6 DEF Kill, Goto, InUtcb, UtcbIdle, CapTypes
  <2> QED
    BY <2>1, <2>2, CountsKept
<1>7. ASSUME NEW u \in Thread, NEW i \in Identity \cup {Null}, pc[u] = "wait", CopyKnown(u, i)
      PROVE  UtcbsCounted'
  <2>1. PICK c \in Find(PdOf[u], i) :
          cap' = [cap EXCEPT ![PdOf[u]][c].in_utcbs = Up(@)] /\ Deliver(u, c, FALSE)
    BY <1>7 DEF CopyKnown
  <2>2. c \in Capid /\ cap[PdOf[u]][c] \in Reference /\ c \in Ids(PdOf[u]) /\ PdOf[u] \in Pd
    BY DEF Find, Ids, CapTypes
  <2>3. /\ \A p \in Pd, d \in Capid : p # PdOf[u] \/ d # c => cap'[p][d] = cap[p][d]
        /\ cap'[PdOf[u]][c] = [cap[PdOf[u]][c] EXCEPT !.in_utcbs = Up(cap[PdOf[u]][c].in_utcbs)]
    BY <2>1, <2>2 DEF CapTypes
  <2>4. /\ \A t \in Thread \ {u}, d \in Capid : InUtcb(t, d)' <=> InUtcb(t, d)
        /\ \A d \in Capid : ~InUtcb(u, d) /\ (InUtcb(u, d)' <=> d = c)
    BY <1>7, <2>1, <2>2 DEF Deliver, Goto, InUtcb, CapTypes
  <2>5. Receivers(PdOf[u], c)' = Receivers(PdOf[u], c) \cup {u} /\ u \notin Receivers(PdOf[u], c)
    BY <2>2, <2>4 DEF Receivers
  <2>6. Cardinality(Receivers(PdOf[u], c)') = Up(Cardinality(Receivers(PdOf[u], c)))
    <3>1. /\ IsFiniteSet(Receivers(PdOf[u], c))
          /\ Cardinality(Receivers(PdOf[u], c)) # UtcbMod - 1
      <4>1. Receivers(PdOf[u], c) # Thread
        BY <2>5
      <4> QED
        BY <4>1, ReceiversCount
    <3>2. Cardinality(Receivers(PdOf[u], c) \cup {u}) = Cardinality(Receivers(PdOf[u], c)) + 1
      BY <2>5, <3>1, FS_AddElement
    <3> QED
      BY <2>5, <3>1, <3>2 DEF Up
  <2>7. cap'[PdOf[u]][c].in_utcbs = Up(cap[PdOf[u]][c].in_utcbs) /\ cap'[PdOf[u]][c] # NoCap
    <3>1. cap'[PdOf[u]][c] \in Reference
      BY <2>2, <2>3, References
    <3> QED
      BY <2>2, <2>3, <3>1, References DEF Reference
  <2>8. PdOf[u] # Core => cap[PdOf[u]][c].in_utcbs = Cardinality(Receivers(PdOf[u], c))
    BY <2>2 DEF UtcbsCounted
  <2>9. PdOf[u] # Core =>
          IF c \in Ids(PdOf[u])'
          THEN cap'[PdOf[u]][c].in_utcbs = Cardinality(Receivers(PdOf[u], c)')
          ELSE Receivers(PdOf[u], c)' = {}
    BY <2>2, <2>6, <2>7, <2>8 DEF Ids
  <2>10. \A t \in Thread, d \in Capid :
           PdOf[t] # PdOf[u] \/ d # c => (InUtcb(t, d)' <=> InUtcb(t, d))
    BY <2>4
  <2> QED
    BY <2>2, <2>3, <2>9, <2>10, CountsChanged
<1>8. ASSUME NEW u \in Thread, NEW i \in Identity \cup {Null}, pc[u] = "wait", CopyNew(u, i)
      PROVE  UtcbsCounted'
  <2>1. PICK c \in FreeIds(PdOf[u]) :
          /\ cap' = [cap EXCEPT ![PdOf[u]][c] = [identity |-> i, in_utcbs |-> 1]]
          /\ Deliver(u, c, TRUE)
    BY <1>8 DEF CopyNew
  <2>2. c \in Capid /\ c \notin Ids(PdOf[u]) /\ PdOf[u] \in Pd /\ PdOf[u] # Core
    BY <1>8 DEF FreeIds, CopyNew
  <2>3. /\ \A p \in Pd, d \in Capid : p # PdOf[u] \/ d # c => cap'[p][d] = cap[p][d]
        /\ cap'[PdOf[u]][c] = [identity |-> i, in_utcbs |-> 1]
    BY <2>1, <2>2 DEF CapTypes
  <2>4. /\ \A t \in Thread \ {u}, d \in Capid : InUtcb(t, d)' <=> InUtcb(t, d)
        /\ \A d \in Capid : ~InUtcb(u, d) /\ (InUtcb(u, d)' <=> d = c)
    BY <1>8, <2>1, <2>2 DEF Deliver, Goto, InUtcb, CapTypes
  <2>5. Receivers(PdOf[u], c) = {}
    BY <2>2 DEF UtcbsCounted
  <2>6. Receivers(PdOf[u], c)' = {u}
    BY <2>2, <2>4, <2>5 DEF Receivers
  <2>7. Cardinality(Receivers(PdOf[u], c)') = 1
    BY <2>6, FS_Singleton
  <2>8. IF c \in Ids(PdOf[u])'
        THEN cap'[PdOf[u]][c].in_utcbs = Cardinality(Receivers(PdOf[u], c)')
        ELSE Receivers(PdOf[u], c)' = {}
    <3>1. cap'[PdOf[u]][c] # NoCap
      BY <2>3, References
    <3> QED
      BY <2>2, <2>3, <2>7, <3>1 DEF Ids
  <2> QED
    BY <2>2, <2>3, <2>4, <2>8, CountsChanged
<1>9. ASSUME NEW u \in Thread, NEW i \in Identity \cup {Null}, pc[u] = "wait", CopyInvalid(u, i)
      PROVE  UtcbsCounted'
  <2>1. cap' = cap
    BY <1>9 DEF CopyInvalid
  <2>2. \A v \in Thread, d \in Capid : InUtcb(v, d)' <=> InUtcb(v, d)
    BY <1>9 DEF CopyInvalid, Deliver, Goto, InUtcb, UtcbIdle, CapTypes
  <2> QED
    BY <2>1, <2>2, CountsKept
<1>10. ASSUME NEW t \in Thread, ImportInvalid(t)
      PROVE  UtcbsCounted'
  <2>1. cap' = cap
    BY <1>10 DEF ImportInvalid, kernelVars
  <2>2. \A v \in Thread, d \in Capid : InUtcb(v, d)' <=> InUtcb(v, d)
    BY <1>10 DEF ImportInvalid, Goto, InUtcb, UtcbIdle, CapTypes
  <2> QED
    BY <2>1, <2>2, CountsKept
<1>11. ASSUME NEW t \in Thread, Import(t)
      PROVE  UtcbsCounted'
  <2>1. cap' = cap
    BY <1>11 DEF Import, kernelVars
  <2>2. \A v \in Thread, d \in Capid : InUtcb(v, d)' <=> InUtcb(v, d)
    BY <1>11 DEF Import, Goto, InUtcb, UtcbIdle, CapTypes
  <2> QED
    BY <2>1, <2>2, CountsKept
<1>12. ASSUME NEW t \in Thread, AckCap(t)
      PROVE  UtcbsCounted'
  <2>0. PICK p \in Pd, c \in Capid \cup {NoCap} : p = PdOf[t] /\ c = utcb[t]
    BY DEF CapTypes
  <2>1. /\ \A u \in Thread \ {t}, d \in Capid : InUtcb(u, d)' <=> InUtcb(u, d)
        /\ \A d \in Capid : (InUtcb(t, d) <=> d = c) /\ ~InUtcb(t, d)'
    BY <1>12, <2>0 DEF AckCap, Goto, InUtcb, CapTypes
  <2>2. CASE c \in Capid /\ c \in Ids(p)
    <3>1. cap[p][c] \in Reference
      BY <2>2 DEF Ids, CapTypes
    <3>2. /\ \A q \in Pd, d \in Capid : q # p \/ d # c => cap'[q][d] = cap[q][d]
          /\ cap'[p][c] = [cap[p][c] EXCEPT !.in_utcbs = Down(cap[p][c].in_utcbs)]
      BY <1>12, <2>0, <2>2 DEF AckCap, CapTypes
    <3>3. cap'[p][c].in_utcbs = Down(cap[p][c].in_utcbs) /\ cap'[p][c] # NoCap
      <4>1. cap'[p][c] \in Reference
        BY <3>1, <3>2, References
      <4> QED
        BY <3>1, <3>2, <4>1, References DEF Reference
    <3>4. Receivers(p, c)' = Receivers(p, c) \ {t} /\ t \in Receivers(p, c)
      BY <2>0, <2>1, <2>2 DEF Receivers
    <3>5. Cardinality(Receivers(p, c)') = Down(Cardinality(Receivers(p, c)))
      <4>1. /\ IsFiniteSet(Receivers(p, c))
            /\ Cardinality(Receivers(p, c)) \in Nat /\ Cardinality(Receivers(p, c)) # 0
        <5>1. Receivers(p, c) # {}
          BY <3>4
        <5> QED
          BY <5>1, ReceiversCount, CapabilityAssumption
      <4>2. Cardinality(Receivers(p, c) \ {t}) = Cardinality(Receivers(p, c)) - 1
        BY <3>4, <4>1, FS_RemoveElement
      <4> QED
        BY <3>4, <4>1, <4>2 DEF Down
    <3>6. p # Core => cap[p][c].in_utcbs = Cardinality(Receivers(p, c))
      BY <2>0, <2>2 DEF UtcbsCounted
    <3>7. p # Core => IF c \in Ids(p)' THEN cap'[p][c].in_utcbs = Cardinality(Receivers(p, c)')
                      ELSE Receivers(p, c)' = {}
      BY <2>2, <3>3, <3>5, <3>6 DEF Ids
    <3>8. \A u \in Thread, d \in Capid : PdOf[u] # p \/ d # c => (InUtcb(u, d)' <=> InUtcb(u, d))
      BY <2>0, <2>1
    <3>9. \A q \in Pd, d \in Capid : q # p \/ d # c => cap'[q][d] = cap[q][d]
      BY <3>2
    <3>10. p \in Pd /\ c \in Capid /\ UtcbsCounted
      BY <2>2
    <3> QED
      BY <3>7, <3>8, <3>9, <3>10, CountsChanged
  <2>3. CASE c \in Capid /\ c \notin Ids(p)
    <3>1. cap' = cap
      BY <1>12, <2>0, <2>3 DEF AckCap
    <3>2. p # Core => FALSE
      BY <2>0, <2>1, <2>3 DEF UtcbsCounted, Receivers
    <3>3. \A u \in Thread, d \in Capid : PdOf[u] # p \/ d # c => (InUtcb(u, d)' <=> InUtcb(u, d))
      BY <2>0, <2>1
    <3> QED
      BY <2>0, <2>3, <3>1, <3>2, <3>3, CountsChanged
  <2>4. CASE c = NoCap
    <3>1. cap' = cap
      BY <1>12, <2>0, <2>4 DEF AckCap, Ids
    <3>2. \A u \in Thread, d \in Capid : InUtcb(u, d)' <=> InUtcb(u, d)
      BY <2>1, <2>4
    <3> QED
      BY <3>1, <3>2, CountsKept
  <2> QED
    BY <2>2, <2>3, <2>4 DEF CapTypes
<1>13. ASSUME NEW t \in Thread, NEW c \in Capid, Copy(t, c)
      PROVE  UtcbsCounted'
  <2>1. cap' = cap
    BY <1>13 DEF Copy, kernelVars
  <2>2. \A v \in Thread, d \in Capid : InUtcb(v, d)' <=> InUtcb(v, d)
    BY <1>13 DEF Copy, InUtcb, UtcbIdle, CapTypes
  <2> QED
    BY <2>1, <2>2, CountsKept
<1>14. ASSUME NEW t \in Thread, NEW c \in Capid, Drop(t, c)
      PROVE  UtcbsCounted'
  <2>1. cap' = cap
    BY <1>14 DEF Drop, kernelVars
  <2>2. \A v \in Thread, d \in Capid : InUtcb(v, d)' <=> InUtcb(v, d)
    BY <1>14 DEF Drop, Goto, InUtcb, UtcbIdle, CapTypes
  <2> QED
    BY <2>1, <2>2, CountsKept
<1>15. ASSUME NEW t \in Thread, DeleteCap(t)
      PROVE  UtcbsCounted'
  <2>0. PICK p \in Pd, c \in Capid \cup {NoCap} : p = PdOf[t] /\ c = utcb[t]
    BY DEF CapTypes
  <2>1. \A u \in Thread, d \in Capid : InUtcb(u, d)' <=> InUtcb(u, d)
    BY <1>15 DEF DeleteCap, Goto, InUtcb, CapTypes
  <2>2. CASE c \in Ids(p) /\ cap[p][c].in_utcbs = 0
    <3>1. c \in Capid /\ cap' = [cap EXCEPT ![p][c] = NoCap]
      BY <1>15, <2>0, <2>2 DEF DeleteCap, Ids
    <3>2. /\ \A q \in Pd, d \in Capid : q # p \/ d # c => cap'[q][d] = cap[q][d]
          /\ cap'[p][c] = NoCap
      BY <2>0, <3>1 DEF CapTypes
    <3>3. p # Core => Receivers(p, c) = {}
      BY <2>0, <2>2, <3>1, ReceiversCount DEF UtcbsCounted
    <3>4. Receivers(p, c)' = Receivers(p, c)
      BY <2>1, <3>1 DEF Receivers
    <3>5. p # Core => IF c \in Ids(p)' THEN cap'[p][c].in_utcbs = Cardinality(Receivers(p, c)')
                      ELSE Receivers(p, c)' = {}
      BY <3>2, <3>3, <3>4 DEF Ids
    <3> QED
      BY <2>0, <2>1, <3>1, <3>2, <3>5, CountsChanged
  <2>3. CASE ~(c \in Ids(p) /\ cap[p][c].in_utcbs = 0)
    <3>1. cap' = cap
      BY <1>15, <2>0, <2>3 DEF DeleteCap
    <3> QED
      BY <2>1, <3>1, CountsKept
  <2> QED
    BY <2>2, <2>3
<1>16. ASSUME NEW t \in Thread, NEW u \in Thread \ {t}, NEW c \in Capid \cup {NoCap}, Send(t, u, c)
      PROVE  UtcbsCounted'
  BY <1>16, <1>7, <1>8, <1>9, SentIdentity DEF Send
<1>17. CASE UNCHANGED vars
  <2>1. cap' = cap /\ \A v \in Thread, d \in Capid : InUtcb(v, d)' <=> InUtcb(v, d)
    BY <1>17 DEF vars, kernelVars, userVars, InUtcb
  <2> QED
    BY <2>1, CountsKept
<1>w. ASSUME NEW t \in Thread, NEW n \in 0 .. RcvCaps - 1, WaitFails(t, n) PROVE UtcbsCounted'
  <2>1. cap' = cap /\ \A v \in Thread, d \in Capid : InUtcb(v, d)' <=> InUtcb(v, d)
    BY <1>w DEF WaitFails, userVars, InUtcb
  <2> QED
    BY <2>1, CountsKept
<1> QED
  BY <1>1, <1>2, <1>3, <1>4, <1>5, <1>6, <1>7, <1>8, <1>9, <1>10, <1>11, <1>12, <1>13, <1>14, <1>15, <1>16, <1>17, <1>w DEF Next

---------------------------------------------------------------------------
\* The invariants hold initially.
LEMMA InitInv == Init => CountInv /\ NameInv
<1> SUFFICES ASSUME Init PROVE CountInv /\ NameInv
  OBVIOUS
<1> USE CapabilityAssumption
<1>1. CapTypes
  BY DEF Init, CapTypes
<1>2. UtcbIdle /\ IdentityOK
  BY DEF Init, UtcbIdle, IdentityOK
<1>3. \A p \in Pd, c \in Capid : c \notin Ids(p) /\ Receivers(p, c) = {}
  BY DEF Init, Ids, Receivers, InUtcb
<1>4. \A p \in Pd, i \in Identity : Find(p, i) = {}
  BY DEF Init, Find, Ids
<1> QED
  BY <1>1, <1>2, <1>3, <1>4 DEF CountInv, NameInv, UtcbsCounted, OneNamePerIdentity

\* Each capability in a UTCB outside of core exists and is counted exactly, for any number of
\* threads below the range of the counter, whatever userland copies and deletes meanwhile, and
\* whatever is cancelled or killed (copy_msg, _call_ack_cap, _call_delete_cap).
THEOREM UtcbsAlwaysCounted == Spec => []UtcbsCounted
<1>1. CountInv /\ [Next]_vars => CountInv'
  BY TypesStep, IdleStep, CountStep DEF CountInv
<1>2. CountInv => UtcbsCounted
  BY DEF CountInv
<1> QED
  BY <1>1, <1>2, InitInv, PTL DEF Spec

\* A PD never has two ids for one identity, nor an id for an identity without object (copy_msg,
\* Object_identity::invalidate, _call_delete_obj, ~Object).
THEOREM NamesAlwaysUnique == Spec => []OneNamePerIdentity
<1>1. NameInv /\ [Next]_vars => NameInv'
  BY TypesStep, IdentityStep, NameStep DEF NameInv
<1>2. NameInv => OneNamePerIdentity
  BY DEF NameInv
<1> QED
  BY <1>1, <1>2, InitInv, PTL DEF Spec
---------------------------------------------------------------------------
(***************************************************************************)
(* Userland: the copies of a capability, the spinlock, and what is deleted *)
(***************************************************************************)

\* The types of what userland decides by, and of the slab
UserTypes ==
  /\ alive \subseteq Object
  /\ slab \in [Pd -> Int]
  /\ counter \in [Pd -> [Capid -> 0 .. RefMod - 1]]
  /\ spinlock \in [Pd -> Thread \cup {Null}]
  /\ own \in [Thread -> [Capid -> 0 .. MaxCopies]]
  /\ faults \in 0 .. MaxFaults
  /\ lost \in [Pd -> Nat]

\* What a thread has in its hands in the middle of an operation; threads of core count nothing
HandOK ==
  \A t \in Thread :
    /\ pc[t] \in {"wait", "import"} => \A c \in Capid : own[t][c] < MaxCopies
    /\ PdOf[t] = Core => \A c \in Capid : own[t][c] = 0
    /\ pc[t] = "delete" => PdOf[t] # Core /\ utcb[t] \in Capid /\ spinlock[PdOf[t]] = t
    /\ pc[t] = "ack" => utcb[t] \in Capid /\ (PdOf[t] # Core => own[t][utcb[t]] > 0)

\* Inductive invariant for the states of threads
HandInv == CountInv /\ UserTypes /\ HandOK

\* The Native_capability objects of PD p for id c if there are as many as o says, each as
\* its thread and a number
CopiesOf(o, p, c) == {x \in Thread \X (1 .. MaxCopies) : PdOf[x[1]] = p /\ x[2] <= o[x[1]][c]}

\* The threads of PD p
Members(p) == {t \in Thread : PdOf[t] = p}

\* No PD can have as many copies of a capability as the counter has values
NoWrap == \A p \in Pd \ {Core} : Cardinality(Members(p)) * MaxCopies < RefMod

\* Counters are exact
CopiesCounted == \A p \in Pd \ {Core}, c \in Capid : counter[p][c] = Cardinality(CopiesOf(own, p, c))

\* Who is about to delete a capability found that there are no copies, and none comes up
\* before the kernel has been asked
DeleteOK == \A t \in Thread : pc[t] = "delete" => counter[PdOf[t]][utcb[t]] = 0

\* Inductive invariant for the copies
CopyInv == HandInv /\ CopiesCounted /\ DeleteOK

\* Threads hold what they are doing something with.
LEMMA HandTypesStep == HandInv /\ [Next]_vars => UserTypes' /\ HandOK'
<1> SUFFICES ASSUME HandInv, [Next]_vars PROVE UserTypes' /\ HandOK'
  OBVIOUS
<1> USE CapabilityAssumption DEF HandInv, CountInv, CapTypes, UserTypes, HandOK
<1>0. ASSUME NEW t \in Thread, NEW c \in Capid, NEW n \in Nat
      PROVE  /\ (counter[PdOf[t]][c] + n) % RefMod \in 0 .. RefMod - 1
             /\ [counter EXCEPT ![PdOf[t]][c] = (@ + n) % RefMod] \in [Pd -> [Capid -> 0 .. RefMod - 1]]
  <2>1. PdOf[t] \in Pd /\ counter[PdOf[t]][c] \in Nat
    OBVIOUS
  <2>2. PICK k \in Nat : k = counter[PdOf[t]][c]
    BY <2>1
  <2>3. (k + n) % RefMod \in 0 .. RefMod - 1
    OBVIOUS
  <2>4. PICK v \in 0 .. RefMod - 1 : v = (counter[PdOf[t]][c] + n) % RefMod
    BY <2>2, <2>3
  <2>5. [counter EXCEPT ![PdOf[t]][c] = v] \in [Pd -> [Capid -> 0 .. RefMod - 1]]
    BY <2>1
  <2>6. QED BY <2>2, <2>3, <2>4, <2>5
<1>1. ASSUME NEW t \in Thread, NEW i \in Identity, NEW o \in Object, NEW c \in Capid, NewObj(t, i, o, c)
      PROVE  UserTypes' /\ HandOK'
  BY <1>1 DEF NewObj, userVars
<1>2. ASSUME NEW t \in Thread, NEW i \in Identity, DeleteObj(t, i) PROVE UserTypes' /\ HandOK'
  BY <1>2 DEF DeleteObj, userVars
<1>3. ASSUME NEW t \in Thread, NEW o \in Object, DestroyObject(t, o) PROVE UserTypes' /\ HandOK'
  BY <1>3 DEF DestroyObject, userVars
<1>4. ASSUME NEW t \in Thread, Wait(t) PROVE UserTypes' /\ HandOK'
  BY <1>4 DEF Wait, Receptive, Goto
<1>5. ASSUME NEW t \in Thread, Cancel(t) PROVE UserTypes' /\ HandOK'
  BY <1>5 DEF Cancel, Unreceived, Goto, kernelVars
<1>6. ASSUME NEW t \in Thread, Kill(t) PROVE UserTypes' /\ HandOK'
  BY <1>6 DEF Kill, Unreceived, Goto, kernelVars
<1>7. ASSUME NEW u \in Thread, NEW c \in Capid \cup {NoCap}, NEW b \in BOOLEAN, pc[u] = "wait", Deliver(u, c, b)
      PROVE  UserTypes' /\ HandOK'
  BY <1>7 DEF Deliver, Goto
<1>8. ASSUME NEW t \in Thread, ImportInvalid(t) PROVE UserTypes' /\ HandOK'
  BY <1>8 DEF ImportInvalid, Goto, kernelVars
<1>9. ASSUME NEW t \in Thread, Import(t) PROVE UserTypes' /\ HandOK'
  <2>1. utcb[t] \in Capid /\ PdOf[t] \in Pd
    BY <1>9 DEF Import
  <2>2. own[t][utcb[t]] + 1 \in 0 .. MaxCopies
    BY <1>9, <2>1 DEF Import
  <2>3. [counter EXCEPT ![PdOf[t]][utcb[t]] = (@ + 1) % RefMod] \in [Pd -> [Capid -> 0 .. RefMod - 1]]
    BY <1>0, <2>1
  <2>4. CASE PdOf[t] = Core
    BY <1>9, <2>1, <2>4 DEF Import, Goto, kernelVars
  <2>5. CASE PdOf[t] # Core
    <3>1. /\ own' = [own EXCEPT ![t][utcb[t]] = @ + 1]
          /\ counter' = [counter EXCEPT ![PdOf[t]][utcb[t]] = (@ + 1) % RefMod]
          /\ pc' = [pc EXCEPT ![t] = "ack"]
          /\ UNCHANGED <<alive, slab, spinlock, utcb, faults, lost>>
      BY <1>9, <2>5 DEF Import, Count, Goto, kernelVars
    <3>2. UserTypes'
      BY <2>1, <2>2, <2>3, <3>1
    <3>3. HandOK'
      BY <2>1, <2>2, <2>5, <3>1
    <3>4. QED BY <3>2, <3>3
  <2>6. QED BY <2>4, <2>5
<1>10. ASSUME NEW t \in Thread, AckCap(t) PROVE UserTypes' /\ HandOK'
  BY <1>10 DEF AckCap, Goto
<1>11. ASSUME NEW t \in Thread, NEW c \in Capid, Copy(t, c) PROVE UserTypes' /\ HandOK'
  <2>1. PdOf[t] \in Pd /\ PdOf[t] # Core /\ own[t][c] + 1 \in 0 .. MaxCopies
    BY <1>11 DEF Copy
  <2>2. [counter EXCEPT ![PdOf[t]][c] = (@ + 1) % RefMod] \in [Pd -> [Capid -> 0 .. RefMod - 1]]
    BY <1>0, <2>1
  <2>3. /\ own' = [own EXCEPT ![t][c] = @ + 1] /\ pc[t] = "run"
        /\ counter' = [counter EXCEPT ![PdOf[t]][c] = (@ + 1) % RefMod]
        /\ UNCHANGED <<alive, slab, spinlock, utcb, pc, faults, lost>>
    BY <1>11 DEF Copy, Count, kernelVars
  <2>4. UserTypes'
    BY <2>1, <2>2, <2>3
  <2>5. HandOK'
    BY <2>1, <2>3
  <2>6. QED BY <2>4, <2>5
<1>12. ASSUME NEW t \in Thread, NEW c \in Capid, Drop(t, c) PROVE UserTypes' /\ HandOK'
  <2>1. PdOf[t] \in Pd /\ PdOf[t] # Core /\ own[t][c] - 1 \in 0 .. MaxCopies
    BY <1>12 DEF Drop
  <2>2. own' = [own EXCEPT ![t][c] = @ - 1] /\ pc[t] = "run" /\ spinlock[PdOf[t]] = Null
    BY <1>12 DEF Drop, Unlocked
  <2>3. \/ /\ spinlock' = [spinlock EXCEPT ![PdOf[t]] = t]
           /\ utcb' = [utcb EXCEPT ![t] = c] /\ pc' = [pc EXCEPT ![t] = "delete"]
        \/ UNCHANGED <<spinlock, utcb, pc>>
    BY <1>12 DEF Drop, Goto
  <2>4. UserTypes'
    <3>1. counter' \in [Pd -> [Capid -> 0 .. RefMod - 1]]
      <4>1. RefMod - 1 \in Nat
        OBVIOUS
      <4>2. counter' = [counter EXCEPT ![PdOf[t]][c] = (@ + (RefMod - 1)) % RefMod]
        BY <1>12 DEF Drop, Count
      <4>3. QED BY <1>0, <4>1, <4>2
    <3>2. own' \in [Thread -> [Capid -> 0 .. MaxCopies]]
      BY <2>1, <2>2
    <3>3. spinlock' \in [Pd -> Thread \cup {Null}]
      <4>1. CASE spinlock' = spinlock
        BY <4>1
      <4>2. CASE spinlock' = [spinlock EXCEPT ![PdOf[t]] = t]
        BY <4>2
      <4>3. QED BY <2>3, <4>1, <4>2
    <3>4. UNCHANGED <<alive, slab, faults, lost>>
      BY <1>12 DEF Drop, kernelVars
    <3>5. QED BY <3>1, <3>2, <3>3, <3>4
  <2>5. HandOK'
    BY <2>1, <2>2, <2>3
  <2>6. QED BY <2>4, <2>5
<1>13. ASSUME NEW t \in Thread, DeleteCap(t) PROVE UserTypes' /\ HandOK'
  <2>1. PdOf[t] \in Pd /\ spinlock[PdOf[t]] = t /\ pc[t] = "delete"
    BY <1>13 DEF DeleteCap
  <2>2. /\ spinlock' = [spinlock EXCEPT ![PdOf[t]] = Null]
        /\ utcb' = [utcb EXCEPT ![t] = NoCap] /\ pc' = [pc EXCEPT ![t] = "run"]
        /\ slab' \in [Pd -> Int] /\ UNCHANGED <<alive, counter, own, faults, lost>>
    BY <1>13, <2>1 DEF DeleteCap, Goto
  <2>3. UserTypes'
    BY <2>1, <2>2
  <2>4. HandOK'
    BY <2>1, <2>2
  <2>5. QED BY <2>3, <2>4
<1>14. ASSUME NEW t \in Thread, NEW u \in Thread \ {t}, NEW c \in Capid \cup {NoCap}, Send(t, u, c)
       PROVE  UserTypes' /\ HandOK'
  <2>1. PICK d \in Capid \cup {NoCap}, b \in BOOLEAN : pc[u] = "wait" /\ Deliver(u, d, b)
    BY <1>14 DEF Send, CopyKnown, CopyNew, CopyInvalid, Find, Ids, FreeIds
  <2>2. QED BY <1>7, <2>1
<1>15. CASE UNCHANGED vars
  BY <1>15 DEF vars, kernelVars, userVars
<1>w. ASSUME NEW t \in Thread, NEW n \in 0 .. RcvCaps - 1, WaitFails(t, n) PROVE UserTypes' /\ HandOK'
  BY <1>w DEF WaitFails, userVars
<1>16. QED
  BY <1>1, <1>2, <1>3, <1>4, <1>5, <1>6, <1>8, <1>9, <1>10, <1>11, <1>12, <1>13, <1>14, <1>15, <1>w DEF Next

\* The states of threads stay consistent.
LEMMA HandStep == HandInv /\ [Next]_vars => HandInv'
  BY TypesStep, IdleStep, CountStep, HandTypesStep DEF HandInv, CountInv

\* The kinds of steps as far as they concern copies: none, one more, one less.
LEMMA CopyCases ==
  ASSUME HandInv, [Next]_vars
  PROVE  \/ UNCHANGED <<own, counter>>
         \/ \E t \in Thread, c \in Capid :
              /\ PdOf[t] # Core /\ Unlocked(t) /\ own[t][c] < MaxCopies
              /\ Count(t, c, 1) /\ own' = [own EXCEPT ![t][c] = @ + 1]
         \/ \E t \in Thread, c \in Capid : Drop(t, c)
<1> DEFINE One == \E t \in Thread, c \in Capid :
                    /\ PdOf[t] # Core /\ Unlocked(t) /\ own[t][c] < MaxCopies
                    /\ Count(t, c, 1) /\ own' = [own EXCEPT ![t][c] = @ + 1]
           Goal == UNCHANGED <<own, counter>> \/ One \/ \E t \in Thread, c \in Capid : Drop(t, c)
<1>1. ASSUME NEW t \in Thread, NEW i \in Identity, NEW o \in Object, NEW c \in Capid, NewObj(t, i, o, c)
      PROVE  Goal
  BY <1>1 DEF NewObj, userVars
<1>2. ASSUME NEW t \in Thread, NEW i \in Identity, DeleteObj(t, i) PROVE Goal
  BY <1>2 DEF DeleteObj, userVars
<1>3. ASSUME NEW t \in Thread, NEW o \in Object, DestroyObject(t, o) PROVE Goal
  BY <1>3 DEF DestroyObject, userVars
<1>4. ASSUME NEW t \in Thread, Wait(t) \/ Cancel(t) \/ Kill(t) \/ ImportInvalid(t) \/ AckCap(t) \/ DeleteCap(t)
      PROVE  Goal
  BY <1>4 DEF Wait, Receptive, Cancel, Kill, ImportInvalid, AckCap, DeleteCap
<1>5. ASSUME NEW t \in Thread, NEW u \in Thread \ {t}, NEW c \in Capid \cup {NoCap}, Send(t, u, c)
      PROVE  Goal
  BY <1>5 DEF Send, CopyKnown, CopyNew, CopyInvalid, Deliver
<1>6. ASSUME NEW t \in Thread, Import(t) PROVE Goal
  <2>1. utcb[t] \in Capid
    BY <1>6 DEF Import, HandInv, CountInv, CapTypes
  <2>2. own[t][utcb[t]] < MaxCopies
    BY <1>6, <2>1 DEF Import, HandInv, HandOK
  <2>3. QED BY <1>6, <2>1, <2>2 DEF Import
<1>7. ASSUME NEW t \in Thread, NEW c \in Capid, Copy(t, c) PROVE Goal
  <2>1. PdOf[t] # Core /\ own[t][c] < MaxCopies
    BY <1>7, CapabilityAssumption DEF Copy, HandInv, HandOK
  <2>2. QED BY <1>7, <2>1 DEF Copy
<1>8. ASSUME UNCHANGED vars PROVE Goal
  BY <1>8 DEF vars, userVars
<1>9. ASSUME NEW t \in Thread, NEW c \in Capid, Drop(t, c) PROVE Goal
  BY <1>9
<1>w. ASSUME NEW u \in Thread, NEW n \in 0 .. RcvCaps - 1, WaitFails(u, n) PROVE Goal
  BY <1>w DEF WaitFails, userVars
<1> HIDE DEF Goal
<1>10. Goal
  BY <1>1, <1>2, <1>3, <1>4, <1>5, <1>6, <1>7, <1>8, <1>9, <1>w DEF Next
<1>11. QED BY <1>10 DEF Goal

\* A PD has less copies of a capability than the counter has values.
LEMMA CopiesBound ==
  ASSUME NoWrap, NEW o \in [Thread -> [Capid -> 0 .. MaxCopies]], NEW p \in Pd \ {Core}, NEW c \in Capid
  PROVE  /\ IsFiniteSet(CopiesOf(o, p, c)) /\ Cardinality(CopiesOf(o, p, c)) \in 0 .. RefMod - 1
         /\ Cardinality(CopiesOf(o, p, c)) = 0 <=> \A t \in Members(p) : o[t][c] = 0
<1>1. IsFiniteSet(Members(p)) /\ Cardinality(Members(p)) \in Nat
  BY CapabilityAssumption, FS_Subset, FS_CardinalityType DEF Members
<1>2. IsFiniteSet(1 .. MaxCopies) /\ Cardinality(1 .. MaxCopies) = MaxCopies
  BY CapabilityAssumption, FS_Interval
<1>3. /\ IsFiniteSet(Members(p) \X (1 .. MaxCopies))
      /\ Cardinality(Members(p) \X (1 .. MaxCopies)) = Cardinality(Members(p)) * MaxCopies
  BY <1>1, <1>2, FS_Product
<1>4. CopiesOf(o, p, c) \in SUBSET (Members(p) \X (1 .. MaxCopies))
  BY DEF CopiesOf, Members
<1>5. /\ IsFiniteSet(CopiesOf(o, p, c))
      /\ Cardinality(CopiesOf(o, p, c)) <= Cardinality(Members(p)) * MaxCopies
  BY <1>3, <1>4, FS_Subset
<1>6. Cardinality(CopiesOf(o, p, c)) \in Nat /\ (Cardinality(CopiesOf(o, p, c)) = 0 <=> CopiesOf(o, p, c) = {})
  BY <1>5, FS_CardinalityType, FS_EmptySet
<1>7. PICK m \in Nat : m = Cardinality(Members(p)) * MaxCopies
  BY <1>1, CapabilityAssumption
<1>8. Cardinality(CopiesOf(o, p, c)) \in 0 .. RefMod - 1
  BY <1>5, <1>6, <1>7, CapabilityAssumption DEF NoWrap
<1>9. CopiesOf(o, p, c) = {} <=> \A t \in Members(p) : o[t][c] = 0
  <2>1. ASSUME CopiesOf(o, p, c) = {}, NEW t \in Members(p) PROVE o[t][c] = 0
    <3>1. t \in Thread /\ PdOf[t] = p /\ o[t][c] \in 0 .. MaxCopies
      BY DEF Members
    <3>2. ASSUME o[t][c] # 0 PROVE FALSE
      <4>1. <<t, 1>> \in Thread \X (1 .. MaxCopies) /\ 1 <= o[t][c]
        BY <3>1, <3>2, CapabilityAssumption
      <4>2. <<t, 1>> \in CopiesOf(o, p, c)
        BY <3>1, <4>1 DEF CopiesOf
      <4>3. QED BY <2>1, <4>2
    <3>3. QED BY <3>2
  <2>2. ASSUME \A t \in Members(p) : o[t][c] = 0, NEW x \in CopiesOf(o, p, c) PROVE FALSE
    <3>1. x[1] \in Members(p) /\ x[2] \in 1 .. MaxCopies /\ x[2] <= o[x[1]][c]
      BY DEF CopiesOf, Members
    <3>2. QED BY <2>2, <3>1
  <2>3. QED BY <2>1, <2>2
<1>10. QED BY <1>5, <1>6, <1>8, <1>9

\* Counting up and down does not wrap within its range.
LEMMA CountValues ==
  ASSUME NEW k \in 0 .. RefMod - 1
  PROVE  /\ k + 1 < RefMod => (k + 1) % RefMod = k + 1
         /\ k > 0 => (k + (RefMod - 1)) % RefMod = k - 1
<1> USE CapabilityAssumption
<1>1. ASSUME k + 1 < RefMod PROVE (k + 1) % RefMod = k + 1
  BY <1>1
<1>2. ASSUME k > 0 PROVE (k + (RefMod - 1)) % RefMod = k - 1
  <2>1. PICK a \in Int : a = k + (RefMod - 1)
    OBVIOUS
  <2>2. RefMod <= a /\ a < 2 * RefMod /\ a - RefMod = k - 1
    BY <1>2, <2>1
  <2>3. a % RefMod = a - RefMod
    BY <2>2
  <2>4. QED BY <2>1, <2>2, <2>3
<1>3. QED BY <1>1, <1>2

\* The PD of thread t has one more copy of c by r than by o, or one less, and all else is equal
OneMoreCopy(o, r, t, c) ==
  \A p \in Pd \ {Core}, d \in Capid :
    Cardinality(CopiesOf(r, p, d)) =
      IF p = PdOf[t] /\ d = c THEN Cardinality(CopiesOf(o, p, d)) + 1 ELSE Cardinality(CopiesOf(o, p, d))
OneLessCopy(o, r, t, c) ==
  \A p \in Pd \ {Core}, d \in Capid :
    Cardinality(CopiesOf(r, p, d)) =
      IF p = PdOf[t] /\ d = c THEN Cardinality(CopiesOf(o, p, d)) - 1 ELSE Cardinality(CopiesOf(o, p, d))

\* One more copy is one more.
LEMMA OneMore ==
  ASSUME NoWrap, NEW o \in [Thread -> [Capid -> 0 .. MaxCopies]],
         NEW t \in Thread, NEW c \in Capid, o[t][c] < MaxCopies
  PROVE  OneMoreCopy(o, [o EXCEPT ![t][c] = @ + 1], t, c)
<1> DEFINE r == [o EXCEPT ![t][c] = @ + 1]
<1> SUFFICES ASSUME NEW p \in Pd \ {Core}, NEW d \in Capid
             PROVE  Cardinality(CopiesOf(r, p, d)) =
                      IF p = PdOf[t] /\ d = c THEN Cardinality(CopiesOf(o, p, d)) + 1
                      ELSE Cardinality(CopiesOf(o, p, d))
  BY DEF OneMoreCopy
<1>1. \A u \in Thread, e \in Capid : r[u][e] = IF u = t /\ e = c THEN o[u][e] + 1 ELSE o[u][e]
  OBVIOUS
<1> HIDE DEF r
<1>2. CASE ~(p = PdOf[t] /\ d = c)
  <2>1. CopiesOf(r, p, d) = CopiesOf(o, p, d)
    BY <1>1, <1>2 DEF CopiesOf
  <2>2. QED BY <1>2, <2>1
<1>3. CASE p = PdOf[t] /\ d = c
  <2> DEFINE x == <<t, o[t][c] + 1>>
  <2>1. o[t][c] \in Nat /\ o[t][c] + 1 \in 1 .. MaxCopies
    BY CapabilityAssumption
  <2>2. x \in Thread \X (1 .. MaxCopies) /\ x[1] = t /\ x[2] = o[t][c] + 1
    BY <2>1
  <2>3. x \notin CopiesOf(o, p, d) /\ x \in CopiesOf(r, p, d)
    BY <1>1, <1>3, <2>1, <2>2 DEF CopiesOf
  <2>4. \A y \in Thread \X (1 .. MaxCopies) : y # x => (y \in CopiesOf(r, p, d) <=> y \in CopiesOf(o, p, d))
    <3>1. SUFFICES ASSUME NEW y \in Thread \X (1 .. MaxCopies), y # x
                   PROVE  y \in CopiesOf(r, p, d) <=> y \in CopiesOf(o, p, d)
      OBVIOUS
    <3>2. y[1] \in Thread /\ y[2] \in 1 .. MaxCopies /\ y = <<y[1], y[2]>>
      OBVIOUS
    <3>3. y[1] = t => y[2] # x[2]
      BY <2>2, <3>1, <3>2
    <3>4. y[1] = t => (y[2] <= o[t][c] + 1 <=> y[2] <= o[t][c])
      <4>1. PICK k \in Nat, n \in Nat : k = y[2] /\ n = o[t][c]
        BY <2>1, <3>2
      <4>2. QED BY <2>2, <3>3, <4>1
    <3>5. r[y[1]][c] = IF y[1] = t THEN o[t][c] + 1 ELSE o[y[1]][c]
      BY <1>1, <3>2
    <3>6. QED BY <1>3, <3>1, <3>4, <3>5 DEF CopiesOf
  <2>5. CopiesOf(r, p, d) = CopiesOf(o, p, d) \cup {x}
    <3>1. CopiesOf(o, p, d) \subseteq Thread \X (1 .. MaxCopies) /\ CopiesOf(r, p, d) \subseteq Thread \X (1 .. MaxCopies)
      BY DEF CopiesOf
    <3> HIDE DEF x
    <3>2. QED BY <2>3, <2>4, <3>1
  <2>6. IsFiniteSet(CopiesOf(o, p, d))
    BY CopiesBound
  <2> HIDE DEF x
  <2>7. Cardinality(CopiesOf(o, p, d) \cup {x}) = Cardinality(CopiesOf(o, p, d)) + 1
    BY <2>3, <2>6, FS_AddElement
  <2>8. QED BY <1>3, <2>5, <2>7
<1>4. QED BY <1>2, <1>3

\* One copy less is one less.
LEMMA OneLess ==
  ASSUME NoWrap, NEW o \in [Thread -> [Capid -> 0 .. MaxCopies]],
         NEW t \in Thread, NEW c \in Capid, o[t][c] > 0
  PROVE  OneLessCopy(o, [o EXCEPT ![t][c] = @ - 1], t, c)
<1> DEFINE r == [o EXCEPT ![t][c] = @ - 1]
<1> SUFFICES ASSUME NEW p \in Pd \ {Core}, NEW d \in Capid
             PROVE  Cardinality(CopiesOf(r, p, d)) =
                      IF p = PdOf[t] /\ d = c THEN Cardinality(CopiesOf(o, p, d)) - 1
                      ELSE Cardinality(CopiesOf(o, p, d))
  BY DEF OneLessCopy
<1>1. \A u \in Thread, e \in Capid : r[u][e] = IF u = t /\ e = c THEN o[u][e] - 1 ELSE o[u][e]
  OBVIOUS
<1> HIDE DEF r
<1>2. CASE ~(p = PdOf[t] /\ d = c)
  <2>1. CopiesOf(r, p, d) = CopiesOf(o, p, d)
    BY <1>1, <1>2 DEF CopiesOf
  <2>2. QED BY <1>2, <2>1
<1>3. CASE p = PdOf[t] /\ d = c
  <2> DEFINE x == <<t, o[t][c]>>
  <2>1. o[t][c] \in Nat /\ o[t][c] \in 1 .. MaxCopies
    BY CapabilityAssumption
  <2>2. x \in Thread \X (1 .. MaxCopies) /\ x[1] = t /\ x[2] = o[t][c]
    BY <2>1
  <2>3. x \in CopiesOf(o, p, d) /\ x \notin CopiesOf(r, p, d)
    BY <1>1, <1>3, <2>1, <2>2 DEF CopiesOf
  <2>4. \A y \in Thread \X (1 .. MaxCopies) : y # x => (y \in CopiesOf(r, p, d) <=> y \in CopiesOf(o, p, d))
    <3>1. SUFFICES ASSUME NEW y \in Thread \X (1 .. MaxCopies), y # x
                   PROVE  y \in CopiesOf(r, p, d) <=> y \in CopiesOf(o, p, d)
      OBVIOUS
    <3>2. y[1] \in Thread /\ y[2] \in 1 .. MaxCopies /\ y = <<y[1], y[2]>>
      OBVIOUS
    <3>3. y[1] = t => y[2] # x[2]
      BY <2>2, <3>1, <3>2
    <3>4. y[1] = t => (y[2] <= o[t][c] - 1 <=> y[2] <= o[t][c])
      <4>1. PICK k \in Nat, n \in Nat : k = y[2] /\ n = o[t][c]
        BY <2>1, <3>2
      <4>2. QED BY <2>2, <3>3, <4>1
    <3>5. r[y[1]][c] = IF y[1] = t THEN o[t][c] - 1 ELSE o[y[1]][c]
      BY <1>1, <3>2
    <3>6. QED BY <1>3, <3>1, <3>4, <3>5 DEF CopiesOf
  <2>5. CopiesOf(r, p, d) = CopiesOf(o, p, d) \ {x}
    <3>1. CopiesOf(o, p, d) \subseteq Thread \X (1 .. MaxCopies) /\ CopiesOf(r, p, d) \subseteq Thread \X (1 .. MaxCopies)
      BY DEF CopiesOf
    <3> HIDE DEF x
    <3>2. QED BY <2>3, <2>4, <3>1
  <2>6. IsFiniteSet(CopiesOf(o, p, d))
    BY CopiesBound
  <2> HIDE DEF x
  <2>7. Cardinality(CopiesOf(o, p, d) \ {x}) = Cardinality(CopiesOf(o, p, d)) - 1
    BY <2>3, <2>6, FS_RemoveElement
  <2>8. QED BY <1>3, <2>5, <2>7
<1>4. QED BY <1>2, <1>3

\* Counters stay exact.
LEMMA CopiesStep ==
  ASSUME HandInv, CopiesCounted, NoWrap, [Next]_vars
  PROVE  CopiesCounted'
<1>0. UserTypes /\ UserTypes'
  BY HandTypesStep DEF HandInv
<1> SUFFICES ASSUME NEW p \in Pd \ {Core}, NEW d \in Capid
             PROVE  counter'[p][d] = Cardinality(CopiesOf(own', p, d))
  BY DEF CopiesCounted
<1>1. counter[p][d] = Cardinality(CopiesOf(own, p, d)) /\ counter[p][d] \in 0 .. RefMod - 1
  BY <1>0 DEF CopiesCounted, UserTypes
<1>2. Cardinality(CopiesOf(own', p, d)) \in 0 .. RefMod - 1
  <2>1. own' \in [Thread -> [Capid -> 0 .. MaxCopies]]
    BY <1>0 DEF UserTypes
  <2>2. QED BY <2>1, CopiesBound
<1>3. CASE UNCHANGED <<own, counter>>
  BY <1>1, <1>3 DEF CopiesOf
<1>4. ASSUME NEW t \in Thread, NEW c \in Capid, PdOf[t] # Core, own[t][c] < MaxCopies,
             Count(t, c, 1), own' = [own EXCEPT ![t][c] = @ + 1]
      PROVE  counter'[p][d] = Cardinality(CopiesOf(own', p, d))
  <2>1. Cardinality(CopiesOf(own', p, d)) = IF p = PdOf[t] /\ d = c THEN Cardinality(CopiesOf(own, p, d)) + 1
                                     ELSE Cardinality(CopiesOf(own, p, d))
    <3>1. own \in [Thread -> [Capid -> 0 .. MaxCopies]]
      BY <1>0 DEF UserTypes
    <3>2. OneMoreCopy(own, [own EXCEPT ![t][c] = @ + 1], t, c)
      BY <1>4, <3>1, OneMore
    <3>3. OneMoreCopy(own, own', t, c)
      BY <1>4, <3>2
    <3>4. QED BY <3>3 DEF OneMoreCopy
  <2>2. counter'[p][d] = IF p = PdOf[t] /\ d = c THEN (counter[p][d] + 1) % RefMod ELSE counter[p][d]
    BY <1>0, <1>4 DEF Count, UserTypes
  <2>3. QED BY <1>1, <1>2, <2>1, <2>2, CountValues, CapabilityAssumption
<1>5. ASSUME NEW t \in Thread, NEW c \in Capid, Drop(t, c)
      PROVE  counter'[p][d] = Cardinality(CopiesOf(own', p, d))
  <2>1. Cardinality(CopiesOf(own', p, d)) = IF p = PdOf[t] /\ d = c THEN Cardinality(CopiesOf(own, p, d)) - 1
                                     ELSE Cardinality(CopiesOf(own, p, d))
    <3>1. own \in [Thread -> [Capid -> 0 .. MaxCopies]]
      BY <1>0 DEF UserTypes
    <3>2. own' = [own EXCEPT ![t][c] = @ - 1] /\ own[t][c] > 0
      BY <1>5 DEF Drop
    <3>3. OneLessCopy(own, [own EXCEPT ![t][c] = @ - 1], t, c)
      BY <3>1, <3>2, OneLess
    <3>4. OneLessCopy(own, own', t, c)
      BY <3>2, <3>3
    <3>5. QED BY <3>4 DEF OneLessCopy
  <2>2. counter'[p][d] = IF p = PdOf[t] /\ d = c THEN (counter[p][d] + (RefMod - 1)) % RefMod
                         ELSE counter[p][d]
    BY <1>0, <1>5 DEF Drop, Count, UserTypes
  <2>3. QED BY <1>1, <1>2, <2>1, <2>2, CountValues, CapabilityAssumption
<1>6. QED BY <1>3, <1>4, <1>5, CopyCases

\* A thread about to delete a capability was so before the step, or has just dropped the last copy.
LEMMA DeleteCases ==
  ASSUME HandInv, [Next]_vars, NEW t \in Thread, pc'[t] = "delete"
  PROVE  \/ pc[t] = "delete" /\ utcb'[t] = utcb[t]
         \/ \E c \in Capid : Drop(t, c) /\ utcb'[t] = c /\ counter'[PdOf[t]][c] = 0
<1> DEFINE Goal == \/ pc[t] = "delete" /\ utcb'[t] = utcb[t]
                   \/ \E c \in Capid : Drop(t, c) /\ utcb'[t] = c /\ counter'[PdOf[t]][c] = 0
<1> USE DEF HandInv, CountInv, CapTypes
<1>1. ASSUME NEW u \in Thread, NEW i \in Identity, NEW o \in Object, NEW c \in Capid, NewObj(u, i, o, c)
      PROVE  Goal
  BY <1>1 DEF NewObj, userVars
<1>2. ASSUME NEW u \in Thread, NEW i \in Identity, DeleteObj(u, i) PROVE Goal
  BY <1>2 DEF DeleteObj, userVars
<1>3. ASSUME NEW u \in Thread, NEW o \in Object, DestroyObject(u, o) PROVE Goal
  BY <1>3 DEF DestroyObject, userVars
<1>4. ASSUME NEW u \in Thread, Wait(u) \/ Cancel(u) \/ Kill(u) \/ ImportInvalid(u) \/ Import(u)
      PROVE  Goal
  BY <1>4 DEF Wait, Receptive, Cancel, Kill, ImportInvalid, Import, Goto
<1>5. ASSUME NEW u \in Thread, AckCap(u) \/ DeleteCap(u) PROVE Goal
  BY <1>5 DEF AckCap, DeleteCap, Goto
<1>6. ASSUME NEW v \in Thread, NEW u \in Thread \ {v}, NEW c \in Capid \cup {NoCap}, Send(v, u, c) PROVE Goal
  <2>1. /\ \E d \in Capid \cup {NoCap} : utcb' = [utcb EXCEPT ![u] = d]
        /\ pc' = [pc EXCEPT ![u] = "import"]
    BY <1>6 DEF Send, CopyKnown, CopyNew, CopyInvalid, Deliver, Goto, Find, Ids, FreeIds
  <2>2. QED BY <2>1
<1>7. ASSUME NEW u \in Thread, NEW c \in Capid, Copy(u, c) PROVE Goal
  BY <1>7 DEF Copy
<1>8. ASSUME NEW u \in Thread, NEW c \in Capid, Drop(u, c) PROVE Goal
  <2>1. CASE u = t
    <3>1. counter'[PdOf[t]][c] = 0 /\ utcb' = [utcb EXCEPT ![t] = c]
      BY <1>8, <2>1 DEF Drop, Goto
    <3>2. QED BY <1>8, <2>1, <3>1
  <2>2. CASE u # t
    BY <1>8, <2>2 DEF Drop, Goto
  <2>3. QED BY <2>1, <2>2
<1>9. ASSUME UNCHANGED vars PROVE Goal
  BY <1>9 DEF vars, userVars
<1>w. ASSUME NEW u \in Thread, NEW n \in 0 .. RcvCaps - 1, WaitFails(u, n) PROVE Goal
  BY <1>w DEF WaitFails, userVars
<1> HIDE DEF Goal
<1>10. Goal
  BY <1>1, <1>2, <1>3, <1>4, <1>5, <1>6, <1>7, <1>8, <1>9, <1>w DEF Next
<1>11. QED BY <1>10 DEF Goal

\* Nobody counts while another thread of the PD holds the spinlock to delete.
LEMMA DeleteStep ==
  ASSUME HandInv, DeleteOK, [Next]_vars
  PROVE  DeleteOK'
<1> SUFFICES ASSUME NEW t \in Thread, pc'[t] = "delete"
             PROVE  counter'[PdOf[t]][utcb'[t]] = 0
  BY DEF DeleteOK
<1>1. CASE pc[t] = "delete" /\ utcb'[t] = utcb[t]
  <2>1. spinlock[PdOf[t]] = t /\ utcb[t] \in Capid /\ counter[PdOf[t]][utcb[t]] = 0
    BY <1>1 DEF HandInv, HandOK, DeleteOK
  <2>2. \A u \in Thread : Unlocked(u) => PdOf[u] # PdOf[t]
    BY <2>1, CapabilityAssumption DEF Unlocked
  <2>3. ASSUME NEW u \in Thread, NEW c \in Capid, NEW n \in Nat, Unlocked(u), Count(u, c, n)
        PROVE  counter'[PdOf[t]][utcb[t]] = 0
    <3>1. PdOf[t] \in Pd /\ PdOf[t] # PdOf[u]
      BY <2>2, <2>3, CapabilityAssumption
    <3>2. counter'[PdOf[t]] = counter[PdOf[t]]
      BY <2>3, <3>1 DEF Count, HandInv, UserTypes
    <3>3. QED BY <2>1, <3>2
  <2>4. ASSUME NEW u \in Thread, NEW c \in Capid, Drop(u, c)
        PROVE  counter'[PdOf[t]][utcb[t]] = 0
    <3>1. RefMod - 1 \in Nat /\ Unlocked(u) /\ Count(u, c, RefMod - 1)
      BY <2>4, CapabilityAssumption DEF Drop
    <3>2. QED BY <2>3, <3>1
  <2>5. 1 \in Nat
    OBVIOUS
  <2>6. counter'[PdOf[t]][utcb[t]] = 0
    BY <2>1, <2>3, <2>4, <2>5, CopyCases
  <2>7. QED BY <1>1, <2>6
<1>2. CASE \E c \in Capid : Drop(t, c) /\ utcb'[t] = c /\ counter'[PdOf[t]][c] = 0
  BY <1>2
<1>3. QED BY <1>1, <1>2, DeleteCases

\* Nothing is deleted that a thread of the PD has or finds in its UTCB.
LEMMA HeldStep ==
  ASSUME CopyInv, NoWrap, [Next]_vars, NEW t \in Thread, NEW c \in Capid,
         PdOf[t] # Core, cap[PdOf[t]][c] # NoCap, own[t][c] > 0 \/ InUtcb(t, c)
  PROVE  /\ cap'[PdOf[t]][c] # NoCap
         /\ cap'[PdOf[t]][c].identity \in {cap[PdOf[t]][c].identity, Null}
<1> DEFINE p == PdOf[t]
           Goal == cap'[p][c] # NoCap /\ cap'[p][c].identity \in {cap[p][c].identity, Null}
<1>0. /\ p \in Pd /\ p # Core /\ cap[p][c] \in Reference /\ CapTypes /\ c \in Ids(p)
      /\ cap \in [Pd -> [Capid -> Reference \cup {NoCap}]]
  BY CapabilityAssumption DEF CopyInv, HandInv, CountInv, CapTypes, Ids
<1>a. ASSUME cap'[p][c] = cap[p][c] PROVE Goal
  BY <1>0, <1>a, References
<1>b. ASSUME NEW r, cap'[p][c] = [cap[p][c] EXCEPT !.in_utcbs = r], cap'[p][c] \in Reference PROVE Goal
  BY <1>0, <1>b, References DEF Reference
<1>1. ASSUME NEW u \in Thread, NEW i \in Identity, NEW o \in Object, NEW d \in Capid, NewObj(u, i, o, d)
      PROVE  Goal
  <2>1. cap'[p][c] = cap[p][c]
    BY <1>0, <1>1, CapabilityAssumption DEF NewObj
  <2>2. QED BY <1>a, <2>1
<1>2. ASSUME NEW u \in Thread, NEW i \in Identity, DeleteObj(u, i) PROVE Goal
  <2> DEFINE C == [cap EXCEPT ![Core][capid[i]] = NoCap]
  <2>1. C \in [Pd -> [Capid -> Reference \cup {NoCap}]] /\ cap' = Invalidated(C, {i})
    BY <1>0, <1>2, CapabilityAssumption DEF DeleteObj, CapTypes
  <2>2. C[p][c] = cap[p][c]
    BY <1>0, CapabilityAssumption
  <2> HIDE DEF C
  <2>3. QED BY <1>0, <2>1, <2>2, InvalidatedRefs
<1>3. ASSUME NEW u \in Thread, NEW o \in Object, DestroyObject(u, o) PROVE Goal
  <2>1. cap' = Invalidated(cap, {i \in Identity : object[i] = o})
    BY <1>3 DEF DestroyObject
  <2>2. QED BY <1>0, <2>1, InvalidatedRefs
<1>4. ASSUME NEW u \in Thread, Wait(u) \/ Cancel(u) \/ Kill(u) \/ ImportInvalid(u) \/ Import(u)
      PROVE  Goal
  <2>1. cap' = cap
    BY <1>4 DEF Wait, Receptive, Cancel, Kill, ImportInvalid, Import, kernelVars
  <2>2. QED BY <1>a, <2>1
<1>5. ASSUME NEW u \in Thread, NEW i \in Identity \cup {Null}, CopyKnown(u, i) PROVE Goal
  <2>1. PICK d \in Find(PdOf[u], i) : cap' = [cap EXCEPT ![PdOf[u]][d].in_utcbs = Up(@)]
    BY <1>5 DEF CopyKnown
  <2>2. d \in Capid /\ PdOf[u] \in Pd
    BY CapabilityAssumption DEF Find, Ids
  <2>3. CASE p = PdOf[u] /\ c = d
    <3>1. cap'[p][c] = [cap[p][c] EXCEPT !.in_utcbs = Up(cap[p][c].in_utcbs)]
      BY <1>0, <2>1, <2>2, <2>3
    <3>2. cap'[p][c] \in Reference
      BY <1>0, <3>1, References
    <3>3. QED BY <1>b, <3>1, <3>2
  <2>4. CASE ~(p = PdOf[u] /\ c = d)
    <3>1. cap'[p][c] = cap[p][c]
      BY <1>0, <2>1, <2>2, <2>4
    <3>2. QED BY <1>a, <3>1
  <2>5. QED BY <2>3, <2>4
<1>6. ASSUME NEW u \in Thread, NEW i \in Identity \cup {Null}, CopyNew(u, i) PROVE Goal
  <2>1. PICK d \in FreeIds(PdOf[u]) :
          cap' = [cap EXCEPT ![PdOf[u]][d] = [identity |-> i, in_utcbs |-> 1]]
    BY <1>6 DEF CopyNew
  <2>2. d \in Capid /\ PdOf[u] \in Pd /\ ~(p = PdOf[u] /\ c = d)
    BY <1>0, CapabilityAssumption DEF FreeIds
  <2>3. cap'[p][c] = cap[p][c]
    BY <1>0, <2>1, <2>2
  <2>4. QED BY <1>a, <2>3
<1>7. ASSUME NEW u \in Thread, NEW i \in Identity \cup {Null}, CopyInvalid(u, i) PROVE Goal
  BY <1>a, <1>7 DEF CopyInvalid
<1>8. ASSUME NEW v \in Thread, NEW u \in Thread \ {v}, NEW d \in Capid \cup {NoCap}, Send(v, u, d) PROVE Goal
  <2>1. Designated(v, d) \in Identity \cup {Null}
    BY <1>0, <1>8, SentIdentity DEF Send
  <2> HIDE DEF Goal
  <2>2. QED BY <1>5, <1>6, <1>7, <1>8, <2>1 DEF Send
<1>9. ASSUME NEW u \in Thread, AckCap(u) PROVE Goal
  <2>1. CASE p = PdOf[u] /\ c = utcb[u]
    <3>1. cap'[p][c] = [cap[p][c] EXCEPT !.in_utcbs = Down(cap[p][c].in_utcbs)]
      BY <1>0, <1>9, <2>1 DEF AckCap
    <3>2. cap'[p][c] \in Reference
      BY <1>0, <3>1, References
    <3>3. QED BY <1>b, <3>1, <3>2
  <2>2. CASE ~(p = PdOf[u] /\ c = utcb[u])
    <3>1. cap'[p][c] = cap[p][c]
      BY <1>0, <1>9, <2>2, CapabilityAssumption DEF AckCap, Ids
    <3>2. QED BY <1>a, <3>1
  <2>3. QED BY <2>1, <2>2
<1>10. ASSUME NEW u \in Thread, NEW d \in Capid, Copy(u, d) \/ Drop(u, d) PROVE Goal
  <2>1. cap' = cap
    BY <1>10 DEF Copy, Drop, kernelVars
  <2>2. QED BY <1>a, <2>1
<1>11. ASSUME NEW u \in Thread, DeleteCap(u) PROVE Goal
  <2>1. CASE p = PdOf[u] /\ c = utcb[u]
    <3>1. counter[p][c] = 0
      BY <1>11, <2>1 DEF DeleteCap, CopyInv, DeleteOK
    <3>2. own[t][c] = 0
      <4>1. Cardinality(CopiesOf(own, p, c)) = 0 /\ own \in [Thread -> [Capid -> 0 .. MaxCopies]]
        BY <1>0, <3>1 DEF CopyInv, CopiesCounted, HandInv, UserTypes
      <4>2. \A v \in Members(p) : own[v][c] = 0
        BY <1>0, <4>1, CopiesBound
      <4>3. QED BY <4>2 DEF Members
    <3>3. t \in Receivers(p, c)
      BY <1>0, <3>2 DEF Receivers, CopyInv, HandInv, UserTypes
    <3>4. cap[p][c].in_utcbs # 0
      BY <1>0, <3>3, ReceiversCount DEF CopyInv, HandInv, CountInv, UtcbsCounted
    <3>5. cap' = cap
      BY <1>11, <2>1, <3>4 DEF DeleteCap
    <3>6. QED BY <1>a, <3>5
  <2>2. CASE ~(p = PdOf[u] /\ c = utcb[u])
    <3>1. cap'[p][c] = cap[p][c]
      BY <1>0, <1>11, <2>2, CapabilityAssumption DEF DeleteCap, Ids
    <3>2. QED BY <1>a, <3>1
  <2>3. QED BY <2>1, <2>2
<1>12. ASSUME UNCHANGED vars PROVE Goal
  BY <1>a, <1>12 DEF vars, kernelVars
<1>w. ASSUME NEW u \in Thread, NEW n \in 0 .. RcvCaps - 1, WaitFails(u, n) PROVE Goal
  BY <1>a, <1>w DEF WaitFails
<1> HIDE DEF Goal
<1>13. Goal
  BY <1>1, <1>2, <1>3, <1>4, <1>8, <1>9, <1>10, <1>11, <1>12, <1>w DEF Next
<1>14. QED BY <1>13 DEF Goal

---------------------------------------------------------------------------
(***************************************************************************)
(* The slab                                                                *)
(***************************************************************************)

\* The threads of PD p that hold blocks for a message, and its references that are in blocks
Waiting(p) == {t \in Thread : PdOf[t] = p /\ pc[t] = "wait"}
Refs(p) == IF p = Core THEN {} ELSE Ids(p)

\* The slab of PD p has as many blocks in use as they need, and those that are lost
SlabOK(p) ==
  /\ IsFiniteSet(Refs(p))
  /\ slab[p] = RcvCaps * Cardinality(Waiting(p)) + Cardinality(Refs(p)) + lost[p]

\* One waiting thread more or less has RcvCaps blocks more or less.
LEMMA BlocksOfOne ==
  ASSUME NEW n \in Nat
  PROVE  /\ RcvCaps * n \in Nat
         /\ RcvCaps * (n + 1) = RcvCaps * n + RcvCaps
         /\ RcvCaps * (n - 1) = RcvCaps * n - RcvCaps
  BY CapabilityAssumption

\* Waiting threads can be counted.
LEMMA WaitingFinite ==
  ASSUME NEW S \in SUBSET Thread
  PROVE  IsFiniteSet(S) /\ Cardinality(S) \in Nat
  BY CapabilityAssumption, FS_Subset, FS_CardinalityType

\* A step that moves no block of a PD.
LEMMA SlabKept ==
  ASSUME NEW p \in Pd, SlabOK(p), slab'[p] = slab[p], Waiting(p)' = Waiting(p),
         Refs(p)' = Refs(p), lost'[p] = lost[p]
  PROVE  SlabOK(p)'
  BY DEF SlabOK

\* A PD keeps its references if none appears or vanishes.
LEMMA RefsKept ==
  ASSUME NEW p \in Pd, p # Core => \A c \in Capid : cap'[p][c] = NoCap <=> cap[p][c] = NoCap
  PROVE  Refs(p)' = Refs(p)
  BY DEF Refs, Ids

\* A message is delivered to thread u: its blocks are given back or one becomes reference c.
LEMMA SlabDelivered ==
  ASSUME HandInv, NEW p \in Pd, SlabOK(p), NEW u \in Thread, pc[u] = "wait",
         NEW c \in Capid \cup {NoCap}, NEW used \in BOOLEAN, Deliver(u, c, used),
         p = PdOf[u] /\ used => c \in Capid /\ Refs(p)' = Refs(p) \cup {c} /\ c \notin Refs(p),
         ~(p = PdOf[u] /\ used) => Refs(p)' = Refs(p)
  PROVE  SlabOK(p)'
<1>1. pc' = [pc EXCEPT ![u] = "import"] /\ lost' = lost
  BY DEF Deliver, Goto
<1>2. slab' = [slab EXCEPT ![PdOf[u]] = @ - (IF used THEN RcvCaps - 1 ELSE RcvCaps)]
  BY DEF Deliver
<1>3. CASE p # PdOf[u]
  <2>1. slab'[p] = slab[p]
    BY <1>2, <1>3 DEF HandInv, UserTypes
  <2>2. Waiting(p)' = Waiting(p)
    BY <1>1, <1>3 DEF Waiting, HandInv, CountInv, CapTypes
  <2>3. QED BY <1>1, <1>3, <2>1, <2>2, SlabKept
<1>4. CASE p = PdOf[u]
  <2>1. Waiting(p)' = Waiting(p) \ {u} /\ u \in Waiting(p)
    BY <1>1, <1>4 DEF Waiting, HandInv, CountInv, CapTypes
  <2>2. IsFiniteSet(Waiting(p)) /\ Cardinality(Waiting(p)) \in Nat
    BY WaitingFinite DEF Waiting
  <2>3. Cardinality(Waiting(p)') = Cardinality(Waiting(p)) - 1
    BY <2>1, <2>2, FS_RemoveElement
  <2>4. IsFiniteSet(Refs(p)) /\ Cardinality(Refs(p)) \in Nat
    BY FS_CardinalityType DEF SlabOK
  <2>5. slab[p] \in Int /\ lost[p] \in Nat
    BY DEF HandInv, UserTypes
  <2>6. PICK w \in Nat, r \in Nat, m \in Nat, m1 \in Int :
          /\ w = Cardinality(Waiting(p)) /\ r = Cardinality(Refs(p))
          /\ m = RcvCaps * w /\ m1 = RcvCaps * (w - 1) /\ m1 = m - RcvCaps
    BY <2>2, <2>4, BlocksOfOne, CapabilityAssumption
  <2>7. slab[p] = m + r + lost[p]
    BY <2>6 DEF SlabOK
  <2>8. CASE used
    <3>1. IsFiniteSet(Refs(p) \cup {c}) /\ Cardinality(Refs(p) \cup {c}) = Cardinality(Refs(p)) + 1
      BY <1>4, <2>4, <2>8, FS_AddElement
    <3>2. IsFiniteSet(Refs(p)') /\ Cardinality(Refs(p)') = r + 1 /\ slab'[p] = slab[p] - (RcvCaps - 1)
      BY <1>2, <1>4, <2>6, <2>8, <3>1 DEF HandInv, UserTypes
    <3>3. slab[p] - (RcvCaps - 1) = m1 + (r + 1) + lost[p]
      BY <2>5, <2>6, <2>7, CapabilityAssumption
    <3>4. QED BY <1>1, <2>3, <2>6, <3>2, <3>3 DEF SlabOK
  <2>9. CASE ~used
    <3>1. slab'[p] = slab[p] - RcvCaps
      BY <1>2, <1>4, <2>9 DEF HandInv, UserTypes
    <3>2. Refs(p)' = Refs(p)
      BY <2>9
    <3>3. slab[p] - RcvCaps = m1 + r + lost[p]
      BY <2>5, <2>6, <2>7, CapabilityAssumption
    <3>4. QED BY <1>1, <2>3, <2>4, <2>6, <3>1, <3>2, <3>3 DEF SlabOK
  <2>10. QED BY <2>8, <2>9
<1>5. QED BY <1>3, <1>4

\* Blocks are in use for references and waiting threads, or lost.
LEMMA SlabStep ==
  ASSUME HandInv, [Next]_vars, NEW p \in Pd, SlabOK(p)
  PROVE  SlabOK(p)'
<1> USE CapabilityAssumption
<1>0. CapTypes /\ UserTypes /\ cap \in [Pd -> [Capid -> Reference \cup {NoCap}]] /\ slab[p] \in Int
      /\ lost[p] \in Nat
  BY DEF HandInv, CountInv, CapTypes, UserTypes
<1>a. /\ IsFiniteSet(Waiting(p)) /\ Cardinality(Waiting(p)) \in Nat
      /\ IsFiniteSet(Refs(p)) /\ Cardinality(Refs(p)) \in Nat
  BY WaitingFinite, FS_CardinalityType DEF Waiting, SlabOK
<1>1. ASSUME NEW t \in Thread, NEW i \in Identity, NEW o \in Object, NEW c \in Capid, NewObj(t, i, o, c)
      PROVE  SlabOK(p)'
  <2>1. p # Core => \A d \in Capid : cap'[p][d] = cap[p][d]
    BY <1>0, <1>1 DEF NewObj
  <2>2. slab' = slab /\ pc' = pc /\ lost' = lost
    BY <1>1 DEF NewObj, userVars
  <2>3. Waiting(p)' = Waiting(p) /\ Refs(p)' = Refs(p)
    BY <2>1, <2>2, RefsKept DEF Waiting
  <2>4. QED BY <2>2, <2>3, SlabKept
<1>2. ASSUME NEW t \in Thread, NEW i \in Identity, DeleteObj(t, i) PROVE SlabOK(p)'
  <2> DEFINE C == [cap EXCEPT ![Core][capid[i]] = NoCap]
  <2>1. C \in [Pd -> [Capid -> Reference \cup {NoCap}]] /\ cap' = Invalidated(C, {i})
    BY <1>0, <1>2 DEF DeleteObj, CapTypes
  <2>2. p # Core => \A d \in Capid : C[p][d] = cap[p][d]
    BY <1>0
  <2> HIDE DEF C
  <2>3. p # Core => \A d \in Capid : cap'[p][d] = NoCap <=> cap[p][d] = NoCap
    BY <2>1, <2>2, InvalidatedRefs
  <2>4. slab' = slab /\ pc' = pc /\ lost' = lost
    BY <1>2 DEF DeleteObj, userVars
  <2>5. Waiting(p)' = Waiting(p) /\ Refs(p)' = Refs(p)
    BY <2>3, <2>4, RefsKept DEF Waiting
  <2>6. QED BY <2>4, <2>5, SlabKept
<1>3. ASSUME NEW t \in Thread, NEW o \in Object, DestroyObject(t, o) PROVE SlabOK(p)'
  <2>1. cap' = Invalidated(cap, {i \in Identity : object[i] = o})
    BY <1>3 DEF DestroyObject
  <2>2. \A d \in Capid : cap'[p][d] = NoCap <=> cap[p][d] = NoCap
    BY <1>0, <2>1, InvalidatedRefs
  <2>3. slab' = slab /\ pc' = pc /\ lost' = lost
    BY <1>3 DEF DestroyObject, userVars
  <2>4. Waiting(p)' = Waiting(p) /\ Refs(p)' = Refs(p)
    BY <2>2, <2>3, RefsKept DEF Waiting
  <2>5. QED BY <2>3, <2>4, SlabKept
<1>4. ASSUME NEW t \in Thread, Wait(t) PROVE SlabOK(p)'
  <2>1. cap' = cap /\ lost' = lost /\ pc[t] = "run" /\ pc' = [pc EXCEPT ![t] = "wait"]
    BY <1>4 DEF Wait, Receptive, Goto
  <2>2. Refs(p)' = Refs(p)
    BY <2>1, RefsKept
  <2>3. CASE p # PdOf[t]
    <3>1. slab'[p] = slab[p] /\ Waiting(p)' = Waiting(p)
      BY <1>0, <1>4, <2>1, <2>3 DEF Wait, Receptive, Waiting, CapTypes, UserTypes
    <3>2. QED BY <2>1, <2>2, <3>1, SlabKept
  <2>4. CASE p = PdOf[t]
    <3>1. Waiting(p)' = Waiting(p) \cup {t} /\ t \notin Waiting(p)
      BY <1>0, <2>1, <2>4 DEF Waiting, CapTypes
    <3>2. Cardinality(Waiting(p)') = Cardinality(Waiting(p)) + 1
      BY <1>a, <3>1, FS_AddElement
    <3>3. slab'[p] = slab[p] + RcvCaps
      BY <1>0, <1>4, <2>4 DEF Wait, UserTypes
    <3>4. PICK w \in Nat, r \in Nat, m \in Nat, m1 \in Nat :
            /\ w = Cardinality(Waiting(p)) /\ r = Cardinality(Refs(p))
            /\ m = RcvCaps * w /\ m1 = RcvCaps * (w + 1) /\ m1 = m + RcvCaps
      BY <1>a, BlocksOfOne, CapabilityAssumption
    <3>5. slab[p] + RcvCaps = m1 + r + lost[p]
      BY <1>0, <3>4, CapabilityAssumption DEF SlabOK
    <3>6. QED BY <1>a, <2>1, <2>2, <3>2, <3>3, <3>4, <3>5 DEF SlabOK
  <2>5. QED BY <2>3, <2>4
<1>5. ASSUME NEW t \in Thread, Cancel(t) \/ Kill(t) PROVE SlabOK(p)'
  <2>1. cap' = cap /\ slab' = slab /\ Unreceived(t)
    BY <1>5 DEF Cancel, Kill, kernelVars
  <2>2. Refs(p)' = Refs(p)
    BY <2>1, RefsKept
  <2>3. \E w \in {"run", "dead"} : pc' = [pc EXCEPT ![t] = w]
    BY <1>5 DEF Cancel, Kill, Goto
  <2>4. CASE ~(p = PdOf[t] /\ pc[t] = "wait")
    <3>1. Waiting(p)' = Waiting(p)
      BY <1>0, <2>3, <2>4 DEF Waiting, CapTypes
    <3>2. lost'[p] = lost[p]
      BY <1>0, <2>1, <2>4 DEF Unreceived, UserTypes
    <3>3. QED BY <2>1, <2>2, <3>1, <3>2, SlabKept
  <2>5. CASE p = PdOf[t] /\ pc[t] = "wait"
    <3>1. Waiting(p)' = Waiting(p) \ {t} /\ t \in Waiting(p)
      BY <1>0, <2>3, <2>5 DEF Waiting, CapTypes
    <3>2. Cardinality(Waiting(p)') = Cardinality(Waiting(p)) - 1
      BY <1>a, <3>1, FS_RemoveElement
    <3>3. lost'[p] = lost[p] + RcvCaps
      BY <1>0, <2>1, <2>5 DEF Unreceived, UserTypes
    <3>4. PICK w \in Nat, r \in Nat, m \in Nat, m1 \in Int :
            /\ w = Cardinality(Waiting(p)) /\ r = Cardinality(Refs(p))
            /\ m = RcvCaps * w /\ m1 = RcvCaps * (w - 1) /\ m1 = m - RcvCaps
      BY <1>a, BlocksOfOne, CapabilityAssumption
    <3>5. slab[p] = m1 + r + (lost[p] + RcvCaps)
      BY <1>0, <3>4, CapabilityAssumption DEF SlabOK
    <3>6. QED BY <1>a, <2>1, <2>2, <3>2, <3>3, <3>4, <3>5 DEF SlabOK
  <2>6. QED BY <2>4, <2>5
<1>w. ASSUME NEW t \in Thread, NEW n \in 0 .. RcvCaps - 1, WaitFails(t, n) PROVE SlabOK(p)'
  <2>1. /\ cap' = cap /\ pc' = pc
        /\ slab' = [slab EXCEPT ![PdOf[t]] = @ + n] /\ lost' = [lost EXCEPT ![PdOf[t]] = @ + n]
    BY <1>w DEF WaitFails, userVars
  <2>2. Refs(p)' = Refs(p) /\ Waiting(p)' = Waiting(p)
    BY <2>1, RefsKept DEF Waiting
  <2>3. CASE p # PdOf[t]
    <3>1. slab'[p] = slab[p] /\ lost'[p] = lost[p]
      BY <1>0, <2>1, <2>3 DEF UserTypes
    <3>2. QED BY <2>2, <3>1, SlabKept
  <2>4. CASE p = PdOf[t]
    <3>1. slab'[p] = slab[p] + n /\ lost'[p] = lost[p] + n
      BY <1>0, <2>1, <2>4 DEF UserTypes
    <3>2. PICK r \in Nat, m \in Nat : r = Cardinality(Refs(p)) /\ m = RcvCaps * Cardinality(Waiting(p))
      BY <1>a, BlocksOfOne
    <3>3. n \in Nat /\ slab[p] + n = m + r + (lost[p] + n)
      BY <1>0, <3>2 DEF SlabOK
    <3>4. QED BY <1>a, <2>2, <3>1, <3>2, <3>3 DEF SlabOK
  <2>5. QED BY <2>3, <2>4
<1>6. ASSUME NEW u \in Thread, NEW i \in Identity \cup {Null}, pc[u] = "wait", CopyKnown(u, i)
      PROVE  SlabOK(p)'
  <2>1. PICK c \in Find(PdOf[u], i) :
          cap' = [cap EXCEPT ![PdOf[u]][c].in_utcbs = Up(@)] /\ Deliver(u, c, FALSE)
    BY <1>6 DEF CopyKnown
  <2>2. c \in Capid /\ PdOf[u] \in Pd /\ cap[PdOf[u]][c] \in Reference
    BY <1>0 DEF Find, Ids
  <2>3. [cap[PdOf[u]][c] EXCEPT !.in_utcbs = Up(cap[PdOf[u]][c].in_utcbs)] # NoCap
    BY <2>2, References
  <2>4. \A d \in Capid : cap'[p][d] = NoCap <=> cap[p][d] = NoCap
    BY <1>0, <2>1, <2>2, <2>3, References
  <2>5. Refs(p)' = Refs(p)
    BY <2>4, RefsKept
  <2>6. QED BY <1>6, <2>1, <2>2, <2>5, SlabDelivered
<1>7. ASSUME NEW u \in Thread, NEW i \in Identity \cup {Null}, pc[u] = "wait", CopyNew(u, i)
      PROVE  SlabOK(p)'
  <2>1. PICK c \in FreeIds(PdOf[u]) :
          /\ cap' = [cap EXCEPT ![PdOf[u]][c] = [identity |-> i, in_utcbs |-> 1]]
          /\ Deliver(u, c, TRUE)
    BY <1>7 DEF CopyNew
  <2>2. c \in Capid /\ PdOf[u] \in Pd /\ PdOf[u] # Core /\ [identity |-> i, in_utcbs |-> 1] # NoCap
    BY <1>7, References DEF FreeIds, CopyNew
  <2>3. CASE p = PdOf[u]
    <3>1. Refs(p)' = Refs(p) \cup {c} /\ c \notin Refs(p)
      BY <1>0, <2>1, <2>2, <2>3 DEF Refs, Ids, FreeIds
    <3>2. QED BY <1>7, <2>1, <2>2, <2>3, <3>1, SlabDelivered
  <2>4. CASE p # PdOf[u]
    <3>1. cap'[p] = cap[p]
      BY <1>0, <2>1, <2>2, <2>4
    <3>2. Refs(p)' = Refs(p)
      BY <3>1, RefsKept
    <3>3. QED BY <1>7, <2>1, <2>2, <2>4, <3>2, SlabDelivered
  <2>5. QED BY <2>3, <2>4
<1>8. ASSUME NEW u \in Thread, NEW i \in Identity \cup {Null}, pc[u] = "wait", CopyInvalid(u, i)
      PROVE  SlabOK(p)'
  <2>1. cap' = cap /\ Deliver(u, NoCap, FALSE)
    BY <1>8 DEF CopyInvalid
  <2>2. Refs(p)' = Refs(p)
    BY <2>1, RefsKept
  <2>3. QED BY <1>8, <2>1, <2>2, SlabDelivered
<1>9. ASSUME NEW t \in Thread, NEW u \in Thread \ {t}, NEW c \in Capid \cup {NoCap}, Send(t, u, c) PROVE SlabOK(p)'
  <2>1. Designated(t, c) \in Identity \cup {Null}
    BY <1>0, <1>9, SentIdentity DEF Send
  <2>2. QED BY <1>6, <1>7, <1>8, <1>9, <2>1 DEF Send
<1>10. ASSUME NEW t \in Thread, ImportInvalid(t) \/ Import(t) \/ AckCap(t) PROVE SlabOK(p)'
  <2>1. slab' = slab /\ lost' = lost /\ Waiting(p)' = Waiting(p)
    BY <1>0, <1>10 DEF ImportInvalid, Import, AckCap, Goto, kernelVars, Waiting, CapTypes
  <2>2. \A d \in Capid : cap'[p][d] = NoCap <=> cap[p][d] = NoCap
    <3>1. CASE cap' = cap
      BY <3>1
    <3>2. CASE AckCap(t) /\ utcb[t] \in Ids(PdOf[t])
      <4>1. utcb[t] \in Capid /\ PdOf[t] \in Pd /\ cap[PdOf[t]][utcb[t]] \in Reference
        BY <1>0, <3>2 DEF Ids
      <4>2. [cap[PdOf[t]][utcb[t]] EXCEPT !.in_utcbs = Down(cap[PdOf[t]][utcb[t]].in_utcbs)] # NoCap
        BY <4>1, References
      <4>3. QED BY <1>0, <3>2, <4>1, <4>2, References DEF AckCap
    <3>3. QED BY <1>10, <3>1, <3>2 DEF ImportInvalid, Import, AckCap, kernelVars
  <2>3. Refs(p)' = Refs(p)
    BY <2>2, RefsKept
  <2>4. QED BY <2>1, <2>3, SlabKept
<1>11. ASSUME NEW t \in Thread, NEW c \in Capid, Copy(t, c) \/ Drop(t, c) PROVE SlabOK(p)'
  <2>1. cap' = cap /\ slab' = slab /\ lost' = lost /\ Waiting(p)' = Waiting(p)
    BY <1>0, <1>11 DEF Copy, Drop, Goto, kernelVars, Waiting, CapTypes
  <2>2. Refs(p)' = Refs(p)
    BY <2>1, RefsKept
  <2>3. QED BY <2>1, <2>2, SlabKept
<1>12. ASSUME NEW t \in Thread, DeleteCap(t) PROVE SlabOK(p)'
  <2>1. PICK q \in Pd, c \in Capid : q = PdOf[t] /\ c = utcb[t] /\ q # Core
    BY <1>12 DEF DeleteCap, HandInv, HandOK
  <2>2. lost' = lost /\ Waiting(p)' = Waiting(p)
    BY <1>0, <1>12 DEF DeleteCap, Goto, Waiting, CapTypes
  <2>3. CASE c \in Ids(q) /\ cap[q][c].in_utcbs = 0 /\ p = q
    <3>1. cap' = [cap EXCEPT ![p][c] = NoCap] /\ slab' = [slab EXCEPT ![p] = @ - 1]
      BY <1>12, <2>1, <2>3 DEF DeleteCap
    <3>2. Refs(p)' = Refs(p) \ {c} /\ c \in Refs(p)
      BY <1>0, <2>1, <2>3, <3>1 DEF Refs, Ids
    <3>3. IsFiniteSet(Refs(p)') /\ Cardinality(Refs(p)') = Cardinality(Refs(p)) - 1
      BY <1>a, <3>2, FS_RemoveElement
    <3>4. slab'[p] = slab[p] - 1
      BY <1>0, <3>1 DEF UserTypes
    <3>5. Cardinality(Waiting(p)') = Cardinality(Waiting(p))
      BY <2>2
    <3>6. PICK m \in Nat, r \in Nat : m = RcvCaps * Cardinality(Waiting(p)) /\ r = Cardinality(Refs(p))
      BY <1>a, BlocksOfOne
    <3>7. slab[p] - 1 = m + (r - 1) + lost[p]
      BY <1>0, <3>6 DEF SlabOK
    <3>8. QED BY <2>2, <3>3, <3>4, <3>5, <3>6, <3>7 DEF SlabOK
  <2>4. CASE ~(c \in Ids(q) /\ cap[q][c].in_utcbs = 0 /\ p = q)
    <3>1. cap'[p] = cap[p] /\ slab'[p] = slab[p]
      BY <1>0, <1>12, <2>1, <2>4 DEF DeleteCap, UserTypes
    <3>2. Refs(p)' = Refs(p)
      BY <3>1, RefsKept
    <3>3. QED BY <2>2, <3>1, <3>2, SlabKept
  <2>5. QED BY <2>3, <2>4
<1>13. ASSUME UNCHANGED vars PROVE SlabOK(p)'
  BY <1>13 DEF vars, kernelVars, userVars, SlabOK, Refs, Ids, Waiting
<1>14. QED
  BY <1>1, <1>2, <1>3, <1>4, <1>5, <1>w, <1>9, <1>10, <1>11, <1>12, <1>13 DEF Next

---------------------------------------------------------------------------
(***************************************************************************)
(* What becomes of the references that nobody uses any more                *)
(***************************************************************************)

\* A thread of PD p has id c, has received it, or is about to delete it
UsedBy(p, c) == \E t \in Thread : PdOf[t] = p /\ (own[t][c] > 0 \/ utcb[t] = c)

\* Each reference is used
UsedOK == \A p \in Pd \ {Core}, c \in Capid : cap[p][c] # NoCap => UsedBy(p, c)

\* Users are left alone by a step that takes no copy away and fills only empty UTCBs.
LEMMA UsedKept ==
  ASSUME NEW p \in Pd \ {Core}, NEW c \in Capid, UsedBy(p, c),
         \A t \in Thread : PdOf[t] = p =>
           /\ own[t][c] > 0 => own'[t][c] > 0
           /\ utcb[t] = c => utcb'[t] = c \/ own'[t][c] > 0
  PROVE  UsedBy(p, c)'
  BY DEF UsedBy

\* A reference is unused only if it is deleted.
LEMMA UsedStep ==
  ASSUME CopyInv, CopyInv', NoWrap, UsedOK, [Next]_vars
  PROVE  UsedOK'
<1> USE CapabilityAssumption
<1> SUFFICES ASSUME NEW p \in Pd \ {Core}, NEW c \in Capid, cap'[p][c] # NoCap
             PROVE  UsedBy(p, c)'
  BY DEF UsedOK
<1>0. /\ CapTypes /\ UserTypes /\ cap \in [Pd -> [Capid -> Reference \cup {NoCap}]]
      /\ UtcbIdle /\ HandOK
  BY DEF CopyInv, HandInv, CountInv, CapTypes
<1>a. ASSUME cap[p][c] # NoCap PROVE UsedBy(p, c)
  BY <1>a DEF UsedOK
<1>b. ASSUME cap[p][c] # NoCap, own' = own, utcb' = utcb PROVE UsedBy(p, c)'
  BY <1>a, <1>b, UsedKept
<1>1. ASSUME NEW t \in Thread, NEW i \in Identity, NEW o \in Object, NEW d \in Capid, NewObj(t, i, o, d)
      PROVE  UsedBy(p, c)'
  <2>1. cap'[p][c] = cap[p][c]
    BY <1>0, <1>1 DEF NewObj
  <2>2. own' = own /\ utcb' = utcb
    BY <1>1 DEF NewObj, userVars
  <2>3. QED BY <1>b, <2>1, <2>2
<1>2. ASSUME NEW t \in Thread, NEW i \in Identity, DeleteObj(t, i) PROVE UsedBy(p, c)'
  <2> DEFINE C == [cap EXCEPT ![Core][capid[i]] = NoCap]
  <2>1. C \in [Pd -> [Capid -> Reference \cup {NoCap}]] /\ cap' = Invalidated(C, {i})
    BY <1>0, <1>2 DEF DeleteObj, CapTypes
  <2>2. C[p][c] = cap[p][c]
    BY <1>0
  <2> HIDE DEF C
  <2>3. cap[p][c] # NoCap
    BY <2>1, <2>2, InvalidatedRefs
  <2>4. own' = own /\ utcb' = utcb
    BY <1>2 DEF DeleteObj, userVars
  <2>5. QED BY <1>b, <2>3, <2>4
<1>3. ASSUME NEW t \in Thread, NEW o \in Object, DestroyObject(t, o) PROVE UsedBy(p, c)'
  <2>1. cap' = Invalidated(cap, {i \in Identity : object[i] = o})
    BY <1>3 DEF DestroyObject
  <2>2. cap[p][c] # NoCap
    BY <1>0, <2>1, InvalidatedRefs
  <2>3. own' = own /\ utcb' = utcb
    BY <1>3 DEF DestroyObject, userVars
  <2>4. QED BY <1>b, <2>2, <2>3
<1>4. ASSUME NEW t \in Thread, Wait(t) \/ ImportInvalid(t) PROVE UsedBy(p, c)'
  <2>1. cap' = cap /\ own' = own /\ utcb' = utcb
    BY <1>4 DEF Wait, Receptive, ImportInvalid, kernelVars
  <2>2. QED BY <1>b, <2>1
<1>5. ASSUME NEW t \in Thread, Cancel(t) \/ Kill(t) PROVE UsedBy(p, c)'
  <2>1. cap' = cap /\ own' = own /\ utcb' = utcb
    BY <1>5 DEF Cancel, Kill, kernelVars
  <2>2. QED BY <1>b, <2>1
<1>w. ASSUME NEW t \in Thread, NEW n \in 0 .. RcvCaps - 1, WaitFails(t, n) PROVE UsedBy(p, c)'
  BY <1>b, <1>w DEF WaitFails, userVars
<1>6. ASSUME NEW u \in Thread, NEW i \in Identity \cup {Null}, pc[u] = "wait",
             CopyKnown(u, i) \/ CopyNew(u, i) \/ CopyInvalid(u, i)
      PROVE  UsedBy(p, c)'
  <2>1. utcb[u] = NoCap /\ own' = own
    BY <1>0, <1>6 DEF UtcbIdle, CopyKnown, CopyNew, CopyInvalid, Deliver
  <2>2. PICK d \in Capid \cup {NoCap} : utcb' = [utcb EXCEPT ![u] = d]
    BY <1>6 DEF CopyKnown, CopyNew, CopyInvalid, Deliver, Find, Ids, FreeIds
  <2>3. CASE cap[p][c] # NoCap
    <3>1. UsedBy(p, c)
      BY <1>a, <2>1, <2>3
    <3>2. \A s \in Thread : utcb[s] = c => utcb'[s] = c
      BY <1>0, <2>1, <2>2 DEF CapTypes
    <3>3. QED BY <2>1, <3>1, <3>2, UsedKept
  <2>4. CASE cap[p][c] = NoCap
    <3>1. CASE CopyNew(u, i)
      <4>1. PICK e \in Capid : /\ cap' = [cap EXCEPT ![PdOf[u]][e] = [identity |-> i, in_utcbs |-> 1]]
                               /\ utcb' = [utcb EXCEPT ![u] = e]
        BY <3>1 DEF CopyNew, Deliver, FreeIds
      <4>2. p = PdOf[u] /\ c = e
        BY <1>0, <2>4, <4>1
      <4>3. utcb'[u] = c
        BY <1>0, <4>1, <4>2 DEF CapTypes
      <4>4. QED BY <4>2, <4>3 DEF UsedBy
    <3>2. CASE CopyKnown(u, i)
      <4>1. PICK e \in Capid : /\ cap[PdOf[u]][e] # NoCap
                               /\ cap' = [cap EXCEPT ![PdOf[u]][e].in_utcbs = Up(@)]
        BY <3>2 DEF CopyKnown, Find, Ids
      <4>2. cap'[p][c] = cap[p][c]
        BY <1>0, <2>4, <4>1
      <4>3. QED BY <2>4, <4>2
    <3>3. CASE CopyInvalid(u, i)
      BY <2>4, <3>3 DEF CopyInvalid
    <3>4. QED BY <1>6, <3>1, <3>2, <3>3
  <2>5. QED BY <2>3, <2>4
<1>7. ASSUME NEW t \in Thread, NEW u \in Thread \ {t}, NEW d \in Capid \cup {NoCap}, Send(t, u, d)
      PROVE  UsedBy(p, c)'
  <2>1. Designated(t, d) \in Identity \cup {Null}
    BY <1>0, <1>7, SentIdentity DEF Send
  <2>2. QED BY <1>6, <1>7, <2>1 DEF Send
<1>8. ASSUME NEW t \in Thread, NEW d \in Capid, own' = [own EXCEPT ![t][d] = @ + 1],
             utcb' = utcb, cap' = cap
      PROVE  UsedBy(p, c)'
  <2>1. \A s \in Thread : own[s][c] \in Nat /\ (own'[s][c] = own[s][c] \/ own'[s][c] = own[s][c] + 1)
    BY <1>0, <1>8 DEF UserTypes
  <2>2. \A s \in Thread : own[s][c] > 0 => own'[s][c] > 0
    BY <2>1
  <2>3. QED BY <1>a, <1>8, <2>2, UsedKept
<1>9. ASSUME NEW t \in Thread, Import(t) PROVE UsedBy(p, c)'
  <2>1. utcb[t] \in Capid /\ utcb' = utcb /\ cap' = cap
    BY <1>0, <1>9 DEF Import, kernelVars, CapTypes
  <2>2. own' = own \/ own' = [own EXCEPT ![t][utcb[t]] = @ + 1]
    BY <1>9 DEF Import
  <2>3. QED BY <1>b, <1>8, <2>1, <2>2
<1>10. ASSUME NEW t \in Thread, AckCap(t) PROVE UsedBy(p, c)'
  <2>1. cap[p][c] # NoCap
    <3>1. CASE utcb[t] \in Ids(PdOf[t])
      <4>1. utcb[t] \in Capid /\ cap[PdOf[t]][utcb[t]] # NoCap
            /\ cap' = [cap EXCEPT ![PdOf[t]][utcb[t]].in_utcbs = Down(@)]
        BY <1>10, <3>1 DEF AckCap, Ids
      <4>2. QED BY <1>0, <4>1
    <3>2. CASE utcb[t] \notin Ids(PdOf[t])
      BY <1>10, <3>2 DEF AckCap
    <3>3. QED BY <3>1, <3>2
  <2>2. UsedBy(p, c)
    BY <1>a, <1>10, <2>1 DEF AckCap
  <2>3. own' = own /\ utcb' = [utcb EXCEPT ![t] = NoCap] /\ pc[t] = "ack"
    BY <1>10 DEF AckCap
  <2>4. PdOf[t] = p => own[t][utcb[t]] > 0
    BY <1>0, <2>3 DEF HandOK
  <2>5. \A s \in Thread : PdOf[s] = p /\ utcb[s] = c => utcb'[s] = c \/ own'[s][c] > 0
    BY <1>0, <2>3, <2>4 DEF CapTypes
  <2>6. QED BY <2>2, <2>3, <2>5, UsedKept
<1>11. ASSUME NEW t \in Thread, NEW d \in Capid, Copy(t, d) PROVE UsedBy(p, c)'
  BY <1>8, <1>11 DEF Copy, kernelVars
<1>12. ASSUME NEW t \in Thread, NEW d \in Capid, Drop(t, d) PROVE UsedBy(p, c)'
  <2>1. /\ cap' = cap /\ own' = [own EXCEPT ![t][d] = @ - 1] /\ utcb[t] = NoCap
        /\ utcb' = utcb \/ utcb' = [utcb EXCEPT ![t] = d]
        /\ counter'[PdOf[t]][d] = 0 => utcb' = [utcb EXCEPT ![t] = d]
    BY <1>0, <1>12 DEF Drop, kernelVars, UtcbIdle
  <2>2. CASE ~(PdOf[t] = p /\ d = c)
    <3>1. \A s \in Thread : PdOf[s] = p => own'[s][c] = own[s][c]
      BY <1>0, <2>1, <2>2 DEF UserTypes
    <3>2. \A s \in Thread : utcb[s] = c => utcb'[s] = c
      BY <1>0, <2>1 DEF CapTypes
    <3>3. QED BY <1>a, <2>1, <3>1, <3>2, UsedKept
  <2>3. CASE PdOf[t] = p /\ d = c /\ counter'[p][c] = 0
    <3>1. utcb'[t] = c
      BY <1>0, <2>1, <2>3 DEF CapTypes
    <3>2. QED BY <2>3, <3>1 DEF UsedBy
  <2>4. CASE PdOf[t] = p /\ d = c /\ counter'[p][c] # 0
    <3>1. own' \in [Thread -> [Capid -> 0 .. MaxCopies]]
      BY DEF CopyInv, HandInv, UserTypes
    <3>2. Cardinality(CopiesOf(own', p, c)) # 0
      BY <2>4 DEF CopyInv, CopiesCounted
    <3>3. PICK s \in Members(p) : own'[s][c] # 0
      BY <3>1, <3>2, CopiesBound
    <3>4. s \in Thread /\ PdOf[s] = p /\ own'[s][c] \in 0 .. MaxCopies
      BY <3>1 DEF Members
    <3>5. own'[s][c] > 0
      BY <3>3, <3>4
    <3>6. QED BY <3>4, <3>5 DEF UsedBy
  <2>5. QED BY <2>2, <2>3, <2>4
<1>13. ASSUME NEW t \in Thread, DeleteCap(t) PROVE UsedBy(p, c)'
  <2>1. own' = own /\ utcb' = [utcb EXCEPT ![t] = NoCap] /\ pc[t] = "delete"
    BY <1>13 DEF DeleteCap
  <2>2. utcb[t] \in Capid /\ PdOf[t] \in Pd
    BY <1>0, <2>1 DEF HandOK
  <2>3. /\ cap[p][c] # NoCap
        /\ p = PdOf[t] /\ c = utcb[t] => cap[p][c].in_utcbs # 0
    BY <1>0, <1>13, <2>2 DEF DeleteCap, Ids
  <2>4. CASE p = PdOf[t] /\ c = utcb[t]
    <3>1. Cardinality(Receivers(p, c)) # 0
      BY <2>3, <2>4 DEF CopyInv, HandInv, CountInv, UtcbsCounted, Ids
    <3>2. PICK s \in Thread : PdOf[s] = p /\ InUtcb(s, c)
      BY <3>1, FS_EmptySet DEF Receivers
    <3>3. s # t /\ utcb[s] = c
      BY <2>1, <3>2 DEF InUtcb
    <3>4. utcb'[s] = c
      BY <1>0, <2>1, <3>3 DEF CapTypes
    <3>5. QED BY <3>2, <3>4 DEF UsedBy
  <2>5. CASE ~(p = PdOf[t] /\ c = utcb[t])
    <3>1. \A s \in Thread : PdOf[s] = p /\ utcb[s] = c => utcb'[s] = c
      BY <1>0, <2>1, <2>5 DEF CapTypes
    <3>2. QED BY <1>a, <2>1, <2>3, <3>1, UsedKept
  <2>6. QED BY <2>4, <2>5
<1>14. ASSUME UNCHANGED vars PROVE UsedBy(p, c)'
  BY <1>b, <1>14 DEF vars, kernelVars, userVars
<1>15. QED
  BY <1>1, <1>2, <1>3, <1>4, <1>5, <1>w, <1>7, <1>9, <1>10, <1>11, <1>12, <1>13, <1>14 DEF Next

---------------------------------------------------------------------------
\* Nothing is held, counted or in use initially.
LEMMA InitUser ==
  Init => HandInv /\ DeleteOK /\ (\A p \in Pd : SlabOK(p)) /\ UsedOK /\ (NoWrap => CopiesCounted)
<1> SUFFICES ASSUME Init
             PROVE  /\ HandInv /\ DeleteOK /\ (\A p \in Pd : SlabOK(p)) /\ UsedOK
                    /\ NoWrap => CopiesCounted
  OBVIOUS
<1> USE CapabilityAssumption
<1>1. CountInv
  BY InitInv
<1>2. UserTypes /\ HandOK /\ DeleteOK
  BY DEF Init, UserTypes, HandOK, DeleteOK
<1>3. ASSUME NEW p \in Pd PROVE SlabOK(p)
  <2>1. Waiting(p) = {} /\ Refs(p) = {} /\ slab[p] = 0 /\ lost[p] = 0
    BY DEF Init, Waiting, Refs, Ids
  <2>2. IsFiniteSet({}) /\ Cardinality({}) = 0
    BY FS_EmptySet
  <2>3. RcvCaps * 0 + 0 + 0 = 0
    BY CapabilityAssumption
  <2>4. QED BY <2>1, <2>2, <2>3 DEF SlabOK
<1>4. UsedOK
  BY DEF Init, UsedOK
<1>5. ASSUME NoWrap, NEW p \in Pd \ {Core}, NEW c \in Capid
      PROVE  counter[p][c] = Cardinality(CopiesOf(own, p, c))
  <2>1. own \in [Thread -> [Capid -> 0 .. MaxCopies]] /\ counter[p][c] = 0
    BY DEF Init
  <2>2. \A t \in Members(p) : own[t][c] = 0
    BY DEF Init, Members
  <2>3. QED BY <1>5, <2>1, <2>2, CopiesBound
<1>6. QED BY <1>1, <1>2, <1>3, <1>4, <1>5 DEF HandInv, CopiesCounted

\* The types hold, and the slab of no PD underflows: a block is only given back that is in use,
\* by a thread that waits or for a reference (copy_msg, _call_delete_cap), also after threads
\* have been cancelled or killed.
THEOREM CapabilityTypeCorrect == Spec => []TypeOK
<1> DEFINE Inv == HandInv /\ \A p \in Pd : SlabOK(p)
<1>1. Init => Inv
  BY InitUser
<1>2. Inv /\ [Next]_vars => Inv'
  BY HandStep, SlabStep
<1>3. Inv => TypeOK
  <2> SUFFICES ASSUME Inv PROVE TypeOK
    OBVIOUS
  <2>1. ASSUME NEW p \in Pd PROVE slab[p] \in Nat
    <3>1. Cardinality(Waiting(p)) \in Nat /\ Cardinality(Refs(p)) \in Nat
      BY WaitingFinite, FS_CardinalityType DEF Waiting, SlabOK
    <3>2. PICK m \in Nat : m = RcvCaps * Cardinality(Waiting(p))
      BY <3>1, BlocksOfOne
    <3>3. slab[p] = m + Cardinality(Refs(p)) + lost[p] /\ lost[p] \in Nat
      BY <3>2 DEF SlabOK, HandInv, UserTypes
    <3>4. QED BY <3>1, <3>3
  <2>2. slab \in [Pd -> Nat]
    BY <2>1 DEF HandInv, UserTypes
  <2>3. QED BY <2>2 DEF TypeOK, HandInv, CountInv, CapTypes, UserTypes
<1> QED
  BY <1>1, <1>2, <1>3, PTL DEF Spec

\* A capability that a thread has, or finds in its UTCB, is never deleted and its id never comes
\* to mean something else, if the counters of userland are large enough for the copies that the
\* threads of a PD can have (ref_counter of capability.cc, _call_delete_cap).
THEOREM HeldNeverDeleted ==
  ASSUME NoWrap
  PROVE  Spec => HeldNotDeleted
<1> DEFINE Step == \A t \in Thread, c \in Capid :
                     LET r == cap[PdOf[t]][c] IN
                     /\ PdOf[t] # Core /\ r # NoCap
                     /\ own[t][c] > 0 \/ InUtcb(t, c)
                     /\ own'[t][c] > 0 \/ InUtcb(t, c)'
                     => cap'[PdOf[t]][c] # NoCap /\ cap'[PdOf[t]][c].identity \in {r.identity, Null}
<1>1. Init => CopyInv
  BY InitUser DEF CopyInv
<1>2. CopyInv /\ [Next]_vars => CopyInv'
  BY HandStep, CopiesStep, DeleteStep DEF CopyInv
<1>3. CopyInv /\ [Next]_vars => [Step]_vars
  BY HeldStep
<1> QED
  BY <1>1, <1>2, <1>3, PTL DEF Spec, HeldNotDeleted

\* No reference stays behind that nobody uses, and a slab has exactly the blocks in use that
\* references and waiting threads need and that cancellations, kills and allocations failing
\* midway have left behind, if the counters of userland are large enough for the copies that the
\* threads of a PD can have (_dec of capability.cc, _call_delete_cap, ipc_node.cc).
THEOREM NothingEverLeaks ==
  ASSUME NoWrap
  PROVE  Spec => []NothingLeaks
<1> DEFINE Inv == CopyInv /\ (\A p \in Pd : SlabOK(p)) /\ UsedOK
<1>1. Init => Inv
  BY InitUser DEF CopyInv
<1>2. Inv /\ [Next]_vars => Inv'
  <2> SUFFICES ASSUME Inv, [Next]_vars PROVE Inv'
    OBVIOUS
  <2>1. CopyInv'
    BY HandStep, CopiesStep, DeleteStep DEF CopyInv
  <2>2. \A p \in Pd : SlabOK(p)'
    BY SlabStep DEF CopyInv
  <2>3. UsedOK'
    BY <2>1, UsedStep
  <2>4. QED BY <2>1, <2>2, <2>3
<1>3. Inv => NothingLeaks
  <2> SUFFICES ASSUME Inv, NEW p \in Pd
               PROVE  /\ \A c \in Ids(p) : p # Core =>
                           \E t \in Thread : PdOf[t] = p /\ (own[t][c] > 0 \/ utcb[t] = c)
                      /\ slab[p] = RcvCaps * Cardinality({t \in Thread : PdOf[t] = p /\ pc[t] = "wait"})
                                   + (IF p = Core THEN 0 ELSE Cardinality(Ids(p))) + lost[p]
    BY DEF NothingLeaks
  <2>1. \A c \in Ids(p) : p # Core => UsedBy(p, c)
    BY DEF UsedOK, Ids
  <2>2. slab[p] = RcvCaps * Cardinality(Waiting(p)) + Cardinality(Refs(p)) + lost[p]
    BY DEF SlabOK
  <2>3. Cardinality(Refs(p)) = IF p = Core THEN 0 ELSE Cardinality(Ids(p))
    BY FS_EmptySet DEF Refs
  <2>4. QED BY <2>1, <2>2, <2>3 DEF UsedBy, Waiting
<1> QED
  BY <1>1, <1>2, <1>3, PTL DEF Spec
=============================================================================
