------------------------ MODULE CpuSchedulerProofs ------------------------
(***************************************************************************)
(* Theorems about Kernel::Cpu_scheduler for any number of shares and       *)
(* priorities, any super period, time slice and quotas, and about the      *)
(* lists it is built from, Kernel::Double_list, for any items and lists.   *)
(***************************************************************************)
EXTENDS CpuScheduler, DoubleList, KernelListProofs, FiniteSetTheorems,
        FunctionTheorems, WellFoundedInduction

\* The head is charged through its own share object: it is linked in the
\* scheduler unless it is the idle share, which never runs as a claim.
HeadLinked ==
  /\ head \in Share => state[head] = "inserted"
  /\ head_claims => head # Idle

\* ListsConsistent share by share: a share is in a list if and only if its own
\* state says so, and only shares that were inserted become ready.
Linked ==
  /\ Distinct(fills)
  /\ \A p \in Prio : Distinct(rcl[p])
  /\ \A p \in Prio : Distinct(ucl[p])
  /\ \A s \in Share : ready[s] => state[s] = "inserted"
  /\ \A s \in Share : s \in Elems(fills) <=> ready[s]
  /\ \A s \in Share : \A p \in Prio :
       s \in Elems(rcl[p]) <=>
         state[s] = "inserted" /\ prio[s] = p /\ quota[s] > 0 /\ ready[s]
  /\ \A s \in Share : \A p \in Prio :
       s \in Elems(ucl[p]) <=>
         state[s] = "inserted" /\ prio[s] = p /\ quota[s] > 0 /\ ~ready[s]

\* The inductive invariant behind ListsConsistent
ListInv == TypeOK /\ Linked /\ HeadLinked

---------------------------------------------------------------------------
\* A nonempty set of priorities has a highest one, so _claim_for_head ends
\* with the claim of the highest priority if there is one at all.
LEMMA HighestPrio ==
  ASSUME NEW N \in Nat, NEW T \in SUBSET (0 .. N), T # {}
  PROVE  \E m \in T : \A o \in T : o <= m
<1> DEFINE D == { N - p : p \in T }
           R == { ss \in Nat \X Nat : ss[1] < ss[2] }
<1>1. IsWellFoundedOn(R, Nat)
  BY NatLessThanWellFounded, Zenon DEF OpToRel
<1>2. D \subseteq Nat
  OBVIOUS
<1>3. D # {}
  <2>1. PICK p \in T : TRUE
    OBVIOUS
  <2>2. N - p \in D
    OBVIOUS
  <2>3. QED BY <2>2
<1>4. \E x \in D : \A y \in D : ~ (<<y, x>> \in R)
  <2> HIDE DEF D, R
  <2>1. QED BY <1>1, <1>2, <1>3, WFMin
<1>5. PICK x \in D : \A y \in D : ~ (<<y, x>> \in R)
  BY <1>4
<1>6. PICK m \in T : x = N - m
  OBVIOUS
<1>7. \A o \in T : N - o \in Nat /\ N - o \in D
  BY <1>2
<1>8. \A o \in T : ~ (N - o < N - m)
  BY <1>2, <1>5, <1>6, <1>7
<1>9. QED BY <1>8

\* _claim_for_head finds the first claim of a list that starts with a live
\* claim, at the highest priority that has such a list.  The lists are those
\* that the charging of the former head leaves behind.
LEMMA TopClaimNext ==
  ASSUME rcl' \in [Prio -> Seq(Share)], ClaimPrio' # {}
  PROVE  \E p \in Prio : /\ rcl'[p] # <<>>
                         /\ TopClaim' = Head(rcl'[p])
                         /\ claim'[TopClaim'] > 0
                         /\ TopClaim' \in Elems(rcl'[p])
                         /\ TopClaim' \in Share
                         /\ p \in ClaimPrio'
                         /\ \A o \in ClaimPrio' : o <= p
<1>1. ClaimPrio' \in SUBSET (0 .. MaxPrio) /\ MaxPrio \in Nat
  BY SchedulerAssumption DEF ClaimPrio, Prio
<1>2. \E m \in ClaimPrio' : \A o \in ClaimPrio' : o <= m
  BY <1>1, HighestPrio
<1> DEFINE p == CHOOSE m \in ClaimPrio' : \A o \in ClaimPrio' : o <= m
<1>3. p \in ClaimPrio' /\ \A o \in ClaimPrio' : o <= p
  BY <1>2
<1>4. TopClaim' = Head(rcl'[p])
  BY DEF TopClaim
<1> HIDE DEF p
<1>5. p \in Prio /\ rcl'[p] # <<>> /\ claim'[Head(rcl'[p])] > 0
  BY <1>3 DEF ClaimPrio
<1>6. rcl'[p] \in Seq(Share)
  BY <1>5
<1>7. Head(rcl'[p]) \in Elems(rcl'[p])
  BY <1>5, <1>6, HeadElem
<1>8. Head(rcl'[p]) \in Share
  BY <1>6, <1>7, ElemsSubset
<1>9. QED BY <1>3, <1>4, <1>5, <1>7, <1>8

---------------------------------------------------------------------------
(***************************************************************************)
(* Initial states                                                          *)
(***************************************************************************)

\* The scheduler as constructed satisfies the invariant.
LEMMA InitListInv == Init => ListInv
<1> SUFFICES ASSUME Init PROVE ListInv
  OBVIOUS
<1> USE SchedulerAssumption
<1>1. TypeOK
  <2>1. <<>> \in Seq(Share)
    OBVIOUS
  <2>2. rcl \in [Prio -> Seq(Share)] /\ ucl \in [Prio -> Seq(Share)] /\ fills \in Seq(Share)
    BY <2>1 DEF Init
  <2>3. /\ state \in [Share -> {"absent", "created", "inserted"}]
        /\ ready \in [Share -> BOOLEAN]
        /\ head \in Share \cup {Idle, None}
        /\ head_claims \in BOOLEAN /\ head_yields \in BOOLEAN
        /\ pass \in BOOLEAN /\ ipi \in BOOLEAN
    BY DEF Init
  <2>4. /\ quota \in [Share -> Nat] /\ claim \in [Share -> Nat] /\ fill \in [Share -> Nat]
        /\ used \in [Share -> Nat] /\ granted \in [Share -> Nat]
        /\ head_quota \in Nat /\ residual \in 1 .. SuperPeriod
    BY DEF Init
  <2>5. QED BY <2>2, <2>3, <2>4 DEF TypeOK
<1>2. Linked
  BY EmptyElems DEF Init, Linked
<1>3. HeadLinked
  BY DEF Init, HeadLinked
<1>4. QED BY <1>1, <1>2, <1>3 DEF ListInv

\* ListInv is strong enough: the lists are the sets that ListsConsistent says.
LEMMA ListInvConsistent == ListInv => ListsConsistent
<1> SUFFICES ASSUME ListInv PROVE ListsConsistent
  OBVIOUS
<1>1. Elems(fills) \subseteq Share
  BY ElemsSubset DEF ListInv, TypeOK
<1>2. Elems(fills) = { s \in Inserted : ready[s] }
  BY <1>1 DEF ListInv, Linked, Inserted
<1>3. ASSUME NEW p \in Prio
      PROVE  /\ Elems(rcl[p]) = { s \in Inserted : prio[s] = p /\ quota[s] > 0 /\ ready[s] }
             /\ Elems(ucl[p]) = { s \in Inserted : prio[s] = p /\ quota[s] > 0 /\ ~ready[s] }
  <2>1. rcl[p] \in Seq(Share) /\ ucl[p] \in Seq(Share)
    BY DEF ListInv, TypeOK
  <2>2. Elems(rcl[p]) \subseteq Share /\ Elems(ucl[p]) \subseteq Share
    BY <2>1, ElemsSubset
  <2>3. QED BY <2>2 DEF ListInv, Linked, Inserted
<1>4. QED BY <1>2, <1>3 DEF ListInv, Linked, ListsConsistent

---------------------------------------------------------------------------
(***************************************************************************)
(* Each operation preserves the invariant                                  *)
(***************************************************************************)

\* An operation on share s keeps the lists consistent if it links no item
\* twice, treats s right and leaves the other shares in their lists.
LEMMA LinkedOthers ==
  ASSUME Linked, NEW s \in Share,
         Distinct(fills'),
         \A p \in Prio : Distinct(rcl'[p]),
         \A p \in Prio : Distinct(ucl'[p]),
         \A t \in Share \ {s} : /\ state'[t] = state[t]
                                /\ quota'[t] = quota[t]
                                /\ ready'[t] = ready[t]
                                /\ t \in Elems(fills') <=> t \in Elems(fills),
         \A p \in Prio : \A t \in Share \ {s} :
           /\ t \in Elems(rcl'[p]) <=> t \in Elems(rcl[p])
           /\ t \in Elems(ucl'[p]) <=> t \in Elems(ucl[p]),
         ready'[s] => state'[s] = "inserted",
         s \in Elems(fills') <=> ready'[s],
         \A p \in Prio :
           s \in Elems(rcl'[p]) <=>
             state'[s] = "inserted" /\ prio[s] = p /\ quota'[s] > 0 /\ ready'[s],
         \A p \in Prio :
           s \in Elems(ucl'[p]) <=>
             state'[s] = "inserted" /\ prio[s] = p /\ quota'[s] > 0 /\ ~ready'[s]
  PROVE  Linked'
<1>1. ASSUME NEW t \in Share
      PROVE  /\ ready'[t] => state'[t] = "inserted"
             /\ t \in Elems(fills') <=> ready'[t]
  <2>1. CASE t = s
    BY <2>1
  <2>2. CASE t # s
    BY <2>2 DEF Linked
  <2>3. QED BY <2>1, <2>2
<1>2. ASSUME NEW t \in Share, NEW p \in Prio
      PROVE  /\ t \in Elems(rcl'[p]) <=>
                  state'[t] = "inserted" /\ prio[t] = p /\ quota'[t] > 0 /\ ready'[t]
             /\ t \in Elems(ucl'[p]) <=>
                  state'[t] = "inserted" /\ prio[t] = p /\ quota'[t] > 0 /\ ~ready'[t]
  <2>1. CASE t = s
    BY <2>1
  <2>2. CASE t # s
    BY <2>2 DEF Linked
  <2>3. QED BY <2>1, <2>2
<1>3. QED BY <1>1, <1>2 DEF Linked

\* l links each item of the set E once and nothing else.
ListOf(l, E) == l \in Seq(Share) /\ Distinct(l) /\ Elems(l) = E

\* What unlinking share s and linking it again does to each of its lists.
LEMMA ShareLists ==
  ASSUME ListInv, NEW s \in Share
  PROVE  /\ prio[s] \in Prio
         /\ ListOf(Remove(fills, s), Elems(fills) \ {s})
         /\ ~ready[s] => ListOf(InsertTail(fills, s), Elems(fills) \cup {s})
         /\ ListOf(Remove(rcl[prio[s]], s), Elems(rcl[prio[s]]) \ {s})
         /\ ListOf(Remove(ucl[prio[s]], s), Elems(ucl[prio[s]]) \ {s})
         /\ s \notin Elems(rcl[prio[s]]) =>
              /\ ListOf(InsertTail(rcl[prio[s]], s), Elems(rcl[prio[s]]) \cup {s})
              /\ ListOf(InsertHead(rcl[prio[s]], s), Elems(rcl[prio[s]]) \cup {s})
         /\ s \notin Elems(ucl[prio[s]]) =>
              /\ ListOf(InsertTail(ucl[prio[s]], s), Elems(ucl[prio[s]]) \cup {s})
              /\ ListOf(InsertHead(ucl[prio[s]], s), Elems(ucl[prio[s]]) \cup {s})
<1>1. prio[s] \in Prio
  BY SchedulerAssumption
<1>2. /\ fills \in Seq(Share) /\ Distinct(fills)
      /\ rcl[prio[s]] \in Seq(Share) /\ Distinct(rcl[prio[s]])
      /\ ucl[prio[s]] \in Seq(Share) /\ Distinct(ucl[prio[s]])
  BY <1>1 DEF ListInv, TypeOK, Linked
<1>3. ~ready[s] => s \notin Elems(fills)
  BY DEF ListInv, Linked
<1>4. ASSUME NEW l \in Seq(Share), Distinct(l)
      PROVE  /\ ListOf(Remove(l, s), Elems(l) \ {s})
             /\ s \notin Elems(l) => /\ ListOf(InsertTail(l, s), Elems(l) \cup {s})
                                     /\ ListOf(InsertHead(l, s), Elems(l) \cup {s})
  <2>1. ListOf(Remove(l, s), Elems(l) \ {s})
    BY <1>4, RemoveProps DEF ListOf
  <2>2. s \notin Elems(l) => ListOf(InsertTail(l, s), Elems(l) \cup {s})
    BY <1>4, InsertTailProps DEF ListOf
  <2>3. s \notin Elems(l) => ListOf(InsertHead(l, s), Elems(l) \cup {s})
    BY <1>4, InsertHeadProps DEF ListOf
  <2>4. QED BY <2>1, <2>2, <2>3
<1>5. QED BY <1>1, <1>2, <1>3, <1>4

\* Creating a share leaves the lists alone.
LEMMA CreateStep ==
  ASSUME ListInv, NEW s \in Share, NEW q \in Quota, Create(s, q)
  PROVE  ListInv'
<1> USE DEF ListInv, Create, listVars, headVars, cpuVars, history
<1>1. TypeOK'
  BY SchedulerAssumption DEF TypeOK
<1>2. Linked'
  <2>1. \A t \in Share : state'[t] = "inserted" <=> state[t] = "inserted"
    BY DEF TypeOK
  <2>2. \A t \in Share : state[t] = "inserted" => quota'[t] = quota[t]
    BY DEF TypeOK
  <2>3. /\ Distinct(fills') /\ \A p \in Prio : Distinct(rcl'[p]) /\ Distinct(ucl'[p])
        /\ \A t \in Share : ready'[t] => state'[t] = "inserted"
        /\ \A t \in Share : t \in Elems(fills') <=> ready'[t]
    BY <2>1 DEF Linked
  <2>4. ASSUME NEW t \in Share, NEW p \in Prio
        PROVE  /\ t \in Elems(rcl'[p]) <=>
                    state'[t] = "inserted" /\ prio[t] = p /\ quota'[t] > 0 /\ ready'[t]
               /\ t \in Elems(ucl'[p]) <=>
                    state'[t] = "inserted" /\ prio[t] = p /\ quota'[t] > 0 /\ ~ready'[t]
    BY <2>1, <2>2 DEF Linked
  <2>5. QED BY <2>3, <2>4 DEF Linked
<1>3. HeadLinked'
  BY DEF HeadLinked, TypeOK
<1>4. QED BY <1>1, <1>2, <1>3

\* Assigning quota to a share that is not inserted yet leaves the lists alone.
LEMMA PresetQuotaStep ==
  ASSUME ListInv, NEW s \in Share, NEW q \in Donation, PresetQuota(s, q)
  PROVE  ListInv'
<1> USE DEF ListInv, PresetQuota, listVars, headVars, cpuVars, history
<1>1. TypeOK'
  BY SchedulerAssumption DEF TypeOK
<1>2. Linked'
  BY SMTT(30) DEF Linked, TypeOK
<1>3. HeadLinked'
  BY DEF HeadLinked, TypeOK
<1>4. QED BY <1>1, <1>2, <1>3

\* 'insert' puts a claim into the list of unready claims.
LEMMA InsertStep ==
  ASSUME ListInv, NEW s \in Share, Insert(s)
  PROVE  ListInv'
<1> USE DEF ListInv, Insert, headVars, cpuVars
<1>1. prio[s] \in Prio /\ ~ready[s] /\ \A p \in Prio : s \notin Elems(ucl[p]) /\ s \notin Elems(rcl[p])
  BY SchedulerAssumption DEF Linked
<1>2. CASE quota[s] = 0
  <2>1. TypeOK'
    BY <1>2, SMTT(30) DEF TypeOK
  <2>2. Linked'
    <3>1. \A t \in Share \ {s} : state'[t] = state[t]
      BY DEF TypeOK
    <3>2. state'[s] = "inserted"
      BY DEF TypeOK
    <3>3. QED BY <1>1, <1>2, <3>1, <3>2, LinkedOthers DEF Linked
  <2>3. HeadLinked'
    BY DEF HeadLinked, TypeOK
  <2>4. QED BY <2>1, <2>2, <2>3
<1>3. CASE quota[s] > 0
  <2>1. ucl' = [ucl EXCEPT ![prio[s]] = InsertHead(@, s)]
    BY <1>3
  <2>2. /\ ucl' \in [Prio -> Seq(Share)]
        /\ \A p \in Prio : Distinct(ucl'[p])
        /\ Elems(ucl'[prio[s]]) = Elems(ucl[prio[s]]) \cup {s}
        /\ \A p \in Prio \ {prio[s]} : ucl'[p] = ucl[p]
    <3>1. ListOf(InsertHead(ucl[prio[s]], s), Elems(ucl[prio[s]]) \cup {s})
      BY <1>1, ShareLists
    <3>2. QED BY <1>1, <2>1, <3>1 DEF TypeOK, Linked, ListOf
  <2>3. TypeOK'
    BY <1>3, <2>2 DEF TypeOK
  <2>4. Linked'
    <3>1. \A t \in Share \ {s} : state'[t] = state[t]
      BY DEF TypeOK
    <3>2. state'[s] = "inserted"
      BY DEF TypeOK
    <3>3. \A p \in Prio : \A t \in Share \ {s} : t \in Elems(ucl'[p]) <=> t \in Elems(ucl[p])
      BY <2>2
    <3>4. \A p \in Prio : s \in Elems(ucl'[p]) <=> prio[s] = p
      BY <1>1, <2>2
    <3>5. QED BY <1>1, <1>3, <2>2, <3>1, <3>2, <3>3, <3>4, LinkedOthers DEF Linked
  <2>5. HeadLinked'
    BY DEF HeadLinked, TypeOK
  <2>6. QED BY <2>3, <2>4, <2>5
<1>4. quota[s] = 0 \/ quota[s] > 0
  BY DEF TypeOK
<1>5. QED BY <1>2, <1>3, <1>4

\* The step leaves every claim other than s in its list.
OtherClaimsStay(s) ==
  /\ rcl' \in [Prio -> Seq(Share)] /\ ucl' \in [Prio -> Seq(Share)]
  /\ \A p \in Prio : Distinct(rcl'[p])
  /\ \A p \in Prio : Distinct(ucl'[p])
  /\ \A p \in Prio : \A t \in Share \ {s} : /\ t \in Elems(rcl'[p]) <=> t \in Elems(rcl[p])
                                            /\ t \in Elems(ucl'[p]) <=> t \in Elems(ucl[p])

\* Unlinking a claim leaves it in no list of claims.
LEMMA UnclaimLists ==
  ASSUME ListInv, NEW s \in Share, state[s] = "inserted", quota[s] > 0, Unclaim(s)
  PROVE  /\ OtherClaimsStay(s)
         /\ \A p \in Prio : s \notin Elems(rcl'[p]) /\ s \notin Elems(ucl'[p])
<1>1. /\ prio[s] \in Prio
      /\ ListOf(Remove(rcl[prio[s]], s), Elems(rcl[prio[s]]) \ {s})
      /\ ListOf(Remove(ucl[prio[s]], s), Elems(ucl[prio[s]]) \ {s})
  BY ShareLists
<1>2. \A p \in Prio : s \in Elems(rcl[p]) <=> p = prio[s] /\ ready[s]
  BY DEF ListInv, Linked
<1>3. \A p \in Prio : s \in Elems(ucl[p]) <=> p = prio[s] /\ ~ready[s]
  BY DEF ListInv, Linked
<1>4. /\ rcl \in [Prio -> Seq(Share)] /\ ucl \in [Prio -> Seq(Share)]
      /\ \A p \in Prio : Distinct(rcl[p])
      /\ \A p \in Prio : Distinct(ucl[p])
  BY DEF ListInv, TypeOK, Linked
<1>5. CASE ready[s]
  <2>1. rcl' = [rcl EXCEPT ![prio[s]] = Remove(@, s)] /\ ucl' = ucl
    BY <1>5 DEF Unclaim
  <2>2. OtherClaimsStay(s)
    BY <1>1, <1>4, <2>1 DEF ListOf, OtherClaimsStay
  <2>3. \A p \in Prio : s \notin Elems(rcl'[p]) /\ s \notin Elems(ucl'[p])
    BY <1>1, <1>2, <1>3, <1>4, <1>5, <2>1 DEF ListOf
  <2>4. QED BY <2>2, <2>3
<1>6. CASE ~ready[s]
  <2>1. ucl' = [ucl EXCEPT ![prio[s]] = Remove(@, s)] /\ rcl' = rcl
    BY <1>6 DEF Unclaim
  <2>2. OtherClaimsStay(s)
    BY <1>1, <1>4, <2>1 DEF ListOf, OtherClaimsStay
  <2>3. \A p \in Prio : s \notin Elems(rcl'[p]) /\ s \notin Elems(ucl'[p])
    BY <1>1, <1>2, <1>3, <1>4, <1>6, <2>1 DEF ListOf
  <2>4. QED BY <2>2, <2>3
<1>7. QED BY <1>5, <1>6

\* 'remove' unlinks the share from every list it is in, and the head does not
\* survive its share.
LEMMA DeleteStep ==
  ASSUME ListInv, NEW s \in Share, Delete(s)
  PROVE  ListInv'
<1> USE DEF ListInv, Delete, cpuVars
<1>1. /\ OtherClaimsStay(s)
      /\ \A p \in Prio : s \notin Elems(rcl'[p]) /\ s \notin Elems(ucl'[p])
  <2>1. CASE state[s] = "inserted" /\ quota[s] > 0
    BY <2>1, UnclaimLists
  <2>2. CASE ~(state[s] = "inserted" /\ quota[s] > 0)
    BY <2>2 DEF OtherClaimsStay, TypeOK, Linked
  <2>3. QED BY <2>1, <2>2
<1>2. ListOf(fills', Elems(fills) \ {s})
  <2>1. CASE ready[s]
    BY <2>1, ShareLists
  <2>2. CASE ~ready[s]
    BY <2>2 DEF ListOf, TypeOK, Linked
  <2>3. QED BY <2>1, <2>2
<1>3. TypeOK'
  <2>1. head' \in Share \cup {Idle, None}
    BY DEF TypeOK
  <2>2. QED BY <1>1, <1>2, <2>1 DEF TypeOK, OtherClaimsStay, ListOf
<1>4. Linked'
  <2>1. ~ready'[s] /\ state'[s] = "absent" /\ s \notin Elems(fills')
    BY <1>2 DEF TypeOK, ListOf
  <2>2. \A t \in Share \ {s} : /\ state'[t] = state[t]
                               /\ quota'[t] = quota[t]
                               /\ ready'[t] = ready[t]
                               /\ t \in Elems(fills') <=> t \in Elems(fills)
    BY <1>2 DEF TypeOK, ListOf
  <2>3. QED BY <1>1, <1>2, <2>1, <2>2, LinkedOthers DEF OtherClaimsStay, ListOf
<1>5. HeadLinked'
  BY SchedulerAssumption DEF HeadLinked, TypeOK
<1>6. QED BY <1>3, <1>4, <1>5

\* 'quota' links a fill that becomes a claim and unlinks a claim that is no
\* longer one.
LEMMA SetQuotaStep ==
  ASSUME ListInv, NEW s \in Share, NEW q \in Donation, SetQuota(s, q)
  PROVE  ListInv'
<1> USE DEF ListInv, SetQuota, headVars, cpuVars
<1>1. q \in Nat /\ quota[s] \in Nat /\ prio[s] \in Prio /\ state[s] = "inserted"
  BY SchedulerAssumption DEF TypeOK
<1>2. /\ OtherClaimsStay(s)
      /\ \A p \in Prio : s \in Elems(rcl'[p]) <=> p = prio[s] /\ q > 0 /\ ready[s]
      /\ \A p \in Prio : s \in Elems(ucl'[p]) <=> p = prio[s] /\ q > 0 /\ ~ready[s]
      /\ claim' \in [Share -> Nat]
  <2>a. claim \in [Share -> Nat]
    BY DEF TypeOK
  <2>1. CASE quota[s] > 0 /\ q > 0
    <3>1. rcl' = rcl /\ ucl' = ucl /\ claim' = [claim EXCEPT ![s] = Minimum(@, q)]
      BY <1>1, <2>1 DEF QuotaAdaption
    <3>2. OtherClaimsStay(s)
      BY <3>1 DEF OtherClaimsStay, TypeOK, Linked
    <3>3. /\ \A p \in Prio : s \in Elems(rcl'[p]) <=> p = prio[s] /\ q > 0 /\ ready[s]
          /\ \A p \in Prio : s \in Elems(ucl'[p]) <=> p = prio[s] /\ q > 0 /\ ~ready[s]
      BY <1>1, <2>1, <3>1 DEF Linked
    <3>4. claim' \in [Share -> Nat]
      BY <1>1, <2>a, <3>1 DEF Minimum
    <3>5. QED BY <3>2, <3>3, <3>4
  <2>2. CASE quota[s] > 0 /\ q = 0
    <3>1. Unclaim(s) /\ claim' = claim
      BY <1>1, <2>2 DEF QuotaAdaption
    <3>2. QED BY <1>1, <2>2, <2>a, <3>1, UnclaimLists
  <2>3. CASE quota[s] = 0 /\ q > 0
    <3>1. QuotaIntroduction(s)
      BY <1>1, <2>3
    <3>2. \A p \in Prio : s \notin Elems(rcl[p]) /\ s \notin Elems(ucl[p])
      BY <2>3 DEF Linked
    <3>3. /\ ListOf(InsertTail(rcl[prio[s]], s), Elems(rcl[prio[s]]) \cup {s})
          /\ ListOf(InsertTail(ucl[prio[s]], s), Elems(ucl[prio[s]]) \cup {s})
      BY <1>1, <3>2, ShareLists
    <3>4. /\ rcl \in [Prio -> Seq(Share)] /\ ucl \in [Prio -> Seq(Share)]
          /\ \A p \in Prio : Distinct(rcl[p])
          /\ \A p \in Prio : Distinct(ucl[p])
      BY DEF TypeOK, Linked
    <3>5. CASE ready[s]
      <4>1. rcl' = [rcl EXCEPT ![prio[s]] = InsertTail(@, s)] /\ ucl' = ucl /\ claim' = claim
        BY <3>1, <3>5 DEF QuotaIntroduction
      <4>2. OtherClaimsStay(s)
        BY <1>1, <3>3, <3>4, <4>1 DEF ListOf, OtherClaimsStay
      <4>3. /\ \A p \in Prio : s \in Elems(rcl'[p]) <=> p = prio[s]
            /\ \A p \in Prio : s \notin Elems(ucl'[p])
        BY <1>1, <3>2, <3>3, <3>4, <4>1 DEF ListOf
      <4>4. QED BY <2>3, <2>a, <3>5, <4>1, <4>2, <4>3
    <3>6. CASE ~ready[s]
      <4>1. ucl' = [ucl EXCEPT ![prio[s]] = InsertTail(@, s)] /\ rcl' = rcl /\ claim' = claim
        BY <3>1, <3>6 DEF QuotaIntroduction
      <4>2. OtherClaimsStay(s)
        BY <1>1, <3>3, <3>4, <4>1 DEF ListOf, OtherClaimsStay
      <4>3. /\ \A p \in Prio : s \in Elems(ucl'[p]) <=> p = prio[s]
            /\ \A p \in Prio : s \notin Elems(rcl'[p])
        BY <1>1, <3>2, <3>3, <3>4, <4>1 DEF ListOf
      <4>4. QED BY <2>3, <2>a, <3>6, <4>1, <4>2, <4>3
    <3>7. QED BY <3>5, <3>6
  <2>4. CASE quota[s] = 0 /\ q = 0
    <3>1. rcl' = rcl /\ ucl' = ucl /\ claim' = claim
      BY <1>1, <2>4
    <3>2. OtherClaimsStay(s)
      BY <3>1 DEF OtherClaimsStay, TypeOK, Linked
    <3>3. QED BY <2>4, <2>a, <3>1, <3>2 DEF Linked
  <2>5. QED BY <1>1, <2>1, <2>2, <2>3, <2>4
<1>3. TypeOK'
  <2>1. granted' \in [Share -> Nat]
    BY <1>1 DEF TypeOK, Maximum
  <2>2. QED BY <1>1, <1>2, <2>1 DEF TypeOK, OtherClaimsStay
<1>4. Linked'
  <2>1. quota'[s] = q
    BY <1>1 DEF TypeOK
  <2>2. \A t \in Share \ {s} : quota'[t] = quota[t]
    BY DEF TypeOK
  <2>3. Distinct(fills) /\ (s \in Elems(fills) <=> ready[s])
    BY DEF Linked
  <2>4. state' = state /\ ready' = ready /\ fills' = fills
    OBVIOUS
  <2>5. \A p \in Prio :
          s \in Elems(rcl'[p]) <=>
            state'[s] = "inserted" /\ prio[s] = p /\ quota'[s] > 0 /\ ready'[s]
    BY <1>1, <1>2, <2>1, <2>4
  <2>6. \A p \in Prio :
          s \in Elems(ucl'[p]) <=>
            state'[s] = "inserted" /\ prio[s] = p /\ quota'[s] > 0 /\ ~ready'[s]
    BY <1>1, <1>2, <2>1, <2>4
  <2> HIDE DEF SetQuota
  <2>7. QED BY <1>1, <1>2, <2>2, <2>3, <2>4, <2>5, <2>6, LinkedOthers DEF OtherClaimsStay
<1>5. HeadLinked'
  BY DEF HeadLinked
<1>6. QED BY <1>3, <1>4, <1>5

\* 'ready' moves a claim from the unready to the ready claims and adds the
\* share to the fills.
LEMMA BecomeReadyStep ==
  ASSUME ListInv, NEW s \in Share, BecomeReady(s),
         UNCHANGED <<state, quota, claim, headVars, pass, history>>, ipi' \in BOOLEAN
  PROVE  ListInv'
<1> USE DEF ListInv, headVars, history
<1>1. /\ state[s] = "inserted" /\ ~ready[s]
      /\ ready' = [ready EXCEPT ![s] = TRUE]
      /\ fill' = [fill EXCEPT ![s] = FillSlice]
      /\ fills' = InsertTail(fills, s)
      /\ prio[s] \in Prio /\ quota[s] \in Nat
  BY SchedulerAssumption DEF BecomeReady, TypeOK
<1>2. ListOf(fills', Elems(fills) \cup {s})
  BY <1>1, ShareLists
<1>3. /\ OtherClaimsStay(s)
      /\ \A p \in Prio : s \in Elems(rcl'[p]) <=> p = prio[s] /\ quota[s] > 0
      /\ \A p \in Prio : s \notin Elems(ucl'[p])
  <2>1. \A p \in Prio : s \notin Elems(rcl[p])
    BY <1>1 DEF Linked
  <2>2. \A p \in Prio : s \in Elems(ucl[p]) <=> p = prio[s] /\ quota[s] > 0
    BY <1>1 DEF Linked
  <2>3. /\ rcl \in [Prio -> Seq(Share)] /\ ucl \in [Prio -> Seq(Share)]
        /\ \A p \in Prio : Distinct(rcl[p])
        /\ \A p \in Prio : Distinct(ucl[p])
    BY DEF TypeOK, Linked
  <2>4. CASE quota[s] = 0
    <3>1. rcl' = rcl /\ ucl' = ucl
      BY <2>4 DEF BecomeReady
    <3>2. OtherClaimsStay(s)
      BY <3>1, <2>3 DEF OtherClaimsStay
    <3>3. QED BY <2>1, <2>2, <2>4, <3>1, <3>2
  <2>5. CASE quota[s] > 0
    <3> DEFINE r == IF claim[s] > 0 THEN InsertHead(rcl[prio[s]], s)
                                    ELSE InsertTail(rcl[prio[s]], s)
    <3>1. /\ ucl' = [ucl EXCEPT ![prio[s]] = Remove(@, s)]
          /\ rcl' = [rcl EXCEPT ![prio[s]] = r]
      BY <2>5 DEF BecomeReady
    <3>2. ListOf(r, Elems(rcl[prio[s]]) \cup {s})
      BY <1>1, <2>1, ShareLists
    <3>3. ListOf(Remove(ucl[prio[s]], s), Elems(ucl[prio[s]]) \ {s})
      BY ShareLists
    <3> HIDE DEF r
    <3>4. OtherClaimsStay(s)
      BY <1>1, <2>3, <3>1, <3>2, <3>3 DEF ListOf, OtherClaimsStay
    <3>5. \A p \in Prio : s \in Elems(rcl'[p]) <=> p = prio[s]
      BY <1>1, <2>1, <2>3, <3>1, <3>2 DEF ListOf
    <3>6. \A p \in Prio : s \notin Elems(ucl'[p])
      BY <1>1, <2>2, <2>3, <3>1, <3>3 DEF ListOf
    <3>7. QED BY <2>5, <3>4, <3>5, <3>6
  <2>6. QED BY <1>1, <2>4, <2>5
<1>4. TypeOK'
  BY <1>1, <1>2, <1>3, SchedulerAssumption DEF TypeOK, OtherClaimsStay, ListOf
<1>5. Linked'
  <2>1. ready'[s] = TRUE /\ \A t \in Share \ {s} : ready'[t] = ready[t]
    BY <1>1 DEF TypeOK
  <2>2. /\ Distinct(fills') /\ s \in Elems(fills')
        /\ \A t \in Share \ {s} : t \in Elems(fills') <=> t \in Elems(fills)
    BY <1>2 DEF ListOf
  <2>3. state' = state /\ quota' = quota
    OBVIOUS
  <2>4. \A p \in Prio :
          s \in Elems(rcl'[p]) <=>
            state'[s] = "inserted" /\ prio[s] = p /\ quota'[s] > 0 /\ ready'[s]
    BY <1>1, <1>3, <2>1, <2>3
  <2>5. \A p \in Prio :
          s \in Elems(ucl'[p]) <=>
            state'[s] = "inserted" /\ prio[s] = p /\ quota'[s] > 0 /\ ~ready'[s]
    BY <1>3, <2>1
  <2>6. QED BY <1>1, <1>3, <2>1, <2>2, <2>3, <2>4, <2>5, LinkedOthers DEF OtherClaimsStay
<1>6. HeadLinked'
  BY DEF HeadLinked
<1>7. QED BY <1>4, <1>5, <1>6

\* 'unready' is the reverse of 'ready'.
LEMMA UnreadyStep ==
  ASSUME ListInv, NEW s \in Share, Unready(s)
  PROVE  ListInv'
<1> USE DEF ListInv, headVars, cpuVars, history
<1>1. /\ state[s] = "inserted" /\ ready[s]
      /\ ready' = [ready EXCEPT ![s] = FALSE]
      /\ fills' = Remove(fills, s)
      /\ prio[s] \in Prio /\ quota[s] \in Nat
  BY SchedulerAssumption DEF Unready, TypeOK
<1>2. ListOf(fills', Elems(fills) \ {s})
  BY <1>1, ShareLists
<1>3. /\ OtherClaimsStay(s)
      /\ \A p \in Prio : s \in Elems(ucl'[p]) <=> p = prio[s] /\ quota[s] > 0
      /\ \A p \in Prio : s \notin Elems(rcl'[p])
  <2>1. \A p \in Prio : s \notin Elems(ucl[p])
    BY <1>1 DEF Linked
  <2>2. \A p \in Prio : s \in Elems(rcl[p]) <=> p = prio[s] /\ quota[s] > 0
    BY <1>1 DEF Linked
  <2>3. /\ rcl \in [Prio -> Seq(Share)] /\ ucl \in [Prio -> Seq(Share)]
        /\ \A p \in Prio : Distinct(rcl[p])
        /\ \A p \in Prio : Distinct(ucl[p])
    BY DEF TypeOK, Linked
  <2>4. CASE quota[s] = 0
    <3>1. rcl' = rcl /\ ucl' = ucl
      BY <2>4 DEF Unready
    <3>2. OtherClaimsStay(s)
      BY <3>1, <2>3 DEF OtherClaimsStay
    <3>3. QED BY <2>1, <2>2, <2>4, <3>1, <3>2
  <2>5. CASE quota[s] > 0
    <3>1. /\ rcl' = [rcl EXCEPT ![prio[s]] = Remove(@, s)]
          /\ ucl' = [ucl EXCEPT ![prio[s]] = InsertTail(@, s)]
      BY <2>5 DEF Unready
    <3>2. ListOf(InsertTail(ucl[prio[s]], s), Elems(ucl[prio[s]]) \cup {s})
      BY <1>1, <2>1, ShareLists
    <3>3. ListOf(Remove(rcl[prio[s]], s), Elems(rcl[prio[s]]) \ {s})
      BY ShareLists
    <3>4. OtherClaimsStay(s)
      BY <1>1, <2>3, <3>1, <3>2, <3>3 DEF ListOf, OtherClaimsStay
    <3>5. \A p \in Prio : s \in Elems(ucl'[p]) <=> p = prio[s]
      BY <1>1, <2>1, <2>3, <3>1, <3>2 DEF ListOf
    <3>6. \A p \in Prio : s \notin Elems(rcl'[p])
      BY <1>1, <2>2, <2>3, <3>1, <3>3 DEF ListOf
    <3>7. QED BY <2>5, <3>4, <3>5, <3>6
  <2>6. QED BY <1>1, <2>4, <2>5
<1>4. TypeOK'
  BY <1>1, <1>2, <1>3 DEF Unready, TypeOK, OtherClaimsStay, ListOf
<1>5. Linked'
  <2>1. ready'[s] = FALSE /\ \A t \in Share \ {s} : ready'[t] = ready[t]
    BY <1>1 DEF TypeOK
  <2>2. /\ Distinct(fills') /\ s \notin Elems(fills')
        /\ \A t \in Share \ {s} : t \in Elems(fills') <=> t \in Elems(fills)
    BY <1>2 DEF ListOf
  <2>3. state' = state /\ quota' = quota
    BY DEF Unready
  <2>4. \A p \in Prio :
          s \in Elems(rcl'[p]) <=>
            state'[s] = "inserted" /\ prio[s] = p /\ quota'[s] > 0 /\ ready'[s]
    BY <1>3, <2>1
  <2>5. \A p \in Prio :
          s \in Elems(ucl'[p]) <=>
            state'[s] = "inserted" /\ prio[s] = p /\ quota'[s] > 0 /\ ~ready'[s]
    BY <1>1, <1>3, <2>1, <2>3
  <2>6. QED BY <1>1, <1>3, <2>1, <2>2, <2>3, <2>4, <2>5, LinkedOthers DEF OtherClaimsStay
<1>6. HeadLinked'
  BY DEF HeadLinked, Unready
<1>7. QED BY <1>4, <1>5, <1>6

\* Charging the head reorders the lists but neither adds nor removes a share,
\* and no counter runs below zero.
LEMMA ChargeStep ==
  ASSUME ListInv, NEW c \in Consumption, Charge(c)
  PROVE  /\ rcl' \in [Prio -> Seq(Share)]
         /\ \A p \in Prio : Distinct(rcl'[p]) /\ Elems(rcl'[p]) = Elems(rcl[p])
         /\ ListOf(fills', Elems(fills))
         /\ claim' \in [Share -> Nat] /\ fill' \in [Share -> Nat]
         /\ used' \in [Share -> Nat] /\ granted' \in [Share -> Nat]
         /\ head_yields' \in BOOLEAN
         /\ residual' \in 1 .. SuperPeriod
<1> USE DEF ListInv
<1>1. /\ rcl \in [Prio -> Seq(Share)] /\ fills \in Seq(Share)
      /\ \A p \in Prio : Distinct(rcl[p])
      /\ Distinct(fills)
      /\ claim \in [Share -> Nat] /\ fill \in [Share -> Nat] /\ quota \in [Share -> Nat]
      /\ used \in [Share -> Nat] /\ granted \in [Share -> Nat]
      /\ head_yields \in BOOLEAN /\ head_quota \in Nat
      /\ residual \in 1 .. SuperPeriod /\ SuperPeriod \in Nat \ {0} /\ FillSlice \in Nat \ {0}
      /\ head \in Share \cup {Idle, None}
  BY SchedulerAssumption DEF TypeOK, Linked
<1>2. CASE head = None
  BY <1>1, <1>2 DEF Charge, history, ListOf
<1>3. CASE head # None
  <2> DEFINE q == Minimum(Minimum(c, head_quota), residual)
             r == IF head_yields THEN 0 ELSE head_quota - q
  <2>1. q \in Nat /\ q <= head_quota /\ q <= residual /\ r \in Nat
    BY <1>1 DEF Consumption, Minimum
  <2>2. /\ head_yields' = FALSE
        /\ rcl' = HeadClaimList(r)
        /\ fill' = HeadFill(r)
        /\ fills' = HeadFillList(r)
        /\ Consumed(q, HeadClaim(r))
    BY <1>3 DEF Charge
  <2> HIDE DEF q, r
  <2>3. HeadClaim(r) \in [Share -> Nat]
    BY <1>1, <2>1 DEF HeadClaim, Minimum
  <2>4. fill' \in [Share -> Nat]
    BY <1>1, <2>1, <2>2 DEF HeadFill
  <2>5. ListOf(fills', Elems(fills))
    <3>1. CASE HeadLeadsFills /\ r = 0
      BY <1>1, <2>2, <3>1, HeadToTailProps DEF HeadFillList, ListOf
    <3>2. CASE ~(HeadLeadsFills /\ r = 0)
      BY <1>1, <2>2, <3>2 DEF HeadFillList, ListOf
    <3>3. QED BY <3>1, <3>2
  <2>6. /\ rcl' \in [Prio -> Seq(Share)]
        /\ \A p \in Prio : Distinct(rcl'[p]) /\ Elems(rcl'[p]) = Elems(rcl[p])
    <3> DEFINE spent == head_claims /\ quota[head] > 0 /\ HeadClaim(r)[head] = 0 /\ ready[head]
    <3>1. CASE spent
      <4>1. rcl' = [rcl EXCEPT ![prio[head]] = ToTail(@, head)]
        BY <2>2, <3>1 DEF HeadClaimList
      <4>2. head \in Share /\ state[head] = "inserted"
        BY <1>1, <1>3, <3>1 DEF HeadLinked
      <4>3. prio[head] \in Prio /\ head \in Elems(rcl[prio[head]])
        BY <3>1, <4>2, SchedulerAssumption DEF Linked
      <4>4. rcl[prio[head]] \in Seq(Share) /\ Distinct(rcl[prio[head]])
        BY <1>1, <4>3
      <4>5. ListOf(ToTail(rcl[prio[head]], head), Elems(rcl[prio[head]]))
        BY <4>3, <4>4, ToTailProps DEF ListOf
      <4>6. QED BY <1>1, <4>1, <4>3, <4>5 DEF ListOf
    <3>2. CASE ~spent
      <4>1. rcl' = rcl
        BY <2>2, <3>2 DEF HeadClaimList
      <4>2. QED BY <1>1, <4>1
    <3>3. QED BY <3>1, <3>2
  <2>7. /\ claim' \in [Share -> Nat] /\ used' \in [Share -> Nat] /\ granted' \in [Share -> Nat]
        /\ residual' \in 1 .. SuperPeriod
    <3>1. CASE residual > q
      <4>1. /\ residual' = residual - q /\ claim' = HeadClaim(r) /\ granted' = granted
            /\ used' = IF head_claims THEN [used EXCEPT ![head] = @ + q] ELSE used
        BY <2>2, <3>1 DEF Consumed
      <4>2. used' \in [Share -> Nat]
        <5>1. CASE head_claims
          <6>1. head \in Share
            BY <1>1, <1>3, <5>1 DEF HeadLinked
          <6>2. used[head] + q \in Nat
            BY <1>1, <2>1, <6>1
          <6>3. used' = [used EXCEPT ![head] = used[head] + q]
            BY <4>1, <5>1
          <6>4. QED BY <1>1, <6>2, <6>3
        <5>2. CASE ~head_claims
          BY <1>1, <4>1, <5>2
        <5>3. QED BY <5>1, <5>2
      <4>3. residual' \in 1 .. SuperPeriod
        BY <1>1, <2>1, <3>1, <4>1
      <4>4. QED BY <1>1, <2>3, <4>1, <4>2, <4>3
    <3>2. CASE ~(residual > q)
      <4> DEFINE h == HeadClaim(r)
      <4>1. /\ residual' = SuperPeriod /\ granted' = quota
            /\ claim' = [s \in Share |-> IF s \in Listed THEN quota[s] ELSE h[s]]
            /\ used' = [s \in Share |-> 0]
        BY <2>2, <3>2 DEF Consumed
      <4> HIDE DEF h
      <4>2. h \in [Share -> Nat]
        BY <2>3 DEF h
      <4>3. claim' \in [Share -> Nat] /\ used' \in [Share -> Nat]
        BY <1>1, <4>1, <4>2
      <4>4. QED BY <1>1, <4>1, <4>3
    <3>3. QED BY <3>1, <3>2
  <2>8. QED BY <2>2, <2>4, <2>5, <2>6, <2>7
<1>4. QED BY <1>2, <1>3

\* 'update' chooses a head that is linked in the scheduler.
LEMMA UpdateStep ==
  ASSUME ListInv, NEW c \in Consumption, Update(c)
  PROVE  ListInv'
<1> USE DEF ListInv
<1>1. /\ rcl' \in [Prio -> Seq(Share)]
      /\ \A p \in Prio : Distinct(rcl'[p]) /\ Elems(rcl'[p]) = Elems(rcl[p])
      /\ ListOf(fills', Elems(fills))
      /\ claim' \in [Share -> Nat] /\ fill' \in [Share -> Nat]
      /\ used' \in [Share -> Nat] /\ granted' \in [Share -> Nat]
      /\ head_yields' \in BOOLEAN
      /\ residual' \in 1 .. SuperPeriod
  BY ChargeStep DEF Update
<1>2. state' = state /\ quota' = quota /\ ready' = ready /\ ucl' = ucl /\ ipi' = ipi /\ pass' = FALSE
  BY DEF Update
<1>3. Linked'
  BY <1>1, <1>2 DEF Linked, ListOf
<1>4. /\ head' \in Share \cup {Idle}
      /\ head' \in Share => state[head'] = "inserted"
      /\ head_claims' \in BOOLEAN /\ head_quota' \in Nat
      /\ head_claims' => head' # Idle
  <2>1. CASE ClaimPrio' # {}
    <3>1. head' = TopClaim' /\ head_quota' = claim'[head'] /\ head_claims' = TRUE
      BY <2>1 DEF Update, ChooseHead
    <3>2. PICK p \in Prio : TopClaim' \in Elems(rcl'[p]) /\ TopClaim' \in Share
      BY <1>1, <2>1, TopClaimNext
    <3>3. state[head'] = "inserted"
      BY <1>1, <3>1, <3>2 DEF Linked
    <3>4. QED BY <1>1, <3>1, <3>2, <3>3, SchedulerAssumption
  <2>2. CASE ClaimPrio' = {} /\ fills' # <<>>
    <3>1. head' = Head(fills') /\ head_quota' = fill'[head'] /\ head_claims' = FALSE
      BY <2>2 DEF Update, ChooseHead
    <3>2. Head(fills') \in Elems(fills') /\ Elems(fills') \subseteq Share
      BY <1>1, <2>2, HeadElem, ElemsSubset DEF ListOf
    <3>3. state[head'] = "inserted"
      BY <1>1, <3>1, <3>2 DEF Linked, ListOf
    <3>4. QED BY <1>1, <3>1, <3>2, <3>3
  <2>3. CASE ClaimPrio' = {} /\ fills' = <<>>
    BY <2>3, SchedulerAssumption DEF Update, ChooseHead
  <2>4. QED BY <2>1, <2>2, <2>3
<1>5. TypeOK'
  BY <1>1, <1>2, <1>4 DEF TypeOK, ListOf
<1>6. HeadLinked'
  BY <1>2, <1>4 DEF HeadLinked
<1>7. QED BY <1>3, <1>5, <1>6

---------------------------------------------------------------------------
(***************************************************************************)
(* Theorems                                                                *)
(***************************************************************************)

\* Every step of the scheduler preserves ListInv.
LEMMA ListInvStep == ListInv /\ [Next]_vars => ListInv'
<1> SUFFICES ASSUME ListInv, [Next]_vars PROVE ListInv'
  OBVIOUS
<1> USE DEF shareVars, listVars, headVars, cpuVars, history
<1>1. CASE \E s \in Share, q \in Quota : Create(s, q)
  BY <1>1, CreateStep
<1>2. CASE \E s \in Share, q \in Donation : PresetQuota(s, q)
  BY <1>2, PresetQuotaStep
<1>3. CASE \E s \in Share : Insert(s)
  BY <1>3, InsertStep
<1>4. CASE \E s \in Share : Delete(s)
  BY <1>4, DeleteStep
<1>5. CASE \E s \in Share, q \in Donation : SetQuota(s, q)
  BY <1>5, SetQuotaStep
<1>6. CASE \E s \in Share : Ready(s)
  <2>1. PICK s \in Share : Ready(s)
    BY <1>6
  <2>2. BecomeReady(s) /\ ipi' \in BOOLEAN
    BY <2>1 DEF Ready, ListInv, TypeOK
  <2>3. UNCHANGED <<state, quota, claim, headVars, pass, history>>
    BY <2>1 DEF Ready
  <2>4. QED BY <2>2, <2>3, BecomeReadyStep
<1>7. CASE \E s \in Share : ReadyCheck(s)
  <2>1. PICK s \in Share : ReadyCheck(s)
    BY <1>7
  <2>2. BecomeReady(s) /\ ipi' \in BOOLEAN
    BY <2>1 DEF ReadyCheck
  <2>3. UNCHANGED <<state, quota, claim, headVars, pass, history>>
    BY <2>1 DEF ReadyCheck
  <2>4. QED BY <2>2, <2>3, BecomeReadyStep
<1>8. CASE \E s \in Share : Unready(s)
  BY <1>8, UnreadyStep
<1>9. CASE Yield
  BY <1>9 DEF Yield, ListInv, TypeOK, Linked, HeadLinked
<1>10. CASE EnterKernel \/ EnterIpi
  <2>1. UNCHANGED <<shareVars, listVars, headVars, history>> /\ pass' = TRUE /\ ipi' \in {ipi, FALSE}
    BY <1>10 DEF EnterKernel, EnterIpi
  <2>2. TypeOK'
    BY <2>1 DEF ListInv, TypeOK
  <2>3. Linked' /\ HeadLinked'
    BY <2>1 DEF ListInv, Linked, HeadLinked
  <2>4. QED BY <2>2, <2>3 DEF ListInv
<1>11. CASE \E c \in Consumption : Update(c)
  BY <1>11, UpdateStep
<1>12. CASE UNCHANGED vars
  BY <1>12 DEF vars, ListInv, TypeOK, Linked, HeadLinked
<1>13. QED
  BY <1>1, <1>2, <1>3, <1>4, <1>5, <1>6, <1>7, <1>8, <1>9, <1>10, <1>11, <1>12 DEF Next

\* Whatever the CPUs do, the scheduler's variables keep their types: no time
\* counter runs below zero, the super period never has zero time left and
\* the head is a share, the idle share or the null pointer.
THEOREM TypeCorrect == Spec => []TypeOK
<1>1. Init => ListInv
  BY InitListInv
<1>2. ListInv /\ [Next]_vars => ListInv'
  BY ListInvStep
<1>3. ListInv => TypeOK
  BY DEF ListInv
<1>4. QED BY <1>1, <1>2, <1>3, PTL DEF Spec

\* Whatever the CPUs do, each list holds exactly the shares it is meant for and
\* each of them once, so no operation unlinks a share that is not linked.
THEOREM ListsAlwaysConsistent == Spec => []ListsConsistent
<1>1. Init => ListInv
  BY InitListInv
<1>2. ListInv /\ [Next]_vars => ListInv'
  BY ListInvStep
<1>3. ListInv => ListsConsistent
  BY ListInvConsistent
<1>4. QED BY <1>1, <1>2, <1>3, PTL DEF Spec

---------------------------------------------------------------------------
(***************************************************************************)
(* The order of the ready claims, in systems whose CPU sessions never      *)
(* withdraw the last quota of a thread                                     *)
(***************************************************************************)

\* The shares that have some of their quota left
Unspent == { s \in Share : claim[s] > 0 }

\* UnspentFirst, list by list
ClaimsOrdered == \A p \in Prio : VFirst(rcl[p], Unspent)

\* A share that has never been a claim has nothing left to claim.
NoQuotaNoClaim == \A s \in Share : quota[s] = 0 => claim[s] = 0

\* A head that runs as a claim had quota left when it was chosen and, until it
\* is charged, has still.
HeadUnspent == head_claims /\ head \in Share => claim[head] > 0 /\ quota[head] > 0

\* The inductive invariant behind UnspentFirst
OrderInv == ListInv /\ ClaimsOrdered /\ NoQuotaNoClaim /\ HeadUnspent

\* ClaimsOrdered is UnspentFirst.
LEMMA ClaimsOrderedUnspentFirst == ListInv /\ ClaimsOrdered => UnspentFirst
<1> SUFFICES ASSUME ListInv, ClaimsOrdered,
                    NEW p \in Prio, NEW i \in 1 .. Len(rcl[p]), NEW j \in 1 .. Len(rcl[p]),
                    i < j, claim[rcl[p][j]] > 0
             PROVE  claim[rcl[p][i]] > 0
  BY DEF UnspentFirst
<1>1. rcl[p] \in Seq(Share)
  BY DEF ListInv, TypeOK
<1>2. rcl[p][i] \in Share /\ rcl[p][j] \in Share
  BY <1>1
<1>3. QED BY <1>2 DEF ClaimsOrdered, VFirst, Unspent

\* The scheduler as constructed satisfies the invariant.
LEMMA InitOrderInv == Init => OrderInv
<1> SUFFICES ASSUME Init PROVE OrderInv
  OBVIOUS
<1>1. ListInv
  BY InitListInv
<1>2. ClaimsOrdered
  BY DEF Init, ClaimsOrdered, VFirst
<1>3. NoQuotaNoClaim /\ HeadUnspent
  BY SchedulerAssumption DEF Init, NoQuotaNoClaim, HeadUnspent
<1>4. QED BY <1>1, <1>2, <1>3 DEF OrderInv

\* A step that leaves the ready claims and what they have left alone keeps
\* them in order.
LEMMA OrderUntouched ==
  ASSUME ListInv, ClaimsOrdered, rcl' = rcl,
         \A p \in Prio : \A s \in Elems(rcl[p]) : claim'[s] > 0 <=> claim[s] > 0
  PROVE  ClaimsOrdered'
<1>1. SUFFICES ASSUME NEW p \in Prio PROVE VFirst(rcl[p], Unspent')
  BY DEF ClaimsOrdered
<1>2. VFirst(rcl[p], Unspent)
  BY DEF ClaimsOrdered
<1>3. Elems(rcl[p]) \subseteq Share
  BY ElemsSubset DEF ListInv, TypeOK
<1>4. \A s \in Elems(rcl[p]) : s \in Unspent <=> s \in Unspent'
  BY <1>3 DEF Unspent
<1>5. QED BY <1>2, <1>4, VFirstElems

\* A step that changes one list of ready claims keeps them in order if it keeps
\* that list in order.
LEMMA OrderChanged ==
  ASSUME ListInv, ClaimsOrdered, NEW q \in Prio, NEW l,
         rcl' = [rcl EXCEPT ![q] = l], VFirst(l, Unspent'),
         \A p \in Prio \ {q} : \A s \in Elems(rcl[p]) : claim'[s] > 0 <=> claim[s] > 0
  PROVE  ClaimsOrdered'
<1>1. SUFFICES ASSUME NEW p \in Prio PROVE VFirst(rcl'[p], Unspent')
  BY DEF ClaimsOrdered
<1>2. CASE p = q
  BY <1>2 DEF ListInv, TypeOK
<1>3. CASE p # q
  <2>1. rcl'[p] = rcl[p]
    BY <1>3 DEF ListInv, TypeOK
  <2>2. VFirst(rcl[p], Unspent)
    BY DEF ClaimsOrdered
  <2>3. Elems(rcl[p]) \subseteq Share
    BY ElemsSubset DEF ListInv, TypeOK
  <2>4. \A s \in Elems(rcl[p]) : s \in Unspent <=> s \in Unspent'
    BY <1>3, <2>3 DEF Unspent
  <2>5. QED BY <2>1, <2>2, <2>4, VFirstElems
<1>4. QED BY <1>2, <1>3

\* Shares that are not inserted yet are in no list.
LEMMA OrderCreate ==
  ASSUME OrderInv, NEW s \in Share,
         (\E q \in Quota : Create(s, q)) \/ (0 \notin Donation /\ \E q \in Donation : PresetQuota(s, q))
  PROVE  ClaimsOrdered' /\ NoQuotaNoClaim' /\ HeadUnspent'
<1> USE DEF OrderInv, Create, PresetQuota, listVars, headVars
<1>1. state[s] # "inserted" /\ rcl' = rcl /\ head' = head /\ head_claims' = head_claims
  BY DEF ListInv, TypeOK
<1>2. \A t \in Share \ {s} : claim'[t] = claim[t] /\ quota'[t] = quota[t]
  BY DEF ListInv, TypeOK
<1>3. quota'[s] = 0 => claim'[s] = 0
  BY DEF ListInv, TypeOK
<1>4. ClaimsOrdered'
  <2>1. \A p \in Prio : \A t \in Elems(rcl[p]) : t \in Share \ {s}
    <3>1. \A p \in Prio : Elems(rcl[p]) \subseteq Share
      BY ElemsSubset DEF ListInv, TypeOK
    <3>2. QED BY <1>1, <3>1 DEF ListInv, Linked
  <2>2. QED BY <1>1, <1>2, <2>1, OrderUntouched
<1>5. NoQuotaNoClaim'
  BY <1>2, <1>3 DEF NoQuotaNoClaim
<1>6. HeadUnspent'
  BY <1>1, <1>2 DEF HeadUnspent, ListInv, HeadLinked
<1>7. QED BY <1>4, <1>5, <1>6

\* A share that is inserted is not ready.
LEMMA OrderInsert ==
  ASSUME OrderInv, NEW s \in Share, Insert(s)
  PROVE  ClaimsOrdered' /\ NoQuotaNoClaim' /\ HeadUnspent'
<1> USE DEF OrderInv, Insert, headVars
<1>1. state[s] = "created" /\ rcl' = rcl /\ quota' = quota /\ head' = head /\ head_claims' = head_claims
  OBVIOUS
<1>2. \A t \in Share \ {s} : claim'[t] = claim[t]
  BY DEF ListInv, TypeOK
<1>3. quota[s] = 0 => claim'[s] = 0
  BY DEF ListInv, TypeOK, NoQuotaNoClaim
<1>4. ClaimsOrdered'
  <2>1. \A p \in Prio : \A t \in Elems(rcl[p]) : t \in Share \ {s}
    <3>1. \A p \in Prio : Elems(rcl[p]) \subseteq Share
      BY ElemsSubset DEF ListInv, TypeOK
    <3>2. QED BY <1>1, <3>1 DEF ListInv, Linked
  <2>2. QED BY <1>1, <1>2, <2>1, OrderUntouched
<1>5. NoQuotaNoClaim'
  BY <1>1, <1>2, <1>3 DEF NoQuotaNoClaim
<1>6. HeadUnspent'
  BY <1>1, <1>2 DEF HeadUnspent, ListInv, HeadLinked
<1>7. QED BY <1>4, <1>5, <1>6

\* Unlinking a share leaves the others in order.
LEMMA OrderDelete ==
  ASSUME OrderInv, NEW s \in Share, Delete(s)
  PROVE  ClaimsOrdered' /\ NoQuotaNoClaim' /\ HeadUnspent'
<1> USE DEF OrderInv, Delete
<1>1. \A t \in Share \ {s} : claim'[t] = claim[t] /\ quota'[t] = quota[t]
  BY DEF ListInv, TypeOK
<1>2. claim'[s] = 0 /\ quota'[s] = 0
  BY DEF ListInv, TypeOK
<1>3. prio[s] \in Prio /\ rcl[prio[s]] \in Seq(Share) /\ Distinct(rcl[prio[s]])
  BY SchedulerAssumption DEF ListInv, TypeOK, Linked
<1>4. \A p \in Prio : Elems(rcl[p]) \subseteq Share
  BY ElemsSubset DEF ListInv, TypeOK
<1>5. ClaimsOrdered'
  <2>1. CASE state[s] = "inserted" /\ quota[s] > 0 /\ ready[s]
    <3> DEFINE l == Remove(rcl[prio[s]], s)
    <3>1. rcl' = [rcl EXCEPT ![prio[s]] = l]
      BY <2>1 DEF Unclaim
    <3>2. VFirst(l, Unspent)
      BY <1>3, VFirstRemove, SMTT(30) DEF ClaimsOrdered
    <3>3. Elems(l) \subseteq Share \ {s}
      BY <1>3, <1>4, ShareLists DEF ListOf
    <3>4. VFirst(l, Unspent')
      <4> HIDE DEF l
      <4>1. \A t \in Elems(l) : t \in Unspent <=> t \in Unspent'
        BY <1>1, <3>3 DEF Unspent
      <4>2. QED BY <3>2, <4>1, VFirstElems
    <3>5. \A p \in Prio \ {prio[s]} : s \notin Elems(rcl[p])
      BY DEF ListInv, Linked
    <3> HIDE DEF l
    <3>6. \A p \in Prio \ {prio[s]} : \A t \in Elems(rcl[p]) : claim'[t] > 0 <=> claim[t] > 0
      BY <1>1, <1>4, <3>5
    <3>7. QED BY <1>3, <3>1, <3>4, <3>6, OrderChanged
  <2>2. CASE ~(state[s] = "inserted" /\ quota[s] > 0 /\ ready[s])
    <3>1. rcl' = rcl
      BY <2>2 DEF Unclaim
    <3>2. \A p \in Prio : s \notin Elems(rcl[p])
      BY <2>2 DEF ListInv, Linked
    <3>3. \A p \in Prio : \A t \in Elems(rcl[p]) : claim'[t] > 0 <=> claim[t] > 0
      BY <1>1, <1>4, <3>2
    <3>4. QED BY <3>1, <3>3, OrderUntouched
  <2>3. QED BY <2>1, <2>2
<1>6. NoQuotaNoClaim'
  BY <1>1, <1>2 DEF NoQuotaNoClaim
<1>7. HeadUnspent'
  BY <1>1, SchedulerAssumption DEF HeadUnspent
<1>8. QED BY <1>5, <1>6, <1>7

\* A fill becomes a claim with nothing left, so it belongs behind the others;
\* a claim that gets another quota keeps something if it had something.
LEMMA OrderSetQuota ==
  ASSUME OrderInv, NEW s \in Share, NEW q \in Donation, SetQuota(s, q), 0 \notin Donation
  PROVE  ClaimsOrdered' /\ NoQuotaNoClaim' /\ HeadUnspent'
<1> USE DEF OrderInv, SetQuota, headVars
<1>1. q \in Nat /\ q > 0 /\ quota[s] \in Nat /\ claim[s] \in Nat /\ prio[s] \in Prio
  <2>1. q \in Nat /\ q # 0
    BY SchedulerAssumption
  <2>2. quota[s] \in Nat /\ claim[s] \in Nat
    BY DEF ListInv, TypeOK
  <2>3. QED BY <2>1, <2>2, SchedulerAssumption
<1>2. \A t \in Share \ {s} : claim'[t] = claim[t] /\ quota'[t] = quota[t]
  BY DEF ListInv, TypeOK, QuotaAdaption, QuotaIntroduction
<1>3. quota'[s] = q
  BY <1>1 DEF ListInv, TypeOK
<1>4. claim'[s] > 0 <=> claim[s] > 0
  <2>1. CASE quota[s] > 0
    <3>1. claim' = [claim EXCEPT ![s] = Minimum(@, q)]
      BY <1>1, <2>1 DEF QuotaAdaption
    <3>2. claim'[s] = Minimum(claim[s], q)
      BY <3>1 DEF ListInv, TypeOK
    <3>3. QED BY <1>1, <3>2 DEF Minimum
  <2>2. CASE quota[s] = 0
    BY <1>1, <2>2 DEF QuotaIntroduction
  <2>3. QED BY <1>1, <2>1, <2>2
<1>5. \A p \in Prio : Elems(rcl[p]) \subseteq Share
  BY ElemsSubset DEF ListInv, TypeOK
<1>6. \A p \in Prio : \A t \in Elems(rcl[p]) : claim'[t] > 0 <=> claim[t] > 0
  BY <1>2, <1>4, <1>5
<1>7. ClaimsOrdered'
  <2>1. CASE quota[s] = 0 /\ ready[s]
    <3> DEFINE l == InsertTail(rcl[prio[s]], s)
    <3>1. rcl' = [rcl EXCEPT ![prio[s]] = l] /\ claim' = claim
      BY <1>1, <2>1 DEF QuotaIntroduction
    <3>2. s \notin Unspent /\ Unspent' = Unspent
      BY <2>1, <3>1 DEF NoQuotaNoClaim, Unspent
    <3>3. VFirst(l, Unspent)
      <4>1. rcl[prio[s]] \in Seq(Share) /\ VFirst(rcl[prio[s]], Unspent)
        BY <1>1 DEF ListInv, TypeOK, ClaimsOrdered
      <4>2. QED BY <3>2, <4>1, VFirstInsertTail
    <3> HIDE DEF l
    <3>4. QED BY <1>1, <1>6, <3>1, <3>2, <3>3, OrderChanged
  <2>2. CASE ~(quota[s] = 0 /\ ready[s])
    <3>1. rcl' = rcl
      BY <1>1, <2>2 DEF QuotaAdaption, QuotaIntroduction
    <3>2. QED BY <1>6, <3>1, OrderUntouched
  <2>3. QED BY <2>1, <2>2
<1>8. NoQuotaNoClaim'
  BY <1>1, <1>2, <1>3 DEF NoQuotaNoClaim
<1>9. HeadUnspent'
  BY <1>1, <1>2, <1>3, <1>4 DEF HeadUnspent
<1>10. QED BY <1>7, <1>8, <1>9

\* 'ready' puts a claim that has quota left first and a spent one last.
LEMMA OrderBecomeReady ==
  ASSUME OrderInv, NEW s \in Share, BecomeReady(s),
         UNCHANGED <<quota, claim, head, head_claims>>
  PROVE  ClaimsOrdered' /\ NoQuotaNoClaim' /\ HeadUnspent'
<1> USE DEF OrderInv
<1>1. NoQuotaNoClaim' /\ HeadUnspent'
  BY DEF NoQuotaNoClaim, HeadUnspent
<1>2. Unspent' = Unspent /\ claim' = claim
  BY DEF Unspent
<1>3. prio[s] \in Prio /\ rcl[prio[s]] \in Seq(Share) /\ VFirst(rcl[prio[s]], Unspent)
  BY SchedulerAssumption DEF ListInv, TypeOK, ClaimsOrdered
<1>4. CASE quota[s] = 0
  <2>1. rcl' = rcl
    BY <1>4 DEF BecomeReady
  <2>2. QED BY <1>1, <1>2, <2>1, OrderUntouched
<1>5. CASE quota[s] # 0
  <2> DEFINE l == IF claim[s] > 0 THEN InsertHead(rcl[prio[s]], s)
                                  ELSE InsertTail(rcl[prio[s]], s)
  <2>1. rcl' = [rcl EXCEPT ![prio[s]] = l]
    BY <1>5 DEF BecomeReady
  <2>2. VFirst(l, Unspent)
    <3>1. CASE claim[s] > 0
      BY <1>3, <3>1, VFirstInsertHead DEF Unspent
    <3>2. CASE ~(claim[s] > 0)
      BY <1>3, <3>2, VFirstInsertTail DEF Unspent
    <3>3. QED BY <3>1, <3>2
  <2> HIDE DEF l
  <2>3. QED BY <1>1, <1>2, <1>3, <2>1, <2>2, OrderChanged
<1>6. QED BY <1>4, <1>5

\* 'unready' unlinks a claim and leaves the others in order.
LEMMA OrderUnready ==
  ASSUME OrderInv, NEW s \in Share, Unready(s)
  PROVE  ClaimsOrdered' /\ NoQuotaNoClaim' /\ HeadUnspent'
<1> USE DEF OrderInv, headVars
<1>1. NoQuotaNoClaim' /\ HeadUnspent'
  BY DEF Unready, NoQuotaNoClaim, HeadUnspent
<1>2. Unspent' = Unspent /\ claim' = claim
  BY DEF Unready, Unspent
<1>3. prio[s] \in Prio /\ rcl[prio[s]] \in Seq(Share) /\ VFirst(rcl[prio[s]], Unspent)
  BY SchedulerAssumption DEF ListInv, TypeOK, ClaimsOrdered
<1>4. CASE quota[s] = 0
  <2>1. rcl' = rcl
    BY <1>4 DEF Unready
  <2>2. QED BY <1>1, <1>2, <2>1, OrderUntouched
<1>5. CASE quota[s] # 0
  <2> DEFINE l == Remove(rcl[prio[s]], s)
  <2>1. rcl' = [rcl EXCEPT ![prio[s]] = l]
    BY <1>5 DEF Unready
  <2>2. VFirst(l, Unspent)
    BY <1>3, VFirstRemove
  <2> HIDE DEF l
  <2>3. QED BY <1>1, <1>2, <1>3, <2>1, <2>2, OrderChanged
<1>6. QED BY <1>4, <1>5

\* Charging the head moves it behind the others once it is spent; the next
\* super period gives every claim its quota back.
LEMMA OrderCharge ==
  ASSUME OrderInv, NEW c \in Consumption, Charge(c)
  PROVE  /\ ClaimsOrdered'
         /\ \A s \in Share : quota[s] = 0 => claim'[s] = 0
<1> USE DEF OrderInv
<1>1. /\ rcl \in [Prio -> Seq(Share)]
      /\ claim \in [Share -> Nat] /\ quota \in [Share -> Nat]
      /\ head_yields \in BOOLEAN /\ head_quota \in Nat
      /\ residual \in 1 .. SuperPeriod /\ SuperPeriod \in Nat \ {0}
      /\ head \in Share \cup {Idle, None}
      /\ \A s \in Share : prio[s] \in Prio
  BY SchedulerAssumption DEF ListInv, TypeOK
<1>2. \A p \in Prio : Elems(rcl[p]) \subseteq Share
  BY ElemsSubset DEF ListInv, TypeOK
<1>3. CASE head = None
  <2>1. rcl' = rcl /\ claim' = claim
    BY <1>3 DEF Charge
  <2>2. ClaimsOrdered'
    BY <2>1, OrderUntouched
  <2>3. QED BY <2>1, <2>2 DEF NoQuotaNoClaim
<1>4. CASE head # None
  <2> DEFINE q == Minimum(Minimum(c, head_quota), residual)
             r == IF head_yields THEN 0 ELSE head_quota - q
             h == HeadClaim(r)
  <2>1. q \in Nat /\ r \in Nat
    BY <1>1 DEF Consumption, Minimum
  <2>2. rcl' = HeadClaimList(r) /\ Consumed(q, h)
    BY <1>4 DEF Charge
  <2> HIDE DEF q, r
  <2>3. h \in [Share -> Nat] /\ \A s \in Share : quota[s] = 0 => h[s] = 0
    <3>1. CASE ~(head_claims /\ quota[head] > 0)
      BY <1>1, <3>1 DEF HeadClaim, NoQuotaNoClaim
    <3>2. CASE head_claims /\ quota[head] > 0
      <4>1. head \in Share
        BY <1>1, <1>4, <3>2 DEF ListInv, HeadLinked
      <4>2. h = [claim EXCEPT ![head] = Minimum(r, quota[head])]
        BY <3>2 DEF HeadClaim
      <4>3. Minimum(r, quota[head]) \in Nat
        BY <1>1, <2>1, <4>1 DEF Minimum
      <4> HIDE DEF h
      <4>4. QED BY <1>1, <3>2, <4>1, <4>2, <4>3 DEF NoQuotaNoClaim
    <3>3. QED BY <3>1, <3>2
  <2>4. CASE residual > q
    <3>1. claim' = h
      BY <2>2, <2>4 DEF Consumed
    <3>2. CASE ~(head_claims /\ quota[head] > 0)
      <4>1. rcl' = rcl /\ claim' = claim
        BY <2>2, <3>1, <3>2 DEF HeadClaim, HeadClaimList
      <4>2. ClaimsOrdered'
        BY <4>1, OrderUntouched
      <4>3. QED BY <2>3, <3>1, <4>2
    <3>3. CASE head_claims /\ quota[head] > 0
      <4>1. head \in Share /\ claim[head] > 0 /\ prio[head] \in Prio
        BY <1>1, <1>4, <3>3 DEF ListInv, HeadLinked, HeadUnspent
      <4>2. \A t \in Share \ {head} : claim'[t] = claim[t]
        BY <1>1, <3>1 DEF HeadClaim
      <4>3. CASE claim'[head] > 0
        <5>1. rcl' = rcl
          BY <2>2, <3>1, <4>3 DEF HeadClaimList
        <5>2. \A p \in Prio : \A t \in Elems(rcl[p]) : claim'[t] > 0 <=> claim[t] > 0
          BY <1>2, <4>1, <4>2, <4>3
        <5>3. ClaimsOrdered'
          BY <5>1, <5>2, OrderUntouched
        <5>4. QED BY <2>3, <3>1, <5>3
      <4>4. CASE claim'[head] = 0 /\ ready[head]
        <5> DEFINE m == Remove(rcl[prio[head]], head)
                   l == InsertTail(m, head)
        <5>1. rcl' = [rcl EXCEPT ![prio[head]] = l]
          BY <2>2, <3>1, <3>3, <4>4 DEF HeadClaimList, ToTail
        <5>2. m \in Seq(Share) /\ Elems(m) \subseteq Share \ {head}
          BY <1>2, <4>1, ShareLists DEF ListOf
        <5>3. VFirst(m, Unspent)
          <6>1. rcl[prio[head]] \in Seq(Share) /\ VFirst(rcl[prio[head]], Unspent)
            BY <1>1, <4>1 DEF ClaimsOrdered
          <6>2. QED BY <6>1, VFirstRemove
        <5> HIDE DEF m
        <5>4. \A t \in Elems(m) : t \in Unspent <=> t \in Unspent'
          BY <4>2, <5>2 DEF Unspent
        <5>5. VFirst(m, Unspent')
          BY <5>3, <5>4, VFirstElems
        <5>6. head \notin Unspent'
          BY <4>4 DEF Unspent
        <5>7. VFirst(l, Unspent')
          BY <4>1, <5>2, <5>5, <5>6, VFirstInsertTail
        <5>8. \A p \in Prio \ {prio[head]} : \A t \in Elems(rcl[p]) : claim'[t] > 0 <=> claim[t] > 0
          <6>1. \A p \in Prio \ {prio[head]} : head \notin Elems(rcl[p])
            BY <4>1 DEF ListInv, Linked
          <6>2. QED BY <1>2, <4>2, <6>1
        <5> HIDE DEF l
        <5>9. ClaimsOrdered'
          BY <4>1, <5>1, <5>7, <5>8, OrderChanged
        <5>10. QED BY <2>3, <3>1, <5>9
      <4>5. CASE claim'[head] = 0 /\ ~ready[head]
        <5>1. rcl' = rcl
          BY <2>2, <4>5 DEF HeadClaimList
        <5>2. \A p \in Prio : head \notin Elems(rcl[p])
          BY <4>1, <4>5 DEF ListInv, Linked
        <5>3. \A p \in Prio : \A t \in Elems(rcl[p]) : claim'[t] > 0 <=> claim[t] > 0
          BY <1>2, <4>2, <5>2
        <5>4. ClaimsOrdered'
          BY <5>1, <5>3, OrderUntouched
        <5>5. QED BY <2>3, <3>1, <5>4
      <4>6. claim'[head] = 0 \/ claim'[head] > 0
        BY <2>3, <3>1, <4>1
      <4>7. QED BY <4>3, <4>4, <4>5, <4>6
    <3>4. QED BY <3>2, <3>3
  <2>5. CASE ~(residual > q)
    <3> HIDE DEF h
    <3>1. claim' = [s \in Share |-> IF s \in Listed THEN quota[s] ELSE h[s]]
      BY <2>2, <2>5 DEF Consumed
    <3>2. \A s \in Share : quota[s] = 0 => claim'[s] = 0
      BY <2>3, <3>1
    <3>3. ASSUME NEW p \in Prio PROVE VFirst(rcl'[p], Unspent')
      <4>1. Elems(rcl'[p]) = Elems(rcl[p])
        BY ChargeStep
      <4>2. \A s \in Elems(rcl[p]) : s \in Share /\ quota[s] > 0
        BY <1>2 DEF ListInv, Linked
      <4>3. \A s \in Elems(rcl[p]) : s \in Listed
        BY DEF Listed
      <4>4. Elems(rcl'[p]) \subseteq Unspent'
        BY <3>1, <4>1, <4>2, <4>3 DEF Unspent
      <4>5. QED BY <4>4 DEF VFirst, Elems
    <3>4. QED BY <3>2, <3>3 DEF ClaimsOrdered
  <2>6. QED BY <2>4, <2>5
<1>5. QED BY <1>3, <1>4

\* The head that 'update' chooses has quota left if it is chosen as a claim.
LEMMA OrderUpdate ==
  ASSUME OrderInv, NEW c \in Consumption, Update(c)
  PROVE  ClaimsOrdered' /\ NoQuotaNoClaim' /\ HeadUnspent'
<1> USE DEF OrderInv
<1>1. Charge(c) /\ ChooseHead /\ quota' = quota
  BY DEF Update
<1>2. ClaimsOrdered' /\ \A s \in Share : quota[s] = 0 => claim'[s] = 0
  BY <1>1, OrderCharge
<1>3. NoQuotaNoClaim'
  BY <1>1, <1>2 DEF NoQuotaNoClaim
<1>4. HeadUnspent'
  <2>1. /\ rcl' \in [Prio -> Seq(Share)]
        /\ \A p \in Prio : Elems(rcl'[p]) = Elems(rcl[p])
    BY <1>1, ChargeStep
  <2>2. CASE ClaimPrio' # {}
    <3>1. head' = TopClaim'
      BY <1>1, <2>2 DEF ChooseHead
    <3>2. PICK p \in Prio : /\ TopClaim' \in Elems(rcl'[p]) /\ TopClaim' \in Share
                            /\ claim'[TopClaim'] > 0
      BY <2>1, <2>2, TopClaimNext
    <3>3. quota[TopClaim'] > 0
      BY <2>1, <3>2 DEF ListInv, Linked
    <3>4. QED BY <1>1, <3>1, <3>2, <3>3 DEF HeadUnspent
  <2>3. CASE ClaimPrio' = {}
    BY <1>1, <2>3 DEF ChooseHead, HeadUnspent
  <2>4. QED BY <2>2, <2>3
<1>5. QED BY <1>2, <1>3, <1>4

\* Every step preserves OrderInv if no quota is withdrawn altogether.
LEMMA OrderInvStep ==
  ASSUME 0 \notin Donation
  PROVE  OrderInv /\ [Next]_vars => OrderInv'
<1> SUFFICES ASSUME OrderInv, [Next]_vars
             PROVE  ClaimsOrdered' /\ NoQuotaNoClaim' /\ HeadUnspent'
  BY ListInvStep DEF OrderInv
<1>1. CASE \E s \in Share, q \in Quota : Create(s, q)
  BY <1>1, OrderCreate
<1>2. CASE \E s \in Share, q \in Donation : PresetQuota(s, q)
  BY <1>2, OrderCreate
<1>3. CASE \E s \in Share : Insert(s)
  BY <1>3, OrderInsert
<1>4. CASE \E s \in Share : Delete(s)
  BY <1>4, OrderDelete
<1>5. CASE \E s \in Share, q \in Donation : SetQuota(s, q)
  BY <1>5, OrderSetQuota
<1>6. CASE \E s \in Share : Ready(s) \/ ReadyCheck(s)
  <2>1. PICK s \in Share : Ready(s) \/ ReadyCheck(s)
    BY <1>6
  <2>2. BecomeReady(s) /\ UNCHANGED <<quota, claim, head, head_claims>>
    BY <2>1 DEF Ready, ReadyCheck, headVars
  <2>3. QED BY <2>2, OrderBecomeReady
<1>7. CASE \E s \in Share : Unready(s)
  BY <1>7, OrderUnready
<1>8. CASE Yield \/ EnterKernel \/ EnterIpi \/ UNCHANGED vars
  <2>1. UNCHANGED <<rcl, claim, quota, head, head_claims>>
    BY <1>8 DEF Yield, EnterKernel, EnterIpi, vars, shareVars, listVars, headVars
  <2>2. ClaimsOrdered'
    BY <2>1, OrderUntouched DEF OrderInv
  <2>3. QED BY <2>1, <2>2 DEF OrderInv, NoQuotaNoClaim, HeadUnspent
<1>9. CASE \E c \in Consumption : Update(c)
  BY <1>9, OrderUpdate
<1>10. QED
  BY <1>1, <1>2, <1>3, <1>4, <1>5, <1>6, <1>7, <1>8, <1>9 DEF Next

\* As long as no quota is withdrawn altogether, each list of ready claims
\* starts with those that have quota left, so looking at the first claim of
\* each list, as _claim_for_head does, finds a live claim if there is one.
THEOREM UnspentAlwaysFirst ==
  ASSUME 0 \notin Donation
  PROVE  Spec => []UnspentFirst
<1>1. Init => OrderInv
  BY InitOrderInv
<1>2. OrderInv /\ [Next]_vars => OrderInv'
  BY OrderInvStep
<1>3. OrderInv => UnspentFirst
  BY ClaimsOrderedUnspentFirst DEF OrderInv
<1>4. QED BY <1>1, <1>2, <1>3, PTL DEF Spec

---------------------------------------------------------------------------
(***************************************************************************)
(* Preemption: what 'update' chooses and what 'ready_check' decides        *)
(***************************************************************************)

\* The head comes before every live claim, and it is the idle share only if no
\* share is ready.
HeadFirst ==
  /\ \A s \in LiveClaims : head_claims /\ prio[head] >= prio[s]
  /\ head = Idle => \A s \in Inserted : ~ready[s]

\* The inductive invariant behind NoMissedPreemption
PreemptInv == OrderInv /\ NoMissedPreemption

\* Among lists in order, a live claim implies that the first claim of its list
\* is live, so the chosen head has at least its priority.
LEMMA UpdateHeadFirst ==
  ASSUME OrderInv, OrderInv', NEW c \in Consumption, Update(c)
  PROVE  HeadFirst'
<1> USE DEF OrderInv
<1>1. ChooseHead
  BY DEF Update
<1>2. ASSUME NEW s \in LiveClaims'
      PROVE  /\ head_claims' /\ prio[head'] >= prio[s]
             /\ ClaimPrio' # {}
  <2>1. s \in Share /\ s \in Elems(rcl'[prio[s]]) /\ prio[s] \in Prio /\ claim'[s] > 0
    BY SchedulerAssumption DEF LiveClaims, Inserted, ListInv, Linked
  <2> DEFINE l == rcl'[prio[s]]
  <2>2. l \in Seq(Share) /\ VFirst(l, Unspent')
    BY <2>1 DEF ListInv, TypeOK, ClaimsOrdered
  <2>3. PICK j \in 1 .. Len(l) : l[j] = s
    BY <2>1 DEF Elems
  <2> HIDE DEF l
  <2>4. l # <<>> /\ Head(l) = l[1] /\ 1 \in 1 .. Len(l) /\ Len(l) \in Nat
    BY <2>2, <2>3
  <2>5. l[1] \in Unspent'
    <3>1. s \in Unspent'
      BY <2>1 DEF Unspent
    <3>2. CASE j = 1
      BY <2>3, <3>1, <3>2
    <3>3. CASE j # 1
      BY <2>2, <2>3, <2>4, <3>1, <3>3 DEF VFirst
    <3>4. QED BY <3>2, <3>3
  <2>6. prio[s] \in ClaimPrio'
    BY <2>1, <2>4, <2>5 DEF ClaimPrio, Unspent, l
  <2>7. head' = TopClaim' /\ head_claims' = TRUE
    BY <1>1, <2>6 DEF ChooseHead
  <2>8. rcl' \in [Prio -> Seq(Share)]
    BY DEF ListInv, TypeOK
  <2>9. PICK p \in Prio : /\ TopClaim' \in Elems(rcl'[p]) /\ TopClaim' \in Share
                          /\ \A o \in ClaimPrio' : o <= p
    BY <2>6, <2>8, TopClaimNext
  <2>10. prio[TopClaim'] = p
    BY <2>9 DEF ListInv, Linked
  <2>11. p \in Nat /\ prio[s] \in Nat /\ prio[s] <= p
    BY <2>1, <2>6, <2>9, SchedulerAssumption DEF Prio
  <2>12. QED BY <2>6, <2>7, <2>10, <2>11
<1>3. ASSUME head' = Idle PROVE \A s \in Inserted' : ~ready'[s]
  <2>1. fills' = <<>>
    <3>1. CASE ClaimPrio' # {}
      <4>1. rcl' \in [Prio -> Seq(Share)]
        BY DEF ListInv, TypeOK
      <4>2. TopClaim' \in Share
        BY <3>1, <4>1, TopClaimNext
      <4>3. head' = TopClaim'
        BY <1>1, <3>1 DEF ChooseHead
      <4>4. QED BY <1>3, <4>2, <4>3, SchedulerAssumption
    <3>2. CASE ClaimPrio' = {} /\ fills' # <<>>
      <4>1. fills' \in Seq(Share)
        BY DEF ListInv, TypeOK
      <4>2. Head(fills') \in Elems(fills') /\ Elems(fills') \subseteq Share
        BY <3>2, <4>1, HeadElem, ElemsSubset
      <4>3. head' = Head(fills')
        BY <1>1, <3>2 DEF ChooseHead
      <4>4. QED BY <1>3, <4>2, <4>3, SchedulerAssumption
    <3>3. QED BY <3>1, <3>2
  <2>2. \A s \in Share : s \notin Elems(fills')
    BY <2>1, EmptyElems
  <2>3. QED BY <2>2 DEF Inserted, ListInv, Linked
<1>4. QED BY <1>2, <1>3 DEF HeadFirst

\* Of the steps, only 'update' ends a kernel pass.
LEMMA OnlyUpdateEndsPass ==
  ASSUME [Next]_vars, pass, ~pass'
  PROVE  \E c \in Consumption : Update(c)
  BY DEF Next, Create, PresetQuota, Insert, Delete, SetQuota, Ready, ReadyCheck, Unready,
         Yield, EnterKernel, EnterIpi, vars, cpuVars

\* The release notes' rule of the claim mode: as long as no quota is withdrawn
\* altogether, each choice of the scheduler is a live claim of the highest
\* priority that has one, if there is a live claim at all.
THEOREM ClaimModeAlwaysFirst ==
  ASSUME 0 \notin Donation
  PROVE  Spec => ClaimModeFirst
<1>1. Init => OrderInv
  BY InitOrderInv
<1>2. OrderInv /\ [Next]_vars => OrderInv'
  BY OrderInvStep
<1>3. OrderInv /\ [Next]_vars =>
        [pass /\ ~pass' => \A s \in LiveClaims' : head_claims' /\ prio[head'] >= prio[s]]_vars
  <2> SUFFICES ASSUME OrderInv, [Next]_vars, pass, ~pass'
               PROVE  \A s \in LiveClaims' : head_claims' /\ prio[head'] >= prio[s]
    OBVIOUS
  <2>1. PICK c \in Consumption : Update(c)
    BY OnlyUpdateEndsPass
  <2>2. OrderInv'
    BY <1>2
  <2>3. HeadFirst'
    BY <2>1, <2>2, UpdateHeadFirst
  <2>4. QED BY <2>3 DEF HeadFirst
<1>4. QED BY <1>1, <1>2, <1>3, PTL DEF Spec, ClaimModeFirst

\* A step that makes no share ready and gives no claim new time needs no
\* preemption.
LEMMA PreemptUntouched ==
  ASSUME NoMissedPreemption,
         UNCHANGED <<head_claims, pass, ipi>>, head' \in {head, None},
         LiveClaims' \subseteq LiveClaims,
         \A s \in Inserted' : ready'[s] => s \in Inserted /\ ready[s]
  PROVE  NoMissedPreemption'
<1> SUFFICES ASSUME ~pass', ~ipi', head' # None
             PROVE  /\ \A s \in LiveClaims' : head_claims' /\ prio[head'] >= prio[s]
                    /\ head' = Idle => \A s \in Inserted' : ~ready'[s]
  BY DEF NoMissedPreemption
<1>1. ~pass /\ ~ipi /\ head' = head /\ head # None
  OBVIOUS
<1>2. /\ \A s \in LiveClaims : head_claims /\ prio[head] >= prio[s]
      /\ head = Idle => \A s \in Inserted : ~ready[s]
  BY <1>1 DEF NoMissedPreemption
<1>3. QED BY <1>1, <1>2

\* Operations between two kernel passes that make no share ready
LEMMA PreemptQuiet ==
  ASSUME OrderInv, NoMissedPreemption, 0 \notin Donation, NEW s \in Share,
         \/ \E q \in Quota : Create(s, q)
         \/ \E q \in Donation : PresetQuota(s, q)
         \/ Insert(s)
         \/ Delete(s)
         \/ \E q \in Donation : SetQuota(s, q)
  PROVE  NoMissedPreemption'
<1> USE DEF OrderInv, headVars, cpuVars, listVars
<1>1. UNCHANGED <<head_claims, pass, ipi>> /\ head' \in {head, None}
  BY DEF Create, PresetQuota, Insert, Delete, SetQuota
<1>2. \A t \in Share : ready'[t] => ready[t]
  BY DEF ListInv, TypeOK, Create, PresetQuota, Insert, Delete, SetQuota
<1>3. \A t \in Share : ready[t] => state[t] = "inserted"
  BY DEF ListInv, Linked
<1>4. LiveClaims' \subseteq LiveClaims
  <2>1. SUFFICES ASSUME NEW t \in Share, state'[t] = "inserted", ready'[t], quota'[t] > 0, claim'[t] > 0
                 PROVE  t \in LiveClaims
    BY DEF LiveClaims, Inserted
  <2>2. ready[t] /\ state[t] = "inserted"
    BY <1>2, <1>3, <2>1
  <2>3. claim[t] > 0
    <3>1. CASE t # s
      <4>1. claim'[t] = claim[t]
        BY <3>1 DEF ListInv, TypeOK, Create, PresetQuota, Insert, Delete, SetQuota,
                    QuotaAdaption, QuotaIntroduction
      <4>2. QED BY <2>1, <4>1
    <3>2. CASE t = s
      <4>1. PICK q \in Donation : SetQuota(s, q)
        BY <2>1, <2>2, <3>2 DEF ListInv, TypeOK, Create, PresetQuota, Insert, Delete
      <4>2. quota[s] \in Nat /\ claim[s] \in Nat /\ claim \in [Share -> Nat] /\ q \in Nat
        BY SchedulerAssumption DEF ListInv, TypeOK
      <4>3. claim' = claim \/ claim' = [claim EXCEPT ![s] = Minimum(@, q)]
        BY <4>1, <4>2 DEF SetQuota, QuotaAdaption, QuotaIntroduction
      <4>4. claim'[s] = claim[s] \/ claim'[s] = Minimum(claim[s], q)
        BY <4>2, <4>3
      <4>5. QED BY <2>1, <3>2, <4>2, <4>4 DEF Minimum
    <3>3. QED BY <3>1, <3>2
  <2>4. quota[t] > 0
    BY <2>3 DEF NoQuotaNoClaim, ListInv, TypeOK
  <2>5. QED BY <2>2, <2>3, <2>4 DEF LiveClaims, Inserted
<1>5. \A t \in Inserted' : ready'[t] => t \in Inserted /\ ready[t]
  BY <1>2, <1>3 DEF Inserted
<1>6. QED BY <1>1, <1>4, <1>5, PreemptUntouched

\* 'ready_check' orders an interrupt whenever the new share must not wait.
LEMMA PreemptReadyCheck ==
  ASSUME OrderInv, NoMissedPreemption, NEW s \in Share, ReadyCheck(s)
  PROVE  NoMissedPreemption'
<1> USE DEF OrderInv
<1>1. /\ ~pass /\ head # None
      /\ ready' = [ready EXCEPT ![s] = TRUE]
      /\ UNCHANGED <<state, quota, claim, head, head_claims, pass>>
      /\ ipi' = (ipi \/ Outdated(s))
  BY DEF ReadyCheck, BecomeReady, headVars
<1>2. SUFFICES ASSUME ~ipi'
               PROVE  /\ \A t \in LiveClaims' : head_claims /\ prio[head] >= prio[t]
                      /\ head # Idle
  BY <1>1 DEF NoMissedPreemption
<1>3. ~ipi /\ ~Outdated(s)
  BY <1>1, <1>2
<1>4. /\ \A t \in LiveClaims : head_claims /\ prio[head] >= prio[t]
      /\ head = Idle => \A t \in Inserted : ~ready[t]
  BY <1>1, <1>3 DEF NoMissedPreemption
<1>5. \A t \in LiveClaims' : t = s \/ t \in LiveClaims
  BY <1>1 DEF LiveClaims, Inserted, ListInv, TypeOK
<1>6. head \in Share => prio[head] \in Nat
  BY SchedulerAssumption DEF Prio
<1>7. prio[s] \in Nat /\ claim[s] \in Nat
  BY SchedulerAssumption DEF Prio, ListInv, TypeOK
<1>8. CASE claim[s] = 0
  <2>1. head # Idle
    BY <1>3, <1>8 DEF Outdated
  <2>2. s \notin LiveClaims'
    BY <1>1, <1>8 DEF LiveClaims
  <2>3. QED BY <1>4, <1>5, <2>1, <2>2
<1>9. CASE claim[s] # 0
  <2>1. head_claims
    BY <1>3, <1>9 DEF Outdated
  <2>2. head # Idle
    BY <2>1 DEF ListInv, HeadLinked
  <2>3. head \in Share
    BY <1>1, <2>2 DEF ListInv, TypeOK
  <2>4. prio[head] >= prio[s]
    BY <1>3, <1>6, <1>7, <1>9, <2>1, <2>3 DEF Outdated
  <2>5. QED BY <1>4, <1>5, <2>1, <2>2, <2>4
<1>10. QED BY <1>8, <1>9

\* As long as no quota is withdrawn altogether, no live claim waits for a claim
\* of lower priority or a fill without a reschedule request being on its way:
\* ready_check never saves an inter-processor interrupt that is needed.
THEOREM PreemptionNeverMissed ==
  ASSUME 0 \notin Donation
  PROVE  Spec => []NoMissedPreemption
<1>1. Init => PreemptInv
  BY InitOrderInv DEF Init, PreemptInv, NoMissedPreemption, LiveClaims, Inserted
<1>2. PreemptInv /\ [Next]_vars => PreemptInv'
  <2> SUFFICES ASSUME OrderInv, NoMissedPreemption, [Next]_vars
               PROVE  OrderInv' /\ NoMissedPreemption'
    BY DEF PreemptInv
  <2>1. OrderInv'
    BY OrderInvStep
  <2>2. CASE \/ \E s \in Share, q \in Quota : Create(s, q)
             \/ \E s \in Share, q \in Donation : PresetQuota(s, q)
             \/ \E s \in Share : Insert(s)
             \/ \E s \in Share : Delete(s)
             \/ \E s \in Share, q \in Donation : SetQuota(s, q)
    BY <2>1, <2>2, PreemptQuiet
  <2>3. CASE \E s \in Share : ReadyCheck(s)
    BY <2>1, <2>3, PreemptReadyCheck
  <2>4. CASE \/ \E s \in Share : Ready(s)
             \/ \E s \in Share : Unready(s)
             \/ Yield
             \/ EnterKernel
             \/ EnterIpi
    <3>1. pass' = TRUE
      BY <2>4 DEF Ready, Unready, Yield, EnterKernel, EnterIpi, cpuVars, PreemptInv, OrderInv,
                  ListInv, TypeOK
    <3>2. QED BY <2>1, <3>1 DEF NoMissedPreemption
  <2>5. CASE \E c \in Consumption : Update(c)
    <3>1. HeadFirst'
      BY <2>1, <2>5, UpdateHeadFirst
    <3>2. QED BY <2>1, <3>1 DEF HeadFirst, NoMissedPreemption
  <2>6. CASE UNCHANGED vars
    BY <2>1, <2>6 DEF vars, shareVars, headVars, cpuVars, NoMissedPreemption, LiveClaims, Inserted
  <2>7. QED BY <2>2, <2>3, <2>4, <2>5, <2>6 DEF Next
<1>3. PreemptInv => NoMissedPreemption
  BY DEF PreemptInv
<1>4. QED BY <1>1, <1>2, <1>3, PTL DEF Spec

---------------------------------------------------------------------------
(***************************************************************************)
(* The share that runs: linked, ready and given time                       *)
(***************************************************************************)

\* A ready share always has a time slice to run as a fill.
SliceLeft == \A s \in Share : ready[s] => fill[s] > 0

\* The inductive invariant behind HeadRunnable
RunInv == ListInv /\ SliceLeft /\ HeadRunnable

\* Charging the head leaves it and every other ready share a time slice.
LEMMA ChargeSlice ==
  ASSUME ListInv, SliceLeft, NEW c \in Consumption, Charge(c), NEW s \in Share, ready[s]
  PROVE  fill'[s] > 0
<1>1. /\ fill \in [Share -> Nat] /\ fill[s] > 0 /\ FillSlice \in Nat \ {0}
      /\ head_quota \in Nat /\ residual \in Nat
  BY SchedulerAssumption DEF ListInv, TypeOK, SliceLeft
<1>2. CASE head = None
  BY <1>1, <1>2 DEF Charge
<1>3. CASE head # None
  <2> DEFINE q == Minimum(Minimum(c, head_quota), residual)
             r == IF head_yields THEN 0 ELSE head_quota - q
  <2>1. r \in Nat
    BY <1>1 DEF Consumption, Minimum
  <2>2. fill' = HeadFill(r)
    BY <1>3 DEF Charge
  <2> HIDE DEF q, r
  <2>3. QED BY <1>1, <2>1, <2>2 DEF HeadFill
<1>4. QED BY <1>2, <1>3

\* 'update' chooses a ready share with time left, or the idle share.
LEMMA UpdateRunnable ==
  ASSUME RunInv, NEW c \in Consumption, Update(c)
  PROVE  SliceLeft' /\ HeadRunnable'
<1> USE DEF RunInv
<1>1. ListInv'
  BY UpdateStep
<1>2. state' = state /\ ready' = ready /\ Charge(c)
  BY DEF Update
<1>3. SliceLeft'
  BY <1>2, ChargeSlice DEF SliceLeft
<1>4. rcl' \in [Prio -> Seq(Share)] /\ fills' \in Seq(Share)
  BY <1>1 DEF ListInv, TypeOK
<1>5. /\ head' # Idle => head' \in Share /\ state'[head'] = "inserted" /\ ready'[head']
      /\ head_quota' > 0
  <2>1. CASE ClaimPrio' # {}
    <3>1. head' = TopClaim' /\ head_quota' = claim'[head']
      BY <2>1 DEF Update, ChooseHead
    <3>2. PICK p \in Prio : /\ TopClaim' \in Elems(rcl'[p]) /\ TopClaim' \in Share
                            /\ claim'[TopClaim'] > 0
      BY <1>4, <2>1, TopClaimNext
    <3>3. QED BY <1>1, <3>1, <3>2 DEF ListInv, Linked
  <2>2. CASE ClaimPrio' = {} /\ fills' # <<>>
    <3>1. head' = Head(fills') /\ head_quota' = fill'[head']
      BY <2>2 DEF Update, ChooseHead
    <3>2. Head(fills') \in Elems(fills') /\ Elems(fills') \subseteq Share
      BY <1>4, <2>2, HeadElem, ElemsSubset
    <3>3. ready'[head'] /\ state'[head'] = "inserted" /\ head' \in Share
      BY <1>1, <3>1, <3>2 DEF ListInv, Linked
    <3>4. QED BY <1>3, <3>1, <3>3 DEF SliceLeft
  <2>3. CASE ClaimPrio' = {} /\ fills' = <<>>
    BY <2>3, SchedulerAssumption DEF Update, ChooseHead
  <2>4. QED BY <2>1, <2>2, <2>3
<1>6. QED BY <1>3, <1>5 DEF HeadRunnable, Inserted

\* Every step of the scheduler preserves RunInv.
LEMMA RunInvStep == RunInv /\ [Next]_vars => RunInv'
<1> SUFFICES ASSUME RunInv, [Next]_vars PROVE SliceLeft' /\ HeadRunnable'
  BY ListInvStep DEF RunInv
<1> USE DEF RunInv, headVars, cpuVars
<1>1. /\ fill \in [Share -> Nat] /\ ready \in [Share -> BOOLEAN]
      /\ state \in [Share -> {"absent", "created", "inserted"}]
      /\ FillSlice \in Nat \ {0} /\ head_quota \in Nat
      /\ Idle \notin Share /\ None \notin Share \cup {Idle}
      /\ head \in Share \cup {Idle, None}
  BY SchedulerAssumption DEF ListInv, TypeOK
<1>2. CASE \E s \in Share : (\E q \in Quota : Create(s, q)) \/ Insert(s)
  BY <1>1, <1>2 DEF Create, Insert, SliceLeft, HeadRunnable, Inserted
<1>3. CASE \E s \in Share, q \in Donation : PresetQuota(s, q) \/ SetQuota(s, q)
  BY <1>1, <1>3 DEF PresetQuota, SetQuota, SliceLeft, HeadRunnable, Inserted
<1>4. CASE \E s \in Share : Delete(s)
  BY <1>1, <1>4 DEF Delete, SliceLeft, HeadRunnable, Inserted
<1>5. CASE \E s \in Share : Ready(s) \/ ReadyCheck(s)
  BY <1>1, <1>5 DEF Ready, ReadyCheck, BecomeReady, SliceLeft, HeadRunnable, Inserted
<1>6. CASE \E s \in Share : Unready(s)
  BY <1>1, <1>6 DEF Unready, SliceLeft, HeadRunnable
<1>7. CASE Yield \/ EnterKernel \/ EnterIpi \/ UNCHANGED vars
  BY <1>1, <1>7 DEF Yield, EnterKernel, EnterIpi, vars, shareVars, SliceLeft, HeadRunnable, Inserted
<1>8. CASE \E c \in Consumption : Update(c)
  BY <1>8, UpdateRunnable
<1>9. QED
  BY <1>2, <1>3, <1>4, <1>5, <1>6, <1>7, <1>8 DEF Next

\* Whatever quotas come and go and whichever CPU makes shares ready or deletes
\* them, in user mode the CPU executes a linked, ready share, or idle, that
\* has time left: the one-shot timer is never armed with zero.
THEOREM HeadAlwaysRunnable == Spec => []HeadRunnable
<1>1. Init => RunInv
  BY InitListInv, SchedulerAssumption DEF Init, RunInv, SliceLeft, HeadRunnable
<1>2. RunInv /\ [Next]_vars => RunInv'
  BY RunInvStep
<1>3. RunInv => HeadRunnable
  BY DEF RunInv
<1>4. QED BY <1>1, <1>2, <1>3, PTL DEF Spec

\* The head is missing in user mode only because another CPU deleted the thread
\* that runs here: if that does not happen, ready_check's assertion and the
\* dereference in Cpu::schedule are safe.
THEOREM HeadAlwaysPresent ==
  ASSUME DeleteRunning = FALSE
  PROVE  Spec => []HeadPresent
<1> DEFINE I == ListInv /\ HeadPresent
<1>1. Init => I
  BY InitListInv, SchedulerAssumption DEF Init, HeadPresent
<1>2. I /\ [Next]_vars => I'
  <2> SUFFICES ASSUME ListInv, HeadPresent, [Next]_vars PROVE HeadPresent'
    BY ListInvStep
  <2>1. CASE \E c \in Consumption : Update(c)
    <3>1. PICK c \in Consumption : Update(c)
      BY <2>1
    <3>2. rcl' \in [Prio -> Seq(Share)] /\ fills' \in Seq(Share)
      BY <3>1, UpdateStep DEF ListInv, TypeOK
    <3>3. CASE ClaimPrio' # {}
      BY <3>1, <3>2, <3>3, TopClaimNext, SchedulerAssumption DEF Update, ChooseHead, HeadPresent
    <3>4. CASE ClaimPrio' = {} /\ fills' # <<>>
      <4>1. Head(fills') \in Share
        BY <3>2, <3>4
      <4>2. QED BY <3>1, <3>4, <4>1, SchedulerAssumption DEF Update, ChooseHead, HeadPresent
    <3>5. CASE ClaimPrio' = {} /\ fills' = <<>>
      BY <3>1, <3>5, SchedulerAssumption DEF Update, ChooseHead, HeadPresent
    <3>6. QED BY <3>3, <3>4, <3>5
  <2>2. CASE ~\E c \in Consumption : Update(c)
    <3>1. (pass => pass') /\ (head' = head \/ (head' = None /\ pass /\ pass'))
      BY <2>2 DEF Next, Create, PresetQuota, Insert, Delete, SetQuota, Ready, ReadyCheck, Unready,
             Yield, EnterKernel, EnterIpi, vars, cpuVars, headVars
    <3>2. QED BY <3>1 DEF HeadPresent
  <2>3. QED BY <2>1, <2>2
<1>3. I => HeadPresent
  OBVIOUS
<1>4. QED BY <1>1, <1>2, <1>3, PTL DEF Spec

---------------------------------------------------------------------------
(***************************************************************************)
(* The budget of a claim, in systems whose CPU sessions never withdraw the *)
(* last quota of a thread                                                  *)
(***************************************************************************)

\* Only claims are charged: a share that is not linked or has no quota has used
\* no quota.
FillsUncharged == \A s \in Share : state[s] # "inserted" \/ quota[s] = 0 => used[s] = 0

\* ClaimBudget, share by share
WithinGrant == \A s \in Share :
                 state[s] = "inserted" /\ quota[s] > 0 => used[s] + claim[s] <= granted[s]

\* The time the head was given counts for its budget, not only what its claim
\* says: the claim is written when the head is charged.
HeadWithinGrant == head_claims /\ head \in Share => used[head] + head_quota <= granted[head]

\* The inductive invariant behind ClaimBudget
BudgetInv == OrderInv /\ FillsUncharged /\ WithinGrant /\ HeadWithinGrant

\* Operations on a share other than the charging of the head keep the budget:
\* new quota is granted as far as it exceeds the former, and a claim never
\* grows within the super period.
LEMMA BudgetShare ==
  ASSUME BudgetInv, OrderInv', 0 \notin Donation, NEW s \in Share,
         \/ \E q \in Quota : Create(s, q)
         \/ \E q \in Donation : PresetQuota(s, q)
         \/ Insert(s)
         \/ Delete(s)
         \/ \E q \in Donation : SetQuota(s, q)
  PROVE  FillsUncharged' /\ WithinGrant' /\ HeadWithinGrant'
<1> USE DEF BudgetInv, headVars, history
<1>1. /\ state \in [Share -> {"absent", "created", "inserted"}]
      /\ quota \in [Share -> Nat] /\ claim \in [Share -> Nat]
      /\ used \in [Share -> Nat] /\ granted \in [Share -> Nat]
      /\ quota' \in [Share -> Nat] /\ claim' \in [Share -> Nat]
      /\ granted' \in [Share -> Nat]
      /\ head_quota \in Nat
  BY DEF OrderInv, ListInv, TypeOK
<1>2. /\ head_claims' = head_claims /\ head_quota' = head_quota
      /\ head' = head \/ (head' = None /\ head = s)
      /\ head' = s => ~ \E q \in Quota : Create(s, q)
      /\ head' = s => ~ Delete(s)
      /\ head' = s => ~ Insert(s)
  <2>1. head \in Share => state[head] = "inserted"
    BY DEF OrderInv, ListInv, HeadLinked
  <2>2. s # None
    BY SchedulerAssumption
  <2>3. QED BY <2>1, <2>2 DEF Create, PresetQuota, Insert, Delete, SetQuota
<1>3. \A t \in Share \ {s} : /\ state'[t] = state[t] /\ quota'[t] = quota[t]
                             /\ claim'[t] = claim[t] /\ used'[t] = used[t]
                             /\ granted'[t] = granted[t]
  <2>1. UNCHANGED claim \/ claim' = [claim EXCEPT ![s] = claim'[s]]
    BY <1>1 DEF Create, PresetQuota, Insert, Delete, SetQuota, QuotaAdaption, QuotaIntroduction
  <2>2. QED BY <1>1, <2>1 DEF Create, PresetQuota, Insert, Delete, SetQuota
<1>4. /\ state'[s] # "inserted" \/ quota'[s] = 0 => used'[s] = 0
      /\ state'[s] = "inserted" /\ quota'[s] > 0 => used'[s] + claim'[s] <= granted'[s]
      /\ head' = s => used'[s] = used[s] /\ granted'[s] >= granted[s]
  <2>1. state[s] # "inserted" \/ quota[s] = 0 => used[s] = 0
    BY DEF FillsUncharged
  <2>2. CASE (\E q \in Quota : Create(s, q)) \/ (\E q \in Donation : PresetQuota(s, q))
    BY <1>1, <2>1, <2>2 DEF Create, PresetQuota
  <2>3. CASE Insert(s)
    <3>1. /\ head' # s /\ state[s] = "created" /\ state'[s] = "inserted" /\ used[s] = 0
          /\ used' = used /\ quota' = quota
      BY <1>1, <1>2, <2>1, <2>3 DEF Insert
    <3>2. quota[s] > 0 => claim'[s] = quota[s] /\ granted'[s] = quota[s]
      BY <1>1, <2>3 DEF Insert
    <3>3. QED BY <1>1, <3>1, <3>2
  <2>4. CASE Delete(s)
    <3>1. state'[s] = "absent" /\ used'[s] = 0 /\ head' # s
      BY <1>1, <1>2, <2>4 DEF Delete
    <3>2. QED BY <3>1
  <2>5. CASE \E q \in Donation : SetQuota(s, q)
    <3>1. PICK q \in Donation : SetQuota(s, q)
      BY <2>5
    <3>2. q \in Nat /\ q > 0
      BY SchedulerAssumption
    <3>3. /\ state[s] = "inserted" /\ state'[s] = "inserted" /\ used'[s] = used[s]
          /\ quota'[s] = q /\ granted'[s] = Maximum(granted[s], q)
      BY <1>1, <3>1 DEF SetQuota
    <3>4. CASE quota[s] > 0
      <4>1. claim'[s] = Minimum(claim[s], q)
        BY <1>1, <3>1, <3>2, <3>4 DEF SetQuota, QuotaAdaption
      <4>2. used[s] + claim[s] <= granted[s]
        BY <3>3, <3>4 DEF WithinGrant
      <4>3. QED BY <1>1, <3>2, <3>3, <4>1, <4>2 DEF Minimum, Maximum
    <3>5. CASE quota[s] = 0
      <4>1. claim'[s] = claim[s]
        BY <3>1, <3>2, <3>5 DEF SetQuota, QuotaIntroduction
      <4>2. claim[s] = 0 /\ used[s] = 0
        BY <2>1, <3>5 DEF OrderInv, NoQuotaNoClaim
      <4>3. QED BY <1>1, <3>2, <3>3, <4>1, <4>2 DEF Maximum
    <3>6. QED BY <1>1, <3>4, <3>5
  <2>6. QED BY <2>2, <2>3, <2>4, <2>5
<1>5. FillsUncharged'
  BY <1>3, <1>4 DEF FillsUncharged
<1>6. WithinGrant'
  BY <1>3, <1>4 DEF WithinGrant
<1>7. HeadWithinGrant'
  <2>1. SUFFICES ASSUME head_claims', head' \in Share
                 PROVE  used'[head'] + head_quota' <= granted'[head']
    BY DEF HeadWithinGrant
  <2>2. head' = head /\ used[head] + head_quota <= granted[head]
    BY <1>2, <2>1, SchedulerAssumption DEF HeadWithinGrant
  <2>3. used'[head] = used[head] /\ granted'[head] >= granted[head]
    BY <1>1, <1>3, <1>4, <2>1, <2>2
  <2>4. QED BY <1>1, <1>2, <2>1, <2>2, <2>3
<1>8. QED BY <1>5, <1>6, <1>7

\* Charging the head moves time from its claim to what it used, and the end of
\* the super period grants each claim its quota anew.
LEMMA BudgetCharge ==
  ASSUME BudgetInv, NEW c \in Consumption, Charge(c), UNCHANGED <<state, quota>>
  PROVE  FillsUncharged' /\ WithinGrant'
<1> USE DEF BudgetInv
<1>1. /\ quota \in [Share -> Nat] /\ claim \in [Share -> Nat]
      /\ used \in [Share -> Nat] /\ granted \in [Share -> Nat]
      /\ head_quota \in Nat /\ residual \in Nat /\ head \in Share \cup {Idle, None}
  BY SchedulerAssumption DEF OrderInv, ListInv, TypeOK
<1>2. CASE head = None
  BY <1>2 DEF Charge, history, FillsUncharged, WithinGrant
<1>3. CASE head # None
  <2> DEFINE q == Minimum(Minimum(c, head_quota), residual)
             r == IF head_yields THEN 0 ELSE head_quota - q
             h == HeadClaim(r)
  <2>1. q \in Nat /\ r \in Nat /\ q + r <= head_quota
    BY <1>1 DEF Consumption, Minimum
  <2>2. Consumed(q, h)
    BY <1>3 DEF Charge
  <2> HIDE DEF q, r
  <2>3. CASE residual > q
    <3>1. claim' = h /\ granted' = granted
          /\ used' = IF head_claims THEN [used EXCEPT ![head] = @ + q] ELSE used
      BY <2>2, <2>3 DEF Consumed
    <3>2. CASE head_claims
      <4>1. head \in Share
        BY <1>1, <1>3, <3>2 DEF OrderInv, ListInv, HeadLinked
      <4>2. state[head] = "inserted" /\ quota[head] > 0 /\ used[head] + head_quota <= granted[head]
        BY <3>2, <4>1 DEF OrderInv, ListInv, HeadLinked, HeadUnspent, HeadWithinGrant
      <4>3. h = [claim EXCEPT ![head] = Minimum(r, quota[head])]
        BY <3>2, <4>2 DEF HeadClaim
      <4>4. used'[head] = used[head] + q /\ claim'[head] <= r /\ claim'[head] \in Nat
        BY <1>1, <2>1, <3>1, <3>2, <4>1, <4>3 DEF Minimum
      <4>5. \A t \in Share \ {head} : used'[t] = used[t] /\ claim'[t] = claim[t]
        BY <1>1, <3>1, <3>2, <4>3
      <4>6. used'[head] + claim'[head] <= granted'[head]
        BY <1>1, <2>1, <3>1, <4>1, <4>2, <4>4
      <4>7. FillsUncharged'
        BY <4>2, <4>5 DEF FillsUncharged
      <4>8. WithinGrant'
        BY <3>1, <4>5, <4>6 DEF WithinGrant
      <4>9. QED BY <4>7, <4>8
    <3>3. CASE ~head_claims
      <4>1. claim' = claim /\ used' = used
        BY <3>1, <3>3 DEF HeadClaim
      <4>2. QED BY <3>1, <4>1 DEF FillsUncharged, WithinGrant
    <3>4. QED BY <3>2, <3>3
  <2>4. CASE ~(residual > q)
    <3> HIDE DEF h
    <3>1. /\ claim' = [s \in Share |-> IF s \in Listed THEN quota[s] ELSE h[s]]
          /\ used' = [s \in Share |-> 0] /\ granted' = quota
      BY <2>2, <2>4 DEF Consumed
    <3>2. \A s \in Share : state[s] = "inserted" /\ quota[s] > 0 => s \in Listed
      <4>1. SUFFICES ASSUME NEW s \in Share, state[s] = "inserted", quota[s] > 0
                     PROVE  s \in Listed
        OBVIOUS
      <4>2. prio[s] \in Prio
        BY SchedulerAssumption
      <4>3. s \in Elems(rcl[prio[s]]) \cup Elems(ucl[prio[s]])
        BY <4>1, <4>2 DEF OrderInv, ListInv, Linked
      <4>4. QED BY <4>2, <4>3 DEF Listed
    <3>3. FillsUncharged'
      BY <3>1 DEF FillsUncharged
    <3>4. WithinGrant'
      BY <1>1, <3>1, <3>2 DEF WithinGrant
    <3>5. QED BY <3>3, <3>4
  <2>5. QED BY <2>3, <2>4
<1>4. QED BY <1>2, <1>3

\* 'update' gives a claim no more than what it has left.
LEMMA BudgetUpdate ==
  ASSUME BudgetInv, NEW c \in Consumption, Update(c)
  PROVE  FillsUncharged' /\ WithinGrant' /\ HeadWithinGrant'
<1>1. Charge(c) /\ UNCHANGED <<state, quota>> /\ ChooseHead
  BY DEF Update
<1>2. FillsUncharged' /\ WithinGrant'
  BY <1>1, BudgetCharge
<1>3. ListInv'
  BY UpdateStep DEF BudgetInv, OrderInv
<1>4. ASSUME head_claims' PROVE used'[head'] + head_quota' <= granted'[head']
  <2>1. ClaimPrio' # {} /\ head' = TopClaim' /\ head_quota' = claim'[head']
    BY <1>1, <1>4 DEF ChooseHead
  <2>2. rcl' \in [Prio -> Seq(Share)]
    BY <1>3 DEF ListInv, TypeOK
  <2>3. PICK p \in Prio : TopClaim' \in Elems(rcl'[p]) /\ TopClaim' \in Share
    BY <2>1, <2>2, TopClaimNext
  <2>4. head' \in Share /\ state'[head'] = "inserted" /\ quota'[head'] > 0
    BY <1>3, <2>1, <2>3 DEF ListInv, Linked
  <2>5. QED BY <1>2, <2>1, <2>4 DEF WithinGrant
<1>5. QED BY <1>2, <1>4 DEF HeadWithinGrant

\* As long as no quota is withdrawn altogether, no claim gets more time in a
\* super period than the highest quota it had in it: what it was charged plus
\* what its claim, or the head's time slice, still allows stays within.
THEOREM ClaimsWithinBudget ==
  ASSUME 0 \notin Donation
  PROVE  Spec => []ClaimBudget
<1>1. Init => BudgetInv
  <2> SUFFICES ASSUME Init PROVE BudgetInv
    OBVIOUS
  <2>1. OrderInv
    BY InitOrderInv
  <2>2. FillsUncharged /\ WithinGrant /\ HeadWithinGrant
    BY DEF Init, FillsUncharged, WithinGrant, HeadWithinGrant
  <2>3. QED BY <2>1, <2>2 DEF BudgetInv
<1>2. BudgetInv /\ [Next]_vars => BudgetInv'
  <2> SUFFICES ASSUME BudgetInv, [Next]_vars
               PROVE  BudgetInv'
    OBVIOUS
  <2>1. OrderInv'
    BY OrderInvStep DEF BudgetInv
  <2>2. CASE \/ \E s \in Share, q \in Quota : Create(s, q)
             \/ \E s \in Share, q \in Donation : PresetQuota(s, q)
             \/ \E s \in Share : Insert(s)
             \/ \E s \in Share : Delete(s)
             \/ \E s \in Share, q \in Donation : SetQuota(s, q)
    BY <2>1, <2>2, BudgetShare DEF BudgetInv
  <2>3. CASE \/ \E s \in Share : Ready(s) \/ ReadyCheck(s) \/ Unready(s)
             \/ Yield \/ EnterKernel \/ EnterIpi \/ UNCHANGED vars
    <3>1. UNCHANGED <<state, quota, claim, used, granted, head, head_claims, head_quota>>
      BY <2>3 DEF Ready, ReadyCheck, Unready, Yield, EnterKernel, EnterIpi, vars, shareVars,
                  headVars, history
    <3>2. QED BY <2>1, <3>1 DEF BudgetInv, FillsUncharged, WithinGrant, HeadWithinGrant
  <2>4. CASE \E c \in Consumption : Update(c)
    BY <2>1, <2>4, BudgetUpdate DEF BudgetInv
  <2>5. QED BY <2>2, <2>3, <2>4 DEF Next
<1>3. BudgetInv => ClaimBudget
  <2> SUFFICES ASSUME BudgetInv PROVE ClaimBudget
    OBVIOUS
  <2>1. head_claims /\ head # None => head \in Share
    BY DEF BudgetInv, OrderInv, ListInv, TypeOK, HeadLinked
  <2>2. QED BY <2>1 DEF BudgetInv, ClaimBudget, WithinGrant, HeadWithinGrant, Inserted
<1>4. QED BY <1>1, <1>2, <1>3, PTL DEF Spec

---------------------------------------------------------------------------
(***************************************************************************)
(* The lists of the scheduler, as Double_list builds them from pointers:   *)
(* any number of items that move between any number of lists.  With this   *)
(* the operators on sequences, on which the theorems above rest, are what  *)
(* the code does.                                                          *)
(***************************************************************************)

\* The item at position k of a list, the null pointer before and behind it
ItemAt(s, k) == IF k \in 1 .. Len(s) THEN s[k] ELSE Null

\* The pointers of heap h link list l in the order of s, in both directions
Links(h, l, s) ==
  /\ s \in Seq(Item) /\ Distinct(s)
  /\ h.head[l] = ItemAt(s, 1) /\ h.tail[l] = ItemAt(s, Len(s))
  /\ \A k \in 1 .. Len(s) : h.next[s[k]] = ItemAt(s, k + 1) /\ h.prev[s[k]] = ItemAt(s, k - 1)

\* Heap g differs from h in list l and the links of the items in S only
Relinks(h, g, l, S) ==
  /\ g \in Heap /\ ~g.crash
  /\ \A m \in List \ {l} : g.head[m] = h.head[m] /\ g.tail[m] = h.tail[m]
  /\ \A x \in Item \ S : g.next[x] = h.next[x] /\ g.prev[x] = h.prev[x]

\* Heap g is heap h after insert_tail of item i in list l
TailInserted(h, g, l, i) ==
  /\ g \in Heap /\ g.crash = h.crash
  /\ g.head = IF h.tail[l] # Null THEN h.head ELSE [h.head EXCEPT ![l] = i]
  /\ g.tail = [h.tail EXCEPT ![l] = i]
  /\ g.next = [IF h.tail[l] # Null THEN [h.next EXCEPT ![h.tail[l]] = i] ELSE h.next EXCEPT ![i] = Null]
  /\ g.prev = [h.prev EXCEPT ![i] = h.tail[l]]

\* Heap g is heap h after remove of the item at position p of list l
ItemRemoved(h, g, l, s, p) ==
  /\ g \in Heap /\ g.crash = h.crash
  /\ g.tail = IF p = Len(s) THEN [h.tail EXCEPT ![l] = ItemAt(s, p - 1)] ELSE h.tail
  /\ g.prev = IF p = Len(s) THEN h.prev ELSE [h.prev EXCEPT ![s[p + 1]] = ItemAt(s, p - 1)]
  /\ g.head = IF p = 1 THEN [h.head EXCEPT ![l] = ItemAt(s, 2)] ELSE h.head
  /\ g.next = IF p = 1 THEN h.next ELSE [h.next EXCEPT ![s[p - 1]] = ItemAt(s, p + 1)]

\* Heap g is heap h after remove and insert_tail of an item that is not the last one
ItemMoved(h, g, l, s, p) ==
  /\ g \in Heap /\ g.crash = h.crash
  /\ g.tail = [h.tail EXCEPT ![l] = s[p]]
  /\ g.prev = [[h.prev EXCEPT ![s[p + 1]] = ItemAt(s, p - 1)] EXCEPT ![s[p]] = s[Len(s)]]
  /\ p = 1 => /\ g.head = [h.head EXCEPT ![l] = ItemAt(s, 2)]
              /\ g.next = [[h.next EXCEPT ![s[Len(s)]] = s[p]] EXCEPT ![s[p]] = Null]
  /\ p # 1 => /\ g.head = h.head
              /\ g.next = [[[h.next EXCEPT ![s[p - 1]] = ItemAt(s, p + 1)]
                             EXCEPT ![s[Len(s)]] = s[p]] EXCEPT ![s[p]] = Null]

---------------------------------------------------------------------------
USE ListAssumption

\* An assignment to an item's _next changes that pointer alone.
LEMMA SetNextFields ==
  ASSUME NEW h \in Heap, NEW i \in Item, NEW p \in Pointer
  PROVE  LET g == SetNext(h, i, p) IN
         /\ g \in Heap /\ g.crash = h.crash
         /\ g.head = h.head /\ g.tail = h.tail /\ g.prev = h.prev
         /\ g.next = [h.next EXCEPT ![i] = p]
  BY DEF SetNext, Heap, Pointer

\* An assignment to an item's _prev changes that pointer alone.
LEMMA SetPrevFields ==
  ASSUME NEW h \in Heap, NEW i \in Item, NEW p \in Pointer
  PROVE  LET g == SetPrev(h, i, p) IN
         /\ g \in Heap /\ g.crash = h.crash
         /\ g.head = h.head /\ g.tail = h.tail /\ g.next = h.next
         /\ g.prev = [h.prev EXCEPT ![i] = p]
  BY DEF SetPrev, Heap, Pointer

\* An assignment to a list's _head changes that pointer alone.
LEMMA SetHeadFields ==
  ASSUME NEW h \in Heap, NEW l \in List, NEW p \in Pointer
  PROVE  LET g == [h EXCEPT !.head[l] = p] IN
         /\ g \in Heap /\ g.crash = h.crash
         /\ g.next = h.next /\ g.tail = h.tail /\ g.prev = h.prev
         /\ g.head = [h.head EXCEPT ![l] = p]
  BY DEF Heap, Pointer

\* An assignment to a list's _tail changes that pointer alone.
LEMMA SetTailFields ==
  ASSUME NEW h \in Heap, NEW l \in List, NEW p \in Pointer
  PROVE  LET g == [h EXCEPT !.tail[l] = p] IN
         /\ g \in Heap /\ g.crash = h.crash
         /\ g.next = h.next /\ g.head = h.head /\ g.prev = h.prev
         /\ g.tail = [h.tail EXCEPT ![l] = p]
  BY DEF Heap, Pointer

\* The four pointer fields of a heap, with their types.
LEMMA HeapFields ==
  ASSUME NEW h \in Heap
  PROVE  /\ h.head \in [List -> Pointer] /\ h.tail \in [List -> Pointer]
         /\ h.next \in [Item -> Pointer] /\ h.prev \in [Item -> Pointer]
         /\ h.crash \in BOOLEAN
  BY DEF Heap

\* A heap is what its pointers are.
LEMMA HeapEqual ==
  ASSUME NEW h \in Heap, NEW g \in Heap, h.crash = g.crash,
         h.head = g.head, h.tail = g.tail, h.next = g.next, h.prev = g.prev
  PROVE  h = g
  BY DEF Heap

\* The pointers after insert_tail.
LEMMA InsertTailFields ==
  ASSUME NEW h \in Heap, NEW l \in List, NEW i \in Item
  PROVE  TailInserted(h, InsertTailPtr(h, l, i), l, i)
<1> DEFINE t == h.tail[l]
           a == IF t # Null THEN SetNext(h, t, i) ELSE [h EXCEPT !.head[l] = i]
           b == SetPrev(a, i, t)
           c == SetNext(b, i, Null)
           g == [c EXCEPT !.tail[l] = i]
<1>1. t \in Pointer /\ i \in Pointer /\ Null \in Pointer /\ (t # Null => t \in Item)
  BY HeapFields DEF Pointer
<1>2. InsertTailPtr(h, l, i) = g
  BY DEF InsertTailPtr, SetLinks
<1> HIDE DEF t
<1>3. /\ a \in Heap /\ a.crash = h.crash /\ a.tail = h.tail /\ a.prev = h.prev
      /\ a.head = IF t # Null THEN h.head ELSE [h.head EXCEPT ![l] = i]
      /\ a.next = IF t # Null THEN [h.next EXCEPT ![t] = i] ELSE h.next
  BY <1>1, SetNextFields, SetHeadFields
<1> HIDE DEF a
<1>4. /\ b \in Heap /\ b.crash = a.crash /\ b.head = a.head /\ b.tail = a.tail
      /\ b.next = a.next /\ b.prev = [a.prev EXCEPT ![i] = t]
  BY <1>1, <1>3, SetPrevFields
<1> HIDE DEF b
<1>5. /\ c \in Heap /\ c.crash = b.crash /\ c.head = b.head /\ c.tail = b.tail
      /\ c.prev = b.prev /\ c.next = [b.next EXCEPT ![i] = Null]
  BY <1>1, <1>4, SetNextFields
<1> HIDE DEF c
<1>6. /\ g \in Heap /\ g.crash = c.crash /\ g.head = c.head /\ g.next = c.next
      /\ g.prev = c.prev /\ g.tail = [c.tail EXCEPT ![l] = i]
  BY <1>1, <1>5, SetTailFields
<1> HIDE DEF g
<1>7. QED BY <1>2, <1>3, <1>4, <1>5, <1>6 DEF t, TailInserted

\* The pointers after insert_head.
LEMMA InsertHeadFields ==
  ASSUME NEW h \in Heap, NEW l \in List, NEW i \in Item
  PROVE  LET g == InsertHeadPtr(h, l, i)
             t == h.head[l]
         IN  /\ g \in Heap /\ g.crash = h.crash
             /\ g.tail = IF t # Null THEN h.tail ELSE [h.tail EXCEPT ![l] = i]
             /\ g.head = [h.head EXCEPT ![l] = i]
             /\ g.prev = [IF t # Null THEN [h.prev EXCEPT ![t] = i] ELSE h.prev EXCEPT ![i] = Null]
             /\ g.next = [h.next EXCEPT ![i] = t]
<1> DEFINE t == h.head[l]
           a == IF t # Null THEN SetPrev(h, t, i) ELSE [h EXCEPT !.tail[l] = i]
           b == SetPrev(a, i, Null)
           c == SetNext(b, i, t)
           g == [c EXCEPT !.head[l] = i]
<1>1. t \in Pointer /\ i \in Pointer /\ Null \in Pointer /\ (t # Null => t \in Item)
  BY HeapFields DEF Pointer
<1>2. InsertHeadPtr(h, l, i) = g
  BY DEF InsertHeadPtr, SetLinks
<1> HIDE DEF t
<1>3. /\ a \in Heap /\ a.crash = h.crash /\ a.head = h.head /\ a.next = h.next
      /\ a.tail = IF t # Null THEN h.tail ELSE [h.tail EXCEPT ![l] = i]
      /\ a.prev = IF t # Null THEN [h.prev EXCEPT ![t] = i] ELSE h.prev
  BY <1>1, SetPrevFields, SetTailFields
<1> HIDE DEF a
<1>4. /\ b \in Heap /\ b.crash = a.crash /\ b.head = a.head /\ b.tail = a.tail
      /\ b.next = a.next /\ b.prev = [a.prev EXCEPT ![i] = Null]
  BY <1>1, <1>3, SetPrevFields
<1> HIDE DEF b
<1>5. /\ c \in Heap /\ c.crash = b.crash /\ c.head = b.head /\ c.tail = b.tail
      /\ c.prev = b.prev /\ c.next = [b.next EXCEPT ![i] = t]
  BY <1>1, <1>4, SetNextFields
<1> HIDE DEF c
<1>6. /\ g \in Heap /\ g.crash = c.crash /\ g.tail = c.tail /\ g.next = c.next
      /\ g.prev = c.prev /\ g.head = [c.head EXCEPT ![l] = i]
  BY <1>1, <1>5, SetHeadFields
<1> HIDE DEF g
<1>7. QED BY <1>2, <1>3, <1>4, <1>5, <1>6 DEF t

\* The pointers after remove, for an item that refers to its neighbours.
LEMMA RemoveFields ==
  ASSUME NEW h \in Heap, NEW l \in List, NEW i \in Item,
         i # h.tail[l] => h.next[i] \in Item \ {i},
         i # h.head[l] => h.prev[i] \in Item \ {i}
  PROVE  LET g == RemovePtr(h, l, i) IN
         /\ g \in Heap /\ g.crash = h.crash
         /\ g.tail = IF i = h.tail[l] THEN [h.tail EXCEPT ![l] = h.prev[i]] ELSE h.tail
         /\ g.prev = IF i = h.tail[l] THEN h.prev ELSE [h.prev EXCEPT ![h.next[i]] = h.prev[i]]
         /\ g.head = IF i = h.head[l] THEN [h.head EXCEPT ![l] = h.next[i]] ELSE h.head
         /\ g.next = IF i = h.head[l] THEN h.next ELSE [h.next EXCEPT ![h.prev[i]] = h.next[i]]
<1> DEFINE a == IF i = h.tail[l] THEN [h EXCEPT !.tail[l] = h.prev[i]]
                ELSE SetPrev(h, h.next[i], h.prev[i])
           g == IF i = a.head[l] THEN [a EXCEPT !.head[l] = a.next[i]]
                ELSE SetNext(a, a.prev[i], a.next[i])
<1>1. RemovePtr(h, l, i) = g
  BY DEF RemovePtr
<1>2. h.prev[i] \in Pointer /\ h.next[i] \in Pointer /\ h.prev \in [Item -> Pointer]
  BY HeapFields
<1>3. /\ a \in Heap /\ a.crash = h.crash /\ a.head = h.head /\ a.next = h.next
      /\ a.tail = IF i = h.tail[l] THEN [h.tail EXCEPT ![l] = h.prev[i]] ELSE h.tail
      /\ a.prev = IF i = h.tail[l] THEN h.prev ELSE [h.prev EXCEPT ![h.next[i]] = h.prev[i]]
  <2>1. CASE i = h.tail[l]
    <3> DEFINE b == [h EXCEPT !.tail[l] = h.prev[i]]
    <3>1. /\ b \in Heap /\ b.crash = h.crash /\ b.next = h.next /\ b.head = h.head
          /\ b.prev = h.prev /\ b.tail = [h.tail EXCEPT ![l] = h.prev[i]]
      BY <1>2, SetTailFields
    <3>2. a = b
      BY <2>1
    <3> HIDE DEF a, b
    <3>3. QED BY <2>1, <3>1, <3>2
  <2>2. CASE i # h.tail[l]
    <3> DEFINE b == SetPrev(h, h.next[i], h.prev[i])
    <3>1. /\ b \in Heap /\ b.crash = h.crash /\ b.next = h.next /\ b.head = h.head
          /\ b.tail = h.tail /\ b.prev = [h.prev EXCEPT ![h.next[i]] = h.prev[i]]
      BY <1>2, <2>2, SetPrevFields
    <3>2. a = b
      BY <2>2
    <3> HIDE DEF a, b
    <3>3. QED BY <2>2, <3>1, <3>2
  <2>3. QED BY <2>1, <2>2
<1> HIDE DEF a
<1>4. a.prev[i] = h.prev[i] /\ a.next[i] = h.next[i] /\ a.head[l] = h.head[l]
  BY <1>2, <1>3
<1>5. CASE i = h.head[l]
  <2> DEFINE b == [a EXCEPT !.head[l] = a.next[i]]
  <2>1. /\ b \in Heap /\ b.crash = a.crash /\ b.next = a.next /\ b.tail = a.tail
        /\ b.prev = a.prev /\ b.head = [a.head EXCEPT ![l] = a.next[i]]
    BY <1>2, <1>3, <1>4, SetHeadFields
  <2>2. g = b
    BY <1>4, <1>5
  <2> HIDE DEF g, b
  <2>3. QED BY <1>1, <1>3, <1>4, <1>5, <2>1, <2>2
<1>6. CASE i # h.head[l]
  <2> DEFINE b == SetNext(a, a.prev[i], a.next[i])
  <2>1. /\ b \in Heap /\ b.crash = a.crash /\ b.tail = a.tail /\ b.head = a.head
        /\ b.prev = a.prev /\ b.next = [a.next EXCEPT ![a.prev[i]] = a.next[i]]
    BY <1>2, <1>3, <1>4, <1>6, SetNextFields
  <2>2. g = b
    BY <1>4, <1>6
  <2> HIDE DEF g, b
  <2>3. QED BY <1>1, <1>3, <1>4, <1>6, <2>1, <2>2
<1>7. QED BY <1>5, <1>6

\* The items of a list, and what is before and behind it.
LEMMA LinkedItems ==
  ASSUME NEW h, NEW l, NEW s, Links(h, l, s)
  PROVE  /\ Len(s) \in Nat
         /\ \A k \in 1 .. Len(s) : s[k] \in Item /\ s[k] \in Elems(s) /\ s[k] # Null /\ ItemAt(s, k) = s[k]
         /\ \A k \in Int : k \notin 1 .. Len(s) => ItemAt(s, k) = Null
         /\ h.tail[l] = Null <=> Len(s) = 0
         /\ h.head[l] = Null <=> Len(s) = 0
         /\ Len(s) # 0 => h.head[l] = s[1] /\ h.tail[l] = s[Len(s)]
  BY DEF Links, ItemAt, Elems

\* insert_tail links an item behind the others, whatever its links were before.
LEMMA InsertTailLinks ==
  ASSUME NEW h \in Heap, ~h.crash, NEW l \in List,
         NEW s, Links(h, l, s), NEW i \in Item, i \notin Elems(s)
  PROVE  LET g == InsertTailPtr(h, l, i)
         IN  Links(g, l, InsertTail(s, i)) /\ Relinks(h, g, l, Elems(s) \cup {i})
<1> DEFINE g == InsertTailPtr(h, l, i)
           t == h.tail[l]
           r == InsertTail(s, i)
           n == Len(s)
<1>1. /\ g \in Heap /\ g.crash = h.crash
      /\ g.head = IF t # Null THEN h.head ELSE [h.head EXCEPT ![l] = i]
      /\ g.tail = [h.tail EXCEPT ![l] = i]
      /\ g.next = [IF t # Null THEN [h.next EXCEPT ![t] = i] ELSE h.next EXCEPT ![i] = Null]
      /\ g.prev = [h.prev EXCEPT ![i] = t]
  BY InsertTailFields DEF TailInserted
<1>2. /\ n \in Nat
      /\ \A k \in 1 .. n : s[k] \in Item /\ s[k] \in Elems(s) /\ s[k] # Null /\ ItemAt(s, k) = s[k]
      /\ \A k \in Int : k \notin 1 .. n => ItemAt(s, k) = Null
      /\ t = Null <=> n = 0
      /\ n # 0 => h.head[l] = s[1] /\ t = s[n]
  BY LinkedItems
<1>3. /\ s \in Seq(Item) /\ Distinct(s)
      /\ \A k \in 1 .. n : h.next[s[k]] = ItemAt(s, k + 1) /\ h.prev[s[k]] = ItemAt(s, k - 1)
  BY DEF Links
<1>4. r \in Seq(Item) /\ Distinct(r) /\ Len(r) = n + 1 /\ r[n + 1] = i /\ \A k \in 1 .. n : r[k] = s[k]
  BY <1>3, InsertTailProps DEF InsertTail
<1>5. /\ h.head \in [List -> Pointer] /\ h.tail \in [List -> Pointer]
      /\ h.next \in [Item -> Pointer] /\ h.prev \in [Item -> Pointer]
  BY HeapFields
<1> HIDE DEF g, r, n, t
<1>6. /\ \A k \in 1 .. n : ItemAt(r, k) = s[k]
      /\ ItemAt(r, n + 1) = i /\ ItemAt(r, n + 2) = Null /\ ItemAt(r, 0) = Null
  BY <1>2, <1>4 DEF ItemAt
<1>7. g.head[l] = ItemAt(r, 1) /\ g.tail[l] = ItemAt(r, Len(r))
  <2>1. g.tail[l] = i
    BY <1>1, <1>5
  <2>2. CASE n = 0
    BY <1>1, <1>2, <1>4, <1>5, <1>6, <2>1, <2>2
  <2>3. CASE n # 0
    BY <1>1, <1>2, <1>4, <1>5, <1>6, <2>1, <2>3
  <2>4. QED BY <2>2, <2>3
<1>8. ASSUME NEW k \in 1 .. n
      PROVE  g.next[r[k]] = ItemAt(r, k + 1) /\ g.prev[r[k]] = ItemAt(r, k - 1)
  <2>1. r[k] = s[k] /\ s[k] \in Item /\ s[k] # i /\ t # Null /\ t = s[n]
    BY <1>2, <1>4
  <2>2. g.prev[s[k]] = ItemAt(s, k - 1)
    BY <1>1, <1>3, <1>5, <2>1
  <2>3. ItemAt(s, k - 1) = ItemAt(r, k - 1)
    BY <1>2, <1>6
  <2>4. CASE k = n
    BY <1>1, <1>2, <1>5, <1>6, <2>1, <2>2, <2>3, <2>4
  <2>5. CASE k # n
    <3>1. s[k] # s[n] /\ k + 1 \in 1 .. n
      BY <1>2, <1>3, <2>5 DEF Distinct, n
    <3>2. g.next[s[k]] = ItemAt(s, k + 1)
      BY <1>1, <1>3, <1>5, <2>1, <3>1
    <3>3. QED BY <1>2, <1>6, <2>1, <2>2, <2>3, <3>1, <3>2
  <2>6. QED BY <2>4, <2>5
<1>9. g.next[i] = Null /\ g.prev[i] = ItemAt(r, n)
  <2>1. g.next[i] = Null /\ g.prev[i] = t
    BY <1>1, <1>5
  <2>2. t = ItemAt(r, n)
    BY <1>2, <1>6
  <2>3. QED BY <2>1, <2>2
<1>10. \A k \in 1 .. Len(r) : g.next[r[k]] = ItemAt(r, k + 1) /\ g.prev[r[k]] = ItemAt(r, k - 1)
  <2>1. TAKE k \in 1 .. Len(r)
  <2>2. CASE k = n + 1
    BY <1>2, <1>4, <1>6, <1>9, <2>2
  <2>3. CASE k # n + 1
    BY <1>2, <1>4, <1>8, <2>3
  <2>4. QED BY <2>2, <2>3
<1>11. Links(g, l, r)
  BY <1>4, <1>7, <1>10 DEF Links
<1>12. Relinks(h, g, l, Elems(s) \cup {i})
  <2>1. \A m \in List \ {l} : g.head[m] = h.head[m] /\ g.tail[m] = h.tail[m]
    BY <1>1, <1>5
  <2>2. t # Null => t \in Elems(s)
    BY <1>2
  <2>3. \A x \in Item \ (Elems(s) \cup {i}) : g.next[x] = h.next[x] /\ g.prev[x] = h.prev[x]
    BY <1>1, <1>5, <2>2
  <2>4. QED BY <1>1, <2>1, <2>3 DEF Relinks
<1>13. QED BY <1>11, <1>12 DEF g, r

\* insert_head links an item in front of the others, whatever its links were before.
LEMMA InsertHeadLinks ==
  ASSUME NEW h \in Heap, ~h.crash, NEW l \in List,
         NEW s, Links(h, l, s), NEW i \in Item, i \notin Elems(s)
  PROVE  LET g == InsertHeadPtr(h, l, i)
         IN  Links(g, l, InsertHead(s, i)) /\ Relinks(h, g, l, Elems(s) \cup {i})
<1> DEFINE g == InsertHeadPtr(h, l, i)
           t == h.head[l]
           r == InsertHead(s, i)
           n == Len(s)
<1>1. /\ g \in Heap /\ g.crash = h.crash
      /\ g.tail = IF t # Null THEN h.tail ELSE [h.tail EXCEPT ![l] = i]
      /\ g.head = [h.head EXCEPT ![l] = i]
      /\ g.prev = [IF t # Null THEN [h.prev EXCEPT ![t] = i] ELSE h.prev EXCEPT ![i] = Null]
      /\ g.next = [h.next EXCEPT ![i] = t]
  BY InsertHeadFields
<1>2. /\ n \in Nat
      /\ \A k \in 1 .. n : s[k] \in Item /\ s[k] \in Elems(s) /\ s[k] # Null /\ ItemAt(s, k) = s[k]
      /\ \A k \in Int : k \notin 1 .. n => ItemAt(s, k) = Null
      /\ t = Null <=> n = 0
      /\ n # 0 => h.tail[l] = s[n] /\ t = s[1]
  BY LinkedItems
<1>3. /\ s \in Seq(Item) /\ Distinct(s)
      /\ \A k \in 1 .. n : h.next[s[k]] = ItemAt(s, k + 1) /\ h.prev[s[k]] = ItemAt(s, k - 1)
  BY DEF Links
<1>4. r \in Seq(Item) /\ Distinct(r) /\ Len(r) = n + 1 /\ r[1] = i /\ \A k \in 1 .. n : r[k + 1] = s[k]
  BY <1>3, InsertHeadProps DEF InsertHead
<1>5. /\ h.head \in [List -> Pointer] /\ h.tail \in [List -> Pointer]
      /\ h.next \in [Item -> Pointer] /\ h.prev \in [Item -> Pointer]
  BY HeapFields
<1> HIDE DEF g, r, n, t
<1>6. /\ \A k \in 1 .. n : ItemAt(r, k + 1) = s[k]
      /\ ItemAt(r, 1) = i /\ ItemAt(r, n + 2) = Null /\ ItemAt(r, 0) = Null
  BY <1>2, <1>4 DEF ItemAt
<1>7. g.head[l] = ItemAt(r, 1) /\ g.tail[l] = ItemAt(r, Len(r))
  <2>1. g.head[l] = i
    BY <1>1, <1>5
  <2>2. CASE n = 0
    BY <1>1, <1>2, <1>4, <1>5, <1>6, <2>1, <2>2
  <2>3. CASE n # 0
    BY <1>1, <1>2, <1>4, <1>5, <1>6, <2>1, <2>3
  <2>4. QED BY <2>2, <2>3
<1>8. ASSUME NEW k \in 1 .. n
      PROVE  g.next[r[k + 1]] = ItemAt(r, k + 2) /\ g.prev[r[k + 1]] = ItemAt(r, k)
  <2>1. r[k + 1] = s[k] /\ s[k] \in Item /\ s[k] # i /\ t # Null /\ t = s[1]
    BY <1>2, <1>4
  <2>2. g.next[s[k]] = ItemAt(s, k + 1)
    BY <1>1, <1>3, <1>5, <2>1
  <2>3. ItemAt(s, k + 1) = ItemAt(r, k + 2)
    BY <1>2, <1>6
  <2>4. CASE k = 1
    BY <1>1, <1>2, <1>5, <1>6, <2>1, <2>2, <2>3, <2>4
  <2>5. CASE k # 1
    <3>1. s[k] # s[1] /\ k - 1 \in 1 .. n
      BY <1>2, <1>3, <2>5 DEF Distinct, n
    <3>2. g.prev[s[k]] = ItemAt(s, k - 1)
      BY <1>1, <1>3, <1>5, <2>1, <3>1
    <3>3. QED BY <1>2, <1>6, <2>1, <2>2, <2>3, <3>1, <3>2
  <2>6. QED BY <2>4, <2>5
<1>9. g.prev[i] = Null /\ g.next[i] = ItemAt(r, 2)
  <2>1. g.prev[i] = Null /\ g.next[i] = t
    BY <1>1, <1>5
  <2>2. t = ItemAt(r, 2)
    BY <1>2, <1>6
  <2>3. QED BY <2>1, <2>2
<1>10. \A k \in 1 .. Len(r) : g.next[r[k]] = ItemAt(r, k + 1) /\ g.prev[r[k]] = ItemAt(r, k - 1)
  <2>1. TAKE k \in 1 .. Len(r)
  <2>2. CASE k = 1
    BY <1>2, <1>4, <1>6, <1>9, <2>2
  <2>3. CASE k # 1
    <3>1. k - 1 \in 1 .. n /\ (k - 1) + 1 = k /\ (k - 1) + 2 = k + 1
      BY <1>2, <1>4, <2>3
    <3>2. QED BY <1>8, <3>1
  <2>4. QED BY <2>2, <2>3
<1>11. Links(g, l, r)
  BY <1>4, <1>7, <1>10 DEF Links
<1>12. Relinks(h, g, l, Elems(s) \cup {i})
  <2>1. \A m \in List \ {l} : g.head[m] = h.head[m] /\ g.tail[m] = h.tail[m]
    BY <1>1, <1>5
  <2>2. t # Null => t \in Elems(s)
    BY <1>2
  <2>3. \A x \in Item \ (Elems(s) \cup {i}) : g.next[x] = h.next[x] /\ g.prev[x] = h.prev[x]
    BY <1>1, <1>5, <2>2
  <2>4. QED BY <1>1, <2>1, <2>3 DEF Relinks
<1>13. QED BY <1>11, <1>12 DEF g, r

\* Removal closes the gap: the items behind it move up by one.
LEMMA RemoveAt ==
  ASSUME NEW s \in Seq(Item), Distinct(s), NEW p \in 1 .. Len(s)
  PROVE  LET r == Remove(s, s[p]) IN
         /\ r \in Seq(Item) /\ Distinct(r) /\ Len(r) = Len(s) - 1
         /\ \A k \in 1 .. Len(s) - 1 : r[k] = IF k < p THEN s[k] ELSE s[k + 1]
         /\ \A k \in 0 .. Len(s) : ItemAt(r, k) = IF k < p THEN ItemAt(s, k) ELSE ItemAt(s, k + 1)
<1> DEFINE r == Remove(s, s[p])
<1>1. IndexOf(s, s[p]) = p
  BY DEF IndexOf, Distinct
<1>2. s[p] \in Elems(s)
  BY DEF Elems
<1>3. r = [k \in 1 .. Len(s) - 1 |-> IF k < p THEN s[k] ELSE s[k + 1]]
  BY <1>1, <1>2 DEF Remove
<1>4. r \in Seq(Item) /\ Distinct(r)
  BY RemoveProps
<1>5. Len(r) = Len(s) - 1
  BY <1>3, <1>4
<1>6. \A k \in 1 .. Len(s) - 1 : r[k] = IF k < p THEN s[k] ELSE s[k + 1]
  BY <1>3
<1> HIDE DEF r
<1>7. \A k \in 0 .. Len(s) : ItemAt(r, k) = IF k < p THEN ItemAt(s, k) ELSE ItemAt(s, k + 1)
  BY <1>5, <1>6 DEF ItemAt
<1>8. QED BY <1>4, <1>5, <1>6, <1>7 DEF r

\* The pointers after remove, in terms of the position of the item.
LEMMA RemoveFieldsAt ==
  ASSUME NEW h \in Heap, NEW l \in List,
         NEW s, Links(h, l, s), NEW p \in 1 .. Len(s)
  PROVE  ItemRemoved(h, RemovePtr(h, l, s[p]), l, s, p)
<1> DEFINE n == Len(s)
           i == s[p]
           g == RemovePtr(h, l, i)
<1>1. /\ n \in Nat
      /\ \A k \in 1 .. n : s[k] \in Item /\ s[k] \in Elems(s) /\ s[k] # Null /\ ItemAt(s, k) = s[k]
      /\ h.head[l] = s[1] /\ h.tail[l] = s[n]
  BY LinkedItems
<1>2. /\ Distinct(s) /\ h.next[i] = ItemAt(s, p + 1) /\ h.prev[i] = ItemAt(s, p - 1)
  BY DEF Links
<1>3. \A j, k \in 1 .. n : s[j] = s[k] => j = k
  BY <1>2 DEF Distinct
<1> HIDE DEF n
<1>4. p \in 1 .. n
  BY DEF n
<1>5. i \in Item /\ (i = h.tail[l] <=> p = n) /\ (i = h.head[l] <=> p = 1)
  BY <1>1, <1>3, <1>4
<1>6. p # n => h.next[i] = s[p + 1] /\ s[p + 1] \in Item \ {i}
  BY <1>1, <1>2, <1>3, <1>4
<1>7. p # 1 => h.prev[i] = s[p - 1] /\ s[p - 1] \in Item \ {i}
  BY <1>1, <1>2, <1>3, <1>4
<1> HIDE DEF i
<1>8. /\ g \in Heap /\ g.crash = h.crash
      /\ g.tail = IF i = h.tail[l] THEN [h.tail EXCEPT ![l] = h.prev[i]] ELSE h.tail
      /\ g.prev = IF i = h.tail[l] THEN h.prev ELSE [h.prev EXCEPT ![h.next[i]] = h.prev[i]]
      /\ g.head = IF i = h.head[l] THEN [h.head EXCEPT ![l] = h.next[i]] ELSE h.head
      /\ g.next = IF i = h.head[l] THEN h.next ELSE [h.next EXCEPT ![h.prev[i]] = h.next[i]]
  <2>1. i # h.tail[l] => h.next[i] \in Item \ {i}
    BY <1>5, <1>6
  <2>2. i # h.head[l] => h.prev[i] \in Item \ {i}
    BY <1>5, <1>7
  <2>3. i \in Item
    BY <1>5
  <2>4. QED BY <2>1, <2>2, <2>3, RemoveFields
<1> HIDE DEF g
<1>9. /\ g.tail = IF p = n THEN [h.tail EXCEPT ![l] = ItemAt(s, p - 1)] ELSE h.tail
      /\ g.prev = IF p = n THEN h.prev ELSE [h.prev EXCEPT ![s[p + 1]] = ItemAt(s, p - 1)]
  BY <1>2, <1>5, <1>6, <1>8 DEF i
<1>10. /\ g.head = IF p = 1 THEN [h.head EXCEPT ![l] = ItemAt(s, 2)] ELSE h.head
       /\ g.next = IF p = 1 THEN h.next ELSE [h.next EXCEPT ![s[p - 1]] = ItemAt(s, p + 1)]
  <2>1. p = 1 => p + 1 = 2
    OBVIOUS
  <2>2. QED BY <1>2, <1>5, <1>7, <1>8, <2>1 DEF i
<1>11. QED BY <1>8, <1>9, <1>10 DEF g, i, n, ItemRemoved

\* remove connects the neighbours of an item with each other, or the list with the one there is.
LEMMA RemoveLinks ==
  ASSUME NEW h \in Heap, ~h.crash, NEW l \in List,
         NEW s, Links(h, l, s), NEW p \in 1 .. Len(s)
  PROVE  LET g == RemovePtr(h, l, s[p])
         IN  Links(g, l, Remove(s, s[p])) /\ Relinks(h, g, l, Elems(s))
<1> DEFINE g == RemovePtr(h, l, s[p])
           r == Remove(s, s[p])
           n == Len(s)
<1>1. /\ g \in Heap /\ g.crash = h.crash
      /\ g.tail = IF p = n THEN [h.tail EXCEPT ![l] = ItemAt(s, p - 1)] ELSE h.tail
      /\ g.prev = IF p = n THEN h.prev ELSE [h.prev EXCEPT ![s[p + 1]] = ItemAt(s, p - 1)]
      /\ g.head = IF p = 1 THEN [h.head EXCEPT ![l] = ItemAt(s, 2)] ELSE h.head
      /\ g.next = IF p = 1 THEN h.next ELSE [h.next EXCEPT ![s[p - 1]] = ItemAt(s, p + 1)]
  <2>1. ItemRemoved(h, g, l, s, p)
    BY RemoveFieldsAt
  <2> HIDE DEF g
  <2>2. QED BY <2>1 DEF ItemRemoved
<1>2. /\ n \in Nat
      /\ \A k \in 1 .. n : s[k] \in Item /\ s[k] \in Elems(s) /\ s[k] # Null /\ ItemAt(s, k) = s[k]
      /\ \A k \in Int : k \notin 1 .. n => ItemAt(s, k) = Null
      /\ h.head[l] = s[1] /\ h.tail[l] = s[n]
  BY LinkedItems
<1>3. /\ s \in Seq(Item) /\ Distinct(s)
      /\ \A k \in 1 .. n : h.next[s[k]] = ItemAt(s, k + 1) /\ h.prev[s[k]] = ItemAt(s, k - 1)
  BY DEF Links
<1>4. /\ r \in Seq(Item) /\ Distinct(r) /\ Len(r) = n - 1
      /\ \A k \in 1 .. n - 1 : r[k] = IF k < p THEN s[k] ELSE s[k + 1]
      /\ \A k \in 0 .. n : ItemAt(r, k) = IF k < p THEN ItemAt(s, k) ELSE ItemAt(s, k + 1)
  BY <1>3, RemoveAt
<1>5. /\ h.head \in [List -> Pointer] /\ h.tail \in [List -> Pointer]
      /\ h.next \in [Item -> Pointer] /\ h.prev \in [Item -> Pointer]
  BY HeapFields
<1>6. \A j, k \in 1 .. n : s[j] = s[k] => j = k
  BY <1>3 DEF Distinct
<1>7. p \in 1 .. n
  OBVIOUS
<1> HIDE DEF g, r, n
<1>8. \A x \in Item :
        /\ g.next[x] = IF p # 1 /\ x = s[p - 1] THEN ItemAt(s, p + 1) ELSE h.next[x]
        /\ g.prev[x] = IF p # n /\ x = s[p + 1] THEN ItemAt(s, p - 1) ELSE h.prev[x]
  BY <1>1, <1>5
<1>9. g.head[l] = ItemAt(r, 1)
  <2>1. CASE p = 1
    BY <1>1, <1>2, <1>4, <1>5, <1>7, <2>1
  <2>2. CASE p # 1
    BY <1>1, <1>2, <1>4, <1>5, <1>7, <2>2
  <2>3. QED BY <2>1, <2>2
<1>10. g.tail[l] = ItemAt(r, Len(r))
  <2>1. CASE p = n
    BY <1>1, <1>2, <1>4, <1>5, <1>7, <2>1
  <2>2. CASE p # n
    BY <1>1, <1>2, <1>4, <1>5, <1>7, <2>2
  <2>3. QED BY <2>1, <2>2
<1>11. ASSUME NEW k \in 1 .. Len(r)
       PROVE  g.next[r[k]] = ItemAt(r, k + 1) /\ g.prev[r[k]] = ItemAt(r, k - 1)
  <2>1. k \in 1 .. n - 1 /\ k \in 1 .. n /\ k + 1 \in 0 .. n /\ k - 1 \in 0 .. n /\ k + 1 \in 1 .. n
    BY <1>2, <1>4
  <2>2. CASE k < p
    <3>1. r[k] = s[k] /\ s[k] \in Item
      BY <1>2, <1>4, <2>1, <2>2
    <3>2. g.prev[s[k]] = ItemAt(s, k - 1)
      <4>1. p = n \/ (p + 1 \in 1 .. n /\ k # p + 1)
        BY <1>2, <1>7, <2>1, <2>2
      <4>2. g.prev[s[k]] = h.prev[s[k]]
        BY <1>6, <1>8, <2>1, <3>1, <4>1
      <4>3. QED BY <1>3, <2>1, <4>2
    <3>3. ItemAt(r, k - 1) = ItemAt(s, k - 1)
      BY <1>4, <1>7, <2>1, <2>2
    <3>4. CASE k = p - 1
      <4>1. g.next[s[k]] = ItemAt(s, p + 1)
        <5>1. p # 1
          BY <2>1, <3>4
        <5>2. QED BY <1>8, <3>1, <3>4, <5>1
      <4>2. ItemAt(r, k + 1) = ItemAt(s, p + 1)
        BY <1>4, <1>7, <2>1, <3>4
      <4>3. QED BY <3>1, <3>2, <3>3, <4>1, <4>2
    <3>5. CASE k # p - 1
      <4>1. p = 1 \/ (p - 1 \in 1 .. n /\ s[k] # s[p - 1] /\ s[p - 1] \in Item)
        BY <1>2, <1>6, <1>7, <2>1, <3>5
      <4>2. g.next[s[k]] = h.next[s[k]]
        BY <1>8, <3>1, <4>1
      <4>3. ItemAt(r, k + 1) = ItemAt(s, k + 1)
        BY <1>4, <1>7, <2>1, <2>2, <3>5
      <4>4. QED BY <1>3, <2>1, <3>1, <3>2, <3>3, <4>2, <4>3
    <3>6. QED BY <3>4, <3>5
  <2>3. CASE ~(k < p)
    <3>1. r[k] = s[k + 1] /\ s[k + 1] \in Item
      BY <1>2, <1>4, <2>1, <2>3
    <3>2. g.next[s[k + 1]] = h.next[s[k + 1]]
      <4>1. p = 1 \/ (p - 1 \in 1 .. n /\ k + 1 # p - 1)
        BY <1>2, <1>7, <2>1, <2>3
      <4>2. QED BY <1>6, <1>8, <2>1, <3>1, <4>1
    <3>3. h.next[s[k + 1]] = ItemAt(s, (k + 1) + 1) /\ ItemAt(r, k + 1) = ItemAt(s, (k + 1) + 1)
      BY <1>3, <1>4, <1>7, <2>1, <2>3
    <3>4. p # n /\ p + 1 \in 1 .. n /\ s[p + 1] \in Item
      BY <1>2, <1>7, <2>1, <2>3
    <3>5. CASE k = p
      <4>1. g.prev[s[k + 1]] = ItemAt(s, p - 1)
        BY <1>8, <3>1, <3>4, <3>5
      <4>2. ItemAt(r, k - 1) = ItemAt(s, p - 1)
        BY <1>4, <1>7, <2>1, <3>5
      <4>3. QED BY <3>1, <3>2, <3>3, <4>1, <4>2
    <3>6. CASE k # p
      <4>1. s[k + 1] # s[p + 1]
        BY <1>6, <1>7, <2>1, <3>4, <3>6
      <4>2. g.prev[s[k + 1]] = h.prev[s[k + 1]]
        BY <1>8, <3>1, <3>4, <4>1
      <4>3. h.prev[s[k + 1]] = ItemAt(s, (k + 1) - 1)
        BY <1>3, <2>1
      <4>4. ItemAt(r, k - 1) = ItemAt(s, (k - 1) + 1)
        BY <1>4, <1>7, <2>1, <2>3, <3>6
      <4>5. (k + 1) - 1 = k /\ (k - 1) + 1 = k
        BY <2>1
      <4>6. QED BY <3>1, <3>2, <3>3, <4>2, <4>3, <4>4, <4>5
    <3>7. QED BY <3>5, <3>6
  <2>4. QED BY <2>2, <2>3
<1>12. Links(g, l, r)
  BY <1>4, <1>9, <1>10, <1>11 DEF Links
<1>13. Relinks(h, g, l, Elems(s))
  <2>1. \A m \in List \ {l} : g.head[m] = h.head[m] /\ g.tail[m] = h.tail[m]
    BY <1>1, <1>5
  <2>2. (p # n => s[p + 1] \in Elems(s)) /\ (p # 1 => s[p - 1] \in Elems(s))
    BY <1>2, <1>7
  <2>3. \A x \in Item \ Elems(s) : g.next[x] = h.next[x] /\ g.prev[x] = h.prev[x]
    BY <1>1, <1>5, <2>2
  <2>4. QED BY <1>1, <2>1, <2>3 DEF Relinks
<1>14. QED BY <1>12, <1>13 DEF g, r

\* The pointers after remove and insert_tail of an item that is not the last one.
LEMMA MoveFields ==
  ASSUME NEW h \in Heap, NEW l \in List,
         NEW s, Links(h, l, s), NEW p \in 1 .. Len(s) - 1
  PROVE  ItemMoved(h, InsertTailPtr(RemovePtr(h, l, s[p]), l, s[p]), l, s, p)
<1> DEFINE q == RemovePtr(h, l, s[p])
           g == InsertTailPtr(q, l, s[p])
           n == Len(s)
<1>1. /\ n \in Nat /\ p \in 1 .. n /\ p # n
      /\ h.tail[l] = s[n] /\ s[n] # Null /\ s[p] \in Item
  BY LinkedItems
<1>2. /\ q \in Heap /\ q.crash = h.crash
      /\ q.tail = IF p = Len(s) THEN [h.tail EXCEPT ![l] = ItemAt(s, p - 1)] ELSE h.tail
      /\ q.prev = IF p = Len(s) THEN h.prev ELSE [h.prev EXCEPT ![s[p + 1]] = ItemAt(s, p - 1)]
      /\ q.head = IF p = 1 THEN [h.head EXCEPT ![l] = ItemAt(s, 2)] ELSE h.head
      /\ q.next = IF p = 1 THEN h.next ELSE [h.next EXCEPT ![s[p - 1]] = ItemAt(s, p + 1)]
  <2>1. p \in 1 .. Len(s)
    BY <1>1
  <2>2. ItemRemoved(h, q, l, s, p)
    BY <2>1, RemoveFieldsAt
  <2> HIDE DEF q
  <2>3. QED BY <2>2 DEF ItemRemoved
<1> HIDE DEF q, n
<1>3. /\ q.tail = h.tail /\ q.prev = [h.prev EXCEPT ![s[p + 1]] = ItemAt(s, p - 1)]
      /\ q.tail[l] = s[n] /\ q.tail[l] # Null
  BY <1>1, <1>2 DEF n
<1>4. /\ g \in Heap /\ g.crash = q.crash
      /\ g.head = IF q.tail[l] # Null THEN q.head ELSE [q.head EXCEPT ![l] = s[p]]
      /\ g.tail = [q.tail EXCEPT ![l] = s[p]]
      /\ g.next = [IF q.tail[l] # Null THEN [q.next EXCEPT ![q.tail[l]] = s[p]] ELSE q.next
                     EXCEPT ![s[p]] = Null]
      /\ g.prev = [q.prev EXCEPT ![s[p]] = q.tail[l]]
  <2>1. q \in Heap /\ s[p] \in Item
    BY <1>1, <1>2
  <2>2. TailInserted(q, g, l, s[p])
    BY <2>1, InsertTailFields
  <2> HIDE DEF g
  <2>3. QED BY <2>2 DEF TailInserted
<1> HIDE DEF g
<1>5. /\ g.head = q.head
      /\ g.next = [[q.next EXCEPT ![s[n]] = s[p]] EXCEPT ![s[p]] = Null]
      /\ g.prev = [q.prev EXCEPT ![s[p]] = s[n]]
  BY <1>3, <1>4
<1>6. p = 1 => /\ g.head = [h.head EXCEPT ![l] = ItemAt(s, 2)]
               /\ g.next = [[h.next EXCEPT ![s[n]] = s[p]] EXCEPT ![s[p]] = Null]
  BY <1>2, <1>5
<1>7. p # 1 => /\ g.head = h.head
               /\ g.next = [[[h.next EXCEPT ![s[p - 1]] = ItemAt(s, p + 1)]
                              EXCEPT ![s[n]] = s[p]] EXCEPT ![s[p]] = Null]
  BY <1>2, <1>5
<1>8. ItemMoved(h, g, l, s, p)
  BY <1>2, <1>3, <1>4, <1>5, <1>6, <1>7 DEF n, ItemMoved
<1>9. QED BY <1>8 DEF q, g

\* Assignments to the links of two items can be exchanged.
LEMMA Exchange ==
  ASSUME NEW S, NEW T, NEW f \in [S -> T], NEW x \in S, NEW y \in S, x # y, NEW a \in T, NEW b \in T
  PROVE  [[f EXCEPT ![x] = a] EXCEPT ![y] = b] = [[f EXCEPT ![y] = b] EXCEPT ![x] = a]
  OBVIOUS

\* head_to_tail does to the pointers what remove and insert_tail of the first item do.
LEMMA HeadToTailMoves ==
  ASSUME NEW h \in Heap, NEW l \in List,
         NEW s, Links(h, l, s), Len(s) > 1
  PROVE  HeadToTailPtr(h, l) = InsertTailPtr(RemovePtr(h, l, s[1]), l, s[1])
<1> DEFINE f == h.head[l]
           t == h.tail[l]
           n == h.next[f]
           a == SetPrev(h, f, t)
           b == SetNext(a, t, f)
           c == SetPrev(b, n, Null)
           d == [c EXCEPT !.head[l] = n]
           e == [d EXCEPT !.tail[l] = f]
           k == SetNext(e, f, Null)
           g == InsertTailPtr(RemovePtr(h, l, s[1]), l, s[1])
<1>1. /\ Len(s) \in Nat /\ 1 \in 1 .. Len(s) /\ 2 \in 1 .. Len(s) /\ Len(s) \in 1 .. Len(s)
      /\ f = s[1] /\ t = s[Len(s)] /\ ItemAt(s, 2) = s[2] /\ ItemAt(s, 0) = Null
      /\ f \in Item /\ t \in Item /\ s[2] \in Item
  BY LinkedItems
<1>2. h.next[s[1]] = ItemAt(s, 1 + 1) /\ Distinct(s)
  BY <1>1 DEF Links
<1>3. n = s[2] /\ f # t /\ f # n /\ f # Null
  BY <1>1, <1>2 DEF Distinct
<1>4. f \in Pointer /\ t \in Pointer /\ n \in Pointer /\ Null \in Pointer
  BY <1>1, <1>3 DEF Pointer
<1>5. HeadToTailPtr(h, l) = SetNext([c EXCEPT !.head[l] = n, !.tail[l] = f], f, Null)
  BY <1>3, Zenon DEF HeadToTailPtr
<1>6. [c EXCEPT !.head[l] = n, !.tail[l] = f] = e
  <2> HIDE DEF c, n, f
  <2>1. QED OBVIOUS
<1>7. HeadToTailPtr(h, l) = k
  BY <1>5, <1>6
<1> HIDE DEF f, t, n
<1>8. /\ a \in Heap /\ a.crash = h.crash /\ a.head = h.head /\ a.tail = h.tail
      /\ a.next = h.next /\ a.prev = [h.prev EXCEPT ![f] = t]
  BY <1>1, <1>4, SetPrevFields
<1> HIDE DEF a
<1>9. /\ b \in Heap /\ b.crash = a.crash /\ b.head = a.head /\ b.tail = a.tail
      /\ b.prev = a.prev /\ b.next = [a.next EXCEPT ![t] = f]
  BY <1>1, <1>4, <1>8, SetNextFields
<1> HIDE DEF b
<1>10. /\ c \in Heap /\ c.crash = b.crash /\ c.head = b.head /\ c.tail = b.tail
       /\ c.next = b.next /\ c.prev = [b.prev EXCEPT ![n] = Null]
  BY <1>1, <1>3, <1>4, <1>9, SetPrevFields
<1> HIDE DEF c
<1>11. /\ d \in Heap /\ d.crash = c.crash /\ d.tail = c.tail /\ d.next = c.next
       /\ d.prev = c.prev /\ d.head = [c.head EXCEPT ![l] = n]
  BY <1>4, <1>10, SetHeadFields
<1> HIDE DEF d
<1>12. /\ e \in Heap /\ e.crash = d.crash /\ e.head = d.head /\ e.next = d.next
       /\ e.prev = d.prev /\ e.tail = [d.tail EXCEPT ![l] = f]
  BY <1>4, <1>11, SetTailFields
<1> HIDE DEF e
<1>13. /\ k \in Heap /\ k.crash = e.crash /\ k.head = e.head /\ k.tail = e.tail
       /\ k.prev = e.prev /\ k.next = [e.next EXCEPT ![f] = Null]
  BY <1>1, <1>4, <1>12, SetNextFields
<1> HIDE DEF k
<1>14. /\ g \in Heap /\ g.crash = h.crash
       /\ g.tail = [h.tail EXCEPT ![l] = s[1]]
       /\ g.prev = [[h.prev EXCEPT ![s[1 + 1]] = ItemAt(s, 1 - 1)] EXCEPT ![s[1]] = s[Len(s)]]
       /\ g.head = [h.head EXCEPT ![l] = ItemAt(s, 2)]
       /\ g.next = [[h.next EXCEPT ![s[Len(s)]] = s[1]] EXCEPT ![s[1]] = Null]
  <2>1. 1 \in 1 .. Len(s) - 1
    BY <1>1
  <2>2. ItemMoved(h, g, l, s, 1)
    BY <2>1, MoveFields
  <2> HIDE DEF g
  <2>3. QED BY <2>2 DEF ItemMoved
<1> HIDE DEF g
<1>15. /\ g.tail = [h.tail EXCEPT ![l] = f] /\ g.head = [h.head EXCEPT ![l] = n]
       /\ g.next = [[h.next EXCEPT ![t] = f] EXCEPT ![f] = Null]
       /\ g.prev = [[h.prev EXCEPT ![n] = Null] EXCEPT ![f] = t]
  BY <1>1, <1>3, <1>14
<1>16. g.prev = [[h.prev EXCEPT ![f] = t] EXCEPT ![n] = Null]
  BY <1>1, <1>3, <1>4, <1>15, Exchange, HeapFields
<1>17. k = g
  BY <1>8, <1>9, <1>10, <1>11, <1>12, <1>13, <1>14, <1>15, <1>16, HeapEqual
<1>18. QED BY <1>7, <1>17 DEF g

\* to_tail of an inner item does to the pointers what remove and insert_tail do.
LEMMA ToTailMoves ==
  ASSUME NEW h \in Heap, NEW l \in List,
         NEW s, Links(h, l, s), NEW p \in 2 .. Len(s) - 1
  PROVE  ToTailPtr(h, l, s[p]) = InsertTailPtr(RemovePtr(h, l, s[p]), l, s[p])
<1> DEFINE i == s[p]
           t == h.tail[l]
           x == h.prev[i]
           y == h.next[i]
           a == SetNext(h, x, y)
           b == SetPrev(a, a.next[i], a.prev[i])
           c == SetPrev(b, i, t)
           d == SetNext(c, i, Null)
           e == SetNext(d, t, i)
           k == [e EXCEPT !.tail[l] = i]
           g == InsertTailPtr(RemovePtr(h, l, i), l, i)
<1>1. /\ Len(s) \in Nat /\ p \in 1 .. Len(s) /\ p - 1 \in 1 .. Len(s) /\ p + 1 \in 1 .. Len(s)
      /\ 1 \in 1 .. Len(s) /\ Len(s) \in 1 .. Len(s) /\ p - 1 # p /\ p + 1 # p /\ p # 1 /\ p # Len(s)
  BY LinkedItems
<1>2. /\ h.head[l] = s[1] /\ t = s[Len(s)]
      /\ \A j \in 1 .. Len(s) : s[j] \in Item /\ ItemAt(s, j) = s[j]
  BY <1>1, LinkedItems
<1>3. h.prev[s[p]] = ItemAt(s, p - 1) /\ h.next[s[p]] = ItemAt(s, p + 1) /\ Distinct(s)
  BY <1>1 DEF Links
<1>4. /\ x = s[p - 1] /\ y = s[p + 1] /\ i # h.head[l] /\ i # t /\ i # x /\ i # y
      /\ i \in Item /\ t \in Item /\ x \in Item /\ y \in Item
  BY <1>1, <1>2, <1>3 DEF Distinct
<1>5. /\ i \in Pointer /\ t \in Pointer /\ x \in Pointer
      /\ y \in Pointer /\ Null \in Pointer
  BY <1>4 DEF Pointer
<1>6. ToTailPtr(h, l, i) = k
  <2>1. SetLinks(b, i, t, Null) = d
    BY DEF SetLinks
  <2> HIDE DEF d
  <2>2. QED BY <1>4, <2>1, Zenon DEF ToTailPtr
<1> HIDE DEF t, x, y, i
<1>7. /\ a \in Heap /\ a.crash = h.crash /\ a.head = h.head /\ a.tail = h.tail
      /\ a.prev = h.prev /\ a.next = [h.next EXCEPT ![x] = y]
  BY <1>4, <1>5, SetNextFields
<1> HIDE DEF a
<1>8. a.next[i] = y /\ a.prev[i] = x
  <2>1. a.next[i] = h.next[i]
    BY <1>4, <1>7, HeapFields
  <2>2. QED BY <1>7, <2>1 DEF x, y
<1>9. /\ b \in Heap /\ b.crash = a.crash /\ b.head = a.head /\ b.tail = a.tail
      /\ b.next = a.next /\ b.prev = [a.prev EXCEPT ![y] = x]
  BY <1>4, <1>5, <1>7, <1>8, SetPrevFields
<1> HIDE DEF b
<1>10. /\ c \in Heap /\ c.crash = b.crash /\ c.head = b.head /\ c.tail = b.tail
       /\ c.next = b.next /\ c.prev = [b.prev EXCEPT ![i] = t]
  BY <1>4, <1>5, <1>9, SetPrevFields
<1> HIDE DEF c
<1>11. /\ d \in Heap /\ d.crash = c.crash /\ d.head = c.head /\ d.tail = c.tail
       /\ d.prev = c.prev /\ d.next = [c.next EXCEPT ![i] = Null]
  BY <1>4, <1>5, <1>10, SetNextFields
<1> HIDE DEF d
<1>12. /\ e \in Heap /\ e.crash = d.crash /\ e.head = d.head /\ e.tail = d.tail
       /\ e.prev = d.prev /\ e.next = [d.next EXCEPT ![t] = i]
  <2>1. d \in Heap /\ t \in Item /\ i \in Pointer
    BY <1>4, <1>5, <1>11
  <2>2. QED BY <2>1, SetNextFields
<1> HIDE DEF e
<1>13. /\ k \in Heap /\ k.crash = e.crash /\ k.head = e.head /\ k.next = e.next
       /\ k.prev = e.prev /\ k.tail = [e.tail EXCEPT ![l] = i]
  BY <1>5, <1>12, SetTailFields
<1> HIDE DEF k
<1>14. /\ g \in Heap /\ g.crash = h.crash
       /\ g.tail = [h.tail EXCEPT ![l] = s[p]]
       /\ g.prev = [[h.prev EXCEPT ![s[p + 1]] = ItemAt(s, p - 1)] EXCEPT ![s[p]] = s[Len(s)]]
       /\ g.head = h.head
       /\ g.next = [[[h.next EXCEPT ![s[p - 1]] = ItemAt(s, p + 1)] EXCEPT ![s[Len(s)]] = s[p]]
                      EXCEPT ![s[p]] = Null]
  <2>1. p \in 1 .. Len(s) - 1 /\ p # 1
    BY <1>1
  <2>2. ItemMoved(h, g, l, s, p)
    BY <2>1, MoveFields DEF i
  <2> HIDE DEF g
  <2>3. QED BY <2>1, <2>2 DEF ItemMoved
<1> HIDE DEF g
<1>15. ItemAt(s, p - 1) = x /\ ItemAt(s, p + 1) = y
  BY <1>1, <1>2, <1>4
<1>16. /\ g.tail = [h.tail EXCEPT ![l] = i]
       /\ g.prev = [[h.prev EXCEPT ![y] = x] EXCEPT ![i] = t]
       /\ g.next = [[[h.next EXCEPT ![x] = y] EXCEPT ![t] = i] EXCEPT ![i] = Null]
  BY <1>2, <1>4, <1>14, <1>15 DEF i
<1>17. a.next \in [Item -> Pointer]
  BY <1>7, HeapFields
<1>18. g.next = [[a.next EXCEPT ![i] = Null] EXCEPT ![t] = i]
  <2>1. g.next = [[a.next EXCEPT ![t] = i] EXCEPT ![i] = Null]
    BY <1>7, <1>16
  <2>2. QED BY <1>4, <1>5, <1>17, <2>1, Exchange
<1>19. k = g
  BY <1>7, <1>9, <1>10, <1>11, <1>12, <1>13, <1>14, <1>16, <1>18, HeapEqual
<1>20. QED BY <1>6, <1>19 DEF g, i

\* Moving the last item to the tail leaves a list as it is; moving the first one is head_to_tail.
LEMMA MoveEnds ==
  ASSUME NEW s \in Seq(Item), Distinct(s), s # <<>>
  PROVE  ToTail(s, s[Len(s)]) = s /\ HeadToTail(s) = ToTail(s, s[1])
<1>1. Len(s) \in Nat /\ 1 \in 1 .. Len(s) /\ Len(s) \in 1 .. Len(s) /\ s = [k \in 1 .. Len(s) |-> s[k]]
  OBVIOUS
<1>2. ToTail(s, s[Len(s)]) = s
  <2> DEFINE r == Remove(s, s[Len(s)])
             q == Append(r, s[Len(s)])
  <2>1. /\ r \in Seq(Item) /\ Len(r) = Len(s) - 1
        /\ \A k \in 1 .. Len(s) - 1 : r[k] = IF k < Len(s) THEN s[k] ELSE s[k + 1]
    BY <1>1, RemoveAt
  <2>2. s[Len(s)] \in Item
    BY <1>1
  <2> HIDE DEF r
  <2>3. /\ q \in Seq(Item) /\ Len(q) = Len(r) + 1 /\ q[Len(r) + 1] = s[Len(s)]
        /\ \A k \in 1 .. Len(r) : q[k] = r[k]
    BY <2>1, <2>2, AppendProperties
  <2> HIDE DEF q
  <2>4. Len(q) = Len(s) /\ \A k \in 1 .. Len(q) : q[k] = s[k]
    BY <1>1, <2>1, <2>3
  <2>5. q = s
    BY <2>3, <2>4, SeqEqual
  <2>6. QED BY <2>5 DEF q, r, ToTail, InsertTail
<1>3. Remove(s, s[1]) = Tail(s)
  <2> DEFINE r == Remove(s, s[1])
             q == Tail(s)
  <2>1. /\ r \in Seq(Item) /\ Len(r) = Len(s) - 1
        /\ \A k \in 1 .. Len(s) - 1 : r[k] = IF k < 1 THEN s[k] ELSE s[k + 1]
    BY <1>1, RemoveAt
  <2>2. /\ q \in Seq(Item) /\ Len(q) = Len(s) - 1
        /\ \A k \in 1 .. Len(s) - 1 : q[k] = s[k + 1]
    BY <1>1
  <2> HIDE DEF r, q
  <2>3. r = q
    <3>1. Len(r) = Len(q) /\ \A k \in 1 .. Len(r) : r[k] = q[k]
      BY <1>1, <2>1, <2>2
    <3>2. QED BY <2>1, <2>2, <3>1, SeqEqual
  <2>4. QED BY <2>3 DEF r, q
<1>4. QED BY <1>2, <1>3 DEF ToTail, HeadToTail

\* What two steps relink.
LEMMA RelinksTwice ==
  ASSUME NEW h, NEW q, NEW g, NEW l, NEW S, Relinks(h, q, l, S), Relinks(q, g, l, S)
  PROVE  Relinks(h, g, l, S)
  BY DEF Relinks

\* A heap that nothing happens to.
LEMMA RelinksNothing ==
  ASSUME NEW h \in Heap, ~h.crash, NEW l, NEW S
  PROVE  Relinks(h, h, l, S)
  BY DEF Relinks

\* remove and insert_tail of an item of the list make it the last one.
LEMMA MoveLinks ==
  ASSUME NEW h \in Heap, ~h.crash, NEW l \in List,
         NEW s, Links(h, l, s), NEW p \in 1 .. Len(s)
  PROVE  LET g == InsertTailPtr(RemovePtr(h, l, s[p]), l, s[p])
         IN  Links(g, l, ToTail(s, s[p])) /\ Relinks(h, g, l, Elems(s))
<1> DEFINE q == RemovePtr(h, l, s[p])
           r == Remove(s, s[p])
           g == InsertTailPtr(q, l, s[p])
<1>1. s \in Seq(Item) /\ Distinct(s) /\ s[p] \in Item /\ s[p] \in Elems(s)
  <2>1. s \in Seq(Item) /\ Distinct(s)
    BY DEF Links
  <2>2. s[p] \in Item /\ s[p] \in Elems(s)
    BY LinkedItems
  <2>3. QED BY <2>1, <2>2
<1>2. Elems(r) = Elems(s) \ {s[p]}
  BY <1>1, RemoveProps
<1>3. Links(q, l, r) /\ Relinks(h, q, l, Elems(s))
  BY RemoveLinks
<1> HIDE DEF q, r
<1>4. q \in Heap /\ ~q.crash
  BY <1>3 DEF Relinks
<1>5. Links(g, l, InsertTail(r, s[p])) /\ Relinks(q, g, l, Elems(r) \cup {s[p]})
  BY <1>1, <1>2, <1>3, <1>4, InsertTailLinks
<1>6. Elems(r) \cup {s[p]} = Elems(s)
  BY <1>1, <1>2
<1> HIDE DEF g
<1>7. Relinks(h, g, l, Elems(s))
  <2>1. Relinks(q, g, l, Elems(s))
    BY <1>5, <1>6
  <2>2. QED BY <1>3, <2>1, RelinksTwice
<1>8. QED BY <1>5, <1>7 DEF g, q, r, ToTail

\* head_to_tail makes the first item the last one.
LEMMA HeadToTailLinks ==
  ASSUME NEW h \in Heap, ~h.crash, NEW l \in List,
         NEW s, Links(h, l, s)
  PROVE  LET g == HeadToTailPtr(h, l)
         IN  Links(g, l, HeadToTail(s)) /\ Relinks(h, g, l, Elems(s))
<1> DEFINE g == HeadToTailPtr(h, l)
<1>1. /\ Len(s) \in Nat /\ s \in Seq(Item) /\ Distinct(s)
      /\ h.head[l] = Null <=> Len(s) = 0
      /\ Len(s) # 0 => h.head[l] = s[1] /\ h.tail[l] = s[Len(s)]
  <2>1. s \in Seq(Item) /\ Distinct(s)
    BY DEF Links
  <2>2. /\ Len(s) \in Nat
        /\ h.head[l] = Null <=> Len(s) = 0
        /\ Len(s) # 0 => h.head[l] = s[1] /\ h.tail[l] = s[Len(s)]
    BY LinkedItems
  <2>3. QED BY <2>1, <2>2
<1>2. CASE Len(s) = 0
  <2>1. g = h
    BY <1>1, <1>2 DEF HeadToTailPtr
  <2>2. HeadToTail(s) = s
    BY <1>1, <1>2 DEF HeadToTail
  <2> HIDE DEF g
  <2>3. Links(g, l, HeadToTail(s)) /\ Relinks(h, g, l, Elems(s))
    BY <2>1, <2>2, RelinksNothing
  <2>4. QED BY <2>3 DEF g
<1>3. CASE Len(s) = 1
  <2>1. g = h
    BY <1>1, <1>3 DEF HeadToTailPtr
  <2>2. HeadToTail(s) = s
    BY <1>1, <1>3, MoveEnds
  <2> HIDE DEF g
  <2>3. Links(g, l, HeadToTail(s)) /\ Relinks(h, g, l, Elems(s))
    BY <2>1, <2>2, RelinksNothing
  <2>4. QED BY <2>3 DEF g
<1>4. CASE Len(s) > 1
  <2>1. g = InsertTailPtr(RemovePtr(h, l, s[1]), l, s[1])
    BY <1>4, HeadToTailMoves
  <2>2. HeadToTail(s) = ToTail(s, s[1]) /\ 1 \in 1 .. Len(s)
    BY <1>1, <1>4, MoveEnds
  <2> HIDE DEF g
  <2>3. Links(g, l, HeadToTail(s)) /\ Relinks(h, g, l, Elems(s))
    BY <2>1, <2>2, MoveLinks
  <2>4. QED BY <2>3 DEF g
<1>5. Len(s) = 0 \/ Len(s) = 1 \/ Len(s) > 1
  <2>1. \A n \in Nat : n = 0 \/ n = 1 \/ n > 1
    OBVIOUS
  <2>2. QED BY <1>1, <2>1
<1>6. QED BY <1>2, <1>3, <1>4, <1>5

\* to_tail makes an item of the list the last one.
LEMMA ToTailLinks ==
  ASSUME NEW h \in Heap, ~h.crash, NEW l \in List,
         NEW s, Links(h, l, s), NEW p \in 1 .. Len(s)
  PROVE  LET g == ToTailPtr(h, l, s[p])
         IN  Links(g, l, ToTail(s, s[p])) /\ Relinks(h, g, l, Elems(s))
<1> DEFINE g == ToTailPtr(h, l, s[p])
<1>1. /\ Len(s) \in Nat /\ s \in Seq(Item) /\ Distinct(s)
      /\ h.head[l] = s[1] /\ h.tail[l] = s[Len(s)]
  <2>1. s \in Seq(Item) /\ Distinct(s)
    BY DEF Links
  <2>2. Len(s) \in Nat /\ h.head[l] = s[1] /\ h.tail[l] = s[Len(s)]
    BY LinkedItems
  <2>3. QED BY <2>1, <2>2
<1>2. s[p] = s[1] <=> p = 1
  BY <1>1 DEF Distinct
<1>3. CASE p = 1
  <2>1. g = HeadToTailPtr(h, l)
    BY <1>1, <1>3 DEF ToTailPtr
  <2>2. HeadToTail(s) = ToTail(s, s[p])
    BY <1>1, <1>3, MoveEnds
  <2> HIDE DEF g
  <2>3. Links(g, l, ToTail(s, s[p])) /\ Relinks(h, g, l, Elems(s))
    BY <2>1, <2>2, HeadToTailLinks
  <2>4. QED BY <2>3 DEF g
<1>4. CASE p # 1 /\ p = Len(s)
  <2>1. g = h
    BY <1>1, <1>2, <1>4 DEF ToTailPtr
  <2>2. ToTail(s, s[p]) = s
    BY <1>1, <1>4, MoveEnds
  <2> HIDE DEF g
  <2>3. Links(g, l, ToTail(s, s[p])) /\ Relinks(h, g, l, Elems(s))
    BY <2>1, <2>2, RelinksNothing
  <2>4. QED BY <2>3 DEF g
<1>5. CASE p # 1 /\ p # Len(s)
  <2>1. p \in 2 .. Len(s) - 1
    BY <1>1, <1>5
  <2>2. g = InsertTailPtr(RemovePtr(h, l, s[p]), l, s[p])
    BY <2>1, ToTailMoves
  <2> HIDE DEF g
  <2>3. Links(g, l, ToTail(s, s[p])) /\ Relinks(h, g, l, Elems(s))
    BY <2>2, MoveLinks
  <2>4. QED BY <2>3 DEF g
<1>6. QED BY <1>3, <1>4, <1>5

---------------------------------------------------------------------------
\* A nonempty set of natural numbers has a least element.
LEMMA LeastNumber ==
  ASSUME NEW T \in SUBSET Nat, T # {}
  PROVE  \E n \in T : \A m \in T : n <= m
<1> DEFINE R == OpToRel(<, Nat)
<1>1. IsWellFoundedOn(R, Nat)
  BY NatLessThanWellFounded, Zenon
<1>2. \A m, n \in Nat : <<m, n>> \in R <=> m < n
  BY DEF OpToRel
<1> HIDE DEF R
<1>3. PICK n \in T : \A m \in T : ~(<<m, n>> \in R)
  BY <1>1, WFMin
<1>4. \A m \in T : ~(m < n)
  BY <1>2, <1>3
<1>5. QED BY <1>4

\* A list has no more items than there are.
LEMMA ListFits ==
  ASSUME NEW s \in Seq(Item), Distinct(s)
  PROVE  Cardinality(Item) \in Nat /\ Len(s) <= Cardinality(Item)
<1>1. s \in Injection(1 .. Len(s), Item)
  BY Fun_IsInj DEF Distinct
<1>2. \A n \in Nat : Cardinality(1 .. n) = n
  BY FS_Interval
<1>3. Len(s) \in Nat /\ Cardinality(1 .. Len(s)) = Len(s)
  BY <1>2
<1>4. QED BY <1>1, <1>3, FS_Injection, FS_CardinalityType

\* for_each along links that follow a sequence visits its items in their order and ends.
LEMMA WalkSeq ==
  ASSUME NEW s \in Seq(Item), Distinct(s),
         NEW link, \A k \in 1 .. Len(s) : link[s[k]] = ItemAt(s, k + 1)
  PROVE  Walk(ItemAt(s, 1), link) = s
<1> DEFINE C == Cardinality(Item)
           first == ItemAt(s, 1)
           step(w) == [n \in 1 .. C + 1 |-> IF n = 1 THEN first
                                            ELSE IF w[n - 1] = Null THEN Null ELSE link[w[n - 1]]]
           at == CHOOSE w : w = step(w)
           ends(n) == (\A k \in 1 .. n : at[k] # Null) /\ (n = C + 1 \/ at[n + 1] = Null)
           len == CHOOSE n \in 0 .. C + 1 : ends(n)
           h == [n \in 1 .. C + 1 |-> ItemAt(s, n)]
<1>1. C \in Nat /\ Len(s) \in Nat /\ Len(s) <= C
  BY ListFits
<1>2. Walk(first, link) = [n \in 1 .. len |-> at[n]]
  BY Zenon DEF Walk
<1>3. \A k \in Nat : (k \in 1 .. Len(s) => ItemAt(s, k) = s[k] /\ s[k] # Null)
                     /\ (k > Len(s) => ItemAt(s, k) = Null)
  BY <1>1 DEF ItemAt
<1> HIDE DEF C, first
<1>4. \A n \in 1 .. C + 1 : h[n] = IF n = 1 THEN first
                                  ELSE IF h[n - 1] = Null THEN Null ELSE link[h[n - 1]]
  <2>1. SUFFICES ASSUME NEW n \in 1 .. C + 1, n # 1
                 PROVE  ItemAt(s, n) = IF ItemAt(s, n - 1) = Null THEN Null ELSE link[ItemAt(s, n - 1)]
    BY <1>1 DEF first
  <2>2. n - 1 \in Nat /\ n \in Nat /\ n - 1 > 0 /\ (n - 1) + 1 = n
    BY <1>1, <2>1
  <2>3. CASE n - 1 <= Len(s)
    <3>1. n - 1 \in 1 .. Len(s)
      BY <1>1, <2>2, <2>3
    <3>2. link[s[n - 1]] = ItemAt(s, n)
      BY <2>2, <3>1
    <3>3. QED BY <1>3, <2>2, <3>1, <3>2
  <2>4. CASE ~(n - 1 <= Len(s))
    BY <1>1, <1>3, <2>2, <2>4
  <2>5. QED BY <2>3, <2>4
<1>5. \A n \in 1 .. C + 1 : h[n] = ItemAt(s, n)
  OBVIOUS
<1>6. h = [n \in 1 .. C + 1 |-> h[n]]
  OBVIOUS
<1> HIDE DEF h
<1>7. h = step(h)
  BY <1>4, <1>6
<1> HIDE DEF step
<1>8. at = step(at)
  BY <1>7, Zenon
<1> HIDE DEF at
<1>9. \A n \in 1 .. C + 1 : at[n] = IF n = 1 THEN first
                                  ELSE IF at[n - 1] = Null THEN Null ELSE link[at[n - 1]]
  BY <1>8 DEF step
<1>10. \A n \in 1 .. C + 1 : at[n] = h[n]
  <2> DEFINE T == {n \in 1 .. C + 1 : at[n] # h[n]}
  <2>1. SUFFICES ASSUME T # {} PROVE FALSE
    OBVIOUS
  <2>2. T \in SUBSET Nat
    BY <1>1
  <2>3. PICK n \in T : \A m \in T : n <= m
    <3> HIDE DEF T
    <3>1. QED BY <2>1, <2>2, LeastNumber
  <2>4. n # 1
    BY <1>1, <1>4, <1>9, <2>3
  <2>5. n - 1 \in 1 .. C + 1 /\ ~(n <= n - 1)
    BY <1>1, <2>3, <2>4
  <2>6. at[n - 1] = h[n - 1]
    BY <2>3, <2>5
  <2>7. at[n] = h[n]
    BY <1>4, <1>9, <2>3, <2>4, <2>6
  <2>8. QED BY <2>3, <2>7
<1>11. \A n \in 1 .. C + 1 : at[n] = ItemAt(s, n)
  BY <1>5, <1>10
<1>12. ends(Len(s)) /\ Len(s) \in 0 .. C + 1
  BY <1>1, <1>3, <1>11
<1>13. ASSUME NEW n \in 0 .. C + 1, ends(n) PROVE n = Len(s)
  <2>1. n <= Len(s)
    <3>1. SUFFICES ASSUME n > Len(s) PROVE FALSE
      BY <1>1
    <3>2. n \in 1 .. n /\ n \in 1 .. C + 1 /\ n \in Nat
      BY <1>1, <3>1
    <3>3. at[n] = Null
      BY <1>3, <1>11, <3>1, <3>2
    <3>4. QED BY <1>13, <3>2, <3>3
  <2>2. n >= Len(s)
    <3>1. SUFFICES ASSUME n < Len(s) PROVE FALSE
      BY <1>1
    <3>2. n + 1 \in 1 .. Len(s) /\ n + 1 \in 1 .. C + 1 /\ n # C + 1 /\ n + 1 \in Nat
      BY <1>1, <3>1
    <3>3. at[n + 1] # Null
      BY <1>3, <1>11, <3>2
    <3>4. QED BY <1>13, <3>2, <3>3
  <2>3. QED BY <1>1, <2>1, <2>2
<1>14. len = Len(s)
  <2> HIDE DEF ends
  <2>1. QED BY <1>12, <1>13
<1> HIDE DEF len
<1>15. \A n \in 1 .. Len(s) : at[n] = s[n]
  BY <1>1, <1>3, <1>11
<1>16. s = [n \in 1 .. Len(s) |-> s[n]]
  OBVIOUS
<1>17. [n \in 1 .. len |-> at[n]] = s
  BY <1>14, <1>15, <1>16
<1>18. QED BY <1>2, <1>17 DEF first

\* A linked list reads in the order of its items from the head, and in the opposite order from
\* the tail.
LEMMA WalkBothWays ==
  ASSUME NEW h, NEW l, NEW s, Links(h, l, s)
  PROVE  /\ Walk(h.head[l], h.next) = s
         /\ Walk(h.tail[l], h.prev) = [k \in 1 .. Len(s) |-> s[Len(s) + 1 - k]]
<1> DEFINE n == Len(s)
           r == [k \in 1 .. n |-> s[n + 1 - k]]
<1>1. /\ s \in Seq(Item) /\ Distinct(s) /\ n \in Nat
      /\ h.head[l] = ItemAt(s, 1) /\ h.tail[l] = ItemAt(s, n)
      /\ \A k \in 1 .. n : h.next[s[k]] = ItemAt(s, k + 1) /\ h.prev[s[k]] = ItemAt(s, k - 1)
  BY DEF Links
<1>2. Walk(h.head[l], h.next) = s
  BY <1>1, WalkSeq
<1>3. r \in Seq(Item) /\ Len(r) = n /\ \A k \in 1 .. n : r[k] = s[n + 1 - k]
  BY <1>1
<1> HIDE DEF r, n
<1>4. \A k \in 0 .. n + 1 : ItemAt(r, k) = ItemAt(s, n + 1 - k)
  BY <1>1, <1>3 DEF ItemAt, n
<1>5. Distinct(r)
  <2>1. ASSUME NEW i \in 1 .. n, NEW j \in 1 .. n, r[i] = r[j] PROVE i = j
    <3>1. \A m \in Nat : \A k \in 1 .. m : m + 1 - k \in 1 .. m
      OBVIOUS
    <3>2. n + 1 - i \in 1 .. n /\ n + 1 - j \in 1 .. n
      BY <1>1, <3>1, Zenon
    <3>3. s[n + 1 - i] = s[n + 1 - j]
      BY <1>3, <2>1, Zenon
    <3>4. n + 1 - i = n + 1 - j
      BY <1>1, <3>2, <3>3, Zenon DEF Distinct, n
    <3>5. \A m \in Nat : \A a, b \in 1 .. m : m + 1 - a = m + 1 - b => a = b
      OBVIOUS
    <3>6. QED BY <1>1, <3>4, <3>5, Zenon
  <2>2. QED BY <1>3, <2>1 DEF Distinct
<1>6. ASSUME NEW k \in 1 .. n PROVE h.prev[r[k]] = ItemAt(r, k + 1)
  <2>1. n + 1 - k \in 1 .. n /\ k + 1 \in 0 .. n + 1 /\ n + 1 - (k + 1) = (n + 1 - k) - 1
    BY <1>1
  <2>2. r[k] = s[n + 1 - k] /\ ItemAt(r, k + 1) = ItemAt(s, (n + 1 - k) - 1)
    BY <1>3, <1>4, <2>1, Zenon
  <2>3. h.prev[s[n + 1 - k]] = ItemAt(s, (n + 1 - k) - 1)
    BY <1>1, <2>1, Zenon
  <2>4. QED BY <2>2, <2>3, Zenon
<1>7. h.tail[l] = ItemAt(r, 1)
  <2>1. 1 \in 0 .. n + 1 /\ n + 1 - 1 = n
    BY <1>1
  <2>2. QED BY <1>1, <1>4, <2>1
<1>8. Walk(h.tail[l], h.prev) = r
  BY <1>3, <1>5, <1>6, <1>7, WalkSeq
<1>9. QED BY <1>2, <1>8 DEF r, n

\* The inductive invariant behind LinksMirrored and ImplementsLists: the links of each list are
\* those of a sequence of exactly the items that were inserted in it
ListsInv ==
  /\ ListsTypeOK /\ ~heap.crash
  /\ \A l \in List : \E s \in Seq(Item) :
       Links(heap, l, s) /\ Elems(s) = {i \in Item : member[i] = l}

\* What for_each visits in each list
Visited == [l \in List |-> Walk(heap.head[l], heap.next)]

\* What is visited in a list are its items.
LEMMA VisitedList ==
  ASSUME NEW l \in List, NEW s, Links(heap, l, s)
  PROVE  Visited[l] = s
  BY WalkBothWays DEF Visited

\* A list that a step leaves alone keeps its items and their order.
LEMMA OtherList ==
  ASSUME NEW h, NEW g, NEW l, NEW S, Relinks(h, g, l, S), NEW m \in List \ {l},
         NEW s, Links(h, m, s), Elems(s) \cap S = {}
  PROVE  Links(g, m, s)
<1>1. s \in Seq(Item) /\ \A k \in 1 .. Len(s) : s[k] \in Item /\ s[k] \in Elems(s)
  BY DEF Links, Elems
<1>2. \A k \in 1 .. Len(s) : g.next[s[k]] = h.next[s[k]] /\ g.prev[s[k]] = h.prev[s[k]]
  BY <1>1 DEF Relinks
<1>3. g.head[m] = h.head[m] /\ g.tail[m] = h.tail[m]
  BY DEF Relinks
<1>4. QED BY <1>2, <1>3 DEF Links

\* A step that relinks one list and its items keeps the invariant and all other lists.
LEMMA ListStep ==
  ASSUME ListsInv, NEW l \in List, NEW s, NEW r, NEW S \in SUBSET Item,
         Links(heap, l, s), Links(heap', l, r), Relinks(heap, heap', l, S),
         member' \in [Item -> List \cup {Null}],
         Elems(r) = {i \in Item : member'[i] = l},
         \A x \in S : member[x] \in {l, Null},
         \A x \in Item : member'[x] = member[x] \/ {member[x], member'[x]} \subseteq {l, Null}
  PROVE  /\ ListsInv'
         /\ Visited[l] = s
         /\ Visited' = [Visited EXCEPT ![l] = r]
<1>1. ASSUME NEW m \in List \ {l}
      PROVE  \E q \in Seq(Item) : /\ Links(heap, m, q) /\ Links(heap', m, q)
                                      /\ Elems(q) = {i \in Item : member'[i] = m}
  <2>1. PICK q \in Seq(Item) : Links(heap, m, q) /\ Elems(q) = {i \in Item : member[i] = m}
    BY DEF ListsInv
  <2>2. Elems(q) \cap S = {}
    BY <2>1
  <2>3. Links(heap', m, q)
    BY <2>1, <2>2, OtherList
  <2>4. {i \in Item : member[i] = m} = {i \in Item : member'[i] = m}
    OBVIOUS
  <2>5. QED BY <2>1, <2>3, <2>4
<1>2. heap' \in Heap /\ ~heap'.crash
  BY DEF Relinks
<1>3. r \in Seq(Item)
  BY DEF Links
<1>4. ListsTypeOK'
  BY <1>2 DEF ListsTypeOK
<1>5. \A m \in List : \E q \in Seq(Item) :
        Links(heap', m, q) /\ Elems(q) = {i \in Item : member'[i] = m}
  BY <1>1, <1>3
<1>6. ListsInv'
  <2>1. \A m \in List : \E q \in Seq(Item) :
          Links(heap, m, q)' /\ Elems(q) = {i \in Item : member'[i] = m}
    BY <1>5 DEF Links
  <2>2. QED BY <1>2, <1>4, <2>1 DEF ListsInv
<1>7. Visited[l] = s
  BY VisitedList
<1>8. \A m \in List : Visited'[m] = IF m = l THEN r ELSE Visited[m]
  <2>1. \A m \in List : Visited'[m] = Walk(heap'.head[m], heap'.next)
    BY DEF Visited
  <2>2. Walk(heap'.head[l], heap'.next) = r
    BY WalkBothWays
  <2>3. ASSUME NEW m \in List \ {l} PROVE Visited'[m] = Visited[m]
    <3>1. PICK q \in Seq(Item) : Links(heap, m, q) /\ Links(heap', m, q)
      BY <1>1
    <3>2. Walk(heap'.head[m], heap'.next) = q
      BY <3>1, WalkBothWays
    <3>3. Visited[m] = q
      BY <3>1, VisitedList
    <3>4. QED BY <2>1, <3>2, <3>3
  <2>4. QED BY <2>1, <2>2, <2>3
<1>9. Visited' = [Visited EXCEPT ![l] = r]
  <2>1. Visited = [m \in List |-> Visited[m]] /\ Visited' = [m \in List |-> Visited'[m]]
    BY DEF Visited
  <2>2. QED BY <1>8, <2>1
<1>10. QED BY <1>6, <1>7, <1>9

\* The operators of the abstract lists are those of KernelList.
LEMMA SameOperators ==
  ASSUME NEW s, NEW x
  PROVE  /\ Abstract!Elems(s) = Elems(s)
         /\ Abstract!InsertTail(s, x) = InsertTail(s, x)
         /\ Abstract!InsertHead(s, x) = InsertHead(s, x)
         /\ Abstract!Remove(s, x) = Remove(s, x)
         /\ Abstract!ToTail(s, x) = ToTail(s, x)
         /\ Abstract!HeadToTail(s) = HeadToTail(s)
<1>1. Abstract!Elems(s) = Elems(s)
  BY DEF Abstract!Elems, Elems
<1>2. Abstract!IndexOf(s, x) = IndexOf(s, x)
  BY DEF Abstract!IndexOf, IndexOf
<1>3. \A y : Abstract!InsertTail(y, x) = InsertTail(y, x)
  BY DEF Abstract!InsertTail, InsertTail
<1>4. Abstract!InsertHead(s, x) = InsertHead(s, x)
  BY DEF Abstract!InsertHead, InsertHead
<1>5. Abstract!Remove(s, x) = Remove(s, x)
  BY <1>1, <1>2, Zenon DEF Abstract!Remove, Remove
<1>6. Abstract!ToTail(s, x) = ToTail(s, x)
  BY <1>3, <1>5, Zenon DEF Abstract!ToTail, ToTail
<1>7. Abstract!HeadToTail(s) = HeadToTail(s)
  BY DEF Abstract!HeadToTail, HeadToTail, Abstract!InsertTail, InsertTail
<1>8. QED BY <1>1, <1>3, <1>4, <1>5, <1>6, <1>7

\* An item that was not inserted is in no list.
LEMMA NotLinked ==
  ASSUME ListsInv, NEW i \in Item, member[i] = Null
  PROVE  i \notin Abstract!Linked
<1>1. SUFFICES ASSUME NEW l \in List, i \in Elems(Visited[l]) PROVE FALSE
  <2>1. \A l \in List : Abstract!Elems(Visited[l]) = Elems(Visited[l])
    BY SameOperators
  <2>2. Abstract!Linked = UNION {Abstract!Elems(Visited[l]) : l \in List}
    BY Zenon DEF Abstract!Linked, Visited
  <2>3. QED BY <2>1, <2>2
<1>2. PICK s \in Seq(Item) : Links(heap, l, s) /\ Elems(s) = {x \in Item : member[x] = l}
  BY DEF ListsInv
<1>3. Visited[l] = s
  BY <1>2, VisitedList
<1>4. QED BY <1>1, <1>2, <1>3

\* What an insertion is for the abstract lists.
LEMMA AbstractInsert ==
  ASSUME ListsInv, NEW l \in List, NEW i \in Item, member[i] = Null,
         NEW r, Visited' = [Visited EXCEPT ![l] = r],
         r = InsertTail(Visited[l], i) \/ r = InsertHead(Visited[l], i)
  PROVE  Abstract!Next
<1>1. i \notin Abstract!Linked
  BY NotLinked
<1>2. \/ Visited' = [Visited EXCEPT ![l] = Abstract!InsertTail(@, i)]
      \/ Visited' = [Visited EXCEPT ![l] = Abstract!InsertHead(@, i)]
  BY SameOperators DEF Visited
<1>3. Abstract!Insert(l, i)
  BY <1>1, <1>2, Zenon DEF Abstract!Insert, Visited
<1>4. QED BY <1>3 DEF Abstract!Next

\* What an operation on an item of a list is for the abstract lists.
LEMMA AbstractReorder ==
  ASSUME NEW l \in List, NEW i \in Item, i \in Elems(Visited[l]),
         NEW r, Visited' = [Visited EXCEPT ![l] = r],
         \/ r = Remove(Visited[l], i)
         \/ r = ToTail(Visited[l], i)
         \/ r = HeadToTail(Visited[l])
  PROVE  Abstract!Next
<1>1. i \in Abstract!Elems(Visited[l])
  BY SameOperators
<1>2. \/ Visited' = [Visited EXCEPT ![l] = Abstract!Remove(@, i)]
      \/ Visited' = [Visited EXCEPT ![l] = Abstract!ToTail(@, i)]
      \/ Visited' = [Visited EXCEPT ![l] = Abstract!HeadToTail(@)]
  BY SameOperators DEF Visited
<1>3. Abstract!Reorder(l, i)
  BY <1>1, <1>2, Zenon DEF Abstract!Reorder, Visited
<1>4. QED BY <1>3 DEF Abstract!Next

\* insert_tail of an unlinked item implements the insertion at the end of a sequence.
LEMMA InsertTailImplements ==
  ASSUME ListsInv, NEW l \in List, NEW i \in Item, InsertTailStep(l, i)
  PROVE  ListsInv' /\ Abstract!Next
<1>1. /\ member[i] = Null /\ heap' = InsertTailPtr(heap, l, i)
      /\ member' = [member EXCEPT ![i] = l]
  BY DEF InsertTailStep
<1>2. /\ heap \in Heap /\ ~heap.crash
      /\ member \in [Item -> List \cup {Null}]
  BY DEF ListsInv, ListsTypeOK
<1>3. PICK s \in Seq(Item) : Links(heap, l, s) /\ Elems(s) = {x \in Item : member[x] = l}
  BY DEF ListsInv
<1>4. i \notin Elems(s) /\ Elems(s) \subseteq Item
  BY <1>1, <1>3
<1>5. Links(heap', l, InsertTail(s, i)) /\ Relinks(heap, heap', l, Elems(s) \cup {i})
  BY <1>1, <1>2, <1>3, <1>4, InsertTailLinks
<1>6. Elems(InsertTail(s, i)) = Elems(s) \cup {i}
  BY InsertTailProps
<1>7. /\ member' \in [Item -> List \cup {Null}]
      /\ \A x \in Item : member'[x] = IF x = i THEN l ELSE member[x]
  BY <1>1, <1>2
<1>8. /\ Elems(InsertTail(s, i)) = {x \in Item : member'[x] = l}
      /\ \A x \in Elems(s) \cup {i} : member[x] \in {l, Null}
      /\ \A x \in Item : member'[x] = member[x] \/ {member[x], member'[x]} \subseteq {l, Null}
  BY <1>1, <1>3, <1>6, <1>7
<1>9. /\ ListsInv' /\ Visited[l] = s
      /\ Visited' = [Visited EXCEPT ![l] = InsertTail(s, i)]
  <2> DEFINE S == Elems(s) \cup {i}
             r == InsertTail(s, i)
  <2>1. S \in SUBSET Item
    BY <1>4
  <2>2. Links(heap', l, r) /\ Relinks(heap, heap', l, S)
    BY <1>5
  <2>3. /\ Elems(r) = {x \in Item : member'[x] = l}
        /\ \A x \in S : member[x] \in {l, Null}
    BY <1>8
  <2> HIDE DEF S, r
  <2>4. ListsInv' /\ Visited[l] = s /\ Visited' = [Visited EXCEPT ![l] = r]
    BY <1>3, <1>7, <1>8, <2>1, <2>2, <2>3, ListStep
  <2>5. QED BY <2>4 DEF r
<1>10. Abstract!Next
  BY <1>1, <1>9, AbstractInsert
<1>11. QED BY <1>9, <1>10

\* insert_head of an unlinked item implements the insertion at the front of a sequence.
LEMMA InsertHeadImplements ==
  ASSUME ListsInv, NEW l \in List, NEW i \in Item, InsertHeadStep(l, i)
  PROVE  ListsInv' /\ Abstract!Next
<1>1. /\ member[i] = Null /\ heap' = InsertHeadPtr(heap, l, i)
      /\ member' = [member EXCEPT ![i] = l]
  BY DEF InsertHeadStep
<1>2. /\ heap \in Heap /\ ~heap.crash
      /\ member \in [Item -> List \cup {Null}]
  BY DEF ListsInv, ListsTypeOK
<1>3. PICK s \in Seq(Item) : Links(heap, l, s) /\ Elems(s) = {x \in Item : member[x] = l}
  BY DEF ListsInv
<1>4. i \notin Elems(s) /\ Elems(s) \subseteq Item
  BY <1>1, <1>3
<1>5. Links(heap', l, InsertHead(s, i)) /\ Relinks(heap, heap', l, Elems(s) \cup {i})
  BY <1>1, <1>2, <1>3, <1>4, InsertHeadLinks
<1>6. Elems(InsertHead(s, i)) = Elems(s) \cup {i}
  BY InsertHeadProps
<1>7. /\ member' \in [Item -> List \cup {Null}]
      /\ \A x \in Item : member'[x] = IF x = i THEN l ELSE member[x]
  BY <1>1, <1>2
<1>8. /\ Elems(InsertHead(s, i)) = {x \in Item : member'[x] = l}
      /\ \A x \in Elems(s) \cup {i} : member[x] \in {l, Null}
      /\ \A x \in Item : member'[x] = member[x] \/ {member[x], member'[x]} \subseteq {l, Null}
  BY <1>1, <1>3, <1>6, <1>7
<1>9. /\ ListsInv' /\ Visited[l] = s
      /\ Visited' = [Visited EXCEPT ![l] = InsertHead(s, i)]
  <2> DEFINE S == Elems(s) \cup {i}
             r == InsertHead(s, i)
  <2>1. S \in SUBSET Item
    BY <1>4
  <2>2. Links(heap', l, r) /\ Relinks(heap, heap', l, S)
    BY <1>5
  <2>3. /\ Elems(r) = {x \in Item : member'[x] = l}
        /\ \A x \in S : member[x] \in {l, Null}
    BY <1>8
  <2> HIDE DEF S, r
  <2>4. ListsInv' /\ Visited[l] = s /\ Visited' = [Visited EXCEPT ![l] = r]
    BY <1>3, <1>7, <1>8, <2>1, <2>2, <2>3, ListStep
  <2>5. QED BY <2>4 DEF r
<1>10. Abstract!Next
  BY <1>1, <1>9, AbstractInsert
<1>11. QED BY <1>9, <1>10

\* remove implements the removal from a sequence.
LEMMA RemoveImplements ==
  ASSUME ListsInv, NEW l \in List, NEW i \in Item, RemoveStep(l, i)
  PROVE  ListsInv' /\ Abstract!Next
<1>1. /\ member[i] = l /\ heap' = RemovePtr(heap, l, i)
      /\ member' = [member EXCEPT ![i] = Null]
  BY DEF RemoveStep
<1>2. /\ heap \in Heap /\ ~heap.crash
      /\ member \in [Item -> List \cup {Null}]
  BY DEF ListsInv, ListsTypeOK
<1>3. PICK s \in Seq(Item) : Links(heap, l, s) /\ Elems(s) = {x \in Item : member[x] = l}
  BY DEF ListsInv
<1>4. PICK p \in 1 .. Len(s) : s[p] = i
  BY <1>1, <1>3 DEF Elems
<1> DEFINE r == Remove(s, i)
           S == Elems(s)
<1>5. Links(heap', l, r) /\ Relinks(heap, heap', l, S)
  BY <1>1, <1>2, <1>3, <1>4, RemoveLinks
<1>6. i \in Elems(s) /\ Elems(r) = Elems(s) \ {i}
  <2>1. i \in Elems(s) /\ Distinct(s)
    BY <1>1, <1>3 DEF Links
  <2>2. QED BY <2>1, RemoveProps
<1>7. /\ member' \in [Item -> List \cup {Null}]
      /\ \A x \in Item : member'[x] = IF x = i THEN Null ELSE member[x]
  BY <1>1, <1>2
<1>8. /\ S \in SUBSET Item
      /\ Elems(r) = {x \in Item : member'[x] = l}
      /\ \A x \in S : member[x] \in {l, Null}
      /\ \A x \in Item : member'[x] = member[x] \/ {member[x], member'[x]} \subseteq {l, Null}
  <2> HIDE DEF r
  <2>1. QED BY <1>1, <1>3, <1>6, <1>7
<1> HIDE DEF r, S
<1>9. ListsInv' /\ Visited[l] = s /\ Visited' = [Visited EXCEPT ![l] = r]
  BY <1>3, <1>5, <1>7, <1>8, ListStep
<1>10. Abstract!Next
  BY <1>6, <1>9, AbstractReorder DEF r
<1>11. QED BY <1>9, <1>10

\* to_tail implements the move of an item to the end of a sequence.
LEMMA ToTailImplements ==
  ASSUME ListsInv, NEW l \in List, NEW i \in Item, ToTailStep(l, i)
  PROVE  ListsInv' /\ Abstract!Next
<1>1. /\ member[i] = l /\ heap' = ToTailPtr(heap, l, i)
      /\ member' = member
  BY DEF ToTailStep
<1>2. /\ heap \in Heap /\ ~heap.crash
      /\ member \in [Item -> List \cup {Null}]
  BY DEF ListsInv, ListsTypeOK
<1>3. PICK s \in Seq(Item) : Links(heap, l, s) /\ Elems(s) = {x \in Item : member[x] = l}
  BY DEF ListsInv
<1>4. PICK p \in 1 .. Len(s) : s[p] = i
  BY <1>1, <1>3 DEF Elems
<1> DEFINE r == ToTail(s, i)
           S == Elems(s)
<1>5. Links(heap', l, r) /\ Relinks(heap, heap', l, S)
  BY <1>1, <1>2, <1>3, <1>4, ToTailLinks
<1>6. i \in Elems(s) /\ Elems(r) = Elems(s)
  <2>1. i \in Elems(s) /\ Distinct(s)
    BY <1>1, <1>3 DEF Links
  <2>2. QED BY <2>1, ToTailProps
<1>7. /\ member' \in [Item -> List \cup {Null}]
      /\ \A x \in Item : member'[x] = member[x]
  BY <1>1, <1>2
<1>8. /\ S \in SUBSET Item
      /\ Elems(r) = {x \in Item : member'[x] = l}
      /\ \A x \in S : member[x] \in {l, Null}
      /\ \A x \in Item : member'[x] = member[x] \/ {member[x], member'[x]} \subseteq {l, Null}
  <2> HIDE DEF r
  <2>1. QED BY <1>1, <1>3, <1>6, <1>7
<1> HIDE DEF r, S
<1>9. ListsInv' /\ Visited[l] = s /\ Visited' = [Visited EXCEPT ![l] = r]
  BY <1>3, <1>5, <1>7, <1>8, ListStep
<1>10. Abstract!Next
  BY <1>6, <1>9, AbstractReorder DEF r
<1>11. QED BY <1>9, <1>10

\* head_to_tail implements the rotation of a sequence, and does nothing to an empty list.
LEMMA HeadToTailImplements ==
  ASSUME ListsInv, NEW l \in List, HeadToTailStep(l)
  PROVE  ListsInv' /\ (Abstract!Next \/ Visited' = Visited)
<1>1. heap' = HeadToTailPtr(heap, l) /\ member' = member
  BY DEF HeadToTailStep
<1>2. /\ heap \in Heap /\ ~heap.crash
      /\ member \in [Item -> List \cup {Null}]
  BY DEF ListsInv, ListsTypeOK
<1>3. PICK s \in Seq(Item) : Links(heap, l, s) /\ Elems(s) = {x \in Item : member[x] = l}
  BY DEF ListsInv
<1> DEFINE r == HeadToTail(s)
           S == Elems(s)
<1>4. Links(heap', l, r) /\ Relinks(heap, heap', l, S)
  BY <1>1, <1>2, <1>3, HeadToTailLinks
<1>5. Elems(r) = Elems(s)
  <2>1. Distinct(s)
    BY <1>3 DEF Links
  <2>2. QED BY <2>1, HeadToTailProps
<1>6. /\ S \in SUBSET Item
      /\ Elems(r) = {x \in Item : member'[x] = l}
      /\ \A x \in S : member[x] \in {l, Null}
      /\ \A x \in Item : member'[x] = member[x]
      /\ member' \in [Item -> List \cup {Null}]
  <2> HIDE DEF r
  <2>1. QED BY <1>1, <1>2, <1>3, <1>5
<1> HIDE DEF r, S
<1>7. ListsInv' /\ Visited[l] = s /\ Visited' = [Visited EXCEPT ![l] = r]
  BY <1>3, <1>4, <1>6, ListStep
<1>8. CASE s = <<>>
  <2>1. r = s
    BY <1>8 DEF r, HeadToTail
  <2>2. Visited' = Visited
    BY <1>7, <2>1 DEF Visited
  <2>3. QED BY <1>7, <2>2
<1>9. CASE s # <<>>
  <2>1. Head(s) \in Elems(s) /\ Head(s) \in Item
    BY <1>9, HeadElem
  <2>2. Abstract!Next
    BY <1>7, <2>1, AbstractReorder DEF r
  <2>3. QED BY <1>7, <2>2
<1>10. QED BY <1>8, <1>9

---------------------------------------------------------------------------
\* The lists that the constructors leave behind are empty.
LEMMA ListsInit ==
  ASSUME InitLists
  PROVE  ListsInv /\ Abstract!Init
<1>1. /\ heap.head = [l \in List |-> Null] /\ heap.tail = [l \in List |-> Null]
      /\ heap \in Heap /\ ~heap.crash
  BY DEF InitLists, Heap, Pointer
<1>2. member = [i \in Item |-> Null]
  BY DEF InitLists
<1>3. \A l \in List : Links(heap, l, <<>>) /\ Elems(<<>>) = {i \in Item : member[i] = l}
  <2>1. TAKE l \in List
  <2>2. Links(heap, l, <<>>)
    BY <1>1, EmptyElems DEF Links, ItemAt
  <2>3. QED BY <1>2, <2>2, EmptyElems
<1>4. ListsInv
  <2>1. ListsTypeOK /\ ~heap.crash
    BY <1>1, <1>2 DEF ListsTypeOK
  <2>2. <<>> \in Seq(Item)
    OBVIOUS
  <2>3. QED BY <1>3, <2>1, <2>2, Zenon DEF ListsInv
<1>5. \A l \in List : Visited[l] = <<>>
  BY <1>3, VisitedList
<1>6. Visited = [l \in List |-> <<>>]
  <2>1. Visited = [l \in List |-> Visited[l]]
    BY DEF Visited
  <2>2. QED BY <1>5, <2>1
<1>7. QED BY <1>4, <1>6, Zenon DEF Abstract!Init, Visited

\* Every operation keeps the invariant and implements an abstract one or nothing.
LEMMA ListsStep ==
  ASSUME ListsInv,
         [NextLists]_listsVars
  PROVE  ListsInv' /\ (Abstract!Next \/ Visited' = Visited)
<1>1. CASE NextLists
  <2>1. PICK l \in List :
          \/ \E i \in Item :
               \/ InsertTailStep(l, i)
               \/ InsertHeadStep(l, i)
               \/ RemoveStep(l, i)
               \/ ToTailStep(l, i)
          \/ HeadToTailStep(l)
    BY <1>1 DEF NextLists
  <2>2. CASE HeadToTailStep(l)
    BY <2>2, HeadToTailImplements
  <2>3. ASSUME NEW i \in Item, InsertTailStep(l, i)
        PROVE  ListsInv' /\ Abstract!Next
    BY <2>3, InsertTailImplements
  <2>4. ASSUME NEW i \in Item, InsertHeadStep(l, i)
        PROVE  ListsInv' /\ Abstract!Next
    BY <2>4, InsertHeadImplements
  <2>5. ASSUME NEW i \in Item, RemoveStep(l, i)
        PROVE  ListsInv' /\ Abstract!Next
    BY <2>5, RemoveImplements
  <2>6. ASSUME NEW i \in Item, ToTailStep(l, i)
        PROVE  ListsInv' /\ Abstract!Next
    BY <2>6, ToTailImplements
  <2>7. QED BY <2>1, <2>2, <2>3, <2>4, <2>5, <2>6
<1>2. CASE UNCHANGED listsVars
  <2>1. heap' = heap /\ member' = member
    BY <1>2 DEF listsVars
  <2>2. ListsInv'
    BY <2>1 DEF ListsInv, ListsTypeOK, Links
  <2>3. Visited' = Visited
    BY <2>1 DEF Visited
  <2>4. QED BY <2>2, <2>3
<1>3. QED BY <1>1, <1>2

\* The operations of the lists keep the invariant.
LEMMA ListsInvAlways ==
  SpecLists => []ListsInv
<1>1. InitLists => ListsInv
  BY ListsInit
<1>2. ListsInv /\ [NextLists]_listsVars => ListsInv'
  BY ListsStep
<1>3. QED BY <1>1, <1>2, PTL DEF SpecLists

\* Every list reads the same in both directions and no operation follows a null pointer, for
\* any number of items and lists: remove finds the neighbours of an item, however often it has
\* moved between the lists and whatever links it kept.
THEOREM ListsMirrored ==
  SpecLists => [](LinksMirrored)
<1>1. ListsInv => LinksMirrored
  <2>1. SUFFICES ASSUME ListsInv, NEW l \in List
                 PROVE  LET f == Walk(heap.head[l], heap.next)
                            b == Walk(heap.tail[l], heap.prev)
                        IN  Len(f) = Len(b) /\ \A n \in 1 .. Len(f) : f[n] = b[Len(f) + 1 - n]
    BY DEF ListsInv, LinksMirrored
  <2>2. PICK s \in Seq(Item) : Links(heap, l, s)
    BY <2>1 DEF ListsInv
  <2> DEFINE b == [k \in 1 .. Len(s) |-> s[Len(s) + 1 - k]]
  <2>3. Walk(heap.head[l], heap.next) = s /\ Walk(heap.tail[l], heap.prev) = b
    BY <2>2, WalkBothWays
  <2>4. Len(s) = Len(b)
    OBVIOUS
  <2>5. \A n \in 1 .. Len(s) : s[n] = b[Len(s) + 1 - n]
    OBVIOUS
  <2> HIDE DEF b
  <2>6. QED BY <2>3, <2>4, <2>5
<1>2. QED BY <1>1, ListsInvAlways, PTL

\* The pointer manipulation of Double_list implements the operations on sequences that the
\* models of the scheduler and their proofs use.
THEOREM DoubleListImplementsLists ==
  SpecLists => ImplementsLists
<1>1. InitLists => Abstract!Init
  BY ListsInit
<1>2. ListsInv /\ [NextLists]_listsVars
        => [Abstract!Next]_[l \in List |-> Walk(heap.head[l], heap.next)]
  <2>1. SUFFICES ASSUME ListsInv, [NextLists]_listsVars
                 PROVE  Abstract!Next \/ Visited' = Visited
    BY DEF Visited
  <2>2. QED BY <2>1, ListsStep
<1>3. QED BY <1>1, <1>2, ListsInvAlways, PTL DEF SpecLists, ImplementsLists, Abstract!Spec

===========================================================================
