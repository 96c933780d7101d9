--------------------------- MODULE ThreadIpcProofs ---------------------------
(***************************************************************************)
(* What IPC, helping and thread states keep true, for any number of        *)
(* threads and CPUs and any calls, pauses and replies that fail to come.   *)
(*                                                                         *)
(* A kernel call is a composition of functions of the kernel state, so the *)
(* invariant is stated of a kernel state.  Which shares a handler          *)
(* activates is a closure over chains of helpers.  The invariant avoids    *)
(* chains: the share of a helper is as ready as the share of its callee,   *)
(* any other share is ready if its thread can run (ShareFits).  A lemma    *)
(* about closures connects the two.                                        *)
(*                                                                         *)
(* The books of callers and callees agree whatever happens (BooksOK).      *)
(* What is said of shares, states and assertions holds until a misuse;     *)
(* such a part of the invariant begins with ~k.misused.                    *)
(***************************************************************************)
EXTENDS ThreadIpc, KernelListProofs, FiniteSetTheorems, NaturalsInduction, WellFoundedInduction

---------------------------------------------------------------------------
(***************************************************************************)
(* Closures                                                                *)
(***************************************************************************)

\* What is reached from t by at most n edges of E
Reached(E, t, n) ==
  { u \in Thread : \E f \in [Nat -> Thread], m \in 0 .. n :
      f[0] = t /\ f[m] = u /\ \A i \in 0 .. m - 1 : <<f[i], f[i + 1]>> \in E }

\* What one edge of E leads to
Successors(E, S) == { v \in Thread : \E u \in S : <<u, v>> \in E }

\* A nonempty set of natural numbers has a least element.
LEMMA LeastNumber ==
  ASSUME NEW T \in SUBSET Nat, T # {}
  PROVE  \E n \in T : \A m \in T : n <= m
<1> DEFINE R == OpToRel(<, Nat)
<1>1. IsWellFoundedOn(R, Nat)
  BY NatLessThanWellFounded, Zenon
<1>2. \A m, n \in Nat : <<m, n>> \in R <=> m < n
  BY DEF OpToRel
<1> HIDE DEF R
<1>3. PICK n \in T : \A m \in T : ~(<<m, n>> \in R)
  BY <1>1, WFMin
<1>4. \A m \in T : ~(m < n)
  BY <1>2, <1>3
<1>5. QED BY <1>4

\* One edge more reaches the successors.
LEMMA ReachedStep ==
  ASSUME NEW E, NEW t \in Thread
  PROVE  /\ Reached(E, t, 0) = {t}
         /\ \A n \in Nat :
              Reached(E, t, n + 1) = Reached(E, t, n) \cup Successors(E, Reached(E, t, n))
<1>1. Reached(E, t, 0) = {t}
  <2> DEFINE f == [i \in Nat |-> t]
  <2>1. f \in [Nat -> Thread] /\ f[0] = t /\ \A i \in 0 .. 0 - 1 : <<f[i], f[i + 1]>> \in E
    OBVIOUS
  <2> HIDE DEF f
  <2>2. t \in Reached(E, t, 0)
    BY <2>1 DEF Reached
  <2>3. \A u \in Reached(E, t, 0) : u = t
    BY DEF Reached
  <2>4. QED BY <2>2, <2>3
<1>2. ASSUME NEW n \in Nat, NEW v \in Reached(E, t, n + 1)
      PROVE  v \in Reached(E, t, n) \/ (v \in Thread /\ \E u \in Reached(E, t, n) : <<u, v>> \in E)
  <2>1. v \in Thread
    BY DEF Reached
  <2>2. PICK f \in [Nat -> Thread], m \in 0 .. n + 1 :
          f[0] = t /\ f[m] = v /\ \A i \in 0 .. m - 1 : <<f[i], f[i + 1]>> \in E
    BY DEF Reached
  <2>3. CASE m <= n
    BY <2>1, <2>2, <2>3 DEF Reached
  <2>4. CASE m = n + 1
    <3>1. n \in 0 .. n /\ n \in 0 .. m - 1 /\ n + 1 = m /\ f[n] \in Thread
          /\ \A i \in 0 .. n - 1 : i \in 0 .. m - 1
      BY <2>4
    <3>2. f[n] \in Reached(E, t, n)
      BY <2>2, <3>1 DEF Reached
    <3>3. <<f[n], f[n + 1]>> \in E /\ f[n + 1] = f[m]
      BY <2>2, <3>1
    <3>4. <<f[n], v>> \in E
      BY <2>2, <3>3
    <3>5. QED BY <2>1, <3>2, <3>4
  <2>5. m <= n \/ m = n + 1
    OBVIOUS
  <2>6. QED BY <2>3, <2>4, <2>5, Zenon
<1>3. ASSUME NEW n \in Nat, NEW v \in Reached(E, t, n) PROVE v \in Reached(E, t, n + 1)
  BY DEF Reached
<1>4. ASSUME NEW n \in Nat, NEW v \in Thread, NEW u \in Reached(E, t, n), <<u, v>> \in E
      PROVE  v \in Reached(E, t, n + 1)
  <2>1. PICK f \in [Nat -> Thread], m \in 0 .. n :
          f[0] = t /\ f[m] = u /\ \A i \in 0 .. m - 1 : <<f[i], f[i + 1]>> \in E
    BY DEF Reached
  <2> DEFINE g == [i \in Nat |-> IF i <= m THEN f[i] ELSE v]
  <2>2. g \in [Nat -> Thread] /\ \A i \in Nat : g[i] = IF i <= m THEN f[i] ELSE v
    OBVIOUS
  <2> HIDE DEF g
  <2>3. m + 1 \in 0 .. n + 1 /\ g[0] = t /\ g[m + 1] = v
    BY <2>1, <2>2
  <2>4. ASSUME NEW i \in 0 .. (m + 1) - 1 PROVE <<g[i], g[i + 1]>> \in E
    <3>1. CASE i = m
      BY <1>4, <2>1, <2>2, <3>1
    <3>2. CASE i # m
      <4>1. i \in 0 .. m - 1 /\ i <= m /\ i + 1 <= m /\ i + 1 \in Nat
        BY <3>2
      <4>2. QED BY <2>1, <2>2, <4>1
    <3>3. QED BY <3>1, <3>2
  <2>5. QED BY <2>2, <2>3, <2>4 DEF Reached
<1>5. QED BY <1>1, <1>2, <1>3, <1>4 DEF Successors

\* What is closed under the edges and has t has all that is reached.
LEMMA ReachedLeast ==
  ASSUME NEW E, NEW t \in Thread, NEW P, t \in P,
         \A u \in P, v \in Thread : <<u, v>> \in E => v \in P
  PROVE  \A n \in Nat : Reached(E, t, n) \subseteq P
<1> DEFINE T == {n \in Nat : ~(Reached(E, t, n) \subseteq P)}
<1>1. SUFFICES ASSUME T # {} PROVE FALSE
  OBVIOUS
<1>2. PICK n \in T : \A m \in T : n <= m
  BY <1>1, LeastNumber
<1>3. n # 0
  BY <1>2, ReachedStep
<1>4. PICK m \in Nat : n = m + 1
  BY <1>2, <1>3
<1>5. Reached(E, t, m) \subseteq P
  BY <1>2, <1>4
<1>6. ASSUME NEW v \in Reached(E, t, n) PROVE v \in P
  <2>1. Reached(E, t, m + 1) = Reached(E, t, m) \cup Successors(E, Reached(E, t, m))
    BY ReachedStep
  <2>2. v \in Reached(E, t, m) \/ (v \in Thread /\ \E u \in Reached(E, t, m) : <<u, v>> \in E)
    BY <1>4, <2>1 DEF Successors
  <2>3. QED BY <1>5, <2>2
<1>7. QED BY <1>2, <1>6

\* As many edges as there are threads reach everything.
LEMMA ReachedClosed ==
  ASSUME NEW E, NEW t \in Thread, NEW u \in Reached(E, t, Cardinality(Thread)),
         NEW v \in Thread, <<u, v>> \in E
  PROVE  v \in Reached(E, t, Cardinality(Thread))
<1> DEFINE N == Cardinality(Thread)
           S(n) == Reached(E, t, n)
           T == {n \in Nat : S(n + 1) = S(n) \/ n > N}
<1>1. IsFiniteSet(Thread) /\ N \in Nat
  BY ThreadAssumption, FS_CardinalityType
<1>2. \A n \in Nat : S(n + 1) = S(n) \cup Successors(E, S(n))
  BY ReachedStep
<1>3. S(0) = {t}
  BY ReachedStep
<1>4. \A n \in Nat : S(n) \subseteq Thread
  BY DEF Reached
<1>5. \A n \in Nat : IsFiniteSet(S(n)) /\ Cardinality(S(n)) \in Nat /\ Cardinality(S(n)) <= N
  BY <1>1, <1>4, FS_Subset, FS_CardinalityType
<1>6. T # {}
  BY <1>1
<1>7. PICK n \in T : \A m \in T : n <= m
  BY <1>6, LeastNumber
<1> HIDE DEF S
<1>8. \A m \in 0 .. n : Cardinality(S(m)) >= m + 1
  <2> DEFINE W == {m \in Nat : m <= n /\ ~(Cardinality(S(m)) >= m + 1)}
  <2>1. SUFFICES ASSUME W # {} PROVE FALSE
    BY <1>5
  <2>2. PICK m \in W : \A k \in W : m <= k
    BY <2>1, LeastNumber
  <2>3. Cardinality(S(0)) = 1
    BY <1>3, FS_Singleton
  <2>4. PICK k \in Nat : m = k + 1
    BY <2>2, <2>3
  <2>5. Cardinality(S(k)) >= k + 1 /\ k \notin T
    BY <1>7, <2>2, <2>4
  <2>6. S(k) \subseteq S(m) /\ S(k) # S(m)
    BY <1>2, <2>4, <2>5
  <2>7. Cardinality(S(k)) < Cardinality(S(m))
    BY <1>5, <2>4, <2>6, FS_Subset
  <2>8. QED BY <1>5, <2>2, <2>4, <2>5, <2>7
<1>9. n <= N /\ S(n + 1) = S(n) /\ n \in Nat
  <2>1. n \in Nat /\ Cardinality(S(n)) >= n + 1
    BY <1>7, <1>8
  <2>2. n <= N
    BY <1>1, <1>5, <2>1
  <2>3. QED BY <1>1, <1>7, <2>1, <2>2
<1>10. \A m \in Nat : m >= n => S(m) = S(n)
  <2> DEFINE W == {m \in Nat : m >= n /\ S(m) # S(n)}
  <2>1. SUFFICES ASSUME W # {} PROVE FALSE
    OBVIOUS
  <2>2. PICK m \in W : \A k \in W : m <= k
    BY <2>1, LeastNumber
  <2>3. PICK k \in Nat : m = k + 1
    BY <1>9, <2>2
  <2>4. k >= n /\ S(k) = S(n)
    BY <1>9, <2>2, <2>3
  <2>5. S(m) = S(n)
    BY <1>2, <1>9, <2>3, <2>4
  <2>6. QED BY <2>2, <2>5
<1>11. u \in S(N)
  BY DEF S
<1>12. v \in S(N + 1)
  BY <1>1, <1>2, <1>11 DEF Successors
<1>13. S(N + 1) = S(N)
  BY <1>1, <1>9, <1>10
<1>14. v \in S(N)
  BY <1>12, <1>13
<1>15. QED BY <1>14 DEF S

\* The edges along which shares are used, from a thread to its helpers, and along which help
\* is given, from a helper to its callee
UseEdges(k) == { e \in Thread \X Thread : e[2] \in Helpers(k, e[1]) }
HelpEdges(k) == { e \in Thread \X Thread : HelpsOutbufDst(k, e[1]) /\ k.th[e[1]].callee = e[2] }

\* for_each_helper, applied over and over, comes by what is reached by UseEdges.
LEMMA UsedSharesReached ==
  ASSUME NEW k, NEW t \in Thread
  PROVE  UsedShares(k, t) = Reached(UseEdges(k), t, Cardinality(Thread))
<1> DEFINE N == Cardinality(Thread)
           h == [n \in 0 .. N |-> Reached(UseEdges(k), t, n)]
           step(w) == [n \in 0 .. N |->
                         IF n = 0 THEN {t}
                         ELSE w[n - 1] \cup UNION { Helpers(k, u) : u \in w[n - 1] }]
           w0 == CHOOSE w : w = step(w)
<1>1. N \in Nat
  BY ThreadAssumption, FS_CardinalityType
<1>2. \A n \in 0 .. N : h[n] = Reached(UseEdges(k), t, n) /\ h[n] \subseteq Thread
  BY DEF Reached
<1>3. \A u \in Thread : Helpers(k, u) \subseteq Thread /\
        \A v \in Thread : v \in Helpers(k, u) <=> <<u, v>> \in UseEdges(k)
  BY DEF Helpers, UseEdges
<1>4. ASSUME NEW n \in 0 .. N
      PROVE  h[n] = IF n = 0 THEN {t} ELSE h[n - 1] \cup UNION { Helpers(k, u) : u \in h[n - 1] }
  <2>1. CASE n = 0
    BY <1>2, <2>1, ReachedStep
  <2>2. CASE n # 0
    <3>1. PICK m \in Nat : n = m + 1 /\ m \in 0 .. N /\ n - 1 = m
      BY <1>1, <2>2
    <3>a. Reached(UseEdges(k), t, m + 1) =
            Reached(UseEdges(k), t, m) \cup Successors(UseEdges(k), Reached(UseEdges(k), t, m))
      BY ReachedStep
    <3>b. h[m] = Reached(UseEdges(k), t, m) /\ h[n] = Reached(UseEdges(k), t, m + 1)
          /\ h[m] \subseteq Thread
      BY <1>2, <3>1
    <3> HIDE DEF h
    <3>2. h[n] = h[m] \cup Successors(UseEdges(k), h[m])
      BY <3>a, <3>b
    <3>3. Successors(UseEdges(k), h[m]) = UNION { Helpers(k, u) : u \in h[m] }
      BY <1>3, <3>b DEF Successors
    <3>4. QED BY <2>2, <3>1, <3>2, <3>3
  <2>3. QED BY <2>1, <2>2
<1>5. h = step(h)
  <2>1. h = [n \in 0 .. N |-> h[n]]
    OBVIOUS
  <2> HIDE DEF h
  <2>2. QED BY <1>4, <2>1
<1>6. UsedShares(k, t) = w0[N]
  BY DEF UsedShares, Closure
<1> HIDE DEF h, step
<1>7. w0 = step(w0)
  BY <1>5, Zenon
<1> HIDE DEF w0
<1>8. \A n \in 0 .. N :
        w0[n] = IF n = 0 THEN {t} ELSE w0[n - 1] \cup UNION { Helpers(k, u) : u \in w0[n - 1] }
  BY <1>7 DEF step
<1>9. \A n \in 0 .. N : w0[n] = h[n]
  <2> DEFINE T == {n \in Nat : n <= N /\ w0[n] # h[n]}
  <2>1. SUFFICES ASSUME T # {} PROVE FALSE
    BY <1>1
  <2>2. PICK n \in T : \A m \in T : n <= m
    BY <2>1, LeastNumber
  <2>a. 0 \in 0 .. N
    BY <1>1
  <2>b. w0[0] = {t} /\ h[0] = {t}
    BY <1>4, <1>8, <2>a
  <2>3. n # 0
    BY <2>2, <2>b
  <2>4. n - 1 \in 0 .. N /\ n - 1 \in Nat /\ ~(n <= n - 1) /\ n \in 0 .. N
    BY <1>1, <2>2, <2>3
  <2>5. w0[n - 1] = h[n - 1]
    BY <2>2, <2>4
  <2>6. w0[n] = h[n]
    BY <1>4, <1>8, <2>3, <2>4, <2>5
  <2>7. QED BY <2>2, <2>6
<1>10. QED BY <1>1, <1>2, <1>6, <1>9

\* helping_sink follows HelpEdges to their end, if helpers have callees.
LEMMA HelpingSinkReached ==
  ASSUME NEW k, NEW t \in Thread,
         \A u \in Thread : HelpsOutbufDst(k, u) => k.th[u].callee \in Thread
  PROVE  HelpingSink(k, t) =
           { u \in Reached(HelpEdges(k), t, Cardinality(Thread)) : ~HelpsOutbufDst(k, u) }
<1> DEFINE N == Cardinality(Thread)
           Of(u) == IF HelpsOutbufDst(k, u) THEN {k.th[u].callee} ELSE {}
           h == [n \in 0 .. N |-> Reached(HelpEdges(k), t, n)]
           step(w) == [n \in 0 .. N |->
                         IF n = 0 THEN {t}
                         ELSE w[n - 1] \cup UNION { Of(u) : u \in w[n - 1] }]
           w0 == CHOOSE w : w = step(w)
<1>1. N \in Nat
  BY ThreadAssumption, FS_CardinalityType
<1>2. \A n \in 0 .. N : h[n] = Reached(HelpEdges(k), t, n) /\ h[n] \subseteq Thread
  BY DEF Reached
<1>3. \A u \in Thread : Of(u) \subseteq Thread /\
        \A v \in Thread : v \in Of(u) <=> <<u, v>> \in HelpEdges(k)
  BY DEF HelpEdges
<1>a. HelpingSink(k, t) = { u \in w0[N] : ~HelpsOutbufDst(k, u) }
  BY DEF HelpingSink, Closure
<1> HIDE DEF Of
<1>4. ASSUME NEW n \in 0 .. N
      PROVE  h[n] = IF n = 0 THEN {t} ELSE h[n - 1] \cup UNION { Of(u) : u \in h[n - 1] }
  <2>1. CASE n = 0
    BY <1>2, <2>1, ReachedStep
  <2>2. CASE n # 0
    <3>1. PICK m \in Nat : n = m + 1 /\ m \in 0 .. N /\ n - 1 = m
      BY <1>1, <2>2
    <3>a. Reached(HelpEdges(k), t, m + 1) =
            Reached(HelpEdges(k), t, m) \cup Successors(HelpEdges(k), Reached(HelpEdges(k), t, m))
      BY ReachedStep
    <3>b. h[m] = Reached(HelpEdges(k), t, m) /\ h[n] = Reached(HelpEdges(k), t, m + 1)
          /\ h[m] \subseteq Thread
      BY <1>2, <3>1
    <3> HIDE DEF h
    <3>2. h[n] = h[m] \cup Successors(HelpEdges(k), h[m])
      BY <3>a, <3>b
    <3>3. Successors(HelpEdges(k), h[m]) = UNION { Of(u) : u \in h[m] }
      BY <1>3, <3>b DEF Successors
    <3>4. QED BY <2>2, <3>1, <3>2, <3>3
  <2>3. QED BY <2>1, <2>2
<1>5. h = step(h)
  <2>1. h = [n \in 0 .. N |-> h[n]]
    OBVIOUS
  <2> HIDE DEF h
  <2>2. QED BY <1>4, <2>1
<1> HIDE DEF h, step
<1>7. w0 = step(w0)
  BY <1>5, Zenon
<1> HIDE DEF w0
<1>8. \A n \in 0 .. N :
        w0[n] = IF n = 0 THEN {t} ELSE w0[n - 1] \cup UNION { Of(u) : u \in w0[n - 1] }
  BY <1>7 DEF step
<1>9. \A n \in 0 .. N : w0[n] = h[n]
  <2> DEFINE T == {n \in Nat : n <= N /\ w0[n] # h[n]}
  <2>1. SUFFICES ASSUME T # {} PROVE FALSE
    BY <1>1
  <2>2. PICK n \in T : \A m \in T : n <= m
    BY <2>1, LeastNumber
  <2>a. 0 \in 0 .. N
    BY <1>1
  <2>b. w0[0] = {t} /\ h[0] = {t}
    BY <1>4, <1>8, <2>a
  <2>3. n # 0
    BY <2>2, <2>b
  <2>4. n - 1 \in 0 .. N /\ n - 1 \in Nat /\ ~(n <= n - 1) /\ n \in 0 .. N
    BY <1>1, <2>2, <2>3
  <2>5. w0[n - 1] = h[n - 1]
    BY <2>2, <2>4
  <2>6. w0[n] = h[n]
    BY <1>4, <1>8, <2>3, <2>4, <2>5
  <2>7. QED BY <2>2, <2>6
<1>10. QED BY <1>1, <1>2, <1>9, <1>a

\* UsedShares is the least set with t that has the helpers of its members.
LEMMA UsedSharesClosed ==
  ASSUME NEW k, NEW t \in Thread
  PROVE  /\ UsedShares(k, t) \subseteq Thread /\ t \in UsedShares(k, t)
         /\ \A u \in UsedShares(k, t) : Helpers(k, u) \subseteq UsedShares(k, t)
         /\ \A P : t \in P /\ (\A u \in P \cap Thread : Helpers(k, u) \subseteq P) =>
                 UsedShares(k, t) \subseteq P
<1> DEFINE E == UseEdges(k)
           U == UsedShares(k, t)
           N == Cardinality(Thread)
<1>1. N \in Nat
  BY ThreadAssumption, FS_CardinalityType
<1>2. U = Reached(E, t, N)
  BY UsedSharesReached
<1>3. \A u, v \in Thread : v \in Helpers(k, u) <=> <<u, v>> \in E
  BY DEF Helpers, UseEdges
<1>4. \A u : Helpers(k, u) \subseteq Thread
  BY DEF Helpers
<1>5. U \subseteq Thread
  BY <1>2 DEF Reached
<1> HIDE DEF E, U
<1>6. ASSUME NEW u \in U, NEW v \in Helpers(k, u) PROVE v \in U
  <2>1. u \in Reached(E, t, N) /\ v \in Thread /\ <<u, v>> \in E
    BY <1>2, <1>3, <1>4, <1>5
  <2>2. v \in Reached(E, t, N)
    BY <2>1, ReachedClosed
  <2>3. QED BY <1>2, <2>2
<1>7. ASSUME NEW P, t \in P, \A u \in P \cap Thread : Helpers(k, u) \subseteq P PROVE U \subseteq P
  <2>1. \A u \in P \cap Thread, v \in Thread : <<u, v>> \in E => v \in P \cap Thread
    BY <1>3, <1>7
  <2>2. \A n \in Nat : Reached(E, t, n) \subseteq P \cap Thread
    BY <1>7, <2>1, ReachedLeast
  <2>3. QED BY <1>1, <1>2, <2>2
<1>8. t \in U
  <2> DEFINE T == {n \in Nat : t \notin Reached(E, t, n)}
  <2>1. SUFFICES ASSUME T # {} PROVE FALSE
    BY <1>1, <1>2
  <2>2. PICK n \in T : \A m \in T : n <= m
    BY <2>1, LeastNumber
  <2>3. n # 0
    BY <2>2, ReachedStep
  <2>4. PICK m \in Nat : n = m + 1
    BY <2>2, <2>3
  <2>5. t \in Reached(E, t, m)
    BY <2>2, <2>4
  <2>6. t \in Reached(E, t, n)
    BY <2>4, <2>5, ReachedStep
  <2>7. QED BY <2>2, <2>6
<1>9. QED BY <1>5, <1>6, <1>7, <1>8 DEF U

---------------------------------------------------------------------------
(***************************************************************************)
(* The invariant of kernel states                                          *)
(***************************************************************************)

\* Kernel states as the kernel calls pass them on
KernelState ==
  [ th      : [Thread -> ThreadObject],
    panic   : BOOLEAN,
    serving : [Thread -> Thread \cup {None}],
    dropped : SUBSET Thread,
    misused : BOOLEAN,
    event   : {"none", "reply", "cancel"} \X (Thread \cup {None}) ]

\* Thread t has been started
Live(k, t) == k.th[t].state \notin {"ABSENT", "AWAITS_START"}

\* Thread d has the request of thread t in its books
Has(k, d, t) == k.th[d].caller = t \/ t \in Elems(k.th[d].queue)

\* Thread t waits for thread d, which has not given its request up
WaitsOn(k, t, d) == k.th[t].ipc = "AWAIT_REPLY" /\ k.th[t].callee = d /\ t \notin k.dropped

\* Thread t is in the books of thread d if and only if it waits for d.
Announced(k, t, d) == Has(k, d, t) <=> WaitsOn(k, t, d)

\* Nobody is twice in the books of thread t, and the request in its inbuf has been received.
InbufOK(k, t) ==
  /\ Distinct(k.th[t].queue)
  /\ k.th[t].caller # None => /\ k.th[t].caller \notin Elems(k.th[t].queue)
                              /\ k.serving[k.th[t].caller] = t

\* The callee of thread t is another one and exists unless it has given t up, which no callee that
\* t helps has,
\* and is on the CPU of thread t if that helps it.
OutbufOK(k, t) ==
  /\ k.th[t].callee # None => <<t, k.th[t].callee>> \in Calls /\ k.th[t].callee # t
  /\ k.th[t].ipc = "AWAIT_REPLY" =>
       /\ k.th[t].callee # None
       /\ t \notin k.dropped => k.th[k.th[t].callee].state # "ABSENT"
       /\ ~k.misused /\ k.th[t].help =>
            t \notin k.dropped /\ k.th[k.th[t].callee].cpu = k.th[t].cpu

\* The helpers are ranked: nobody helps himself, directly or by others.
NoCircle(k) ==
  \E rank \in [Thread -> Nat] :
    \A u \in Thread : HelpsOutbufDst(k, u) => rank[k.th[u].callee] < rank[u]

BooksOK(k) ==
  /\ \A t \in Thread : /\ \A d \in Thread : Announced(k, t, d)
                       /\ InbufOK(k, t)
                       /\ OutbufOK(k, t)
  /\ ~k.misused => NoCircle(k)

\* A thread does what its state says, on a CPU that it may run on.
StateFits(k, t) ==
  /\ k.th[t].ipc # "INACTIVE" => k.th[t].state = "AWAITS_IPC"
  /\ IF Live(k, t) THEN k.th[t].cpu \in affinity[t] ELSE k.th[t].cpu = None

\* The share of a helper follows the share of its callee, others follow their thread.
ShareFits(k, t) ==
  k.th[t].share <=> IF HelpsOutbufDst(k, t) THEN k.th[k.th[t].callee].share
                    ELSE k.th[t].state = "ACTIVE" /\ ~k.th[t].paused

StateOK(k, t) ==
  /\ k.th[t].state = "ABSENT" => k.th[t].ipc = "INACTIVE"
  /\ ~k.misused => StateFits(k, t)

ShareOK(k, t) == ~k.misused => ShareFits(k, t)

\* No assertion has failed
NoFailure(k) == ~k.misused => ~k.panic

\* What every kernel call may rely on and leaves behind
Sound(k) ==
  /\ k \in KernelState
  /\ NoFailure(k)
  /\ BooksOK(k)
  /\ \A t \in Thread : StateOK(k, t) /\ ShareOK(k, t)

---------------------------------------------------------------------------
(***************************************************************************)
(* Shares                                                                  *)
(***************************************************************************)

\* Helpers are what for_each_helper finds, but for thread r, which may still be in the books
\* of the callee that has just answered
HelpersOK(k, r) ==
  \A h \in Thread :
    /\ HelpsOutbufDst(k, h) =>
         /\ k.th[h].callee \in Thread
         /\ h \in Helpers(k, k.th[h].callee)
         /\ k.th[k.th[h].callee].cpu = k.th[h].cpu
    /\ \A v \in Thread : h \in Helpers(k, v) => h = r \/ (HelpsOutbufDst(k, h) /\ k.th[h].callee = v)

\* At most the share of thread t disagrees with its state
Alone(k, t) ==
  /\ k \in KernelState /\ ~k.panic
  /\ HelpersOK(k, t)
  /\ \A u \in Thread \ {t} : ShareFits(k, u)

\* Threads differ at most in their shares
SameThreads(k, m) ==
  \A u \in Thread :
    /\ m.th[u].state = k.th[u].state /\ m.th[u].paused = k.th[u].paused /\ m.th[u].cpu = k.th[u].cpu
    /\ m.th[u].ipc = k.th[u].ipc /\ m.th[u].caller = k.th[u].caller
    /\ m.th[u].callee = k.th[u].callee /\ m.th[u].help = k.th[u].help
    /\ m.th[u].queue = k.th[u].queue

\* The shares that thread t uses are as ready as its own and on its CPU; they are those whose
\* callee uses them.
LEMMA UsedAlike ==
  ASSUME NEW k, NEW t \in Thread, Alone(k, t)
  PROVE  /\ UsedShares(k, t) \subseteq Thread /\ t \in UsedShares(k, t)
         /\ \A u \in UsedShares(k, t) : /\ k.th[u].share <=> k.th[t].share
                                        /\ k.th[u].cpu = k.th[t].cpu
         /\ \A u \in Thread \ {t} :
              u \in UsedShares(k, t) <=> HelpsOutbufDst(k, u) /\ k.th[u].callee \in UsedShares(k, t)
<1> DEFINE U == UsedShares(k, t)
           P == { u \in Thread : (k.th[u].share <=> k.th[t].share) /\ k.th[u].cpu = k.th[t].cpu }
           Q == { u \in Thread : u = t \/ (HelpsOutbufDst(k, u) /\ k.th[u].callee \in U) }
<1>1. /\ U \subseteq Thread /\ t \in U
      /\ \A u \in U : Helpers(k, u) \subseteq U
      /\ \A X : t \in X /\ (\A u \in X \cap Thread : Helpers(k, u) \subseteq X) => U \subseteq X
  BY UsedSharesClosed
<1>2. \A u : Helpers(k, u) \subseteq Thread
  BY DEF Helpers
<1> HIDE DEF U
<1>3. U \subseteq P
  <2>1. ASSUME NEW u \in P \cap Thread, NEW h \in Helpers(k, u) PROVE h \in P
    <3>1. h \in Thread
      BY <1>2
    <3>2. CASE h = t
      BY <3>2
    <3>3. CASE h # t
      <4>1. HelpsOutbufDst(k, h) /\ k.th[h].callee = u /\ k.th[u].cpu = k.th[h].cpu
        BY <3>1, <3>3 DEF Alone, HelpersOK
      <4>2. k.th[h].share <=> k.th[u].share
        BY <3>1, <3>3, <4>1 DEF Alone, ShareFits
      <4>3. QED BY <3>1, <4>1, <4>2
    <3>4. QED BY <3>2, <3>3
  <2>2. QED BY <1>1, <2>1
<1>4. U \subseteq Q
  <2>1. ASSUME NEW u \in Q \cap Thread, NEW h \in Helpers(k, u) PROVE h \in Q
    <3>1. h \in Thread
      BY <1>2
    <3>2. CASE h # t
      <4>1. HelpsOutbufDst(k, h) /\ k.th[h].callee = u
        BY <3>1, <3>2 DEF Alone, HelpersOK
      <4>2. u \in U
        <5>1. CASE u = t
          BY <1>1, <5>1
        <5>2. CASE HelpsOutbufDst(k, u) /\ k.th[u].callee \in U
          <6>1. u \in Helpers(k, k.th[u].callee)
            BY <5>2 DEF Alone, HelpersOK
          <6>2. QED BY <1>1, <5>2, <6>1
        <5>3. QED BY <5>1, <5>2
      <4>3. QED BY <3>1, <4>1, <4>2
    <3>3. QED BY <3>1, <3>2
  <2>2. QED BY <1>1, <2>1
<1>5. ASSUME NEW u \in Thread \ {t}, HelpsOutbufDst(k, u), k.th[u].callee \in U PROVE u \in U
  <2>1. u \in Helpers(k, k.th[u].callee)
    BY <1>5 DEF Alone, HelpersOK
  <2>2. QED BY <1>1, <1>5, <2>1
<1>6. QED BY <1>1, <1>3, <1>4, <1>5 DEF U

\* The fields of a state, and of the threads in it.
LEMMA StateFields ==
  ASSUME NEW k \in KernelState
  PROVE  /\ k.th \in [Thread -> ThreadObject] /\ k.panic \in BOOLEAN
         /\ k.serving \in [Thread -> Thread \cup {None}]
         /\ k.dropped \in SUBSET Thread /\ k.misused \in BOOLEAN
         /\ k.event \in {"none", "reply", "cancel"} \X (Thread \cup {None})
         /\ \A u \in Thread : k.th[u] \in ThreadObject
  BY DEF KernelState

\* The threads after the shares in U are set to b
Shares(k, U, b) ==
  [ u \in Thread |-> IF u \in U THEN [k.th[u] EXCEPT !.share = b] ELSE k.th[u] ]

\* Setting shares changes nothing else.
LEMMA SharesSet ==
  ASSUME NEW k \in KernelState, NEW U \in SUBSET Thread, NEW b \in BOOLEAN
  PROVE  /\ Shares(k, U, b) \in [Thread -> ThreadObject]
         /\ \A u \in Thread :
              LET o == Shares(k, U, b)[u] IN
              /\ o.share = IF u \in U THEN b ELSE k.th[u].share
              /\ o.state = k.th[u].state /\ o.paused = k.th[u].paused /\ o.cpu = k.th[u].cpu
              /\ o.ipc = k.th[u].ipc /\ o.caller = k.th[u].caller /\ o.callee = k.th[u].callee
              /\ o.help = k.th[u].help /\ o.queue = k.th[u].queue
<1>1. \A u \in Thread : k.th[u] \in ThreadObject
  BY StateFields
<1>2. \A o \in ThreadObject : /\ [o EXCEPT !.share = b] \in ThreadObject
                              /\ [o EXCEPT !.share = b].share = b
                              /\ [o EXCEPT !.share = b].state = o.state
                              /\ [o EXCEPT !.share = b].paused = o.paused
                              /\ [o EXCEPT !.share = b].cpu = o.cpu
                              /\ [o EXCEPT !.share = b].ipc = o.ipc
                              /\ [o EXCEPT !.share = b].caller = o.caller
                              /\ [o EXCEPT !.share = b].callee = o.callee
                              /\ [o EXCEPT !.share = b].help = o.help
                              /\ [o EXCEPT !.share = b].queue = o.queue
  BY DEF ThreadObject
<1>3. \A u \in Thread : Shares(k, U, b)[u] =
                          IF u \in U THEN [k.th[u] EXCEPT !.share = b] ELSE k.th[u]
  BY DEF Shares
<1>4. Shares(k, U, b) \in [Thread -> ThreadObject]
  BY <1>1, <1>2 DEF Shares
<1>5. ASSUME NEW u \in Thread
      PROVE  LET o == Shares(k, U, b)[u] IN
              /\ o.share = IF u \in U THEN b ELSE k.th[u].share
              /\ o.state = k.th[u].state /\ o.paused = k.th[u].paused /\ o.cpu = k.th[u].cpu
              /\ o.ipc = k.th[u].ipc /\ o.caller = k.th[u].caller /\ o.callee = k.th[u].callee
              /\ o.help = k.th[u].help /\ o.queue = k.th[u].queue
  <2>1. CASE u \in U
    <3>1. Shares(k, U, b)[u] = [k.th[u] EXCEPT !.share = b] /\ k.th[u] \in ThreadObject
      BY <1>1, <1>3, <2>1
    <3>2. QED BY <1>2, <2>1, <3>1
  <2>2. CASE u \notin U
    BY <1>3, <2>2
  <2>3. QED BY <2>1, <2>2
<1>6. QED BY <1>4, <1>5

\* What thread t uses becomes ready or unready, and nobody else is affected
Switched(k, m, t, b) ==
  /\ m \in KernelState /\ ~m.panic
  /\ m.serving = k.serving /\ m.dropped = k.dropped /\ m.misused = k.misused /\ m.event = k.event
  /\ SameThreads(k, m)
  /\ m.th[t].share = b
  /\ \A u \in Thread : m.th[u].share \in {b, k.th[u].share}
  /\ \A u \in Thread \ {t} : ShareFits(m, u)

\* Shares stay in accord with the threads if those that one thread uses are switched.
LEMMA SwitchShares ==
  ASSUME NEW k, NEW t \in Thread, Alone(k, t), NEW b \in BOOLEAN, NEW m,
         m = [th |-> Shares(k, UsedShares(k, t), b), panic |-> FALSE,
              serving |-> k.serving, dropped |-> k.dropped, misused |-> k.misused, event |-> k.event]
  PROVE  Switched(k, m, t, b)
<1> DEFINE U == UsedShares(k, t)
<1>1. k \in KernelState
  BY DEF Alone
<1>2. /\ U \subseteq Thread /\ t \in U
      /\ \A u \in Thread \ {t} : u \in U <=> HelpsOutbufDst(k, u) /\ k.th[u].callee \in U
  BY UsedAlike
<1> HIDE DEF U
<1>3. /\ m.th = Shares(k, U, b) /\ m.panic = FALSE /\ m.serving = k.serving
         /\ m.dropped = k.dropped /\ m.misused = k.misused /\ m.event = k.event
  BY DEF U
<1>4. /\ m.th \in [Thread -> ThreadObject]
      /\ SameThreads(k, m)
      /\ \A u \in Thread : m.th[u].share = IF u \in U THEN b ELSE k.th[u].share
  BY <1>1, <1>2, <1>3, SharesSet DEF SameThreads
<1>5. m \in KernelState
  BY <1>1, <1>3, <1>4, StateFields DEF KernelState
<1>6. ASSUME NEW u \in Thread \ {t} PROVE ShareFits(m, u)
  <2>1. HelpsOutbufDst(m, u) <=> HelpsOutbufDst(k, u)
    BY <1>4 DEF SameThreads, HelpsOutbufDst
  <2>2. CASE HelpsOutbufDst(k, u)
    <3>1. k.th[u].callee \in Thread /\ (u \in U <=> k.th[u].callee \in U)
      BY <1>2, <2>2 DEF Alone, HelpersOK
    <3>2. k.th[u].share <=> k.th[k.th[u].callee].share
      BY <2>2 DEF Alone, ShareFits
    <3>3. m.th[u].callee = k.th[u].callee
      BY <1>4 DEF SameThreads
    <3>4. m.th[u].share <=> m.th[k.th[u].callee].share
      BY <1>4, <3>1, <3>2
    <3>5. QED BY <2>1, <2>2, <3>3, <3>4 DEF ShareFits
  <2>3. CASE ~HelpsOutbufDst(k, u)
    <3>1. u \notin U
      BY <1>2, <2>3
    <3>2. m.th[u].share <=> k.th[u].share
      BY <1>4, <3>1
    <3>3. k.th[u].share <=> k.th[u].state = "ACTIVE" /\ ~k.th[u].paused
      BY <2>3 DEF Alone, ShareFits
    <3>4. m.th[u].state = k.th[u].state /\ m.th[u].paused = k.th[u].paused
      BY <1>4 DEF SameThreads
    <3>5. QED BY <2>1, <2>3, <3>2, <3>3, <3>4 DEF ShareFits
  <2>4. QED BY <2>2, <2>3
<1>7. m.th[t].share = b
  BY <1>2, <1>4
<1>8. QED BY <1>3, <1>4, <1>5, <1>6, <1>7 DEF Switched

\* _activate_used_shares: no share is ready before.
LEMMA ActivateUsed ==
  ASSUME NEW k, NEW t \in Thread, Alone(k, t), ~k.th[t].share
  PROVE  Switched(k, Activate(k, UsedShares(k, t)), t, TRUE)
<1> DEFINE U == UsedShares(k, t)
           m == Activate(k, U)
<1>1. k \in KernelState /\ k.panic = FALSE
  BY DEF Alone, KernelState
<1>2. \A u \in U : ~k.th[u].share
  BY UsedAlike
<1> HIDE DEF U
<1> DEFINE ok == \A u \in U : ~k.th[u].share
<1>a. m = [KernelAssert(k, ok) EXCEPT
             !.th = [ u \in Thread |-> IF u \in U THEN [@[u] EXCEPT !.share = TRUE] ELSE @[u] ] ]
  BY DEF Activate
<1>b. ok
  BY <1>2
<1> HIDE DEF ok
<1>3. KernelAssert(k, ok) = [th |-> k.th, panic |-> FALSE,
                             serving |-> k.serving, dropped |-> k.dropped, misused |-> k.misused, event |-> k.event]
  BY <1>1, <1>b DEF KernelAssert, KernelState
<1>c. KernelAssert(k, ok).th = k.th
  BY <1>3
<1>d. m = [KernelAssert(k, ok) EXCEPT !.th = Shares(k, U, TRUE)]
  BY <1>a, <1>c, Zenon DEF Shares
<1> HIDE DEF m
<1>e. m = [[th |-> k.th, panic |-> FALSE,
           serving |-> k.serving, dropped |-> k.dropped, misused |-> k.misused, event |-> k.event]
             EXCEPT !.th = Shares(k, U, TRUE)]
  BY <1>3, <1>d, Zenon
<1>4. m = [th |-> Shares(k, U, TRUE), panic |-> FALSE,
           serving |-> k.serving, dropped |-> k.dropped, misused |-> k.misused, event |-> k.event]
  BY <1>e
<1> HIDE DEF m
<1>5. Switched(k, m, t, TRUE)
  BY <1>4, SwitchShares DEF U
<1>6. QED BY <1>5 DEF m, U

\* _deactivate_used_shares: all shares are ready before, on the CPU that deactivates them.
LEMMA DeactivateUsed ==
  ASSUME NEW k, NEW t \in Thread, Alone(k, t), k.th[t].share, NEW c, k.th[t].cpu = c
  PROVE  Switched(k, Deactivate(k, UsedShares(k, t), c), t, FALSE)
<1> DEFINE U == UsedShares(k, t)
           m == Deactivate(k, U, c)
<1>1. k \in KernelState /\ k.panic = FALSE
  BY DEF Alone, KernelState
<1>2. \A u \in U : k.th[u].share /\ k.th[u].cpu = c
  BY UsedAlike
<1> HIDE DEF U
<1> DEFINE ok == \A u \in U : k.th[u].share /\ k.th[u].cpu = c
<1>a. m = [KernelAssert(k, ok) EXCEPT
             !.th = [ u \in Thread |-> IF u \in U THEN [@[u] EXCEPT !.share = FALSE] ELSE @[u] ] ]
  BY DEF Deactivate
<1>b. ok
  BY <1>2
<1> HIDE DEF ok
<1>3. KernelAssert(k, ok) = [th |-> k.th, panic |-> FALSE,
                             serving |-> k.serving, dropped |-> k.dropped, misused |-> k.misused, event |-> k.event]
  BY <1>1, <1>b DEF KernelAssert, KernelState
<1>c. KernelAssert(k, ok).th = k.th
  BY <1>3
<1>d. m = [KernelAssert(k, ok) EXCEPT !.th = Shares(k, U, FALSE)]
  BY <1>a, <1>c, Zenon DEF Shares
<1> HIDE DEF m
<1>e. m = [[th |-> k.th, panic |-> FALSE,
           serving |-> k.serving, dropped |-> k.dropped, misused |-> k.misused, event |-> k.event]
             EXCEPT !.th = Shares(k, U, FALSE)]
  BY <1>3, <1>d, Zenon
<1>4. m = [th |-> Shares(k, U, FALSE), panic |-> FALSE,
           serving |-> k.serving, dropped |-> k.dropped, misused |-> k.misused, event |-> k.event]
  BY <1>e
<1> HIDE DEF m
<1>5. Switched(k, m, t, FALSE)
  BY <1>4, SwitchShares DEF U
<1>6. QED BY <1>5 DEF m, U

---------------------------------------------------------------------------
(***************************************************************************)
(* State changes                                                           *)
(***************************************************************************)

\* Thread t goes to state s, and nothing else changes
OnlyState(k, m, t, s) ==
  /\ m \in KernelState /\ m.panic = k.panic /\ m.serving = k.serving /\ m.dropped = k.dropped
     /\ m.misused = k.misused /\ m.event = k.event
  /\ m.th[t].state = s
  /\ \A u \in Thread :
       /\ u # t => m.th[u].state = k.th[u].state
       /\ m.th[u].share = k.th[u].share
       /\ m.th[u].paused = k.th[u].paused /\ m.th[u].cpu = k.th[u].cpu
       /\ m.th[u].ipc = k.th[u].ipc /\ m.th[u].caller = k.th[u].caller
       /\ m.th[u].callee = k.th[u].callee /\ m.th[u].help = k.th[u].help
       /\ m.th[u].queue = k.th[u].queue

\* Thread t goes to state s, and the shares follow
MovesWell(k, m, t, s) ==
  /\ m \in KernelState /\ ~m.panic
  /\ m.serving = k.serving /\ m.dropped = k.dropped /\ m.misused = k.misused /\ m.event = k.event
  /\ m.th[t].state = s
  /\ \A u \in Thread :
       /\ u # t => m.th[u].state = k.th[u].state
       /\ m.th[u].paused = k.th[u].paused /\ m.th[u].cpu = k.th[u].cpu
       /\ m.th[u].ipc = k.th[u].ipc /\ m.th[u].caller = k.th[u].caller
       /\ m.th[u].callee = k.th[u].callee /\ m.th[u].help = k.th[u].help
       /\ m.th[u].queue = k.th[u].queue
       /\ ShareFits(m, u)

\* An assertion that holds does nothing.
LEMMA AssertHolds ==
  ASSUME NEW k \in KernelState, ~k.panic, NEW c, c
  PROVE  KernelAssert(k, c) = k
  BY DEF KernelAssert, KernelState

LEMMA PresumeHolds ==
  ASSUME NEW k \in KernelState, NEW c, c
  PROVE  Presume(k, c) = k
  BY DEF Presume, KernelState

\* Assignment to the state of a thread changes nothing else.
LEMMA StateSet ==
  ASSUME NEW k \in KernelState, NEW t \in Thread, NEW s \in ThreadState,
         NEW m, m = [k EXCEPT !.th[t].state = s]
  PROVE  OnlyState(k, m, t, s)
<1>1. k.th \in [Thread -> ThreadObject]
  BY StateFields
<1>2. m.th = [k.th EXCEPT ![t] = [@ EXCEPT !.state = s]]
      /\ m.panic = k.panic /\ m.serving = k.serving /\ m.dropped = k.dropped
         /\ m.misused = k.misused /\ m.event = k.event
  BY DEF KernelState
<1>3. [k.th[t] EXCEPT !.state = s] \in ThreadObject
  BY <1>1 DEF ThreadObject
<1>4. m.th \in [Thread -> ThreadObject]
  BY <1>1, <1>2, <1>3
<1>5. m \in KernelState
  BY <1>2, <1>4 DEF KernelState
<1>6. \A u \in Thread \ {t} : m.th[u] = k.th[u]
  BY <1>1, <1>2
<1>7. m.th[t] = [k.th[t] EXCEPT !.state = s] /\ k.th[t] \in ThreadObject
  BY <1>1, <1>2
<1>8. /\ m.th[t].state = s /\ m.th[t].share = k.th[t].share
      /\ m.th[t].paused = k.th[t].paused /\ m.th[t].cpu = k.th[t].cpu
      /\ m.th[t].ipc = k.th[t].ipc /\ m.th[t].caller = k.th[t].caller
      /\ m.th[t].callee = k.th[t].callee /\ m.th[t].help = k.th[t].help
      /\ m.th[t].queue = k.th[t].queue
  BY <1>7 DEF ThreadObject
<1>9. QED BY <1>2, <1>5, <1>6, <1>8 DEF OnlyState

\* A change of the state of thread t leaves the others in accord.
LEMMA StateSetAlone ==
  ASSUME NEW k, NEW t \in Thread, Alone(k, t), NEW s \in ThreadState, NEW m, OnlyState(k, m, t, s)
  PROVE  Alone(m, t)
<1>2. OnlyState(k, m, t, s)
  OBVIOUS
<1> USE DEF OnlyState
<1>3. \A u \in Thread : Helpers(m, u) = Helpers(k, u)
  BY <1>2 DEF Helpers
<1>4. \A u \in Thread : HelpsOutbufDst(m, u) <=> HelpsOutbufDst(k, u)
  BY <1>2 DEF HelpsOutbufDst
<1>5. HelpersOK(m, t)
  <2>1. \A h \in Thread : HelpsOutbufDst(m, h) =>
           /\ m.th[h].callee \in Thread
           /\ h \in Helpers(m, m.th[h].callee)
           /\ m.th[m.th[h].callee].cpu = m.th[h].cpu
    BY <1>2, <1>3, <1>4 DEF Alone, HelpersOK
  <2>2. \A h, v \in Thread : h \in Helpers(m, v) => h = t \/ (HelpsOutbufDst(m, h) /\ m.th[h].callee = v)
    BY <1>2, <1>3, <1>4 DEF Alone, HelpersOK
  <2>3. QED BY <2>1, <2>2 DEF HelpersOK
<1>6. ASSUME NEW u \in Thread \ {t} PROVE ShareFits(m, u)
  <2>1. HelpsOutbufDst(k, u) => k.th[u].callee \in Thread
    BY DEF Alone, HelpersOK
  <2>2. ShareFits(k, u)
    BY DEF Alone
  <2>3. QED BY <1>2, <1>4, <2>1, <2>2 DEF ShareFits
<1>7. QED BY <1>2, <1>5, <1>6 DEF Alone

\* Switching the shares that thread t uses leaves the others in accord.
LEMMA SwitchedAlone ==
  ASSUME NEW k, NEW t \in Thread, Alone(k, t), NEW b, NEW m, Switched(k, m, t, b)
  PROVE  Alone(m, t)
<1>1. SameThreads(k, m) /\ m \in KernelState /\ ~m.panic /\ \A u \in Thread \ {t} : ShareFits(m, u)
  BY DEF Switched
<1> USE DEF SameThreads
<1>3. \A u \in Thread : Helpers(m, u) = Helpers(k, u)
  BY <1>1 DEF Helpers
<1>4. \A u \in Thread : HelpsOutbufDst(m, u) <=> HelpsOutbufDst(k, u)
  BY <1>1 DEF HelpsOutbufDst
<1>5. \A h \in Thread : HelpsOutbufDst(m, h) =>
         /\ m.th[h].callee \in Thread
         /\ h \in Helpers(m, m.th[h].callee)
         /\ m.th[m.th[h].callee].cpu = m.th[h].cpu
  BY <1>1, <1>3, <1>4 DEF Alone, HelpersOK
<1>6. \A h, v \in Thread : h \in Helpers(m, v) => h = t \/ (HelpsOutbufDst(m, h) /\ m.th[h].callee = v)
  BY <1>1, <1>3, <1>4 DEF Alone, HelpersOK
<1>7. HelpersOK(m, t)
  BY <1>5, <1>6 DEF HelpersOK
<1>8. QED BY <1>1, <1>7 DEF Alone

\* A thread whose share is as ready as its new state wants moves.
LEMMA OnlyStateMoves ==
  ASSUME NEW k, NEW t \in Thread, Alone(k, t), ~HelpsOutbufDst(k, t), NEW s \in ThreadState,
         NEW m, OnlyState(k, m, t, s),
         k.th[t].share <=> s = "ACTIVE" /\ ~k.th[t].paused
  PROVE  MovesWell(k, m, t, s)
<1>1. Alone(m, t)
  BY StateSetAlone
<1>2. ~HelpsOutbufDst(m, t)
  BY DEF OnlyState, HelpsOutbufDst
<1>3. ShareFits(m, t)
  BY <1>2 DEF OnlyState, ShareFits
<1>4. \A u \in Thread : ShareFits(m, u)
  BY <1>1, <1>3 DEF Alone
<1>5. ~m.panic
  BY <1>1 DEF Alone
<1>6. QED BY <1>4, <1>5 DEF OnlyState, MovesWell

\* The order of switching the shares and assigning the state does not matter.
LEMMA SwitchedMoves ==
  ASSUME NEW k, NEW t \in Thread, NEW s \in ThreadState, NEW b, NEW a, NEW m
  PROVE  /\ SameThreads(k, a) /\ a.serving = k.serving /\ a.dropped = k.dropped
            /\ a.misused = k.misused /\ a.event = k.event /\ MovesWell(a, m, t, s)
              => MovesWell(k, m, t, s)
         /\ OnlyState(k, a, t, s) /\ Switched(a, m, t, b)
            /\ ShareFits(m, t) => MovesWell(k, m, t, s)
<1>1. ASSUME SameThreads(k, a), a.serving = k.serving /\ a.dropped = k.dropped
             /\ a.misused = k.misused, a.event = k.event, MovesWell(a, m, t, s)
      PROVE  MovesWell(k, m, t, s)
  BY <1>1 DEF SameThreads, MovesWell
<1>2. ASSUME OnlyState(k, a, t, s), Switched(a, m, t, b), ShareFits(m, t)
      PROVE  MovesWell(k, m, t, s)
  <2>1. \A u \in Thread : ShareFits(m, u)
    BY <1>2 DEF Switched
  <2>2. SameThreads(a, m) /\ m \in KernelState /\ ~m.panic
        /\ m.serving = a.serving /\ m.dropped = a.dropped /\ m.misused = a.misused
           /\ m.event = a.event
    BY <1>2 DEF Switched
  <2>3. QED BY <1>2, <2>1, <2>2 DEF OnlyState, SameThreads, MovesWell
<1>3. QED BY <1>1, <1>2

\* A thread whose request is answered or cancelled becomes active with all that helps it.
LEMMA SendRequestDoneMovesWell ==
  ASSUME NEW k, NEW t \in Thread, Alone(k, t), ~HelpsOutbufDst(k, t),
         k.th[t].state = "AWAITS_IPC", ~k.th[t].paused
  PROVE  MovesWell(k, SendRequestDone(k, t), t, "ACTIVE")
<1> DEFINE a == [k EXCEPT !.th[t].state = "ACTIVE"]
           m == SendRequestDone(k, t)
<1>1. k \in KernelState /\ ~k.panic /\ "ACTIVE" \in ThreadState
  BY DEF Alone, ThreadState
<1>2. KernelAssert(k, k.th[t].state = "AWAITS_IPC") = k /\ Presume(k, ~k.th[t].paused) = k
  BY <1>1, AssertHolds, PresumeHolds
<1>3. m = IF a.th[t].share THEN a ELSE Activate(a, UsedShares(a, t))
  BY <1>2 DEF SendRequestDone
<1>4. OnlyState(k, a, t, "ACTIVE")
  BY <1>1, StateSet
<1> HIDE DEF a, m
<1>5. Alone(a, t)
  BY <1>1, <1>4, StateSetAlone
<1>6. a.th[t].share = k.th[t].share /\ ~HelpsOutbufDst(a, t)
      /\ a.th[t].state = "ACTIVE" /\ ~a.th[t].paused
  BY <1>4 DEF OnlyState, HelpsOutbufDst
<1>7. CASE a.th[t].share
  <2>1. MovesWell(k, a, t, "ACTIVE")
    BY <1>1, <1>4, <1>6, <1>7, OnlyStateMoves
  <2>2. QED BY <1>3, <1>7, <2>1 DEF m
<1>8. CASE ~a.th[t].share
  <2>1. Switched(a, m, t, TRUE)
    BY <1>3, <1>5, <1>8, ActivateUsed
  <2>2. ~HelpsOutbufDst(m, t) /\ m.th[t].share /\ m.th[t].state = "ACTIVE" /\ ~m.th[t].paused
    BY <1>6, <2>1 DEF Switched, SameThreads, HelpsOutbufDst
  <2>3. ShareFits(m, t)
    BY <2>2 DEF ShareFits
  <2>4. QED BY <1>1, <1>4, <2>1, <2>3, SwitchedMoves DEF m
<1>9. QED BY <1>7, <1>8

\* A thread becomes active with all that helps it, unless it is paused.
LEMMA BecomeActiveMovesWell ==
  ASSUME NEW k, NEW t \in Thread, Alone(k, t), ~HelpsOutbufDst(k, t), ShareFits(k, t)
  PROVE  MovesWell(k, BecomeActive(k, t), t, "ACTIVE")
<1> DEFINE a == IF k.th[t].state # "ACTIVE" /\ ~k.th[t].paused
                THEN Activate(k, UsedShares(k, t))
                ELSE k
           m == [a EXCEPT !.th[t].state = "ACTIVE"]
<1>1. k \in KernelState /\ ~k.panic /\ "ACTIVE" \in ThreadState
  BY DEF Alone, ThreadState
<1>2. BecomeActive(k, t) = m
  BY DEF BecomeActive
<1>3. k.th[t].share <=> k.th[t].state = "ACTIVE" /\ ~k.th[t].paused
  BY DEF ShareFits
<1>4. CASE k.th[t].state # "ACTIVE" /\ ~k.th[t].paused
  <2>1. a = Activate(k, UsedShares(k, t))
    BY <1>4
  <2>2. Switched(k, a, t, TRUE)
    BY <1>3, <1>4, <2>1, ActivateUsed
  <2> HIDE DEF a
  <2>3. OnlyState(a, m, t, "ACTIVE")
    <3>1. a \in KernelState
      BY <2>2 DEF Switched
    <3>2. QED BY <1>1, <3>1, StateSet
  <2> HIDE DEF m
  <2>4. SameThreads(k, a) /\ a.th[t].share /\ a.serving = k.serving /\ a.dropped = k.dropped
        /\ a.misused = k.misused /\ a.event = k.event
    BY <2>2 DEF Switched
  <2>5. Alone(a, t)
    BY <2>2, SwitchedAlone
  <2>6. ~HelpsOutbufDst(a, t) /\ ~a.th[t].paused
    BY <1>4, <2>4 DEF SameThreads, HelpsOutbufDst
  <2>7. MovesWell(a, m, t, "ACTIVE")
    BY <1>1, <2>3, <2>4, <2>5, <2>6, OnlyStateMoves
  <2>8. QED BY <1>1, <1>2, <2>4, <2>7, SwitchedMoves
<1>5. CASE ~(k.th[t].state # "ACTIVE" /\ ~k.th[t].paused)
  <2>1. a = k
    BY <1>5
  <2>2. OnlyState(k, m, t, "ACTIVE")
    BY <1>1, <2>1, StateSet
  <2> HIDE DEF m
  <2>3. MovesWell(k, m, t, "ACTIVE")
    BY <1>1, <1>3, <1>5, <2>2, OnlyStateMoves
  <2>4. QED BY <1>2, <2>3
<1>6. QED BY <1>4, <1>5

\* A server that gets a request, or whose waiting is cancelled, becomes active.
LEMMA AwaitRequestDoneMovesWell ==
  ASSUME NEW k, NEW t \in Thread, Alone(k, t), ~HelpsOutbufDst(k, t), ShareFits(k, t),
         k.th[t].state = "AWAITS_IPC"
  PROVE  MovesWell(k, AwaitRequestDone(k, t), t, "ACTIVE")
<1>1. k \in KernelState /\ ~k.panic
  BY DEF Alone
<1>2. KernelAssert(k, k.th[t].state = "AWAITS_IPC") = k
  BY <1>1, AssertHolds
<1>3. QED BY <1>2, BecomeActiveMovesWell DEF AwaitRequestDone

\* A thread becomes inactive with all that helps it.
LEMMA BecomeInactiveMovesWell ==
  ASSUME NEW k, NEW t \in Thread, Alone(k, t), ~HelpsOutbufDst(k, t), ShareFits(k, t),
         NEW s \in ThreadState, s # "ACTIVE"
  PROVE  MovesWell(k, BecomeInactive(k, t, s), t, s)
<1> DEFINE d == IF k.th[t].state = "ACTIVE" /\ ~k.th[t].paused
                THEN Deactivate(k, UsedShares(k, t), k.th[t].cpu)
                ELSE k
           m == [d EXCEPT !.th[t].state = s]
<1>1. k \in KernelState /\ ~k.panic
  BY DEF Alone
<1>2. BecomeInactive(k, t, s) = m
  BY DEF BecomeInactive
<1>3. k.th[t].share <=> k.th[t].state = "ACTIVE" /\ ~k.th[t].paused
  BY DEF ShareFits
<1>4. CASE k.th[t].state = "ACTIVE" /\ ~k.th[t].paused
  <2>1. d = Deactivate(k, UsedShares(k, t), k.th[t].cpu)
    BY <1>4
  <2>2. Switched(k, d, t, FALSE)
    BY <1>3, <1>4, <2>1, DeactivateUsed
  <2> HIDE DEF d
  <2>3. OnlyState(d, m, t, s)
    <3>1. d \in KernelState
      BY <2>2 DEF Switched
    <3>2. QED BY <3>1, StateSet
  <2> HIDE DEF m
  <2>4. SameThreads(k, d) /\ ~d.th[t].share /\ d.serving = k.serving /\ d.dropped = k.dropped
        /\ d.misused = k.misused /\ d.event = k.event
    BY <2>2 DEF Switched
  <2>5. Alone(d, t)
    BY <2>2, SwitchedAlone
  <2>6. ~HelpsOutbufDst(d, t)
    BY <2>4 DEF SameThreads, HelpsOutbufDst
  <2>7. MovesWell(d, m, t, s)
    BY <2>3, <2>4, <2>5, <2>6, OnlyStateMoves
  <2>8. QED BY <1>2, <2>4, <2>7, SwitchedMoves
<1>5. CASE ~(k.th[t].state = "ACTIVE" /\ ~k.th[t].paused)
  <2>1. d = k
    BY <1>5
  <2>2. OnlyState(k, m, t, s)
    BY <1>1, <2>1, StateSet
  <2> HIDE DEF m
  <2>3. MovesWell(k, m, t, s)
    BY <1>3, <1>5, <2>2, OnlyStateMoves
  <2>4. QED BY <1>2, <2>3
<1>6. QED BY <1>4, <1>5

---------------------------------------------------------------------------
(***************************************************************************)
(* State changes, also after a misuse                                      *)
(***************************************************************************)

\* Nothing but shares and the outcome of assertions changes
Keeps(k, m) ==
  /\ m \in KernelState /\ SameThreads(k, m)
  /\ m.serving = k.serving /\ m.dropped = k.dropped /\ m.misused = k.misused /\ m.event = k.event

\* Thread t goes to state s; nothing else changes but shares, assertions and misuse
Changes(k, m, t, s) ==
  /\ m \in KernelState
  /\ m.serving = k.serving /\ m.dropped = k.dropped /\ m.event = k.event
  /\ m.th[t].state = s
  /\ \A u \in Thread :
       /\ u # t => m.th[u].state = k.th[u].state
       /\ m.th[u].paused = k.th[u].paused /\ m.th[u].cpu = k.th[u].cpu
       /\ m.th[u].ipc = k.th[u].ipc /\ m.th[u].caller = k.th[u].caller
       /\ m.th[u].callee = k.th[u].callee /\ m.th[u].help = k.th[u].help
       /\ m.th[u].queue = k.th[u].queue

\* Thread t goes to state s, and the shares follow until a misuse
Moves(k, m, t, s) ==
  /\ Changes(k, m, t, s)
  /\ k.misused => m.misused
  /\ NoFailure(m) /\ \A u \in Thread : ShareOK(m, u)

\* At most the share of thread t disagrees with its state, until a misuse
Apart(k, t) == k \in KernelState /\ (~k.misused => Alone(k, t))

\* Assertions and the activation of shares keep everything else.
LEMMA KeepsRest ==
  ASSUME NEW k \in KernelState
  PROVE  /\ \A c : Keeps(k, KernelAssert(k, c))
         /\ \A U \in SUBSET Thread : Keeps(k, Activate(k, U))
         /\ \A U \in SUBSET Thread : \A c : Keeps(k, Deactivate(k, U, c))
<1>1. ASSUME NEW c
      PROVE  /\ KernelAssert(k, c) \in KernelState /\ KernelAssert(k, c).th = k.th
             /\ Keeps(k, KernelAssert(k, c))
  BY DEF KernelAssert, KernelState, Keeps, SameThreads
<1>2. ASSUME NEW a \in KernelState, a.th = k.th, Keeps(k, a), NEW U \in SUBSET Thread, NEW b \in BOOLEAN
      PROVE  Keeps(k, [a EXCEPT !.th = Shares(k, U, b)])
  <2> DEFINE m == [a EXCEPT !.th = Shares(k, U, b)]
  <2>1. m.th = Shares(k, U, b) /\ m.panic = a.panic /\ m.serving = a.serving
        /\ m.dropped = a.dropped /\ m.misused = a.misused /\ m.event = a.event
    BY DEF KernelState
  <2>2. m.th \in [Thread -> ThreadObject] /\ SameThreads(k, m)
    BY <2>1, SharesSet DEF SameThreads
  <2>3. m \in KernelState
    BY <2>2 DEF KernelState
  <2> HIDE DEF m
  <2>4. Keeps(k, m)
    BY <1>2, <2>1, <2>2, <2>3 DEF Keeps
  <2>5. QED BY <2>4 DEF m
<1>3. ASSUME NEW U \in SUBSET Thread PROVE Keeps(k, Activate(k, U))
  <2> DEFINE a == KernelAssert(k, \A u \in U : ~k.th[u].share)
  <2>1. a \in KernelState /\ a.th = k.th /\ Keeps(k, a)
    BY <1>1
  <2>2. Activate(k, U) =
          [a EXCEPT !.th = [u \in Thread |-> IF u \in U THEN [a.th[u] EXCEPT !.share = TRUE] ELSE a.th[u]]]
    BY Zenon DEF Activate
  <2> HIDE DEF a
  <2>3. Activate(k, U) = [a EXCEPT !.th = Shares(k, U, TRUE)]
    BY <2>1, <2>2, Zenon DEF Shares
  <2>4. QED BY <1>2, <2>1, <2>3, Zenon
<1>4. ASSUME NEW U \in SUBSET Thread, NEW c PROVE Keeps(k, Deactivate(k, U, c))
  <2> DEFINE a == KernelAssert(k, \A u \in U : k.th[u].share /\ k.th[u].cpu = c)
  <2>1. a \in KernelState /\ a.th = k.th /\ Keeps(k, a)
    BY <1>1
  <2>2. Deactivate(k, U, c) =
          [a EXCEPT !.th = [u \in Thread |-> IF u \in U THEN [a.th[u] EXCEPT !.share = FALSE] ELSE a.th[u]]]
    BY Zenon DEF Deactivate
  <2> HIDE DEF a
  <2>3. Deactivate(k, U, c) = [a EXCEPT !.th = Shares(k, U, FALSE)]
    BY <2>1, <2>2, Zenon DEF Shares
  <2>4. QED BY <1>2, <2>1, <2>3, Zenon
<1>5. QED BY <1>1, <1>3, <1>4

\* What a thread uses are threads.
LEMMA UsedThreads ==
  ASSUME NEW k, NEW t \in Thread
  PROVE  UsedShares(k, t) \in SUBSET Thread /\ t \in UsedShares(k, t)
BY UsedSharesClosed

\* Assigning the state and keeping the rest, in any order, changes the state only.
LEMMA KeepsChanges ==
  ASSUME NEW k, NEW t \in Thread, NEW s, NEW a, NEW m
  PROVE  /\ Keeps(k, a) /\ OnlyState(a, m, t, s) => Changes(k, m, t, s) /\ m.misused = k.misused
         /\ OnlyState(k, a, t, s) /\ Keeps(a, m) => Changes(k, m, t, s) /\ m.misused = k.misused
         /\ OnlyState(k, m, t, s) => Changes(k, m, t, s) /\ m.misused = k.misused
  BY DEF Keeps, SameThreads, OnlyState, Changes

\* What a state change by BecomeActive, BecomeInactive and AwaitRequestDone leaves alone.
LEMMA BecomeChanges ==
  ASSUME NEW k \in KernelState, NEW t \in Thread, NEW s \in ThreadState
  PROVE  /\ Changes(k, BecomeActive(k, t), t, "ACTIVE") /\ BecomeActive(k, t).misused = k.misused
         /\ Changes(k, BecomeInactive(k, t, s), t, s) /\ BecomeInactive(k, t, s).misused = k.misused
<1>0. "ACTIVE" \in ThreadState
  BY DEF ThreadState
<1>1. Keeps(k, k)
  BY DEF Keeps, SameThreads
<1>2. Keeps(k, Activate(k, UsedShares(k, t)))
      /\ Keeps(k, Deactivate(k, UsedShares(k, t), k.th[t].cpu))
  BY KeepsRest, UsedThreads
<1>3. ASSUME NEW a, Keeps(k, a), NEW x \in ThreadState
      PROVE  /\ Changes(k, [a EXCEPT !.th[t].state = x], t, x)
             /\ [a EXCEPT !.th[t].state = x].misused = k.misused
  <2>1. a \in KernelState
    BY <1>3 DEF Keeps
  <2>2. OnlyState(a, [a EXCEPT !.th[t].state = x], t, x)
    BY <1>3, <2>1, StateSet
  <2>3. QED BY <1>3, <2>2, KeepsChanges
<1>4. \E a : Keeps(k, a) /\ BecomeActive(k, t) = [a EXCEPT !.th[t].state = "ACTIVE"]
  BY <1>1, <1>2 DEF BecomeActive
<1>5. \E a : Keeps(k, a) /\ BecomeInactive(k, t, s) = [a EXCEPT !.th[t].state = s]
  BY <1>1, <1>2 DEF BecomeInactive
<1>6. QED BY <1>0, <1>3, <1>4, <1>5

\* The end of a request changes the state of the thread, and is a misuse if that is paused.
LEMMA DoneChanges ==
  ASSUME NEW k \in KernelState, NEW t \in Thread
  PROVE  /\ Changes(k, SendRequestDone(k, t), t, "ACTIVE")
         /\ SendRequestDone(k, t).misused <=> k.misused \/ k.th[t].paused
<1> DEFINE q == KernelAssert(k, k.th[t].state = "AWAITS_IPC")
           p == Presume(q, ~k.th[t].paused)
           a == [p EXCEPT !.th[t].state = "ACTIVE"]
           m == SendRequestDone(k, t)
<1>0. k.th[t].paused \in BOOLEAN
  <2>1. k.th[t] \in ThreadObject
    BY StateFields
  <2>2. QED BY <2>1 DEF ThreadObject
<1>1. Keeps(k, q)
  BY KeepsRest
<1>2. m = IF a.th[t].share THEN a ELSE Activate(a, UsedShares(a, t))
  BY DEF SendRequestDone
<1> HIDE DEF q
<1>3. q \in KernelState
  BY <1>1 DEF Keeps
<1>4. /\ p.th = q.th /\ p.serving = q.serving /\ p.dropped = q.dropped /\ p.event = q.event
      /\ p \in KernelState /\ (p.misused <=> q.misused \/ k.th[t].paused)
  BY <1>0, <1>3 DEF Presume, KernelState
<1> HIDE DEF p
<1>5. OnlyState(p, a, t, "ACTIVE")
  BY <1>4, StateSet DEF ThreadState
<1> HIDE DEF a, m
<1>6. a \in KernelState
  BY <1>5 DEF OnlyState
<1>7. Keeps(a, a) /\ Keeps(a, Activate(a, UsedShares(a, t)))
  BY <1>6, KeepsRest, UsedThreads DEF Keeps, SameThreads
<1>8. Keeps(a, m)
  BY <1>2, <1>7
<1>9. Changes(p, m, t, "ACTIVE") /\ m.misused = p.misused
  BY <1>5, <1>8, KeepsChanges
<1>10. Changes(k, m, t, "ACTIVE")
  BY <1>1, <1>4, <1>9 DEF Changes, Keeps, SameThreads
<1>11. QED BY <1>1, <1>4, <1>9, <1>10 DEF Keeps, m

\* What moves well moves.
LEMMA MovesWellMoves ==
  ASSUME NEW k, NEW t \in Thread, NEW s, NEW m, Changes(k, m, t, s), k.misused => m.misused,
         ~m.misused => MovesWell(k, m, t, s)
  PROVE  Moves(k, m, t, s)
BY DEF Moves, MovesWell, NoFailure, ShareOK

\* A thread whose request is answered or cancelled becomes active with all that helps it.
LEMMA SendRequestDoneMoves ==
  ASSUME NEW k, NEW t \in Thread, Apart(k, t), ~HelpsOutbufDst(k, t),
         ~k.misused => k.th[t].state = "AWAITS_IPC"
  PROVE  Moves(k, SendRequestDone(k, t), t, "ACTIVE")
<1>1. k \in KernelState
  BY DEF Apart
<1>2. /\ Changes(k, SendRequestDone(k, t), t, "ACTIVE")
      /\ SendRequestDone(k, t).misused <=> k.misused \/ k.th[t].paused
  BY <1>1, DoneChanges
<1>3. ASSUME ~SendRequestDone(k, t).misused
      PROVE  MovesWell(k, SendRequestDone(k, t), t, "ACTIVE")
  BY <1>2, <1>3, SendRequestDoneMovesWell DEF Apart
<1>4. QED BY <1>2, <1>3, MovesWellMoves

\* A thread becomes active with all that helps it, unless it is paused.
LEMMA BecomeActiveMoves ==
  ASSUME NEW k, NEW t \in Thread, Apart(k, t), ~k.misused => ~HelpsOutbufDst(k, t), ShareOK(k, t)
  PROVE  Moves(k, BecomeActive(k, t), t, "ACTIVE")
<1>1. k \in KernelState
  BY DEF Apart
<1>2. Changes(k, BecomeActive(k, t), t, "ACTIVE") /\ BecomeActive(k, t).misused = k.misused
  BY <1>1, BecomeChanges DEF ThreadState
<1>3. ~k.misused => MovesWell(k, BecomeActive(k, t), t, "ACTIVE")
  BY BecomeActiveMovesWell DEF Apart, ShareOK
<1>4. QED BY <1>2, <1>3, MovesWellMoves

\* A server that gets a request, or whose waiting is cancelled, becomes active.
LEMMA AwaitRequestDoneMoves ==
  ASSUME NEW k, NEW t \in Thread, Apart(k, t), ~k.misused => ~HelpsOutbufDst(k, t), ShareOK(k, t),
         ~k.misused => k.th[t].state = "AWAITS_IPC"
  PROVE  Moves(k, AwaitRequestDone(k, t), t, "ACTIVE")
<1> DEFINE a == KernelAssert(k, k.th[t].state = "AWAITS_IPC")
<1>1. k \in KernelState
  BY DEF Apart
<1>2. Keeps(k, a)
  BY <1>1, KeepsRest
<1>3. AwaitRequestDone(k, t) = BecomeActive(a, t)
  BY DEF AwaitRequestDone
<1> HIDE DEF a
<1>4. a \in KernelState
  BY <1>2 DEF Keeps
<1>5. Changes(a, BecomeActive(a, t), t, "ACTIVE") /\ BecomeActive(a, t).misused = a.misused
  BY <1>4, BecomeChanges DEF ThreadState
<1>6. Changes(k, BecomeActive(a, t), t, "ACTIVE") /\ a.misused = k.misused
  BY <1>2, <1>5 DEF Changes, Keeps, SameThreads
<1>7. ~k.misused => MovesWell(k, AwaitRequestDone(k, t), t, "ACTIVE")
  BY AwaitRequestDoneMovesWell DEF Apart, ShareOK
<1>8. QED BY <1>3, <1>5, <1>6, <1>7, MovesWellMoves

\* A thread becomes inactive with all that helps it.
LEMMA BecomeInactiveMoves ==
  ASSUME NEW k, NEW t \in Thread, Apart(k, t), ~k.misused => ~HelpsOutbufDst(k, t), ShareOK(k, t),
         NEW s \in ThreadState, s # "ACTIVE"
  PROVE  Moves(k, BecomeInactive(k, t, s), t, s)
<1>1. k \in KernelState
  BY DEF Apart
<1>2. Changes(k, BecomeInactive(k, t, s), t, s) /\ BecomeInactive(k, t, s).misused = k.misused
  BY <1>1, BecomeChanges
<1>3. ~k.misused => MovesWell(k, BecomeInactive(k, t, s), t, s)
  BY BecomeInactiveMovesWell DEF Apart, ShareOK
<1>4. QED BY <1>2, <1>3, MovesWellMoves

---------------------------------------------------------------------------
(***************************************************************************)
(* Kernel calls keep states sound                                          *)
(***************************************************************************)

\* Where callers and callees are.
LEMMA BooksTypes ==
  ASSUME NEW k \in KernelState, BooksOK(k), NEW t \in Thread
  PROVE  /\ k.th[t].ipc = "AWAIT_REPLY" => k.th[t].callee \in Thread
         /\ k.th[t].caller # None => k.th[t].caller \in Thread
         /\ Elems(k.th[t].queue) \subseteq Thread
         /\ k.th[t].queue \in Seq(Thread)
<1>1. k.th[t] \in ThreadObject
  BY StateFields
<1>2. k.th[t].callee \in Thread \cup {None} /\ k.th[t].caller \in Thread \cup {None}
      /\ k.th[t].queue \in Seq(Thread)
  BY <1>1 DEF ThreadObject
<1>3. Elems(k.th[t].queue) \subseteq Thread
  BY <1>2, ElemsSubset
<1>4. QED BY <1>2, <1>3 DEF BooksOK, OutbufOK

\* Helping less makes no circle.
LEMMA FewerHelpers ==
  ASSUME NEW k, NEW m, BooksOK(k), k.misused => m.misused,
         \A u \in Thread : HelpsOutbufDst(m, u) =>
                            HelpsOutbufDst(k, u) /\ m.th[u].callee = k.th[u].callee
  PROVE  ~m.misused => NoCircle(m)
BY Zenon DEF BooksOK, NoCircle

\* The books know the helpers.
LEMMA BooksApart ==
  ASSUME NEW k \in KernelState, NoFailure(k), BooksOK(k), NEW t \in Thread,
         \A u \in Thread \ {t} : ShareOK(k, u)
  PROVE  Apart(k, t)
<1> SUFFICES ASSUME ~k.misused PROVE Alone(k, t)
  BY DEF Apart
<1>1. ASSUME NEW h \in Thread, HelpsOutbufDst(k, h)
      PROVE  /\ k.th[h].callee \in Thread
             /\ h \in Helpers(k, k.th[h].callee)
             /\ k.th[k.th[h].callee].cpu = k.th[h].cpu
  <2>1. k.th[h].ipc = "AWAIT_REPLY" /\ k.th[h].help
    BY <1>1 DEF HelpsOutbufDst
  <2>2. k.th[h].callee \in Thread
    BY <2>1, BooksTypes
  <2>3. Has(k, k.th[h].callee, h)
    BY <2>1, <2>2 DEF BooksOK, Announced, WaitsOn, OutbufOK
  <2>4. k.th[k.th[h].callee].cpu = k.th[h].cpu
    BY <2>1 DEF BooksOK, OutbufOK
  <2>5. QED BY <2>1, <2>2, <2>3, <2>4 DEF Helpers, Has
<1>2. ASSUME NEW h \in Thread, NEW v \in Thread, h \in Helpers(k, v)
      PROVE  HelpsOutbufDst(k, h) /\ k.th[h].callee = v
  <2>1. Has(k, v, h) /\ k.th[h].help
    BY <1>2 DEF Helpers, Has
  <2>2. QED BY <2>1 DEF BooksOK, Announced, WaitsOn, HelpsOutbufDst
<1>3. HelpersOK(k, t)
  BY <1>1, <1>2 DEF HelpersOK
<1>4. QED BY <1>3 DEF Alone, NoFailure, ShareOK

\* A state change of thread t to a live state keeps the books and the other threads in order.
LEMMA MovesBooks ==
  ASSUME NEW k \in KernelState, BooksOK(k), NEW t \in Thread, NEW s, NEW m, Moves(k, m, t, s),
         s # "ABSENT"
  PROVE  BooksOK(m) /\ \A u \in Thread \ {t} : StateOK(k, u) => StateOK(m, u)
<1>1. ASSUME NEW u \in Thread
      PROVE  /\ u # t => m.th[u].state = k.th[u].state
             /\ m.th[u].paused = k.th[u].paused /\ m.th[u].cpu = k.th[u].cpu
             /\ m.th[u].ipc = k.th[u].ipc /\ m.th[u].caller = k.th[u].caller
             /\ m.th[u].callee = k.th[u].callee /\ m.th[u].help = k.th[u].help
             /\ m.th[u].queue = k.th[u].queue
  BY DEF Moves, Changes
<1>2. m.th[t].state = s /\ m.serving = k.serving /\ m.dropped = k.dropped
      /\ (k.misused => m.misused)
  BY DEF Moves, Changes
<1>3. \A u \in Thread : k.th[u].state # "ABSENT" => m.th[u].state # "ABSENT"
  BY <1>1, <1>2
<1>4. ASSUME NEW u \in Thread, NEW d \in Thread PROVE Announced(m, u, d)
  <2>1. Announced(k, u, d)
    BY DEF BooksOK
  <2>2. QED BY <1>1, <1>2, <2>1 DEF Announced, WaitsOn, Has
<1>5. ASSUME NEW u \in Thread PROVE InbufOK(m, u)
  <2>1. InbufOK(k, u)
    BY DEF BooksOK
  <2>2. QED BY <1>1, <1>2, <2>1 DEF InbufOK
<1>6. ASSUME NEW u \in Thread PROVE OutbufOK(m, u)
  <2>1. OutbufOK(k, u)
    BY DEF BooksOK
  <2>2. k.th[u].ipc = "AWAIT_REPLY" => k.th[u].callee \in Thread
    BY BooksTypes
  <2>3. QED BY <1>1, <1>2, <1>3, <2>1, <2>2 DEF OutbufOK
<1>7. ASSUME NEW u \in Thread \ {t}, StateOK(k, u) PROVE StateOK(m, u)
  <2>1. Live(m, u) <=> Live(k, u)
    BY <1>1 DEF Live
  <2>2. QED BY <1>1, <1>2, <1>7, <2>1 DEF StateOK, StateFits
<1>a. ~m.misused => NoCircle(m)
  BY <1>1, <1>2, FewerHelpers DEF HelpsOutbufDst
<1>8. BooksOK(m)
  BY <1>4, <1>5, <1>6, <1>a DEF BooksOK
<1>9. QED BY <1>7, <1>8

\* A state change keeps the state sound if it suits thread t.
LEMMA MovesSound ==
  ASSUME NEW k \in KernelState, BooksOK(k), NEW t \in Thread, NEW s, NEW m, Moves(k, m, t, s),
         s \notin {"ABSENT", "AWAITS_START"},
         ~m.misused => k.th[t].cpu \in affinity[t],
         ~m.misused /\ k.th[t].ipc # "INACTIVE" => s = "AWAITS_IPC",
         \A u \in Thread \ {t} : StateOK(k, u)
  PROVE  Sound(m)
<1>1. BooksOK(m) /\ \A u \in Thread \ {t} : StateOK(m, u)
  BY MovesBooks
<1>2. StateOK(m, t)
  BY DEF Moves, Changes, StateOK, StateFits, Live
<1>3. QED BY <1>1, <1>2 DEF Moves, Changes, Sound

\* What a sound state says of a thread that is active.
LEMMA SoundActive ==
  ASSUME NEW k, Sound(k), NEW t \in Thread
  PROVE  /\ k \in KernelState /\ NoFailure(k) /\ BooksOK(k) /\ Apart(k, t)
         /\ StateOK(k, t) /\ ShareOK(k, t)
         /\ ~k.misused /\ k.th[t].state # "AWAITS_IPC" =>
              k.th[t].ipc = "INACTIVE" /\ ~HelpsOutbufDst(k, t)
         /\ ~k.misused /\ Live(k, t) => k.th[t].cpu \in affinity[t]
<1>1. k \in KernelState /\ NoFailure(k) /\ BooksOK(k) /\ StateOK(k, t) /\ ShareOK(k, t)
  BY DEF Sound
<1>2. Apart(k, t)
  BY <1>1, BooksApart DEF Sound
<1>3. QED BY <1>1, <1>2 DEF StateOK, StateFits, HelpsOutbufDst

\* _become_inactive, called by an active thread for a state without IPC.
LEMMA InactiveSound ==
  ASSUME NEW k, Sound(k), NEW t \in Thread, ~k.misused => k.th[t].state = "ACTIVE",
         NEW s \in ThreadState,
         s \notin {"ACTIVE", "ABSENT", "AWAITS_START"}
  PROVE  Sound(BecomeInactive(k, t, s)) /\ BecomeInactive(k, t, s).event = k.event
<1>1. /\ k \in KernelState /\ BooksOK(k) /\ Apart(k, t) /\ ShareOK(k, t)
      /\ ~k.misused => /\ k.th[t].ipc = "INACTIVE" /\ ~HelpsOutbufDst(k, t)
                       /\ k.th[t].cpu \in affinity[t]
  BY SoundActive DEF Live
<1>2. Moves(k, BecomeInactive(k, t, s), t, s)
  BY <1>1, BecomeInactiveMoves
<1>3. \A u \in Thread : StateOK(k, u)
  BY DEF Sound
<1>4. Sound(BecomeInactive(k, t, s))
  BY <1>1, <1>2, <1>3, MovesSound DEF Moves
<1>5. QED BY <1>2, <1>4 DEF Moves, Changes

\* _become_active for a thread that has been stopped.
LEMMA RestartSound ==
  ASSUME NEW k, Sound(k), NEW t \in Thread, k.th[t].state = "AWAITS_RESTART"
  PROVE  Sound(BecomeActive(k, t)) /\ BecomeActive(k, t).event = k.event
<1>1. /\ k \in KernelState /\ BooksOK(k) /\ Apart(k, t) /\ ShareOK(k, t)
      /\ ~k.misused => /\ k.th[t].ipc = "INACTIVE" /\ ~HelpsOutbufDst(k, t)
                       /\ k.th[t].cpu \in affinity[t]
  BY SoundActive DEF Live
<1>2. Moves(k, BecomeActive(k, t), t, "ACTIVE")
  BY <1>1, BecomeActiveMoves
<1>3. \A u \in Thread : StateOK(k, u)
  BY DEF Sound
<1>4. Sound(BecomeActive(k, t))
  BY <1>1, <1>2, <1>3, MovesSound DEF Moves
<1>5. QED BY <1>2, <1>4 DEF Moves, Changes

\* Thread t becomes object o, and nothing else changes
OnlyThread(k, m, t, o) ==
  /\ m \in KernelState /\ m.panic = k.panic /\ m.serving = k.serving /\ m.dropped = k.dropped
     /\ m.misused = k.misused /\ m.event = k.event
  /\ m.th[t] = o
  /\ \A u \in Thread \ {t} : m.th[u] = k.th[u]

\* Assignment to a thread changes nothing else.
LEMMA ThreadSet ==
  ASSUME NEW k \in KernelState, NEW t \in Thread, NEW o \in ThreadObject,
         NEW m, m = [k EXCEPT !.th[t] = o]
  PROVE  OnlyThread(k, m, t, o)
<1>1. k.th \in [Thread -> ThreadObject]
  BY StateFields
<1>2. m.th = [k.th EXCEPT ![t] = o]
      /\ m.panic = k.panic /\ m.serving = k.serving /\ m.dropped = k.dropped
         /\ m.misused = k.misused /\ m.event = k.event
  BY DEF KernelState
<1>3. m.th \in [Thread -> ThreadObject]
  BY <1>1, <1>2
<1>4. m \in KernelState
  BY <1>2, <1>3 DEF KernelState
<1>5. m.th[t] = o /\ \A u \in Thread \ {t} : m.th[u] = k.th[u]
  BY <1>1, <1>2
<1>6. QED BY <1>2, <1>4, <1>5 DEF OnlyThread

\* Books stay in order if no request is announced, received or withdrawn.
LEMMA SameBooks ==
  ASSUME NEW k \in KernelState, NEW m \in KernelState, BooksOK(k),
         m.serving = k.serving, m.dropped = k.dropped, k.misused => m.misused,
         \A u \in Thread :
           /\ m.th[u].caller = k.th[u].caller /\ m.th[u].queue = k.th[u].queue
           /\ m.th[u].callee = k.th[u].callee /\ m.th[u].help = k.th[u].help
           /\ m.th[u].ipc = "AWAIT_REPLY" <=> k.th[u].ipc = "AWAIT_REPLY"
           /\ k.th[u].state # "ABSENT" => m.th[u].state # "ABSENT"
           /\ ~k.misused /\ HelpsOutbufDst(k, u) =>
                /\ m.th[u].cpu = k.th[u].cpu
                /\ m.th[k.th[u].callee].cpu = k.th[k.th[u].callee].cpu
  PROVE  BooksOK(m)
<1>1. ASSUME NEW u \in Thread, NEW d \in Thread PROVE Announced(m, u, d)
  <2>1. Announced(k, u, d)
    BY DEF BooksOK
  <2>2. QED BY <2>1 DEF Announced, WaitsOn, Has
<1>2. ASSUME NEW u \in Thread PROVE InbufOK(m, u)
  <2>1. InbufOK(k, u)
    BY DEF BooksOK
  <2>2. QED BY <2>1 DEF InbufOK
<1>3. ASSUME NEW u \in Thread PROVE OutbufOK(m, u)
  <2>1. OutbufOK(k, u)
    BY DEF BooksOK
  <2>2. k.th[u].ipc = "AWAIT_REPLY" => k.th[u].callee \in Thread
    BY BooksTypes
  <2>3. QED BY <2>1, <2>2 DEF OutbufOK, HelpsOutbufDst
<1>4. ~m.misused => NoCircle(m)
  BY FewerHelpers DEF HelpsOutbufDst
<1>5. QED BY <1>1, <1>2, <1>3, <1>4 DEF BooksOK

\* Shares stay in accord if nothing they depend on changes.
LEMMA SameShares ==
  ASSUME NEW k \in KernelState, BooksOK(k), NEW m, NEW t \in Thread, ShareOK(k, t),
         \A u \in Thread : m.th[u].share = k.th[u].share,
         HelpsOutbufDst(m, t) <=> HelpsOutbufDst(k, t),
         m.th[t].callee = k.th[t].callee, k.misused => m.misused,
         m.th[t].state = k.th[t].state, m.th[t].paused = k.th[t].paused
  PROVE  ShareOK(m, t)
<1>1. HelpsOutbufDst(k, t) => k.th[t].callee \in Thread
  BY BooksTypes DEF HelpsOutbufDst
<1>2. QED BY <1>1 DEF ShareOK, ShareFits

\* A change of nothing but shares, assertions and misuse keeps the books.
LEMMA KeptBooks ==
  ASSUME NEW k \in KernelState, BooksOK(k), NEW m, m \in KernelState, SameThreads(k, m),
         m.serving = k.serving, m.dropped = k.dropped, k.misused => m.misused
  PROVE  BooksOK(m)
<1>1. \A u \in Thread :
        /\ m.th[u].caller = k.th[u].caller /\ m.th[u].queue = k.th[u].queue
        /\ m.th[u].callee = k.th[u].callee /\ m.th[u].help = k.th[u].help
        /\ m.th[u].ipc = k.th[u].ipc /\ m.th[u].state = k.th[u].state
        /\ m.th[u].cpu = k.th[u].cpu
  BY DEF SameThreads
<1>2. \A u \in Thread : HelpsOutbufDst(k, u) =>
        /\ m.th[u].cpu = k.th[u].cpu
        /\ m.th[k.th[u].callee].cpu = k.th[k.th[u].callee].cpu
  BY <1>1, BooksTypes DEF HelpsOutbufDst
<1>3. QED BY <1>1, <1>2, SameBooks

\* _call_start_thread
LEMMA StartSound ==
  ASSUME NEW k, Sound(k), NEW t \in Thread, NEW c \in Cpu, k.th[t].state = "AWAITS_START",
         c \in affinity[t],
         NEW m, m = BecomeActive([k EXCEPT !.th[t].cpu = c], t)
  PROVE  Sound(m) /\ m.event = k.event
<1> DEFINE o == [k.th[t] EXCEPT !.cpu = c]
           a == [k EXCEPT !.th[t].cpu = c]
<1>1. /\ k \in KernelState /\ NoFailure(k) /\ BooksOK(k) /\ ShareOK(k, t)
      /\ ~k.misused => /\ k.th[t].ipc = "INACTIVE" /\ ~HelpsOutbufDst(k, t)
                       /\ k.th[t].cpu = None
  BY SoundActive DEF StateOK, StateFits, Live
<1>a. k.th[t] \in ThreadObject
  BY <1>1, StateFields
<1>2. k.th[t] \in ThreadObject /\ o \in ThreadObject
  BY <1>a DEF ThreadObject
<1>3. a = [k EXCEPT !.th[t] = o]
  BY <1>1 DEF KernelState
<1>4. o.cpu = c /\ o.state = "AWAITS_START" /\ o.share = k.th[t].share
      /\ o.paused = k.th[t].paused /\ o.ipc = k.th[t].ipc /\ o.caller = k.th[t].caller
      /\ o.callee = k.th[t].callee /\ o.help = k.th[t].help /\ o.queue = k.th[t].queue
  BY <1>1, <1>2 DEF ThreadObject
<1> HIDE DEF o
<1>5. OnlyThread(k, a, t, o)
  BY <1>1, <1>2, <1>3, ThreadSet
<1> HIDE DEF a
<1> USE DEF OnlyThread
<1>6. \A u \in Thread :
        /\ a.th[u].caller = k.th[u].caller /\ a.th[u].queue = k.th[u].queue
        /\ a.th[u].callee = k.th[u].callee /\ a.th[u].help = k.th[u].help
        /\ a.th[u].ipc = k.th[u].ipc /\ a.th[u].share = k.th[u].share
        /\ a.th[u].state = k.th[u].state /\ a.th[u].paused = k.th[u].paused
        /\ u # t => a.th[u].cpu = k.th[u].cpu
  BY <1>1, <1>4, <1>5
<1>7. ASSUME NEW u \in Thread, ~k.misused, HelpsOutbufDst(k, u)
      PROVE  u # t /\ k.th[u].callee \in Thread \ {t}
  <2>1. k.th[u].ipc = "AWAIT_REPLY" /\ k.th[u].callee \in Thread
    BY <1>1, <1>7, BooksTypes DEF HelpsOutbufDst
  <2>2. k.th[k.th[u].callee].cpu = k.th[u].cpu
    BY <1>1, <1>7, <2>1 DEF BooksOK, OutbufOK, HelpsOutbufDst
  <2>3. StateFits(k, u)
    BY <1>7 DEF Sound, StateOK
  <2>4. k.th[u].cpu \in Cpu /\ None \notin Cpu
    BY <2>1, <2>3, ThreadAssumption DEF StateFits, Live
  <2>5. QED BY <1>1, <1>7, <2>1, <2>2, <2>4
<1>8. ~Live(k, t) /\ (\A u \in Thread : Live(a, u) <=> Live(k, u))
  BY <1>6 DEF Live
<1>9. BooksOK(a)
  <2>1. \A u \in Thread : ~k.misused /\ HelpsOutbufDst(k, u) =>
           a.th[u].cpu = k.th[u].cpu /\ a.th[k.th[u].callee].cpu = k.th[k.th[u].callee].cpu
    BY <1>6, <1>7
  <2>2. a \in KernelState /\ a.serving = k.serving /\ a.dropped = k.dropped /\ a.misused = k.misused
    BY <1>5
  <2>3. QED BY <1>1, <1>6, <2>1, <2>2, SameBooks
<1>10. \A u \in Thread : HelpsOutbufDst(a, u) <=> HelpsOutbufDst(k, u)
  BY <1>6 DEF HelpsOutbufDst
<1>11. ASSUME NEW u \in Thread PROVE ShareOK(a, u)
  BY <1>1, <1>5, <1>6, <1>10, SameShares DEF Sound
<1>12. Apart(a, t) /\ a \in KernelState
  BY <1>1, <1>5, <1>9, <1>11, BooksApart DEF NoFailure
<1>13. Moves(a, m, t, "ACTIVE")
  BY <1>1, <1>5, <1>10, <1>11, <1>12, BecomeActiveMoves DEF a
<1>14. ASSUME NEW u \in Thread \ {t} PROVE StateOK(a, u)
  <2>1. StateOK(k, u)
    BY DEF Sound
  <2>2. QED BY <1>5, <1>6, <1>8, <2>1 DEF StateOK, StateFits
<1>15. a.th[t].cpu \in affinity[t] /\ (~a.misused => a.th[t].ipc = "INACTIVE")
  BY <1>1, <1>4, <1>5
<1>16. Sound(m)
  BY <1>9, <1>12, <1>13, <1>14, <1>15, MovesSound DEF Moves
<1>17. QED BY <1>5, <1>13, <1>16 DEF Moves, Changes

\* The state is sound but for the share of thread t
SoundBut(k, t) ==
  /\ k \in KernelState
  /\ NoFailure(k)
  /\ BooksOK(k)
  /\ \A u \in Thread : StateOK(k, u)
  /\ \A u \in Thread \ {t} : ShareOK(k, u)

\* What pausing and resuming assign: nothing but whether thread t is paused changes.
LEMMA PausedSet ==
  ASSUME NEW k, NEW t \in Thread, SoundBut(k, t), NEW b \in BOOLEAN,
         ~k.misused =>
           (k.th[t].share <=> IF HelpsOutbufDst(k, t) THEN k.th[k.th[t].callee].share
                              ELSE k.th[t].state = "ACTIVE" /\ ~b)
  PROVE  /\ Sound([k EXCEPT !.th[t].paused = b])
         /\ [k EXCEPT !.th[t].paused = b].event = k.event
<1> DEFINE o == [k.th[t] EXCEPT !.paused = b]
           m == [k EXCEPT !.th[t].paused = b]
<1>1. /\ k \in KernelState /\ NoFailure(k) /\ BooksOK(k)
      /\ (\A u \in Thread : StateOK(k, u)) /\ \A u \in Thread \ {t} : ShareOK(k, u)
  BY DEF SoundBut
<1>a. k.th[t] \in ThreadObject
  BY <1>1, StateFields
<1>2. o \in ThreadObject
  BY <1>a DEF ThreadObject
<1>3. m = [k EXCEPT !.th[t] = o]
  BY <1>1 DEF KernelState
<1>4. o.paused = b /\ o.state = k.th[t].state /\ o.share = k.th[t].share /\ o.cpu = k.th[t].cpu
      /\ o.ipc = k.th[t].ipc /\ o.caller = k.th[t].caller
      /\ o.callee = k.th[t].callee /\ o.help = k.th[t].help /\ o.queue = k.th[t].queue
  BY <1>a DEF ThreadObject
<1> HIDE DEF o
<1>5. OnlyThread(k, m, t, o)
  BY <1>1, <1>2, <1>3, ThreadSet
<1> USE DEF OnlyThread
<1> HIDE DEF m
<1>6. \A u \in Thread :
        /\ m.th[u].caller = k.th[u].caller /\ m.th[u].queue = k.th[u].queue
        /\ m.th[u].callee = k.th[u].callee /\ m.th[u].help = k.th[u].help
        /\ m.th[u].ipc = k.th[u].ipc /\ m.th[u].share = k.th[u].share
        /\ m.th[u].state = k.th[u].state /\ m.th[u].cpu = k.th[u].cpu
        /\ u # t => m.th[u].paused = k.th[u].paused
  BY <1>4, <1>5
<1>7. \A u \in Thread : HelpsOutbufDst(k, u) =>
        m.th[u].cpu = k.th[u].cpu /\ m.th[k.th[u].callee].cpu = k.th[k.th[u].callee].cpu
  BY <1>1, <1>6, BooksTypes DEF HelpsOutbufDst
<1>8. \A u \in Thread : Live(m, u) <=> Live(k, u)
  BY <1>6 DEF Live
<1>9. BooksOK(m) /\ m \in KernelState /\ NoFailure(m) /\ m.event = k.event
  <2>1. m \in KernelState /\ m.serving = k.serving /\ m.dropped = k.dropped
        /\ m.misused = k.misused /\ NoFailure(m) /\ m.event = k.event
    BY <1>1, <1>5 DEF NoFailure
  <2> HIDE DEF OnlyThread
  <2>2. BooksOK(m)
    BY <1>1, <1>6, <1>7, <2>1, SameBooks
  <2>3. QED BY <2>1, <2>2
<1>10. \A u \in Thread : HelpsOutbufDst(m, u) <=> HelpsOutbufDst(k, u)
  BY <1>6 DEF HelpsOutbufDst
<1>11. ASSUME NEW u \in Thread PROVE ShareOK(m, u)
  <2>1. CASE u = t
    <3>1. HelpsOutbufDst(k, t) => k.th[t].callee \in Thread
      BY <1>1, BooksTypes DEF HelpsOutbufDst
    <3>2. m.th[t].paused = b
      BY <1>4, <1>5
    <3>3. m.misused = k.misused
      BY <1>5
    <3>4. QED BY <1>6, <1>10, <2>1, <3>1, <3>2, <3>3 DEF ShareOK, ShareFits
  <2>2. CASE u # t
    <3>1. ShareOK(k, u) /\ m.misused = k.misused
      BY <1>1, <1>5, <2>2
    <3>2. QED BY <1>1, <1>6, <1>10, <2>2, <3>1, SameShares
  <2>3. QED BY <2>1, <2>2
<1>12. ASSUME NEW u \in Thread PROVE StateOK(m, u)
  <2>1. StateOK(k, u)
    BY <1>1
  <2>2. m.misused = k.misused
    BY <1>5
  <2>3. QED BY <1>6, <1>8, <2>1, <2>2 DEF StateOK, StateFits
<1>13. Sound(m)
  BY <1>9, <1>11, <1>12 DEF Sound
<1>14. QED BY <1>9, <1>13 DEF m

\* What switching shares leaves in order.
LEMMA SwitchedBooks ==
  ASSUME NEW k, NEW t \in Thread, SoundBut(k, t), NEW b, NEW m, Switched(k, m, t, b)
  PROVE  SoundBut(m, t) /\ m.event = k.event
<1>1. /\ m \in KernelState /\ NoFailure(m) /\ m.serving = k.serving /\ m.dropped = k.dropped
         /\ m.misused = k.misused /\ m.event = k.event
      /\ SameThreads(k, m) /\ \A u \in Thread \ {t} : ShareOK(m, u)
  BY DEF Switched, NoFailure, ShareOK
<1>2. k \in KernelState /\ BooksOK(k)
  BY DEF SoundBut
<1> USE DEF SameThreads
<1>4. \A u \in Thread : Live(m, u) <=> Live(k, u)
  BY <1>1 DEF Live
<1>5. BooksOK(m)
  BY <1>1, <1>2, KeptBooks
<1>6. ASSUME NEW u \in Thread PROVE StateOK(m, u)
  <2>1. StateOK(k, u)
    BY DEF SoundBut
  <2>2. QED BY <1>1, <1>4, <2>1 DEF StateOK, StateFits
<1>7. QED BY <1>1, <1>5, <1>6 DEF SoundBut

\* After a misuse, switching shares leaves the rest in order, too.
LEMMA KeptSoundBut ==
  ASSUME NEW k \in KernelState, BooksOK(k), NEW t \in Thread, NEW m, Keeps(k, m), k.misused,
         \A u \in Thread : StateOK(k, u)
  PROVE  SoundBut(m, t) /\ m.event = k.event /\ m.misused
<1>1. BooksOK(m) /\ m \in KernelState /\ m.misused /\ m.event = k.event
  BY KeptBooks DEF Keeps
<1>2. \A u \in Thread : StateOK(m, u)
  BY <1>1 DEF Keeps, SameThreads, StateOK
<1>3. QED BY <1>1, <1>2 DEF SoundBut, NoFailure, ShareOK

\* _call_pause_thread
LEMMA PauseSound ==
  ASSUME NEW k, Sound(k), NEW t \in Thread, NEW c \in Cpu
  PROVE  LET d == IF k.th[t].state = "ACTIVE" /\ ~k.th[t].paused
                  THEN Deactivate(Presume(k, k.th[t].cpu = c), UsedShares(k, t), c)
                  ELSE k
             m == [d EXCEPT !.th[t].paused = TRUE]
         IN  Sound(m) /\ m.event = k.event
<1> DEFINE p == Presume(k, k.th[t].cpu = c)
           d == IF k.th[t].state = "ACTIVE" /\ ~k.th[t].paused
                THEN Deactivate(p, UsedShares(k, t), c)
                ELSE k
           m == [d EXCEPT !.th[t].paused = TRUE]
<1>1. /\ k \in KernelState /\ NoFailure(k) /\ BooksOK(k) /\ Apart(k, t) /\ ShareOK(k, t)
      /\ ~k.misused /\ k.th[t].state # "AWAITS_IPC" =>
           k.th[t].ipc = "INACTIVE" /\ ~HelpsOutbufDst(k, t)
      /\ SoundBut(k, t)
  BY SoundActive DEF Sound, SoundBut
<1>2. CASE k.th[t].state = "ACTIVE" /\ ~k.th[t].paused
  <2>1. d = Deactivate(p, UsedShares(k, t), c)
    BY <1>2
  <2> HIDE DEF d
  <2>2. CASE k.misused \/ k.th[t].cpu # c
    <3>1. p \in KernelState /\ SameThreads(k, p) /\ p.serving = k.serving
          /\ p.dropped = k.dropped /\ p.misused = TRUE /\ p.event = k.event
      BY <1>1, <2>2 DEF Presume, KernelState, SameThreads
    <3> HIDE DEF p
    <3>2. BooksOK(p) /\ \A u \in Thread : StateOK(p, u)
      BY <1>1, <3>1, KeptBooks DEF SoundBut, StateOK, SameThreads
    <3>3. Keeps(p, d)
      BY <2>1, <3>1, UsedThreads, KeepsRest
    <3>4. SoundBut(d, t) /\ d.event = p.event /\ d.misused
      BY <3>1, <3>2, <3>3, KeptSoundBut
    <3>5. Sound(m) /\ m.event = d.event
      BY <3>4, PausedSet
    <3>6. QED BY <3>1, <3>4, <3>5 DEF d, p
  <2>3. CASE ~k.misused /\ k.th[t].cpu = c
    <3>1. k.th[t].share /\ ~HelpsOutbufDst(k, t)
      BY <1>1, <1>2, <2>3 DEF ShareOK, ShareFits
    <3>2. p = k
      BY <1>1, <2>3, PresumeHolds
    <3> HIDE DEF p
    <3>3. Switched(k, d, t, FALSE)
      BY <1>1, <2>1, <2>3, <3>1, <3>2, DeactivateUsed DEF Apart
    <3>4. SoundBut(d, t) /\ d.event = k.event
      BY <1>1, <3>3, SwitchedBooks
    <3>5. ~d.th[t].share /\ ~HelpsOutbufDst(d, t)
      BY <3>1, <3>3 DEF Switched, SameThreads, HelpsOutbufDst
    <3>6. Sound(m) /\ m.event = d.event
      BY <3>4, <3>5, PausedSet
    <3>7. QED BY <3>4, <3>6 DEF d, p
  <2>4. QED BY <2>2, <2>3
<1>3. CASE ~(k.th[t].state = "ACTIVE" /\ ~k.th[t].paused)
  <2>1. d = k
    BY <1>3
  <2>2. ~k.misused =>
          (k.th[t].share <=> IF HelpsOutbufDst(k, t) THEN k.th[k.th[t].callee].share
                             ELSE k.th[t].state = "ACTIVE" /\ ~TRUE)
    BY <1>1, <1>3 DEF ShareOK, ShareFits
  <2> HIDE DEF d
  <2>3. Sound(m) /\ m.event = k.event
    BY <1>1, <2>1, <2>2, PausedSet
  <2>4. QED BY <2>3 DEF d
<1>4. QED BY <1>2, <1>3

\* _call_resume_thread
LEMMA ResumeSound ==
  ASSUME NEW k, Sound(k), NEW t \in Thread
  PROVE  LET a == IF k.th[t].state = "ACTIVE" /\ k.th[t].paused
                  THEN Activate(k, UsedShares(k, t))
                  ELSE k
             m == [a EXCEPT !.th[t].paused = FALSE]
         IN  Sound(m) /\ m.event = k.event
<1> DEFINE a == IF k.th[t].state = "ACTIVE" /\ k.th[t].paused
                THEN Activate(k, UsedShares(k, t))
                ELSE k
           m == [a EXCEPT !.th[t].paused = FALSE]
<1>1. /\ k \in KernelState /\ NoFailure(k) /\ BooksOK(k) /\ Apart(k, t) /\ ShareOK(k, t)
      /\ ~k.misused /\ k.th[t].state # "AWAITS_IPC" =>
           k.th[t].ipc = "INACTIVE" /\ ~HelpsOutbufDst(k, t)
      /\ SoundBut(k, t)
  BY SoundActive DEF Sound, SoundBut
<1>2. CASE k.th[t].state = "ACTIVE" /\ k.th[t].paused
  <2>1. a = Activate(k, UsedShares(k, t))
    BY <1>2
  <2> HIDE DEF a
  <2>2. CASE k.misused
    <3>1. Keeps(k, a)
      BY <1>1, <2>1, UsedThreads, KeepsRest
    <3>2. SoundBut(a, t) /\ a.event = k.event /\ a.misused
      BY <1>1, <2>2, <3>1, KeptSoundBut DEF SoundBut
    <3>3. Sound(m) /\ m.event = a.event
      BY <3>2, PausedSet
    <3>4. QED BY <3>2, <3>3 DEF a
  <2>3. CASE ~k.misused
    <3>1. ~k.th[t].share /\ ~HelpsOutbufDst(k, t)
      BY <1>1, <1>2, <2>3 DEF ShareOK, ShareFits
    <3>2. Switched(k, a, t, TRUE)
      BY <1>1, <2>1, <2>3, <3>1, ActivateUsed DEF Apart
    <3>3. SoundBut(a, t) /\ a.event = k.event
      BY <1>1, <3>2, SwitchedBooks
    <3>4. a.th[t].share /\ ~HelpsOutbufDst(a, t) /\ a.th[t].state = "ACTIVE"
      BY <1>2, <3>1, <3>2 DEF Switched, SameThreads, HelpsOutbufDst
    <3>5. Sound(m) /\ m.event = a.event
      BY <3>3, <3>4, PausedSet
    <3>6. QED BY <3>3, <3>5 DEF a
  <2>4. QED BY <2>2, <2>3
<1>3. CASE ~(k.th[t].state = "ACTIVE" /\ k.th[t].paused)
  <2>1. a = k
    BY <1>3
  <2>2. ~k.misused =>
          (k.th[t].share <=> IF HelpsOutbufDst(k, t) THEN k.th[k.th[t].callee].share
                             ELSE k.th[t].state = "ACTIVE" /\ ~FALSE)
    BY <1>1, <1>3 DEF ShareOK, ShareFits
  <2> HIDE DEF a
  <2>3. Sound(m) /\ m.event = k.event
    BY <1>1, <2>1, <2>2, PausedSet
  <2>4. QED BY <2>3 DEF a
<1>4. QED BY <1>2, <1>3

\* The state is sound but for the IPC state of thread t, which helps nobody
Settled(k, t) ==
  /\ k \in KernelState /\ NoFailure(k)
  /\ BooksOK(k)
  /\ \A u \in Thread : ShareOK(k, u)
  /\ \A u \in Thread \ {t} : StateOK(k, u)
  /\ ~k.misused => ~HelpsOutbufDst(k, t) /\ k.th[t].cpu \in affinity[t]

\* A settled thread may move.
LEMMA SettledMoves ==
  ASSUME NEW k, NEW t \in Thread, Settled(k, t)
  PROVE  /\ Apart(k, t) /\ (~k.misused => ~HelpsOutbufDst(k, t)) /\ ShareOK(k, t)
         /\ \A m, s : Moves(k, m, t, s) /\ s \notin {"ABSENT", "AWAITS_START"}
                      /\ (~m.misused => k.th[t].ipc = "INACTIVE" \/ s = "AWAITS_IPC")
                        => Sound(m) /\ m.event = k.event
<1>1. /\ k \in KernelState /\ NoFailure(k) /\ BooksOK(k)
      /\ ~k.misused => ~HelpsOutbufDst(k, t) /\ k.th[t].cpu \in affinity[t]
      /\ \A u \in Thread : ShareOK(k, u)
      /\ \A u \in Thread \ {t} : StateOK(k, u)
  BY DEF Settled
<1>2. Apart(k, t)
  BY <1>1, BooksApart
<1>3. ASSUME NEW m, NEW s, Moves(k, m, t, s), s \notin {"ABSENT", "AWAITS_START"},
             ~m.misused => k.th[t].ipc = "INACTIVE" \/ s = "AWAITS_IPC"
      PROVE  Sound(m) /\ m.event = k.event
  <2>1. k.misused => m.misused
    BY <1>3 DEF Moves
  <2>2. Sound(m)
    BY <1>1, <1>3, <2>1, MovesSound
  <2>3. m.event = k.event
    BY <1>3 DEF Moves, Changes
  <2>4. QED BY <2>2, <2>3
<1>4. QED BY <1>1, <1>2, <1>3

\* A thread that awaits no reply begins or ends to await a request.
LEMMA IpcSet ==
  ASSUME NEW k, Sound(k), NEW t \in Thread, ~k.misused => Live(k, t),
         k.th[t].ipc # "AWAIT_REPLY", NEW x \in {"INACTIVE", "AWAIT_REQUEST"}
  PROVE  LET a == [k EXCEPT !.th[t].ipc = x]
         IN  Settled(a, t) /\ a.event = k.event /\ a.th[t].ipc = x /\ a.th[t].state = k.th[t].state
             /\ a.misused = k.misused
<1> DEFINE o == [k.th[t] EXCEPT !.ipc = x]
           a == [k EXCEPT !.th[t].ipc = x]
<1>1. /\ k \in KernelState /\ NoFailure(k) /\ BooksOK(k)
      /\ ~k.misused => k.th[t].cpu \in affinity[t]
  BY SoundActive
<1>2. k.th[t] \in ThreadObject
  BY <1>1, StateFields
<1>3. o \in ThreadObject
  BY <1>2 DEF ThreadObject, IpcState
<1>4. a = [k EXCEPT !.th[t] = o]
  BY <1>1 DEF KernelState
<1>5. o.ipc = x /\ o.state = k.th[t].state /\ o.share = k.th[t].share /\ o.cpu = k.th[t].cpu
      /\ o.paused = k.th[t].paused /\ o.caller = k.th[t].caller
      /\ o.callee = k.th[t].callee /\ o.help = k.th[t].help /\ o.queue = k.th[t].queue
  BY <1>2 DEF ThreadObject
<1> HIDE DEF o
<1>6. OnlyThread(k, a, t, o)
  BY <1>1, <1>3, <1>4, ThreadSet
<1> HIDE DEF a
<1>7. \A u \in Thread :
        /\ a.th[u].caller = k.th[u].caller /\ a.th[u].queue = k.th[u].queue
        /\ a.th[u].callee = k.th[u].callee /\ a.th[u].help = k.th[u].help
        /\ a.th[u].share = k.th[u].share /\ a.th[u].paused = k.th[u].paused
        /\ a.th[u].state = k.th[u].state /\ a.th[u].cpu = k.th[u].cpu
        /\ u # t => a.th[u].ipc = k.th[u].ipc
  BY <1>5, <1>6 DEF OnlyThread
<1>8. /\ a \in KernelState /\ a.panic = k.panic /\ a.serving = k.serving /\ a.dropped = k.dropped
         /\ a.misused = k.misused /\ a.event = k.event
      /\ a.th[t].ipc = x
  BY <1>1, <1>5, <1>6 DEF OnlyThread
<1>9. /\ \A u \in Thread : a.th[u].ipc = "AWAIT_REPLY" <=> k.th[u].ipc = "AWAIT_REPLY"
      /\ \A u \in Thread : HelpsOutbufDst(k, u) => k.th[u].callee \in Thread
  BY <1>1, <1>7, <1>8, BooksTypes DEF HelpsOutbufDst
<1>10. \A u \in Thread : Live(a, u) <=> Live(k, u)
  BY <1>7 DEF Live
<1>11. BooksOK(a)
  BY <1>1, <1>7, <1>8, <1>9, <1>10, SameBooks
<1>12. \A u \in Thread : HelpsOutbufDst(a, u) <=> HelpsOutbufDst(k, u)
  BY <1>7, <1>9 DEF HelpsOutbufDst
<1>13. \A u \in Thread : ShareOK(a, u)
  <2>1. TAKE u \in Thread
  <2>2. ShareOK(k, u)
    BY DEF Sound
  <2>3. QED BY <1>1, <1>7, <1>8, <1>12, <2>2, SameShares
<1>14. \A u \in Thread \ {t} : StateOK(a, u)
  <2>1. TAKE u \in Thread \ {t}
  <2>2. StateOK(k, u)
    BY DEF Sound
  <2>3. QED BY <1>7, <1>8, <1>10, <2>2 DEF StateOK, StateFits
<1>15. ~HelpsOutbufDst(a, t)
  BY <1>8 DEF HelpsOutbufDst
<1>16. Settled(a, t)
  BY <1>1, <1>7, <1>8, <1>11, <1>13, <1>14, <1>15 DEF Settled, NoFailure
<1>17. QED BY <1>7, <1>8, <1>16 DEF a

\* The queue of thread t becomes q, and nothing else changes
OnlyQueue(k, m, t, q) ==
  /\ m \in KernelState /\ m.panic = k.panic /\ m.serving = k.serving /\ m.dropped = k.dropped
     /\ m.misused = k.misused /\ m.event = k.event
  /\ m.th[t].queue = q
  /\ \A u \in Thread :
       /\ u # t => m.th[u].queue = k.th[u].queue
       /\ m.th[u].state = k.th[u].state /\ m.th[u].share = k.th[u].share
       /\ m.th[u].paused = k.th[u].paused /\ m.th[u].cpu = k.th[u].cpu
       /\ m.th[u].ipc = k.th[u].ipc /\ m.th[u].callee = k.th[u].callee
       /\ m.th[u].help = k.th[u].help /\ m.th[u].caller = k.th[u].caller

\* Assignment to a queue changes nothing else.
LEMMA QueueSet ==
  ASSUME NEW k \in KernelState, NEW t \in Thread, NEW q \in Seq(Thread)
  PROVE  OnlyQueue(k, [k EXCEPT !.th[t].queue = q], t, q)
<1> DEFINE o == [k.th[t] EXCEPT !.queue = q]
           m == [k EXCEPT !.th[t].queue = q]
<1>1. k.th[t] \in ThreadObject
  BY StateFields
<1>2. o \in ThreadObject
  BY <1>1 DEF ThreadObject
<1>3. m = [k EXCEPT !.th[t] = o]
  BY DEF KernelState
<1>4. o.queue = q /\ o.state = k.th[t].state /\ o.share = k.th[t].share /\ o.cpu = k.th[t].cpu
      /\ o.paused = k.th[t].paused /\ o.ipc = k.th[t].ipc
      /\ o.callee = k.th[t].callee /\ o.help = k.th[t].help /\ o.caller = k.th[t].caller
  BY <1>1 DEF ThreadObject
<1> HIDE DEF o
<1>5. OnlyThread(k, m, t, o)
  BY <1>2, <1>3, ThreadSet
<1> HIDE DEF m
<1>6. OnlyQueue(k, m, t, q)
  BY <1>4, <1>5 DEF OnlyThread, OnlyQueue
<1>7. QED BY <1>6 DEF m

\* Thread t has the request of thread c in its inbuf and gives up the one that it had there, which
\* is a misuse if that one helps; nothing else changes
OnlyReceives(k, m, t, c) ==
  /\ m \in KernelState /\ m.panic = k.panic /\ m.event = k.event
  /\ m.serving[c] = t /\ \A u \in Thread \ {c} : m.serving[u] = k.serving[u]
  /\ \A u \in Thread : u \in m.dropped <=> u \in k.dropped \/ u = k.th[t].caller
  /\ m.misused <=> k.misused \/ (k.th[t].caller # None /\ HelpsOutbufDst(k, k.th[t].caller))
  /\ m.th[t].ipc = "INACTIVE" /\ m.th[t].caller = c
  /\ \A u \in Thread :
       /\ u # t => m.th[u].ipc = k.th[u].ipc /\ m.th[u].caller = k.th[u].caller
       /\ m.th[u].state = k.th[u].state /\ m.th[u].share = k.th[u].share
       /\ m.th[u].paused = k.th[u].paused /\ m.th[u].cpu = k.th[u].cpu
       /\ m.th[u].callee = k.th[u].callee /\ m.th[u].help = k.th[u].help
       /\ m.th[u].queue = k.th[u].queue

\* Ipc_node::_receive_request assigns to the server only.
LEMMA ReceivesSet ==
  ASSUME NEW k \in KernelState, NEW t \in Thread, NEW c \in Thread
  PROVE  OnlyReceives(k, ReceiveRequest(k, t, c), t, c)
<1> DEFINE o == [k.th[t] EXCEPT !.caller = c, !.ipc = "INACTIVE"]
           old == {k.th[t].caller} \ {None}
           x == \A u \in old : ~HelpsOutbufDst(k, u)
           m == ReceiveRequest(k, t, c)
<1>1. k.th \in [Thread -> ThreadObject] /\ k.serving \in [Thread -> Thread \cup {None}]
      /\ k.th[t] \in ThreadObject /\ k.dropped \in SUBSET Thread /\ k.misused \in BOOLEAN
      /\ None \notin Thread
  BY StateFields, ThreadAssumption
<1>2. o \in ThreadObject /\ old \in SUBSET Thread
  BY <1>1 DEF ThreadObject, IpcState
<1> DEFINE p == Presume(k, x)
<1>5. x <=> ~(k.th[t].caller # None /\ HelpsOutbufDst(k, k.th[t].caller))
  OBVIOUS
<1>a. m = [p EXCEPT !.th[t].caller = c, !.th[t].ipc = "INACTIVE",
                    !.serving[c] = t, !.dropped = @ \cup old]
  BY DEF ReceiveRequest
<1> HIDE DEF x, m
<1>b. p = [th |-> k.th, panic |-> k.panic, serving |-> k.serving,
           dropped |-> k.dropped, misused |-> (k.misused \/ ~x), event |-> k.event]
  BY DEF KernelState, Presume
<1>c. /\ p.th = k.th /\ p.panic = k.panic /\ p.serving = k.serving
      /\ p.dropped = k.dropped /\ p.event = k.event /\ p.misused = (k.misused \/ ~x)
  BY <1>b
<1>d. p \in KernelState
  BY <1>b DEF KernelState
<1> HIDE DEF p
<1>3. m = [p EXCEPT !.th[t] = o, !.serving[c] = t, !.dropped = @ \cup old]
  BY <1>1, <1>a, <1>c, <1>d DEF KernelState
<1>4. o.ipc = "INACTIVE" /\ o.callee = k.th[t].callee /\ o.help = k.th[t].help
      /\ o.state = k.th[t].state
      /\ o.share = k.th[t].share /\ o.paused = k.th[t].paused /\ o.cpu = k.th[t].cpu
      /\ o.queue = k.th[t].queue /\ o.caller = c
  BY <1>1 DEF ThreadObject
<1>6. \A u \in Thread : u \in k.dropped \cup old <=> u \in k.dropped \/ u = k.th[t].caller
  BY <1>1
<1> HIDE DEF o, old
<1>7. m.th = [k.th EXCEPT ![t] = o] /\ m.serving = [k.serving EXCEPT ![c] = t]
      /\ m.panic = k.panic /\ m.event = k.event /\ m.dropped = k.dropped \cup old
      /\ m.misused = p.misused
  BY <1>3, <1>c, <1>d DEF KernelState
<1>8. m.misused <=> k.misused \/ ~x
  BY <1>7, <1>c
<1>9. m \in KernelState
  <2>1. m.th \in [Thread -> ThreadObject] /\ m.serving \in [Thread -> Thread \cup {None}]
        /\ m.dropped \in SUBSET Thread
    BY <1>1, <1>2, <1>7
  <2>2. QED BY <1>3, <1>d, <2>1 DEF KernelState
<1>10. /\ m.th[t] = o /\ \A u \in Thread \ {t} : m.th[u] = k.th[u]
       /\ m.serving[c] = t /\ \A u \in Thread \ {c} : m.serving[u] = k.serving[u]
  BY <1>1, <1>7
<1>11. \A u \in Thread : u \in m.dropped <=> u \in k.dropped \/ u = k.th[t].caller
  BY <1>6, <1>7
<1>12. m.misused <=> k.misused \/ (k.th[t].caller # None /\ HelpsOutbufDst(k, k.th[t].caller))
  BY <1>5, <1>8
<1>13. OnlyReceives(k, m, t, c)
  BY <1>4, <1>7, <1>9, <1>10, <1>11, <1>12 DEF OnlyReceives
<1>14. QED BY <1>13 DEF m

\* Receiving the head of the request queue keeps the books.
LEMMA ReceiveSound ==
  ASSUME NEW k, Sound(k), NEW t \in Thread, k.th[t].ipc = "INACTIVE", k.th[t].queue # <<>>
  PROVE  LET m == ReceiveRequest([k EXCEPT !.th[t].queue = Tail(@)], t, Head(k.th[t].queue))
         IN  Sound(m) /\ m.event = k.event
<1> DEFINE q == k.th[t].queue
           c == Head(q)
           o == k.th[t].caller
           a == [k EXCEPT !.th[t].queue = Tail(@)]
           m == ReceiveRequest(a, t, c)
<1>1. /\ k \in KernelState /\ NoFailure(k) /\ BooksOK(k)
      /\ \A u \in Thread : StateOK(k, u) /\ ShareOK(k, u)
  BY DEF Sound
<1>a. None \notin Thread
  BY ThreadAssumption
<1>2. q \in Seq(Thread) /\ Distinct(q) /\ q # <<>>
      /\ (o # None => o \in Thread /\ o \notin Elems(q))
  BY <1>1, BooksTypes DEF BooksOK, InbufOK
<1>3. /\ c \in Thread /\ Tail(q) \in Seq(Thread)
      /\ Elems(q) = Elems(Tail(q)) \cup {c} /\ c \notin Elems(Tail(q)) /\ Distinct(Tail(q))
  BY <1>2, TailProps
<1>4. a = [k EXCEPT !.th[t].queue = Tail(q)]
  OBVIOUS
<1> HIDE DEF q, c, m, o
<1>5. OnlyQueue(k, a, t, Tail(q))
  BY <1>1, <1>3, <1>4, QueueSet
<1> HIDE DEF a
<1>6. /\ a \in KernelState /\ a.panic = k.panic /\ a.serving = k.serving /\ a.event = k.event
      /\ a.dropped = k.dropped /\ a.misused = k.misused
      /\ a.th[t].queue = Tail(q)
      /\ \A u \in Thread :
           /\ u # t => a.th[u].queue = k.th[u].queue
           /\ a.th[u].state = k.th[u].state /\ a.th[u].share = k.th[u].share
           /\ a.th[u].paused = k.th[u].paused /\ a.th[u].cpu = k.th[u].cpu
           /\ a.th[u].ipc = k.th[u].ipc /\ a.th[u].callee = k.th[u].callee
           /\ a.th[u].help = k.th[u].help /\ a.th[u].caller = k.th[u].caller
  BY <1>5 DEF OnlyQueue
<1>7. OnlyReceives(a, m, t, c)
  BY <1>3, <1>6, ReceivesSet DEF m
<1>8. /\ m \in KernelState /\ m.panic = k.panic /\ m.event = k.event
      /\ m.th[t].ipc = "INACTIVE" /\ m.th[t].caller = c /\ m.th[t].queue = Tail(q)
      /\ m.serving[c] = t /\ \A u \in Thread \ {c} : m.serving[u] = k.serving[u]
      /\ \A u \in Thread : u \in m.dropped <=> u \in k.dropped \/ u = o
  BY <1>6, <1>7 DEF OnlyReceives, o
<1>9. /\ k.misused => m.misused
      /\ o # None /\ HelpsOutbufDst(k, o) => m.misused
  BY <1>2, <1>6, <1>7 DEF OnlyReceives, HelpsOutbufDst, o
<1>10. \A u \in Thread :
         /\ m.th[u].callee = k.th[u].callee /\ m.th[u].help = k.th[u].help
         /\ m.th[u].share = k.th[u].share /\ m.th[u].paused = k.th[u].paused
         /\ m.th[u].state = k.th[u].state /\ m.th[u].cpu = k.th[u].cpu
         /\ m.th[u].ipc = k.th[u].ipc
         /\ u # t => m.th[u].caller = k.th[u].caller /\ m.th[u].queue = k.th[u].queue
  BY <1>6, <1>7, <1>8 DEF OnlyReceives
<1>11. \A u \in Thread : Has(m, t, u) <=> Has(k, t, u) /\ u # o
  <2>1. TAKE u \in Thread
  <2>2. Has(k, t, u) <=> u = o \/ u \in Elems(q)
    BY DEF Has, q, o
  <2>3. Has(m, t, u) <=> u = c \/ u \in Elems(Tail(q))
    BY <1>8 DEF Has
  <2>4. QED BY <1>a, <1>2, <1>3, <2>2, <2>3
<1>12. Has(k, t, c) /\ c # o /\ (o # None => Has(k, t, o))
  BY <1>a, <1>2, <1>3 DEF Has, q, o
<1>13. ASSUME NEW u \in Thread, NEW d \in Thread PROVE Announced(m, u, d)
  <2>1. Announced(k, u, d) /\ Announced(k, u, t)
    BY <1>1 DEF BooksOK
  <2>2. WaitsOn(m, u, d) <=> WaitsOn(k, u, d) /\ u # o
    BY <1>8, <1>10 DEF WaitsOn
  <2>3. CASE d = t
    BY <1>11, <2>1, <2>2, <2>3 DEF Announced
  <2>4. CASE d # t
    <3>1. Has(m, d, u) <=> Has(k, d, u)
      BY <1>10, <2>4 DEF Has
    <3>2. u = o => ~WaitsOn(k, u, d)
      BY <1>a, <1>12, <2>1, <2>4 DEF Announced, WaitsOn
    <3>3. QED BY <2>1, <2>2, <3>1, <3>2 DEF Announced
  <2>5. QED BY <2>3, <2>4
<1>14. ASSUME NEW u \in Thread PROVE InbufOK(m, u)
  <2>1. CASE u = t
    BY <1>3, <1>8, <2>1 DEF InbufOK
  <2>2. CASE u # t
    <3>1. InbufOK(k, u) /\ (k.th[u].caller # None => k.th[u].caller \in Thread)
      BY <1>1, BooksTypes DEF BooksOK
    <3>2. k.th[u].caller # c
      BY <1>1, <1>3, <1>12, <2>2 DEF BooksOK, Announced, WaitsOn, Has
    <3>3. QED BY <1>8, <1>10, <2>2, <3>1, <3>2 DEF InbufOK
  <2>3. QED BY <2>1, <2>2
<1>15. ASSUME NEW u \in Thread PROVE OutbufOK(m, u)
  <2>1. OutbufOK(k, u) /\ (k.th[u].ipc = "AWAIT_REPLY" => k.th[u].callee \in Thread)
    BY <1>1, BooksTypes DEF BooksOK
  <2>2. ~m.misused /\ k.th[u].ipc = "AWAIT_REPLY" /\ k.th[u].help => ~k.misused /\ u # o
    BY <1>a, <1>9 DEF HelpsOutbufDst
  <2>3. QED BY <1>8, <1>10, <2>1, <2>2 DEF OutbufOK
<1>b. ~m.misused => NoCircle(m)
  BY <1>1, <1>9, <1>10, FewerHelpers DEF HelpsOutbufDst
<1>16. BooksOK(m)
  BY <1>13, <1>14, <1>15, <1>b DEF BooksOK
<1>17. ASSUME NEW u \in Thread PROVE ShareOK(m, u)
  <2>1. ShareOK(k, u) /\ (HelpsOutbufDst(m, u) <=> HelpsOutbufDst(k, u))
    BY <1>1, <1>10 DEF HelpsOutbufDst
  <2>2. QED BY <1>1, <1>9, <1>10, <2>1, SameShares
<1>18. ASSUME NEW u \in Thread PROVE StateOK(m, u)
  BY <1>1, <1>9, <1>10 DEF StateOK, StateFits, Live
<1>19. NoFailure(m)
  BY <1>1, <1>8, <1>9 DEF NoFailure
<1>20. Sound(m) /\ m.event = k.event
  BY <1>8, <1>16, <1>17, <1>18, <1>19 DEF Sound
<1>21. QED BY <1>20 DEF m, a, c, q

\* _call_await_request_msg, also if the request in the inbuf has not been answered
LEMMA AwaitSound ==
  ASSUME NEW k, Sound(k), NEW t \in Thread, ~k.misused => k.th[t].state = "ACTIVE"
  PROVE  Sound(AwaitRequestMsg(k, t)) /\ AwaitRequestMsg(k, t).event = k.event
<1>1. CASE k.th[t].ipc # "INACTIVE"
  BY <1>1 DEF AwaitRequestMsg
<1>2. CASE k.th[t].ipc = "INACTIVE" /\ k.th[t].queue = <<>>
  <2> DEFINE a == [k EXCEPT !.th[t].ipc = "AWAIT_REQUEST"]
  <2>1. AwaitRequestMsg(k, t) = BecomeInactive(a, t, "AWAITS_IPC")
    BY <1>2 DEF AwaitRequestMsg
  <2>2. Settled(a, t) /\ a.event = k.event
    BY <1>2, IpcSet DEF Live
  <2> HIDE DEF a
  <2>3. Moves(a, BecomeInactive(a, t, "AWAITS_IPC"), t, "AWAITS_IPC")
    BY <2>2, SettledMoves, BecomeInactiveMoves DEF ThreadState
  <2>4. QED BY <2>1, <2>2, <2>3, SettledMoves
<1>3. CASE k.th[t].ipc = "INACTIVE" /\ k.th[t].queue # <<>>
  <2>1. AwaitRequestMsg(k, t) =
          ReceiveRequest([k EXCEPT !.th[t].queue = Tail(@)], t, Head(k.th[t].queue))
    BY <1>3 DEF AwaitRequestMsg
  <2>2. QED BY <1>3, <2>1, ReceiveSound
<1>4. QED BY <1>1, <1>2, <1>3

\* The request of thread c to thread t ends: c awaits no reply, and is not in the books of t
Withdrawn(k, a, c, t) ==
  /\ a \in KernelState /\ NoFailure(a) /\ a.serving = k.serving /\ a.dropped = k.dropped
     /\ a.misused = k.misused
  /\ a.th[c].ipc = "INACTIVE" /\ a.th[c].callee \in {t, None}
  /\ \A u \in Thread :
       /\ a.th[u].share = k.th[u].share /\ a.th[u].state = k.th[u].state
       /\ a.th[u].paused = k.th[u].paused /\ a.th[u].cpu = k.th[u].cpu
       /\ a.th[u].help = k.th[u].help
       /\ u # c => a.th[u].ipc = k.th[u].ipc /\ a.th[u].callee = k.th[u].callee
       /\ u # t => a.th[u].caller = k.th[u].caller /\ a.th[u].queue = k.th[u].queue
       /\ Has(a, t, u) <=> Has(k, t, u) /\ u # c
  /\ a.th[t].caller \in {k.th[t].caller, None}
  /\ Distinct(a.th[t].queue) /\ Elems(a.th[t].queue) \subseteq Elems(k.th[t].queue)

\* Thread c may become active, with whatever share it has
Freed(a, c) ==
  /\ a \in KernelState /\ BooksOK(a)
  /\ Apart(a, c) /\ ~HelpsOutbufDst(a, c)
  /\ a.th[c].ipc = "INACTIVE"
  /\ ~a.misused => a.th[c].state = "AWAITS_IPC" /\ a.th[c].cpu \in affinity[c]
  /\ \A u \in Thread \ {c} : StateOK(a, u)

\* Who is in the books of a thread waits for it.
LEMMA HasWaits ==
  ASSUME NEW k, BooksOK(k), NEW c \in Thread, NEW t \in Thread, Has(k, t, c)
  PROVE  k.th[c].ipc = "AWAIT_REPLY" /\ k.th[c].callee = t /\ c \notin k.dropped
BY DEF BooksOK, Announced, WaitsOn

\* Who waits for a reply is in accord with that.
LEMMA WaitsFor ==
  ASSUME NEW k, Sound(k), NEW c \in Thread, NEW t \in Thread,
         k.th[c].ipc = "AWAIT_REPLY", k.th[c].callee = t
  PROVE  /\ c # t /\ <<c, t>> \in Calls
         /\ ~k.misused => k.th[c].state = "AWAITS_IPC" /\ k.th[c].cpu \in affinity[c]
<1>1. None \notin Thread
  BY ThreadAssumption
<1>2. c # t /\ <<c, t>> \in Calls
  BY <1>1 DEF Sound, BooksOK, OutbufOK
<1>3. StateOK(k, c)
  BY DEF Sound
<1>4. QED BY <1>2, <1>3 DEF StateOK, StateFits, Live

\* When a request ends, the books and all other threads are in order.
LEMMA WithdrawnFreed ==
  ASSUME NEW k, Sound(k), NEW c \in Thread, NEW t \in Thread,
         k.th[c].ipc = "AWAIT_REPLY", k.th[c].callee = t, NEW a, Withdrawn(k, a, c, t)
  PROVE  Freed(a, c)
<1>1. /\ c # t /\ <<c, t>> \in Calls
      /\ k.th[c].ipc = "AWAIT_REPLY" /\ k.th[c].callee = t
      /\ ~k.misused => k.th[c].state = "AWAITS_IPC" /\ k.th[c].cpu \in affinity[c]
  BY WaitsFor
<1>2. k \in KernelState /\ BooksOK(k) /\ \A u \in Thread : StateOK(k, u) /\ ShareOK(k, u)
  BY DEF Sound
<1>3. None \notin Thread
  BY ThreadAssumption
<1>4. /\ a \in KernelState /\ NoFailure(a) /\ a.serving = k.serving /\ a.dropped = k.dropped
         /\ a.misused = k.misused
      /\ a.th[c].ipc = "INACTIVE" /\ a.th[c].callee \in {t, None}
      /\ a.th[t].caller \in {k.th[t].caller, None}
      /\ Distinct(a.th[t].queue) /\ Elems(a.th[t].queue) \subseteq Elems(k.th[t].queue)
  BY DEF Withdrawn
<1>5. \A u \in Thread :
       /\ a.th[u].share = k.th[u].share /\ a.th[u].state = k.th[u].state
       /\ a.th[u].paused = k.th[u].paused /\ a.th[u].cpu = k.th[u].cpu
       /\ a.th[u].help = k.th[u].help
       /\ u # c => a.th[u].ipc = k.th[u].ipc /\ a.th[u].callee = k.th[u].callee
       /\ u # t => a.th[u].caller = k.th[u].caller /\ a.th[u].queue = k.th[u].queue
       /\ Has(a, t, u) <=> Has(k, t, u) /\ u # c
  BY DEF Withdrawn
<1>6. \A u, d \in Thread : Announced(a, u, d)
  <2>1. TAKE u, d \in Thread
  <2>2. Announced(k, u, d) /\ Announced(k, c, d)
    BY <1>2 DEF BooksOK
  <2>3. CASE d = t
    <3>1. CASE u = c
      BY <1>4, <1>5, <2>3, <3>1 DEF Announced, WaitsOn
    <3>2. CASE u # c
      BY <1>4, <1>5, <2>2, <2>3, <3>2 DEF Announced, WaitsOn
    <3>3. QED BY <3>1, <3>2
  <2>4. CASE d # t
    <3>1. Has(a, d, u) <=> Has(k, d, u)
      BY <1>5, <2>4 DEF Has
    <3>2. CASE u = c
      BY <1>1, <1>4, <2>2, <2>4, <3>1, <3>2 DEF Announced, WaitsOn
    <3>3. CASE u # c
      BY <1>4, <1>5, <2>2, <3>1, <3>3 DEF Announced, WaitsOn
    <3>4. QED BY <3>2, <3>3
  <2>5. QED BY <2>3, <2>4
<1>7. \A u \in Thread : InbufOK(a, u)
  <2>1. TAKE u \in Thread
  <2>2. InbufOK(k, u)
    BY <1>2 DEF BooksOK
  <2>3. CASE u = t
    BY <1>1, <1>4, <1>5, <2>2, <2>3 DEF InbufOK
  <2>4. CASE u # t
    <3>1. CASE u = c
      BY <1>4, <1>5, <2>2, <2>4, <3>1 DEF InbufOK
    <3>2. CASE u # c
      BY <1>4, <1>5, <2>2, <2>4, <3>2 DEF InbufOK
    <3>3. QED BY <3>1, <3>2
  <2>5. QED BY <2>3, <2>4
<1>8. \A u \in Thread : Live(a, u) <=> Live(k, u)
  BY <1>5 DEF Live
<1>9. \A u \in Thread : OutbufOK(a, u)
  <2>1. TAKE u \in Thread
  <2>2. OutbufOK(k, u) /\ (k.th[u].ipc = "AWAIT_REPLY" => k.th[u].callee \in Thread)
    BY <1>2, BooksTypes DEF BooksOK
  <2>3. CASE u = c
    BY <1>1, <1>4, <2>3 DEF OutbufOK
  <2>4. CASE u # c
    BY <1>4, <1>5, <1>8, <2>2, <2>4 DEF OutbufOK
  <2>5. QED BY <2>3, <2>4
<1>a. ~a.misused => NoCircle(a)
  BY <1>2, <1>4, <1>5, FewerHelpers DEF HelpsOutbufDst
<1>10. BooksOK(a)
  BY <1>6, <1>7, <1>9, <1>a DEF BooksOK
<1>11. \A u \in Thread \ {c} : ShareOK(a, u)
  <2>1. TAKE u \in Thread \ {c}
  <2>2. ShareOK(k, u) /\ (HelpsOutbufDst(a, u) <=> HelpsOutbufDst(k, u))
    BY <1>2, <1>5 DEF HelpsOutbufDst
  <2>3. QED BY <1>2, <1>4, <1>5, <2>2, SameShares
<1>12. Apart(a, c)
  BY <1>4, <1>10, <1>11, BooksApart
<1>13. \A u \in Thread \ {c} : StateOK(a, u)
  BY <1>2, <1>4, <1>5, <1>8 DEF StateOK, StateFits
<1>14. ~HelpsOutbufDst(a, c)
  BY <1>4 DEF HelpsOutbufDst
<1>15. QED BY <1>1, <1>4, <1>5, <1>10, <1>12, <1>13, <1>14 DEF Freed

\* A thread that is freed becomes active.
LEMMA FreedMoves ==
  ASSUME NEW a, NEW c \in Thread, Freed(a, c)
  PROVE  /\ Moves(a, SendRequestDone(a, c), c, "ACTIVE")
         /\ \A m : Moves(a, m, c, "ACTIVE") => Sound(m)
<1>1. Moves(a, SendRequestDone(a, c), c, "ACTIVE")
  BY SendRequestDoneMoves DEF Freed
<1>2. ASSUME NEW m, Moves(a, m, c, "ACTIVE") PROVE Sound(m)
  <2>1. a \in KernelState /\ BooksOK(a) /\ a.th[c].ipc = "INACTIVE"
        /\ (~a.misused => a.th[c].cpu \in affinity[c])
        /\ \A u \in Thread \ {c} : StateOK(a, u)
    BY DEF Freed
  <2>2. ~m.misused => ~a.misused
    BY <1>2 DEF Moves
  <2>3. QED BY <1>2, <2>1, <2>2, MovesSound
<1>3. QED BY <1>1, <1>2

\* The inbuf of thread t is emptied, and nothing else changes
OnlyCaller(k, m, t) ==
  /\ m \in KernelState /\ m.panic = k.panic /\ m.serving = k.serving /\ m.dropped = k.dropped
     /\ m.misused = k.misused /\ m.event = k.event
  /\ m.th[t].caller = None
  /\ \A u \in Thread :
       /\ u # t => m.th[u].caller = k.th[u].caller
       /\ m.th[u].state = k.th[u].state /\ m.th[u].share = k.th[u].share
       /\ m.th[u].paused = k.th[u].paused /\ m.th[u].cpu = k.th[u].cpu
       /\ m.th[u].ipc = k.th[u].ipc /\ m.th[u].callee = k.th[u].callee
       /\ m.th[u].help = k.th[u].help /\ m.th[u].queue = k.th[u].queue

\* Assignment to an inbuf changes nothing else.
LEMMA CallerSet ==
  ASSUME NEW k \in KernelState, NEW t \in Thread
  PROVE  OnlyCaller(k, [k EXCEPT !.th[t].caller = None], t)
<1> DEFINE o == [k.th[t] EXCEPT !.caller = None]
           m == [k EXCEPT !.th[t].caller = None]
<1>1. k.th[t] \in ThreadObject
  BY StateFields
<1>2. o \in ThreadObject
  BY <1>1 DEF ThreadObject
<1>3. m = [k EXCEPT !.th[t] = o]
  BY DEF KernelState
<1>4. o.caller = None /\ o.state = k.th[t].state /\ o.share = k.th[t].share /\ o.cpu = k.th[t].cpu
      /\ o.paused = k.th[t].paused /\ o.ipc = k.th[t].ipc
      /\ o.callee = k.th[t].callee /\ o.help = k.th[t].help /\ o.queue = k.th[t].queue
  BY <1>1 DEF ThreadObject
<1> HIDE DEF o
<1>5. OnlyThread(k, m, t, o)
  BY <1>2, <1>3, ThreadSet
<1> HIDE DEF m
<1>6. OnlyCaller(k, m, t)
  BY <1>4, <1>5 DEF OnlyThread, OnlyCaller
<1>7. QED BY <1>6 DEF m

\* The request of thread c to thread t is over for thread c, t does not know yet
Answered(k, a, c, t) ==
  /\ a \in KernelState /\ NoFailure(a) /\ a.serving = k.serving /\ a.dropped = k.dropped
     /\ a.misused = k.misused
  /\ a.th[c].ipc = "INACTIVE" /\ a.th[c].callee \in {t, None}
  /\ \A u \in Thread :
       /\ a.th[u].share = k.th[u].share /\ a.th[u].state = k.th[u].state
       /\ a.th[u].paused = k.th[u].paused /\ a.th[u].cpu = k.th[u].cpu
       /\ a.th[u].help = k.th[u].help
       /\ a.th[u].caller = k.th[u].caller /\ a.th[u].queue = k.th[u].queue
       /\ u # c => a.th[u].ipc = k.th[u].ipc /\ a.th[u].callee = k.th[u].callee

\* The thread whose request is over is the only one whose share may be wrong.
LEMMA AnsweredAlone ==
  ASSUME NEW k, Sound(k), NEW c \in Thread, NEW t, NEW a, Answered(k, a, c, t)
  PROVE  Apart(a, c) /\ ~HelpsOutbufDst(a, c)
<1>2. ~HelpsOutbufDst(a, c)
  BY DEF Answered, HelpsOutbufDst
<1>a. a \in KernelState /\ a.misused = k.misused /\ NoFailure(a)
  BY DEF Answered
<1> SUFFICES ASSUME ~k.misused PROVE Alone(a, c)
  BY <1>2, <1>a DEF Apart
<1>1. k \in KernelState /\ BooksOK(k) /\ Alone(k, c)
  BY SoundActive DEF Apart
<1>3. \A u \in Thread \ {c} : HelpsOutbufDst(a, u) <=> HelpsOutbufDst(k, u)
  BY DEF Answered, HelpsOutbufDst
<1>4. \A u \in Thread : Helpers(a, u) = Helpers(k, u)
  BY DEF Answered, Helpers
<1>5. \A h \in Thread : HelpsOutbufDst(a, h) =>
         /\ a.th[h].callee \in Thread
         /\ h \in Helpers(a, a.th[h].callee)
         /\ a.th[a.th[h].callee].cpu = a.th[h].cpu
  <2>1. TAKE h \in Thread
  <2>2. HAVE HelpsOutbufDst(a, h)
  <2>3. h # c /\ HelpsOutbufDst(k, h)
    BY <1>2, <1>3, <2>2
  <2>4. /\ k.th[h].callee \in Thread
        /\ h \in Helpers(k, k.th[h].callee)
        /\ k.th[k.th[h].callee].cpu = k.th[h].cpu
    BY <1>1, <2>3 DEF Alone, HelpersOK
  <2>5. QED BY <1>4, <2>3, <2>4 DEF Answered
<1>6. \A h, v \in Thread : h \in Helpers(a, v) => h = c \/ (HelpsOutbufDst(a, h) /\ a.th[h].callee = v)
  BY <1>1, <1>3, <1>4 DEF Alone, HelpersOK, Answered
<1>7. HelpersOK(a, c)
  BY <1>5, <1>6 DEF HelpersOK
<1>8. \A u \in Thread \ {c} : ShareOK(a, u)
  <2>1. TAKE u \in Thread \ {c}
  <2>2. ShareOK(k, u)
    BY DEF Sound
  <2>3. /\ HelpsOutbufDst(a, u) <=> HelpsOutbufDst(k, u)
        /\ a.th[u].callee = k.th[u].callee /\ a.th[u].state = k.th[u].state
        /\ a.th[u].paused = k.th[u].paused
        /\ \A v \in Thread : a.th[v].share = k.th[v].share
    BY <1>3 DEF Answered
  <2>4. QED BY <1>1, <1>a, <2>2, <2>3, SameShares
<1>9. QED BY <1>a, <1>7, <1>8 DEF Alone, NoFailure, ShareOK

\* The end of the request in the inbuf of thread t, by a reply or by a cancellation
LEMMA EndInbuf ==
  ASSUME NEW k, Sound(k), NEW t \in Thread,
         NEW c, c = k.th[t].caller, c # None, NEW a, Answered(k, a, c, t)
  PROVE  LET m == [SendRequestDone(a, c) EXCEPT !.th[t].caller = None]
         IN  /\ Sound(m) /\ m.event = a.event
             /\ (k.misused => m.misused)
             /\ m.th[t].caller = None
             /\ m.th[t].state = k.th[t].state /\ m.th[t].queue = k.th[t].queue
<1> DEFINE n == SendRequestDone(a, c)
           m == [n EXCEPT !.th[t].caller = None]
           b == [a EXCEPT !.th[t].caller = None]
<1>1. k \in KernelState /\ BooksOK(k) /\ c \in Thread /\ Has(k, t, c)
      /\ InbufOK(k, t)
  BY BooksTypes DEF Sound, Has, BooksOK
<1>a. k.th[c].ipc = "AWAIT_REPLY" /\ k.th[c].callee = t
  BY <1>1, HasWaits
<1>2. c # t /\ (~k.misused => k.th[c].state = "AWAITS_IPC")
  BY <1>1, <1>a, WaitsFor
<1>3. Apart(a, c) /\ ~HelpsOutbufDst(a, c)
  BY <1>1, AnsweredAlone
<1>4. (~a.misused => a.th[c].state = "AWAITS_IPC") /\ a \in KernelState
  BY <1>1, <1>2 DEF Answered
<1>5. Moves(a, n, c, "ACTIVE")
  BY <1>1, <1>3, <1>4, SendRequestDoneMoves
<1> HIDE DEF n
<1>6. OnlyCaller(n, m, t)
  <2>1. n \in KernelState
    BY <1>5 DEF Moves, Changes
  <2>2. QED BY <2>1, CallerSet
<1>7. OnlyCaller(a, b, t)
  BY <1>4, CallerSet
<1> HIDE DEF m, b
<1>8. Withdrawn(k, b, c, t)
  <2>1. \A u \in Thread : Has(b, t, u) <=> Has(k, t, u) /\ u # c
    <3>1. TAKE u \in Thread
    <3>2. b.th[t].caller = None /\ b.th[t].queue = k.th[t].queue /\ None # u
      BY <1>7, ThreadAssumption DEF OnlyCaller, Answered
    <3>3. c \notin Elems(k.th[t].queue)
      BY <1>1 DEF InbufOK
    <3>4. QED BY <3>2, <3>3 DEF Has
  <2>2. \A u \in Thread :
          /\ b.th[u].share = k.th[u].share /\ b.th[u].state = k.th[u].state
          /\ b.th[u].paused = k.th[u].paused /\ b.th[u].cpu = k.th[u].cpu
          /\ b.th[u].help = k.th[u].help
          /\ u # c => b.th[u].ipc = k.th[u].ipc /\ b.th[u].callee = k.th[u].callee
          /\ u # t => b.th[u].caller = k.th[u].caller
          /\ b.th[u].queue = k.th[u].queue
    BY <1>7 DEF OnlyCaller, Answered
  <2>3. /\ b \in KernelState /\ NoFailure(b) /\ b.serving = k.serving /\ b.dropped = k.dropped
           /\ b.misused = k.misused
        /\ b.th[c].ipc = "INACTIVE" /\ b.th[c].callee \in {t, None}
        /\ b.th[t].caller = None
    BY <1>1, <1>7 DEF OnlyCaller, Answered, NoFailure
  <2>4. Distinct(b.th[t].queue) /\ Elems(b.th[t].queue) \subseteq Elems(k.th[t].queue)
    BY <1>1, <2>2 DEF InbufOK
  <2>5. QED BY <2>1, <2>2, <2>3, <2>4 DEF Withdrawn
<1>9. Moves(b, m, c, "ACTIVE")
  <2>1. /\ m \in KernelState /\ NoFailure(m) /\ m.serving = b.serving /\ m.dropped = b.dropped
        /\ m.misused = n.misused /\ m.event = b.event
        /\ m.th[c].state = "ACTIVE"
    BY <1>1, <1>2, <1>5, <1>6, <1>7 DEF OnlyCaller, Moves, Changes, NoFailure
  <2>a. b.misused => m.misused
    BY <1>5, <1>7, <2>1 DEF OnlyCaller, Moves
  <2>2. \A u \in Thread :
          /\ n.th[u].paused = a.th[u].paused /\ n.th[u].cpu = a.th[u].cpu
          /\ n.th[u].ipc = a.th[u].ipc /\ n.th[u].caller = a.th[u].caller
          /\ n.th[u].callee = a.th[u].callee /\ n.th[u].help = a.th[u].help
          /\ n.th[u].queue = a.th[u].queue
          /\ u # c => n.th[u].state = a.th[u].state
          /\ ShareOK(n, u)
    BY <1>5 DEF Moves, Changes
  <2>3. \A u \in Thread :
          /\ u # c => m.th[u].state = b.th[u].state
          /\ m.th[u].paused = b.th[u].paused /\ m.th[u].cpu = b.th[u].cpu
          /\ m.th[u].ipc = b.th[u].ipc /\ m.th[u].caller = b.th[u].caller
          /\ m.th[u].callee = b.th[u].callee /\ m.th[u].help = b.th[u].help
          /\ m.th[u].queue = b.th[u].queue
    BY <1>6, <1>7, <2>2 DEF OnlyCaller
  <2>4. ASSUME NEW u \in Thread PROVE ShareOK(m, u)
    <3> SUFFICES ASSUME ~m.misused PROVE ShareFits(m, u)
      BY DEF ShareOK
    <3>a. ~n.misused /\ ~a.misused
      BY <1>5, <2>1 DEF Moves
    <3>1. /\ HelpsOutbufDst(n, u) <=> HelpsOutbufDst(a, u)
          /\ HelpsOutbufDst(m, u) <=> HelpsOutbufDst(n, u)
      BY <1>6, <2>2 DEF OnlyCaller, HelpsOutbufDst
    <3>2. HelpsOutbufDst(n, u) => n.th[u].callee \in Thread
      BY <1>3, <2>2, <3>1, <3>a DEF Apart, Alone, HelpersOK
    <3>3. ShareFits(n, u)
      BY <2>2, <3>a DEF ShareOK
    <3>4. QED BY <1>6, <3>1, <3>2, <3>3 DEF OnlyCaller, ShareFits
  <2>5. QED BY <2>1, <2>a, <2>3, <2>4 DEF Moves, Changes
<1>10. Sound(m)
  BY <1>1, <1>a, <1>8, <1>9, WithdrawnFreed, FreedMoves
<1>11. m.event = a.event
  BY <1>5, <1>6 DEF OnlyCaller, Moves, Changes
<1>12. /\ m.th[t].caller = None
       /\ m.th[t].state = k.th[t].state /\ m.th[t].queue = k.th[t].queue
  BY <1>2, <1>5, <1>6 DEF OnlyCaller, Moves, Changes, Answered
<1>13. k.misused => m.misused
  <2>1. a.misused = k.misused
    BY DEF Answered
  <2>2. a.misused => n.misused
    BY <1>5 DEF Moves
  <2>3. m.misused = n.misused
    BY <1>6 DEF OnlyCaller
  <2>4. QED BY <2>1, <2>2, <2>3
<1>14. QED BY <1>10, <1>11, <1>12, <1>13 DEF m, n

\* What _receive_reply and _outbuf_request_cancelled assign before the thread becomes active
Replied(k, c) == [k EXCEPT !.th[c].ipc = "INACTIVE", !.event = <<"reply", c>>]
Cancelled(k, c) == [k EXCEPT !.th[c].callee = None, !.th[c].ipc = "INACTIVE"]

\* _receive_reply and _outbuf_request_cancelled assign to the sender of the request only.
LEMMA AnsweredSet ==
  ASSUME NEW k, Sound(k), NEW t \in Thread, NEW c \in Thread,
         k.th[c].ipc = "AWAIT_REPLY", k.th[c].callee = t
  PROVE  /\ Answered(k, Replied(k, c), c, t) /\ Replied(k, c).event = <<"reply", c>>
         /\ Answered(k, Cancelled(k, c), c, t) /\ Cancelled(k, c).event = k.event
<1>1. k \in KernelState /\ NoFailure(k)
  BY DEF Sound
<1>2. k.th[c].callee = t
  OBVIOUS
<1>3. k.th[c] \in ThreadObject
  BY <1>1, StateFields
<1>4. ASSUME NEW o \in ThreadObject, o.ipc = "INACTIVE", o.callee \in {t, None},
             o.state = k.th[c].state, o.share = k.th[c].share, o.cpu = k.th[c].cpu,
             o.paused = k.th[c].paused, o.help = k.th[c].help, o.caller = k.th[c].caller,
             o.queue = k.th[c].queue, NEW e \in {k.event, <<"reply", c>>},
             NEW a, a = [k EXCEPT !.th[c] = o, !.event = e]
      PROVE  Answered(k, a, c, t) /\ a.event = e
  <2>1. /\ a.th = [k.th EXCEPT ![c] = o] /\ a.panic = k.panic /\ a.serving = k.serving
           /\ a.dropped = k.dropped /\ a.misused = k.misused /\ a.event = e
    BY <1>1, <1>4 DEF KernelState
  <2>2. k.th \in [Thread -> ThreadObject]
        /\ k.event \in {"none", "reply", "cancel"} \X (Thread \cup {None})
    BY <1>1, StateFields
  <2>3. a.th \in [Thread -> ThreadObject]
        /\ e \in {"none", "reply", "cancel"} \X (Thread \cup {None})
    BY <1>4, <2>1, <2>2
  <2>4. a \in KernelState
    BY <1>1, <1>4, <2>1, <2>3 DEF KernelState
  <2>5. a.th[c] = o /\ \A u \in Thread \ {c} : a.th[u] = k.th[u]
    BY <2>1, <2>2
  <2>6. QED BY <1>1, <1>4, <2>1, <2>4, <2>5 DEF Answered, NoFailure
<1>5. Answered(k, Replied(k, c), c, t) /\ Replied(k, c).event = <<"reply", c>>
  <2> DEFINE o == [k.th[c] EXCEPT !.ipc = "INACTIVE"]
             a == Replied(k, c)
  <2>1. /\ o \in ThreadObject
        /\ o.ipc = "INACTIVE" /\ o.callee \in {t, None} /\ o.state = k.th[c].state
        /\ o.share = k.th[c].share /\ o.cpu = k.th[c].cpu /\ o.paused = k.th[c].paused
        /\ o.help = k.th[c].help /\ o.caller = k.th[c].caller /\ o.queue = k.th[c].queue
    BY <1>2, <1>3 DEF ThreadObject, IpcState
  <2>2. a = [k EXCEPT !.th[c] = o, !.event = <<"reply", c>>]
    BY <1>1 DEF KernelState, Replied
  <2> HIDE DEF o, a
  <2>3. Answered(k, a, c, t) /\ a.event = <<"reply", c>>
    BY <1>4, <2>1, <2>2
  <2>4. QED BY <2>3 DEF a
<1>6. Answered(k, Cancelled(k, c), c, t) /\ Cancelled(k, c).event = k.event
  <2> DEFINE o == [k.th[c] EXCEPT !.callee = None, !.ipc = "INACTIVE"]
             a == Cancelled(k, c)
  <2>1. /\ o \in ThreadObject
        /\ o.ipc = "INACTIVE" /\ o.callee \in {t, None} /\ o.state = k.th[c].state
        /\ o.share = k.th[c].share /\ o.cpu = k.th[c].cpu /\ o.paused = k.th[c].paused
        /\ o.help = k.th[c].help /\ o.caller = k.th[c].caller /\ o.queue = k.th[c].queue
    BY <1>2, <1>3 DEF ThreadObject, IpcState
  <2>2. a = [k EXCEPT !.th[c] = o, !.event = k.event]
    BY <1>1 DEF KernelState, Cancelled
  <2> HIDE DEF o, a
  <2>3. Answered(k, a, c, t) /\ a.event = k.event
    BY <1>4, <2>1, <2>2
  <2>4. QED BY <2>3 DEF a
<1>7. QED BY <1>5, <1>6

\* Ipc_node::send_reply: the reply goes to a thread whose request has been received.
LEMMA ReplySound ==
  ASSUME NEW k, Sound(k), NEW t \in Thread
  PROVE  LET m == SendReplyIpc(k, t)
         IN  /\ Sound(m)
             /\ m.th[t].state = k.th[t].state
             /\ k.misused => m.misused
             /\ \/ m.event = k.event
                \/ \E c \in Thread : m.event = <<"reply", c>> /\ k.serving[c] = t
                   /\ k.th[c].callee = t
<1> DEFINE c == k.th[t].caller
<1>1. CASE k.th[t].ipc = "INACTIVE" /\ c # None
  <2> DEFINE a == Replied(k, c)
             m == [SendRequestDone(a, c) EXCEPT !.th[t].caller = None]
  <2>1. SendReplyIpc(k, t) = m
    BY <1>1 DEF SendReplyIpc, ReceiveReply, Replied
  <2>2. c \in Thread /\ Has(k, t, c) /\ InbufOK(k, t) /\ c = k.th[t].caller
    BY <1>1, BooksTypes DEF Sound, Has, BooksOK
  <2> HIDE DEF c
  <2>6. k.th[c].ipc = "AWAIT_REPLY" /\ k.th[c].callee = t
    BY <2>2, HasWaits DEF Sound
  <2>3. Answered(k, a, c, t) /\ a.event = <<"reply", c>>
    BY <2>2, <2>6, AnsweredSet
  <2> HIDE DEF a
  <2>4. /\ Sound(m) /\ m.event = a.event /\ m.th[t].caller = None
        /\ m.th[t].state = k.th[t].state /\ (k.misused => m.misused)
    BY <1>1, <2>2, <2>3, EndInbuf
  <2>5. k.serving[c] = t
    BY <1>1, <2>2 DEF InbufOK
  <2> HIDE DEF m
  <2>7. QED BY <2>1, <2>2, <2>3, <2>4, <2>5, <2>6
<1>2. CASE ~(k.th[t].ipc = "INACTIVE" /\ c # None)
  <2>1. SendReplyIpc(k, t) = k
    BY <1>2 DEF SendReplyIpc
  <2>2. QED BY <1>2, <2>1
<1>3. QED BY <1>1, <1>2

\* _cancel_inbuf_request
LEMMA CancelInbufSound ==
  ASSUME NEW k, Sound(k), NEW t \in Thread
  PROVE  LET m == CancelInbufRequest(k, t)
         IN  /\ Sound(m) /\ m.event = k.event
             /\ m.th[t].caller = None /\ m.th[t].queue = k.th[t].queue
<1> DEFINE c == k.th[t].caller
<1>1. CASE c # None
  <2> DEFINE a == Cancelled(k, c)
             m == [SendRequestDone(a, c) EXCEPT !.th[t].caller = None]
  <2>1. c \in Thread /\ Has(k, t, c) /\ c = k.th[t].caller
    BY <1>1, BooksTypes DEF Sound, Has, BooksOK
  <2> HIDE DEF c
  <2>a. k.th[c].ipc = "AWAIT_REPLY" /\ k.th[c].callee = t
    BY <2>1, HasWaits DEF Sound
  <2>2. k.th[c].callee # None
    BY <2>a, ThreadAssumption
  <2>3. CancelInbufRequest(k, t) = m
    BY <1>1, <2>1, <2>2 DEF CancelInbufRequest, OutbufRequestCancelled, Cancelled
  <2>4. Answered(k, a, c, t) /\ a.event = k.event
    BY <2>1, <2>a, AnsweredSet
  <2> HIDE DEF a
  <2>5. /\ Sound(m) /\ m.event = a.event /\ m.th[t].caller = None
        /\ m.th[t].state = k.th[t].state /\ m.th[t].queue = k.th[t].queue
    BY <1>1, <2>1, <2>4, EndInbuf
  <2> HIDE DEF m
  <2>6. QED BY <2>3, <2>4, <2>5
<1>2. CASE c = None
  BY <1>2 DEF CancelInbufRequest
<1>3. QED BY <1>1, <1>2

\* Thread c awaits no reply and has no callee, and nothing else changes
OnlyRequest(k, m, c) ==
  /\ m \in KernelState /\ m.panic = k.panic /\ m.serving = k.serving /\ m.dropped = k.dropped
     /\ m.misused = k.misused /\ m.event = k.event
  /\ m.th[c].ipc = "INACTIVE" /\ m.th[c].callee = None
  /\ \A u \in Thread :
       /\ u # c => m.th[u].ipc = k.th[u].ipc /\ m.th[u].callee = k.th[u].callee
       /\ m.th[u].state = k.th[u].state /\ m.th[u].share = k.th[u].share
       /\ m.th[u].paused = k.th[u].paused /\ m.th[u].cpu = k.th[u].cpu
       /\ m.th[u].help = k.th[u].help /\ m.th[u].caller = k.th[u].caller
       /\ m.th[u].queue = k.th[u].queue

\* _outbuf_request_cancelled changes nothing else.
LEMMA RequestSet ==
  ASSUME NEW k \in KernelState, NEW c \in Thread
  PROVE  OnlyRequest(k, Cancelled(k, c), c)
<1> DEFINE o == [k.th[c] EXCEPT !.callee = None, !.ipc = "INACTIVE"]
           m == Cancelled(k, c)
<1>1. k.th[c] \in ThreadObject
  BY StateFields
<1>2. o \in ThreadObject
  BY <1>1 DEF ThreadObject, IpcState
<1>3. m = [k EXCEPT !.th[c] = o]
  BY DEF KernelState, Cancelled
<1>4. o.callee = None /\ o.ipc = "INACTIVE" /\ o.state = k.th[c].state /\ o.share = k.th[c].share
      /\ o.paused = k.th[c].paused /\ o.cpu = k.th[c].cpu /\ o.queue = k.th[c].queue
      /\ o.help = k.th[c].help /\ o.caller = k.th[c].caller
  BY <1>1 DEF ThreadObject
<1> HIDE DEF o
<1>5. OnlyThread(k, m, c, o)
  BY <1>2, <1>3, ThreadSet
<1> HIDE DEF m
<1>6. OnlyRequest(k, m, c)
  BY <1>4, <1>5 DEF OnlyThread, OnlyRequest
<1>7. QED BY <1>6 DEF m

\* Thread c is taken out of the books of thread t, and nothing else changes
Removed(k, b, c, t) ==
  /\ b \in KernelState /\ b.panic = k.panic /\ b.serving = k.serving /\ b.dropped = k.dropped
     /\ b.misused = k.misused /\ b.event = k.event
  /\ \A u \in Thread :
       /\ u # t => b.th[u].caller = k.th[u].caller /\ b.th[u].queue = k.th[u].queue
       /\ b.th[u].state = k.th[u].state /\ b.th[u].share = k.th[u].share
       /\ b.th[u].paused = k.th[u].paused /\ b.th[u].cpu = k.th[u].cpu
       /\ b.th[u].ipc = k.th[u].ipc /\ b.th[u].callee = k.th[u].callee
       /\ b.th[u].help = k.th[u].help
       /\ Has(b, t, u) <=> Has(k, t, u) /\ u # c
  /\ b.th[t].caller \in {k.th[t].caller, None}
  /\ Distinct(b.th[t].queue) /\ Elems(b.th[t].queue) \subseteq Elems(k.th[t].queue)

\* The request is taken out of the inbuf or, if it is not there, out of the queue.
LEMMA RemovedFrom ==
  ASSUME NEW k, NEW c \in Thread, NEW t \in Thread, InbufOK(k, t), NEW b
  PROVE  /\ OnlyCaller(k, b, t) /\ k.th[t].caller = c => Removed(k, b, c, t)
         /\ \A q : OnlyQueue(k, b, t, q) /\ k.th[t].caller # c
                   /\ Distinct(q) /\ Elems(q) = Elems(k.th[t].queue) \ {c}
                     => Removed(k, b, c, t)
<1>1. None \notin Thread
  BY ThreadAssumption
<1>2. ASSUME OnlyCaller(k, b, t), k.th[t].caller = c PROVE Removed(k, b, c, t)
  <2>1. b.th[t].caller = None /\ b.th[t].queue = k.th[t].queue
    BY <1>2 DEF OnlyCaller
  <2>2. c \notin Elems(k.th[t].queue) /\ Distinct(k.th[t].queue)
    BY <1>1, <1>2 DEF InbufOK
  <2>3. \A u \in Thread : Has(b, t, u) <=> Has(k, t, u) /\ u # c
    BY <1>1, <1>2, <2>1, <2>2 DEF Has
  <2>4. QED BY <1>2, <2>1, <2>2, <2>3 DEF OnlyCaller, Removed
<1>3. ASSUME NEW q, OnlyQueue(k, b, t, q), k.th[t].caller # c,
             Distinct(q), Elems(q) = Elems(k.th[t].queue) \ {c}
      PROVE  Removed(k, b, c, t)
  <2>1. b.th[t].queue = q /\ b.th[t].caller = k.th[t].caller
    BY <1>3 DEF OnlyQueue
  <2>2. \A u \in Thread : Has(b, t, u) <=> Has(k, t, u) /\ u # c
    BY <1>3, <2>1 DEF Has
  <2>3. QED BY <1>3, <2>1, <2>2 DEF OnlyQueue, Removed
<1>4. QED BY <1>2, <1>3

\* A request that is withdrawn on both sides is withdrawn.
LEMMA RemovedWithdrawn ==
  ASSUME NEW k, Sound(k), NEW c \in Thread, NEW t \in Thread,
         k.th[c].ipc = "AWAIT_REPLY", k.th[c].callee = t, NEW b, Removed(k, b, c, t),
         NEW m, m = SendRequestDone(Cancelled(b, c), c)
  PROVE  /\ Sound(m) /\ m.event = k.event
         /\ m.th[t].queue = b.th[t].queue /\ m.th[t].caller = b.th[t].caller
<1> DEFINE a == Cancelled(b, c)
<1>1. b \in KernelState /\ NoFailure(k)
  BY DEF Removed, Sound
<1>2. OnlyRequest(b, a, c)
  BY <1>1, RequestSet
<1>3. m = SendRequestDone(a, c)
  OBVIOUS
<1> HIDE DEF a
<1>4. \A u \in Thread : Has(a, t, u) <=> Has(b, t, u)
  BY <1>2 DEF OnlyRequest, Has
<1>5. Withdrawn(k, a, c, t)
  BY <1>1, <1>2, <1>4 DEF OnlyRequest, Removed, Withdrawn, NoFailure
<1>6. Freed(a, c)
  BY <1>5, WithdrawnFreed
<1>7. Moves(a, m, c, "ACTIVE") /\ Sound(m)
  BY <1>3, <1>6, FreedMoves
<1>8. m.event = k.event
  BY <1>2, <1>7 DEF Moves, Changes, OnlyRequest, Removed
<1>9. m.th[t].queue = b.th[t].queue /\ m.th[t].caller = b.th[t].caller
  BY <1>2, <1>7 DEF Moves, Changes, OnlyRequest
<1>10. QED BY <1>7, <1>8, <1>9

\* What _cancel_request_queue does for the request c at the head of the queue
CancelHead(k, t, c) == OutbufRequestCancelled([k EXCEPT !.th[t].queue = Tail(@)], c)

\* _cancel_request_queue, for the request at the head
LEMMA CancelHeadSound ==
  ASSUME NEW k, Sound(k), NEW t \in Thread, k.th[t].queue # <<>>
  PROVE  LET m == CancelHead(k, t, Head(k.th[t].queue))
         IN  Sound(m) /\ m.event = k.event /\ m.th[t].queue = Tail(k.th[t].queue)
<1> DEFINE q == k.th[t].queue
           b == [k EXCEPT !.th[t].queue = Tail(@)]
           c == Head(q)
           m == CancelHead(k, t, c)
<1>1. k \in KernelState /\ BooksOK(k) /\ InbufOK(k, t) /\ q \in Seq(Thread)
  BY BooksTypes DEF Sound, BooksOK
<1>2. /\ c \in Thread /\ Tail(q) \in Seq(Thread)
      /\ Elems(q) = Elems(Tail(q)) \cup {c} /\ c \notin Elems(Tail(q)) /\ Distinct(Tail(q))
  BY <1>1, TailProps DEF InbufOK
<1>3. b = [k EXCEPT !.th[t].queue = Tail(q)]
  OBVIOUS
<1>4. OnlyQueue(k, b, t, Tail(q))
  BY <1>1, <1>2, <1>3, QueueSet
<1> HIDE DEF b, c
<1>5. Has(k, t, c)
  BY <1>2 DEF Has
<1>6. k.th[c].ipc = "AWAIT_REPLY" /\ k.th[c].callee = t
  BY <1>1, <1>2, <1>5, HasWaits
<1>7. k.th[t].caller # c
  BY <1>1, <1>2, ThreadAssumption DEF InbufOK
<1>8. Elems(Tail(q)) = Elems(q) \ {c}
  BY <1>2
<1>9. Removed(k, b, c, t)
  BY <1>1, <1>2, <1>4, <1>7, <1>8, RemovedFrom
<1>10. b.th[c].callee # None
  BY <1>2, <1>4, <1>6, ThreadAssumption DEF OnlyQueue
<1>11. m = SendRequestDone(Cancelled(b, c), c)
  BY <1>10 DEF CancelHead, OutbufRequestCancelled, Cancelled, b
<1> HIDE DEF m
<1>12. /\ Sound(m) /\ m.event = k.event
       /\ m.th[t].queue = b.th[t].queue /\ m.th[t].caller = b.th[t].caller
  BY <1>2, <1>6, <1>9, <1>11, RemovedWithdrawn
<1>13. b.th[t].queue = Tail(q)
  BY <1>4 DEF OnlyQueue
<1>14. QED BY <1>12, <1>13 DEF m, c

\* _cancel_request_queue: all queued requests end, one after the other.
LEMMA CancelQueueSound ==
  ASSUME NEW k, Sound(k), NEW t \in Thread
  PROVE  LET m == CancelRequestQueue(k, t)
         IN  Sound(m) /\ m.event = k.event /\ m.th[t].queue = <<>>
<1> DEFINE q == k.th[t].queue
           N == Len(q)
           G(i, x) == CancelHead(x, t, q[i])
           step(w, n) == [i \in 0 .. n |-> IF i = 0 THEN k ELSE G(i, w[i - 1])]
           w0 == CHOOSE w : w = step(w, N)
           D(i) == [j \in 1 .. N - i |-> q[i + j]]
<1>1. k \in KernelState /\ BooksOK(k) /\ q \in Seq(Thread)
  BY BooksTypes DEF Sound, BooksOK
<1>2. N \in Nat
  BY <1>1
<1>3. CancelRequestQueue(k, t) = w0[N]
  BY DEF CancelRequestQueue, CancelHead
<1>4. \A x : Sound(x) /\ x.th[t].queue # <<>> =>
        LET m == CancelHead(x, t, Head(x.th[t].queue))
        IN  Sound(m) /\ m.event = x.event /\ m.th[t].queue = Tail(x.th[t].queue)
  BY CancelHeadSound
<1>5. /\ D(0) = q /\ D(N) = <<>>
      /\ \A i \in 0 .. N - 1 : D(i) # <<>> /\ Head(D(i)) = q[i + 1] /\ Tail(D(i)) = D(i + 1)
  <2>a. \A i \in 0 .. N : /\ D(i) \in Seq(Thread) /\ Len(D(i)) = N - i
                           /\ \A j \in 1 .. N - i : D(i)[j] = q[i + j]
    <3>1. TAKE i \in 0 .. N
    <3>2. N - i \in Nat /\ \A j \in 1 .. N - i : i + j \in 1 .. N
      BY <1>2
    <3>3. \A j \in 1 .. N - i : q[i + j] \in Thread
      BY <1>1, <3>2
    <3>4. D(i) \in [1 .. N - i -> Thread] /\ \A j \in 1 .. N - i : D(i)[j] = q[i + j]
      BY <3>3
    <3> HIDE DEF D
    <3>5. D(i) \in Seq(Thread) /\ Len(D(i)) = N - i
      <4>1. PICK n \in Nat : n = N - i
        BY <3>2
      <4> HIDE DEF N
      <4>2. D(i) \in [1 .. n -> Thread]
        BY <3>4, <4>1
      <4>3. D(i) \in Seq(Thread) /\ Len(D(i)) = n
        BY <4>2
      <4>4. QED BY <4>1, <4>3
    <3>6. QED BY <3>4, <3>5
  <2>1. D(0) = q /\ D(N) = <<>>
    <3> HIDE DEF D
    <3>a. 0 \in 0 .. N /\ N \in 0 .. N /\ N - 0 = N /\ N - N = 0 /\ \A j \in 1 .. N : 0 + j = j
      BY <1>2
    <3>b. D(0) \in Seq(Thread) /\ Len(D(0)) = N - 0 /\ \A j \in 1 .. N - 0 : D(0)[j] = q[0 + j]
      BY <2>a, <3>a
    <3>1. D(0) \in Seq(Thread) /\ Len(D(0)) = N /\ \A j \in 1 .. N : D(0)[j] = q[j]
      BY <3>a, <3>b
    <3>2. D(N) \in Seq(Thread) /\ Len(D(N)) = 0
      BY <2>a, <3>a
    <3>c. D(0) = q
      BY <1>1, <3>1, SeqEqual
    <3>d. D(N) = <<>>
      BY <3>2
    <3>3. QED BY <3>c, <3>d
  <2>2. ASSUME NEW i \in 0 .. N - 1
        PROVE  D(i) # <<>> /\ Head(D(i)) = q[i + 1] /\ Tail(D(i)) = D(i + 1)
    <3>a. i \in 0 .. N /\ i + 1 \in 0 .. N
      BY <1>2
    <3> HIDE DEF D
    <3>1. D(i) \in Seq(Thread) /\ Len(D(i)) = N - i /\ \A j \in 1 .. N - i : D(i)[j] = q[i + j]
      BY <2>a, <3>a
    <3>2. D(i + 1) \in Seq(Thread) /\ Len(D(i + 1)) = N - (i + 1)
          /\ \A j \in 1 .. N - (i + 1) : D(i + 1)[j] = q[(i + 1) + j]
      BY <2>a, <3>a
    <3>3. N - i \in Nat /\ N - i # 0 /\ 1 \in 1 .. N - i
      BY <1>2
    <3>4. D(i) # <<>> /\ Head(D(i)) = q[i + 1]
      BY <3>1, <3>3
    <3>5. Tail(D(i)) \in Seq(Thread) /\ Len(Tail(D(i))) = N - (i + 1)
          /\ \A j \in 1 .. N - (i + 1) : Tail(D(i))[j] = q[(i + 1) + j]
      <4>1. Tail(D(i)) \in Seq(Thread) /\ Len(Tail(D(i))) = Len(D(i)) - 1
            /\ \A j \in 1 .. Len(D(i)) - 1 : Tail(D(i))[j] = D(i)[j + 1]
        BY <3>1, <3>4
      <4>2. \A j \in 1 .. N - (i + 1) :
              j \in 1 .. Len(D(i)) - 1 /\ j + 1 \in 1 .. N - i /\ i + (j + 1) = (i + 1) + j
        BY <1>2, <3>1
      <4>3. Len(D(i)) - 1 = N - (i + 1)
        BY <1>2, <3>1
      <4>4. QED BY <3>1, <4>1, <4>2, <4>3
    <3>6. Tail(D(i)) = D(i + 1)
      BY <3>2, <3>5, SeqEqual
    <3>7. QED BY <3>4, <3>6
  <2>3. QED BY <2>1, <2>2
<1>6. ASSUME NEW i \in 1 .. N, NEW x, Sound(x), x.th[t].queue = D(i - 1)
      PROVE  Sound(G(i, x)) /\ G(i, x).event = x.event /\ G(i, x).th[t].queue = D(i)
  <2>1. i - 1 \in 0 .. N - 1 /\ (i - 1) + 1 = i
    BY <1>2
  <2> HIDE DEF D
  <2>2. x.th[t].queue # <<>> /\ Head(x.th[t].queue) = q[i] /\ Tail(x.th[t].queue) = D(i)
    BY <1>5, <1>6, <2>1
  <2>3. QED BY <1>4, <1>6, <2>2
<1> HIDE DEF q, N, G, D
<1>7. \E w : w = step(w, N)
  <2> DEFINE T == {n \in Nat : ~\E w : w = step(w, n)}
  <2>1. SUFFICES ASSUME T # {} PROVE FALSE
    BY <1>2
  <2>2. PICK n \in T : \A m \in T : n <= m
    BY <2>1, LeastNumber
  <2>3. n # 0
    <3> DEFINE f == [i \in 0 .. 0 |-> k]
    <3>1. f = step(f, 0)
      OBVIOUS
    <3>2. QED BY <2>2, <3>1
  <2>a. T \subseteq Nat
    OBVIOUS
  <2> HIDE DEF T
  <2>4. PICK m \in Nat : n = m + 1 /\ m \notin T
    <3>1. n - 1 \in Nat /\ n = (n - 1) + 1 /\ ~(n <= n - 1)
      BY <2>2, <2>3, <2>a
    <3>2. n - 1 \notin T
      BY <2>2, <3>1
    <3>3. QED BY <3>1, <3>2
  <2> USE DEF T
  <2>5. PICK f : f = step(f, m)
    BY <2>4
  <2> DEFINE g == [i \in 0 .. n |-> IF i <= m THEN f[i] ELSE G(n, f[m])]
  <2>6. \A i \in 0 .. m : f[i] = IF i = 0 THEN k ELSE G(i, f[i - 1])
    BY <2>5
  <2>7. \A i \in 0 .. n : g[i] = IF i <= m THEN f[i] ELSE G(n, f[m])
    OBVIOUS
  <2>8. g = [i \in 0 .. n |-> g[i]]
    OBVIOUS
  <2> HIDE DEF g
  <2>9. ASSUME NEW i \in 0 .. n PROVE g[i] = IF i = 0 THEN k ELSE G(i, g[i - 1])
    <3>1. CASE i = 0
      BY <2>4, <2>6, <2>7, <3>1
    <3>2. CASE i # 0 /\ i <= m
      <4>1. i \in 0 .. m /\ i - 1 \in 0 .. n /\ i - 1 <= m
        BY <2>4, <3>2
      <4>2. g[i] = f[i] /\ g[i - 1] = f[i - 1]
        BY <2>7, <3>2, <4>1
      <4>3. QED BY <2>6, <3>2, <4>1, <4>2
    <3>3. CASE i = n
      <4>1. ~(i <= m) /\ i - 1 = m /\ m \in 0 .. n /\ m <= m /\ i # 0
        BY <2>4, <3>3
      <4>2. g[i] = G(n, f[m]) /\ g[m] = f[m]
        BY <2>7, <4>1
      <4>3. QED BY <3>3, <4>1, <4>2
    <3>4. QED BY <2>4, <3>1, <3>2, <3>3
  <2>10. g = step(g, n)
    BY <2>8, <2>9
  <2>11. QED BY <2>2, <2>10
<1>8. w0 = step(w0, N)
  BY <1>7, Zenon
<1> HIDE DEF w0
<1>9. \A i \in 0 .. N : w0[i] = IF i = 0 THEN k ELSE G(i, w0[i - 1])
  BY <1>8
<1> DEFINE P(i) == Sound(w0[i]) /\ w0[i].event = k.event /\ w0[i].th[t].queue = D(i)
<1>10. \A i \in 0 .. N : P(i)
  <2> DEFINE T == {i \in Nat : i <= N /\ ~P(i)}
  <2>1. SUFFICES ASSUME T # {} PROVE FALSE
    BY <1>2
  <2>2. PICK i \in T : \A j \in T : i <= j
    BY <2>1, LeastNumber
  <2>3. P(0)
    BY <1>2, <1>5, <1>9 DEF q
  <2>4. i # 0
    BY <2>2, <2>3
  <2>5. i \in 1 .. N /\ i - 1 \in Nat /\ i - 1 <= N /\ ~(i <= i - 1)
    BY <1>2, <2>2, <2>4
  <2>6. P(i - 1)
    BY <2>2, <2>5
  <2>7. w0[i] = G(i, w0[i - 1])
    BY <1>9, <2>4, <2>5
  <2>8. P(i)
    BY <1>6, <2>5, <2>6, <2>7
  <2>9. QED BY <2>2, <2>8
<1>11. P(N)
  BY <1>2, <1>10
<1>12. QED BY <1>3, <1>5, <1>11

\* _cancel_outbuf_request takes thread t out of the books of its callee.
LEMMA OutbufRemoved ==
  ASSUME NEW k, Sound(k), NEW t \in Thread, NEW d \in Thread, k.th[t].callee = d
  PROVE  \E b : Removed(k, b, t, d) /\ CancelOutbufRequest(k, t) = [b EXCEPT !.th[t].callee = None]
<1>1. k \in KernelState /\ BooksOK(k) /\ InbufOK(k, d) /\ k.th[d].queue \in Seq(Thread)
  BY BooksTypes DEF Sound, BooksOK
<1>2. d # None
  BY ThreadAssumption
<1>3. CASE k.th[d].caller = t
  <2> DEFINE b == [k EXCEPT !.th[d].caller = None]
  <2>1. CancelOutbufRequest(k, t) = [b EXCEPT !.th[t].callee = None]
    BY <1>2, <1>3 DEF CancelOutbufRequest
  <2>2. OnlyCaller(k, b, d)
    BY <1>1, CallerSet
  <2> HIDE DEF b
  <2>3. Removed(k, b, t, d)
    BY <1>1, <1>3, <2>2, RemovedFrom
  <2>4. QED BY <2>1, <2>3
<1>4. CASE k.th[d].caller # t
  <2> DEFINE q == Remove(k.th[d].queue, t)
             b == [k EXCEPT !.th[d].queue = q]
  <2>1. CancelOutbufRequest(k, t) = [b EXCEPT !.th[t].callee = None]
    BY <1>2, <1>4 DEF CancelOutbufRequest
  <2>2. q \in Seq(Thread) /\ Elems(q) = Elems(k.th[d].queue) \ {t} /\ Distinct(q)
    BY <1>1, RemoveProps DEF InbufOK
  <2> HIDE DEF q
  <2>3. OnlyQueue(k, b, d, q)
    BY <1>1, <2>2, QueueSet
  <2> HIDE DEF b
  <2>4. Removed(k, b, t, d)
    BY <1>1, <1>4, <2>2, <2>3, RemovedFrom
  <2>5. QED BY <2>1, <2>4
<1>5. QED BY <1>3, <1>4

\* Ipc_node::cancel_waiting
LEMMA CancelWaitingSound ==
  ASSUME NEW k, Sound(k), NEW t \in Thread, k.th[t].state = "AWAITS_IPC"
  PROVE  Sound(CancelWaiting(k, t)) /\ CancelWaiting(k, t).event = k.event
<1>1. /\ k \in KernelState /\ BooksOK(k)
      /\ k.th[t].ipc \in {"INACTIVE", "AWAIT_REPLY", "AWAIT_REQUEST"}
  <2>1. k \in KernelState /\ BooksOK(k)
    BY DEF Sound
  <2>2. k.th[t] \in ThreadObject
    BY <2>1, StateFields
  <2>3. QED BY <2>1, <2>2 DEF ThreadObject, IpcState
<1>2. CASE k.th[t].ipc = "AWAIT_REPLY"
  <2> DEFINE d == k.th[t].callee
  <2>1. d \in Thread
    BY <1>1, <1>2, BooksTypes
  <2>2. PICK b : Removed(k, b, t, d) /\ CancelOutbufRequest(k, t) = [b EXCEPT !.th[t].callee = None]
    BY <2>1, OutbufRemoved
  <2>3. CancelWaiting(k, t) =
          SendRequestDone([CancelOutbufRequest(k, t) EXCEPT !.th[t].ipc = "INACTIVE"], t)
    BY <1>2 DEF CancelWaiting
  <2>4. CancelWaiting(k, t) =
          SendRequestDone([[b EXCEPT !.th[t].callee = None] EXCEPT !.th[t].ipc = "INACTIVE"], t)
    BY <2>2, <2>3, Zenon
  <2>5. CancelWaiting(k, t) = SendRequestDone(Cancelled(b, t), t)
    BY <2>4, Zenon DEF Cancelled
  <2> HIDE DEF d
  <2>6. QED BY <1>2, <2>1, <2>2, <2>5, RemovedWithdrawn DEF d
<1>3. CASE k.th[t].ipc = "AWAIT_REQUEST"
  <2> DEFINE a == [k EXCEPT !.th[t].ipc = "INACTIVE"]
  <2>1. CancelWaiting(k, t) = AwaitRequestDone(a, t)
    BY <1>3 DEF CancelWaiting
  <2>2. Settled(a, t) /\ a.event = k.event /\ a.th[t].ipc = "INACTIVE"
        /\ a.th[t].state = k.th[t].state
    BY <1>1, <1>3, IpcSet DEF Live
  <2> HIDE DEF a
  <2>3. Moves(a, AwaitRequestDone(a, t), t, "ACTIVE")
    BY <2>2, SettledMoves, AwaitRequestDoneMoves
  <2>4. QED BY <2>1, <2>2, <2>3, SettledMoves
<1>4. CASE k.th[t].ipc = "INACTIVE"
  BY <1>4 DEF CancelWaiting
<1>5. QED BY <1>1, <1>2, <1>3, <1>4

\* Thread t is in nobody's books any more, and nothing else changes
Erased(k, b, t) ==
  /\ b \in KernelState /\ b.panic = k.panic /\ b.serving = k.serving /\ b.dropped = k.dropped
     /\ b.misused = k.misused /\ b.event = k.event
  /\ \A u \in Thread :
       /\ b.th[u].state = k.th[u].state /\ b.th[u].share = k.th[u].share
       /\ b.th[u].paused = k.th[u].paused /\ b.th[u].cpu = k.th[u].cpu
       /\ b.th[u].ipc = k.th[u].ipc /\ b.th[u].callee = k.th[u].callee
       /\ b.th[u].help = k.th[u].help
       /\ b.th[u].caller \in {k.th[u].caller, None}
       /\ Distinct(b.th[u].queue) /\ Elems(b.th[u].queue) \subseteq Elems(k.th[u].queue)
       /\ \A v \in Thread : Has(b, u, v) <=> Has(k, u, v) /\ v # t

\* A thread with empty books that is in nobody's books can be constructed or destroyed.
LEMMA ResetSound ==
  ASSUME NEW k, Sound(k), NEW t \in Thread, \A u \in Thread : ~Has(k, t, u),
         NEW b, Erased(k, b, t), NEW s \in {"ABSENT", "AWAITS_START"},
         NEW m \in KernelState, m.panic = b.panic, m.misused = b.misused, m.dropped = b.dropped,
         m.th[t] = New(s),
         \A u \in Thread \ {t} : m.th[u] = b.th[u] /\ m.serving[u] = b.serving[u]
  PROVE  Sound(m)
<1>1. /\ k \in KernelState /\ BooksOK(k) /\ \A u \in Thread : StateOK(k, u) /\ ShareOK(k, u)
      /\ m.misused = k.misused /\ m.dropped = k.dropped /\ NoFailure(m)
  BY DEF Sound, Erased, NoFailure
<1>2. None \notin Thread
  BY ThreadAssumption
<1>3. /\ m.th[t].state = s /\ ~m.th[t].paused /\ ~m.th[t].share /\ m.th[t].ipc = "INACTIVE"
      /\ m.th[t].caller = None /\ m.th[t].callee = None /\ m.th[t].queue = <<>>
  BY DEF New
<1>4. \A u \in Thread \ {t} :
       /\ m.th[u].state = k.th[u].state /\ m.th[u].share = k.th[u].share
       /\ m.th[u].paused = k.th[u].paused /\ m.th[u].cpu = k.th[u].cpu
       /\ m.th[u].ipc = k.th[u].ipc /\ m.th[u].callee = k.th[u].callee
       /\ m.th[u].help = k.th[u].help
       /\ m.th[u].caller \in {k.th[u].caller, None}
       /\ Distinct(m.th[u].queue) /\ Elems(m.th[u].queue) \subseteq Elems(k.th[u].queue)
       /\ m.serving[u] = k.serving[u]
       /\ \A v \in Thread : Has(m, u, v) <=> Has(k, u, v) /\ v # t
  BY DEF Erased, Has
<1>5. \A u \in Thread : k.th[u].ipc = "AWAIT_REPLY" =>
        k.th[u].callee \in Thread /\ (k.th[u].callee = t => u \in k.dropped)
  <2>1. TAKE u \in Thread
  <2>2. HAVE k.th[u].ipc = "AWAIT_REPLY"
  <2>3. k.th[u].callee \in Thread
    BY <1>1, <2>2, BooksTypes
  <2>4. u \notin k.dropped => Has(k, k.th[u].callee, u)
    BY <1>1, <2>2, <2>3 DEF BooksOK, Announced, WaitsOn
  <2>5. QED BY <2>3, <2>4
<1>a. \A u \in Thread : ~k.misused /\ HelpsOutbufDst(k, u) => k.th[u].callee \in Thread \ {t}
  BY <1>1, <1>5 DEF BooksOK, OutbufOK, HelpsOutbufDst
<1>b. ~m.misused => NoCircle(m)
  <2>1. \A u \in Thread : HelpsOutbufDst(m, u) =>
          HelpsOutbufDst(k, u) /\ m.th[u].callee = k.th[u].callee
    BY <1>3, <1>4 DEF HelpsOutbufDst
  <2>2. QED BY <1>1, <2>1, FewerHelpers
<1>6. \A u \in Thread : ~Has(m, t, u)
  BY <1>2, <1>3, EmptyElems DEF Has
<1>7. \A u, d \in Thread : Announced(m, u, d)
  <2>1. TAKE u, d \in Thread
  <2>2. Announced(k, u, d)
    BY <1>1 DEF BooksOK
  <2>3. CASE d = t
    <3>1. CASE u = t
      BY <1>3, <1>6, <2>3, <3>1 DEF Announced, WaitsOn
    <3>2. CASE u # t
      BY <1>1, <1>4, <1>5, <1>6, <2>3, <3>2 DEF Announced, WaitsOn
    <3>3. QED BY <3>1, <3>2
  <2>4. CASE d # t
    <3>1. CASE u = t
      BY <1>3, <1>4, <2>4, <3>1 DEF Announced, WaitsOn
    <3>2. CASE u # t
      BY <1>1, <1>4, <2>2, <2>4, <3>2 DEF Announced, WaitsOn
    <3>3. QED BY <3>1, <3>2
  <2>5. QED BY <2>3, <2>4
<1>8. \A u \in Thread : InbufOK(m, u)
  <2>1. TAKE u \in Thread
  <2>2. CASE u = t
    BY <1>3, <2>2, EmptyElems DEF InbufOK
  <2>3. CASE u # t
    <3>1. InbufOK(k, u)
      BY <1>1 DEF BooksOK
    <3>2. CASE m.th[u].caller = None
      BY <1>4, <2>3, <3>2 DEF InbufOK
    <3>3. CASE m.th[u].caller # None
      <4>1. m.th[u].caller = k.th[u].caller /\ k.th[u].caller \in Thread
        BY <1>1, <1>4, <2>3, <3>3, BooksTypes
      <4>2. Has(m, u, k.th[u].caller)
        BY <4>1 DEF Has
      <4>3. k.th[u].caller # t
        BY <1>4, <2>3, <4>1, <4>2
      <4>4. m.serving[k.th[u].caller] = k.serving[k.th[u].caller]
        BY <1>4, <4>1, <4>3
      <4>5. QED BY <1>4, <2>3, <3>1, <3>3, <4>1, <4>4 DEF InbufOK
    <3>4. QED BY <3>2, <3>3
  <2>4. QED BY <2>2, <2>3
<1>9. \A u \in Thread \ {t} : Live(m, u) <=> Live(k, u)
  BY <1>4 DEF Live
<1>10. \A u \in Thread : OutbufOK(m, u)
  <2>1. TAKE u \in Thread
  <2>2. CASE u = t
    BY <1>3, <2>2 DEF OutbufOK
  <2>3. CASE u # t
    <3>1. OutbufOK(k, u)
      BY <1>1 DEF BooksOK
    <3>2. m.th[u].callee = k.th[u].callee /\ m.th[u].ipc = k.th[u].ipc
          /\ m.th[u].help = k.th[u].help /\ m.th[u].cpu = k.th[u].cpu
      BY <1>4, <2>3
    <3>3. CASE k.th[u].ipc = "AWAIT_REPLY"
      <4>1. k.th[u].callee \in Thread /\ (u \notin k.dropped => k.th[u].callee # t)
        BY <1>5, <3>3
      <4>2. u \notin k.dropped =>
              /\ m.th[k.th[u].callee].state = k.th[k.th[u].callee].state
              /\ m.th[k.th[u].callee].cpu = k.th[k.th[u].callee].cpu
        BY <1>4, <4>1
      <4>3. QED BY <1>1, <3>1, <3>2, <3>3, <4>2 DEF OutbufOK
    <3>4. CASE k.th[u].ipc # "AWAIT_REPLY"
      BY <3>1, <3>2, <3>4 DEF OutbufOK
    <3>5. QED BY <3>3, <3>4
  <2>4. QED BY <2>2, <2>3
<1>11. BooksOK(m)
  BY <1>7, <1>8, <1>10, <1>b DEF BooksOK
<1>12. \A u \in Thread : StateOK(m, u)
  <2>1. TAKE u \in Thread
  <2>2. CASE u = t
    BY <1>3, <2>2 DEF StateOK, StateFits, Live, New
  <2>3. CASE u # t
    BY <1>1, <1>4, <1>9, <2>3 DEF StateOK, StateFits
  <2>4. QED BY <2>2, <2>3
<1>13. \A u \in Thread : ShareOK(m, u)
  <2>1. TAKE u \in Thread
  <2>2. CASE u = t
    BY <1>3, <2>2 DEF ShareOK, ShareFits, HelpsOutbufDst
  <2>3. CASE u # t
    <3>1. ShareOK(k, u)
      BY <1>1
    <3>2. /\ HelpsOutbufDst(m, u) <=> HelpsOutbufDst(k, u)
          /\ m.th[u].callee = k.th[u].callee /\ m.th[u].state = k.th[u].state
          /\ m.th[u].paused = k.th[u].paused /\ m.th[u].share = k.th[u].share
      BY <1>4, <2>3 DEF HelpsOutbufDst
    <3>3. ~k.misused /\ HelpsOutbufDst(k, u) =>
            m.th[k.th[u].callee].share = k.th[k.th[u].callee].share
      BY <1>4, <1>a
    <3>4. QED BY <1>1, <3>1, <3>2, <3>3 DEF ShareOK, ShareFits
  <2>4. QED BY <2>2, <2>3
<1>14. QED BY <1>1, <1>11, <1>12, <1>13 DEF Sound

\* Thread t has its initial values, and nothing else changes
Reset(b, m, t, s) ==
  /\ m \in KernelState /\ m.panic = b.panic /\ m.dropped = b.dropped /\ m.misused = b.misused
  /\ m.event = b.event /\ m.th[t] = New(s)
  /\ \A u \in Thread \ {t} : m.th[u] = b.th[u] /\ m.serving[u] = b.serving[u]

\* A constructed or destroyed thread has its initial values, and nothing else changes.
LEMMA ResetSet ==
  ASSUME NEW b \in KernelState, NEW t \in Thread, NEW s \in {"ABSENT", "AWAITS_START"}
  PROVE  /\ Reset(b, [b EXCEPT !.th[t] = New(s)], t, s)
         /\ Reset(b, [[b EXCEPT !.th[t].callee = None] EXCEPT !.th[t] = New(s)], t, s)
<1> DEFINE o == New(s)
<1>1. o \in ThreadObject
  BY DEF New, ThreadObject, ThreadState, IpcState
<1> HIDE DEF o
<1>2. Reset(b, [b EXCEPT !.th[t] = o], t, s)
  <2> DEFINE m == [b EXCEPT !.th[t] = o]
  <2>1. OnlyThread(b, m, t, o)
    BY <1>1, ThreadSet
  <2> HIDE DEF m
  <2>2. Reset(b, m, t, s)
    BY <2>1 DEF OnlyThread, Reset, o
  <2>3. QED BY <2>2 DEF m
<1>3. [[b EXCEPT !.th[t].callee = None] EXCEPT !.th[t] = o] = [b EXCEPT !.th[t] = o]
  <2> DEFINE f == [b.th EXCEPT ![t].callee = None]
  <2>1. [b EXCEPT !.th[t].callee = None] = [b EXCEPT !.th = f]
    BY DEF KernelState
  <2>2. [f EXCEPT ![t] = o] = [b.th EXCEPT ![t] = o]
    BY StateFields
  <2> HIDE DEF f
  <2>3. QED BY <2>1, <2>2 DEF KernelState
<1>4. QED BY <1>2, <1>3 DEF o

\* _call_new<Thread>: nobody waits for a thread that is not there.
LEMMA NewSound ==
  ASSUME NEW k, Sound(k), NEW t \in Thread, k.th[t].state = "ABSENT"
  PROVE  LET m == [k EXCEPT !.th[t] = New("AWAITS_START")]
         IN  Sound(m) /\ m.event = k.event
<1> DEFINE m == [k EXCEPT !.th[t] = New("AWAITS_START")]
<1>1. k \in KernelState /\ NoFailure(k) /\ BooksOK(k) /\ StateOK(k, t)
  BY DEF Sound
<1>2. k.th[t].ipc = "INACTIVE"
  BY <1>1 DEF StateOK
<1>3. \A u \in Thread : ~Has(k, u, t)
  BY <1>1, <1>2 DEF BooksOK, Announced, WaitsOn
<1>4. \A u \in Thread : ~Has(k, t, u)
  BY <1>1 DEF BooksOK, Announced, WaitsOn, OutbufOK
<1>5. Erased(k, k, t)
  BY <1>1, <1>3 DEF Erased, BooksOK, InbufOK
<1>6. Reset(k, m, t, "AWAITS_START")
  BY <1>1, ResetSet
<1> HIDE DEF m
<1>7. Sound(m)
  BY <1>1, <1>4, <1>5, <1>6, ResetSound DEF Reset
<1>8. QED BY <1>6, <1>7 DEF m, Reset

\* _call_delete<Thread>: all requests to and of the thread end.
LEMMA DeleteSound ==
  ASSUME NEW k, Sound(k), NEW t \in Thread
  PROVE  LET i == CancelOutbufRequest(CancelInbufRequest(CancelRequestQueue(k, t), t), t)
             m == [i EXCEPT !.th[t] = New("ABSENT")]
         IN  Sound(m) /\ m.event = k.event
<1> DEFINE q == CancelRequestQueue(k, t)
           n == CancelInbufRequest(q, t)
           i == CancelOutbufRequest(n, t)
           m == [i EXCEPT !.th[t] = New("ABSENT")]
<1>1. Sound(q) /\ q.event = k.event /\ q.th[t].queue = <<>>
  BY CancelQueueSound
<1> HIDE DEF q
<1>2. Sound(n) /\ n.event = q.event /\ n.th[t].caller = None /\ n.th[t].queue = q.th[t].queue
  BY <1>1, CancelInbufSound
<1> HIDE DEF n
<1>3. n \in KernelState /\ NoFailure(n) /\ BooksOK(n) /\ n.event = k.event
  BY <1>1, <1>2 DEF Sound
<1>4. None \notin Thread
  BY ThreadAssumption
<1>5. \A u \in Thread : ~Has(n, t, u)
  BY <1>1, <1>2, <1>4, EmptyElems DEF Has
<1>6. ASSUME NEW b, Erased(n, b, t), i = [b EXCEPT !.th[t].callee = None]
      PROVE  Sound(m) /\ m.event = k.event
  <2> DEFINE e == [[b EXCEPT !.th[t].callee = None] EXCEPT !.th[t] = New("ABSENT")]
  <2>1. m = e
    BY <1>6, Zenon
  <2> HIDE DEF m
  <2>2. b \in KernelState /\ b.panic = n.panic /\ b.event = n.event
    BY <1>6 DEF Erased
  <2>a. Reset(b, e, t, "ABSENT")
    BY <2>2, ResetSet, Zenon
  <2> HIDE DEF e
  <2>3. Reset(b, m, t, "ABSENT")
    BY <2>1, <2>a
  <2>4. Sound(m)
    BY <1>2, <1>5, <1>6, <2>3, ResetSound DEF Reset
  <2>5. QED BY <1>3, <2>2, <2>3, <2>4 DEF Reset
<1>7. \A u \in Thread : Announced(n, t, u) /\ InbufOK(n, u)
  BY <1>3 DEF BooksOK
<1>8. CASE n.th[t].callee = None
  <2>1. i = [n EXCEPT !.th[t].callee = None]
    BY <1>8 DEF CancelOutbufRequest
  <2>2. \A u \in Thread : ~Has(n, u, t)
    BY <1>4, <1>7, <1>8 DEF Announced, WaitsOn
  <2>3. Erased(n, n, t)
    BY <1>3, <1>7, <2>2 DEF Erased, InbufOK
  <2> HIDE DEF m, i
  <2>4. Sound(m) /\ m.event = k.event
    BY <1>6, <2>1, <2>3
  <2>5. QED BY <2>4 DEF m, i, n, q
<1>9. CASE n.th[t].callee # None
  <2> DEFINE d == n.th[t].callee
  <2>1. d \in Thread
    <3>1. n.th[t] \in ThreadObject
      BY <1>3, StateFields
    <3>2. QED BY <1>9, <3>1 DEF ThreadObject
  <2>2. PICK b : Removed(n, b, t, d) /\ i = [b EXCEPT !.th[t].callee = None]
    BY <1>2, <2>1, OutbufRemoved
  <2>3. Erased(n, b, t)
    <3>1. \A u \in Thread : \A v \in Thread : Has(b, u, v) <=> Has(n, u, v) /\ v # t
      <4>1. TAKE u \in Thread
      <4>2. TAKE v \in Thread
      <4>3. CASE u = d
        BY <2>2, <4>3 DEF Removed
      <4>4. CASE u # d
        <5>1. ~Has(n, u, t)
          BY <1>7, <4>4 DEF Announced, WaitsOn
        <5>2. Has(b, u, v) <=> Has(n, u, v)
          BY <2>2, <4>4 DEF Removed, Has
        <5>3. QED BY <5>1, <5>2
      <4>5. QED BY <4>3, <4>4
    <3>2. \A u \in Thread : /\ b.th[u].caller \in {n.th[u].caller, None}
                            /\ Distinct(b.th[u].queue)
                            /\ Elems(b.th[u].queue) \subseteq Elems(n.th[u].queue)
      BY <1>7, <2>2 DEF Removed, InbufOK
    <3>3. QED BY <2>2, <3>1, <3>2 DEF Removed, Erased
  <2> HIDE DEF m, i
  <2>4. Sound(m) /\ m.event = k.event
    BY <1>6, <2>2, <2>3
  <2>5. QED BY <2>4 DEF m, i, n, q
<1>10. QED BY <1>8, <1>9

\* What Ipc_node::send_request assigns to thread t before it announces the request
Requests(k, t, d) ==
  [k EXCEPT !.th[t].ipc = "AWAIT_REPLY", !.th[t].callee = d, !.th[t].help = FALSE,
            !.serving[t] = None, !.dropped = @ \ {t}]

\* Thread t awaits the reply of thread d, and nothing else changes
OnlyRequests(k, m, t, d) ==
  /\ m \in KernelState /\ m.panic = k.panic /\ m.misused = k.misused /\ m.event = k.event
  /\ m.dropped = k.dropped \ {t}
  /\ \A u \in Thread \ {t} : m.serving[u] = k.serving[u]
  /\ m.th[t].ipc = "AWAIT_REPLY" /\ m.th[t].callee = d /\ m.th[t].help = FALSE
  /\ \A u \in Thread :
       /\ u # t => /\ m.th[u].ipc = k.th[u].ipc /\ m.th[u].callee = k.th[u].callee
                   /\ m.th[u].help = k.th[u].help
       /\ m.th[u].state = k.th[u].state /\ m.th[u].share = k.th[u].share
       /\ m.th[u].paused = k.th[u].paused /\ m.th[u].cpu = k.th[u].cpu
       /\ m.th[u].caller = k.th[u].caller /\ m.th[u].queue = k.th[u].queue

\* Ipc_node::send_request assigns to the sender only.
LEMMA RequestsSet ==
  ASSUME NEW k \in KernelState, NEW t \in Thread, NEW d \in Thread
  PROVE  OnlyRequests(k, Requests(k, t, d), t, d)
<1> DEFINE o == [k.th[t] EXCEPT !.ipc = "AWAIT_REPLY", !.callee = d, !.help = FALSE]
           m == Requests(k, t, d)
<1>1. k.th \in [Thread -> ThreadObject] /\ k.serving \in [Thread -> Thread \cup {None}]
      /\ k.th[t] \in ThreadObject /\ k.dropped \ {t} \in SUBSET Thread
  BY StateFields
<1>2. o \in ThreadObject
  BY <1>1 DEF ThreadObject, IpcState
<1> DEFINE p == [k EXCEPT !.th[t].ipc = "AWAIT_REPLY", !.th[t].callee = d, !.th[t].help = FALSE]
<1>a. p = [k EXCEPT !.th[t] = o]
  BY <1>1 DEF KernelState
<1>b. m = [p EXCEPT !.serving[t] = None, !.dropped = @ \ {t}]
  BY DEF Requests
<1> HIDE DEF p, m
<1>3. m = [k EXCEPT !.th[t] = o, !.serving[t] = None, !.dropped = @ \ {t}]
  BY <1>a, <1>b
<1>4. o.ipc = "AWAIT_REPLY" /\ o.callee = d /\ o.help = FALSE /\ o.state = k.th[t].state
      /\ o.share = k.th[t].share /\ o.paused = k.th[t].paused /\ o.cpu = k.th[t].cpu
      /\ o.queue = k.th[t].queue /\ o.caller = k.th[t].caller
  BY <1>1 DEF ThreadObject
<1> HIDE DEF o
<1>5. m.th = [k.th EXCEPT ![t] = o] /\ m.serving = [k.serving EXCEPT ![t] = None]
      /\ m.panic = k.panic /\ m.event = k.event /\ m.dropped = k.dropped \ {t}
      /\ m.misused = k.misused
  BY <1>3 DEF KernelState
<1>6. m.th \in [Thread -> ThreadObject] /\ m.serving \in [Thread -> Thread \cup {None}]
  BY <1>1, <1>2, <1>5
<1>7. m \in KernelState
  BY <1>1, <1>3, <1>5, <1>6 DEF KernelState
<1>8. /\ m.th[t] = o /\ \A u \in Thread \ {t} : m.th[u] = k.th[u]
      /\ \A u \in Thread \ {t} : m.serving[u] = k.serving[u]
  BY <1>1, <1>5
<1>9. OnlyRequests(k, m, t, d)
  BY <1>4, <1>5, <1>7, <1>8 DEF OnlyRequests
<1>10. QED BY <1>9 DEF m

\* Thread t is in the books of thread d, which gave up o, and nothing else has changed since
\* state k
Announces(k, w, t, d, o) ==
  /\ w \in KernelState /\ w.panic = k.panic /\ w.event = k.event
  /\ o \in {None, k.th[d].caller}
  /\ \A u \in Thread : u \in w.dropped <=> (u \in k.dropped /\ u # t) \/ u = o
  /\ k.misused => w.misused
  /\ o # None /\ HelpsOutbufDst(k, o) => w.misused
  /\ \A u \in Thread \ {t} : w.serving[u] = k.serving[u]
  /\ w.th[t].ipc = "AWAIT_REPLY" /\ w.th[t].callee = d /\ w.th[t].help = FALSE
  /\ \A u \in Thread :
       /\ u # t => w.th[u].callee = k.th[u].callee /\ w.th[u].help = k.th[u].help
       /\ u # t /\ u # d => w.th[u].ipc = k.th[u].ipc
       /\ w.th[u].state = k.th[u].state /\ w.th[u].share = k.th[u].share
       /\ w.th[u].paused = k.th[u].paused /\ w.th[u].cpu = k.th[u].cpu
       /\ u # d => w.th[u].caller = k.th[u].caller /\ w.th[u].queue = k.th[u].queue
       /\ Has(w, d, u) <=> (Has(k, d, u) /\ u # o) \/ u = t
  /\ w.th[d].ipc = "AWAIT_REPLY" <=> k.th[d].ipc = "AWAIT_REPLY"
  /\ w.th[d].ipc # "INACTIVE" => k.th[d].ipc # "INACTIVE"
  /\ InbufOK(w, d)

\* A request that is announced leaves all in order but for the state of its sender.
LEMMA AnnouncesSettled ==
  ASSUME NEW k, Sound(k), NEW t \in Thread, NEW d \in Thread, <<t, d>> \in Calls, t # d,
         k.th[t].ipc = "INACTIVE", ~k.misused => k.th[t].state = "ACTIVE",
         k.th[d].state # "ABSENT", NEW w, NEW o, Announces(k, w, t, d, o)
  PROVE  Settled(w, t)
<1>1. /\ k \in KernelState /\ NoFailure(k) /\ BooksOK(k) /\ StateOK(k, t) /\ ShareOK(k, t)
      /\ ~HelpsOutbufDst(k, t) /\ (~k.misused => k.th[t].cpu \in affinity[t])
  BY SoundActive DEF Live, HelpsOutbufDst
<1>2. \A u \in Thread : StateOK(k, u) /\ ShareOK(k, u)
  BY DEF Sound
<1>3. t # d /\ None \notin Thread
  BY ThreadAssumption
<1>4. \A u \in Thread : ~Has(k, u, t)
  BY <1>1 DEF BooksOK, Announced, WaitsOn
<1>5. /\ w \in KernelState /\ w.panic = k.panic /\ (k.misused => w.misused)
      /\ \A u \in Thread \ {t} : w.serving[u] = k.serving[u]
      /\ w.th[t].ipc = "AWAIT_REPLY" /\ w.th[t].callee = d /\ w.th[t].help = FALSE
      /\ w.th[d].ipc = "AWAIT_REPLY" <=> k.th[d].ipc = "AWAIT_REPLY"
      /\ w.th[d].ipc # "INACTIVE" => k.th[d].ipc # "INACTIVE"
      /\ InbufOK(w, d)
  BY DEF Announces
<1>a. /\ \A u \in Thread : u \in w.dropped <=> (u \in k.dropped /\ u # t) \/ u = o
      /\ o # None /\ HelpsOutbufDst(k, o) => w.misused
      /\ o # None => o # t /\ Has(k, d, o)
  BY <1>4 DEF Announces, Has
<1>b. NoFailure(w)
  BY <1>1, <1>5 DEF NoFailure
<1>6. \A u \in Thread :
       /\ u # t => w.th[u].callee = k.th[u].callee /\ w.th[u].help = k.th[u].help
       /\ u # t /\ u # d => w.th[u].ipc = k.th[u].ipc
       /\ w.th[u].state = k.th[u].state /\ w.th[u].share = k.th[u].share
       /\ w.th[u].paused = k.th[u].paused /\ w.th[u].cpu = k.th[u].cpu
       /\ u # d => w.th[u].caller = k.th[u].caller /\ w.th[u].queue = k.th[u].queue
       /\ Has(w, d, u) <=> (Has(k, d, u) /\ u # o) \/ u = t
  BY DEF Announces
<1>7. \A u \in Thread : u # t => (w.th[u].ipc = "AWAIT_REPLY" <=> k.th[u].ipc = "AWAIT_REPLY")
  BY <1>5, <1>6
<1>8. \A u \in Thread : Live(w, u) <=> Live(k, u)
  BY <1>6 DEF Live
<1>9. \A u, v \in Thread : Announced(w, u, v)
  <2>1. TAKE u, v \in Thread
  <2>2. Announced(k, u, v)
    BY <1>1 DEF BooksOK
  <2>3. v # d => (Has(w, v, u) <=> Has(k, v, u))
    BY <1>6 DEF Has
  <2>4. CASE u = t
    <3>1. t \notin w.dropped
      BY <1>3, <1>a
    <3>2. WaitsOn(w, t, v) <=> v = d
      BY <1>5, <3>1 DEF WaitsOn
    <3>3. QED BY <1>4, <1>6, <2>3, <2>4, <3>2 DEF Announced
  <2>5. CASE u # t
    <3>1. WaitsOn(w, u, v) <=> WaitsOn(k, u, v) /\ u # o
      BY <1>6, <1>7, <1>a, <2>5 DEF WaitsOn
    <3>2. u = o => Announced(k, u, d)
      BY <1>1 DEF BooksOK
    <3>3. v # d /\ u = o => ~WaitsOn(k, u, v)
      BY <1>3, <1>a, <3>2 DEF Announced, WaitsOn
    <3>4. QED BY <1>6, <2>2, <2>3, <2>5, <3>1, <3>3 DEF Announced
  <2>6. QED BY <2>4, <2>5
<1>10. \A u \in Thread : InbufOK(w, u)
  <2>1. TAKE u \in Thread
  <2>2. CASE u = d
    BY <1>5, <2>2
  <2>3. CASE u # d
    <3>1. InbufOK(k, u)
      BY <1>1 DEF BooksOK
    <3>2. w.th[u].caller = k.th[u].caller /\ w.th[u].queue = k.th[u].queue
      BY <1>6, <2>3
    <3>4. k.th[u].caller # None => w.serving[k.th[u].caller] = k.serving[k.th[u].caller]
      <4>1. HAVE k.th[u].caller # None
      <4>2. k.th[u].caller \in Thread
        BY <1>1, <4>1, BooksTypes
      <4>3. k.th[u].caller # t
        BY <1>4 DEF Has
      <4>4. QED BY <1>5, <4>2, <4>3
    <3>5. QED BY <3>1, <3>2, <3>4 DEF InbufOK
  <2>4. QED BY <2>2, <2>3
<1>11. \A u \in Thread : OutbufOK(w, u)
  <2>1. TAKE u \in Thread
  <2>2. CASE u = t
    BY <1>3, <1>5, <1>6, <2>2 DEF OutbufOK
  <2>3. CASE u # t
    <3>1. OutbufOK(k, u) /\ (k.th[u].ipc = "AWAIT_REPLY" => k.th[u].callee \in Thread)
      BY <1>1, BooksTypes DEF BooksOK
    <3>2. CASE k.th[u].ipc = "AWAIT_REPLY"
      <4>1. ~w.misused /\ w.th[u].help => ~k.misused /\ u # o
        BY <1>3, <1>5, <1>6, <1>a, <2>3, <3>2 DEF HelpsOutbufDst
      <4>2. u \notin w.dropped <=> u \notin k.dropped /\ u # o
        BY <1>a, <2>3
      <4>3. /\ w.th[k.th[u].callee].state = k.th[k.th[u].callee].state
            /\ w.th[k.th[u].callee].cpu = k.th[k.th[u].callee].cpu
        BY <1>6, <3>1, <3>2
      <4>4. QED BY <1>6, <1>7, <2>3, <3>1, <4>1, <4>2, <4>3 DEF OutbufOK
    <3>3. CASE k.th[u].ipc # "AWAIT_REPLY"
      BY <1>6, <1>7, <2>3, <3>1, <3>3 DEF OutbufOK
    <3>4. QED BY <3>2, <3>3
  <2>4. QED BY <2>2, <2>3
<1>c. ~w.misused => NoCircle(w)
  BY <1>1, <1>5, <1>6, <1>7, FewerHelpers DEF HelpsOutbufDst
<1>12. BooksOK(w)
  BY <1>9, <1>10, <1>11, <1>c DEF BooksOK
<1>13. \A u \in Thread : ShareOK(w, u)
  <2>1. TAKE u \in Thread
  <2>2. CASE u = t
    <3>1. ~HelpsOutbufDst(w, t) /\ ~HelpsOutbufDst(k, t)
      BY <1>1, <1>5 DEF HelpsOutbufDst
    <3>2. ShareOK(k, t)
      BY <1>2
    <3>3. QED BY <1>5, <1>6, <2>2, <3>1, <3>2 DEF ShareOK, ShareFits
  <2>3. CASE u # t
    <3>1. HelpsOutbufDst(w, u) <=> HelpsOutbufDst(k, u)
      BY <1>6, <1>7, <2>3 DEF HelpsOutbufDst
    <3>2. ShareOK(k, u)
      BY <1>2
    <3>3. QED BY <1>1, <1>5, <1>6, <2>3, <3>1, <3>2, SameShares
  <2>4. QED BY <2>2, <2>3
<1>14. \A u \in Thread \ {t} : StateOK(w, u)
  <2>1. TAKE u \in Thread \ {t}
  <2>2. StateOK(k, u) /\ (w.th[u].ipc # "INACTIVE" => k.th[u].ipc # "INACTIVE")
    BY <1>2, <1>5, <1>6
  <2>3. QED BY <1>5, <1>6, <1>8, <2>2 DEF StateOK, StateFits
<1>15. ~HelpsOutbufDst(w, t)
  BY <1>5 DEF HelpsOutbufDst
<1>16. QED BY <1>1, <1>5, <1>6, <1>b, <1>12, <1>13, <1>14, <1>15 DEF Settled

\* The request of thread t is in the queue of thread d, or in its inbuf.
LEMMA AnnounceSet ==
  ASSUME NEW k, Sound(k), NEW t \in Thread, NEW d \in Thread, t # d, k.th[t].ipc = "INACTIVE"
  PROVE  /\ LET s == Requests(k, t, d)
            IN  Announces(k, [s EXCEPT !.th[d].queue = InsertTail(@, t)], t, d, None)
         /\ k.th[d].ipc = "AWAIT_REQUEST" =>
              Announces(k, ReceiveRequest(Requests(k, t, d), d, t), t, d, k.th[d].caller)
<1> DEFINE s == Requests(k, t, d)
           q == s.th[d].queue
           w == [s EXCEPT !.th[d].queue = InsertTail(@, t)]
           r == ReceiveRequest(s, d, t)
<1>1. /\ k \in KernelState /\ BooksOK(k) /\ k.th[t].ipc = "INACTIVE" /\ InbufOK(k, d)
  BY DEF Sound, BooksOK
<1>2. t # d /\ None \notin Thread
  BY ThreadAssumption
<1>3. \A u \in Thread : ~Has(k, u, t)
  BY <1>1 DEF BooksOK, Announced, WaitsOn
<1>4. OnlyRequests(k, s, t, d)
  BY <1>1, RequestsSet
<1> HIDE DEF s
<1>5. /\ s \in KernelState /\ s.panic = k.panic /\ s.event = k.event
      /\ s.misused = k.misused /\ s.dropped = k.dropped \ {t}
      /\ \A u \in Thread \ {t} : s.serving[u] = k.serving[u]
      /\ s.th[t].ipc = "AWAIT_REPLY" /\ s.th[t].callee = d /\ s.th[t].help = FALSE
      /\ \A u \in Thread :
           /\ u # t => /\ s.th[u].ipc = k.th[u].ipc /\ s.th[u].callee = k.th[u].callee
                       /\ s.th[u].help = k.th[u].help
           /\ s.th[u].state = k.th[u].state /\ s.th[u].share = k.th[u].share
           /\ s.th[u].paused = k.th[u].paused /\ s.th[u].cpu = k.th[u].cpu
           /\ s.th[u].caller = k.th[u].caller /\ s.th[u].queue = k.th[u].queue
  BY <1>4 DEF OnlyRequests
<1>6. Announces(k, w, t, d, None)
  <2>1. q \in Seq(Thread) /\ q = k.th[d].queue /\ t \notin Elems(q) /\ Distinct(q)
    BY <1>1, <1>3, <1>5, BooksTypes DEF Has, InbufOK
  <2> DEFINE p == InsertTail(q, t)
  <2>2. p \in Seq(Thread) /\ Elems(p) = Elems(q) \cup {t} /\ Distinct(p)
    BY <2>1, InsertTailProps
  <2>3. w = [s EXCEPT !.th[d].queue = p]
    OBVIOUS
  <2> HIDE DEF p, q
  <2>4. OnlyQueue(s, w, d, p)
    BY <1>5, <2>2, <2>3, QueueSet
  <2> HIDE DEF w
  <2>5. /\ w \in KernelState /\ w.panic = k.panic /\ w.event = k.event
        /\ w.misused = k.misused /\ w.dropped = k.dropped \ {t}
        /\ \A u \in Thread \ {t} : w.serving[u] = k.serving[u]
        /\ w.th[t].ipc = "AWAIT_REPLY" /\ w.th[t].callee = d /\ w.th[t].help = FALSE
        /\ w.th[d].queue = p /\ w.th[d].caller = k.th[d].caller /\ w.th[d].ipc = k.th[d].ipc
    BY <1>2, <1>5, <2>4 DEF OnlyQueue
  <2>6. \A u \in Thread :
          /\ u # t => w.th[u].callee = k.th[u].callee /\ w.th[u].help = k.th[u].help
          /\ u # t /\ u # d => w.th[u].ipc = k.th[u].ipc
          /\ w.th[u].state = k.th[u].state /\ w.th[u].share = k.th[u].share
          /\ w.th[u].paused = k.th[u].paused /\ w.th[u].cpu = k.th[u].cpu
          /\ u # d => w.th[u].caller = k.th[u].caller /\ w.th[u].queue = k.th[u].queue
    BY <1>5, <2>4 DEF OnlyQueue
  <2>7. \A u \in Thread : Has(w, d, u) <=> (Has(k, d, u) /\ u # None) \/ u = t
    BY <1>2, <2>1, <2>2, <2>5 DEF Has
  <2>a. \A u \in Thread : u \in w.dropped <=> (u \in k.dropped /\ u # t) \/ u = None
    BY <1>2, <2>5
  <2>8. InbufOK(w, d)
    <3>1. Distinct(w.th[d].queue)
      BY <2>2, <2>5
    <3>2. ASSUME k.th[d].caller # None
          PROVE  k.th[d].caller \notin Elems(p) /\ w.serving[k.th[d].caller] = d
      <4>1. k.th[d].caller \in Thread \ {t}
        BY <1>1, <1>3, <3>2, BooksTypes DEF Has
      <4>2. QED BY <1>1, <2>1, <2>2, <2>5, <3>2, <4>1 DEF InbufOK
    <3>3. QED BY <2>5, <3>1, <3>2 DEF InbufOK
  <2>9. QED BY <2>5, <2>6, <2>7, <2>8, <2>a DEF Announces
<1>7. ASSUME k.th[d].ipc = "AWAIT_REQUEST" PROVE Announces(k, r, t, d, k.th[d].caller)
  <2> DEFINE o == k.th[d].caller
  <2>1. o # None => o \in Thread \ {t} /\ o \notin Elems(k.th[d].queue)
    BY <1>1, <1>3, BooksTypes DEF InbufOK, Has
  <2>2. OnlyReceives(s, r, d, t)
    BY <1>5, ReceivesSet
  <2> HIDE DEF r
  <2>5. /\ r \in KernelState /\ r.panic = k.panic /\ r.event = k.event
        /\ \A u \in Thread \ {t} : r.serving[u] = k.serving[u]
        /\ r.serving[t] = d
        /\ r.th[t].ipc = "AWAIT_REPLY" /\ r.th[t].callee = d /\ r.th[t].help = FALSE
        /\ r.th[d].queue = k.th[d].queue /\ r.th[d].caller = t /\ r.th[d].ipc = "INACTIVE"
        /\ \A u \in Thread : u \in r.dropped <=> (u \in k.dropped /\ u # t) \/ u = o
    BY <1>2, <1>5, <2>2 DEF OnlyReceives
  <2>a. /\ k.misused => r.misused
        /\ o # None /\ HelpsOutbufDst(k, o) => r.misused
    BY <1>5, <2>1, <2>2 DEF OnlyReceives, HelpsOutbufDst
  <2>6. \A u \in Thread :
          /\ u # t => r.th[u].callee = k.th[u].callee /\ r.th[u].help = k.th[u].help
          /\ u # t /\ u # d => r.th[u].ipc = k.th[u].ipc
          /\ r.th[u].state = k.th[u].state /\ r.th[u].share = k.th[u].share
          /\ r.th[u].paused = k.th[u].paused /\ r.th[u].cpu = k.th[u].cpu
          /\ u # d => r.th[u].caller = k.th[u].caller /\ r.th[u].queue = k.th[u].queue
    BY <1>5, <2>2 DEF OnlyReceives
  <2>7. \A u \in Thread : Has(r, d, u) <=> (Has(k, d, u) /\ u # o) \/ u = t
    BY <1>2, <2>1, <2>5 DEF Has
  <2>8. InbufOK(r, d)
    BY <1>1, <1>3, <2>5 DEF InbufOK, Has
  <2>9. QED BY <1>7, <2>5, <2>6, <2>7, <2>8, <2>a DEF Announces
<1>8. QED BY <1>6, <1>7 DEF s

\* Thread t waits for thread d and keeps its share until its state is changed
Waits(k, w, t, d) ==
  /\ Settled(w, t)
  /\ w.th[t].ipc = "AWAIT_REPLY" /\ w.th[t].callee = d
  /\ t \notin w.dropped /\ w.th[d].state # "ABSENT"
  /\ ~w.misused => w.th[t].share /\ ~w.th[t].paused
  /\ k.misused => w.misused
  /\ w.th[t].cpu = k.th[t].cpu /\ w.th[d].cpu = k.th[d].cpu
  /\ \A u \in Thread \ {t} : /\ HelpsOutbufDst(w, u) <=> HelpsOutbufDst(k, u)
                            /\ w.th[u].callee = k.th[u].callee
  /\ w.event = k.event

\* Ipc_node::_announce_request: a server that waits becomes active, the sender still is.
LEMMA AnnounceWaits ==
  ASSUME NEW k, Sound(k), NEW t \in Thread, NEW d \in Thread, <<t, d>> \in Calls, t # d,
         k.th[t].ipc = "INACTIVE", ~k.misused => k.th[t].state = "ACTIVE" /\ ~k.th[t].paused,
         k.th[d].state # "ABSENT"
  PROVE  Waits(k, AnnounceRequest(Requests(k, t, d), d, t), t, d)
<1> DEFINE s == Requests(k, t, d)
           w == AnnounceRequest(s, d, t)
<1>1. /\ k \in KernelState /\ StateOK(k, d) /\ ShareOK(k, t) /\ ~HelpsOutbufDst(k, t)
      /\ BooksOK(k)
  BY SoundActive DEF HelpsOutbufDst
<1>2. t # d /\ None \notin Thread
  BY ThreadAssumption
<1>a. ~Has(k, d, t)
  BY <1>1 DEF BooksOK, Announced, WaitsOn
<1>3. s \in KernelState /\ s.th[d].ipc = k.th[d].ipc
  <2>1. OnlyRequests(k, s, t, d)
    BY <1>1, RequestsSet
  <2> HIDE DEF s
  <2>2. QED BY <1>2, <2>1 DEF OnlyRequests
<1>4. ASSUME NEW a, NEW o, Announces(k, a, t, d, o)
      PROVE  /\ Settled(a, t) /\ a.event = k.event /\ (k.misused => a.misused)
             /\ a.th[t].ipc = "AWAIT_REPLY" /\ a.th[t].callee = d /\ a.th[t].help = FALSE
             /\ t \notin a.dropped /\ a.th[d].state # "ABSENT"
             /\ ~a.misused => a.th[t].share /\ ~a.th[t].paused
             /\ a.th[d].state = k.th[d].state
             /\ a.th[t].cpu = k.th[t].cpu /\ a.th[d].cpu = k.th[d].cpu
             /\ \A u \in Thread \ {t} : /\ HelpsOutbufDst(a, u) <=> HelpsOutbufDst(k, u)
                                       /\ a.th[u].callee = k.th[u].callee
  <2>1. Settled(a, t)
    BY <1>4, AnnouncesSettled
  <2>2. t \notin a.dropped
    BY <1>2, <1>4, <1>a DEF Announces, Has
  <2>3. ~a.misused => a.th[t].share /\ ~a.th[t].paused
    BY <1>1, <1>4 DEF Announces, ShareOK, ShareFits
  <2>4. \A u \in Thread \ {t} : HelpsOutbufDst(a, u) <=> HelpsOutbufDst(k, u)
    BY <1>4 DEF Announces, HelpsOutbufDst
  <2>5. QED BY <1>4, <2>1, <2>2, <2>3, <2>4 DEF Announces
<1>5. CASE k.th[d].ipc # "AWAIT_REQUEST"
  <2>1. w = [s EXCEPT !.th[d].queue = InsertTail(@, t)]
    BY <1>3, <1>5 DEF AnnounceRequest
  <2>2. Announces(k, w, t, d, None)
    BY <2>1, AnnounceSet
  <2> HIDE DEF w
  <2>3. QED BY <1>4, <2>2 DEF Waits, w
<1>6. CASE k.th[d].ipc = "AWAIT_REQUEST"
  <2> DEFINE r == ReceiveRequest(s, d, t)
             o == k.th[d].caller
  <2>1. w = AwaitRequestDone(r, d)
    BY <1>3, <1>6 DEF AnnounceRequest
  <2>2. Announces(k, r, t, d, o)
    BY <1>6, AnnounceSet
  <2>3. r.th[d].ipc = "INACTIVE"
    BY <1>3, ReceivesSet DEF OnlyReceives
  <2> HIDE DEF r, w, o
  <2>4. /\ Settled(r, t) /\ r.event = k.event /\ (k.misused => r.misused)
        /\ r.th[t].ipc = "AWAIT_REPLY" /\ r.th[t].callee = d /\ r.th[t].help = FALSE
        /\ t \notin r.dropped /\ r.th[d].state # "ABSENT"
        /\ ~r.misused => r.th[t].share /\ ~r.th[t].paused
        /\ r.th[d].state = k.th[d].state
        /\ r.th[t].cpu = k.th[t].cpu /\ r.th[d].cpu = k.th[d].cpu
        /\ \A u \in Thread \ {t} : /\ HelpsOutbufDst(r, u) <=> HelpsOutbufDst(k, u)
                                  /\ r.th[u].callee = k.th[u].callee
    BY <1>4, <2>2
  <2>5. /\ r \in KernelState /\ NoFailure(r) /\ BooksOK(r) /\ ShareOK(r, d) /\ StateOK(r, d)
        /\ \A u \in Thread : ShareOK(r, u)
        /\ \A u \in Thread \ {t} : StateOK(r, u)
        /\ ~r.misused => r.th[t].cpu \in affinity[t]
    BY <1>2, <2>4 DEF Settled
  <2>6. /\ Apart(r, d) /\ ~HelpsOutbufDst(r, d)
        /\ ~r.misused => r.th[d].state = "AWAITS_IPC"
    BY <1>1, <1>6, <2>3, <2>4, <2>5, BooksApart DEF HelpsOutbufDst, StateOK, StateFits
  <2>7. Moves(r, w, d, "ACTIVE")
    BY <2>1, <2>5, <2>6, AwaitRequestDoneMoves
  <2>8. BooksOK(w) /\ \A u \in Thread \ {d} : StateOK(r, u) => StateOK(w, u)
    BY <2>5, <2>7, MovesBooks
  <2>9. /\ w \in KernelState /\ NoFailure(w) /\ w.event = r.event /\ w.th[d].state = "ACTIVE"
        /\ w.dropped = r.dropped /\ (r.misused => w.misused)
        /\ \A u \in Thread :
             /\ u # d => w.th[u].state = r.th[u].state
             /\ w.th[u].paused = r.th[u].paused /\ w.th[u].cpu = r.th[u].cpu
             /\ w.th[u].ipc = r.th[u].ipc /\ w.th[u].callee = r.th[u].callee
             /\ w.th[u].help = r.th[u].help
             /\ ShareOK(w, u)
    BY <2>7 DEF Moves, Changes
  <2>10. StateOK(w, d)
    <3>a. ~w.misused => ~r.misused /\ r.th[d].state = "AWAITS_IPC"
      BY <2>5, <2>6, <2>9
    <3>1. ~w.misused => r.th[d].cpu \in affinity[d]
      BY <2>5, <3>a DEF StateOK, StateFits, Live
    <3>2. QED BY <2>3, <2>9, <3>1 DEF StateOK, StateFits, Live
  <2>11. \A u \in Thread : HelpsOutbufDst(w, u) <=> HelpsOutbufDst(r, u)
    BY <2>9 DEF HelpsOutbufDst
  <2>a. ~HelpsOutbufDst(w, t) /\ ~HelpsOutbufDst(r, t)
    BY <2>4, <2>11 DEF HelpsOutbufDst
  <2>b. ~w.misused => w.th[t].share /\ ~w.th[t].paused
    <3>1. ShareOK(w, t) /\ ShareOK(r, t)
      BY <2>5, <2>9
    <3>2. QED BY <1>2, <2>4, <2>9, <2>a, <3>1 DEF ShareOK, ShareFits
  <2>12. Settled(w, t)
    BY <2>4, <2>5, <2>8, <2>9, <2>10, <2>a DEF Settled
  <2>13. QED BY <1>2, <2>4, <2>9, <2>11, <2>b, <2>12 DEF Waits, w
<1>7. QED BY <1>5, <1>6

\* What _call_send_request_msg assigns once the request is announced
Lends(k, t, help) == [[k EXCEPT !.th[t].help = help] EXCEPT !.th[t].state = "AWAITS_IPC"]

\* Thread t is blocked and lends its share or not, and nothing else changes
OnlyLends(k, m, t, help) ==
  /\ m \in KernelState /\ m.panic = k.panic /\ m.serving = k.serving /\ m.dropped = k.dropped
     /\ m.misused = k.misused /\ m.event = k.event
  /\ m.th[t].help = help /\ m.th[t].state = "AWAITS_IPC"
  /\ \A u \in Thread :
       /\ u # t => m.th[u].help = k.th[u].help /\ m.th[u].state = k.th[u].state
       /\ m.th[u].share = k.th[u].share
       /\ m.th[u].paused = k.th[u].paused /\ m.th[u].cpu = k.th[u].cpu
       /\ m.th[u].ipc = k.th[u].ipc /\ m.th[u].callee = k.th[u].callee
       /\ m.th[u].caller = k.th[u].caller /\ m.th[u].queue = k.th[u].queue

\* _call_send_request_msg assigns to the sender only.
LEMMA LendsSet ==
  ASSUME NEW k \in KernelState, NEW t \in Thread, NEW help \in BOOLEAN
  PROVE  OnlyLends(k, Lends(k, t, help), t, help)
<1> DEFINE o == [k.th[t] EXCEPT !.help = help, !.state = "AWAITS_IPC"]
           m == Lends(k, t, help)
<1>1. k.th \in [Thread -> ThreadObject] /\ k.th[t] \in ThreadObject
  BY StateFields
<1>2. o \in ThreadObject
  BY <1>1 DEF ThreadObject, ThreadState
<1>3. m = [k EXCEPT !.th[t] = o]
  BY <1>1 DEF KernelState, Lends
<1>4. o.ipc = k.th[t].ipc /\ o.callee = k.th[t].callee /\ o.help = help
      /\ o.state = "AWAITS_IPC"
      /\ o.share = k.th[t].share /\ o.paused = k.th[t].paused /\ o.cpu = k.th[t].cpu
      /\ o.queue = k.th[t].queue /\ o.caller = k.th[t].caller
  BY <1>1 DEF ThreadObject
<1> HIDE DEF o, m
<1>5. OnlyThread(k, m, t, o)
  BY <1>2, <1>3, ThreadSet
<1>6. OnlyLends(k, m, t, help)
  BY <1>4, <1>5 DEF OnlyThread, OnlyLends
<1>7. QED BY <1>6 DEF m

\* Who begins to help a thread outside the set of those that help him makes no circle.
LEMMA MoreHelpers ==
  ASSUME NEW k, NEW m, NEW t \in Thread, NEW d \in Thread, NEW U, NoCircle(k), t \in U, d \notin U,
         m.th[t].callee = d,
         \A u \in Thread \ {t} : HelpsOutbufDst(m, u) =>
           /\ HelpsOutbufDst(k, u) /\ m.th[u].callee = k.th[u].callee
           /\ k.th[u].callee \in Thread
           /\ u \in U <=> k.th[u].callee \in U
  PROVE  NoCircle(m)
<1>1. PICK rank \in [Thread -> Nat] :
        \A u \in Thread : HelpsOutbufDst(k, u) => rank[k.th[u].callee] < rank[u]
  BY DEF NoCircle
<1> DEFINE new == [u \in Thread |-> IF u \in U THEN rank[u] + rank[d] + 1 ELSE rank[u]]
<1>2. new \in [Thread -> Nat]
  BY <1>1
<1>3. ASSUME NEW u \in Thread, HelpsOutbufDst(m, u) PROVE new[m.th[u].callee] < new[u]
  <2>1. CASE u = t
    BY <1>1, <2>1
  <2>2. CASE u # t
    <3> DEFINE v == k.th[u].callee
    <3>1. v \in Thread /\ m.th[u].callee = v /\ (u \in U <=> v \in U) /\ HelpsOutbufDst(k, u)
      BY <1>3, <2>2
    <3>2. rank[v] < rank[u] /\ rank[v] \in Nat /\ rank[u] \in Nat /\ rank[d] \in Nat
      BY <1>1, <3>1
    <3> HIDE DEF v
    <3>3. new[v] < new[u]
      BY <3>1, <3>2
    <3>4. QED BY <3>1, <3>3
  <2>3. QED BY <2>1, <2>2
<1> HIDE DEF new
<1>4. QED BY <1>2, <1>3 DEF NoCircle

\* A thread that waits for thread d lends its share if it can, else the share is withdrawn with
\* all the shares that it uses.
LEMMA LendsSound ==
  ASSUME NEW k, Sound(k), NEW w, NEW t \in Thread, NEW d \in Thread, t # d, <<t, d>> \in Calls,
         Waits(k, w, t, d), NEW help \in BOOLEAN, help <=> k.th[d].cpu = k.th[t].cpu,
         help => d \notin UsedShares(k, t),
         NEW s, OnlyLends(w, s, t, help),
         NEW m, m = IF ~help \/ ~s.th[d].share THEN Deactivate(s, UsedShares(s, t), k.th[t].cpu) ELSE s
  PROVE  Sound(m) /\ m.event = k.event
<1>1. /\ Settled(w, t)
      /\ w.th[t].ipc = "AWAIT_REPLY" /\ w.th[t].callee = d
      /\ t \notin w.dropped /\ w.th[d].state # "ABSENT"
      /\ ~w.misused => w.th[t].share /\ ~w.th[t].paused
      /\ k.misused => w.misused
      /\ w.th[t].cpu = k.th[t].cpu /\ w.th[d].cpu = k.th[d].cpu
      /\ \A u \in Thread \ {t} : /\ HelpsOutbufDst(w, u) <=> HelpsOutbufDst(k, u)
                                /\ w.th[u].callee = k.th[u].callee
      /\ w.event = k.event
  BY DEF Waits
<1>2. /\ w \in KernelState /\ NoFailure(w) /\ BooksOK(w)
      /\ \A u \in Thread : ShareOK(w, u)
      /\ \A u \in Thread \ {t} : StateOK(w, u)
      /\ ~w.misused => w.th[t].cpu \in affinity[t]
  BY <1>1 DEF Settled
<1>3. /\ s \in KernelState /\ s.panic = w.panic /\ s.serving = w.serving /\ s.dropped = w.dropped
         /\ s.misused = w.misused /\ s.event = w.event
      /\ s.th[t].help = help /\ s.th[t].state = "AWAITS_IPC"
      /\ \A u \in Thread :
           /\ u # t => s.th[u].help = w.th[u].help /\ s.th[u].state = w.th[u].state
           /\ s.th[u].share = w.th[u].share
           /\ s.th[u].paused = w.th[u].paused /\ s.th[u].cpu = w.th[u].cpu
           /\ s.th[u].ipc = w.th[u].ipc /\ s.th[u].callee = w.th[u].callee
           /\ s.th[u].caller = w.th[u].caller /\ s.th[u].queue = w.th[u].queue
  BY DEF OnlyLends
<1>4. \A u \in Thread : w.th[u].state # "ABSENT" => s.th[u].state # "ABSENT"
  BY <1>3
<1>5. \A u, v \in Thread : Announced(s, u, v)
  BY <1>2, <1>3 DEF BooksOK, Announced, WaitsOn, Has
<1>6. \A u \in Thread : InbufOK(s, u)
  BY <1>2, <1>3 DEF BooksOK, InbufOK
<1>7. \A u \in Thread : OutbufOK(s, u)
  <2>1. TAKE u \in Thread
  <2>2. OutbufOK(w, u) /\ (w.th[u].ipc = "AWAIT_REPLY" => w.th[u].callee \in Thread)
    BY <1>2, BooksTypes DEF BooksOK
  <2>3. CASE u = t
    BY <1>1, <1>3, <1>4, <2>2, <2>3 DEF OutbufOK
  <2>4. CASE u # t
    BY <1>3, <1>4, <2>2, <2>4 DEF OutbufOK
  <2>5. QED BY <2>3, <2>4
<1>a. ~s.misused => NoCircle(s)
  <2> SUFFICES ASSUME ~s.misused PROVE NoCircle(s)
    OBVIOUS
  <2>1. \A u \in Thread \ {t} : HelpsOutbufDst(s, u) =>
          HelpsOutbufDst(w, u) /\ s.th[u].callee = w.th[u].callee
    BY <1>3 DEF HelpsOutbufDst
  <2>2. CASE ~help
    <3>1. ~HelpsOutbufDst(s, t)
      BY <1>3, <2>2 DEF HelpsOutbufDst
    <3>2. QED BY <1>2, <1>3, <2>1, <3>1, FewerHelpers
  <2>3. CASE help
    <3> DEFINE U == UsedShares(k, t)
    <3>1. Alone(k, t) /\ ~k.misused /\ BooksOK(k) /\ k \in KernelState
      BY <1>1, <1>3, SoundActive DEF Apart
    <3>2. /\ t \in U
          /\ \A u \in Thread \ {t} : u \in U <=> HelpsOutbufDst(k, u) /\ k.th[u].callee \in U
      BY <3>1, UsedAlike
    <3>3. d \notin U
      BY <2>3
    <3> HIDE DEF U
    <3>4. ASSUME NEW u \in Thread \ {t}, HelpsOutbufDst(s, u)
          PROVE  /\ HelpsOutbufDst(w, u) /\ s.th[u].callee = w.th[u].callee
                 /\ w.th[u].callee \in Thread
                 /\ u \in U <=> w.th[u].callee \in U
      <4>1. HelpsOutbufDst(w, u) /\ s.th[u].callee = w.th[u].callee
        BY <2>1, <3>4
      <4>2. HelpsOutbufDst(k, u) /\ w.th[u].callee = k.th[u].callee
        BY <1>1, <4>1
      <4>3. k.th[u].callee \in Thread
        BY <3>1, <4>2, BooksTypes DEF HelpsOutbufDst
      <4>4. QED BY <3>2, <4>1, <4>2, <4>3
    <3>5. NoCircle(w)
      BY <1>2, <1>3 DEF BooksOK
    <3>6. s.th[t].callee = d
      BY <1>1, <1>3
    <3>7. QED BY <3>2, <3>3, <3>4, <3>5, <3>6, MoreHelpers
  <2>4. QED BY <2>2, <2>3
<1>8. BooksOK(s)
  BY <1>5, <1>6, <1>7, <1>a DEF BooksOK
<1>9. \A u \in Thread : StateOK(s, u)
  <2>1. TAKE u \in Thread
  <2>2. CASE u = t
    BY <1>1, <1>2, <1>3, <2>2 DEF StateOK, StateFits, Live
  <2>3. CASE u # t
    BY <1>2, <1>3, <2>3 DEF StateOK, StateFits, Live
  <2>4. QED BY <2>2, <2>3
<1>10. \A u \in Thread \ {t} : ShareOK(s, u)
  <2>1. TAKE u \in Thread \ {t}
  <2>2. HelpsOutbufDst(s, u) <=> HelpsOutbufDst(w, u)
    BY <1>3 DEF HelpsOutbufDst
  <2>3. ShareOK(w, u)
    BY <1>2
  <2>4. QED BY <1>2, <1>3, <2>2, <2>3, SameShares
<1>b. NoFailure(s)
  BY <1>2, <1>3 DEF NoFailure
<1>11. SoundBut(s, t)
  BY <1>3, <1>8, <1>9, <1>10, <1>b DEF SoundBut
<1>12. Apart(s, t)
  BY <1>3, <1>8, <1>10, <1>b, BooksApart
<1>13. (~s.misused => s.th[t].share) /\ s.th[t].cpu = k.th[t].cpu /\ s.th[t].ipc = "AWAIT_REPLY"
       /\ s.th[t].callee = d
       /\ s.event = k.event
  BY <1>1, <1>3
<1>c. CASE s.misused
  <2>1. Keeps(s, s) /\ Keeps(s, Deactivate(s, UsedShares(s, t), k.th[t].cpu))
    BY <1>3, KeepsRest, UsedThreads DEF Keeps, SameThreads
  <2>2. Keeps(s, m)
    BY <2>1
  <2>3. SoundBut(m, t) /\ m.event = s.event /\ m.misused
    BY <1>3, <1>8, <1>9, <1>c, <2>2, KeptSoundBut
  <2>4. ShareOK(m, t)
    BY <2>3 DEF ShareOK
  <2>5. QED BY <1>13, <2>3, <2>4 DEF SoundBut, Sound
<1>14. CASE ~s.misused /\ (~help \/ ~s.th[d].share)
  <2>1. Switched(s, m, t, FALSE)
    BY <1>12, <1>13, <1>14, DeactivateUsed DEF Apart
  <2>2. SoundBut(m, t) /\ m.event = s.event
    BY <1>11, <2>1, SwitchedBooks
  <2>3. /\ m.th[t].state = "AWAITS_IPC" /\ m.th[t].callee = d /\ m.th[t].help = help
        /\ ~m.th[t].share /\ m.th[d].share \in {FALSE, s.th[d].share}
    BY <1>3, <1>13, <2>1 DEF Switched, SameThreads
  <2>4. ShareOK(m, t)
    <3>1. CASE ~help
      BY <2>3, <3>1 DEF ShareOK, ShareFits, HelpsOutbufDst
    <3>2. CASE ~s.th[d].share
      BY <2>3, <3>2 DEF ShareOK, ShareFits
    <3>3. QED BY <1>14, <3>1, <3>2
  <2>5. QED BY <1>13, <2>2, <2>4 DEF SoundBut, Sound
<1>15. CASE ~s.misused /\ help /\ s.th[d].share
  <2>1. m = s
    BY <1>15
  <2>2. ShareOK(s, t)
    BY <1>3, <1>13, <1>15 DEF ShareOK, ShareFits, HelpsOutbufDst
  <2>3. QED BY <1>11, <1>13, <2>1, <2>2 DEF SoundBut, Sound
<1>16. QED BY <1>c, <1>14, <1>15

\* The kernel state after thread t has sent a request to thread d
Sent(k, t, d) ==
  LET help   == k.th[d].cpu = k.th[t].cpu
      circle == help /\ d \in UsedShares(k, t)
      s      == [SendRequestIpc(k, t, d, help) EXCEPT !.th[t].state = "AWAITS_IPC"]
  IN  CASE circle -> Presume(KernelAssert(k, FALSE), FALSE)
        [] ~circle /\ (~help \/ ~s.th[d].share) -> Deactivate(s, UsedShares(s, t), k.th[t].cpu)
        [] OTHER -> s

\* A request that closes a circle is a misuse.
LEMMA CircleSound ==
  ASSUME NEW k, Sound(k)
  PROVE  LET m == Presume(KernelAssert(k, FALSE), FALSE) IN Sound(m) /\ m.event = k.event
<1> DEFINE m == Presume(KernelAssert(k, FALSE), FALSE)
<1>1. k \in KernelState /\ BooksOK(k) /\ \A u \in Thread : StateOK(k, u)
  BY DEF Sound
<1>2. /\ m \in KernelState /\ m.th = k.th /\ m.serving = k.serving /\ m.dropped = k.dropped
      /\ m.misused = TRUE /\ m.event = k.event
  BY <1>1 DEF Presume, KernelAssert, KernelState
<1> HIDE DEF m
<1>3. BooksOK(m)
  BY <1>1, <1>2, KeptBooks DEF SameThreads
<1>4. \A u \in Thread : StateOK(m, u) /\ ShareOK(m, u)
  BY <1>1, <1>2 DEF StateOK, ShareOK
<1>5. QED BY <1>2, <1>3, <1>4 DEF Sound, NoFailure, m

\* After a misuse, a thread that still waits may try to send.
LEMMA BusySound ==
  ASSUME NEW k, Sound(k), k.misused, NEW t \in Thread, NEW c
  PROVE  LET s == [k EXCEPT !.th[t].state = "AWAITS_IPC"]
         IN  /\ Sound(s) /\ s.event = k.event
             /\ Sound(Deactivate(s, UsedShares(s, t), c))
             /\ Deactivate(s, UsedShares(s, t), c).event = k.event
<1> DEFINE s == [k EXCEPT !.th[t].state = "AWAITS_IPC"]
           m == Deactivate(s, UsedShares(s, t), c)
<1>1. k \in KernelState /\ BooksOK(k) /\ \A u \in Thread : StateOK(k, u)
  BY DEF Sound
<1>2. OnlyState(k, s, t, "AWAITS_IPC")
  BY <1>1, StateSet DEF ThreadState
<1> HIDE DEF s
<1>3. BooksOK(s) /\ s \in KernelState /\ s.misused /\ s.event = k.event
  <2>1. s \in KernelState /\ s.serving = k.serving /\ s.dropped = k.dropped
        /\ s.misused = k.misused /\ s.event = k.event
    BY <1>2 DEF OnlyState
  <2>2. \A u \in Thread :
          /\ s.th[u].caller = k.th[u].caller /\ s.th[u].queue = k.th[u].queue
          /\ s.th[u].callee = k.th[u].callee /\ s.th[u].help = k.th[u].help
          /\ s.th[u].ipc = "AWAIT_REPLY" <=> k.th[u].ipc = "AWAIT_REPLY"
          /\ k.th[u].state # "ABSENT" => s.th[u].state # "ABSENT"
    BY <1>2 DEF OnlyState
  <2>3. QED BY <1>1, <2>1, <2>2, SameBooks
<1>4. \A u \in Thread : StateOK(s, u)
  BY <1>1, <1>2, <1>3 DEF OnlyState, StateOK
<1>5. Sound(s)
  BY <1>3, <1>4 DEF Sound, NoFailure, ShareOK
<1>6. Keeps(s, m)
  BY <1>3, KeepsRest, UsedThreads
<1> HIDE DEF m
<1>7. SoundBut(m, t) /\ m.event = s.event /\ m.misused
  BY <1>3, <1>4, <1>6, KeptSoundBut
<1>8. Sound(m)
  BY <1>7 DEF SoundBut, Sound, ShareOK
<1>9. QED BY <1>3, <1>5, <1>7, <1>8 DEF m, s

\* _call_send_request_msg to a known recipient
LEMMA SendSound ==
  ASSUME NEW k, Sound(k), NEW t \in Thread, NEW d \in Thread, <<t, d>> \in Calls,
         ~k.misused => k.th[t].state = "ACTIVE" /\ ~k.th[t].paused, k.th[d].state # "ABSENT"
  PROVE  LET m == Sent(k, t, d) IN Sound(m) /\ m.event = k.event
<1> DEFINE help == k.th[d].cpu = k.th[t].cpu
           circle == help /\ d \in UsedShares(k, t)
           s == [SendRequestIpc(k, t, d, help) EXCEPT !.th[t].state = "AWAITS_IPC"]
           w == AnnounceRequest(Requests(k, t, d), d, t)
           m == Sent(k, t, d)
<1>1. CASE circle
  <2>1. m = Presume(KernelAssert(k, FALSE), FALSE)
    BY <1>1 DEF Sent
  <2> HIDE DEF m
  <2>2. QED BY <2>1, CircleSound DEF m
<1>2. ~circle => t # d
  BY UsedThreads
<1>3. ~circle =>
        m = IF ~help \/ ~s.th[d].share THEN Deactivate(s, UsedShares(s, t), k.th[t].cpu) ELSE s
  BY DEF Sent
<1>4. CASE ~circle /\ k.th[t].ipc # "INACTIVE"
  <2>1. k.misused
    BY <1>4, SoundActive
  <2>2. s = [k EXCEPT !.th[t].state = "AWAITS_IPC"]
    BY <1>4 DEF SendRequestIpc
  <2> HIDE DEF s, m, help, circle
  <2>3. /\ Sound(s) /\ s.event = k.event
        /\ Sound(Deactivate(s, UsedShares(s, t), k.th[t].cpu))
        /\ Deactivate(s, UsedShares(s, t), k.th[t].cpu).event = k.event
    BY <2>1, <2>2, BusySound
  <2>4. QED BY <1>3, <1>4, <2>3 DEF m
<1>5. CASE ~circle /\ k.th[t].ipc = "INACTIVE"
  <2>1. t # d
    BY <1>2, <1>5
  <2>2. Waits(k, w, t, d)
    BY <1>5, <2>1, AnnounceWaits
  <2>3. s = Lends(w, t, help)
    BY <1>5 DEF SendRequestIpc, Requests, Lends
  <2>4. help \in BOOLEAN /\ (help <=> k.th[d].cpu = k.th[t].cpu)
    OBVIOUS
  <2>5. help => d \notin UsedShares(k, t)
    BY <1>5
  <2> HIDE DEF w, m, help, circle
  <2>6. w \in KernelState
    BY <2>2 DEF Waits, Settled
  <2>7. OnlyLends(w, s, t, help)
    BY <2>3, <2>4, <2>6, LendsSet
  <2> HIDE DEF s
  <2>8. m = IF ~help \/ ~s.th[d].share THEN Deactivate(s, UsedShares(s, t), k.th[t].cpu) ELSE s
    BY <1>3, <1>5
  <2>9. Sound(m) /\ m.event = k.event
    BY <2>1, <2>2, <2>4, <2>5, <2>7, <2>8, LendsSound
  <2>10. QED BY <2>9 DEF m
<1>6. QED BY <1>1, <1>4, <1>5

---------------------------------------------------------------------------
(***************************************************************************)
(* The specification                                                       *)
(***************************************************************************)

\* Each chain of helpers has an end, whose share is as ready as those of the chain and is ready
\* if and only if the thread can run.
LEMMA SinkShares ==
  ASSUME NEW k, Sound(k), ~k.misused, NEW t \in Thread
  PROVE  /\ HelpingSink(k, t) # {}
         /\ \A s \in HelpingSink(k, t) :
              /\ s \in Thread /\ ~HelpsOutbufDst(k, s)
              /\ k.th[s].share <=> k.th[t].share
              /\ k.th[s].share <=> k.th[s].state = "ACTIVE" /\ ~k.th[s].paused
<1> DEFINE E == HelpEdges(k)
           N == Cardinality(Thread)
           R == Reached(E, t, N)
           P == { v \in Thread : k.th[v].share <=> k.th[t].share }
<1>1. /\ k \in KernelState /\ BooksOK(k) /\ \A u \in Thread : ShareFits(k, u)
  BY DEF Sound, ShareOK
<1>2. \A u \in Thread : HelpsOutbufDst(k, u) => k.th[u].callee \in Thread
  BY <1>1, BooksTypes DEF HelpsOutbufDst
<1>3. HelpingSink(k, t) = { u \in R : ~HelpsOutbufDst(k, u) }
  BY <1>2, HelpingSinkReached
<1>4. N \in Nat
  BY ThreadAssumption, FS_CardinalityType
<1>5. R \subseteq Thread /\ t \in R
  <2>1. t \in Reached(E, t, 0)
    BY ReachedStep
  <2> HIDE DEF E, N
  <2>2. QED BY <1>4, <2>1 DEF Reached
<1>6. \A u, v \in Thread : <<u, v>> \in E <=> HelpsOutbufDst(k, u) /\ k.th[u].callee = v
  BY DEF HelpEdges
<1> HIDE DEF E
<1>7. \A u \in P, v \in Thread : <<u, v>> \in E => v \in P
  BY <1>1, <1>6 DEF ShareFits
<1>8. R \subseteq P
  <2>1. t \in P
    OBVIOUS
  <2> HIDE DEF P
  <2>2. \A n \in Nat : Reached(E, t, n) \subseteq P
    BY <1>7, <2>1, ReachedLeast
  <2>3. QED BY <1>4, <2>2
<1>9. \E u \in R : ~HelpsOutbufDst(k, u)
  <2>1. PICK rank \in [Thread -> Nat] :
          \A u \in Thread : HelpsOutbufDst(k, u) => rank[k.th[u].callee] < rank[u]
    BY <1>1 DEF BooksOK, NoCircle
  <2> DEFINE T == { rank[u] : u \in R }
  <2> HIDE DEF R
  <2>2. T \in SUBSET Nat /\ T # {}
    BY <1>5
  <2>3. PICK n \in T : \A m \in T : n <= m
    BY <2>2, LeastNumber
  <2>4. PICK u \in R : n = rank[u]
    BY <2>3
  <2>5. ASSUME HelpsOutbufDst(k, u) PROVE FALSE
    <3> DEFINE v == k.th[u].callee
    <3>1. u \in Thread /\ v \in Thread /\ <<u, v>> \in E
      BY <1>2, <1>5, <1>6, <2>5
    <3>2. v \in R
      BY <3>1, ReachedClosed DEF R
    <3>3. rank[v] < rank[u]
      BY <2>1, <2>5, <3>1
    <3> HIDE DEF v
    <3>4. rank[v] \in T /\ rank[v] \in Nat /\ rank[u] \in Nat
      BY <2>1, <3>1, <3>2
    <3>5. QED BY <2>3, <2>4, <3>3, <3>4
  <2>6. QED BY <2>5
<1> HIDE DEF R
<1>10. QED BY <1>1, <1>3, <1>5, <1>8, <1>9 DEF ShareFits

\* What a CPU executes is an active thread without a pending IPC operation.
LEMMA ExecutingActive ==
  ASSUME Sound(Kernel), ~Kernel.misused, NEW t \in Thread, Executing(t)
  PROVE  /\ Kernel.th[t].state = "ACTIVE" /\ ~Kernel.th[t].paused
         /\ Kernel.th[t].ipc = "INACTIVE"
<1>1. PICK u \in Thread : Kernel.th[u].share /\ t \in HelpingSink(Kernel, u)
  BY DEF Executing, Kernel
<1> HIDE DEF Kernel
<1>2. Kernel.th[t].state = "ACTIVE" /\ ~Kernel.th[t].paused
  BY <1>1, SinkShares
<1>3. QED BY <1>2, SoundActive

\* The event that a step delivers, the history of requests that nobody waits for, and failed
\* assertions after a misuse are no part of what is sound.
LEMMA HistorySound ==
  ASSUME NEW k, Sound(k), NEW m \in KernelState, NoFailure(m), m.th = k.th, k.misused => m.misused,
         \A t \in Thread : Pending(k, t) =>
           /\ m.serving[t] = k.serving[t]
           /\ t \in m.dropped <=> t \in k.dropped
  PROVE  Sound(m)
<1>1. /\ k \in KernelState /\ BooksOK(k)
      /\ \A t \in Thread : StateOK(k, t) /\ ShareOK(k, t)
  BY DEF Sound
<1>2. \A t, d \in Thread : (WaitsOn(m, t, d) <=> WaitsOn(k, t, d))
      /\ (Has(m, d, t) <=> Has(k, d, t))
  BY DEF WaitsOn, Has, Pending
<1>3. \A t \in Thread : HelpsOutbufDst(m, t) <=> HelpsOutbufDst(k, t)
  BY DEF HelpsOutbufDst
<1>4. ASSUME NEW t \in Thread PROVE InbufOK(m, t)
  <2> DEFINE c == k.th[t].caller
  <2>1. c # None => c \in Thread /\ WaitsOn(k, c, t)
    <3>1. c # None => c \in Thread
      BY <1>1, BooksTypes
    <3>2. QED BY <1>1, <3>1 DEF BooksOK, Announced, Has
  <2>2. c # None => m.serving[c] = k.serving[c]
    BY <2>1 DEF WaitsOn, Pending
  <2>3. InbufOK(k, t)
    BY <1>1 DEF BooksOK
  <2>4. QED BY <2>2, <2>3 DEF InbufOK
<1>5. ASSUME NEW t \in Thread PROVE OutbufOK(m, t)
  <2>1. OutbufOK(k, t)
    BY <1>1 DEF BooksOK
  <2>2. QED BY <2>1 DEF OutbufOK, Pending
<1>6. ~m.misused => NoCircle(m)
  BY <1>1, <1>3 DEF BooksOK, NoCircle
<1>7. BooksOK(m)
  BY <1>1, <1>2, <1>4, <1>5, <1>6 DEF BooksOK, Announced
<1>8. \A t \in Thread : StateOK(m, t) /\ ShareOK(m, t)
  BY <1>1, <1>3 DEF StateOK, ShareOK, StateFits, ShareFits, Live
<1>9. QED BY <1>7, <1>8 DEF Sound

\* Initially no thread exists.
LEMMA InitSound ==
  ASSUME Init
  PROVE  Sound(Kernel) /\ event \in {"none", "reply", "cancel"} \X (Thread \cup {None})
<1> DEFINE k == Kernel
<1>1. /\ k.th = [t \in Thread |-> New("ABSENT")] /\ k.panic = FALSE
      /\ k.serving = [t \in Thread |-> None] /\ k.dropped = {} /\ k.event = <<"none", None>>
      /\ event = <<"none", None>>
  BY DEF Init, Kernel, NoEvent
<1>2. New("ABSENT") \in ThreadObject
  BY DEF New, ThreadObject, ThreadState, IpcState
<1>3. k \in KernelState
  <2>1. th \in [Thread -> ThreadObject] /\ panic \in BOOLEAN
        /\ serving \in [Thread -> Thread \cup {None}]
        /\ dropped \in SUBSET Thread /\ misused \in BOOLEAN
    BY <1>2 DEF Init
  <2>2. NoEvent \in {"none", "reply", "cancel"} \X (Thread \cup {None})
    BY DEF NoEvent
  <2>3. QED BY <2>1, <2>2 DEF KernelState, Kernel
<1> HIDE DEF k
<1>4. \A t \in Thread :
        /\ k.th[t].state = "ABSENT" /\ ~k.th[t].paused /\ ~k.th[t].share
        /\ k.th[t].ipc = "INACTIVE" /\ k.th[t].caller = None /\ k.th[t].callee = None
        /\ k.th[t].queue = <<>>
  BY <1>1 DEF New
<1>5. Elems(<<>>) = {} /\ Distinct(<<>>)
  BY EmptyElems
<1>6. None \notin Thread
  BY ThreadAssumption
<1>a. NoCircle(k)
  <2>1. [t \in Thread |-> 0] \in [Thread -> Nat]
    OBVIOUS
  <2>2. QED BY <1>4, <2>1 DEF NoCircle, HelpsOutbufDst
<1>7. BooksOK(k)
  <2>1. \A t, d \in Thread : Announced(k, t, d)
    BY <1>4, <1>5, <1>6 DEF Announced, Has, WaitsOn
  <2>2. \A t \in Thread : InbufOK(k, t) /\ OutbufOK(k, t)
    BY <1>4, <1>5 DEF InbufOK, OutbufOK
  <2>3. QED BY <1>a, <2>1, <2>2 DEF BooksOK
<1>8. \A t \in Thread : StateOK(k, t) /\ ShareOK(k, t)
  <2>1. \A t \in Thread : k.th[t].cpu = None
    BY <1>1 DEF New
  <2>2. QED BY <1>4, <2>1 DEF StateOK, ShareOK, StateFits, ShareFits, Live, HelpsOutbufDst
<1>9. QED BY <1>1, <1>3, <1>7, <1>8 DEF Sound, NoFailure, k

\* A kernel call ends in a sound state m, and a reply has gone to a thread whose request the
\* callee has received
Handled(m) ==
  /\ Becomes(m) /\ Sound(m)
  /\ \A c \in Thread : m.event = <<"reply", c>> => serving[c] = th[c].callee

\* Handlers that deliver no reply
LEMMA HandledQuietly ==
  ASSUME NEW m, Becomes(m), Sound(m),
         m.event = NoEvent \/ \E t \in Thread : m.event = <<"cancel", t>>
  PROVE  Handled(m)
  BY DEF Handled, NoEvent

\* The kernel state that the calls of a cancelled thread start from
Cancelling(t) == [Kernel EXCEPT !.event = <<"cancel", t>>]

\* A cancellation starts in a sound state.
LEMMA CancellingSound ==
  ASSUME Sound(Kernel), NEW t \in Thread
  PROVE  /\ Sound(Cancelling(t)) /\ Cancelling(t).th = th
         /\ Cancelling(t).event = <<"cancel", t>>
<1> DEFINE k == Cancelling(t)
<1>1. Kernel \in KernelState
  BY DEF Sound
<1>2. /\ k.th = Kernel.th /\ k.panic = Kernel.panic /\ k.serving = Kernel.serving
      /\ k.dropped = Kernel.dropped /\ k.misused = Kernel.misused
      /\ k.event = <<"cancel", t>> /\ Kernel.th = th
  BY DEF Cancelling, Kernel
<1>3. <<"cancel", t>> \in {"none", "reply", "cancel"} \X (Thread \cup {None})
  OBVIOUS
<1>4. k \in KernelState
  BY <1>1, <1>3 DEF Cancelling, KernelState
<1> HIDE DEF k
<1>5. Sound(k)
  <2>1. NoFailure(k)
    BY <1>2 DEF Sound, NoFailure
  <2>2. QED BY <1>2, <1>4, <2>1, HistorySound
<1>6. QED BY <1>2, <1>5 DEF k

\* Every kernel call keeps the state sound.
LEMMA NextHandled ==
  ASSUME Sound(Kernel), Next
  PROVE  \E m : Handled(m)
<1>1. /\ Kernel.th = th /\ Kernel.panic = panic /\ Kernel.serving = serving
      /\ Kernel.event = NoEvent
  BY DEF Kernel
<1>2. PICK t \in Thread :
        \/ \E d \in Thread : SendRequest(t, d)
        \/ SendUnknown(t)
        \/ AwaitRequest(t)
        \/ \E await \in BOOLEAN : SendReply(t, await)
        \/ Stop(t)
        \/ Die(t)
        \/ Restart(t)
        \/ NewThread(t)
        \/ \E c \in Cpu : StartThread(t, c) \/ PauseThread(t, c)
        \/ ResumeThread(t)
        \/ CancelBlocking(t)
        \/ DeleteThread(t)
  BY DEF Next
<1>3. ASSUME Executing(t)
      PROVE  ~Kernel.misused => Kernel.th[t].state = "ACTIVE" /\ ~Kernel.th[t].paused
  BY <1>3, ExecutingActive
<1>4. ASSUME NEW d \in Thread, SendRequest(t, d) PROVE \E m : Handled(m)
  <2> DEFINE m == Sent(Kernel, t, d)
  <2>1. /\ Executing(t) /\ <<t, d>> \in Calls /\ Kernel.th[d].state # "ABSENT"
    BY <1>1, <1>4 DEF SendRequest
  <2>2. Becomes(m)
    BY <1>4 DEF SendRequest, Sent, Kernel
  <2>3. ~Kernel.misused => Kernel.th[t].state = "ACTIVE" /\ ~Kernel.th[t].paused
    BY <1>3, <2>1
  <2>4. Sound(m) /\ m.event = Kernel.event
    BY <2>1, <2>3, SendSound
  <2> HIDE DEF m
  <2>5. QED BY <1>1, <2>2, <2>4, HandledQuietly
<1>5. CASE SendUnknown(t)
  <2> DEFINE m == BecomeInactive(Kernel, t, "AWAITS_IPC")
  <2>1. Executing(t) /\ Becomes(m)
    BY <1>5 DEF SendUnknown
  <2>2. Sound(m) /\ m.event = NoEvent
    BY <1>1, <1>3, <2>1, InactiveSound DEF ThreadState
  <2> HIDE DEF m
  <2>3. QED BY <2>1, <2>2, HandledQuietly
<1>6. CASE AwaitRequest(t)
  <2> DEFINE m == AwaitRequestMsg(Kernel, t)
  <2>1. Executing(t) /\ Becomes(m)
    BY <1>6 DEF AwaitRequest
  <2>2. Sound(m) /\ m.event = NoEvent
    BY <1>1, <1>3, <2>1, AwaitSound
  <2> HIDE DEF m
  <2>3. QED BY <2>1, <2>2, HandledQuietly
<1>7. ASSUME NEW await \in BOOLEAN, SendReply(t, await) PROVE \E m : Handled(m)
  <2> DEFINE r == SendReplyIpc(Kernel, t)
             m == IF await THEN AwaitRequestMsg(r, t) ELSE r
  <2>1. Executing(t) /\ Becomes(m)
    BY <1>7 DEF SendReply
  <2>2. /\ Sound(r) /\ r.th[t].state = Kernel.th[t].state
        /\ Kernel.misused => r.misused
        /\ \/ r.event = Kernel.event
           \/ \E c \in Thread : /\ r.event = <<"reply", c>>
                                /\ Kernel.serving[c] = t /\ Kernel.th[c].callee = t
    BY ReplySound
  <2> HIDE DEF r
  <2>3. Sound(AwaitRequestMsg(r, t)) /\ AwaitRequestMsg(r, t).event = r.event
    BY <1>3, <2>1, <2>2, AwaitSound
  <2>4. Sound(m) /\ m.event = r.event
    BY <2>2, <2>3
  <2> HIDE DEF m
  <2>5. \A c \in Thread : m.event = <<"reply", c>> => serving[c] = th[c].callee
    BY <1>1, <2>2, <2>4 DEF NoEvent
  <2>6. QED BY <2>1, <2>4, <2>5 DEF Handled
<1>8. CASE Stop(t)
  <2> DEFINE x == th[t].state = "ACTIVE"
             k == KernelAssert(Kernel, x)
             m == BecomeInactive(k, t, "AWAITS_RESTART")
  <2>1. Executing(t) /\ Becomes(m)
    BY <1>8 DEF Stop
  <2>2. Kernel \in KernelState /\ NoFailure(Kernel) /\ (~Kernel.misused => x)
    BY <1>1, <1>3, <2>1 DEF Sound
  <2> HIDE DEF x
  <2>3. /\ k \in KernelState /\ k.th = Kernel.th /\ k.serving = Kernel.serving
        /\ k.dropped = Kernel.dropped /\ k.misused = Kernel.misused /\ k.event = NoEvent
        /\ k.panic <=> Kernel.panic \/ ~x
    BY <1>1, <2>2 DEF KernelAssert, KernelState
  <2> HIDE DEF k
  <2>4. Sound(k)
    <3>1. NoFailure(k)
      BY <2>2, <2>3 DEF NoFailure
    <3>2. QED BY <2>3, <3>1, HistorySound
  <2>5. Sound(m) /\ m.event = NoEvent
    BY <1>3, <2>1, <2>3, <2>4, InactiveSound DEF ThreadState
  <2> HIDE DEF m
  <2>6. QED BY <2>1, <2>5, HandledQuietly
<1>9. CASE Die(t)
  <2> DEFINE m == BecomeInactive(Kernel, t, "DEAD")
  <2>1. Executing(t) /\ Becomes(m)
    BY <1>9 DEF Die
  <2>2. Sound(m) /\ m.event = NoEvent
    BY <1>1, <1>3, <2>1, InactiveSound DEF ThreadState
  <2> HIDE DEF m
  <2>3. QED BY <2>1, <2>2, HandledQuietly
<1>10. CASE Restart(t)
  <2> DEFINE m == BecomeActive(Kernel, t)
  <2>1. Kernel.th[t].state = "AWAITS_RESTART" /\ Becomes(m)
    BY <1>1, <1>10 DEF Restart
  <2>2. Sound(m) /\ m.event = NoEvent
    BY <1>1, <2>1, RestartSound
  <2> HIDE DEF m
  <2>3. QED BY <2>1, <2>2, HandledQuietly
<1>11. CASE NewThread(t)
  <2> DEFINE m == [Kernel EXCEPT !.th[t] = New("AWAITS_START")]
  <2>1. Kernel.th[t].state = "ABSENT" /\ Becomes(m)
    BY <1>1, <1>11 DEF NewThread
  <2>2. Sound(m) /\ m.event = NoEvent
    BY <1>1, <2>1, NewSound
  <2> HIDE DEF m
  <2>3. QED BY <2>1, <2>2, HandledQuietly
<1>12. ASSUME NEW c \in Cpu, StartThread(t, c) PROVE \E m : Handled(m)
  <2> DEFINE m == BecomeActive([Kernel EXCEPT !.th[t].cpu = c], t)
  <2>1. Kernel.th[t].state = "AWAITS_START" /\ c \in affinity[t] /\ Becomes(m)
    BY <1>1, <1>12 DEF StartThread
  <2>2. Sound(m) /\ m.event = NoEvent
    BY <1>1, <2>1, StartSound
  <2> HIDE DEF m
  <2>3. QED BY <2>1, <2>2, HandledQuietly
<1>13. ASSUME NEW c \in Cpu, PauseThread(t, c) PROVE \E m : Handled(m)
  <2> DEFINE d == IF Kernel.th[t].state = "ACTIVE" /\ ~Kernel.th[t].paused
                  THEN Deactivate(Presume(Kernel, Kernel.th[t].cpu = c), UsedShares(Kernel, t), c)
                  ELSE Kernel
             m == [d EXCEPT !.th[t].paused = TRUE]
  <2>1. Becomes(m)
    BY <1>1, <1>13 DEF PauseThread
  <2>2. Sound(m) /\ m.event = NoEvent
    BY <1>1, <2>1, PauseSound
  <2> HIDE DEF m
  <2>3. QED BY <2>1, <2>2, HandledQuietly
<1>14. CASE ResumeThread(t)
  <2> DEFINE a == IF Kernel.th[t].state = "ACTIVE" /\ Kernel.th[t].paused
                  THEN Activate(Kernel, UsedShares(Kernel, t))
                  ELSE Kernel
             m == [a EXCEPT !.th[t].paused = FALSE]
  <2>1. Becomes(m)
    BY <1>1, <1>14 DEF ResumeThread
  <2>2. Sound(m) /\ m.event = NoEvent
    BY <1>1, <2>1, ResumeSound
  <2> HIDE DEF m
  <2>3. QED BY <2>1, <2>2, HandledQuietly
<1>15. CASE CancelBlocking(t)
  <2> DEFINE k == Cancelling(t)
  <2>1. Sound(k) /\ k.th = th /\ k.event = <<"cancel", t>>
    BY CancellingSound
  <2>2. \/ th[t].state = "AWAITS_RESTART" /\ Becomes(BecomeActive(k, t))
        \/ th[t].state = "AWAITS_IPC" /\ Becomes(CancelWaiting(k, t))
    BY <1>15 DEF CancelBlocking, Cancelling
  <2> HIDE DEF k
  <2>3. CASE th[t].state = "AWAITS_RESTART" /\ Becomes(BecomeActive(k, t))
    <3>1. Sound(BecomeActive(k, t)) /\ BecomeActive(k, t).event = k.event
      BY <2>1, <2>3, RestartSound
    <3>2. QED BY <2>1, <2>3, <3>1, HandledQuietly
  <2>4. CASE th[t].state = "AWAITS_IPC" /\ Becomes(CancelWaiting(k, t))
    <3>1. Sound(CancelWaiting(k, t)) /\ CancelWaiting(k, t).event = k.event
      BY <2>1, <2>4, CancelWaitingSound
    <3>2. QED BY <2>1, <2>4, <3>1, HandledQuietly
  <2>5. QED BY <2>2, <2>3, <2>4
<1>16. CASE DeleteThread(t)
  <2> DEFINE i == CancelOutbufRequest(CancelInbufRequest(CancelRequestQueue(Kernel, t), t), t)
             m == [i EXCEPT !.th[t] = New("ABSENT")]
  <2>1. Becomes(m)
    BY <1>16 DEF DeleteThread
  <2>2. Sound(m) /\ m.event = NoEvent
    BY <1>1, DeleteSound
  <2> HIDE DEF m
  <2>3. QED BY <2>1, <2>2, HandledQuietly
<1>17. QED BY <1>2, <1>4, <1>5, <1>6, <1>7, <1>8, <1>9, <1>10, <1>11, <1>12, <1>13, <1>14, <1>15,
              <1>16

\* The inductive invariant
IInv ==
  /\ Sound(Kernel)
  /\ event \in {"none", "reply", "cancel"} \X (Thread \cup {None})

\* What a kernel call leaves is sound without the history that ends with it.
LEMMA BecomesSound ==
  ASSUME NEW m, Becomes(m), Sound(m)
  PROVE  Sound(Kernel)' /\ event' \in {"none", "reply", "cancel"} \X (Thread \cup {None})
<1>1. /\ th' = m.th /\ panic' = m.panic /\ misused' = m.misused /\ event' = m.event
      /\ serving' = [t \in Thread |-> IF Pending(m, t) THEN m.serving[t] ELSE None]
      /\ dropped' = { t \in m.dropped : Pending(m, t) }
  BY DEF Becomes
<1>2. /\ m \in KernelState /\ m.th \in [Thread -> ThreadObject] /\ m.panic \in BOOLEAN
      /\ m.serving \in [Thread -> Thread \cup {None}] /\ m.dropped \in SUBSET Thread
      /\ m.misused \in BOOLEAN /\ m.event \in {"none", "reply", "cancel"} \X (Thread \cup {None})
  BY StateFields DEF Sound
<1> DEFINE k == [th |-> th', panic |-> panic', serving |-> serving', dropped |-> dropped',
                 misused |-> misused', event |-> NoEvent]
<1>3. NoEvent \in {"none", "reply", "cancel"} \X (Thread \cup {None})
  BY DEF NoEvent
<1>4. serving' \in [Thread -> Thread \cup {None}] /\ dropped' \in SUBSET Thread
  BY <1>1, <1>2
<1>5. k \in KernelState
  BY <1>1, <1>2, <1>3, <1>4 DEF KernelState
<1>6. /\ k.th = m.th /\ k.panic = m.panic /\ k.misused = m.misused
      /\ \A t \in Thread : Pending(m, t) =>
           k.serving[t] = m.serving[t] /\ (t \in k.dropped <=> t \in m.dropped)
  BY <1>1
<1>7. Kernel' = k
  BY DEF Kernel, NoEvent
<1> HIDE DEF k
<1>8. NoFailure(k)
  BY <1>6 DEF Sound, NoFailure
<1>9. Sound(k)
  BY <1>5, <1>6, <1>8, HistorySound
<1>10. QED BY <1>1, <1>2, <1>7, <1>9

\* A step keeps the invariant.
LEMMA NextIInv ==
  ASSUME IInv, [Next]_vars
  PROVE  IInv'
<1>1. CASE Next
  <2>1. PICK m : Handled(m)
    BY <1>1, NextHandled DEF IInv
  <2>2. QED BY <2>1, BecomesSound DEF Handled, IInv
<1>2. CASE UNCHANGED vars
  <2>1. Kernel' = Kernel /\ event' = event
    BY <1>2 DEF vars, Kernel, NoEvent
  <2>2. QED BY <2>1 DEF IInv
<1>3. QED BY <1>1, <1>2

\* The state is sound at all times: books, thread states and shares agree.
LEMMA AlwaysSound == Spec => []IInv
<1>1. Init => IInv
  BY InitSound DEF IInv
<1>2. IInv /\ [Next]_vars => IInv'
  BY NextIInv
<1>3. QED BY <1>1, <1>2, PTL DEF Spec

\* Every variable holds a value of its C++ type: callers, callees and queues refer to threads.
THEOREM TypeCorrect == Spec => []TypeOK
<1>1. IInv => TypeOK
  BY DEF IInv, Sound, KernelState, Kernel, TypeOK
<1>2. QED BY <1>1, AlwaysSound, PTL

\* No assertion of the kernel fails (Cpu_scheduler::ready and unready, _deactivate_own_share,
\* the state assertions of Thread), whatever chain of helpers a call, reply, cancellation, stop,
\* pause or deletion meets, before one of the four cases that the kernel does not test for.
THEOREM KernelNeverPanics == Spec => []NoPanic
<1>1. IInv => NoPanic
  BY DEF IInv, Sound, NoFailure, Kernel, NoPanic
<1>2. QED BY <1>1, AlwaysSound, PTL

\* Ipc_node: the outbuf of a caller and the inbuf and request queue of its callee agree, also
\* after the cases that the kernel does not test for, but for a request that the callee gave up.
THEOREM BooksAgree == Spec => []RequestsAnnounced
<1>1. IInv => RequestsAnnounced
  <2> DEFINE k == Kernel
  <2>1. SUFFICES ASSUME IInv, NEW t \in Thread
                 PROVE  /\ Pending(k, t) /\ t \notin dropped =>
                             LET d == th[t].callee
                             IN  /\ d # None /\ th[d].state # "ABSENT"
                                 /\ th[d].caller = t <=> t \notin Elems(th[d].queue)
                        /\ Distinct(th[t].queue)
                        /\ \A c \in Elems(th[t].queue) \cup ({th[t].caller} \ {None}) :
                             Pending(k, c) /\ th[c].callee = t /\ c \notin dropped
    BY DEF RequestsAnnounced
  <2>2. k.th = th /\ k.dropped = dropped
    BY DEF Kernel
  <2>3. k \in KernelState /\ BooksOK(k)
    BY <2>1 DEF IInv, Sound
  <2> HIDE DEF k
  <2>4. None \notin Thread
    BY ThreadAssumption
  <2>5. ASSUME Pending(k, t), t \notin dropped, NEW d, d = th[t].callee
        PROVE  /\ d # None /\ th[d].state # "ABSENT"
               /\ th[d].caller = t <=> t \notin Elems(th[d].queue)
    <3>1. d \in Thread /\ d # None /\ k.th[d].state # "ABSENT"
      BY <2>2, <2>3, <2>5, BooksTypes DEF BooksOK, OutbufOK, Pending
    <3>2. Has(k, d, t) /\ InbufOK(k, d)
      BY <2>2, <2>3, <2>5, <3>1 DEF BooksOK, Announced, WaitsOn, Pending
    <3>3. k.th[d].caller = t <=> t \notin Elems(k.th[d].queue)
      BY <2>4, <3>2 DEF Has, InbufOK
    <3>4. QED BY <2>2, <3>1, <3>3
  <2>6. Distinct(th[t].queue)
    BY <2>2, <2>3 DEF BooksOK, InbufOK
  <2>7. ASSUME NEW c \in Elems(th[t].queue) \cup ({th[t].caller} \ {None})
        PROVE  Pending(k, c) /\ th[c].callee = t /\ c \notin dropped
    <3>1. c \in Thread /\ Has(k, t, c)
      BY <2>2, <2>3, BooksTypes DEF Has
    <3>2. WaitsOn(k, c, t)
      BY <2>3, <3>1 DEF BooksOK, Announced
    <3>3. QED BY <2>2, <3>2 DEF WaitsOn, Pending
  <2>8. QED BY <2>5, <2>6, <2>7
<1>2. QED BY <1>1, AlwaysSound, PTL

\* Only a thread in AWAITS_IPC has a pending IPC operation: no IPC call of a thread that runs is
\* dropped for a bad state of its Ipc_node.
THEOREM StatesAgree == Spec => []IpcStateMatches
<1>1. IInv => IpcStateMatches
  BY DEF IInv, Sound, StateOK, StateFits, Kernel, IpcStateMatches
<1>2. QED BY <1>1, AlwaysSound, PTL

\* Cpu_job, helping_sink: a share is in the scheduler if and only if the thread at the end of its
\* chain of helpers can run, whatever the length of the chain.
THEOREM SharesAgree == Spec => []SharesFollowSink
<1>1. IInv => SharesFollowSink
  <2>1. SUFFICES ASSUME IInv, ~misused, NEW t \in Thread
                 PROVE  th[t].share <=> /\ th[t].state # "ABSENT"
                                        /\ \E s \in HelpingSink(Kernel, t) : Runnable(s)
    BY DEF SharesFollowSink
  <2> DEFINE k == Kernel
  <2>2. k.th = th /\ \A s : Runnable(s) <=> k.th[s].state = "ACTIVE" /\ ~k.th[s].paused
    BY DEF Kernel, Runnable
  <2>3. Sound(k) /\ ~k.misused
    BY <2>1 DEF IInv, Kernel
  <2> HIDE DEF k
  <2>4. /\ HelpingSink(k, t) # {}
        /\ \A s \in HelpingSink(k, t) :
              /\ s \in Thread /\ ~HelpsOutbufDst(k, s)
              /\ k.th[s].share <=> k.th[t].share
              /\ k.th[s].share <=> k.th[s].state = "ACTIVE" /\ ~k.th[s].paused
    BY <2>3, SinkShares
  <2>5. k.th[t].share => k.th[t].state # "ABSENT"
    <3>1. StateOK(k, t) /\ ShareFits(k, t)
      BY <2>3 DEF Sound, ShareOK
    <3>2. QED BY <3>1 DEF StateOK, ShareFits, HelpsOutbufDst
  <2>6. k.th[t].share <=> k.th[t].state # "ABSENT" /\ \E s \in HelpingSink(k, t) : Runnable(s)
    BY <2>2, <2>4, <2>5
  <2>7. QED BY <2>2, <2>6 DEF k
<1>2. QED BY <1>1, AlwaysSound, PTL

\* Ipc_node::send_reply: a reply is taken for the request it answers, never for one that the
\* thread cancelled before or that the callee gave up.
THEOREM RepliesMatch == Spec => ReplyAnswersRequest
<1>1. IInv /\ [Next]_vars =>
        [\A t \in Thread : event' = <<"reply", t>> => serving[t] = th[t].callee]_vars
  <2>1. SUFFICES ASSUME IInv, Next, NEW t \in Thread, event' = <<"reply", t>>
                 PROVE  serving[t] = th[t].callee
    OBVIOUS
  <2>2. PICK m : Handled(m)
    BY <2>1, NextHandled DEF IInv
  <2>3. QED BY <2>1, <2>2 DEF Handled, Becomes
<1>2. QED BY <1>1, AlwaysSound, PTL DEF Spec, ReplyAnswersRequest

===========================================================================
