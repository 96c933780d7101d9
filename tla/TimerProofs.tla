---------------------------- MODULE TimerProofs ----------------------------
(***************************************************************************)
(* Proofs about Kernel::Timer, for any set of timeouts and any width of    *)
(* the time: the lists stay sorted and filed by period, ages are right,    *)
(* and the timer implements AbstractTimer, whose time never wraps.         *)
(***************************************************************************)
EXTENDS Timer, KernelListProofs, WellFoundedInduction

---------------------------------------------------------------------------
(***************************************************************************)
(* Sorted lists                                                            *)
(***************************************************************************)

\* Every nonempty set of numbers has a least element.
LEMMA LeastNumber ==
  ASSUME NEW T \in SUBSET Nat, T # {}
  PROVE  \E n \in T : \A m \in T : n <= m
<1> DEFINE R == OpToRel(<, Nat)
<1>1. IsWellFoundedOn(R, Nat)
  BY NatLessThanWellFounded, Zenon
<1>2. \A m, n \in Nat : <<m, n>> \in R <=> m < n
  BY DEF OpToRel
<1> HIDE DEF R
<1>3. PICK n \in T : \A m \in T : ~(<<m, n>> \in R)
  BY <1>1, WFMin
<1>4. \A m \in T : ~(m < n)
  BY <1>2, <1>3
<1>5. QED BY <1>4

\* A list whose items have ascending end times
Sorted(l, f) == \A i, j \in 1 .. Len(l) : i < j => f[l[i]] <= f[l[j]]

\* The timeout that is before another one after an unlink was so before it.
LEMMA RemoveSorted ==
  ASSUME NEW S, NEW l \in Seq(S), NEW f \in [S -> Int], NEW x, Sorted(l, f)
  PROVE  Sorted(Remove(l, x), f)
<1>1. CASE x \notin Elems(l)
  BY <1>1 DEF Remove
<1>2. CASE x \in Elems(l)
  <2> DEFINE k == IndexOf(l, x)
             m == Remove(l, x)
  <2>1. k \in 1 .. Len(l)
    BY <1>2 DEF Elems, IndexOf
  <2>2. Len(l) \in Nat /\ Len(l) - 1 \in Nat
    BY <2>1
  <2>3. m = [ i \in 1 .. Len(l) - 1 |-> IF i < k THEN l[i] ELSE l[i + 1] ]
    BY <1>2 DEF Remove
  <2> HIDE DEF k, m
  <2>4. Len(m) = Len(l) - 1
    <3>1. \A i \in 1 .. Len(l) - 1 : (IF i < k THEN l[i] ELSE l[i + 1]) \in S
      BY <2>1, <2>2
    <3>2. m \in [1 .. Len(l) - 1 -> S]
      BY <2>3, <3>1
    <3>3. QED BY <2>2, <3>2, IsASeq
  <2>5. SUFFICES ASSUME NEW i \in 1 .. Len(m), NEW j \in 1 .. Len(m), i < j
                 PROVE  f[m[i]] <= f[m[j]]
    BY DEF Sorted, m
  <2>6. \E a, b \in 1 .. Len(l) : a < b /\ m[i] = l[a] /\ m[j] = l[b]
    <3> DEFINE a == IF i < k THEN i ELSE i + 1
               b == IF j < k THEN j ELSE j + 1
    <3>1. i \in 1 .. Len(l) - 1 /\ j \in 1 .. Len(l) - 1
      BY <2>2, <2>4
    <3>2. m[i] = l[a] /\ m[j] = l[b]
      BY <2>3, <3>1
    <3>3. a \in 1 .. Len(l) /\ b \in 1 .. Len(l) /\ a < b
      BY <2>1, <2>2, <2>5, <3>1
    <3>4. QED BY <3>2, <3>3
  <2>7. QED BY <2>6 DEF Sorted
<1>3. QED BY <1>1, <1>2

\* Timer::set_timeout finds a position in every list.
LEMMA PositionProps ==
  ASSUME NEW l \in Seq(Timeout), end \in [Timeout -> Int], NEW e \in Int
  PROVE  /\ Position(l, e) \in 1 .. Len(l) + 1
         /\ \A j \in 1 .. Position(l, e) - 1 : end[l[j]] < e
         /\ Position(l, e) <= Len(l) => end[l[Position(l, e)]] >= e
<1> DEFINE T == { i \in 1 .. Len(l) + 1 : i <= Len(l) => end[l[i]] >= e }
<1>1. Len(l) \in Nat /\ \A i \in 1 .. Len(l) : l[i] \in Timeout
  OBVIOUS
<1>2. Len(l) + 1 \in T /\ T \in SUBSET Nat
  BY <1>1
<1>3. PICK n \in T : \A m \in T : n <= m
  BY <1>2, LeastNumber
<1>4. \A j \in 1 .. n - 1 : end[l[j]] < e
  <2>1. SUFFICES ASSUME NEW j \in 1 .. n - 1 PROVE end[l[j]] < e
    OBVIOUS
  <2>2. j \notin T /\ j \in 1 .. Len(l)
    BY <1>1, <1>3
  <2>3. end[l[j]] \in Int
    BY <1>1, <2>2
  <2>4. QED BY <1>1, <2>2, <2>3
<1>5. \E i \in 1 .. Len(l) + 1 : /\ \A j \in 1 .. i - 1 : end[l[j]] < e
                                 /\ i <= Len(l) => end[l[i]] >= e
  BY <1>3, <1>4
<1>6. QED BY <1>5 DEF Position

\* Inserting at a position moves what is behind it.
Item(l, i, x, j) == IF j < i THEN l[j] ELSE IF j = i THEN x ELSE l[j - 1]

\* It does so, and nothing else.
LEMMA InsertAtItems ==
  ASSUME NEW S, NEW l \in Seq(S), NEW i \in 1 .. Len(l) + 1, NEW x \in S
  PROVE  /\ InsertAt(l, i, x) \in Seq(S)
         /\ Len(InsertAt(l, i, x)) = Len(l) + 1
         /\ \A j \in 1 .. Len(l) + 1 : InsertAt(l, i, x)[j] = Item(l, i, x, j)
<1> DEFINE a == SubSeq(l, 1, i - 1)
           b == SubSeq(l, i, Len(l))
           c == a \o <<x>>
           m == c \o b
<1>1. Len(l) \in Nat /\ i \in Nat /\ i >= 1 /\ i <= Len(l) + 1
  OBVIOUS
<1>2. a \in Seq(S) /\ Len(a) = i - 1 /\ \A j \in 1 .. i - 1 : a[j] = l[j]
  BY <1>1, SubSeqProperties
<1>3. b \in Seq(S) /\ Len(b) = Len(l) + 1 - i /\ \A j \in 1 .. Len(l) + 1 - i : b[j] = l[i + j - 1]
  BY <1>1, SubSeqProperties
<1> HIDE DEF a, b
<1>4. c \in Seq(S) /\ Len(c) = i /\ (\A j \in 1 .. i - 1 : c[j] = l[j]) /\ c[i] = x
  BY <1>1, <1>2
<1> HIDE DEF c
<1>5. m \in Seq(S) /\ Len(m) = Len(l) + 1
  BY <1>1, <1>3, <1>4
<1>6. \A j \in 1 .. Len(l) + 1 : m[j] = IF j <= i THEN c[j] ELSE b[j - i]
  BY <1>1, <1>3, <1>4
<1> HIDE DEF m
<1>7. \A j \in 1 .. Len(l) + 1 : m[j] = IF j < i THEN l[j] ELSE IF j = i THEN x ELSE l[j - 1]
  <2>1. SUFFICES ASSUME NEW j \in 1 .. Len(l) + 1
                 PROVE  m[j] = IF j < i THEN l[j] ELSE IF j = i THEN x ELSE l[j - 1]
    OBVIOUS
  <2>2. CASE j <= i
    BY <1>1, <1>4, <1>6, <2>2
  <2>3. CASE j > i
    <3>1. j - i \in 1 .. Len(l) + 1 - i /\ i + (j - i) - 1 = j - 1
      BY <1>1, <2>3
    <3>2. QED BY <1>1, <1>3, <1>6, <2>3, <3>1
  <2>4. QED BY <1>1, <2>2, <2>3
<1>8. m = InsertAt(l, i, x)
  BY DEF InsertAt, m, c, a, b
<1>9. QED BY <1>5, <1>7, <1>8 DEF Item

\* What is listed after that
LEMMA InsertAtProps ==
  ASSUME NEW S, NEW l \in Seq(S), NEW i \in 1 .. Len(l) + 1, NEW x \in S
  PROVE  /\ InsertAt(l, i, x) \in Seq(S)
         /\ Elems(InsertAt(l, i, x)) = Elems(l) \cup {x}
         /\ Distinct(l) /\ x \notin Elems(l) => Distinct(InsertAt(l, i, x))
<1> DEFINE m == InsertAt(l, i, x)
<1>1. Len(l) \in Nat /\ i \in Nat /\ i >= 1 /\ i <= Len(l) + 1
  OBVIOUS
<1>2. m \in Seq(S) /\ Len(m) = Len(l) + 1 /\ \A j \in 1 .. Len(l) + 1 : m[j] = Item(l, i, x, j)
  BY InsertAtItems
<1> HIDE DEF m
<1>3. \A j \in 1 .. Len(l) + 1 : m[j] = IF j < i THEN l[j] ELSE IF j = i THEN x ELSE l[j - 1]
  BY <1>2 DEF Item
<1>4. Elems(m) = Elems(l) \cup {x}
  <2>1. ASSUME NEW y \in Elems(m) PROVE y \in Elems(l) \cup {x}
    <3>1. PICK j \in 1 .. Len(l) + 1 : y = m[j]
      BY <1>2, <2>1 DEF Elems
    <3>2. QED BY <1>1, <1>3, <3>1 DEF Elems
  <2>2. ASSUME NEW y \in Elems(l) PROVE y \in Elems(m)
    <3>1. PICK j \in 1 .. Len(l) : y = l[j]
      BY <2>2 DEF Elems
    <3>2. CASE j < i
      <4>1. j \in 1 .. Len(l) + 1 /\ y = m[j]
        BY <1>1, <1>3, <3>1, <3>2
      <4>2. QED BY <1>2, <4>1 DEF Elems
    <3>3. CASE j >= i
      <4>1. j + 1 \in 1 .. Len(l) + 1 /\ y = m[j + 1]
        BY <1>1, <1>3, <3>1, <3>3
      <4>2. QED BY <1>2, <4>1 DEF Elems
    <3>4. QED BY <1>1, <3>2, <3>3
  <2>3. x \in Elems(m)
    <3>1. i \in 1 .. Len(l) + 1 /\ x = m[i]
      BY <1>1, <1>3
    <3>2. QED BY <1>2, <3>1 DEF Elems
  <2>4. QED BY <2>1, <2>2, <2>3
<1>5. ASSUME Distinct(l), x \notin Elems(l) PROVE Distinct(m)
  <2>1. SUFFICES ASSUME NEW j \in 1 .. Len(l) + 1, NEW k \in 1 .. Len(l) + 1, m[j] = m[k]
                 PROVE  j = k
    BY <1>2 DEF Distinct
  <2>2. \A n \in 1 .. Len(l) : l[n] # x
    BY <1>5 DEF Elems
  <2>3. \A n, o \in 1 .. Len(l) : l[n] = l[o] => n = o
    BY <1>5 DEF Distinct
  <2>4. QED BY <1>1, <1>3, <2>1, <2>2, <2>3
<1>6. QED BY <1>2, <1>4, <1>5 DEF m

\* set_timeout keeps a list sorted.
LEMMA InsertSorted ==
  ASSUME end \in [Timeout -> Int], NEW l \in Seq(Timeout), Sorted(l, end),
         NEW x \in Timeout, NEW e \in Int, x \notin Elems(l)
  PROVE  Sorted(InsertAt(l, Position(l, e), x), [end EXCEPT ![x] = e])
<1> DEFINE i == Position(l, e)
           m == InsertAt(l, i, x)
           f == [end EXCEPT ![x] = e]
<1>1. /\ i \in 1 .. Len(l) + 1 /\ \A j \in 1 .. i - 1 : end[l[j]] < e
      /\ i <= Len(l) => end[l[i]] >= e
  BY PositionProps
<1> HIDE DEF i
<1>2. /\ Len(m) = Len(l) + 1
      /\ \A j \in 1 .. Len(l) + 1 :
           m[j] = IF j < i THEN l[j] ELSE IF j = i THEN x ELSE l[j - 1]
  <2>1. i \in 1 .. Len(l) + 1
    BY <1>1
  <2>2. Len(m) = Len(l) + 1 /\ \A j \in 1 .. Len(l) + 1 : m[j] = Item(l, i, x, j)
    BY <2>1, InsertAtItems
  <2> HIDE DEF m
  <2>3. QED BY <2>2 DEF Item
<1>3. /\ Len(l) \in Nat /\ f[x] = e
      /\ \A j \in 1 .. Len(l) : l[j] \in Timeout /\ end[l[j]] \in Int /\ f[l[j]] = end[l[j]]
  BY DEF Elems
<1> HIDE DEF m, f
<1>4. \A j \in 1 .. Len(l) : j >= i => end[l[j]] >= e
  BY <1>1, <1>3 DEF Sorted
<1>5. SUFFICES ASSUME NEW j \in 1 .. Len(l) + 1, NEW k \in 1 .. Len(l) + 1, j < k
               PROVE  f[m[j]] <= f[m[k]]
  BY <1>2 DEF Sorted, m, f, i
<1>6. CASE k < i
  <2>1. j \in 1 .. Len(l) /\ k \in 1 .. Len(l) /\ m[j] = l[j] /\ m[k] = l[k]
    BY <1>1, <1>2, <1>3, <1>5, <1>6
  <2>2. QED BY <1>3, <1>5, <2>1 DEF Sorted
<1>7. CASE k = i
  <2>1. j \in 1 .. Len(l) /\ m[j] = l[j] /\ m[k] = x /\ end[l[j]] < e
    BY <1>1, <1>2, <1>3, <1>5, <1>7
  <2>2. QED BY <1>3, <2>1
<1>8. CASE k > i
  <2>1. k - 1 \in 1 .. Len(l) /\ k - 1 >= i /\ m[k] = l[k - 1]
    BY <1>1, <1>2, <1>3, <1>5, <1>8
  <2>2. CASE j < i
    <3>1. j \in 1 .. Len(l) /\ j < k - 1 /\ m[j] = l[j]
      BY <1>1, <1>2, <1>3, <1>8, <2>2
    <3>2. QED BY <1>3, <2>1, <3>1 DEF Sorted
  <2>3. CASE j = i
    <3>1. m[j] = x
      BY <1>1, <1>2, <2>3
    <3>2. f[m[k]] = end[l[k - 1]] /\ end[l[k - 1]] >= e
      BY <1>3, <1>4, <2>1
    <3>3. QED BY <1>3, <3>1, <3>2
  <2>4. CASE j > i
    <3>1. j - 1 \in 1 .. Len(l) /\ j - 1 < k - 1 /\ m[j] = l[j - 1]
      BY <1>1, <1>2, <1>3, <1>5, <2>4
    <3>2. QED BY <1>3, <2>1, <3>1 DEF Sorted
  <2>5. QED BY <1>1, <2>2, <2>3, <2>4
<1>9. QED BY <1>1, <1>6, <1>7, <1>8

\* What is left when the first timeouts have fired is sorted.
LEMMA DropSorted ==
  ASSUME NEW S, NEW l \in Seq(S), NEW f \in [S -> Int], NEW n \in 0 .. Len(l), Sorted(l, f)
  PROVE  Sorted(Drop(l, n), f)
<1> DEFINE m == Drop(l, n)
<1>1. Len(l) \in Nat /\ n \in Nat /\ n <= Len(l)
  OBVIOUS
<1>2. Len(m) = Len(l) - n /\ \A i \in 1 .. Len(l) - n : m[i] = l[i + n]
  <2>1. /\ Len(m) = Len(l) - n /\ \A i \in 1 .. Len(l) - n : m[i] = l[(n + 1) + i - 1]
    BY <1>1, SubSeqProperties DEF Drop
  <2>2. QED BY <1>1, <2>1
<1> HIDE DEF m
<1>3. \A i, j \in 1 .. Len(l) - n : i < j =>
        /\ i + n \in 1 .. Len(l) /\ j + n \in 1 .. Len(l) /\ i + n < j + n
  BY <1>1
<1>4. Sorted(m, f)
  <2>1. SUFFICES ASSUME NEW i \in 1 .. Len(l) - n, NEW j \in 1 .. Len(l) - n, i < j
                 PROVE  f[m[i]] <= f[m[j]]
    BY <1>2 DEF Sorted
  <2>2. m[i] = l[i + n] /\ m[j] = l[j + n]
    BY <1>2
  <2>3. QED BY <1>3, <2>1, <2>2 DEF Sorted
<1>5. QED BY <1>4 DEF m

---------------------------------------------------------------------------
(***************************************************************************)
(* The inductive invariant                                                 *)
(***************************************************************************)

\* Lists ls hold the timeouts L, each in the list of its period, in the order
\* of end times f.
ListsOK(ls, L, ep, f) ==
  \A p \in Period :
    /\ Distinct(ls[p])
    /\ Elems(ls[p]) = { t \in L : ep[t] = p }
    /\ Sorted(ls[p], f)

\* A timeout was installed in the past, at a time that reads as its start time.
InstalledOK ==
  \A t \in Timeout : /\ installed[t] <= Now
                     /\ \E e \in 0 .. epoch : installed[t] = e * Wrap + start[t]

\* A listed timeout of the next period ends before a full wrap has passed.
EndsSoon == \A t \in listed : end_period[t] # time_period => end[t] < time

\* Outside the kernel, the time is the time at which the timer was armed.
ArmedNow == ~pass => armed = Now

TimerInv ==
  /\ TypeOK
  /\ ListsSorted
  /\ InstalledOK
  /\ EndsSoon
  /\ ArmedNow

\* ListsSorted in the form that the lemmas about the lists use
LEMMA ListsSortedOK == ListsSorted <=> ListsOK(list, listed, end_period, end)
  BY DEF ListsSorted, ListsOK, Sorted

\* The length of a number of periods of Timer::_time
LEMMA EpochTimes ==
  ASSUME NEW e \in Nat
  PROVE  e * Wrap \in Nat /\ (e + 1) * Wrap = e * Wrap + Wrap
<1>1. Wrap \in Nat \ {0}
  BY TimerAssumption
<1>2. QED BY <1>1

\* Sums and differences of wrapped times wrap once at most.
LEMMA Residue ==
  ASSUME NEW W \in Nat \ {0}, NEW a \in Int
  PROVE  /\ 0 <= a /\ a < W => a % W = a
         /\ W <= a /\ a < 2 * W => a % W = a - W
         /\ -W <= a /\ a < 0 => a % W = a + W
<1>1. ASSUME 0 <= a, a < W PROVE a % W = a
  BY <1>1
<1>2. ASSUME W <= a, a < 2 * W PROVE a % W = a - W
  BY <1>2
<1>3. ASSUME -W <= a, a < 0 PROVE a % W = a + W
  BY <1>3
<1>4. QED BY <1>1, <1>2, <1>3

\* Adding a duration to the wrapped time
LEMMA EndTime ==
  ASSUME time \in 0 .. Wrap - 1, NEW d \in 0 .. Wrap - 1
  PROVE  /\ (time + d) % Wrap \in 0 .. Wrap - 1
         /\ TimeOverflow(d) => (time + d) % Wrap = time + d - Wrap
         /\ ~TimeOverflow(d) => (time + d) % Wrap = time + d
<1>1. Wrap \in Nat \ {0}
  BY TimerAssumption
<1>2. PICK a \in Int : a = time + d
  BY <1>1
<1>3. CASE TimeOverflow(d)
  <2>1. a >= Wrap /\ a < 2 * Wrap
    BY <1>1, <1>2, <1>3 DEF TimeOverflow
  <2>2. a % Wrap = a - Wrap
    BY <1>1, <2>1, Residue
  <2>3. QED BY <1>1, <1>2, <1>3, <2>1, <2>2
<1>4. CASE ~TimeOverflow(d)
  <2>1. a >= 0 /\ a < Wrap
    BY <1>1, <1>2, <1>4 DEF TimeOverflow
  <2>2. a % Wrap = a
    BY <1>1, <2>1, Residue
  <2>3. QED BY <1>1, <1>2, <1>4, <2>1, <2>2
<1>5. QED BY <1>3, <1>4

\* What Timer::set_timeout does to the lists
LEMMA SetTimeoutLists ==
  ASSUME TypeOK, NEW ls \in [Period -> Seq(Timeout)], NEW L \in SUBSET Timeout,
         ListsOK(ls, L, end_period, end),
         NEW t \in Timeout, NEW d \in 0 .. Wrap - 1, SetTimeout(ls, L, t, d)
  PROVE  /\ list' \in [Period -> Seq(Timeout)]
         /\ ListsOK(list', listed', end_period', end')
<1> DEFINE e == (time + d) % Wrap
           p == IF TimeOverflow(d) THEN Other(time_period) ELSE time_period
           r == IF t \in L THEN [ls EXCEPT ![end_period[t]] = Remove(@, t)] ELSE ls
           m == InsertAt(r[p], Position(r[p], e), t)
<1>1. /\ time \in 0 .. Wrap - 1 /\ time_period \in Period /\ end \in [Timeout -> 0 .. Wrap - 1]
      /\ end \in [Timeout -> Int] /\ end_period \in [Timeout -> Period]
  BY DEF TypeOK
<1>2. /\ listed' = L \cup {t} /\ end' = [end EXCEPT ![t] = e]
      /\ end_period' = [end_period EXCEPT ![t] = p]
      /\ list' = [r EXCEPT ![p] = m]
  BY DEF SetTimeout
<1>3. e \in Int /\ p \in Period
  BY <1>1, EndTime DEF Period, Other
<1>4. /\ r \in [Period -> Seq(Timeout)]
      /\ \A q \in Period : /\ Distinct(r[q]) /\ Sorted(r[q], end)
                           /\ Elems(r[q]) = { u \in L \ {t} : end_period[u] = q }
  <2>1. CASE t \notin L
    BY <2>1 DEF ListsOK
  <2>2. CASE t \in L
    <3> DEFINE q == end_period[t]
               l == Remove(ls[q], t)
    <3>1. q \in Period /\ ls[q] \in Seq(Timeout) /\ Distinct(ls[q]) /\ Sorted(ls[q], end)
      BY <1>1 DEF ListsOK
    <3>2. l \in Seq(Timeout) /\ Distinct(l) /\ Elems(l) = Elems(ls[q]) \ {t}
      BY <3>1, RemoveProps
    <3>3. Sorted(l, end)
      BY <1>1, <3>1, RemoveSorted
    <3>4. r = [ls EXCEPT ![q] = l]
      BY <2>2
    <3> HIDE DEF q, l, r
    <3>5. r \in [Period -> Seq(Timeout)] /\ r[q] = l /\ \A x \in Period \ {q} : r[x] = ls[x]
      BY <3>1, <3>2, <3>4
    <3>6. ASSUME NEW x \in Period
          PROVE  /\ Distinct(r[x]) /\ Sorted(r[x], end)
                 /\ Elems(r[x]) = { u \in L \ {t} : end_period[u] = x }
      <4>1. CASE x = q
        BY <3>2, <3>3, <3>5, <4>1 DEF ListsOK
      <4>2. CASE x # q
        <5>1. r[x] = ls[x] /\ end_period[t] # x
          BY <3>5, <4>2 DEF q
        <5>2. QED BY <5>1 DEF ListsOK
      <4>3. QED BY <4>1, <4>2
    <3>7. QED BY <3>5, <3>6
  <2>3. QED BY <2>1, <2>2
<1> HIDE DEF e, p, r
<1>5. r[p] \in Seq(Timeout) /\ Distinct(r[p]) /\ Sorted(r[p], end) /\ t \notin Elems(r[p])
  BY <1>3, <1>4
<1>6. Position(r[p], e) \in 1 .. Len(r[p]) + 1
  BY <1>1, <1>3, <1>5, PositionProps
<1>7. m \in Seq(Timeout) /\ Distinct(m) /\ Elems(m) = Elems(r[p]) \cup {t}
  BY <1>5, <1>6, InsertAtProps
<1>8. Sorted(m, end')
  BY <1>1, <1>2, <1>3, <1>5, InsertSorted
<1> HIDE DEF m
<1>9. list' \in [Period -> Seq(Timeout)] /\ list'[p] = m /\ \A x \in Period \ {p} : list'[x] = r[x]
  BY <1>2, <1>3, <1>4, <1>7
<1>10. end_period'[t] = p /\ \A u \in Timeout \ {t} : end_period'[u] = end_period[u] /\ end'[u] = end[u]
  BY <1>1, <1>2
<1>11. ASSUME NEW x \in Period
       PROVE  /\ Distinct(list'[x])
              /\ Elems(list'[x]) = { u \in listed' : end_period'[u] = x }
              /\ Sorted(list'[x], end')
  <2>1. CASE x = p
    <3>1. Elems(list'[x]) = { u \in L \ {t} : end_period[u] = x } \cup {t}
      BY <1>3, <1>4, <1>7, <1>9, <2>1
    <3>2. { u \in listed' : end_period'[u] = x } = { u \in L \ {t} : end_period[u] = x } \cup {t}
      BY <1>2, <1>10, <2>1
    <3>3. QED BY <1>7, <1>8, <1>9, <2>1, <3>1, <3>2
  <2>2. CASE x # p
    <3>1. list'[x] = r[x] /\ r[x] \in Seq(Timeout)
      BY <1>4, <1>9, <2>2
    <3>2. Elems(r[x]) = { u \in L \ {t} : end_period[u] = x } /\ Distinct(r[x]) /\ Sorted(r[x], end)
      BY <1>4
    <3>3. { u \in listed' : end_period'[u] = x } = { u \in L \ {t} : end_period[u] = x }
      BY <1>2, <1>10, <2>2
    <3>4. \A i \in 1 .. Len(r[x]) : end'[r[x][i]] = end[r[x][i]]
      <4>1. \A i \in 1 .. Len(r[x]) : r[x][i] \in Elems(r[x])
        BY DEF Elems
      <4>2. QED BY <1>10, <3>2, <4>1
    <3>5. Sorted(r[x], end')
      BY <3>2, <3>4 DEF Sorted
    <3>6. QED BY <3>1, <3>2, <3>3, <3>5
  <2>3. QED BY <2>1, <2>2
<1>12. QED BY <1>9, <1>11 DEF ListsOK

\* The deadline that Timer::set_timeout stands for is the duration from now on.
LEMMA SetTimeoutDeadline ==
  ASSUME TypeOK, NEW ls, NEW L \in SUBSET Timeout, NEW t \in Timeout, NEW d \in 0 .. Wrap - 1,
         SetTimeout(ls, L, t, d), UNCHANGED <<time, time_period, epoch>>
  PROVE  /\ Now' = Now /\ Now \in Nat
         /\ Deadline(t)' = Now + d
         /\ \A u \in Timeout \ {t} : /\ Deadline(u)' = Deadline(u)
                                     /\ u \in listed' <=> u \in L
         /\ t \in listed'
         /\ end'[t] \in 0 .. Wrap - 1 /\ end_period'[t] \in Period
         /\ end_period'[t] # time_period => end'[t] < time
         /\ end_period'[t] = time_period => end'[t] = time + d
<1> DEFINE e == (time + d) % Wrap
           p == IF TimeOverflow(d) THEN Other(time_period) ELSE time_period
<1>1. /\ time \in 0 .. Wrap - 1 /\ time_period \in Period /\ end \in [Timeout -> 0 .. Wrap - 1]
      /\ end_period \in [Timeout -> Period] /\ epoch \in Nat
  BY TimerAssumption DEF TypeOK
<1>2. /\ listed' = L \cup {t} /\ end' = [end EXCEPT ![t] = e]
      /\ end_period' = [end_period EXCEPT ![t] = p]
  BY DEF SetTimeout
<1>3. Wrap \in Nat \ {0} /\ epoch * Wrap \in Nat /\ (epoch + 1) * Wrap = epoch * Wrap + Wrap
  BY <1>1, EpochTimes, TimerAssumption
<1>4. /\ e \in 0 .. Wrap - 1
      /\ TimeOverflow(d) => e = time + d - Wrap
      /\ ~TimeOverflow(d) => e = time + d
  BY <1>1, EndTime
<1> HIDE DEF e
<1>5. p \in Period /\ (TimeOverflow(d) <=> p # time_period)
  BY <1>1 DEF Period, Other
<1> HIDE DEF p
<1>6. /\ end'[t] = e /\ end_period'[t] = p
      /\ \A u \in Timeout \ {t} : end_period'[u] = end_period[u] /\ end'[u] = end[u]
  BY <1>1, <1>2
<1>7. \A u \in Timeout \ {t} : Deadline(u)' = Deadline(u) /\ (u \in listed' <=> u \in L)
  BY <1>2, <1>6 DEF Deadline
<1>8. Now' = Now /\ Now \in Nat
  BY <1>1, <1>3 DEF Now
<1>9. Deadline(t)' = Now + d
  <2>1. Deadline(t)' = (IF p = time_period THEN epoch * Wrap ELSE epoch * Wrap + Wrap) + e
    BY <1>3, <1>6 DEF Deadline
  <2>2. QED BY <1>1, <1>3, <1>4, <1>5, <2>1 DEF Now
<1>10. /\ p # time_period => e < time
       /\ p = time_period => e = time + d
  BY <1>1, <1>3, <1>4, <1>5
<1>11. QED BY <1>2, <1>4, <1>5, <1>6, <1>7, <1>8, <1>9, <1>10

---------------------------------------------------------------------------
(***************************************************************************)
(* Timer::update_time                                                      *)
(***************************************************************************)

\* The types that matter, with the facts on the length of a period
TimerFacts ==
  /\ time \in 0 .. Wrap - 1 /\ time_period \in Period /\ list \in [Period -> Seq(Timeout)]
  /\ end \in [Timeout -> 0 .. Wrap - 1] /\ start \in [Timeout -> 0 .. Wrap - 1]
  /\ end_period \in [Timeout -> Period] /\ listed \in SUBSET Timeout
  /\ epoch \in Nat /\ epoch \in 0 .. MaxEpoch /\ MaxEpoch \in Nat
  /\ installed \in [Timeout -> Nat] /\ armed \in Nat /\ last \in 0 .. Wrap - 1
  /\ Wrap \in Nat \ {0} /\ epoch * Wrap \in Nat /\ (epoch + 1) * Wrap = epoch * Wrap + Wrap
  /\ Now \in Nat /\ Now = epoch * Wrap + time

\* What the type invariant says of one period and of the current time
LEMMA TimerTypes == TypeOK => TimerFacts
<1>1. SUFFICES ASSUME TypeOK PROVE TimerFacts
  OBVIOUS
<1>2. epoch \in Nat /\ Wrap \in Nat \ {0} /\ MaxEpoch \in Nat
  BY <1>1, TimerAssumption DEF TypeOK
<1>3. epoch * Wrap \in Nat /\ (epoch + 1) * Wrap = epoch * Wrap + Wrap
  BY <1>2, EpochTimes
<1>4. Now \in Nat /\ Now = epoch * Wrap + time
  <2>1. time \in Nat
    BY <1>1, <1>2 DEF TypeOK
  <2>2. QED BY <1>3, <2>1 DEF Now
<1>5. QED BY <1>1, <1>2, <1>3, <1>4 DEF TypeOK, TimerFacts

\* The unwrapped deadline of a timeout, by the period in which it ends
LEMMA DeadlineType ==
  ASSUME TypeOK, NEW t \in Timeout
  PROVE  /\ Deadline(t) \in Nat
         /\ end_period[t] = time_period => Deadline(t) = epoch * Wrap + end[t]
         /\ end_period[t] # time_period => Deadline(t) = epoch * Wrap + Wrap + end[t]
<1>1. end[t] \in Nat /\ Wrap \in Nat /\ epoch * Wrap \in Nat
  BY TimerTypes DEF TimerFacts
<1>2. /\ end_period[t] = time_period => Deadline(t) = epoch * Wrap + end[t]
      /\ end_period[t] # time_period => Deadline(t) = epoch * Wrap + Wrap + end[t]
  BY TimerTypes DEF TimerFacts, Deadline
<1>3. epoch * Wrap + end[t] \in Nat /\ epoch * Wrap + Wrap + end[t] \in Nat
  BY <1>1
<1>4. QED BY <1>2, <1>3

\* The time since boot grows by what has passed, also over a wrap; timeouts that
\* are dropped are due, and the others keep their deadline.
LEMMA UpdateTimeProps ==
  ASSUME TimerInv, NEW d \in 1 .. Wrap - 1, UpdateTime(d)
  PROVE  /\ time' \in 0 .. Wrap - 1 /\ time_period' \in Period /\ epoch' \in 0 .. MaxEpoch
         /\ epoch' \in Nat /\ epoch <= epoch'
         /\ Now' = Now + d
         /\ TimeOverflow(d) => /\ time_period' = Other(time_period) /\ epoch' = epoch + 1
                               /\ listed' = { t \in listed : end_period[t] # time_period }
         /\ ~TimeOverflow(d) => /\ time_period' = time_period /\ epoch' = epoch
                                /\ listed' = listed /\ time < time'
         /\ \A t \in listed' : t \in listed /\ Deadline(t)' = Deadline(t)
         /\ \A t \in listed \ listed' : Deadline(t) <= Now'
<1>1. TimerFacts /\ TypeOK /\ ListsSorted
  BY TimerTypes DEF TimerInv
<1> USE DEF TimerFacts
<1>2. d \in 0 .. Wrap - 1
  BY <1>1
<1>3. end' = end /\ end_period' = end_period /\ time' = (time + d) % Wrap
  BY DEF UpdateTime
<1>4. CASE TimeOverflow(d)
  <2>1. /\ time_period' = Other(time_period) /\ epoch' = epoch + 1 /\ epoch < MaxEpoch
        /\ listed' = listed \ Elems(list[time_period])
    BY <1>4 DEF UpdateTime
  <2>2. Elems(list[time_period]) = { t \in listed : end_period[t] = time_period }
    BY <1>1 DEF ListsSorted
  <2>3. listed' = { t \in listed : end_period[t] # time_period }
    BY <2>1, <2>2
  <2>4. time' \in 0 .. Wrap - 1 /\ time' = time + d - Wrap
    BY <1>1, <1>2, <1>3, <1>4, EndTime
  <2>5. Now' = Now + d
    <3>1. Now' = (epoch + 1) * Wrap + time'
      BY <2>1 DEF Now
    <3>2. QED BY <1>1, <2>4, <3>1
  <2>6. time_period' \in Period /\ \A p \in Period : p # time_period => p = time_period'
    BY <1>1, <2>1 DEF Period, Other
  <2>7. ASSUME NEW t \in listed' PROVE t \in listed /\ Deadline(t)' = Deadline(t)
    <3>1. t \in listed /\ end_period[t] # time_period /\ end_period[t] \in Period
      BY <1>1, <2>3
    <3>2. end_period'[t] = time_period'
      BY <1>3, <2>6, <3>1
    <3>3. Deadline(t)' = (epoch + 1) * Wrap + end[t] /\ Deadline(t) = (epoch + 1) * Wrap + end[t]
      BY <1>3, <2>1, <3>1, <3>2 DEF Deadline
    <3>4. QED BY <3>1, <3>3
  <2>8. ASSUME NEW t \in listed \ listed' PROVE Deadline(t) <= Now'
    <3>1. end_period[t] = time_period /\ end[t] \in 0 .. Wrap - 1
      BY <1>1, <2>3
    <3>2. Deadline(t) = epoch * Wrap + end[t]
      BY <3>1 DEF Deadline
    <3>3. Now' = epoch * Wrap + Wrap + time'
      BY <1>1, <2>1 DEF Now
    <3>4. QED BY <1>1, <2>4, <3>1, <3>2, <3>3
  <2>9. epoch' \in 0 .. MaxEpoch /\ epoch' \in Nat /\ epoch <= epoch'
    BY <1>1, <2>1
  <2>10. QED BY <1>4, <2>1, <2>3, <2>4, <2>5, <2>6, <2>7, <2>8, <2>9
<1>5. CASE ~TimeOverflow(d)
  <2>1. time_period' = time_period /\ epoch' = epoch /\ listed' = listed
    BY <1>5 DEF UpdateTime
  <2>2. time' \in 0 .. Wrap - 1 /\ time' = time + d /\ time < time'
    <3>1. time' \in 0 .. Wrap - 1 /\ time' = time + d
      BY <1>1, <1>2, <1>3, <1>5, EndTime
    <3>2. QED BY <1>1, <3>1
  <2>3. Now' = Now + d
    BY <1>1, <2>1, <2>2 DEF Now
  <2>4. \A t \in listed' : t \in listed /\ Deadline(t)' = Deadline(t)
    BY <1>3, <2>1 DEF Deadline
  <2>5. QED BY <1>1, <1>5, <2>1, <2>2, <2>3, <2>4
<1>6. QED BY <1>4, <1>5

\* Timer::update_time preserves the invariant: on a wrap it empties the list of
\* the period that ends.
LEMMA UpdateTimeStep ==
  ASSUME TimerInv, NEW d \in 1 .. Wrap - 1, UpdateTime(d)
  PROVE  TimerInv'
<1>1. TimerFacts /\ TypeOK /\ ListsSorted /\ InstalledOK /\ EndsSoon
  BY TimerTypes DEF TimerInv
<1>2. /\ end' = end /\ end_period' = end_period /\ start' = start /\ installed' = installed
      /\ last' = last /\ armed' = armed /\ pass' = TRUE
      /\ TimeOverflow(d) => list' = [list EXCEPT ![time_period] = <<>>]
      /\ ~TimeOverflow(d) => list' = list
  BY DEF UpdateTime
<1>3. /\ time' \in 0 .. Wrap - 1 /\ time_period' \in Period /\ epoch' \in 0 .. MaxEpoch
      /\ epoch' \in Nat /\ epoch <= epoch'
      /\ Now' = Now + d
      /\ TimeOverflow(d) => /\ time_period' = Other(time_period) /\ epoch' = epoch + 1
                            /\ listed' = { t \in listed : end_period[t] # time_period }
      /\ ~TimeOverflow(d) => /\ time_period' = time_period /\ epoch' = epoch
                             /\ listed' = listed /\ time < time'
      /\ \A t \in listed' : t \in listed
  BY UpdateTimeProps
<1> USE DEF TimerFacts
<1>4. list' \in [Period -> Seq(Timeout)] /\ ListsSorted'
  <2>1. CASE ~TimeOverflow(d)
    <3>1. list' = list /\ listed' = listed
      BY <1>2, <1>3, <2>1
    <3>2. QED BY <1>1, <1>2, <3>1 DEF ListsSorted
  <2>2. CASE TimeOverflow(d)
    <3>1. list' = [list EXCEPT ![time_period] = <<>>]
      BY <1>2, <2>2
    <3>2. /\ list' \in [Period -> Seq(Timeout)] /\ list'[time_period] = <<>>
          /\ \A p \in Period \ {time_period} : list'[p] = list[p]
      BY <1>1, <3>1
    <3>3. ASSUME NEW p \in Period
          PROVE  /\ Distinct(list'[p])
                 /\ Elems(list'[p]) = { t \in listed' : end_period'[t] = p }
                 /\ Sorted(list'[p], end')
      <4>1. CASE p = time_period
        <5>1. Distinct(list'[p]) /\ Elems(list'[p]) = {}
          BY <3>2, <4>1, EmptyElems
        <5>2. { t \in listed' : end_period'[t] = p } = {}
          BY <1>2, <1>3, <2>2, <4>1
        <5>3. Sorted(list'[p], end')
          BY <3>2, <4>1 DEF Sorted
        <5>4. QED BY <5>1, <5>2, <5>3
      <4>2. CASE p # time_period
        <5>1. { t \in listed' : end_period'[t] = p } = { t \in listed : end_period[t] = p }
          BY <1>2, <1>3, <2>2, <4>2
        <5>2. Distinct(list[p]) /\ Elems(list[p]) = { t \in listed : end_period[t] = p } /\ Sorted(list[p], end)
          BY <1>1, ListsSortedOK DEF ListsOK
        <5>3. list'[p] = list[p] /\ end' = end
          BY <1>2, <3>2, <4>2
        <5>4. QED BY <5>1, <5>2, <5>3
      <4>3. QED BY <4>1, <4>2
    <3>4. ListsSorted'
      BY <3>3 DEF ListsSorted, Sorted
    <3>5. QED BY <3>2, <3>4
  <2>3. QED BY <2>1, <2>2
<1>5. TypeOK'
  BY <1>1, <1>2, <1>3, <1>4 DEF TypeOK
<1>6. InstalledOK'
  <2>1. SUFFICES ASSUME NEW t \in Timeout
                 PROVE  installed[t] <= Now' /\ \E e \in 0 .. epoch' : installed[t] = e * Wrap + start[t]
    BY <1>2 DEF InstalledOK
  <2>2. installed[t] <= Now /\ installed[t] \in Nat /\ Now \in Nat
    BY <1>1 DEF InstalledOK
  <2>3. PICK e \in 0 .. epoch : installed[t] = e * Wrap + start[t]
    BY <1>1 DEF InstalledOK
  <2>4. e \in 0 .. epoch'
    BY <1>1, <1>3
  <2>5. QED BY <1>1, <1>3, <2>2, <2>3, <2>4
<1>7. EndsSoon'
  <2>1. SUFFICES ASSUME NEW t \in listed', end_period[t] # time_period' PROVE end[t] < time'
    BY <1>2 DEF EndsSoon
  <2>2. CASE ~TimeOverflow(d)
    <3>1. end[t] < time /\ time < time' /\ end[t] \in Int /\ time \in Int /\ time' \in Int
      BY <1>1, <1>3, <2>1, <2>2 DEF EndsSoon
    <3>2. QED BY <3>1
  <2>3. CASE TimeOverflow(d)
    <3>1. end_period[t] # time_period /\ end_period[t] \in Period /\ time_period' = Other(time_period)
      BY <1>1, <1>3, <2>1, <2>3
    <3>2. QED BY <1>1, <2>1, <3>1 DEF Period, Other
  <2>4. QED BY <2>2, <2>3
<1>8. ArmedNow'
  BY <1>2 DEF ArmedNow
<1>9. QED BY <1>4, <1>5, <1>6, <1>7, <1>8 DEF TimerInv

\* The pass that update_time starts is a pass of the abstract timer.
LEMMA UpdateTimeElapses ==
  ASSUME TimerInv, NEW d \in 1 .. Wrap - 1, UpdateTime(d)
  PROVE  Abstract!Elapse
<1>1. TimerFacts /\ TypeOK /\ ArmedNow
  BY TimerTypes DEF TimerInv
<1> USE DEF TimerFacts
<1>2. ~pass /\ pass' /\ armed' = armed /\ last' = last /\ (d <= last \/ d = 1)
  BY <1>1 DEF UpdateTime
<1>3. /\ Now' = Now + d
      /\ \A t \in listed' : t \in listed /\ Deadline(t)' = Deadline(t)
      /\ \A t \in listed \ listed' : Deadline(t) <= Now'
  BY UpdateTimeProps
<1>4. Now' > Now /\ (Now' <= armed + last \/ Now' = Now + 1)
  BY <1>1, <1>2, <1>3 DEF ArmedNow
<1> DEFINE D(t) == IF t \in listed THEN Deadline(t) ELSE Never
<1>5. \A t \in listed : Deadline(t) \in Nat
  BY <1>1, DeadlineType
<1>6. \A t \in Timeout : \/ D(t)' = D(t)
                         \/ D(t) # Never /\ D(t) <= Now' /\ D(t)' = Never
  BY <1>3, <1>5, TimerAssumption
<1>7. QED BY <1>2, <1>4, <1>6 DEF Abstract!Elapse, Abstract!Due

---------------------------------------------------------------------------
(***************************************************************************)
(* Timer::set_timeout within a kernel pass                                 *)
(***************************************************************************)

\* Timer::set_timeout preserves the parts of the invariant about timeouts, on
\* whatever lists an unlink or a pass over expired timeouts has left.
LEMMA SetTimeoutInv ==
  ASSUME TimerInv, NEW ls \in [Period -> Seq(Timeout)], NEW L \in SUBSET listed,
         ListsOK(ls, L, end_period, end),
         NEW t \in Timeout, NEW d \in 0 .. Wrap - 1, SetTimeout(ls, L, t, d),
         UNCHANGED <<time, time_period, epoch>>
  PROVE  /\ list' \in [Period -> Seq(Timeout)] /\ start' \in [Timeout -> 0 .. Wrap - 1]
         /\ end' \in [Timeout -> 0 .. Wrap - 1] /\ end_period' \in [Timeout -> Period]
         /\ listed' \subseteq Timeout /\ installed' \in [Timeout -> Nat]
         /\ ListsSorted' /\ InstalledOK' /\ EndsSoon'
<1>1. TypeOK /\ TimerFacts /\ InstalledOK /\ EndsSoon
  BY TimerTypes DEF TimerInv
<1> USE DEF TimerFacts
<1>2. L \in SUBSET Timeout
  BY <1>1
<1>3. list' \in [Period -> Seq(Timeout)] /\ ListsOK(list', listed', end_period', end')
  BY <1>1, <1>2, SetTimeoutLists
<1>4. /\ Now' = Now /\ t \in listed'
      /\ \A u \in Timeout \ {t} : u \in listed' <=> u \in L
      /\ end'[t] \in 0 .. Wrap - 1 /\ end_period'[t] \in Period
      /\ end_period'[t] # time_period => end'[t] < time
  BY <1>1, <1>2, SetTimeoutDeadline
<1>5. /\ listed' = L \cup {t} /\ start' = [start EXCEPT ![t] = time]
      /\ installed' = [installed EXCEPT ![t] = Now]
      /\ \E e : end' = [end EXCEPT ![t] = e]
      /\ \E p : end_period' = [end_period EXCEPT ![t] = p]
  BY DEF SetTimeout
<1>6. /\ end' \in [Timeout -> 0 .. Wrap - 1] /\ end_period' \in [Timeout -> Period]
      /\ \A u \in Timeout \ {t} : end'[u] = end[u] /\ end_period'[u] = end_period[u]
  BY <1>1, <1>4, <1>5
<1>7. /\ start' \in [Timeout -> 0 .. Wrap - 1] /\ installed' \in [Timeout -> Nat]
      /\ listed' \subseteq Timeout
  BY <1>1, <1>2, <1>5
<1>8. ListsSorted'
  BY <1>3 DEF ListsOK, ListsSorted, Sorted
<1>9. InstalledOK'
  <2>1. SUFFICES ASSUME NEW u \in Timeout
                 PROVE  installed'[u] <= Now /\ \E e \in 0 .. epoch : installed'[u] = e * Wrap + start'[u]
    BY <1>4 DEF InstalledOK
  <2>2. CASE u = t
    <3>1. installed'[u] = Now /\ start'[u] = time
      BY <1>1, <1>5, <2>2
    <3>2. epoch \in 0 .. epoch /\ Now = epoch * Wrap + time /\ Now <= Now
      BY <1>1
    <3>3. QED BY <3>1, <3>2
  <2>3. CASE u # t
    <3>1. installed'[u] = installed[u] /\ start'[u] = start[u]
      BY <1>1, <1>5, <2>3
    <3>2. QED BY <1>1, <3>1 DEF InstalledOK
  <2>4. QED BY <2>2, <2>3
<1>10. EndsSoon'
  <2>1. SUFFICES ASSUME NEW u \in listed', end_period'[u] # time_period PROVE end'[u] < time
    BY DEF EndsSoon
  <2>2. CASE u = t
    BY <1>4, <2>1, <2>2
  <2>3. CASE u # t
    BY <1>1, <1>4, <1>6, <1>7, <2>1, <2>3 DEF EndsSoon
  <2>4. QED BY <2>2, <2>3
<1>11. QED BY <1>3, <1>6, <1>7, <1>8, <1>9, <1>10

\* Thread::_call_timeout preserves the invariant.
LEMMA CallTimeoutStep ==
  ASSUME TimerInv, NEW t \in Timeout, NEW d \in Duration, CallTimeout(t, d)
  PROVE  TimerInv'
<1>1. TypeOK /\ TimerFacts /\ ListsOK(list, listed, end_period, end) /\ ArmedNow
  BY TimerTypes, ListsSortedOK DEF TimerInv
<1>2. /\ SetTimeout(list, listed, t, d) /\ time' = time /\ time_period' = time_period
      /\ epoch' = epoch /\ last' = last /\ pass' = pass /\ armed' = armed
  BY DEF CallTimeout
<1>3. d \in 0 .. Wrap - 1 /\ list \in [Period -> Seq(Timeout)]
  BY <1>1, TimerAssumption DEF TimerFacts
<1>4. /\ list' \in [Period -> Seq(Timeout)] /\ start' \in [Timeout -> 0 .. Wrap - 1]
      /\ end' \in [Timeout -> 0 .. Wrap - 1] /\ end_period' \in [Timeout -> Period]
      /\ listed' \subseteq Timeout /\ installed' \in [Timeout -> Nat]
      /\ ListsSorted' /\ InstalledOK' /\ EndsSoon'
  BY <1>1, <1>2, <1>3, SetTimeoutInv
<1>5. TypeOK'
  BY <1>1, <1>2, <1>4 DEF TypeOK
<1>6. ArmedNow'
  BY <1>1, <1>2 DEF ArmedNow, Now
<1>7. QED BY <1>4, <1>5, <1>6 DEF TimerInv

\* Thread::_call_timeout installs the timeout with a deadline that is not past.
LEMMA CallTimeoutInstalls ==
  ASSUME TimerInv, NEW t \in Timeout, NEW d \in Duration, CallTimeout(t, d)
  PROVE  Abstract!Install(t)
<1>1. TypeOK /\ TimerFacts
  BY TimerTypes DEF TimerInv
<1>2. /\ SetTimeout(list, listed, t, d) /\ time' = time /\ time_period' = time_period
      /\ epoch' = epoch /\ last' = last /\ pass' = pass /\ armed' = armed /\ pass
  BY DEF CallTimeout
<1>3. d \in 0 .. Wrap - 1 /\ d \in Nat /\ listed \in SUBSET Timeout
  BY <1>1, TimerAssumption DEF TimerFacts
<1>4. /\ Now' = Now /\ Now \in Nat /\ Deadline(t)' = Now + d /\ t \in listed'
      /\ \A u \in Timeout \ {t} : Deadline(u)' = Deadline(u) /\ (u \in listed' <=> u \in listed)
  BY <1>1, <1>2, <1>3, SetTimeoutDeadline
<1> DEFINE D(u) == IF u \in listed THEN Deadline(u) ELSE Never
<1>5. D(t)' # Never /\ D(t)' >= Now
  <2>1. D(t)' = Now + d
    BY <1>4
  <2>2. QED BY <1>3, <1>4, <2>1, TimerAssumption
<1>6. \A u \in Timeout \ {t} : D(u)' = D(u)
  BY <1>4
<1>7. QED BY <1>2, <1>4, <1>5, <1>6 DEF Abstract!Install

---------------------------------------------------------------------------
(***************************************************************************)
(* Timer::process_timeouts and Timer::schedule_timeout                     *)
(***************************************************************************)

\* process_timeouts fires exactly the timeouts that are due, and leaves the
\* lists in order.
LEMMA ExpiredProps ==
  ASSUME TimerInv
  PROVE  /\ Remaining \in [Period -> Seq(Timeout)]
         /\ ListsOK(Remaining, listed \ Elems(Expired), end_period, end)
         /\ \A t \in listed : t \in Elems(Expired) <=> Deadline(t) <= Now
<1> DEFINE l == list[time_period]
           i == Position(l, time + 1)
           n == i - 1
<1>1. TypeOK /\ TimerFacts /\ ListsOK(list, listed, end_period, end)
  BY TimerTypes, ListsSortedOK DEF TimerInv
<1> USE DEF TimerFacts
<1>2. /\ l \in Seq(Timeout) /\ Distinct(l) /\ Sorted(l, end) /\ end \in [Timeout -> Int]
      /\ Elems(l) = { t \in listed : end_period[t] = time_period } /\ time + 1 \in Int
  BY <1>1 DEF ListsOK
<1>3. /\ i \in 1 .. Len(l) + 1 /\ \A j \in 1 .. i - 1 : end[l[j]] < time + 1
      /\ i <= Len(l) => end[l[i]] >= time + 1
  BY <1>2, PositionProps
<1>4. Expired = SubSeq(l, 1, n)
  BY DEF Expired
<1> HIDE DEF i
<1>5. Len(l) \in Nat /\ n \in 0 .. Len(l) /\ n \in Nat
  BY <1>2, <1>3
<1>6. Len(Expired) = n /\ Elems(Expired) = FirstItems(l, n)
  <2>1. Len(Expired) = n /\ \A j \in 1 .. n : Expired[j] = l[j]
    BY <1>2, <1>4, <1>5, SubSeqProperties
  <2>2. QED BY <2>1 DEF Elems, FirstItems
<1>7. Remaining = [list EXCEPT ![time_period] = Drop(l, n)]
  BY <1>6 DEF Remaining, Drop
<1> HIDE DEF l, n
<1>8. /\ Drop(l, n) \in Seq(Timeout) /\ Distinct(Drop(l, n))
      /\ FirstItems(l, n) \subseteq Elems(l) /\ Elems(Drop(l, n)) = Elems(l) \ FirstItems(l, n)
  BY <1>2, <1>5, DropProps
<1>9. Sorted(Drop(l, n), end)
  BY <1>2, <1>5, DropSorted
<1>10. /\ Remaining \in [Period -> Seq(Timeout)] /\ Remaining[time_period] = Drop(l, n)
       /\ \A p \in Period \ {time_period} : Remaining[p] = list[p]
  BY <1>1, <1>7, <1>8
<1>11. ListsOK(Remaining, listed \ Elems(Expired), end_period, end)
  <2>1. SUFFICES ASSUME NEW p \in Period
                 PROVE  /\ Distinct(Remaining[p])
                        /\ Elems(Remaining[p]) = { t \in listed \ Elems(Expired) : end_period[t] = p }
                        /\ Sorted(Remaining[p], end)
    BY DEF ListsOK
  <2>2. CASE p = time_period
    BY <1>2, <1>6, <1>8, <1>9, <1>10, <2>2
  <2>3. CASE p # time_period
    <3>1. Remaining[p] = list[p]
      BY <1>10, <2>3
    <3>2. { t \in listed \ Elems(Expired) : end_period[t] = p } = { t \in listed : end_period[t] = p }
      BY <1>2, <1>6, <1>8, <2>3
    <3>3. QED BY <1>1, <3>1, <3>2 DEF ListsOK
  <2>4. QED BY <2>2, <2>3
<1>12. ASSUME NEW t \in listed PROVE t \in Elems(Expired) <=> Deadline(t) <= Now
  <2>1. /\ t \in Timeout /\ end[t] \in Nat /\ time \in Nat /\ end[t] < Wrap /\ time < Wrap
        /\ Wrap \in Nat /\ epoch * Wrap \in Nat /\ Now = epoch * Wrap + time
    BY <1>1
  <2>2. CASE end_period[t] = time_period
    <3>1. Deadline(t) = epoch * Wrap + end[t]
      BY <1>1, <2>1, <2>2, DeadlineType
    <3>2. Deadline(t) <= Now <=> end[t] < time + 1
      BY <2>1, <3>1
    <3>3. PICK j \in 1 .. Len(l) : t = l[j]
      BY <1>2, <2>2 DEF Elems
    <3>4. j <= n => end[t] < time + 1 /\ t \in FirstItems(l, n)
      BY <1>3, <1>5, <3>3 DEF n, FirstItems
    <3>5. j > n => end[t] >= time + 1
      <4>1. SUFFICES ASSUME j > n PROVE end[t] >= time + 1
        OBVIOUS
      <4>2. i <= Len(l) /\ i \in 1 .. Len(l) /\ (i = j \/ i < j)
        BY <1>3, <1>5, <4>1 DEF n
      <4>3. end[l[i]] >= time + 1 /\ end[l[i]] \in Int /\ end[l[i]] <= end[t]
        BY <1>2, <1>3, <3>3, <4>2 DEF Sorted
      <4>4. QED BY <2>1, <4>3
    <3>6. j > n => t \notin FirstItems(l, n)
      BY <1>2, <1>5, <3>3 DEF FirstItems, Distinct
    <3>7. QED BY <1>5, <1>6, <2>1, <3>2, <3>4, <3>5, <3>6
  <2>3. CASE end_period[t] # time_period
    <3>1. Deadline(t) = epoch * Wrap + Wrap + end[t]
      BY <1>1, <2>1, <2>3, DeadlineType
    <3>2. t \notin Elems(Expired)
      BY <1>2, <1>6, <1>8, <2>3
    <3>3. QED BY <2>1, <3>1, <3>2
  <2>4. QED BY <2>2, <2>3
<1>13. QED BY <1>10, <1>11, <1>12

\* What a pass leaves behind, before the timer is armed: what is still listed
\* ends later than now.
LEMMA ScheduleProps ==
  ASSUME TimerInv, NEW q \in Slice, Schedule(q)
  PROVE  /\ time' = time /\ time_period' = time_period /\ epoch' = epoch /\ Now' = Now
         /\ list' \in [Period -> Seq(Timeout)] /\ start' \in [Timeout -> 0 .. Wrap - 1]
         /\ end' \in [Timeout -> 0 .. Wrap - 1] /\ end_period' \in [Timeout -> Period]
         /\ listed' \subseteq Timeout /\ installed' \in [Timeout -> Nat]
         /\ ListsSorted' /\ InstalledOK' /\ EndsSoon'
         /\ CpuTimeout \in listed' /\ Deadline(CpuTimeout)' = Now + q
         /\ \A t \in Timeout \ {CpuTimeout} :
              /\ t \in listed' <=> t \in listed /\ ~(Deadline(t) <= Now)
              /\ Deadline(t)' = Deadline(t)
<1> DEFINE L == listed \ Elems(Expired)
<1>1. TypeOK /\ TimerFacts
  BY TimerTypes DEF TimerInv
<1>2. /\ SetTimeout(Remaining, L, CpuTimeout, q)
      /\ time' = time /\ time_period' = time_period /\ epoch' = epoch
  BY DEF Schedule
<1>3. q \in 0 .. Wrap - 1 /\ CpuTimeout \in Timeout
  BY <1>1, TimerAssumption DEF TimerFacts
<1>4. /\ Remaining \in [Period -> Seq(Timeout)] /\ ListsOK(Remaining, L, end_period, end)
      /\ \A t \in listed : t \in Elems(Expired) <=> Deadline(t) <= Now
  BY ExpiredProps
<1>5. L \in SUBSET listed /\ L \in SUBSET Timeout /\ \A t : t \in L <=> t \in listed /\ t \notin Elems(Expired)
  BY <1>1 DEF TimerFacts
<1> HIDE DEF L
<1>6. /\ list' \in [Period -> Seq(Timeout)] /\ start' \in [Timeout -> 0 .. Wrap - 1]
      /\ end' \in [Timeout -> 0 .. Wrap - 1] /\ end_period' \in [Timeout -> Period]
      /\ listed' \subseteq Timeout /\ installed' \in [Timeout -> Nat]
      /\ ListsSorted' /\ InstalledOK' /\ EndsSoon'
  BY <1>2, <1>3, <1>4, <1>5, SetTimeoutInv
<1>7. /\ Now' = Now /\ CpuTimeout \in listed' /\ Deadline(CpuTimeout)' = Now + q
      /\ \A t \in Timeout \ {CpuTimeout} : Deadline(t)' = Deadline(t) /\ (t \in listed' <=> t \in L)
  BY <1>1, <1>2, <1>3, <1>5, SetTimeoutDeadline
<1>8. QED BY <1>2, <1>4, <1>5, <1>6, <1>7

\* schedule_timeout arms the timer for the deadline of the nearest timeout.
LEMMA NearestProps ==
  ASSUME TimerInv, NEW q \in Slice, Schedule(q)
  PROVE  /\ last' \in 0 .. Wrap - 1
         /\ \E n \in listed' : Now + last' = Deadline(n)'
         /\ \A t \in listed' : Now + last' <= Deadline(t)'
<1>1. TypeOK /\ TimerFacts
  BY TimerTypes DEF TimerInv
<1> USE DEF TimerFacts
<1>2. /\ time' = time /\ time_period' = time_period /\ epoch' = epoch /\ Now' = Now
      /\ list' \in [Period -> Seq(Timeout)]
      /\ end' \in [Timeout -> 0 .. Wrap - 1] /\ end_period' \in [Timeout -> Period]
      /\ listed' \subseteq Timeout /\ ListsSorted' /\ EndsSoon'
      /\ CpuTimeout \in listed' /\ Deadline(CpuTimeout)' = Now + q
      /\ \A t \in Timeout \ {CpuTimeout} :
           /\ t \in listed' <=> t \in listed /\ ~(Deadline(t) <= Now)
           /\ Deadline(t)' = Deadline(t)
  BY ScheduleProps
<1>3. last' = (end'[Nearest] - time) % Wrap
  BY DEF Schedule
<1>4. /\ time \in Nat /\ time < Wrap /\ Wrap \in Nat \ {0} /\ epoch * Wrap \in Nat
      /\ Now = epoch * Wrap + time /\ q \in Nat /\ q >= 1
      /\ (epoch + 1) * Wrap = epoch * Wrap + Wrap
  BY <1>1, TimerAssumption
<1>5. \A t \in listed' : /\ end'[t] \in Nat /\ end'[t] < Wrap
                         /\ end_period'[t] = time_period => Deadline(t)' = epoch * Wrap + end'[t]
                         /\ end_period'[t] # time_period => Deadline(t)' = epoch * Wrap + Wrap + end'[t]
  <2>1. \A t \in listed' : end'[t] \in Nat /\ end'[t] < Wrap
    BY <1>1, <1>2
  <2>2. \A t \in listed' : Deadline(t)' = (IF end_period'[t] = time_period THEN epoch ELSE epoch + 1) * Wrap + end'[t]
    BY <1>2 DEF Deadline
  <2>3. QED BY <1>4, <2>1, <2>2
<1>6. \A t \in listed' : Deadline(t)' > Now
  <2>1. Deadline(CpuTimeout)' > Now
    BY <1>2, <1>4
  <2>2. ASSUME NEW t \in listed', t # CpuTimeout PROVE Deadline(t)' > Now
    <3>1. t \in Timeout /\ Deadline(t)' = Deadline(t) /\ ~(Deadline(t) <= Now)
      BY <1>2, <2>2
    <3>2. Deadline(t) \in Nat
      BY <1>1, <3>1, DeadlineType
    <3>3. QED BY <1>1, <3>1, <3>2
  <2>3. QED BY <2>1, <2>2
<1>7. \A p \in Period : /\ Elems(list'[p]) = { t \in listed' : end_period'[t] = p }
                        /\ Sorted(list'[p], end')
                        /\ list'[p] \in Seq(Timeout)
  BY <1>2 DEF ListsSorted, Sorted
<1>8. ASSUME NEW p \in Period, list'[p] # <<>>
      PROVE  /\ Head(list'[p]) \in listed' /\ end_period'[Head(list'[p])] = p
             /\ \A t \in listed' : end_period'[t] = p => end'[Head(list'[p])] <= end'[t]
  <2> DEFINE l == list'[p]
  <2>1. l \in Seq(Timeout) /\ l # <<>> /\ Sorted(l, end') /\ Elems(l) = { t \in listed' : end_period'[t] = p }
    BY <1>7, <1>8
  <2> HIDE DEF l
  <2>2. Head(l) \in Elems(l)
    BY <2>1, HeadElem
  <2>3. ASSUME NEW t \in Elems(l) PROVE end'[Head(l)] <= end'[t]
    <3>1. PICK j \in 1 .. Len(l) : t = l[j]
      BY <2>3 DEF Elems
    <3>2. Head(l) = l[1] /\ 1 \in 1 .. Len(l) /\ (j = 1 \/ 1 < j)
      BY <2>1, <3>1
    <3>3. end'[t] \in Nat
      BY <1>5, <2>1
    <3>4. QED BY <2>1, <3>1, <3>2, <3>3 DEF Sorted
  <2>4. QED BY <2>1, <2>2, <2>3 DEF l
<1>9. CASE list'[time_period] # <<>>
  <2>1. PICK n \in listed' : n = Nearest /\ n = Head(list'[time_period])
    BY <1>1, <1>8, <1>9 DEF Nearest
  <2>2. /\ end_period'[n] = time_period
        /\ \A t \in listed' : end_period'[t] = time_period => end'[n] <= end'[t]
    BY <1>1, <1>8, <1>9, <2>1
  <2>3. /\ end'[n] \in Nat /\ end'[n] < Wrap /\ end'[n] > time
        /\ Deadline(n)' = epoch * Wrap + end'[n]
    BY <1>4, <1>5, <1>6, <2>2
  <2>4. end'[n] - time \in Int /\ end'[n] - time >= 0 /\ end'[n] - time < Wrap
    BY <1>4, <2>3
  <2>5. last' = end'[n] - time
    BY <1>3, <1>4, <2>1, <2>4
  <2>6. last' \in 0 .. Wrap - 1 /\ Now + last' = Deadline(n)'
    BY <1>4, <2>3, <2>4, <2>5
  <2>7. ASSUME NEW t \in listed' PROVE Now + last' <= Deadline(t)'
    <3>1. CASE end_period'[t] = time_period
      BY <1>4, <1>5, <2>2, <2>3, <2>6, <3>1
    <3>2. CASE end_period'[t] # time_period
      BY <1>4, <1>5, <2>3, <2>6, <3>2
    <3>3. QED BY <3>1, <3>2
  <2>8. QED BY <2>1, <2>2, <2>6, <2>7
<1>10. CASE list'[time_period] = <<>>
  <2> DEFINE o == Other(time_period)
  <2>1. o \in Period /\ o # time_period /\ \A p \in Period : p = time_period \/ p = o
    BY <1>1 DEF Period, Other
  <2> HIDE DEF o
  <2>2. \A t \in listed' : end_period'[t] # time_period /\ end_period'[t] = o
    <3>1. \A t \in listed' : end_period'[t] # time_period
      BY <1>1, <1>7, <1>10, EmptyElems
    <3>2. QED BY <1>2, <2>1, <3>1
  <2>3. list'[o] # <<>>
    <3>1. CpuTimeout \in Elems(list'[o])
      BY <1>2, <1>7, <2>1, <2>2
    <3>2. QED BY <3>1, EmptyElems
  <2>4. PICK n \in listed' : n = Nearest /\ n = Head(list'[o])
    BY <1>8, <1>10, <2>1, <2>3 DEF Nearest, o
  <2>5. \A t \in listed' : end'[n] <= end'[t]
    BY <1>8, <2>4, <2>1, <2>2, <2>3
  <2>6. end'[n] < time
    BY <1>2, <2>2, <2>5 DEF EndsSoon
  <2>7. /\ end'[n] \in Nat /\ Deadline(n)' = epoch * Wrap + Wrap + end'[n]
        /\ \A t \in listed' : end'[t] \in Nat /\ Deadline(t)' = epoch * Wrap + Wrap + end'[t]
    BY <1>5, <2>2, <2>5
  <2>8. end'[n] - time \in Int /\ end'[n] - time < 0 /\ end'[n] - time >= -Wrap
    BY <1>4, <2>6, <2>7
  <2>9. last' = end'[n] - time + Wrap
    BY <1>3, <1>4, <2>4, <2>8
  <2>10. last' \in 0 .. Wrap - 1 /\ Now + last' = Deadline(n)'
    BY <1>4, <2>6, <2>7, <2>9
  <2>11. \A t \in listed' : Now + last' <= Deadline(t)'
    BY <1>4, <2>5, <2>7, <2>10
  <2>12. QED BY <2>4, <2>5, <2>10, <2>11
<1>11. QED BY <1>9, <1>10

\* Timer::process_timeouts followed by Timer::schedule_timeout preserves the
\* invariant.
LEMMA ScheduleStep ==
  ASSUME TimerInv, NEW q \in Slice, Schedule(q)
  PROVE  TimerInv'
<1>1. TypeOK /\ TimerFacts
  BY TimerTypes DEF TimerInv
<1>2. /\ time' = time /\ time_period' = time_period /\ epoch' = epoch /\ Now' = Now
      /\ list' \in [Period -> Seq(Timeout)] /\ start' \in [Timeout -> 0 .. Wrap - 1]
      /\ end' \in [Timeout -> 0 .. Wrap - 1] /\ end_period' \in [Timeout -> Period]
      /\ listed' \subseteq Timeout /\ installed' \in [Timeout -> Nat]
      /\ ListsSorted' /\ InstalledOK' /\ EndsSoon'
  BY ScheduleProps
<1>3. last' \in 0 .. Wrap - 1
  BY NearestProps
<1>4. armed' = Now /\ pass' = FALSE
  BY DEF Schedule
<1>5. TypeOK'
  BY <1>1, <1>2, <1>3, <1>4 DEF TypeOK, TimerFacts
<1>6. ArmedNow'
  BY <1>2, <1>4 DEF ArmedNow
<1>7. QED BY <1>2, <1>5, <1>6 DEF TimerInv

\* The end of a pass fires what is due and arms for the nearest deadline, as
\* the abstract timer does.
LEMMA ScheduleLeaves ==
  ASSUME TimerInv, NEW q \in Slice, Schedule(q)
  PROVE  Abstract!Leave
<1>1. TypeOK /\ TimerFacts
  BY TimerTypes DEF TimerInv
<1>2. /\ Now' = Now /\ listed' \subseteq Timeout
      /\ CpuTimeout \in listed' /\ Deadline(CpuTimeout)' = Now + q
      /\ \A t \in Timeout \ {CpuTimeout} :
           /\ t \in listed' <=> t \in listed /\ ~(Deadline(t) <= Now)
           /\ Deadline(t)' = Deadline(t)
  BY ScheduleProps
<1>3. /\ last' \in 0 .. Wrap - 1
      /\ \E n \in listed' : Now + last' = Deadline(n)'
      /\ \A t \in listed' : Now + last' <= Deadline(t)'
  BY NearestProps
<1>4. armed' = Now /\ pass' = FALSE /\ pass
  BY DEF Schedule
<1>5. Never \notin Nat /\ q \in Nat /\ q >= 1 /\ Now \in Nat /\ last' \in Nat /\ CpuTimeout \in Timeout
  BY <1>1, <1>3, TimerAssumption DEF TimerFacts
<1>6. \A t \in Timeout : Deadline(t) \in Nat
  BY <1>1, DeadlineType
<1> DEFINE D(t) == IF t \in listed THEN Deadline(t) ELSE Never
<1>7. \A t \in Timeout \ {CpuTimeout} :
        D(t)' = IF D(t) # Never /\ D(t) <= Now' THEN Never ELSE D(t)
  BY <1>2, <1>5, <1>6
<1>8. D(CpuTimeout)' # Never /\ D(CpuTimeout)' > Now
  <2>1. D(CpuTimeout)' = Now + q
    BY <1>2
  <2>2. QED BY <1>5, <2>1
<1>9. \E t \in Timeout : (armed + last)' = D(t)'
  <2>1. PICK n \in listed' : Now + last' = Deadline(n)'
    BY <1>3
  <2>2. (armed + last)' = D(n)'
    BY <1>4, <2>1
  <2>3. QED BY <1>2, <2>1, <2>2
<1>10. \A t \in Timeout : D(t)' # Never => (armed + last)' <= D(t)'
  BY <1>3, <1>4
<1>11. QED BY <1>2, <1>4, <1>7, <1>8, <1>9, <1>10 DEF Abstract!Leave, Abstract!Due

---------------------------------------------------------------------------
(***************************************************************************)
(* Theorems                                                                *)
(***************************************************************************)

\* The timer starts with empty lists at time 0.
LEMMA InitTimer == Init => TimerInv
<1>1. SUFFICES ASSUME Init PROVE TimerInv
  OBVIOUS
<1>2. 0 \in 0 .. Wrap - 1 /\ 0 \in 0 .. MaxEpoch /\ 0 \in Period /\ 0 * Wrap = 0
  BY TimerAssumption DEF Period
<1>3. \A p \in Period : list[p] = <<>>
  BY <1>1 DEF Init
<1>4. list \in [Period -> Seq(Timeout)]
  BY <1>1 DEF Init
<1>5. TypeOK
  BY <1>1, <1>2, <1>4 DEF Init, TypeOK
<1>6. ListsSorted
  BY <1>1, <1>3, EmptyElems DEF Init, ListsSorted
<1>7. Now = 0
  BY <1>1, <1>2 DEF Init, Now
<1>8. InstalledOK /\ ArmedNow /\ EndsSoon
  BY <1>1, <1>2, <1>7 DEF Init, InstalledOK, ArmedNow, EndsSoon
<1>9. QED BY <1>5, <1>6, <1>8 DEF TimerInv

\* Every step preserves the invariant.
LEMMA TimerInvStep ==
  ASSUME TimerInv, [Next]_vars
  PROVE  TimerInv'
<1>1. CASE \E d \in 1 .. Wrap - 1 : UpdateTime(d)
  BY <1>1, UpdateTimeStep
<1>2. CASE \E t \in Timeout, d \in Duration : CallTimeout(t, d)
  BY <1>2, CallTimeoutStep
<1>3. CASE \E q \in Slice : Schedule(q)
  BY <1>3, ScheduleStep
<1>4. CASE UNCHANGED vars
  BY <1>4 DEF vars, timeouts, TimerInv, TypeOK, ListsSorted, InstalledOK, EndsSoon, ArmedNow, Now
<1>5. QED BY <1>1, <1>2, <1>3, <1>4 DEF Next

\* The invariant holds in every reachable state.
LEMMA TimerInvAlways == Spec => []TimerInv
<1>1. Init => TimerInv
  BY InitTimer
<1>2. TimerInv /\ [Next]_vars => TimerInv'
  BY TimerInvStep
<1>3. QED BY <1>1, <1>2, PTL DEF Spec

\* Timer::_time, the timeout members and the lists keep their types.
THEOREM TimerTypeCorrect == Spec => []TypeOK
<1>1. TimerInv => TypeOK
  BY DEF TimerInv
<1>2. QED BY <1>1, TimerInvAlways, PTL

\* The two timeout lists are sorted and hold each listed timeout where
\* Timeout::_end_period says, for any number of timeouts and any width of the
\* time: set_timeout always unlinks from and inserts into the right list.
THEOREM ListsStaySorted == Spec => []ListsSorted
<1>1. TimerInv => ListsSorted
  BY DEF TimerInv
<1>2. QED BY <1>1, TimerInvAlways, PTL

\* Timer::timeout_age_us, a difference of wrapped times, is the true age of
\* each timeout that is younger than a full wrap.
THEOREM AgesAreRight == Spec => []AgeIsRight
<1>1. TimerInv => AgeIsRight
  <2>1. SUFFICES ASSUME TimerInv, NEW t \in Timeout, Now - installed[t] < Wrap
                 PROVE  (time - start[t]) % Wrap = Now - installed[t]
    BY DEF AgeIsRight, TimeoutAge
  <2>2. TimerFacts /\ InstalledOK
    BY <2>1, TimerTypes DEF TimerInv
  <2>3. /\ time \in Nat /\ time < Wrap /\ start[t] \in Nat /\ start[t] < Wrap
        /\ Wrap \in Nat \ {0} /\ epoch \in Nat /\ Now = epoch * Wrap + time /\ Now \in Nat
        /\ installed[t] \in Nat /\ installed[t] <= Now
    BY <2>2 DEF TimerFacts, InstalledOK
  <2>4. PICK e \in 0 .. epoch : installed[t] = e * Wrap + start[t]
    BY <2>2 DEF InstalledOK
  <2>5. e \in Nat /\ e <= epoch /\ epoch - e \in Nat
    BY <2>3
  <2> DEFINE n == epoch - e
             I == e * Wrap
             B == epoch * Wrap
  <2>6. I \in Nat /\ B \in Nat /\ n * Wrap \in Nat
    BY <2>3, <2>5, EpochTimes
  <2>7. B = I + n * Wrap
    BY <2>3, <2>5
  <2>8. n >= 2 => n * Wrap >= Wrap + Wrap
    BY <2>3, <2>5
  <2>9. (n = 0 => n * Wrap = 0) /\ (n = 1 => n * Wrap = Wrap)
    BY <2>3, <2>5
  <2>10. n \in Nat /\ installed[t] = I + start[t] /\ Now = B + time
    BY <2>3, <2>4, <2>5
  <2> DEFINE w == n * Wrap
  <2> HIDE DEF n, I, B, w
  <2>11. /\ w \in Nat /\ Now - installed[t] = w + time - start[t]
         /\ (n = 0 => w = 0) /\ (n = 1 => w = Wrap) /\ (n >= 2 => w >= Wrap + Wrap)
    BY <2>3, <2>6, <2>7, <2>8, <2>9, <2>10 DEF w
  <2>12. PICK a \in Int : a = time - start[t]
    BY <2>3
  <2>13. CASE n = 0
    <3>1. a >= 0 /\ a < Wrap
      BY <2>1, <2>3, <2>11, <2>12, <2>13
    <3>2. a % Wrap = a
      BY <2>3, <3>1, Residue
    <3>3. QED BY <2>3, <2>11, <2>12, <2>13, <3>2
  <2>14. CASE n = 1
    <3>1. a < 0 /\ a >= -Wrap
      BY <2>1, <2>3, <2>11, <2>12, <2>14
    <3>2. a % Wrap = a + Wrap
      BY <2>3, <3>1, Residue
    <3>3. QED BY <2>3, <2>11, <2>12, <2>14, <3>2
  <2>15. CASE n >= 2
    BY <2>1, <2>3, <2>11, <2>15
  <2>16. QED BY <2>10, <2>13, <2>14, <2>15
<1>2. QED BY <1>1, TimerInvAlways, PTL

\* Kernel::Timer with its wrapping time and two lists implements the timer
\* whose time does not wrap: a timeout fires in the pass in which its deadline
\* is reached, never earlier, and the one-shot timer is armed for the nearest
\* deadline.
THEOREM TimerImplementsAbstractTimer == Spec => ImplementsAbstractTimer
<1>1. Init => Abstract!Init
  <2>1. SUFFICES ASSUME Init PROVE Abstract!Init
    OBVIOUS
  <2>2. Now = 0 /\ armed + last = 0
    <3>1. 0 * Wrap = 0
      BY TimerAssumption
    <3>2. QED BY <2>1, <3>1 DEF Init, Now
  <2>3. QED BY <2>1, <2>2 DEF Init, Abstract!Init
<1>2. TimerInv /\ [Next]_vars => [Abstract!Next]_(Abstract!vars)
  <2>1. SUFFICES ASSUME TimerInv, [Next]_vars PROVE [Abstract!Next]_(Abstract!vars)
    OBVIOUS
  <2>2. CASE \E d \in 1 .. Wrap - 1 : UpdateTime(d)
    BY <2>1, <2>2, UpdateTimeElapses DEF Abstract!Next
  <2>3. CASE \E t \in Timeout, d \in Duration : CallTimeout(t, d)
    BY <2>1, <2>3, CallTimeoutInstalls DEF Abstract!Next
  <2>4. CASE \E q \in Slice : Schedule(q)
    BY <2>1, <2>4, ScheduleLeaves DEF Abstract!Next
  <2>5. CASE UNCHANGED vars
    BY <2>5 DEF vars, timeouts, Abstract!vars, Now, Deadline
  <2>6. QED BY <2>1, <2>2, <2>3, <2>4, <2>5 DEF Next
<1>3. QED BY <1>1, <1>2, TimerInvAlways, PTL DEF Spec, ImplementsAbstractTimer, Abstract!Spec

===========================================================================
