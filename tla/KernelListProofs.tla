------------------------- MODULE KernelListProofs -------------------------
(***************************************************************************)
(* What the list operators of KernelList return: the items they hold and   *)
(* that they link no item twice.  The proofs about the scheduler and the   *)
(* signals rest on these lemmas and never look into the lists themselves.  *)
(***************************************************************************)
EXTENDS KernelList, Integers, SequenceTheorems, TLAPS

\* The items of a list of S are in S.
LEMMA ElemsSubset ==
  ASSUME NEW S, NEW l \in Seq(S)
  PROVE  Elems(l) \subseteq S
  BY DEF Elems

\* The empty list holds nothing.
LEMMA EmptyElems == Elems(<<>>) = {} /\ Distinct(<<>>)
  BY DEF Elems, Distinct

\* A list that holds something is not the empty list, and starts with an item.
LEMMA HeadElem ==
  ASSUME NEW S, NEW l \in Seq(S), l # <<>>
  PROVE  Head(l) \in Elems(l)
  BY DEF Elems

\* dequeue takes the first item and leaves the others.
LEMMA TailProps ==
  ASSUME NEW S, NEW l \in Seq(S), l # <<>>, Distinct(l)
  PROVE  /\ Head(l) \in S /\ Tail(l) \in Seq(S)
         /\ Elems(l) = Elems(Tail(l)) \cup {Head(l)}
         /\ Head(l) \notin Elems(Tail(l))
         /\ Distinct(Tail(l))
<1> DEFINE m == Tail(l)
<1>1. /\ m \in Seq(S) /\ Len(l) \in Nat \ {0} /\ Len(m) = Len(l) - 1
      /\ Head(l) = l[1] /\ l[1] \in S
  OBVIOUS
<1>2. \A i \in 1 .. Len(m) : m[i] = l[i + 1]
  OBVIOUS
<1> HIDE DEF m
<1>3. \A x \in Elems(m) : x \in Elems(l) /\ x # l[1]
  <2>1. TAKE x \in Elems(m)
  <2>2. PICK i \in 1 .. Len(m) : m[i] = x
    BY DEF Elems
  <2>3. x = l[i + 1] /\ i + 1 \in 1 .. Len(l) /\ 1 \in 1 .. Len(l) /\ i + 1 # 1
    BY <1>1, <1>2, <2>2
  <2>4. QED BY <2>3 DEF Elems, Distinct
<1>4. \A x \in Elems(l) : x = l[1] \/ x \in Elems(m)
  <2>1. TAKE x \in Elems(l)
  <2>2. PICK i \in 1 .. Len(l) : l[i] = x
    BY DEF Elems
  <2>3. CASE i # 1
    <3>1. i - 1 \in 1 .. Len(m) /\ m[i - 1] = x
      BY <1>1, <1>2, <2>2, <2>3
    <3>2. QED BY <3>1 DEF Elems
  <2>4. QED BY <2>2, <2>3
<1>5. l[1] \in Elems(l)
  BY <1>1 DEF Elems
<1>6. Distinct(m)
  <2>1. ASSUME NEW i \in 1 .. Len(m), NEW j \in 1 .. Len(m), m[i] = m[j] PROVE i = j
    <3>1. l[i + 1] = l[j + 1] /\ i + 1 \in 1 .. Len(l) /\ j + 1 \in 1 .. Len(l)
      BY <1>1, <1>2, <2>1
    <3>2. i + 1 = j + 1
      BY <3>1 DEF Distinct
    <3>3. QED BY <3>2
  <2>2. QED BY <2>1 DEF Distinct
<1>7. QED BY <1>1, <1>3, <1>4, <1>5, <1>6 DEF m

\* insert_tail adds the item behind all the others.
LEMMA InsertTailProps ==
  ASSUME NEW S, NEW l \in Seq(S), NEW x \in S
  PROVE  /\ InsertTail(l, x) \in Seq(S)
         /\ Elems(InsertTail(l, x)) = Elems(l) \cup {x}
         /\ Distinct(l) /\ x \notin Elems(l) => Distinct(InsertTail(l, x))
<1> DEFINE m == InsertTail(l, x)
<1>1. m \in Seq(S) /\ Len(m) = Len(l) + 1
  BY DEF InsertTail
<1>2. \A i \in 1 .. Len(l) : m[i] = l[i]
  BY DEF InsertTail
<1>3. m[Len(l) + 1] = x
  BY DEF InsertTail
<1>4. Elems(m) = Elems(l) \cup {x}
  <2> HIDE DEF m
  <2>1. Elems(m) \subseteq Elems(l) \cup {x}
    BY <1>1, <1>2, <1>3 DEF Elems
  <2>2. Elems(l) \subseteq Elems(m)
    BY <1>1, <1>2 DEF Elems
  <2>3. x \in Elems(m)
    BY <1>1, <1>3 DEF Elems
  <2>4. QED BY <2>1, <2>2, <2>3
<1>5. Distinct(l) /\ x \notin Elems(l) => Distinct(m)
  <2> HIDE DEF m
  <2>1. QED BY <1>1, <1>2, <1>3 DEF Distinct, Elems
<1>6. QED BY <1>1, <1>4, <1>5

\* insert_head adds the item before all the others.
LEMMA InsertHeadProps ==
  ASSUME NEW S, NEW l \in Seq(S), NEW x \in S
  PROVE  /\ InsertHead(l, x) \in Seq(S)
         /\ Elems(InsertHead(l, x)) = Elems(l) \cup {x}
         /\ Distinct(l) /\ x \notin Elems(l) => Distinct(InsertHead(l, x))
<1> DEFINE m == InsertHead(l, x)
<1>1. m \in Seq(S) /\ Len(m) = Len(l) + 1
  BY DEF InsertHead
<1>2. \A i \in 1 .. Len(l) : m[i + 1] = l[i]
  BY DEF InsertHead
<1>3. m[1] = x
  BY DEF InsertHead
<1>a. Len(l) \in Nat
  OBVIOUS
<1>b. \A i \in 1 .. Len(m) : i = 1 \/ (i - 1 \in 1 .. Len(l) /\ m[i] = l[i - 1])
  <2> HIDE DEF m
  <2>1. SUFFICES ASSUME NEW i \in 1 .. Len(m), i # 1
                 PROVE  i - 1 \in 1 .. Len(l) /\ m[i] = l[i - 1]
    OBVIOUS
  <2>2. i - 1 \in 1 .. Len(l) /\ (i - 1) + 1 = i
    BY <2>1, <1>1, <1>a
  <2>3. QED BY <2>2, <1>2
<1>4. Elems(m) = Elems(l) \cup {x}
  <2> HIDE DEF m
  <2>1. Elems(m) \subseteq Elems(l) \cup {x}
    BY <1>b, <1>3 DEF Elems
  <2>2. Elems(l) \subseteq Elems(m)
    <3>1. \A i \in 1 .. Len(l) : i + 1 \in 1 .. Len(m)
      BY <1>1, <1>a
    <3>2. QED BY <3>1, <1>2 DEF Elems
  <2>3. x \in Elems(m)
    BY <1>1, <1>3, <1>a DEF Elems
  <2>4. QED BY <2>1, <2>2, <2>3
<1>5. Distinct(l) /\ x \notin Elems(l) => Distinct(m)
  <2> HIDE DEF m
  <2>1. SUFFICES ASSUME Distinct(l), x \notin Elems(l),
                        NEW i \in 1 .. Len(m), NEW j \in 1 .. Len(m), m[i] = m[j]
                 PROVE  i = j
    BY DEF Distinct
  <2>2. CASE i = 1 \/ j = 1
    BY <2>1, <2>2, <1>b, <1>3 DEF Elems
  <2>3. CASE i # 1 /\ j # 1
    <3>1. i - 1 = j - 1
      BY <2>1, <2>3, <1>b DEF Distinct
    <3>2. QED BY <3>1
  <2>4. QED BY <2>2, <2>3
<1>6. QED BY <1>1, <1>4, <1>5

\* remove unlinks the item and nothing else; of an item that is not linked it
\* is a no-op.
LEMMA RemoveProps ==
  ASSUME NEW S, NEW l \in Seq(S), NEW x, Distinct(l)
  PROVE  /\ Remove(l, x) \in Seq(S)
         /\ Elems(Remove(l, x)) = Elems(l) \ {x}
         /\ Distinct(Remove(l, x))
<1> DEFINE m == Remove(l, x)
           k == IndexOf(l, x)
<1>1. CASE x \notin Elems(l)
  BY <1>1 DEF Remove
<1>2. CASE x \in Elems(l)
  <2>1. k \in 1 .. Len(l) /\ l[k] = x
    BY <1>2 DEF Elems, IndexOf
  <2>2. Len(l) \in Nat /\ Len(l) >= 1
    BY <2>1
  <2>3. m = [ i \in 1 .. Len(l) - 1 |-> IF i < k THEN l[i] ELSE l[i + 1] ]
    BY <1>2 DEF Remove
  <2> HIDE DEF m, k
  <2>4. \A i \in 1 .. Len(l) - 1 : i \in 1 .. Len(l) /\ i + 1 \in 1 .. Len(l)
    BY <2>2
  <2>5. \A i \in 1 .. Len(l) : l[i] \in S
    OBVIOUS
  <2>6. m \in Seq(S) /\ Len(m) = Len(l) - 1
    <3>1. m \in [1 .. Len(l) - 1 -> S]
      BY <2>3, <2>4, <2>5
    <3>2. Len(l) - 1 \in Nat
      BY <2>2
    <3>3. QED BY <3>1, <3>2, SeqDef, LenProperties
  <2>7. \A i \in 1 .. Len(m) : m[i] = IF i < k THEN l[i] ELSE l[i + 1]
    BY <2>3, <2>6
  <2>8. \A i \in 1 .. Len(l) : l[i] = x => i = k
    BY <2>1 DEF Distinct
  <2>9. Elems(m) \subseteq Elems(l) \ {x}
    <3>1. SUFFICES ASSUME NEW i \in 1 .. Len(m)
                   PROVE  m[i] \in Elems(l) /\ m[i] # x
      BY DEF Elems
    <3>2. CASE i < k
      BY <3>2, <2>7, <2>8, <2>4, <2>6 DEF Elems
    <3>3. CASE ~(i < k)
      <4>1. m[i] = l[i + 1] /\ i + 1 \in 1 .. Len(l) /\ i + 1 # k
        BY <3>3, <2>7, <2>4, <2>6, <2>1
      <4>2. QED BY <4>1, <2>8 DEF Elems
    <3>4. QED BY <3>2, <3>3
  <2>10. Elems(l) \ {x} \subseteq Elems(m)
    <3>1. SUFFICES ASSUME NEW i \in 1 .. Len(l), l[i] # x
                   PROVE  l[i] \in Elems(m)
      BY DEF Elems
    <3>2. i # k
      BY <3>1, <2>1
    <3>3. CASE i < k
      <4>1. i \in 1 .. Len(m) /\ m[i] = l[i]
        BY <3>3, <2>6, <2>7, <2>1, <2>2
      <4>2. QED BY <4>1 DEF Elems
    <3>4. CASE i > k
      <4>1. i - 1 \in 1 .. Len(m)
        BY <3>4, <2>6, <2>1, <2>2
      <4>2. m[i - 1] = l[(i - 1) + 1]
        BY <4>1, <3>4, <2>7, <2>1
      <4>3. (i - 1) + 1 = i
        OBVIOUS
      <4>4. QED BY <4>1, <4>2, <4>3 DEF Elems
    <3>5. QED BY <3>2, <3>3, <3>4, <2>1
  <2>11. Distinct(m)
    <3>1. SUFFICES ASSUME NEW i \in 1 .. Len(m), NEW j \in 1 .. Len(m), m[i] = m[j]
                   PROVE  i = j
      BY DEF Distinct
    <3> DEFINE at(n) == IF n < k THEN n ELSE n + 1
    <3>2. at(i) \in 1 .. Len(l) /\ at(j) \in 1 .. Len(l)
      BY <2>4, <2>6, <2>1
    <3>3. m[i] = l[at(i)] /\ m[j] = l[at(j)]
      BY <2>7, <2>1
    <3>4. at(i) = at(j)
      <4> HIDE DEF at
      <4>1. QED BY <3>1, <3>2, <3>3 DEF Distinct
    <3>5. QED BY <3>4, <2>1
  <2>12. QED BY <2>6, <2>9, <2>10, <2>11 DEF m
<1>3. QED BY <1>1, <1>2

\* to_tail moves an item and neither loses nor repeats one.
LEMMA ToTailProps ==
  ASSUME NEW S, NEW l \in Seq(S), NEW x \in Elems(l), Distinct(l)
  PROVE  /\ ToTail(l, x) \in Seq(S)
         /\ Elems(ToTail(l, x)) = Elems(l)
         /\ Distinct(ToTail(l, x))
<1>1. x \in S
  BY ElemsSubset
<1>2. /\ Remove(l, x) \in Seq(S)
      /\ Elems(Remove(l, x)) = Elems(l) \ {x}
      /\ Distinct(Remove(l, x))
  BY RemoveProps
<1> DEFINE r == Remove(l, x)
<1>3. /\ InsertTail(r, x) \in Seq(S)
      /\ Elems(InsertTail(r, x)) = Elems(r) \cup {x}
      /\ Distinct(InsertTail(r, x))
  <2>1. r \in Seq(S) /\ x \notin Elems(r) /\ Distinct(r)
    BY <1>2
  <2> HIDE DEF r
  <2>2. QED BY <1>1, <2>1, InsertTailProps
<1>4. QED BY <1>2, <1>3 DEF ToTail

\* head_to_tail rotates the list and neither loses nor repeats an item.
LEMMA HeadToTailProps ==
  ASSUME NEW S, NEW l \in Seq(S), Distinct(l)
  PROVE  /\ HeadToTail(l) \in Seq(S)
         /\ Elems(HeadToTail(l)) = Elems(l)
         /\ Distinct(HeadToTail(l))
<1>1. CASE l = <<>>
  BY <1>1 DEF HeadToTail
<1>2. CASE l # <<>>
  <2> DEFINE t == Tail(l)
             x == Head(l)
  <2>1. t \in Seq(S) /\ Len(t) = Len(l) - 1 /\ x \in S /\ x = l[1] /\ Len(l) >= 1
    BY <1>2
  <2>2. \A i \in 1 .. Len(t) : t[i] = l[i + 1]
    BY <1>2
  <2>3. HeadToTail(l) = InsertTail(t, x)
    BY <1>2 DEF HeadToTail
  <2>a. Len(l) \in Nat
    OBVIOUS
  <2> HIDE DEF t, x
  <2>4. \A i \in 1 .. Len(t) : i + 1 \in 1 .. Len(l)
    BY <2>1, <2>a
  <2>5. x \notin Elems(t)
    BY <2>1, <2>2, <2>4 DEF Distinct, Elems
  <2>6. Elems(t) \cup {x} = Elems(l)
    <3>1. Elems(t) \cup {x} \subseteq Elems(l)
      BY <2>1, <2>2, <2>4, <2>a DEF Elems
    <3>2. ASSUME NEW i \in 1 .. Len(l) PROVE l[i] \in Elems(t) \cup {x}
      <4>1. CASE i = 1
        BY <4>1, <2>1
      <4>2. CASE i # 1
        <5>1. i - 1 \in 1 .. Len(t) /\ (i - 1) + 1 = i
          BY <4>2, <2>1, <2>a
        <5>2. t[i - 1] = l[i]
          BY <5>1, <2>2
        <5>3. QED BY <5>1, <5>2 DEF Elems
      <4>3. QED BY <4>1, <4>2
    <3>3. QED BY <3>1, <3>2 DEF Elems
  <2>7. Distinct(t)
    <3>1. SUFFICES ASSUME NEW i \in 1 .. Len(t), NEW j \in 1 .. Len(t), t[i] = t[j]
                   PROVE  i = j
      BY DEF Distinct
    <3>2. i + 1 = j + 1
      BY <3>1, <2>2, <2>4 DEF Distinct
    <3>3. QED BY <3>2
  <2>8. /\ InsertTail(t, x) \in Seq(S)
        /\ Elems(InsertTail(t, x)) = Elems(t) \cup {x}
        /\ Distinct(InsertTail(t, x))
    BY <2>1, <2>5, <2>7, InsertTailProps, ZenonT(60)
  <2>9. QED BY <2>3, <2>6, <2>8
<1>3. QED BY <1>1, <1>2

\* The first n items of a list, and the list without them
FirstItems(l, n) == { l[i] : i \in 1 .. n }
Drop(l, n) == SubSeq(l, n + 1, Len(l))

\* Taking the first n items from a list leaves the others in it.
LEMMA DropProps ==
  ASSUME NEW S, NEW l \in Seq(S), NEW n \in 0 .. Len(l), Distinct(l)
  PROVE  /\ Drop(l, n) \in Seq(S)
         /\ Distinct(Drop(l, n))
         /\ FirstItems(l, n) \subseteq Elems(l)
         /\ Elems(Drop(l, n)) = Elems(l) \ FirstItems(l, n)
         /\ n = Len(l) => Drop(l, n) = <<>>
<1> DEFINE m == SubSeq(l, n + 1, Len(l))
           d == { l[i] : i \in 1 .. n }
<1>1. Len(l) \in Nat /\ n \in Nat /\ n <= Len(l) /\ l \in [1 .. Len(l) -> S]
  OBVIOUS
<1>2. m = [ i \in 1 .. Len(l) - n |-> l[i + n] ]
  <2>1. m = [ i \in 1 .. (1 + Len(l)) - (n + 1) |-> l[(i + (n + 1)) - 1] ]
    BY <1>1 DEF m
  <2>2. (1 + Len(l)) - (n + 1) = Len(l) - n /\ \A i \in 1 .. Len(l) - n : (i + (n + 1)) - 1 = i + n
    BY <1>1
  <2>3. QED BY <2>1, <2>2
<1> HIDE DEF m
<1>3. Len(l) - n \in Nat /\ \A i \in 1 .. Len(l) - n : i + n \in 1 .. Len(l)
  BY <1>1
<1>4. m \in Seq(S) /\ Len(m) = Len(l) - n
  <2>1. m \in [1 .. Len(l) - n -> S]
    BY <1>1, <1>2, <1>3
  <2>2. QED BY <1>3, <2>1
<1>5. \A i \in 1 .. Len(m) : m[i] = l[i + n]
  BY <1>2, <1>4
<1>6. Distinct(m)
  <2>1. SUFFICES ASSUME NEW i \in 1 .. Len(m), NEW j \in 1 .. Len(m), m[i] = m[j]
                 PROVE  i = j
    BY DEF Distinct
  <2>2. l[i + n] = l[j + n] /\ i + n \in 1 .. Len(l) /\ j + n \in 1 .. Len(l)
    BY <1>3, <1>4, <1>5, <2>1
  <2>3. i + n = j + n
    BY <2>2 DEF Distinct
  <2>4. QED BY <1>1, <2>3
<1>7. d \subseteq Elems(l)
  BY <1>1 DEF Elems
<1>8. Elems(m) \subseteq Elems(l) \ d
  <2>1. SUFFICES ASSUME NEW i \in 1 .. Len(m) PROVE m[i] \in Elems(l) /\ m[i] \notin d
    BY DEF Elems
  <2>2. m[i] = l[i + n] /\ i + n \in 1 .. Len(l)
    BY <1>3, <1>4, <1>5
  <2>3. ASSUME NEW j \in 1 .. n, l[j] = l[i + n] PROVE FALSE
    <3>1. j \in 1 .. Len(l)
      BY <1>1
    <3>2. j = i + n
      BY <2>2, <2>3, <3>1 DEF Distinct
    <3>3. QED BY <1>1, <1>4, <3>2
  <2>4. QED BY <2>2, <2>3 DEF Elems
<1>9. Elems(l) \ d \subseteq Elems(m)
  <2>1. SUFFICES ASSUME NEW i \in 1 .. Len(l), l[i] \notin d PROVE l[i] \in Elems(m)
    BY DEF Elems
  <2>2. i \notin 1 .. n
    BY <2>1
  <2>3. i - n \in 1 .. Len(m) /\ (i - n) + n = i
    BY <1>1, <1>4, <2>2
  <2>4. m[i - n] = l[i]
    BY <1>5, <2>3
  <2>5. QED BY <2>3, <2>4 DEF Elems
<1>10. n = Len(l) => m = <<>>
  BY <1>4
<1>11. QED BY <1>4, <1>6, <1>7, <1>8, <1>9, <1>10 DEF m, Drop, FirstItems

---------------------------------------------------------------------------
(***************************************************************************)
(* Lists whose items of a set V precede the other items                    *)
(***************************************************************************)

VFirst(l, V) == \A i, j \in 1 .. Len(l) : i < j /\ l[j] \in V => l[i] \in V

\* Only the items of the list matter.
LEMMA VFirstElems ==
  ASSUME NEW l, NEW V, NEW W, VFirst(l, V),
         \A x \in Elems(l) : x \in V <=> x \in W
  PROVE  VFirst(l, W)
<1>1. \A i \in 1 .. Len(l) : l[i] \in V <=> l[i] \in W
  BY DEF Elems
<1>2. QED BY <1>1 DEF VFirst

\* An item outside V may be added behind the others.
LEMMA VFirstInsertTail ==
  ASSUME NEW S, NEW l \in Seq(S), NEW x \in S, NEW V, VFirst(l, V), x \notin V
  PROVE  VFirst(InsertTail(l, x), V)
<1> DEFINE m == InsertTail(l, x)
<1>1. Len(m) = Len(l) + 1 /\ Len(l) \in Nat
  BY DEF InsertTail
<1>2. \A i \in 1 .. Len(l) : m[i] = l[i]
  BY DEF InsertTail
<1>3. m[Len(l) + 1] = x
  BY DEF InsertTail
<1> HIDE DEF m
<1>4. SUFFICES ASSUME NEW i \in 1 .. Len(m), NEW j \in 1 .. Len(m), i < j, m[j] \in V
               PROVE  m[i] \in V
  BY DEF VFirst, m
<1>5. j # Len(l) + 1
  BY <1>3, <1>4
<1>6. i \in 1 .. Len(l) /\ j \in 1 .. Len(l)
  BY <1>1, <1>4, <1>5
<1>7. QED BY <1>2, <1>4, <1>6 DEF VFirst

\* An item of V may be added before the others.
LEMMA VFirstInsertHead ==
  ASSUME NEW S, NEW l \in Seq(S), NEW x \in S, NEW V, VFirst(l, V), x \in V
  PROVE  VFirst(InsertHead(l, x), V)
<1> DEFINE m == InsertHead(l, x)
<1>1. Len(m) = Len(l) + 1 /\ Len(l) \in Nat
  BY DEF InsertHead
<1>2. \A i \in 1 .. Len(l) : m[i + 1] = l[i]
  BY DEF InsertHead
<1>3. m[1] = x
  BY DEF InsertHead
<1> HIDE DEF m
<1>4. SUFFICES ASSUME NEW i \in 1 .. Len(m), NEW j \in 1 .. Len(m), i < j, m[j] \in V
               PROVE  m[i] \in V
  BY DEF VFirst, m
<1>5. CASE i = 1
  BY <1>3, <1>5
<1>6. CASE i # 1
  <2>1. /\ i - 1 \in 1 .. Len(l) /\ j - 1 \in 1 .. Len(l) /\ i - 1 < j - 1
        /\ (i - 1) + 1 = i /\ (j - 1) + 1 = j
    BY <1>1, <1>4, <1>6
  <2>2. m[i] = l[i - 1] /\ m[j] = l[j - 1]
    BY <1>2, <2>1
  <2>3. QED BY <1>4, <2>1, <2>2 DEF VFirst
<1>7. QED BY <1>5, <1>6

\* Unlinking an item does not disturb the order of the others.
LEMMA VFirstRemove ==
  ASSUME NEW S, NEW l \in Seq(S), NEW x, NEW V, VFirst(l, V)
  PROVE  VFirst(Remove(l, x), V)
<1> DEFINE m == Remove(l, x)
           k == IndexOf(l, x)
<1>1. CASE x \notin Elems(l)
  BY <1>1 DEF Remove
<1>2. CASE x \in Elems(l)
  <2>1. k \in 1 .. Len(l)
    BY <1>2 DEF Elems, IndexOf
  <2>2. Len(l) - 1 \in Nat /\ Len(l) \in Nat
    BY <2>1
  <2>3. m = [ i \in 1 .. Len(l) - 1 |-> IF i < k THEN l[i] ELSE l[i + 1] ]
    BY <1>2 DEF Remove
  <2> HIDE DEF m, k
  <2>4. Len(m) = Len(l) - 1
    <3>1. \A i \in 1 .. Len(l) - 1 : i \in 1 .. Len(l) /\ i + 1 \in 1 .. Len(l)
      BY <2>2
    <3>2. m \in [1 .. Len(l) - 1 -> S]
      BY <2>3, <3>1
    <3>3. QED BY <2>2, <3>2, SeqDef, LenProperties
  <2>5. SUFFICES ASSUME NEW i \in 1 .. Len(m), NEW j \in 1 .. Len(m), i < j, m[j] \in V
                 PROVE  m[i] \in V
    BY DEF VFirst, m
  <2> DEFINE at(n) == IF n < k THEN n ELSE n + 1
  <2>6. at(i) \in 1 .. Len(l) /\ at(j) \in 1 .. Len(l) /\ at(i) < at(j)
    BY <2>1, <2>2, <2>4, <2>5
  <2>7. m[i] = l[at(i)] /\ m[j] = l[at(j)]
    BY <2>1, <2>3, <2>4
  <2> HIDE DEF at
  <2>8. QED BY <2>5, <2>6, <2>7 DEF VFirst
<1>3. QED BY <1>1, <1>2

===========================================================================
