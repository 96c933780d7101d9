----------------------------- MODULE DoubleList -----------------------------
(***************************************************************************)
(* Kernel::Double_list, the doubly linked lists of the base-hw kernel      *)
(* (repos/base-hw/src/core/kernel/double_list.{h,cc}), at the level of     *)
(* pointers.  An item carries one pair of links and moves between lists    *)
(* (a claim between the ready and the unready claims, for instance).       *)
(*                                                                         *)
(* The module implements ListSpec.  The caller's part of the contract, to  *)
(* insert unlinked items only and to remove an item only from the list it  *)
(* is in, is what CpuScheduler!ListsConsistent shows for the scheduler.    *)
(*                                                                         *)
(* No name of this module is one of CpuScheduler, so that the proofs about *)
(* the scheduler and its lists, CpuSchedulerProofs, can extend both.       *)
(***************************************************************************)
EXTENDS Naturals, Sequences, FiniteSets

CONSTANTS
  Item,  \* Double_list_item objects
  List,  \* Double_list objects
  Null   \* the null pointer

ASSUME ListAssumption == Null \notin Item \cup List /\ IsFiniteSet(Item)

VARIABLES
  heap,   \* the pointers: _head, _tail of lists, _next, _prev of items
  member  \* history: the list that an item is linked in

listsVars == <<heap, member>>

Pointer == Item \cup {Null}

\* 'crash' stands for an access through the null pointer
Heap == [ head : [List -> Pointer], tail : [List -> Pointer],
          next : [Item -> Pointer], prev : [Item -> Pointer], crash : BOOLEAN ]

SetNext(h, i, p) ==
  IF i = Null THEN [h EXCEPT !.crash = TRUE] ELSE [h EXCEPT !.next[i] = p]

SetPrev(h, i, p) ==
  IF i = Null THEN [h EXCEPT !.crash = TRUE] ELSE [h EXCEPT !.prev[i] = p]

SetLinks(h, i, p, n) == SetNext(SetPrev(h, i, p), i, n)

---------------------------------------------------------------------------
InsertTailPtr(h, l, i) ==
  LET t == h.tail[l]
      a == IF t # Null THEN SetNext(h, t, i) ELSE [h EXCEPT !.head[l] = i]
  IN  [SetLinks(a, i, t, Null) EXCEPT !.tail[l] = i]

InsertHeadPtr(h, l, i) ==
  LET t == h.head[l]
      a == IF t # Null THEN SetPrev(h, t, i) ELSE [h EXCEPT !.tail[l] = i]
  IN  [SetLinks(a, i, Null, t) EXCEPT !.head[l] = i]

\* Mutant: the next item still refers back to the removed one
RemovePtrOneWay(h, l, i) ==
  LET a == IF i = h.tail[l] THEN [h EXCEPT !.tail[l] = h.prev[i]] ELSE h
  IN  IF i = a.head[l] THEN [a EXCEPT !.head[l] = a.next[i]]
      ELSE SetNext(a, a.prev[i], a.next[i])

RemovePtr(h, l, i) ==
  LET a == IF i = h.tail[l] THEN [h EXCEPT !.tail[l] = h.prev[i]]
           ELSE SetPrev(h, h.next[i], h.prev[i])
  IN  IF i = a.head[l] THEN [a EXCEPT !.head[l] = a.next[i]]
      ELSE SetNext(a, a.prev[i], a.next[i])

\* Mutant: the former head keeps its successor
HeadToTailPtrCycle(h, l) ==
  LET f == h.head[l]
      t == h.tail[l]
      n == h.next[f]
  IN  IF f = Null \/ f = t THEN h
      ELSE [SetPrev(SetNext(SetPrev(h, f, t), t, f), n, Null) EXCEPT !.head[l] = n, !.tail[l] = f]

HeadToTailPtr(h, l) ==
  LET f == h.head[l]
      t == h.tail[l]
      n == h.next[f]
      a == SetNext(SetPrev(h, f, t), t, f)
  IN  IF f = Null \/ f = t THEN h
      ELSE SetNext([SetPrev(a, n, Null) EXCEPT !.head[l] = n, !.tail[l] = f], f, Null)

\* _connect_neighbors and _to_tail
ToTailPtr(h, l, i) ==
  LET t == h.tail[l]
      a == SetNext(h, h.prev[i], h.next[i])
      b == SetPrev(a, a.next[i], a.prev[i])
  IN  IF i = h.head[l] THEN HeadToTailPtr(h, l)
      ELSE IF i = t THEN h
      ELSE [SetNext(SetLinks(b, i, t, Null), t, i) EXCEPT !.tail[l] = i]

---------------------------------------------------------------------------
InsertTailStep(l, i) ==
  /\ member[i] = Null
  /\ heap' = InsertTailPtr(heap, l, i)
  /\ member' = [member EXCEPT ![i] = l]

InsertHeadStep(l, i) ==
  /\ member[i] = Null
  /\ heap' = InsertHeadPtr(heap, l, i)
  /\ member' = [member EXCEPT ![i] = l]

RemoveStep(l, i) ==
  /\ member[i] = l
  /\ heap' = RemovePtr(heap, l, i)
  /\ member' = [member EXCEPT ![i] = Null]

ToTailStep(l, i) ==
  /\ member[i] = l
  /\ heap' = ToTailPtr(heap, l, i)
  /\ UNCHANGED member

HeadToTailStep(l) ==
  /\ heap' = HeadToTailPtr(heap, l)
  /\ UNCHANGED member

\* Constructors of the lists and items
InitLists ==
  /\ heap = [ head |-> [l \in List |-> Null], tail |-> [l \in List |-> Null],
              next |-> [i \in Item |-> Null], prev |-> [i \in Item |-> Null],
              crash |-> FALSE ]
  /\ member = [i \in Item |-> Null]

NextLists ==
  \E l \in List :
    \/ \E i \in Item :
         \/ InsertTailStep(l, i)
         \/ InsertHeadStep(l, i)
         \/ RemoveStep(l, i)
         \/ ToTailStep(l, i)
    \/ HeadToTailStep(l)

SpecLists == InitLists /\ [][NextLists]_listsVars

---------------------------------------------------------------------------
(***************************************************************************)
(* Properties                                                              *)
(***************************************************************************)

\* Every variable holds a value of its C++ type.
ListsTypeOK == heap \in Heap /\ member \in [Item -> List \cup {Null}]

\* The items that for_each visits, in order; a cycle shows as a walk that is
\* longer than there are items
Walk(first, link) ==
  LET at[n \in 1 .. Cardinality(Item) + 1] ==
        IF n = 1 THEN first
        ELSE IF at[n - 1] = Null THEN Null ELSE link[at[n - 1]]
      len == CHOOSE n \in 0 .. Cardinality(Item) + 1 :
               /\ \A k \in 1 .. n : at[k] # Null
               /\ n = Cardinality(Item) + 1 \/ at[n + 1] = Null
  IN  [n \in 1 .. len |-> at[n]]

\* Each list reads the same from tail to head as from head to tail, so that
\* the next removal finds its neighbours, and no operation has followed a
\* null pointer, whatever stale links an item brings along from another list.
LinksMirrored ==
  /\ ~heap.crash
  /\ \A l \in List :
       LET f == Walk(heap.head[l], heap.next)
           b == Walk(heap.tail[l], heap.prev)
       IN  Len(f) = Len(b) /\ \A n \in 1 .. Len(f) : f[n] = b[Len(f) + 1 - n]

Abstract == INSTANCE ListSpec WITH
  lists <- [l \in List |-> Walk(heap.head[l], heap.next)]

\* The pointer operations implement the operations on sequences that the
\* model of the CPU scheduler uses.
ImplementsLists == Abstract!Spec

===========================================================================
