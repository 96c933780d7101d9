------------------------------ MODULE ListSpec ------------------------------
(***************************************************************************)
(* What Kernel::Double_list promises: lists that share a set of items, of  *)
(* which each is in one list at most.  The CPU scheduler works on these    *)
(* operations (module CpuScheduler).                                       *)
(***************************************************************************)
EXTENDS KernelList

CONSTANTS Item, List

VARIABLE lists

Linked == UNION { Elems(lists[l]) : l \in List }

Init == lists = [l \in List |-> <<>>]

Insert(l, i) ==
  /\ i \notin Linked
  /\ \/ lists' = [lists EXCEPT ![l] = InsertTail(@, i)]
     \/ lists' = [lists EXCEPT ![l] = InsertHead(@, i)]

Reorder(l, i) ==
  /\ i \in Elems(lists[l])
  /\ \/ lists' = [lists EXCEPT ![l] = Remove(@, i)]
     \/ lists' = [lists EXCEPT ![l] = ToTail(@, i)]
     \/ lists' = [lists EXCEPT ![l] = HeadToTail(@)]

Next == \E l \in List, i \in Item : Insert(l, i) \/ Reorder(l, i)

Spec == Init /\ [][Next]_lists

===========================================================================
