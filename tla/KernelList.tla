---------------------------- MODULE KernelList ----------------------------
(***************************************************************************)
(* The two intrusive queues of the base-hw kernel as sequences without     *)
(* duplicates: Kernel::Double_list (CPU scheduler, domain updates) and     *)
(* Genode::Fifo (IPC requests, signal handlers and contexts).  An item is  *)
(* in at most one position because its link pointers are members of it.    *)
(* Module DoubleList shows that the pointer manipulation of Double_list    *)
(* implements these operators.                                             *)
(*                                                                         *)
(* The operators are written with explicit indices (no recursion), so that *)
(* the lemmas of KernelListProofs can be proved about them.                *)
(***************************************************************************)
EXTENDS Naturals, Sequences

\* The items of a list
Elems(l) == { l[i] : i \in 1 .. Len(l) }

\* No item is linked twice
Distinct(l) == \A i, j \in 1 .. Len(l) : l[i] = l[j] => i = j

\* The position of item x in a list that contains it
IndexOf(l, x) == CHOOSE i \in 1 .. Len(l) : l[i] = x

InsertTail(l, x) == Append(l, x)

InsertHead(l, x) == <<x>> \o l

\* Unlink item x; Fifo::remove ignores an item that is not in the queue
Remove(l, x) ==
  IF x \in Elems(l)
  THEN [ i \in 1 .. Len(l) - 1 |-> IF i < IndexOf(l, x) THEN l[i] ELSE l[i + 1] ]
  ELSE l

ToTail(l, x) == InsertTail(Remove(l, x), x)

HeadToTail(l) == IF l = <<>> THEN l ELSE InsertTail(Tail(l), Head(l))

===========================================================================
