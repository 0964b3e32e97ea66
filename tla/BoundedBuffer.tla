----------------------------- MODULE BoundedBuffer -----------------------------
(****************************************************************************)
(* What the queue of the asynchronous logger promises: a first-in first-out *)
(* buffer of at most Capacity items; an item put into a full buffer drives  *)
(* out the oldest one.  No ring and no indices.                             *)
(****************************************************************************)
EXTENDS Naturals, Sequences

CONSTANTS
  Item,
  Capacity    \* at least one

VARIABLE items

Init == items = <<>>

Put(item) ==
  /\ Len(items) < Capacity
  /\ items' = Append(items, item)

DriveOut(item) ==
  /\ Len(items) = Capacity
  /\ items' = Append(Tail(items), item)

Take ==
  /\ items # <<>>
  /\ items' = Tail(items)

Next == Take \/ \E item \in Item : Put(item) \/ DriveOut(item)

Spec == Init /\ [][Next]_items
===============================================================================
