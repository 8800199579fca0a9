---------------------------- MODULE MCCancellation ----------------------------
(* A root, a child with a child of its own, and a second child.             *)
EXTENDS Cancellation

CONSTANTS root, child, leaf, sibling, w1, w2, k1, k2

Tree      == {root, child, leaf, sibling}
TreeUp    == [t \in Tree |-> CASE t = root -> NoToken [] t = leaf -> child [] OTHER -> root]
TreeChain == [t \in Tree |-> CASE t = root -> {root}
                               [] t = leaf -> {leaf, child, root}
                               [] OTHER    -> {t, root}]
TwoWaiters   == {w1, w2}
OneWaiter    == {w1}
OnTree    == [w \in Waiters |-> CASE w = w1 -> leaf [] w = w2 -> child]
TwoThreads == {k1, k2}
OneThread  == {k1}
OnRoot     == [w \in Waiters |-> root]
=============================================================================
