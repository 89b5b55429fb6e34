----------------------------- MODULE MCSpinlock -----------------------------
(* An instance of Spinlock for TLC. *)
EXTENDS Spinlock, TLC

CONSTANTS c1, c2, l1, l2

(* two harts, locks nested in one global order *)
OrderedNesting == {<<l1, l2>>}

Symmetry == Permutations({c1, c2})
=============================================================================
