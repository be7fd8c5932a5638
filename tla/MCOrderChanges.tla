--------------------------- MODULE MCOrderChanges ---------------------------
(* Instance of OrderChanges for TLC: one order, a bread, a menu option, a     *)
(* filling that allows neither with it and one that allows both.              *)
EXTENDS OrderChanges, TLC

InitialVersionOfZero == 0

AllSlots == Adds

ClassOfItem == [b1 |-> "bread", f1 |-> "filling", f2 |-> "filling", m1 |-> "option"]

BarsOfItem == [b1 |-> {}, f1 |-> {"bread", "option"}, f2 |-> {}, m1 |-> {}]

RequestSymmetry == Permutations(Requests)
=============================================================================
