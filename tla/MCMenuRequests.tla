---------------------------- MODULE MCMenuRequests ----------------------------
(* Instances of MenuRequests for TLC: three requests about one item of each   *)
(* class and two dates.                                                       *)
EXTENDS MenuRequests, TLC

CodeInitialVersion == -100

TwoDates == {1, 2}

MondayAndSaturday == {1, 6}

\* A server in UTC or east of it: a local midnight may be the day before.
UtcOrEast == {-1, 0}

ClassOfItem ==
    [b1 |-> "Bread", o1 |-> "MenuOption", p1 |-> "LunchProvider",
     f1 |-> "Filling", g1 |-> "MenuCategory", c1 |-> "Calendar"]

RequestSymmetry == Permutations(Requests)
=============================================================================
