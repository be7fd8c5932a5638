--------------------------- MODULE MCOrderRequests ---------------------------
(* Instances of OrderRequests for TLC: three requests, each for one of two   *)
(* dates, of one recipient.                                                  *)
EXTENDS OrderRequests, TLC

CodeInitialVersion == -100

TwoDays == {1, 2}

RequestSymmetry == Permutations(Requests)
=============================================================================
