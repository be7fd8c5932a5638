------------------------- MODULE MCOrderDenormalizer -------------------------
(* Instances of OrderDenormalizer for TLC.  One slot stands for all three:   *)
(* the handlers treat them alike.                                            *)
EXTENDS OrderDenormalizer, TLC

FillingOnly == {"filling"}
StartedEarly == {"order", "filling"}

EventStoreRestarts == {"stop", "crash", "rewind"}
EverythingFails == {"stop", "crash", "late", "rewind", "timeout"}

OrderSymmetry == Permutations(Orders)
DaemonSymmetry == Permutations(Daemons)
=============================================================================
