----------------------- MODULE MCAggregateRepository -----------------------
(* Instances of AggregateRepository for TLC: two clients on one stream, page *)
(* sizes small enough for a read of several slices and a paged transaction.  *)
EXTENDS AggregateRepository, TLC

CodeInitialVersion == -100
ZeroInitialVersion == 0

\* GetByIdAsync(id, version): refused, shorter than, inside and past a stream.
AskedVersions == {0, 1, 2, 3}

ClientSymmetry == Permutations(Clients)
=============================================================================
