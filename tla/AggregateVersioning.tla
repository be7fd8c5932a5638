------------------------ MODULE AggregateVersioning ------------------------
(***************************************************************************)
(* The version arithmetic that AggregateRoot, GetEventStoreRepository and  *)
(* the command validators share.  An aggregate starts at InitialVersion    *)
(* and gains one per event applied; SaveAsync turns that number into the   *)
(* event number the stream must end in, and the validators use it to tell  *)
(* a new aggregate from an old one.  The code sets InitialVersion to -100. *)
(***************************************************************************)
EXTENDS Integers

CONSTANT InitialVersion   \* Version given by the AggregateRoot constructor

ASSUME InitialVersionAssumption == InitialVersion \in Int

\* ExpectedVersion.NoStream of the event-store client: the stream must not exist.
NoStream == -1

\* Mutant: versions are counted from the initial version.
OriginalVersionRelative(version, count) == version - InitialVersion - count - 1

\* Mutant: the version is that of the last event, as in an array.
OriginalVersionOfLast(version, count) == version - count

\* The event number SaveAsync believes the stream ended in when the aggregate
\* was read, given the aggregate's version and its count of uncommitted events.
OriginalVersion(version, count) == version - count - 1

\* The expected version SaveAsync sends with the append.
ExpectedVersion(version, count) ==
    IF OriginalVersion(version, count) < 0
    THEN NoStream
    ELSE OriginalVersion(version, count)

\* The event store appends only when the last event number of the stream
\* (-1 when there is no stream) is the expected one.
Accepts(length, expected) == length - 1 = expected

\* The creation validators refuse an aggregate that looks as if it has a past.
LooksNew(version) == ~(version > 0)
=============================================================================
