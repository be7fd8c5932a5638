------------------------ MODULE AggregateRepository ------------------------
(***************************************************************************)
(* GetEventStoreRepository over an event store, with the AggregateRoot     *)
(* instances its callers hold.  A client (one request thread) either       *)
(* constructs a new aggregate or reads one back slice by slice, raises     *)
(* events on it and saves them, in one append or in a paged transaction,   *)
(* while other clients do the same to the same stream.  Every await of the *)
(* code is a point where the others may move, so each is its own action.   *)
(*                                                                         *)
(* An event records, for the properties only, how its author saw the       *)
(* history: base is the number of stored events in the author's aggregate  *)
(* and offset the event's place among those raised since.                  *)
(***************************************************************************)
EXTENDS AggregateVersioning, Sequences

CONSTANTS
    Clients,        \* callers of the repository
    Aggregates,     \* aggregate identities, one stream each
    ReadPageSize,   \* 500 in the code
    WritePageSize,  \* 500 in the code
    MaxInt,         \* Int32.MaxValue, scaled down
    MaxLong,        \* long.MaxValue, scaled down
    Targets,        \* versions asked for by GetByIdAsync(id, version)
    MaxEvents,      \* bound: events an aggregate may hold
    NoAggregate     \* held by a client that holds no aggregate

ASSUME RepositoryAssumption ==
    /\ ReadPageSize \in Nat \ {0}
    /\ WritePageSize \in Nat \ {0}
    /\ MaxInt \in Nat \ {0} /\ MaxLong \in Nat /\ MaxInt <= MaxLong
    /\ Targets \subseteq Int
    /\ MaxEvents \in Nat
    /\ NoAggregate \notin Aggregates

VARIABLES
    streams,   \* [Aggregates -> Seq(Event)]: what the event store holds
    stage,     \* what each client is doing
    held,      \* identity of the aggregate a client holds
    target,    \* version a client asked GetByIdAsync for
    version,   \* Version of the held aggregate
    applied,   \* stored events the held aggregate reflects
    pending,   \* its uncommitted events
    written    \* events handed to the open transaction

vars == <<streams, stage, held, target, version, applied, pending, written>>

Event == [author : Clients, base : Nat, offset : Nat \ {0}]

Stages == {"idle", "reading", "ready", "writing"}

\* A client that holds an aggregate instance.
Holds(c) == stage[c] # "idle"

Init ==
    /\ streams = [a \in Aggregates |-> <<>>]
    /\ stage = [c \in Clients |-> "idle"]
    /\ held = [c \in Clients |-> NoAggregate]
    /\ target = [c \in Clients |-> MaxLong]
    /\ version = [c \in Clients |-> InitialVersion]
    /\ applied = [c \in Clients |-> <<>>]
    /\ pending = [c \in Clients |-> <<>>]
    /\ written = [c \in Clients |-> 0]

\* An exception reaches the caller, or the caller is done: it lets the
\* aggregate go.
Drop(c) ==
    /\ stage' = [stage EXCEPT ![c] = "idle"]
    /\ held' = [held EXCEPT ![c] = NoAggregate]
    /\ target' = [target EXCEPT ![c] = MaxLong]
    /\ version' = [version EXCEPT ![c] = InitialVersion]
    /\ applied' = [applied EXCEPT ![c] = <<>>]
    /\ pending' = [pending EXCEPT ![c] = <<>>]
    /\ written' = [written EXCEPT ![c] = 0]

-----------------------------------------------------------------------------
(* AggregateRoot *)

\* The event c's aggregate raises next.
NextEvent(c) ==
    [author |-> c, base |-> Len(applied[c]), offset |-> Len(pending[c]) + 1]

\* new Aggregate(command): the constructor sets the version and raises the
\* creation event.
Construct(c, a) ==
    /\ stage[c] = "idle"
    /\ MaxEvents > 0
    /\ stage' = [stage EXCEPT ![c] = "ready"]
    /\ held' = [held EXCEPT ![c] = a]
    /\ version' = [version EXCEPT ![c] = InitialVersion + 1]
    /\ pending' = [pending EXCEPT ![c] =
                      <<[author |-> c, base |-> 0, offset |-> 1]>>]
    /\ UNCHANGED <<streams, target, applied, written>>

\* RaiseEvent: apply, count, and queue the event.
Raise(c) ==
    /\ stage[c] = "ready"
    /\ Len(applied[c]) + Len(pending[c]) < MaxEvents
    /\ version' = [version EXCEPT ![c] = @ + 1]
    /\ pending' = [pending EXCEPT ![c] = Append(@, NextEvent(c))]
    /\ UNCHANGED <<streams, stage, held, target, applied, written>>

-----------------------------------------------------------------------------
(* GetByIdAsync *)

\* Mutant: the version asked for is not checked.
BeginReadUnchecked(c, a, v) ==
    /\ stage[c] = "idle"
    /\ stage' = [stage EXCEPT ![c] = "reading"]
    /\ held' = [held EXCEPT ![c] = a]
    /\ target' = [target EXCEPT ![c] = v]
    /\ UNCHANGED <<streams, version, applied, pending, written>>

\* A version of 0 or less is refused; else the aggregate is built and the
\* first slice is asked for.
BeginRead(c, a, v) ==
    /\ stage[c] = "idle"
    /\ v > 0
    /\ stage' = [stage EXCEPT ![c] = "reading"]
    /\ held' = [held EXCEPT ![c] = a]
    /\ target' = [target EXCEPT ![c] = v]
    /\ UNCHANGED <<streams, version, applied, pending, written>>

\* How many events the next slice asks for, from event number start.
SliceCount(start, v) ==
    IF start + ReadPageSize <= v THEN ReadPageSize ELSE v - start + 1

\* Mutant: a further slice starts at the event the last one ended with.
SliceOverlapping(s, start, v) ==
    LET last == start + SliceCount(start, v)
    IN  SubSeq(s, IF start = 0 THEN 1 ELSE start, IF last < Len(s) THEN last ELSE Len(s))

\* The slice of stream s that starts at event number start.
Slice(s, start, v) ==
    LET last == start + SliceCount(start, v)
    IN  SubSeq(s, start + 1, IF last < Len(s) THEN last ELSE Len(s))

\* Mutant: any later version will do.
VersionMatchesLater(n, v) == n >= v \/ ~(v < MaxInt)

\* The version check that ends GetByIdAsync.
VersionMatches(n, v) == n = v \/ ~(v < MaxInt)

\* The slice c's read receives now, and where the stream goes on after it.
NextSlice(c) == Slice(streams[held[c]], Len(applied[c]), target[c])
NextEventNumber(c) == Len(applied[c]) + Len(NextSlice(c))

\* The loop asks for a further slice.
ReadsOn(c) ==
    /\ target[c] >= NextEventNumber(c)
    /\ NextEventNumber(c) < Len(streams[held[c]])

\* A slice arrives and its events are applied; after the last one the caller
\* gets the aggregate.
ReadSlice(c) ==
    /\ stage[c] = "reading"
    /\ streams[held[c]] # <<>>
    /\ ReadsOn(c) \/ VersionMatches(version[c] + Len(NextSlice(c)), target[c])
    /\ applied' = [applied EXCEPT ![c] = @ \o NextSlice(c)]
    /\ version' = [version EXCEPT ![c] = @ + Len(NextSlice(c))]
    /\ stage' = [stage EXCEPT ![c] = IF ReadsOn(c) THEN "reading" ELSE "ready"]
    /\ UNCHANGED <<streams, held, target, pending, written>>

\* AggregateNotFoundException for a missing stream, AggregateVersionException
\* when the events read do not lead to the version asked for.
ReadFails(c) ==
    /\ stage[c] = "reading"
    /\ \/ streams[held[c]] = <<>>
       \/ /\ ~ReadsOn(c)
          /\ ~VersionMatches(version[c] + Len(NextSlice(c)), target[c])
    /\ Drop(c)
    /\ UNCHANGED streams

-----------------------------------------------------------------------------
(* SaveAsync *)

\* Mutant: SaveAsync sends ExpectedVersion.Any.
StreamAcceptsAny(c) == TRUE

\* The event store takes c's uncommitted events, if the expected version fits.
StreamAccepts(c) ==
    Accepts(Len(streams[held[c]]), ExpectedVersion(version[c], Len(pending[c])))

\* What the store has been handed: every event by an append, by a transaction
\* the pages written to it.
Handed(c) ==
    IF stage[c] = "writing" /\ written[c] < Len(pending[c])
    THEN SubSeq(pending[c], 1, written[c])
    ELSE pending[c]

Store(c) == streams' = [streams EXCEPT ![held[c]] = @ \o Handed(c)]

\* ClearUncommittedEvents, once the store has answered.
Committed(c) ==
    /\ applied' = [applied EXCEPT ![c] = @ \o pending[c]]
    /\ pending' = [pending EXCEPT ![c] = <<>>]
    /\ written' = [written EXCEPT ![c] = 0]
    /\ stage' = [stage EXCEPT ![c] = "ready"]
    /\ UNCHANGED <<held, target, version>>

\* The save can go to the store: in one append below the page size, or when
\* every page of the transaction has been written.
ReadyToStore(c) ==
    /\ pending[c] # <<>>
    /\ \/ stage[c] = "ready" /\ Len(pending[c]) < WritePageSize
       \/ stage[c] = "writing" /\ written[c] >= Len(pending[c])

\* StartTransactionAsync.
StartTransaction(c) ==
    /\ stage[c] = "ready"
    /\ Len(pending[c]) >= WritePageSize
    /\ stage' = [stage EXCEPT ![c] = "writing"]
    /\ written' = [written EXCEPT ![c] = 0]
    /\ UNCHANGED <<streams, held, target, version, applied, pending>>

\* transaction.WriteAsync of one page; nothing is visible before the commit.
WritePage(c) ==
    /\ stage[c] = "writing"
    /\ written[c] < Len(pending[c])
    /\ written' = [written EXCEPT ![c] = @ + WritePageSize]
    /\ UNCHANGED <<streams, stage, held, target, version, applied, pending>>

\* AppendToStreamAsync or CommitAsync succeeds.
SaveAccepted(c) ==
    /\ ReadyToStore(c)
    /\ StreamAccepts(c)
    /\ Store(c)
    /\ Committed(c)

\* A save that throws leaves the aggregate with its uncommitted events: the
\* caller may go on with it, and save it again.
StaysUncommitted(c) ==
    /\ stage' = [stage EXCEPT ![c] = "ready"]
    /\ written' = [written EXCEPT ![c] = 0]
    /\ UNCHANGED <<held, target, version, applied, pending>>

\* WrongExpectedVersionException.
SaveRefused(c) ==
    /\ ReadyToStore(c)
    /\ ~StreamAccepts(c)
    /\ Drop(c) \/ StaysUncommitted(c)
    /\ UNCHANGED streams

\* The store took the events but the answer was lost: the caller sees a failure.
SaveUnanswered(c) ==
    /\ ReadyToStore(c)
    /\ StreamAccepts(c)
    /\ Store(c)
    /\ Drop(c) \/ StaysUncommitted(c)

\* The connection fails between two pages; the transaction is never committed.
TransactionFails(c) ==
    /\ stage[c] = "writing"
    /\ StaysUncommitted(c)
    /\ UNCHANGED streams

\* The connection or the process fails, or the caller simply lets the
\* aggregate go; an open transaction is never committed.
Abandon(c) ==
    /\ Holds(c)
    /\ Drop(c)
    /\ UNCHANGED streams

-----------------------------------------------------------------------------
ClientStep(c) ==
    \/ \E a \in Aggregates : Construct(c, a)
    \/ \E a \in Aggregates, v \in Targets \cup {MaxLong} : BeginRead(c, a, v)
    \/ ReadSlice(c)
    \/ ReadFails(c)
    \/ Raise(c)
    \/ StartTransaction(c)
    \/ WritePage(c)
    \/ SaveAccepted(c)
    \/ SaveRefused(c)
    \/ SaveUnanswered(c)
    \/ TransactionFails(c)
    \/ Abandon(c)

Next == \E c \in Clients : ClientStep(c)

Spec == Init /\ [][Next]_vars

-----------------------------------------------------------------------------
(* Properties *)

TypeOK ==
    /\ streams \in [Aggregates -> Seq(Event)]
    /\ stage \in [Clients -> Stages]
    /\ held \in [Clients -> Aggregates \cup {NoAggregate}]
    /\ \A c \in Clients : Holds(c) => held[c] \in Aggregates
    /\ target \in [Clients -> Nat \ {0}]
    /\ version \in [Clients -> Int]
    /\ applied \in [Clients -> Seq(Event)]
    /\ pending \in [Clients -> Seq(Event)]
    /\ written \in [Clients -> Nat]

\* Every stored event stands exactly where its author's view of the history
\* ended, and the events of one save stand together in the order raised: no
\* save of GetEventStoreRepository lands on events its aggregate has not seen.
NoLostUpdate ==
    \A a \in Aggregates : \A i \in DOMAIN streams[a] :
        LET e == streams[a][i]
        IN  /\ e.base + e.offset = i
            /\ e.offset > 1 =>
                  /\ streams[a][i - 1].author = e.author
                  /\ streams[a][i - 1].base = e.base

\* What a reader or a successful writer holds is the stored history from its
\* first event on, whatever was appended between two slices of its read.
AppliedIsPrefix ==
    \A c \in Clients : Holds(c) =>
        /\ Len(applied[c]) <= Len(streams[held[c]])
        /\ \A i \in 1..Len(applied[c]) : applied[c][i] = streams[held[c]][i]

\* With any initial version but 0 (the code's is -100) a stream only ever
\* holds the events of the save that created it: no aggregate read back from
\* the store can be saved again.
OneSavePerStream ==
    InitialVersion # 0 =>
        \A a \in Aggregates : \A i \in DOMAIN streams[a] : streams[a][i].base = 0

\* A read ends where it was asked to: GetByIdAsync(id, version) hands out an
\* aggregate only with as many events as lead to that version, and a read that
\* is not stopped by a version has all the stream holds when its last slice
\* arrives, however many slices it took and whatever was appended meanwhile.
ReadsEndAsAsked ==
    [][\A c \in Clients : stage[c] = "reading" /\ stage'[c] = "ready" =>
          /\ target[c] < MaxInt => Len(applied'[c]) = target[c] - InitialVersion
          /\ target[c] >= Len(streams[held[c]])
                => Len(applied'[c]) = Len(streams[held[c]])]_vars

\* What IRepository promises of GetById(id, version): the aggregate at that
\* version is obtained from any stream that has so many events, that is, the
\* version check passes when the last slice arrives.
VersionsCanBeRead ==
    \A c \in Clients :
        /\ stage[c] = "reading"
        /\ target[c] <= Len(streams[held[c]])
        /\ ~ReadsOn(c)
        => VersionMatches(version[c] + Len(NextSlice(c)), target[c])

\* An aggregate that has seen the whole stream is saved: the expected version
\* SaveAsync computes is the one the store wants.
UpToDateSaveAccepted ==
    \A c \in Clients :
        /\ stage[c] = "ready"
        /\ pending[c] # <<>>
        /\ Len(applied[c]) = Len(streams[held[c]])
        => StreamAccepts(c)
=============================================================================
