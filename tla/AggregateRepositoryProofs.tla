---------------------- MODULE AggregateRepositoryProofs ----------------------
(***************************************************************************)
(* Proofs about AggregateRepository for every InitialVersion, every set of *)
(* clients and aggregates and every page size.                             *)
(***************************************************************************)
EXTENDS AggregateRepository, SequenceTheorems, TLAPS

\* A client without an aggregate has nothing applied or queued, and one that
\* is still reading has queued nothing.
IdleIsEmpty ==
    \A c \in Clients :
        /\ stage[c] = "idle" => applied[c] = <<>>
        /\ stage[c] \in {"idle", "reading"} => pending[c] = <<>>

\* Version counts, from InitialVersion, every event applied to the instance.
VersionCounts ==
    \A c \in Clients :
        version[c] = InitialVersion + Len(applied[c]) + Len(pending[c])

\* The queue holds the client's own events, raised one after the other on the
\* history it has applied.
PendingFollowsApplied ==
    \A c \in Clients : \A j \in 1..Len(pending[c]) :
        pending[c][j] = [author |-> c, base |-> Len(applied[c]), offset |-> j]

\* A positive initial version makes every save expect a stream that exists.
NothingStoredAbove ==
    InitialVersion > 0 => \A a \in Aggregates : streams[a] = <<>>

\* The inductive invariant.  NoLostUpdate needs VersionCounts, which links the
\* expected version of a save to the events its aggregate has applied, and
\* AppliedIsPrefix, which bounds those by the length of the stream.
IInv ==
    /\ TypeOK
    /\ IdleIsEmpty
    /\ VersionCounts
    /\ PendingFollowsApplied
    /\ NothingStoredAbove
    /\ AppliedIsPrefix
    /\ NoLostUpdate
    /\ OneSavePerStream

-----------------------------------------------------------------------------
(* Lemmas about the operators of a read and of a save *)

\* A slice is the run of stored events that follows event number start.
LEMMA SliceProperties ==
    ASSUME NEW s \in Seq(Event), NEW start \in Nat, NEW v \in Int
    PROVE  /\ Slice(s, start, v) \in Seq(Event)
           /\ start <= Len(s) => start + Len(Slice(s, start, v)) <= Len(s)
           /\ \A i \in 1..Len(Slice(s, start, v)) :
                  Slice(s, start, v)[i] = s[start + i]
<1> DEFINE last == start + SliceCount(start, v)
           end == IF last < Len(s) THEN last ELSE Len(s)
<1>1. /\ Len(s) \in Nat
      /\ \A i \in 1..Len(s) : s[i] \in Event
  BY LenProperties, ElementOfSeq
<1>2. last \in Int
  BY RepositoryAssumption DEF SliceCount
<1>3. end \in Int /\ end <= Len(s)
  BY <1>1, <1>2
<1>4. \A i \in (start + 1)..end : s[i] \in Event
  BY <1>1, <1>3
<1> HIDE DEF end
<1>5. /\ SubSeq(s, start + 1, end) \in Seq(Event)
      /\ Len(SubSeq(s, start + 1, end)) =
            IF start + 1 <= end THEN end - (start + 1) + 1 ELSE 0
      /\ \A i \in 1..(end - (start + 1) + 1) :
            SubSeq(s, start + 1, end)[i] = s[(start + 1) + i - 1]
  BY <1>3, <1>4, SubSeqProperties
<1>6. Slice(s, start, v) = SubSeq(s, start + 1, end)
  BY DEF Slice, end
<1>7. \A i \in 1..Len(SubSeq(s, start + 1, end)) :
          SubSeq(s, start + 1, end)[i] = s[start + i]
  BY <1>3, <1>5
<1>8. start <= Len(s) => start + Len(SubSeq(s, start + 1, end)) <= Len(s)
  BY <1>1, <1>3, <1>5
<1> QED
  BY <1>5, <1>6, <1>7, <1>8

\* A save that goes to the store has handed over every uncommitted event.
LEMMA HandedIsPending ==
    ASSUME IInv, NEW c \in Clients, ReadyToStore(c)
    PROVE  Handed(c) = pending[c]
<1>1. ~(stage[c] = "writing" /\ written[c] < Len(pending[c]))
  <2>1. CASE stage[c] = "ready"
    BY <2>1
  <2>2. CASE written[c] >= Len(pending[c])
    <3>1. written[c] \in Nat /\ Len(pending[c]) \in Nat
      BY LenProperties DEF IInv, TypeOK
    <3> QED
      BY <2>2, <3>1
  <2> QED
    BY <2>1, <2>2 DEF ReadyToStore
<1> QED
  BY <1>1 DEF Handed

\* The store takes a save only from an aggregate that has applied the whole
\* stream; with an initial version other than 0, only on an empty stream.
LEMMA AcceptedSaveHasSeenAll ==
    ASSUME IInv, NEW c \in Clients, Holds(c), pending[c] # <<>>, StreamAccepts(c)
    PROVE  /\ Len(applied[c]) = Len(streams[held[c]])
           /\ InitialVersion # 0 => Len(streams[held[c]]) = 0
           /\ InitialVersion <= 0
<1> DEFINE n == Len(applied[c])
           k == Len(pending[c])
           L == Len(streams[held[c]])
<1>1. held[c] \in Aggregates
  BY DEF IInv, TypeOK
<1>2. n \in Nat /\ k \in Nat /\ L \in Nat
  BY <1>1, LenProperties DEF IInv, TypeOK
<1>3. n <= L
  BY DEF IInv, AppliedIsPrefix
<1>4. version[c] = InitialVersion + n + k
  BY DEF IInv, VersionCounts
<1>5. InitialVersion > 0 => L = 0
  BY <1>1, EmptySeq DEF IInv, NothingStoredAbove
<1>6. L - 1 = IF InitialVersion + n - 1 < 0 THEN -1 ELSE InitialVersion + n - 1
  <2> HIDE DEF n, k, L
  <2>1. OriginalVersion(version[c], k) = InitialVersion + n - 1
    BY <1>2, <1>4, InitialVersionAssumption DEF OriginalVersion
  <2>2. L - 1 = ExpectedVersion(version[c], k)
    BY DEF StreamAccepts, Accepts, L, k
  <2> QED
    BY <2>1, <2>2 DEF ExpectedVersion, NoStream
<1> HIDE DEF n, k, L
<1>7. n = L /\ (InitialVersion # 0 => L = 0) /\ InitialVersion <= 0
  BY <1>2, <1>3, <1>5, <1>6, InitialVersionAssumption
<1> QED
  BY <1>7 DEF n, L

\* Storing c's uncommitted events keeps what is said of the streams, and every
\* stored event stays where it is.
LEMMA StoreKeepsStreams ==
    ASSUME IInv, NEW c \in Clients, ReadyToStore(c), StreamAccepts(c), Store(c)
    PROVE  /\ streams' \in [Aggregates -> Seq(Event)]
           /\ held[c] \in Aggregates
           /\ streams'[held[c]] = streams[held[c]] \o pending[c]
           /\ \A a \in Aggregates :
                  /\ Len(streams[a]) <= Len(streams'[a])
                  /\ \A i \in 1..Len(streams[a]) : streams'[a][i] = streams[a][i]
           /\ NoLostUpdate'
           /\ OneSavePerStream'
           /\ NothingStoredAbove'
<1> DEFINE b == held[c]
           n == Len(applied[c])
           k == Len(pending[c])
           L == Len(streams[b])
           new == streams[b] \o pending[c]
<1>1. /\ Holds(c)
      /\ pending[c] # <<>>
  BY DEF ReadyToStore, Holds
<1>2. b \in Aggregates /\ streams[b] \in Seq(Event) /\ pending[c] \in Seq(Event)
  BY <1>1 DEF IInv, TypeOK
<1>3. n = L /\ (InitialVersion # 0 => L = 0) /\ InitialVersion <= 0
  BY <1>1, AcceptedSaveHasSeenAll
<1>4. n \in Nat /\ k \in Nat /\ L \in Nat
  BY <1>2, LenProperties DEF IInv, TypeOK
<1>5. /\ new \in Seq(Event)
      /\ Len(new) = L + k
      /\ \A i \in 1..(L + k) : new[i] =
             IF i <= L THEN streams[b][i] ELSE pending[c][i - L]
  BY <1>2, ConcatProperties
<1>6. /\ streams' = [streams EXCEPT ![b] = new]
      /\ streams \in [Aggregates -> Seq(Event)]
  BY HandedIsPending DEF Store, IInv, TypeOK
<1>7. /\ streams' \in [Aggregates -> Seq(Event)]
      /\ streams'[b] = new
      /\ \A a \in Aggregates : a # b => streams'[a] = streams[a]
  BY <1>2, <1>5, <1>6
<1>8. \A j \in 1..k : pending[c][j] = [author |-> c, base |-> n, offset |-> j]
  BY DEF IInv, PendingFollowsApplied
<1> HIDE DEF b, n, k, L, new
<1>9. ASSUME NEW a \in Aggregates
      PROVE  /\ Len(streams[a]) <= Len(streams'[a])
             /\ \A i \in 1..Len(streams[a]) : streams'[a][i] = streams[a][i]
  <2>1. CASE a = b
    BY <2>1, <1>4, <1>5, <1>7 DEF L
  <2>2. CASE a # b
    BY <2>2, <1>7, LenProperties DEF IInv, TypeOK
  <2> QED
    BY <2>1, <2>2
<1>10. DOMAIN streams'[b] = 1..(L + k)
  BY <1>5, <1>7, LenProperties
<1>11. \A i \in 1..L : /\ i \in DOMAIN streams[b]
                       /\ streams'[b][i] = streams[b][i]
  BY <1>2, <1>9, LenProperties DEF L
<1>12. \A i \in (L + 1)..(L + k) :
           streams'[b][i] = [author |-> c, base |-> n, offset |-> i - L]
  BY <1>4, <1>5, <1>7, <1>8
<1>13. NoLostUpdate'
  <2> SUFFICES ASSUME NEW a \in Aggregates, NEW i \in DOMAIN streams'[a]
               PROVE  LET e == streams'[a][i]
                      IN  /\ e.base + e.offset = i
                          /\ e.offset > 1 =>
                                /\ streams'[a][i - 1].author = e.author
                                /\ streams'[a][i - 1].base = e.base
    BY DEF NoLostUpdate
  <2>1. CASE a # b
    BY <2>1, <1>7 DEF IInv, NoLostUpdate
  <2>2. CASE a = b /\ i \in 1..L
    <3>1. /\ streams[b][i].base + streams[b][i].offset = i
          /\ streams[b][i].offset > 1 =>
                /\ streams[b][i - 1].author = streams[b][i].author
                /\ streams[b][i - 1].base = streams[b][i].base
      BY <2>2, <1>2, <1>11 DEF IInv, NoLostUpdate
    <3>2. streams[b][i] \in Event
      BY <2>2, <1>2, ElementOfSeq DEF L
    <3>3. streams[b][i].base \in Nat /\ streams[b][i].offset \in Nat \ {0}
      BY <3>2 DEF Event
    <3>4. streams[b][i].offset > 1 => i - 1 \in 1..L
      BY <3>1, <3>3, <2>2, <1>4
    <3> QED
      BY <3>1, <3>4, <2>2, <1>11
  <2>3. CASE a = b /\ i \in (L + 1)..(L + k)
    <3>1. streams'[b][i] = [author |-> c, base |-> n, offset |-> i - L]
      BY <2>3, <1>12
    <3>2. i - L > 1 => i - 1 \in (L + 1)..(L + k)
      BY <2>3, <1>4
    <3>3. i - L > 1 =>
              streams'[b][i - 1] = [author |-> c, base |-> n, offset |-> i - 1 - L]
      BY <3>2, <1>12
    <3>4. n + (i - L) = i
      BY <2>3, <1>3, <1>4
    <3> QED
      BY <3>1, <3>3, <3>4, <2>3
  <2> QED
    BY <2>1, <2>2, <2>3, <1>4, <1>10
<1>14. OneSavePerStream'
  <2> SUFFICES ASSUME InitialVersion # 0,
                      NEW a \in Aggregates, NEW i \in DOMAIN streams'[a]
               PROVE  streams'[a][i].base = 0
    BY DEF OneSavePerStream
  <2>1. CASE a # b
    BY <2>1, <1>7 DEF IInv, OneSavePerStream
  <2>2. CASE a = b
    <3>1. i \in (L + 1)..(L + k) /\ n = 0
      BY <2>2, <1>3, <1>4, <1>10
    <3>2. streams'[b][i] = [author |-> c, base |-> n, offset |-> i - L]
      BY <3>1, <1>12
    <3> QED
      BY <3>1, <3>2, <2>2
  <2> QED
    BY <2>1, <2>2
<1>15. NothingStoredAbove'
  BY <1>3, InitialVersionAssumption DEF NothingStoredAbove
<1> QED
  BY <1>2, <1>7, <1>9, <1>13, <1>14, <1>15 DEF b, new

-----------------------------------------------------------------------------
(* The inductive invariant holds initially and every step keeps it *)

\* What IInv says of the clients.
ClientInv ==
    /\ TypeOK
    /\ IdleIsEmpty
    /\ VersionCounts
    /\ PendingFollowsApplied
    /\ AppliedIsPrefix

\* Streams are only ever added to.
StreamsGrow ==
    /\ streams' \in [Aggregates -> Seq(Event)]
    /\ \A a \in Aggregates :
          /\ Len(streams[a]) <= Len(streams'[a])
          /\ \A i \in 1..Len(streams[a]) : streams'[a][i] = streams[a][i]

LEMMA UnchangedStreams ==
    ASSUME IInv, UNCHANGED streams
    PROVE  StreamsGrow /\ NoLostUpdate' /\ OneSavePerStream' /\ NothingStoredAbove'
<1>1. \A a \in Aggregates : Len(streams[a]) \in Nat
  BY LenProperties DEF IInv, TypeOK
<1>2. StreamsGrow
  BY <1>1 DEF IInv, TypeOK, StreamsGrow
<1>3. NoLostUpdate' /\ OneSavePerStream' /\ NothingStoredAbove'
  BY DEF IInv, NoLostUpdate, OneSavePerStream, NothingStoredAbove
<1> QED
  BY <1>2, <1>3

\* A prefix of a stream stays one when streams grow.
LEMMA PrefixStays ==
    ASSUME IInv, StreamsGrow, NEW d \in Clients, Holds(d)
    PROVE  /\ Len(applied[d]) <= Len(streams'[held[d]])
           /\ \A i \in 1..Len(applied[d]) : applied[d][i] = streams'[held[d]][i]
<1>1. held[d] \in Aggregates
  BY DEF IInv, TypeOK
<1>2. /\ Len(applied[d]) <= Len(streams[held[d]])
      /\ \A i \in 1..Len(applied[d]) : applied[d][i] = streams[held[d]][i]
  BY DEF IInv, AppliedIsPrefix
<1>3. /\ Len(streams[held[d]]) <= Len(streams'[held[d]])
      /\ \A i \in 1..Len(streams[held[d]]) :
            streams'[held[d]][i] = streams[held[d]][i]
  BY <1>1 DEF StreamsGrow
<1>4. /\ Len(applied[d]) \in Nat
      /\ Len(streams[held[d]]) \in Nat
      /\ Len(streams'[held[d]]) \in Nat
  BY <1>1, LenProperties DEF IInv, TypeOK, StreamsGrow
<1> QED
  BY <1>2, <1>3, <1>4

\* Letting an aggregate go keeps what is said of the clients.
LEMMA DropKeepsClients ==
    ASSUME IInv, NEW c \in Clients, Drop(c), StreamsGrow
    PROVE  ClientInv'
<1> USE InitialVersionAssumption, RepositoryAssumption
<1>1. TypeOK'
  <2>1. <<>> \in Seq(Event)
    BY EmptySeq
  <2> QED
    BY <2>1 DEF IInv, TypeOK, Drop, StreamsGrow, Holds, Stages
<1>2. IdleIsEmpty'
  BY DEF IInv, TypeOK, IdleIsEmpty, Drop
<1>3. VersionCounts'
  <2>1. Len(<<>>) = 0
    BY EmptySeq
  <2> QED
    BY <2>1 DEF IInv, TypeOK, VersionCounts, Drop
<1>4. PendingFollowsApplied'
  <2>1. Len(<<>>) = 0
    BY EmptySeq
  <2> QED
    BY <2>1 DEF IInv, TypeOK, PendingFollowsApplied, Drop
<1>5. AppliedIsPrefix'
  <2> SUFFICES ASSUME NEW d \in Clients, Holds(d)'
               PROVE  /\ Len(applied'[d]) <= Len(streams'[held'[d]])
                      /\ \A i \in 1..Len(applied'[d]) :
                            applied'[d][i] = streams'[held'[d]][i]
    BY DEF AppliedIsPrefix
  <2>1. d # c
    BY DEF Holds, Drop, IInv, TypeOK
  <2>2. Holds(d) /\ applied'[d] = applied[d] /\ held'[d] = held[d]
    BY <2>1 DEF Holds, Drop, IInv, TypeOK
  <2> QED
    BY <2>2, PrefixStays
<1> QED
  BY <1>1, <1>2, <1>3, <1>4, <1>5 DEF ClientInv

\* A save that throws and leaves its events uncommitted keeps what is said of
\* the clients.
LEMMA UncommittedKeepsClients ==
    ASSUME IInv, NEW c \in Clients, Holds(c), StaysUncommitted(c), StreamsGrow
    PROVE  ClientInv'
<1>1. /\ stage' = [stage EXCEPT ![c] = "ready"]
      /\ written' = [written EXCEPT ![c] = 0]
      /\ UNCHANGED <<held, target, version, applied, pending>>
      /\ \A d \in Clients : Holds(d)' <=> Holds(d)
  BY DEF StaysUncommitted, Holds, IInv, TypeOK
<1>2. TypeOK'
  BY <1>1 DEF IInv, TypeOK, StreamsGrow, Stages
<1>3. IdleIsEmpty'
  BY <1>1 DEF IInv, TypeOK, IdleIsEmpty
<1>4. VersionCounts' /\ PendingFollowsApplied'
  BY <1>1 DEF IInv, VersionCounts, PendingFollowsApplied
<1>5. AppliedIsPrefix'
  BY <1>1, PrefixStays DEF AppliedIsPrefix
<1> QED
  BY <1>2, <1>3, <1>4, <1>5 DEF ClientInv

LEMMA InitIInv == Init => IInv
<1> SUFFICES ASSUME Init PROVE IInv
  OBVIOUS
<1> USE InitialVersionAssumption, RepositoryAssumption
<1>1. <<>> \in Seq(Event) /\ Len(<<>>) = 0 /\ DOMAIN <<>> = {}
  BY EmptySeq
<1>2. TypeOK
  BY <1>1 DEF Init, TypeOK, Holds, Stages
<1>3. IdleIsEmpty /\ VersionCounts /\ PendingFollowsApplied
  BY <1>1 DEF Init, IdleIsEmpty, VersionCounts, PendingFollowsApplied
<1>4. NothingStoredAbove /\ AppliedIsPrefix
  BY <1>1 DEF Init, NothingStoredAbove, AppliedIsPrefix, Holds
<1>5. NoLostUpdate /\ OneSavePerStream
  BY <1>1 DEF Init, NoLostUpdate, OneSavePerStream
<1> QED
  BY <1>2, <1>3, <1>4, <1>5 DEF IInv

\* Building a new aggregate, or starting to read one.
LEMMA OpenKeepsClients ==
    ASSUME IInv, NEW c \in Clients, NEW a \in Aggregates,
           \/ Construct(c, a)
           \/ \E v \in Targets \cup {MaxLong} : BeginRead(c, a, v)
    PROVE  ClientInv' /\ UNCHANGED streams
<1> USE InitialVersionAssumption, RepositoryAssumption
<1>1. stage[c] = "idle" /\ applied[c] = <<>> /\ pending[c] = <<>>
  BY DEF IInv, IdleIsEmpty, Construct, BeginRead
<1>2. Len(<<>>) = 0 /\ <<>> \in Seq(Event)
  BY EmptySeq
<1>3. version[c] = InitialVersion
  <2>1. Len(applied[c]) = 0 /\ Len(pending[c]) = 0
    BY <1>1, <1>2
  <2>2. version[c] = InitialVersion + Len(applied[c]) + Len(pending[c])
    BY DEF IInv, VersionCounts
  <2> QED
    BY <2>1, <2>2
<1> DEFINE first == [author |-> c, base |-> 0, offset |-> 1]
<1>4. CASE Construct(c, a)
  <2>1. first \in Event
    BY DEF Event
  <2>2. <<first>> \in Seq(Event) /\ Len(<<first>>) = 1 /\ <<first>>[1] = first
    BY <2>1
  <2>3. TypeOK'
    BY <1>4, <2>2 DEF IInv, TypeOK, Construct, Stages, Holds
  <2>4. IdleIsEmpty'
    BY <1>4 DEF IInv, TypeOK, IdleIsEmpty, Construct
  <2>5. VersionCounts'
    <3>1. /\ version'[c] = InitialVersion + 1
          /\ pending'[c] = <<first>>
          /\ applied'[c] = <<>>
      BY <1>1, <1>4 DEF IInv, TypeOK, Construct
    <3>2. version'[c] = InitialVersion + Len(applied'[c]) + Len(pending'[c])
      BY <3>1, <2>2, <1>2
    <3>3. \A d \in Clients : d # c =>
              /\ version'[d] = version[d]
              /\ applied'[d] = applied[d]
              /\ pending'[d] = pending[d]
      BY <1>4 DEF IInv, TypeOK, Construct
    <3> QED
      BY <3>2, <3>3 DEF IInv, VersionCounts
  <2>6. PendingFollowsApplied'
    BY <1>1, <1>2, <1>4, <2>2 DEF IInv, TypeOK, PendingFollowsApplied, Construct
  <2>7. AppliedIsPrefix'
    <3>1. Len(streams[a]) \in Nat
      BY LenProperties DEF IInv, TypeOK
    <3> QED
      BY <1>1, <1>2, <1>4, <3>1 DEF IInv, TypeOK, AppliedIsPrefix, Construct, Holds
  <2> QED
    BY <1>4, <2>3, <2>4, <2>5, <2>6, <2>7 DEF ClientInv, Construct
<1>5. CASE \E v \in Targets \cup {MaxLong} : BeginRead(c, a, v)
  <2> PICK v \in Targets \cup {MaxLong} : BeginRead(c, a, v)
    BY <1>5
  <2>1. v \in Nat
    BY DEF BeginRead
  <2>2. TypeOK'
    BY <2>1 DEF IInv, TypeOK, BeginRead, Stages, Holds
  <2>3. IdleIsEmpty' /\ VersionCounts'
    BY <1>1 DEF IInv, TypeOK, IdleIsEmpty, VersionCounts, BeginRead
  <2>4. PendingFollowsApplied'
    BY DEF IInv, TypeOK, PendingFollowsApplied, BeginRead
  <2>5. AppliedIsPrefix'
    <3>1. Len(streams[a]) \in Nat
      BY LenProperties DEF IInv, TypeOK
    <3> QED
      BY <1>1, <1>2, <3>1 DEF IInv, TypeOK, AppliedIsPrefix, BeginRead, Holds
  <2> QED
    BY <2>2, <2>3, <2>4, <2>5 DEF ClientInv, BeginRead
<1> QED
  BY <1>4, <1>5

\* Raising an event.
LEMMA RaiseKeepsClients ==
    ASSUME IInv, NEW c \in Clients, Raise(c)
    PROVE  ClientInv' /\ UNCHANGED streams
<1> DEFINE k == Len(pending[c])
           new == Append(pending[c], NextEvent(c))
<1>1. pending[c] \in Seq(Event) /\ applied[c] \in Seq(Event)
  BY DEF IInv, TypeOK
<1>2. k \in Nat /\ Len(applied[c]) \in Nat
  BY <1>1, LenProperties
<1>3. NextEvent(c) \in Event
  BY <1>2 DEF NextEvent, Event
<1>4. /\ new \in Seq(Event)
      /\ Len(new) = k + 1
      /\ \A j \in 1..k : new[j] = pending[c][j]
      /\ new[k + 1] = NextEvent(c)
  BY <1>1, <1>3, AppendProperties
<1>5. /\ stage[c] = "ready"
      /\ version' = [version EXCEPT ![c] = version[c] + 1]
      /\ pending' = [pending EXCEPT ![c] = new]
      /\ UNCHANGED <<streams, stage, held, target, applied, written>>
  BY DEF Raise
<1> HIDE DEF k, new
<1>6. TypeOK'
  BY <1>4, <1>5 DEF IInv, TypeOK, Holds
<1>7. IdleIsEmpty'
  BY <1>5 DEF IInv, TypeOK, IdleIsEmpty
<1>8. VersionCounts'
  <2> SUFFICES ASSUME NEW d \in Clients
               PROVE  version'[d] = InitialVersion + Len(applied'[d]) + Len(pending'[d])
    BY DEF VersionCounts
  <2>1. CASE d # c
    BY <2>1, <1>5 DEF IInv, TypeOK, VersionCounts
  <2>2. CASE d = c
    <3>1. version[c] = InitialVersion + Len(applied[c]) + k
      BY DEF IInv, VersionCounts, k
    <3>2. /\ version'[c] = version[c] + 1
          /\ Len(pending'[c]) = k + 1
          /\ Len(applied'[c]) = Len(applied[c])
      BY <1>4, <1>5 DEF IInv, TypeOK
    <3> DEFINE n == Len(applied[c])
    <3> HIDE DEF n
    <3>3. n \in Nat
      BY <1>2 DEF n
    <3>4. (InitialVersion + n + k) + 1 = InitialVersion + n + (k + 1)
      BY <3>3, <1>2, InitialVersionAssumption
    <3>5. version'[c] = InitialVersion + Len(applied'[c]) + Len(pending'[c])
      BY <3>1, <3>2, <3>4 DEF n
    <3> QED
      BY <2>2, <3>5
  <2> QED
    BY <2>1, <2>2
<1>9. PendingFollowsApplied'
  <2> SUFFICES ASSUME NEW d \in Clients, NEW j \in 1..Len(pending'[d])
               PROVE  pending'[d][j] =
                          [author |-> d, base |-> Len(applied[d]), offset |-> j]
    BY <1>5 DEF PendingFollowsApplied
  <2>1. CASE d # c
    BY <2>1, <1>5 DEF IInv, TypeOK, PendingFollowsApplied
  <2>2. CASE d = c /\ j \in 1..k
    BY <2>2, <1>4, <1>5 DEF IInv, TypeOK, PendingFollowsApplied, k
  <2>3. CASE d = c /\ j = k + 1
    BY <2>3, <1>4, <1>5 DEF IInv, TypeOK, NextEvent, k
  <2>4. d = c => j \in 1..(k + 1)
    BY <1>4, <1>5 DEF IInv, TypeOK
  <2> QED
    BY <2>1, <2>2, <2>3, <2>4, <1>2
<1>10. AppliedIsPrefix'
  BY <1>5 DEF IInv, AppliedIsPrefix, Holds
<1> QED
  BY <1>5, <1>6, <1>7, <1>8, <1>9, <1>10 DEF ClientInv

\* One slice of a read.
LEMMA ReadSliceKeepsClients ==
    ASSUME IInv, NEW c \in Clients, ReadSlice(c)
    PROVE  ClientInv' /\ UNCHANGED streams
<1> DEFINE b == held[c]
           n == Len(applied[c])
           slice == NextSlice(c)
           new == applied[c] \o slice
<1>1. stage[c] = "reading" /\ Holds(c)
  BY DEF ReadSlice, Holds
<1>2. b \in Aggregates /\ streams[b] \in Seq(Event) /\ applied[c] \in Seq(Event)
  BY <1>1 DEF IInv, TypeOK
<1>3. n \in Nat /\ Len(streams[b]) \in Nat /\ target[c] \in Int
  BY <1>2, LenProperties DEF IInv, TypeOK
<1>4. /\ n <= Len(streams[b])
      /\ \A i \in 1..n : applied[c][i] = streams[b][i]
  BY <1>1 DEF IInv, AppliedIsPrefix
<1>5. /\ slice \in Seq(Event)
      /\ n + Len(slice) <= Len(streams[b])
      /\ \A i \in 1..Len(slice) : slice[i] = streams[b][n + i]
  BY <1>2, <1>3, <1>4, SliceProperties DEF NextSlice
<1>6. Len(slice) \in Nat
  BY <1>5, LenProperties
<1>7. /\ new \in Seq(Event)
      /\ Len(new) = n + Len(slice)
      /\ \A i \in 1..(n + Len(slice)) :
             new[i] = IF i <= n THEN applied[c][i] ELSE slice[i - n]
  BY <1>2, <1>5, ConcatProperties
<1>8. /\ applied' = [applied EXCEPT ![c] = new]
      /\ version' = [version EXCEPT ![c] = version[c] + Len(slice)]
      /\ stage'[c] \in {"reading", "ready"}
      /\ \A d \in Clients : d # c => stage'[d] = stage[d]
      /\ stage' \in [Clients -> Stages]
      /\ UNCHANGED <<streams, held, target, pending, written>>
  BY DEF ReadSlice, IInv, TypeOK, Stages
<1> HIDE DEF b, n, slice, new
<1>9. \A i \in 1..Len(new) : new[i] = streams[b][i]
  <2> TAKE i \in 1..Len(new)
  <2>1. CASE i <= n
    BY <2>1, <1>3, <1>4, <1>6, <1>7
  <2>2. CASE ~(i <= n)
    <3>1. i - n \in 1..Len(slice) /\ n + (i - n) = i
      BY <2>2, <1>3, <1>6, <1>7
    <3> QED
      BY <2>2, <3>1, <1>3, <1>5, <1>6, <1>7
  <2> QED
    BY <2>1, <2>2
<1>10. TypeOK'
  <2>1. version' \in [Clients -> Int]
    BY <1>6, <1>8 DEF IInv, TypeOK
  <2>2. applied' \in [Clients -> Seq(Event)]
    BY <1>7, <1>8 DEF IInv, TypeOK
  <2>3. \A d \in Clients : Holds(d)' => held'[d] \in Aggregates
    BY <1>1, <1>8 DEF IInv, TypeOK, Holds
  <2> QED
    BY <1>8, <2>1, <2>2, <2>3 DEF IInv, TypeOK
<1>11. IdleIsEmpty'
  BY <1>1, <1>8 DEF IInv, TypeOK, IdleIsEmpty
<1>12. VersionCounts'
  <2> DEFINE k == Len(pending[c])
             j == Len(slice)
  <2>1. k \in Nat
    BY LenProperties DEF IInv, TypeOK
  <2>2. version[c] = InitialVersion + n + k
    BY DEF IInv, VersionCounts, n
  <2>3. /\ version'[c] = version[c] + j
        /\ Len(applied'[c]) = n + j
        /\ Len(pending'[c]) = k
    BY <1>7, <1>8 DEF IInv, TypeOK
  <2>4. \A d \in Clients : d # c => /\ version'[d] = version[d]
                                   /\ applied'[d] = applied[d]
                                   /\ pending'[d] = pending[d]
    BY <1>8 DEF IInv, TypeOK
  <2> HIDE DEF k, j
  <2>5. (InitialVersion + n + k) + j = InitialVersion + (n + j) + k
    BY <2>1, <1>3, <1>6, InitialVersionAssumption DEF j
  <2> QED
    BY <2>2, <2>3, <2>4, <2>5 DEF IInv, VersionCounts
<1>13. PendingFollowsApplied'
  <2>1. Len(pending[c]) = 0
    BY <1>1, EmptySeq DEF IInv, IdleIsEmpty
  <2> QED
    BY <2>1, <1>8 DEF IInv, TypeOK, PendingFollowsApplied
<1>14. AppliedIsPrefix'
  <2> SUFFICES ASSUME NEW d \in Clients, Holds(d)'
               PROVE  /\ Len(applied'[d]) <= Len(streams[held[d]])
                      /\ \A i \in 1..Len(applied'[d]) :
                            applied'[d][i] = streams[held[d]][i]
    BY <1>8 DEF AppliedIsPrefix
  <2>1. CASE d = c
    BY <2>1, <1>5, <1>7, <1>8, <1>9 DEF IInv, TypeOK, b
  <2>2. CASE d # c
    BY <2>2, <1>8 DEF IInv, TypeOK, AppliedIsPrefix, Holds
  <2> QED
    BY <2>1, <2>2
<1> QED
  BY <1>8, <1>10, <1>11, <1>12, <1>13, <1>14 DEF ClientInv

\* Opening a transaction and writing its pages.
LEMMA TransactionKeepsClients ==
    ASSUME IInv, NEW c \in Clients, StartTransaction(c) \/ WritePage(c)
    PROVE  ClientInv' /\ UNCHANGED streams
<1>1. /\ stage[c] \in {"ready", "writing"}
      /\ stage'[c] \in {"ready", "writing"}
      /\ stage' \in [Clients -> Stages]
      /\ \A d \in Clients : d # c => stage'[d] = stage[d]
      /\ written' \in [Clients -> Nat]
      /\ UNCHANGED <<streams, held, target, version, applied, pending>>
  <2>1. CASE StartTransaction(c)
    BY <2>1 DEF IInv, TypeOK, StartTransaction, Stages
  <2>2. CASE WritePage(c)
    <3>1. written[c] + WritePageSize \in Nat
      BY RepositoryAssumption DEF IInv, TypeOK
    <3> QED
      BY <2>2, <3>1 DEF IInv, TypeOK, WritePage
  <2> QED
    BY <2>1, <2>2
<1>2. \A d \in Clients : Holds(d)' <=> Holds(d)
  BY <1>1 DEF Holds
<1>3. TypeOK'
  BY <1>1, <1>2 DEF IInv, TypeOK
<1>4. IdleIsEmpty'
  BY <1>1 DEF IInv, IdleIsEmpty
<1>5. VersionCounts' /\ PendingFollowsApplied'
  BY <1>1 DEF IInv, VersionCounts, PendingFollowsApplied
<1>6. AppliedIsPrefix'
  BY <1>1, <1>2 DEF IInv, AppliedIsPrefix
<1> QED
  BY <1>1, <1>3, <1>4, <1>5, <1>6 DEF ClientInv

\* A save the store has taken and answered.
LEMMA CommittedKeepsClients ==
    ASSUME IInv, NEW c \in Clients, SaveAccepted(c)
    PROVE  ClientInv'
<1> DEFINE b == held[c]
           n == Len(applied[c])
           k == Len(pending[c])
           new == applied[c] \o pending[c]
           grown == streams[b] \o pending[c]
<1>1. /\ ReadyToStore(c) /\ StreamAccepts(c) /\ Store(c) /\ Committed(c)
      /\ Holds(c) /\ pending[c] # <<>>
  BY DEF SaveAccepted, ReadyToStore, Holds
<1>2. /\ b \in Aggregates
      /\ streams'[b] = grown
      /\ StreamsGrow
  BY <1>1, StoreKeepsStreams DEF StreamsGrow
<1>3. n = Len(streams[b])
  BY <1>1, AcceptedSaveHasSeenAll
<1>4. /\ applied[c] \in Seq(Event)
      /\ pending[c] \in Seq(Event)
      /\ streams[b] \in Seq(Event)
  BY <1>2 DEF IInv, TypeOK
<1>5. n \in Nat /\ k \in Nat
  BY <1>4, LenProperties
<1>6. \A i \in 1..n : applied[c][i] = streams[b][i]
  BY <1>1 DEF IInv, AppliedIsPrefix
<1>7. /\ new \in Seq(Event)
      /\ Len(new) = n + k
      /\ \A i \in 1..(n + k) :
             new[i] = IF i <= n THEN applied[c][i] ELSE pending[c][i - n]
  BY <1>4, ConcatProperties
<1>8. /\ Len(grown) = n + k
      /\ \A i \in 1..(n + k) :
             grown[i] = IF i <= n THEN streams[b][i] ELSE pending[c][i - n]
  <2> HIDE DEF b, n, k
  <2>1. /\ Len(grown) = Len(streams[b]) + k
        /\ \A i \in 1..(Len(streams[b]) + k) : grown[i] =
               IF i <= Len(streams[b])
               THEN streams[b][i] ELSE pending[c][i - Len(streams[b])]
    BY <1>4, ConcatProperties DEF k
  <2> QED
    BY <2>1, <1>3
<1>9. /\ applied' = [applied EXCEPT ![c] = new]
      /\ pending' = [pending EXCEPT ![c] = <<>>]
      /\ written' = [written EXCEPT ![c] = 0]
      /\ stage' = [stage EXCEPT ![c] = "ready"]
      /\ UNCHANGED <<held, target, version>>
  BY <1>1 DEF Committed
<1> HIDE DEF b, n, k, new, grown
<1>10. \A i \in 1..(n + k) : new[i] = grown[i]
  BY <1>5, <1>6, <1>7, <1>8
<1>11. <<>> \in Seq(Event) /\ Len(<<>>) = 0
  BY EmptySeq
<1>12. TypeOK'
  <2>1. \A d \in Clients : Holds(d)' => held'[d] \in Aggregates
    BY <1>1, <1>9 DEF IInv, TypeOK, Holds
  <2>2. applied' \in [Clients -> Seq(Event)] /\ pending' \in [Clients -> Seq(Event)]
    BY <1>7, <1>9, <1>11 DEF IInv, TypeOK
  <2> QED
    BY <1>2, <1>9, <2>1, <2>2 DEF IInv, TypeOK, Stages, StreamsGrow
<1>13. IdleIsEmpty'
  BY <1>9 DEF IInv, TypeOK, IdleIsEmpty
<1>14. VersionCounts'
  BY <1>5, <1>7, <1>9, <1>11, InitialVersionAssumption
  DEF IInv, TypeOK, VersionCounts, n, k
<1>15. PendingFollowsApplied'
  BY <1>9, <1>11 DEF IInv, TypeOK, PendingFollowsApplied
<1>16. AppliedIsPrefix'
  <2> SUFFICES ASSUME NEW d \in Clients, Holds(d)'
               PROVE  /\ Len(applied'[d]) <= Len(streams'[held[d]])
                      /\ \A i \in 1..Len(applied'[d]) :
                            applied'[d][i] = streams'[held[d]][i]
    BY <1>9 DEF AppliedIsPrefix
  <2>1. CASE d = c
    BY <2>1, <1>2, <1>5, <1>7, <1>8, <1>9, <1>10 DEF IInv, TypeOK, b
  <2>2. CASE d # c
    <3>1. Holds(d) /\ applied'[d] = applied[d]
      BY <2>2, <1>9 DEF IInv, TypeOK, Holds
    <3> QED
      BY <3>1, <1>2, PrefixStays
  <2> QED
    BY <2>1, <2>2
<1> QED
  BY <1>12, <1>13, <1>14, <1>15, <1>16 DEF ClientInv

\* Every step keeps the inductive invariant: one case per action.
LEMMA NextIInv == IInv /\ [Next]_vars => IInv'
<1> SUFFICES ASSUME IInv, [Next]_vars
             PROVE  IInv'
  OBVIOUS
<1>1. ASSUME ClientInv', UNCHANGED streams
      PROVE  IInv'
  BY <1>1, UnchangedStreams DEF IInv, ClientInv
<1>2. CASE UNCHANGED vars
  <2>1. ClientInv'
    BY <1>2 DEF vars, IInv, ClientInv, TypeOK, IdleIsEmpty, VersionCounts,
                PendingFollowsApplied, AppliedIsPrefix, Holds
  <2> QED
    BY <1>1, <1>2, <2>1 DEF vars
<1>3. CASE Next
  <2> PICK c \in Clients : ClientStep(c)
    BY <1>3 DEF Next
  <2>1. CASE \E a \in Aggregates :
                \/ Construct(c, a)
                \/ \E v \in Targets \cup {MaxLong} : BeginRead(c, a, v)
    BY <2>1, <1>1, OpenKeepsClients
  <2>2. CASE ReadSlice(c)
    BY <2>2, <1>1, ReadSliceKeepsClients
  <2>3. CASE Raise(c)
    BY <2>3, <1>1, RaiseKeepsClients
  <2>4. CASE StartTransaction(c) \/ WritePage(c)
    BY <2>4, <1>1, TransactionKeepsClients
  <2>5. CASE ReadFails(c) \/ SaveRefused(c) \/ TransactionFails(c) \/ Abandon(c)
    <3>1. UNCHANGED streams
      BY <2>5 DEF ReadFails, SaveRefused, TransactionFails, Abandon
    <3>2. CASE Drop(c)
      BY <3>1, <3>2, <1>1, UnchangedStreams, DropKeepsClients
    <3>3. CASE SaveRefused(c) /\ StaysUncommitted(c)
      <4>1. Holds(c)
        BY <3>3 DEF SaveRefused, ReadyToStore, Holds
      <4> QED
        BY <3>1, <3>3, <4>1, <1>1, UnchangedStreams, UncommittedKeepsClients
    <3>4. CASE TransactionFails(c)
      <4>1. Holds(c) /\ StaysUncommitted(c)
        BY <3>4 DEF TransactionFails, Holds
      <4> QED
        BY <3>1, <4>1, <1>1, UnchangedStreams, UncommittedKeepsClients
    <3> QED
      BY <2>5, <3>2, <3>3, <3>4 DEF ReadFails, SaveRefused, Abandon
  <2>6. CASE SaveAccepted(c)
    <3>1. ReadyToStore(c) /\ StreamAccepts(c) /\ Store(c)
      BY <2>6 DEF SaveAccepted
    <3>2. NoLostUpdate' /\ OneSavePerStream' /\ NothingStoredAbove'
      BY <3>1, StoreKeepsStreams
    <3> QED
      BY <2>6, <3>2, CommittedKeepsClients DEF IInv, ClientInv
  <2>7. CASE SaveUnanswered(c)
    <3>1. /\ ReadyToStore(c) /\ StreamAccepts(c) /\ Store(c)
          /\ Drop(c) \/ StaysUncommitted(c)
          /\ Holds(c)
      BY <2>7 DEF SaveUnanswered, ReadyToStore, Holds
    <3>2. /\ StreamsGrow
          /\ NoLostUpdate' /\ OneSavePerStream' /\ NothingStoredAbove'
      BY <3>1, StoreKeepsStreams DEF StreamsGrow
    <3> QED
      BY <3>1, <3>2, DropKeepsClients, UncommittedKeepsClients DEF IInv, ClientInv
  <2> QED
    BY <2>1, <2>2, <2>3, <2>4, <2>5, <2>6, <2>7 DEF ClientStep
<1> QED
  BY <1>2, <1>3

-----------------------------------------------------------------------------
(* Theorems *)

\* The inductive invariant holds of every reachable state.
THEOREM Invariance == Spec => []IInv
<1> QED
  BY InitIInv, NextIInv, PTL DEF Spec

\* The variables of the repository and its callers keep their types.
THEOREM TypeCorrect == Spec => []TypeOK
<1>1. IInv => TypeOK
  BY DEF IInv
<1> QED
  BY <1>1, Invariance, PTL

\* Whatever version aggregates start at, and however many requests race, no
\* save of GetEventStoreRepository lands on events its aggregate has not seen.
THEOREM NoUpdateIsLost == Spec => []NoLostUpdate
<1>1. IInv => NoLostUpdate
  BY DEF IInv
<1> QED
  BY <1>1, Invariance, PTL

\* What a client holds is always a prefix of the stored history, also when the
\* stream grew between the slices of its read.
THEOREM ReadsArePrefixes == Spec => []AppliedIsPrefix
<1>1. IInv => AppliedIsPrefix
  BY DEF IInv
<1> QED
  BY <1>1, Invariance, PTL

\* With any initial version but 0 no stream is ever written by a second save.
THEOREM OnlyCreationIsSaved == Spec => []OneSavePerStream
<1>1. IInv => OneSavePerStream
  BY DEF IInv
<1> QED
  BY <1>1, Invariance, PTL

\* With initial version 0 the version check of SaveAsync refuses only aggregates
\* that have missed something.
THEOREM ZeroVersionSavesCurrent ==
    ASSUME InitialVersion = 0
    PROVE  Spec => []UpToDateSaveAccepted
<1>1. IInv => UpToDateSaveAccepted
  <2> SUFFICES ASSUME IInv, NEW c \in Clients, stage[c] = "ready",
                      pending[c] # <<>>,
                      Len(applied[c]) = Len(streams[held[c]])
               PROVE  StreamAccepts(c)
    BY DEF UpToDateSaveAccepted
  <2> DEFINE n == Len(applied[c])
             k == Len(pending[c])
  <2>1. n \in Nat /\ k \in Nat
    BY LenProperties DEF IInv, TypeOK
  <2>2. version[c] = InitialVersion + n + k
    BY DEF IInv, VersionCounts
  <2> HIDE DEF n, k
  <2>3. ExpectedVersion(version[c], k) = n - 1
    <3>1. OriginalVersion(version[c], k) = n - 1
      BY <2>1, <2>2 DEF OriginalVersion
    <3> QED
      BY <3>1, <2>1 DEF ExpectedVersion, NoStream
  <2> QED
    BY <2>3 DEF StreamAccepts, Accepts, n, k
<1> QED
  BY <1>1, Invariance, PTL
-----------------------------------------------------------------------------
(* Where reads end *)

\* A read becomes an aggregate only with the slice that ends it.
LEMMA EndsRead ==
    ASSUME TypeOK, [Next]_vars, NEW c \in Clients,
           stage[c] = "reading", stage'[c] = "ready"
    PROVE  ReadSlice(c)
<1>0. stage \in [Clients -> Stages]
  BY DEF TypeOK
<1>1. ASSUME NEW d \in Clients, ClientStep(d), d # c PROVE FALSE
  <2>1. stage'[c] = stage[c]
    BY <1>0, <1>1 DEF ClientStep, Construct, BeginRead, ReadSlice, ReadFails, Raise,
       StartTransaction, WritePage, SaveAccepted, Committed, SaveRefused, SaveUnanswered,
       TransactionFails, StaysUncommitted, Abandon, Drop
  <2> QED
    BY <2>1
<1>2. ClientStep(c)
  BY <1>1 DEF Next, vars
<1>3. Drop(c) => FALSE
  BY <1>0 DEF Drop
<1> QED
  BY <1>2, <1>3 DEF ClientStep, Construct, BeginRead, ReadFails, Raise, StartTransaction,
     WritePage, SaveAccepted, ReadyToStore, SaveRefused, SaveUnanswered,
     TransactionFails, Abandon

\* Whatever version aggregates start at, an aggregate read at a version has as
\* many events as lead to that version, and one not stopped by a version has
\* the whole of the stream its last slice was taken from.
THEOREM ReadsEndRight == Spec => ReadsEndAsAsked
<1>1. IInv /\ [Next]_vars =>
          \A c \in Clients : stage[c] = "reading" /\ stage'[c] = "ready" =>
             /\ target[c] < MaxInt => Len(applied'[c]) = target[c] - InitialVersion
             /\ target[c] >= Len(streams[held[c]])
                   => Len(applied'[c]) = Len(streams[held[c]])
  <2> SUFFICES ASSUME IInv, [Next]_vars, NEW c \in Clients,
                      stage[c] = "reading", stage'[c] = "ready"
               PROVE  /\ target[c] < MaxInt
                            => Len(applied'[c]) = target[c] - InitialVersion
                      /\ target[c] >= Len(streams[held[c]])
                            => Len(applied'[c]) = Len(streams[held[c]])
    OBVIOUS
  <2> DEFINE n == Len(applied[c])
             k == Len(NextSlice(c))
             L == Len(streams[held[c]])
             v == target[c]
  <2>1. ReadSlice(c)
    BY EndsRead DEF IInv
  <2>2. /\ streams[held[c]] \in Seq(Event) /\ applied[c] \in Seq(Event)
        /\ v \in Nat /\ pending[c] = <<>>
        /\ stage \in [Clients -> Stages] /\ applied \in [Clients -> Seq(Event)]
    BY DEF IInv, TypeOK, IdleIsEmpty, Holds
  <2>3. n \in Nat /\ L \in Nat /\ n <= L
    BY <2>2, LenProperties DEF IInv, AppliedIsPrefix, Holds
  <2>4. NextSlice(c) \in Seq(Event) /\ n + k <= L
    BY <2>2, <2>3, SliceProperties DEF NextSlice
  <2>5. ~ReadsOn(c) /\ VersionMatches(version[c] + k, v)
    BY <2>1, <2>2 DEF ReadSlice
  <2>6. k \in Nat /\ Len(applied'[c]) = n + k
    <3>1. applied'[c] = applied[c] \o NextSlice(c)
      BY <2>1, <2>2 DEF ReadSlice
    <3> QED
      BY <3>1, <2>2, <2>4, ConcatProperties, LenProperties
  <2>7. version[c] = InitialVersion + n
    <3>1. Len(pending[c]) = 0
      BY <2>2
    <3>2. version[c] = InitialVersion + n + Len(pending[c])
      BY DEF IInv, VersionCounts
    <3> HIDE DEF n
    <3> QED
      BY <3>1, <3>2, <2>3, InitialVersionAssumption
  <2>8. v < MaxInt => InitialVersion + n + k = v
    BY <2>5, <2>7 DEF VersionMatches
  <2>9. ~(v >= n + k /\ n + k < L)
    BY <2>5 DEF ReadsOn, NextEventNumber
  <2> HIDE DEF n, k, L, v
  <2>10. v < MaxInt => n + k = v - InitialVersion
    BY <2>2, <2>3, <2>6, <2>8, InitialVersionAssumption
  <2>11. v >= L => n + k = L
    BY <2>2, <2>3, <2>4, <2>6, <2>9
  <2> QED
    BY <2>6, <2>10, <2>11 DEF L, v
<1> QED
  BY <1>1, Invariance, PTL DEF Spec, ReadsEndAsAsked
=============================================================================
