# Maginus Lunch in TLA+

Specifications of the parts of Maginus Lunch whose correctness depends on
history and on who moves first: the event-sourced aggregates and their
repository, the order requests, changes to orders over a changing menu, the
menu's aggregates and commands, the daemons that build the read side, signing
in through the identity server, and the rolling log files. TLC checks them on
small instances; TLAPS proves all their safety properties, and the refinements,
for every value of the constants. Two abstract specifications say what the parts amount to:
`WriteOnceStore` for the command services, `ReadModel` for the read side.

`src/` below is short for the repository; `Orders.API` and the like are the
projects `src/MaginusLunch.Orders.API` and so on.

## The system

Lunch is ordered through a CQRS, event-sourced application. Commands go to
aggregates, whose events are kept in one stream per aggregate of a
GetEventStore server. A projection of that server links the events of all
orders into the stream `MaginusLunch-Orders`; a persistent subscription hands
them to denormalizer daemons, which write one MongoDB document per order; the
API reads those documents, and decides on them.

    client -> UsersController -> LocalOrderService -> OrderCommandValidator
                   |                     |                  |
                   | (documents)         v                  | (documents)
                   |          GetEventStoreRepository       |
                   |                     |                  |
                   |            order streams (event store) |
                   |                     | projection, persistent subscription
                   |                     v                  |
                   |      DenormalizerService / OrderEventHandlers
                   |                     |                  |
                   +---------- MongoDB order documents -----+

| component | state it keeps | operations | who it works with | what is hard | what makes it correct |
|---|---|---|---|---|---|
| `Core/Aggregates`, `GetEventStore` | `Id`, `Version`, uncommitted events; streams in the event store | construct, `RaiseEvent`, `GetByIdAsync` (by slices, to a version), `SaveAsync` (one append or a paged transaction) | services call it; the event store answers | other clients between read and save and between slices, lost answers, failures inside a transaction, version arithmetic | no update lost; reads are prefixes and end where they were asked to; an up-to-date aggregate can be saved |
| `Orders.Domain` | the order's fields | ten commands, ten `Apply`s | raised into by the service, replayed by the repository | none by itself: no command looks at the state | what is replayed is what was raised |
| `Orders.API`, `Orders.Service` | per request: found order, aggregate, answer | lookup, authorize, validate, save, answer | reads documents, writes streams | the read side lags; requests overlap; a failed answer hides a success | one order per recipient and date; a caller is told of stored orders only |
| `Orders.Denormalizer`, `.Console`, `Orders.Repository.MongoDB` | subscription, event in hand, documents | start, stop, ten handlers, acknowledge, fail | event store pushes, MongoDB is written | redelivery, rewinds, overlap of daemons, crash between save and acknowledgement, saves nobody awaits | documents follow the log and come to agree with it |
| `Core/Logging/RollingLogger` | current file, count, date; the directory | write, roll over, purge | every process of the application; the file system | midnight, restarts, locked files, processes that share the directory | latest lines kept; a file is filled before the next is begun; size and number bounded |
| `Orders.Service` `MenuService`, `LunchProviderService`, `CalendarService` | none (read side of the menu) | availability predicates | called by the validator and the API | each question is several reads, one per await, while the menu and the order change; conditions that are inverted or look in the wrong place | what is saved was on offer, what is refused was not; nothing goes on a filling that bars it; what is listed can be ordered (it can not) |
| `Orders.API/Authorization`, `Core.AspNet` | none | requirement handlers | called by the controllers | the resource is built after a read, in another class | recipients and housekeepers, and they only, get past the policies |
| `Menu.Domain` | status, withdrawn dates, days, open order date, meal, two flags | 37 commands, as many `Apply`s | raised into by the service, replayed by the repository | one pair of overloads written once per class | a date is withdrawn iff the last command about it says so |
| `Menu.Service` | per command: aggregate, `CommandStatus` | `HandleForUserAsync`, a handler and a validator per command | reads the menu's documents, writes streams | the read side lags, commands overlap, a factory that returns null | one creator per item; dates before the calendar's limit are refused |
| `Menu.API` | none | two controllers whose operations throw `NotImplementedException` | | | |
| `Authentication.IdentityServer` | users, their logins and claims, consent, a cache of external login properties | challenge, callback, confirmation, refresh of claims, logout, consent | IdentityServer4, an external provider, a database | steps of one login that fail half way; a refresh nobody waits for, on services that are disposed; cache entries that are gone | who is signed in has the account linked to him; whoever keeps trying gets in |

Not the program's own logic, and left out: `Core/Logging` apart from
`RollingLogger`, the logging adapters, `Messages` projects (data only),
`Repository` projects (interfaces), start-up code, `MongoDB/MongoRepository`
apart from the calls the order repository makes (thin wrappers of the driver),
and views. Of the JavaScript in the repository all but two files are vendored or
generated (jQuery and its validation plug-ins, Bootstrap, the Swagger UI):
`signout-redirect.js` is an action of `ExternalLogin`, and `site.js` is empty.

## The modules

| module | models | lines up with |
|---|---|---|
| `AggregateVersioning` | the version arithmetic shared by all that load and save aggregates | `AggregateRoot()`, `SaveAsync`, the creation check of the validators |
| `AggregateRepository` | repository, aggregate instances and streams | one action per await of `GetByIdAsync` and `SaveAsync` |
| `OrderAggregate` | order events and what `Apply` does | constructor, commands and `Apply` of `OrderAggregate` |
| `OrderDenormalizer` (extends it) | projection, persistent subscription, daemons, documents | `DenormalizerService`, `OrderEventHandlers`, `MongoOrderRepository.SaveOrderAsync` |
| `ReadModel` (extends `OrderAggregate`) | abstract: documents that show one moment of the history; implemented by `OrderDenormalizer` with one daemon | what the API relies on |
| `OrderRequests` (extends `AggregateVersioning`) | requests from authorization to answer over a lagging read side | `UsersController`, its policies, `LocalOrderService`, `OrderCommandValidator`, `CalendarService` |
| `OrderChanges` (extends `OrderAggregate`, `AggregateVersioning`) | commands on an existing order while the menu changes | `LocalOrderService`, `OrderCommandValidator`, `MenuService`, `LunchProviderService`, one action per await |
| `MenuAggregates` | the menu's commands, their events and what `Apply` does | the six aggregate classes of `Menu.Domain` |
| `MenuRequests` (extends it and `AggregateVersioning`) | commands from the user's claim to the save | `LocalMenuService`, `MenuCommandValidatorFactory` and its validators |
| `WriteOnceStore` | abstract: things that are created once and never change; implemented by `OrderRequests` and `MenuRequests` | what callers of the two services see |
| `ExternalLogin` | browsers, accounts, logins and claims of the identity server | `AccountController`, `ApplicationUserExtensions`, `CachedPropertiesDataFormat`, `signout-redirect.js` |
| `RollingLog` | log directory and its writers | `RollingLogger` |
| `OrderAggregateProofs`, `AggregateRepositoryProofs`, `OrderRequestsProofs`, `MenuRequestsProofs`, `OrderChangesProofs`, `ExternalLoginProofs`, `OrderDenormalizerProofs`, `RollingLogProofs` | theorems | |
| `MC...` | instances for TLC | |

**AggregateRepository.** A client holds at most one aggregate instance:
`version`, `applied` (the stored events it reflects) and `pending` (its
uncommitted events). `BeginRead` and `ReadSlice`/`ReadFails` are the loop of
`GetByIdAsync`, one slice at a time because each slice is awaited;
`StartTransaction`, `WritePage`, `SaveAccepted`, `SaveRefused` and
`SaveUnanswered` are `SaveAsync`, the last for a store that takes the events
while the caller sees a failure. What the store is handed (`Handed`) is what was
put in the append or in the pages of the transaction. A save that throws leaves
the aggregate with its uncommitted events: the caller lets it go (`Drop`) or goes
on with it and may save it again (`StaysUncommitted`), also after a transaction
that failed between two pages (`TransactionFails`); `Abandon` is a client that
lets its aggregate go at any time. An event is recorded with the author's view of the history (`base`,
`offset`), which is what the properties are about; what it says is not.

**OrderDenormalizer.** The event store is modelled by what it promises: events
are delivered at least once, to any daemon with room in its buffer, retried
ones first; a checkpoint never passes an unacknowledged event; a dropped
connection's unanswered events come again. `BeginHandling` is the part of a
handler up to its save (what it reads and the copy it makes), `SaveWork` the
save, `Acknowledge`, `Stopped` and `HandlerFails` the three ends of
`EventAppeared`. Two handlers (`OrderAdded`, `FillingAddedToOrder`) start their
save before a further read and await it after; if that read throws, the save is
left on its own: `HandlerFailsBeforeSave`, `LateSave`. The cancellation of the
order in `HandleAsync(OrderAdded)` changes an aggregate nobody saves and has no
effect on the state. A write cancelled by the token is a crash before or after
the document was written.

**ReadModel.** The documents together show one moment of the history. The
refinement mapping of `OrderDenormalizer` takes that moment to be the number of
acknowledged events, or one more when the save of the event in hand has been
made; while the event store repeats events it had sent before (`Sent`), the
abstract store is `repeating`. `replay` remembers how far it had sent. A step of the
abstract model shows one event more, never several.

**OrderRequests.** An order is named after the request that adds it. A request
has someone's e-mail claim (`who`): `AuthorizeAdd` and `AuthorizeUpdate` are the
two policies, the second asked about what `ResourceOrder` makes of the order
found. Because that is always null, no request of the controller gets to change
an order; a "service" request is a command given to
`IOrderService.HandleForUserAsync` directly, as the service's own tests do. The
commands on an existing order share one sequence of steps and one validator
body and are one `kind`; whether the menu has the thing to be added is left
open here, so refusals may always happen (`OrderChanges` looks at it). `IsAvailable` is `TRUE` because
`IsAvailableAsync` returns before it looks at anything. `Project` is the
denormalizer seen from here: a document goes forward one event at a time.
`seen` remembers, for the properties, the orders shown when the request came in.

**OrderChanges.** A command is written as the event it raises, because what
distinguishes the commands on an order is the field they set. `LookAtItem`,
`LookAtProvider` and `LookAtFilling` are the reads of one validation; `EditMenu`
may come between any two of them, and so may the save of another request. A
filling that has gone is dereferenced (`LookAtFilling` ends as a failure).
`AddFilling` does not ask what the order already has (`AsksTheFilling`): the code
has no `CanHave...` for it. `changes` gives aggregates an initial version of 0,
since with the code's -100 no change is ever stored and nothing would be seen of
the validator's races. `seen` remembers, for the properties, what the documents
have said since the request came in. Only what the validator asks is modelled: the
lists that the API answers with read the same documents and decide nothing. The
documents are changed from outside: no code here writes them.

**WriteOnceStore.** A thing is created once, is shown later, and is told of to
its creator or to whoever finds it. In `OrderRequests` the things are the orders
and their values a recipient and a date, in `MenuRequests` the items and the
aggregates that their creation makes.

**MenuRequests.** The handlers of `LocalMenuService` are one of two sequences of
steps: creations (`Receive`, `ValidateCreate`, save) and the rest (`Receive`,
`Load`, `ValidateChange`, save); what differs is the command, and what `Apply`
makes of it. An item's stream is its length and the aggregate rebuilt from it.
No code in the repository writes the menu's documents, so `Project` lets the
document of a created item appear at any later time, and a calendar's with any
date in `OrdersStillOpenBeyond`. There may be several calendars:
`GetCalendarAsync` takes whichever comes first. The day that the validator checks is
the date in UTC, the day that is stored is the date as it was given: `CheckedDays`
is the first, off by a member of `UtcShifts`.

**ExternalLogin.** A browser goes through the stages of one sign-in; the external
cookie is `offer`, the application's cookie `account` with stage `in`. The
database is `accounts`, `logins` and `claims`; the unique indexes of ASP.NET
Identity are the guards of `Create` and `AddLogin`. `RefreshExternalClaims` is
`async void`: the callback does not wait for it, so `ReadClaims` and
`StoreClaims` interleave with everything else, and what it throws ends the
process (`RefreshThrows`, `ProcessRestarts`). It works with the `UserManager` of
its request, which is disposed when the request is answered: a refresh that is
not done by then is `Doomed`. A refresh has the claims it was given, those of the
account it has found, and the places of those that differ (`due`), the first of
which is next (`DueNow`). A claim is a type and a value, a value
being a sequence of words, empty for null; `ClaimTypes` has at least the three
types the code asks for; the four offers of the instance
are a display name, a family name only, a given name only (for which
`MapClaimsFromPrincipal` makes up a name of null, line 66), and nothing. Login
properties are kept in a cache in memory and are gone after a restart.

**RollingLog.** Within a process `DefaultLoggerFactory` holds a lock for each
write, so a process does one thing at a time; processes whose binaries share a
directory interleave at each access to it: the listing, the look at the newest
file's length, the purge, the append. If the newest file has gone when its length is
asked for (`NameThrows`), the write ends with the day noted and the old path
kept, and the next line goes to the file of the day before, or nowhere: this is
why `HoldsTheLatest`, `NamesFollowLines` and `RollsWhenFull` are stated for one
writing process. The purge is one step: what another
process does between two deletions could as well be done before or after all of
them, since it never goes back from a newer file to an older. A line is its
length in characters and in bytes: `_currentFileSize` adds characters, the limit
is compared with both. The clock is taken never to go back. `stuck` counts
deletions that failed, each of which puts a line of its own in the log.

## What is checked

| run | question | bounds |
|---|---|---|
| `repository_zero` | with an initial version of 0: is the rest of the repository right? | 2 clients, 1 stream, 5 events, slices of 2, pages of 3, versions 0 to 3 asked for |
| `repository_update` | can an aggregate that is read back be saved? **No** (finding) | the same |
| `repository_version` | does a read of a version the stream has succeed? **No** (finding) | the same |
| `denormalizer_single` | one daemon: does it implement `ReadModel`, and does it end up right? | 2 orders, 1 slot, 3 events, buffer of 2, 2 faults of stop, crash, rewind, an item the read side lacks |
| `denormalizer_overlap` | two daemons, everything fails: what still holds? | 1 order, 3 events, buffers of 1, 2 faults of any kind, an item the read side lacks |
| `requests_code` | concurrent requests: what are callers told, what is stored, and is it a store of orders written once? | 3 requests, 1 recipient, 2 dates |
| `requests_single` | one order per recipient and date? **No** (finding) | the same |
| `changes` | commands on one order while the menu changes: what gets into it, and what is refused? | 2 requests, 1 order, a bread, a menu option, 2 fillings (one bars both), 2 changes of the menu |
| `menu_code` | overlapping commands: who creates an item, does it change, what does withdrawing a date do to fillings and calendars? | 3 requests, 1 item of each class, 2 dates, checked on the day itself or the one before, 2 days of the week, 1 meal |
| `menu_dates` | is a date withdrawn when it is withdrawn, whatever the class? **No** (finding) | the same |
| `logins` | sign-ins that fail half way, refreshes, restarts: who is signed in, as whom, and does everyone get in? | 2 browsers of one person or two, 2 names, 4 offers, 1 fault |
| `rolling` | what does the directory hold, with one process and with two? | 2 processes, limit 2, 2 files kept, 2 days, 5 lines, 1 failed deletion |

Why the bounds are enough. *Repository*: one stream, because streams share
nothing; two clients, because a save meets at most one other at a time; slices
of 2 and pages of 3 in a stream of 5 give reads of three slices, saves in one
append and in transactions of two pages. `MaxInt` and `MaxLong` stand for the
two limits the code compares with and lie above every stream. *Denormalizer*:
the three kinds of chosen item are handled alike, so one slot stands for them;
two orders show that events of different orders do not disturb each other under
one daemon; a rewind, a crash and a stop can each be combined with another.
*Requests*: two requests can collide, a third comes after; two dates show that
the date is looked at. *Menu*: three requests can create an item twice and
change it; each class has an item because each has overloads of its own; one
date is before, the other at the limit of a calendar that is open beyond the
second; a server in UTC or east of it checks a date on its day or the one before. *Changes*: two requests on one order can overtake each other at every await, a
third would only do so again; of two changes of the menu one can take a thing
away and one bring it or another back; a filling that bars and one that does not
can each replace the other. *Logins*: two browsers of one person are needed for
two confirmations of one login, of two persons for one name wanted twice; one
fault leaves an account half made, or empties the cache, and restarts that a
refresh brings about come on top of it.
*Rolling log*: lines of one character of one or two bytes and a preamble
of one, so that three lines fill a file, five fill, number and purge files, and
midnight falls at any point among them. Five lines are enough for one process to
reach the bound on the size of a file, not for two: what two do to it is shown by
`SizesStayBounded` alone.

Symmetry is declared for clients, orders, daemons, requests and loggers in runs
without liveness. Deadlock is checked for the repository, where a client can
always let go; the other models end when their bound on events, requests or
lines is used up.

### Fairness

`FairSpec` of `OrderDenormalizer` assumes weak fairness of what a running
system does by itself (deliver, handle, save, acknowledge, end a stopped
subscription) and of `Start`: nothing in the code restarts a service, but a
service that has stopped is started again by its operator or its host. No
fairness is assumed of faults, which are bounded by `MaxFaults`, nor of new
events. `Converges` is false without the restart.

`FairSpec` of `ExternalLogin` assumes weak fairness of what the server has begun
to handle, of the provider's and the script's answers, and of the person, who
tries again after each failure. Strong fairness is of `Create` with each name:
the confirmation page comes and goes with the attempts, and a person who sees it
again and again gives every name he has at some time. Without it he could insist
on one that is taken; nothing in the code keeps him from it. No fairness is
assumed of faults, and `EveryoneGetsIn` says itself what it excepts: a refresh
that ends the process again and again.

### What the checks show

* *The write side only ever creates.* `AggregateRoot` counts versions from -100
  and `SaveAsync` turns every negative number into "no stream": an aggregate
  that is read back can not be saved (`repository_update`), a stream holds the
  events of the one save that began it (theorem `OnlyCreationIsSaved`), and in
  `OrderRequests` no order changes after it was placed (`OrdersStayAsPlaced`).
  A read of a given version counts from the same number and fails
  (`repository_version`), though `IRepository` and its tests promise otherwise. The
  mistake is confined to the number: from 0 the same code loses no update, also
  when a save that threw is tried again, and saves every aggregate that is up to
  date (`repository_zero`). What a read hands out ends at the version asked for or
  with the stream, for any number (`ReadsEndAsAsked`); but from 0 a version before
  the last can not be read either, because the last slice asks for one event too
  many (`GetEventStoreRepository.cs:76`).
* *One denormalizer is right.* Through crashes, stops and rewinds of a single
  daemon readers see the moments of the history one after the other
  (`ReadersSeeHistory`), up to the first event whose item the read side lacks:
  that one stops the daemon whenever it is started (`Converges` says exactly
  so). Two daemons can overwrite each other's documents, since each saves the
  whole copy it has read; what survives even then, with every kind of fault, is
  that an acknowledged order has a document, and that documents come into being
  as `OrderAdded` says (`denormalizer_overlap`).
* *The services are stores of things written once.* `OrdersAreWrittenOnce` and
  `MenuIsWrittenOnce`: no caller is told of anything that is not there, and
  nothing that is there changes.
* *Uniqueness of orders rests on the read side.* Two overlapping requests place
  two orders (`requests_single`); that is the only way (`DuplicatesOverlap`).
* *The validator judges each part at its time.* Nothing is stored on top of a
  filling that bars it (`BarredStayOut`), because the version check catches a
  filling that was changed meanwhile. What is saved was on offer at some time while
  the request was handled (`AddedWasOnOffer`), though not at one time all of it, and
  a bread or a filling is refused only if it was not, at some such time, or is
  barred (`RefusedForCause`).
* *The menu is as it was created.* Of requests that create one item, one is
  told so (`OneCreator`), and nothing changes it afterwards
  (`MenuStaysAsCreated`), for the reason above. If it could change, the dates of
  breads, menu options and lunch providers would be the wrong way round
  (`menu_dates`): their `Apply` overloads add the dates that are activated to
  `WithdrawnDates`, and remove those that are withdrawn. Those of fillings and
  calendars do as they are named (`DatesOfFillingsAsNamed`).
* *Whoever is signed in has his own account, but not everyone gets in.*
  `SignedInIsLinked` holds through failures between any two steps and restarts.
  An account that is created and not linked is lost for good and its name with it
  (`OrphansStay`), and an account made from a given name only can never be read
  (`UnreadableStayOut`): these are the two ways to be locked out that
  `EveryoneGetsIn` leaves, besides refreshes that end the process. A refresh that
  has more to do than its request takes ends the process, because its services
  are disposed; only one that is done in time, and that no other of its account has
  overlapped, leaves what the provider said (`RefreshedIsCurrent`): two that overlap
  may leave a mixture, of which no property says more than `UnreadableStayOut`.
* *Log files stay bounded, not within the limit.* `_currentFileSize` is set the
  wrong way round (`RollingLogger.cs:148` and `153`), so a process that starts
  again in the middle of a file counts from 0 and passes the limit, though not
  without end (`FileSizeBounded`). The next file is begun only once the one before
  it is full (`RollsWhenFull`).

## What is proved

All proofs hold for every set of clients, streams, requests, recipients and
dates, every page size and every `InitialVersion`; the assumptions are the
`ASSUME`s of the modules. Most of these only keep apart what the code's types
keep apart: a status is neither an item nor a null (`StatusAssumption`), no
document is `Absent` (`AbsentAssumption`), no event in hand is `NoWork`
(`NoWorkAssumption`), no refresh is `NoRefresh` (`LoginAssumption`), a null path is
no file (`RollingLogAssumption`). The last also says that there is a longest line,
without which no limit could bound a file, and a first day.

Every invariant and every action property of the passing runs is proved, and
so are the three refinements. Three theorems have hypotheses of their own:
`ZeroVersionSavesCurrent` (an initial version of 0), `BarredKeptOut` (initial
versions up to 0) and `OneDaemonShowsHistory` (one daemon).

`OrderAggregateProofs`. What a stream replays to is a recursive function of its
length. The prover can not use the library's induction theorems, whose parameter
is an operator, so induction over a stream is done by the smallest
counterexample: the set of lengths at which the claim fails, were it not empty,
would have a least element (`SmallestExists`, from the well-foundedness of `<`).
`RebuiltNext` gives one step of the replay, `RebuiltIsContents` that all streams
replay to an order's contents.

`AggregateRepositoryProofs`. The inductive invariant `IInv` has, besides
`TypeOK`, `NoLostUpdate`, `AppliedIsPrefix` and `OneSavePerStream`:
`VersionCounts` (a version is the initial one plus the events applied and
queued), `PendingFollowsApplied` (the queue is numbered from the history its
author has applied), `IdleIsEmpty`, and `NothingStoredAbove`. It is needed
because `NoLostUpdate` alone says nothing of aggregates in hand: that an
accepted save has seen the whole stream (`AcceptedSaveHasSeenAll`) follows from
the expected version only through `VersionCounts`, and that its view is the
stream itself only through `AppliedIsPrefix`. `Invariance` proves it; its
corollaries are `TypeCorrect`, `NoUpdateIsLost`, `ReadsArePrefixes`,
`OnlyCreationIsSaved` and, for an initial version of 0, `ZeroVersionSavesCurrent`.
`ReadsEndRight` is an action property from `IInv`: only `ReadSlice` ends a read
(`EndsRead`), and the version it compares is the initial one and the events applied
(`VersionCounts`).

`OrderRequestsProofs`. `IInv` (with `TypeOK`: `TypeCorrect`) links each stage of a request to the version of
the aggregate in its hand (`VersionInHand`), the documents to the streams
(`ShownIsStored`) and the streams to their first event (`FirstEventOnly`).
`NoOrderIsAmended` follows for every initial version: a negative one makes
`SaveAsync` expect no stream, and from 0 on `LooksNew` refuses the creation
itself, so no version makes both creating and changing an order possible.
A second invariant, `Answering`, is inductive given the first. That a caller is
told of stored orders only (`ToldOrdersAreStored`) needs that an answer is the
last thing a request does (`AnswersLast`, `PlacedLast`): until then its target
is still being looked for. That a second order comes only from a request that
came in before the first was shown (`OnlyOverlapDuplicates`) needs to be said of
requests on their way to an order, not only of orders placed (`SeenStopsAdding`:
the lookup of a request that has seen an order finds one), and that what was
seen is still shown (`SeenIsShown`). `StepShape` says once what a step leaves
alone.

`MenuRequestsProofs`. `ApplyType` takes the type invariant through every `Apply`
of the six classes. `Good` says what a request has in hand at each stage: a
creation, the new aggregate with its event applied; a change, an aggregate of a
stream of length one; and `ShortStream` that a stream of length one means an
initial version below 0 and one of length 0 a new aggregate. `OnlyNewIsTaken`
draws from them that `SaveAsync` takes creations of items that have no stream
and nothing else, and with it `MenuNeverChanges` and `OneCreatorOnly` follow for
any number of requests and items. `FillingDatesMoveAsNamed` goes
back from a request at its save to the step that took it there
(`ReachesSaveMoved`), to what `Apply` does with the date of a command, class by class
(`DateMoves`), and forward again, since nothing changes what it holds (`HeldInSave`).

`ImplementsWriteOnceStore`, in both, is the refinement: the invariants give what a
step of the store needs (an accepted save is on an empty stream, whoever is told
of a thing is told of a stored one), every action is mapped to one of the store's
or to a stutter, and neither liveness nor fairness is part of it.

`OrderChangesProofs`. `TypeCorrect` needs that what is read from a stream is an
order's contents, whatever the stream (`RebuiltIsContents`). `BarredKeptOut` needs
`InHand`: at every stage a request holds what some beginning of its stream
replays to, and that beginning allows the command once it is applied;
`BeginningsStay` carries this over appends of others, and `HasReadAll` draws from
the version arithmetic that the stream takes an event only from a request whose
beginning is all of it. This is false for initial versions above 0, hence the
theorem's assumption, which the code's -100 meets. `OnlyOffersAreAdded` needs that
the menu as it is belongs to what a running request has seen (`SeesMenu`), and
for each stage what must have been seen on offer to get there (`SawOffers`); the filling
is that of the aggregate in hand, not of the document. `RefusalsHaveCause` is an
action property: every refusal is the end of a validation (`RefusalHasCause`), and a
request that goes on to its filling although it is not valid carries its cause with
it (`InvalidForCause`), whatever the menu says by then.

`ExternalLoginProofs`. `IInv` says of each stage what the account in hand is:
one that exists before it is linked (`LinkHasAccount`), the one the identity's
login leads to from then on (`Linked`), one that can be read once the browser
is about to be let in (`SignedInReadable`). `UnreadableKeptOut` needs besides
that no refresh ever stores a claim without a value, which `Throws` prevents before anything is written; `OrphansForGood` is
an action property from the same invariant: only `AddLogin` links, and only the
account of a browser that is about to link it.
A second invariant, `RInv`, is about the refreshes: each that goes on is of an
account there is (`Typed`), one that is alone is the only one of its account
(`Alone`), and what such a one has stored so far is still there, as is whatever
it is going to replace (`Pending`). `TypeCorrect` follows, and
`RefreshLeavesCurrent`: a refresh ends when nothing is due, and by `Pending` all that
is not due is there. That the provider says one thing of each type is used where
a claim is replaced: it takes away no other that was stored before.

`OrderDenormalizerProofs`. `IInv` says that events are numbered as in the log
wherever they are, waiting, being handled or to be retried, and that every copy
read and every save on its way is a document (`TypeCorrect`). `NewCopies` adds that
a copy with version 0, the only kind whose save inserts, is what `OrderAdded` makes
of no document; `OnlyOrderAddedCreates` follows, late saves included. For
`AckedOrdersAreVisible` the invariant `HandledIsVisible` looks one step ahead of
the acknowledgement: the document of an `OrderAdded` that is being handled is there
unless its save is still to insert it. It stays so because no save ever removes a
document (`SaveShape`), so none of this depends on how many daemons there are.

With one daemon, and faults that leave no save behind (`OneDaemon`), the
documents implement `ReadModel` (`OneDaemonShowsHistory`). The invariant `History`
says where events can be: the acknowledged ones are a beginning of the log, the
daemon has those that come next, in order, and the rest is to be sent (`InOrder`);
what it is saving was made of the document as it is (`Working`); and every field of
every document is from a moment that the replay has reached (`Between`), perhaps
each from a different one while events are repeated. `Between` is weaker than what the
refinement says of a moment at which nothing is repeated, but is what survives a
rewind: when the replay has caught up, what is left is the moment of the events
acknowledged and that of the event in hand, which its save tells apart.
Each save adds one event by `RebuiltNext`, and a repeated event changes no field to
anything but what some moment says. Two daemons break `Working`: one saves the copy
it made before the other's save.

`RollingLogProofs`. `Shape` holds of any number of processes, and so does
`TypeCorrect`: a file's number stays below the number of lines, because each file
before it on its day was given one. `Sole(w)` is about a
process that alone has written: what it has listed is what there is, its file is
the newest, and is of the day it has noted unless it is about to name one.
`NamesInOrder` follows, through failed deletions (each of
which the purge reports in a line of its own, before its caller's line) and
restarts at any point. That a new name is above all names of its day rests on
`HighestExists`: of finitely many files one has the highest number, taken from the
well-foundedness of strict inclusion. `NumbersFollow` adds `Follows`: the file that is
to be written next is there, or the first of its day, or the one before it is there
and full; the purge in between keeps that one, because it is the newest.

`LatestIsHeld`, also of one process, adds `Unbroken`: from any line that the newest
files hold they hold all to the last. The files to be kept are the newest by name
(`Top`), which by `NamesInOrder` are those with the latest lines; a purge takes files
from the other end, and a new file comes after all of them.

`ArchiveStaysBounded` holds of any number of processes. That a purge leaves few
files is not enough, since another process may purge by a list it made long
before and so spare files it has not seen. `Accounted` puts every file in one of three
places: those some purge kept (at most `Keep`), those that could not be deleted
(at most `stuck`), and one for each process that has written, the file it made
last. What makes this inductive is the order in which processes have listed the
directory (`rank`): a file that a process's list lacks is the last one of another
process, and if that one is itself about to purge, it has listed the directory
later, so that its purge will account for the files.

`SizesStayBounded`, likewise of any number, says for each file how many characters
each process has given it since it was last found within the limit (`Spent`): for
the process whose file it is no more than its own count, which the limit stops;
for any other no more than the limit and a line, because it comes back to a file only
by name, that is, after it has looked at its length. The sum over the processes
is the cardinality of a set of pairs (`Used`), since a sum over a set is a
recursion that the prover has no induction for.

Only model-checked: `Converges` and `EveryoneGetsIn`, since liveness under fairness
is out of the prover's reach, and the four findings, whose runs are
counterexamples.

## What is not modelled

Serialisation, events of an unknown type, deleted streams (nothing deletes one),
the identity of the user who last changed an order, paging of lists, and the
read-only requests. Of the identity server: consent, which passes a form on to
IdentityServer4, the login page, and two factors and lock-out, which nothing
switches on. `Menu.API` has two controllers whose operations throw
`NotImplementedException`. Vendored and generated
JavaScript is third-party code and stays outside.

### Defects read off the code

Some defects show in one line and depend neither on history nor on order. The models
have them as the code has them, but no property is about them, since it could only
repeat the line:

* `OrderCommandAuthorizationResource.cs:9`: the constructor leaves the order null, so
  that `OrderCommandHandler` throws for everyone with an e-mail claim, the recipient
  included, and nobody changes an order through the API (`ResourceOrder`);
  `OrderCommandHandlerTests.cs:170` expects the recipient to succeed.
* `MenuService.cs:112`: a menu option is looked for among the fillings, so that none
  can be ordered and a filling can be in its place (`LookedForAmong`), though
  `UsersController.cs:273` documents 'Add a Menu Option to an existing Lunch Order'.
* `MenuService.cs:140`: `IsDateEmbargoed` is true when calendar and provider are
  available. The validator takes it so; the lists of breads, fillings and options
  take it as it is named, and are empty exactly when something can be ordered.
* `MenuCommandValidatorBase.cs:49-53`: the day that is checked is that of UTC, the day
  that is stored is the one given (`CheckedDays`), so that east of Greenwich a local
  midnight is checked as the day before.
* `CalendarService.cs:34` returns true before it looks at the calendar, so that orders
  for closed dates are accepted (`IsAvailable`, `CalendarIsAvailable`).
* `FillingUpdated.cs:14` assigns its properties to its parameters, so that an updated
  filling would have no meal (`Raised`).
* The factory has no validator for `AmendOpenOrderDate`, so that
  `LocalMenuService.cs:548` dereferences null and no open order date is ever amended
  (`HasValidator`).

## Plan

Done: the availability of the menu over a changing order (`OrderChanges`), the two
abstract specifications and the refinements, the identity server's sign-in, and
the proofs of all invariants and action properties. Left:

1. What `OrderDenormalizer` shows with several daemons, field by field, as an abstract
   specification weaker than `ReadModel`.
2. Liveness of `OrderRequests`: that a caller who is not refused is answered,
   under fairness of the server and of the projection (for TLC).
3. Consent of the identity server, together with the cache of its requests.
4. `OrderDenormalizer` and `OrderRequests` composed, with `ReadModel` in place of
   the former, so that a caller's view is that of the documents.
