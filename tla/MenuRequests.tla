----------------------------- MODULE MenuRequests -----------------------------
(***************************************************************************)
(* The commands that LocalMenuService handles, from the user's claim to    *)
(* the save on the event store: creations of the menu's items and          *)
(* commands on existing ones, which all go through the same steps.  Other  *)
(* requests move between the steps.  A stream is its length and the        *)
(* aggregate GetByIdAsync rebuilds from it.  Nothing in the repository     *)
(* writes the menu's documents: Project stands for what does, and the date *)
(* that a calendar's document says orders are still open beyond is any.    *)
(* A document that can not be read is a request that goes no further.      *)
(***************************************************************************)
EXTENDS AggregateVersioning, MenuAggregates, FiniteSets

CONSTANTS
    Requests,   \* commands given to the service
    Items,      \* identities of breads, fillings, calendars, ...
    ClassOf,    \* the class of each
    UtcShifts   \* days by which a date may move when it is converted to UTC

ASSUME ItemsAssumption ==
    /\ ClassOf \in [Items -> Classes]
    /\ UtcShifts \subseteq -1..1

VARIABLES
    call,      \* the command of each request and the item it is about
    stage,     \* the next thing its thread does
    hand,      \* the aggregate it holds
    version,   \* Version of that aggregate
    answer,    \* the CommandStatus, or the failure
    events,    \* length of each item's stream
    stored,    \* the aggregate its stream stands for
    shown,     \* items with a document
    beyond     \* OrdersStillOpenBeyond in the documents of calendars

request == <<call, stage, hand, version, answer>>
vars == <<request, events, stored, shown, beyond>>

Call == UNION {[item : {i}, command : Commands(ClassOf[i])] : i \in Items}

Stages == {"none", "load", "validate", "save", "answered"}

Answers == {"none", "ok", "refused", "failed"}

Creates(r) == call[r].command.op = "Create"

Class(r) == ClassOf[call[r].item]

Init ==
    /\ call \in [Requests -> Call]
    /\ stage = [r \in Requests |-> "none"]
    /\ hand = [r \in Requests |-> NewAggregate]
    /\ version = [r \in Requests |-> InitialVersion]
    /\ answer = [r \in Requests |-> "none"]
    /\ events = [i \in Items |-> 0]
    /\ stored = [i \in Items |-> NewAggregate]
    /\ shown = {}
    /\ beyond = [i \in Items |-> 0]

GoTo(r, s) == stage' = [stage EXCEPT ![r] = s] /\ UNCHANGED answer

Answer(r, a) ==
    /\ stage' = [stage EXCEPT ![r] = "answered"]
    /\ answer' = [answer EXCEPT ![r] = a]

Hold(r, a, v) ==
    /\ hand' = [hand EXCEPT ![r] = a]
    /\ version' = [version EXCEPT ![r] = v]

Raise(r, a, v) == Hold(r, Apply(Class(r), a, Raised(call[r].command)), v + 1)

-----------------------------------------------------------------------------
(* The read side *)

Calendars == {i \in shown : ClassOf[i] = "Calendar"}

\* The document of an item that was created.
Project(i) ==
    /\ events[i] > 0
    /\ i \notin shown
    /\ shown' = shown \cup {i}
    /\ IF ClassOf[i] = "Calendar"
       THEN \E d \in Dates : beyond' = [beyond EXCEPT ![i] = d]
       ELSE UNCHANGED beyond
    /\ UNCHANGED <<request, events, stored>>

\* ToUniversalTime before Date: the day that is checked for a command that
\* names d.  The commands and their events keep the date as it was given.
CheckedDays(d) == {d + s : s \in UtcShifts}

\* WithdrawlDateValidation finds nothing against the date.  GetCalendarAsync
\* returns the first calendar found, or null.
DateIsOpen(d) == \E c \in Calendars, day \in CheckedDays(d) : day >= beyond[c]

DateIsClosed(d) ==
    Calendars = {} \/ \E c \in Calendars, day \in CheckedDays(d) : day < beyond[c]

-----------------------------------------------------------------------------
(* LocalMenuService and its validators *)

\* HandleForUserAsync: without an e-mail claim it throws.  A creation makes the
\* new aggregate, another command needs one from the event store.
Receive(r) ==
    /\ stage[r] = "none"
    /\ \/ Answer(r, "failed") /\ UNCHANGED <<hand, version>>
       \/ Creates(r) /\ GoTo(r, "validate") /\ Raise(r, NewAggregate, InitialVersion)
       \/ ~Creates(r) /\ GoTo(r, "load") /\ UNCHANGED <<hand, version>>
    /\ UNCHANGED <<call, events, stored, shown, beyond>>

Load(r) ==
    LET i == call[r].item
    IN  /\ stage[r] = "load"
        /\ events[i] > 0
        /\ Hold(r, stored[i], InitialVersion + events[i])
        /\ GoTo(r, "validate")
        /\ UNCHANGED <<call, events, stored, shown, beyond>>

\* AggregateNotFoundException, or the event store is not reached.
LoadFails(r) ==
    /\ stage[r] = "load"
    /\ Answer(r, "failed")
    /\ UNCHANGED <<call, hand, version, events, stored, shown, beyond>>

\* IsValidAsync of a creation: the editor or the name may be missing, the
\* aggregate must look new and have no document.
ValidateCreate(r) ==
    /\ stage[r] = "validate"
    /\ Creates(r)
    /\ \/ Answer(r, "refused")
       \/ LooksNew(version[r]) /\ call[r].item \notin shown /\ GoTo(r, "save")
    /\ UNCHANGED <<call, hand, version, events, stored, shown, beyond>>

\* GetValidatorFor returns null for a command its validator does not implement.
HasValidator(r) == call[r].command.op # "AmendOpenOrderDate"

\* IsValidAsync of the other commands: a date must be open, a new name not
\* empty.  The aggregate then raises its event.
ValidateChange(r) ==
    LET c == call[r].command
    IN  /\ stage[r] = "validate"
        /\ ~Creates(r)
        /\ \/ /\ ~HasValidator(r)
              /\ Answer(r, "failed")
              /\ UNCHANGED <<hand, version>>
           \/ /\ \/ c.op = "ChangeName"
                 \/ c.op \in ForDate /\ DateIsClosed(c.on)
              /\ Answer(r, "refused")
              /\ UNCHANGED <<hand, version>>
           \/ /\ HasValidator(r)
              /\ c.op \in ForDate => DateIsOpen(c.on)
              /\ Raise(r, hand[r], version[r])
              /\ GoTo(r, "save")
        /\ UNCHANGED <<call, events, stored, shown, beyond>>

\* SaveAsync with the one event the command has raised.
StreamTakes(r) == Accepts(events[call[r].item], ExpectedVersion(version[r], 1))

SaveAccepted(r) ==
    LET i == call[r].item
    IN  /\ stage[r] = "save"
        /\ StreamTakes(r)
        /\ events' = [events EXCEPT ![i] = @ + 1]
        /\ stored' = [stored EXCEPT ![i] = Apply(ClassOf[i], @, Raised(call[r].command))]
        /\ Answer(r, "ok") \/ Answer(r, "failed")
        /\ UNCHANGED <<call, hand, version, shown, beyond>>

\* Mutant: the save is started and not awaited.
SaveNotAwaited(r) ==
    /\ stage[r] = "save"
    /\ Answer(r, "ok")
    /\ UNCHANGED <<call, hand, version, events, stored, shown, beyond>>

\* WrongExpectedVersionException, or the event store is not reached.
SaveFails(r) ==
    /\ stage[r] = "save"
    /\ Answer(r, "failed")
    /\ UNCHANGED <<call, hand, version, events, stored, shown, beyond>>

-----------------------------------------------------------------------------
RequestStep(r) ==
    \/ Receive(r)
    \/ Load(r)
    \/ LoadFails(r)
    \/ ValidateCreate(r)
    \/ ValidateChange(r)
    \/ SaveAccepted(r)
    \/ SaveFails(r)

Next ==
    \/ \E r \in Requests : RequestStep(r)
    \/ \E i \in Items : Project(i)

Spec == Init /\ [][Next]_vars

-----------------------------------------------------------------------------
(* Properties *)

TypeOK ==
    /\ call \in [Requests -> Call]
    /\ stage \in [Requests -> Stages]
    /\ hand \in [Requests -> Aggregate]
    /\ version \in [Requests -> Int]
    /\ answer \in [Requests -> Answers]
    /\ events \in [Items -> Nat]
    /\ stored \in [Items -> Aggregate]
    /\ shown \subseteq Items
    /\ beyond \in [Items -> Dates \cup {0}]

\* An item has one creator: of the requests that create it, overlapping or
\* repeated, at most one is told it did, and then the stream holds what that
\* request created.
OneCreator ==
    \A r \in Requests : answer[r] = "ok" /\ Creates(r) =>
        /\ stored[call[r].item] = hand[r]
        /\ \A s \in Requests \ {r} :
              call[s].item = call[r].item /\ Creates(s) => answer[s] # "ok"

\* Whatever version aggregates start at, the menu's validators and SaveAsync
\* between them let no item change after it was created: nothing is withdrawn,
\* activated, opened or renamed, and no such command is told it was done.
MenuStaysAsCreated ==
    /\ \A i \in Items : events[i] <= 1
    /\ \A r \in Requests : answer[r] = "ok" => Creates(r)

\* The aggregate that a command about a date is about to save has the date in
\* WithdrawnDates after a withdrawal and not after an activation.
DateIsAsNamed(r) ==
    stage[r] = "save" /\ call[r].command.op \in ForDate =>
        (call[r].command.on \in hand[r].withdrawn
         <=> call[r].command.op = "WithdrawForDate")

\* What the commands' names say, and what the read side takes WithdrawnDates to
\* mean: a date that a command withdraws is withdrawn, whatever the class.
DatesAsNamed == \A r \in Requests : DateIsAsNamed(r)

\* The two classes that keep to it, whatever commands came before.
DatesOfFillingsAsNamed ==
    \A r \in Requests : Class(r) \in {"Filling", "Calendar"} => DateIsAsNamed(r)

-----------------------------------------------------------------------------
(* The store that callers of the menu service see *)

Told == {call[r].item : r \in {q \in Requests : answer[q] = "ok"}}

MenuStore == INSTANCE WriteOnceStore WITH
    Ids <- Items,
    Values <- Aggregate,
    writes <- events,
    value <- stored,
    told <- Told

\* The menu is written once: every step of overlapping and failing commands
\* creates an item that was not there, shows one that is, or does nothing.
MenuIsWrittenOnce == MenuStore!Spec
=============================================================================
