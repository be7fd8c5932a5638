---------------------------- MODULE MenuAggregates ----------------------------
(***************************************************************************)
(* The aggregates of Menu.Domain: what each command raises and what each   *)
(* Apply does.  Every command raises one event with the command's data, so *)
(* an event is written as the command.  The fields of the six classes      *)
(* share one record, in which a class that lacks a field leaves it alone.  *)
(* Names, editors and times of day are left out, and so is the list        *)
(* MenuCategories: it starts empty, and Apply(FillingUpdated) replaces     *)
(* only a list that is not.                                                *)
(***************************************************************************)
EXTENDS Integers

CONSTANTS
    Dates,        \* dates that commands name, as day numbers
    NamedDays,    \* days of the week that commands name
    Meals,        \* MealType
    NoMeal        \* 0, what an unassigned MealType is: none of the declared ones

\* DayOfWeek, from Sunday.
Weekdays == 0..6

ASSUME MenuAssumption ==
    /\ Dates \subseteq Nat \ {0}
    /\ NamedDays \subseteq Weekdays
    /\ NoMeal \notin Meals

Classes == {"Bread", "MenuOption", "LunchProvider", "Filling", "MenuCategory", "Calendar"}

\* The instance a constructor makes before any event: WithdrawnDates,
\* AvailableDays, OrdersStillOpenBeyond (0 for the default DateTime), Status,
\* MealType, DisallowBread and DisallowMenuOptions.
NewAggregate ==
    [status |-> "Available", withdrawn |-> {}, openDays |-> {}, openBeyond |-> 0,
     meal |-> NoMeal, noBread |-> FALSE, noOptions |-> FALSE]

Aggregate ==
    [status : {"Available", "Withdrawn"}, withdrawn : SUBSET Dates,
     openDays : SUBSET Weekdays, openBeyond : Dates \cup {0},
     meal : Meals \cup {NoMeal}, noBread : BOOLEAN, noOptions : BOOLEAN]

-----------------------------------------------------------------------------
(* Commands *)

ForDate == {"ActivateForDate", "WithdrawForDate"}

BreadOps == ForDate \cup {"Create", "Activate", "Withdraw", "ChangeName"}

MenuOptionOps == BreadOps

LunchProviderOps == BreadOps

FillingOps ==
    BreadOps \cup {"AllowBread", "DisallowBread",
                   "AllowMenuOptions", "DisallowMenuOptions", "Update"}

MenuCategoryOps == {"Create", "ChangeName"}

CalendarOps == ForDate \cup {"Create", "OpenDay", "CloseDay", "AmendOpenOrderDate"}

Ops == [Bread |-> BreadOps, MenuOption |-> MenuOptionOps,
        LunchProvider |-> LunchProviderOps, Filling |-> FillingOps,
        MenuCategory |-> MenuCategoryOps, Calendar |-> CalendarOps]

\* The date or the day of the week a command names, if any.
Names(op) ==
    IF op \in ForDate \cup {"AmendOpenOrderDate"} THEN Dates
    ELSE IF op \in {"OpenDay", "CloseDay"} THEN NamedDays
    ELSE {0}

\* The meal it gives, if any.
Gives(class, op) == IF class = "Filling" /\ op \in {"Create", "Update"} THEN Meals
                    ELSE {NoMeal}

Commands(class) ==
    UNION {[op : {op}, on : Names(op), meal : Gives(class, op)] : op \in Ops[class]}

\* The constructor of FillingUpdated assigns to its parameters: the event's own
\* MealType stays unassigned.
Raised(c) == IF c.op = "Update" THEN [c EXCEPT !.meal = NoMeal] ELSE c

-----------------------------------------------------------------------------
(* Apply *)

\* The overloads that set Status, and those that set a name.
ApplyStatus(a, e) ==
    CASE e.op \in {"Create", "Activate"} -> [a EXCEPT !.status = "Available"]
      [] e.op = "Withdraw" -> [a EXCEPT !.status = "Withdrawn"]
      [] OTHER -> a

\* WithdrawnDates gets the dates that are activated and loses those that are
\* withdrawn.
ApplyBread(a, e) ==
    CASE e.op = "ActivateForDate" -> [a EXCEPT !.withdrawn = @ \cup {e.on}]
      [] e.op = "WithdrawForDate" -> [a EXCEPT !.withdrawn = @ \ {e.on}]
      [] OTHER -> ApplyStatus(a, e)

\* As in BreadAggregate.
ApplyMenuOption(a, e) == ApplyBread(a, e)

\* As in BreadAggregate.
ApplyLunchProvider(a, e) == ApplyBread(a, e)

\* Mutant: the overloads copied from BreadAggregate.
ApplyFillingCopied(a, e) == ApplyBread(a, e)

\* Here WithdrawnDates gets the dates that are withdrawn.
ApplyFilling(a, e) ==
    CASE e.op = "Create" -> [a EXCEPT !.status = "Available", !.meal = e.meal]
      [] e.op = "ActivateForDate" -> [a EXCEPT !.withdrawn = @ \ {e.on}]
      [] e.op = "WithdrawForDate" -> [a EXCEPT !.withdrawn = @ \cup {e.on}]
      [] e.op \in {"AllowBread", "DisallowBread"} ->
             [a EXCEPT !.noBread = (e.op = "DisallowBread")]
      [] e.op \in {"AllowMenuOptions", "DisallowMenuOptions"} ->
             [a EXCEPT !.noOptions = (e.op = "DisallowMenuOptions")]
      [] e.op = "Update" -> [a EXCEPT !.meal = e.meal]
      [] OTHER -> ApplyStatus(a, e)

\* Mutant: the days of the week counted from 1.
DayIndexFromOne(d) == d + 1

\* The index of a day in AvailableDays.
DayIndex(d) == d

\* A calendar starts with the days from Monday to Friday.
ApplyCalendar(a, e) ==
    CASE e.op = "Create" -> [a EXCEPT !.openDays = 1..5]
      [] e.op = "ActivateForDate" -> [a EXCEPT !.withdrawn = @ \ {e.on}]
      [] e.op = "WithdrawForDate" -> [a EXCEPT !.withdrawn = @ \cup {e.on}]
      [] e.op = "OpenDay" -> [a EXCEPT !.openDays = @ \cup {DayIndex(e.on)}]
      [] e.op = "CloseDay" -> [a EXCEPT !.openDays = @ \ {DayIndex(e.on)}]
      [] e.op = "AmendOpenOrderDate" -> [a EXCEPT !.openBeyond = e.on]

\* A category has only its name.
ApplyMenuCategory(a, e) == a

\* ApplyEvent: the router finds the overload of the event's type.
Apply(class, a, e) ==
    CASE class = "Bread" -> ApplyBread(a, e)
      [] class = "MenuOption" -> ApplyMenuOption(a, e)
      [] class = "LunchProvider" -> ApplyLunchProvider(a, e)
      [] class = "Filling" -> ApplyFilling(a, e)
      [] class = "MenuCategory" -> ApplyMenuCategory(a, e)
      [] class = "Calendar" -> ApplyCalendar(a, e)
=============================================================================
