-------------------------------- MODULE Cron --------------------------------
(***************************************************************************)
(* internal/task/cron.go: the loops over the fields of a cron expression,  *)
(* their items and the values of an item, the search for the next time     *)
(* that matches, and what they are to mean.                                *)
(*                                                                         *)
(* A field is a sequence of items; the lone * is the empty sequence.  An   *)
(* item is *, a number or a range, with a step (1 where none is written).  *)
(* Times are minutes; `after` has a fraction of a minute too.  The         *)
(* calendar is a parameter: a small one has all the cases, leap years      *)
(* included.  Time zones shift it and change nothing else.                 *)
(* Numbers are those of mathematics: steps so large that v + step leaves   *)
(* the range of int are left out.                                          *)
(***************************************************************************)
EXTENDS Integers, Sequences, FiniteSets

CONSTANTS
    MinutesPerHour, HoursPerDay, DaysPerWeek,
    Days,          \* <<month, day of the month>> of the days of a cycle of years
    LimitDays,     \* the days searched: four years of 365 days in the code
    Fractions,     \* parts of a minute a time is counted in
    Numbers,       \* numbers written in fields
    FieldBounds,   \* pairs <<min, max>> of a field that is parsed alone
    FieldChoices,  \* expressions to search for: sets of minute, hour, ... fields
    MaxItems       \* items of a field

Star == <<>>
Item == [kind : {"*"}, a : {0}, b : {0}, step : Numbers]
        \cup [kind : {"value"}, a : Numbers, b : {0}, step : Numbers]
        \cup [kind : {"range"}, a : Numbers, b : Numbers, step : Numbers]

Exprs == [minute : Seq(Item), hour : Seq(Item), dayOfMonth : Seq(Item), month : Seq(Item),
          dayOfWeek : Seq(Item)]

ASSUME CalendarAssumption ==
    /\ {MinutesPerHour, HoursPerDay, DaysPerWeek, Fractions} \subseteq Nat \ {0}
    /\ LimitDays \in Nat /\ Days \in Seq(Nat \X Nat) /\ Days # <<>>

ASSUME FieldAssumption ==
    /\ Numbers \subseteq Nat /\ MaxItems \in Nat
    /\ FieldBounds \subseteq Nat \X Nat /\ FieldChoices \subseteq Exprs

VARIABLES
    cronAt,   \* "idle", "field", "item", "value", "search", or how the call ended
    specs,    \* the fields with their bounds
    after,    \* the time after which to search, or NoTime
    parsed,   \* the fields parsed so far
    item,     \* the number of the item at hand
    vals, v,  \* the values of the field so far, and the next one of the item
    tm        \* the minute looked at

cronVars == <<cronAt, specs, after, parsed, item, vals, v, tm>>

NoTime == -1

----------------------------------------------------------------------------
(* The clock: external, package time. *)
MinutesPerDay  == MinutesPerHour * HoursPerDay
DayNo(t)       == t \div MinutesPerDay
MinuteOf(t)    == t % MinutesPerHour
HourOf(t)      == (t \div MinutesPerHour) % HoursPerDay
MonthOf(t)     == Days[(DayNo(t) % Len(Days)) + 1][1]
DayOf(t)       == Days[(DayNo(t) % Len(Days)) + 1][2]
WeekdayOf(t)   == DayNo(t) % DaysPerWeek

contains(f, x) == f.any \/ x \in f.vals

(* Day of the month and day of the week are alternatives where both are     *)
(* given.                                                                   *)
cronMatches(f, t) ==
    LET domHit == contains(f[3], DayOf(t))
        dowHit == contains(f[5], WeekdayOf(t))
    IN  /\ contains(f[1], MinuteOf(t)) /\ contains(f[2], HourOf(t)) /\ contains(f[4], MonthOf(t))
        /\ IF ~f[3].any /\ ~f[5].any THEN domHit \/ dowHit ELSE domHit /\ dowHit

Limit == after + LimitDays * MinutesPerDay * Fractions

----------------------------------------------------------------------------
CronInit ==
    /\ cronAt = "idle" /\ specs = <<>> /\ after = NoTime /\ parsed = <<>>
    /\ item = 0 /\ vals = {} /\ v = 0 /\ tm = 0

Ask(fields, time) ==
    /\ cronAt' = "field" /\ specs' = fields /\ after' = time
    /\ UNCHANGED <<parsed, item, vals, v, tm>>

(* ParseSchedule only parses.  All fields are parsed alike: here one alone, *)
(* with any bounds.                                                         *)
AskField(field, min, max) == Ask(<<[field |-> field, min |-> min, max |-> max]>>, NoTime)

(* nextCronTime is called: parseCronExpr parses the fields in turn. *)
AskTime(e, time) ==
    Ask(<<[field |-> e.minute,     min |-> 0, max |-> MinutesPerHour - 1],
          [field |-> e.hour,       min |-> 0, max |-> HoursPerDay - 1],
          [field |-> e.dayOfMonth, min |-> 1, max |-> 31],
          [field |-> e.month,      min |-> 1, max |-> 12],
          [field |-> e.dayOfWeek,  min |-> 0, max |-> DaysPerWeek - 1]>>, time)

(* The field being parsed. *)
Current == specs[Len(parsed) + 1]

(* parseCronField: the lone * stands for any value. *)
AnyField ==
    /\ cronAt = "field" /\ Len(parsed) < Len(specs) /\ Current.field = Star
    /\ parsed' = Append(parsed, [any |-> TRUE, vals |-> {}])
    /\ UNCHANGED <<cronAt, specs, after, item, vals, v, tm>>

BeginField ==
    /\ cronAt = "field" /\ Len(parsed) < Len(specs) /\ Current.field # Star
    /\ cronAt' = "item" /\ item' = 1 /\ vals' = {}
    /\ UNCHANGED <<specs, after, parsed, v, tm>>

EndField ==
    /\ cronAt = "item" /\ item > Len(Current.field)
    /\ cronAt' = "field" /\ parsed' = Append(parsed, [any |-> FALSE, vals |-> vals])
    /\ UNCHANGED <<specs, after, item, vals, v, tm>>

From(i, min) == IF i.kind = "*" THEN min ELSE i.a
UpTo(i, max) == CASE i.kind = "*" -> max [] i.kind = "range" -> i.b [] OTHER -> i.a

ItemOK(i, min, max) ==
    /\ i.step > 0
    /\ From(i, min) >= min /\ UpTo(i, max) <= max /\ From(i, min) <= UpTo(i, max)

BeginItem ==
    /\ cronAt = "item" /\ item <= Len(Current.field)
    /\ ItemOK(Current.field[item], Current.min, Current.max)
    /\ cronAt' = "value" /\ v' = From(Current.field[item], Current.min)
    /\ UNCHANGED <<specs, after, parsed, item, vals, tm>>

(* An item is refused, and with it the whole expression. *)
BadItem ==
    /\ cronAt = "item" /\ item <= Len(Current.field)
    /\ ~ItemOK(Current.field[item], Current.min, Current.max)
    /\ cronAt' = "refused"
    /\ UNCHANGED <<specs, after, parsed, item, vals, v, tm>>

(* Faulty variant: the end of a range is left out. *)
NextValueBelow ==
    /\ cronAt = "value"
    /\ LET i == Current.field[item]
       IN  IF v < UpTo(i, Current.max)
           THEN vals' = vals \cup {v} /\ v' = v + i.step /\ UNCHANGED <<cronAt, item>>
           ELSE cronAt' = "item" /\ item' = item + 1 /\ UNCHANGED <<vals, v>>
    /\ UNCHANGED <<specs, after, parsed, tm>>

(* The loop over start, start + step, ... up to end, and on to the next     *)
(* item.                                                                    *)
NextValue ==
    /\ cronAt = "value"
    /\ LET i == Current.field[item]
       IN  IF v <= UpTo(i, Current.max)
           THEN vals' = vals \cup {v} /\ v' = v + i.step /\ UNCHANGED <<cronAt, item>>
           ELSE cronAt' = "item" /\ item' = item + 1 /\ UNCHANGED <<vals, v>>
    /\ UNCHANGED <<specs, after, parsed, tm>>

Accepted ==
    /\ cronAt = "field" /\ Len(parsed) = Len(specs) /\ after = NoTime
    /\ cronAt' = "accepted"
    /\ UNCHANGED <<specs, after, parsed, item, vals, v, tm>>

(* Faulty variant: the search begins with the minute that has begun. *)
BeginSearchAt ==
    /\ cronAt = "field" /\ Len(parsed) = Len(specs) /\ after # NoTime
    /\ cronAt' = "search" /\ tm' = after \div Fractions
    /\ UNCHANGED <<specs, after, parsed, item, vals, v>>

(* The search begins with the minute after the one that has begun. *)
BeginSearch ==
    /\ cronAt = "field" /\ Len(parsed) = Len(specs) /\ after # NoTime
    /\ cronAt' = "search" /\ tm' = after \div Fractions + 1
    /\ UNCHANGED <<specs, after, parsed, item, vals, v>>

(* Minute by minute, up to the limit. *)
Search ==
    /\ cronAt = "search"
    /\ IF tm * Fractions > Limit THEN cronAt' = "never" /\ UNCHANGED tm
       ELSE IF cronMatches(parsed, tm) THEN cronAt' = "found" /\ UNCHANGED tm
       ELSE tm' = tm + 1 /\ UNCHANGED cronAt
    /\ UNCHANGED <<specs, after, parsed, item, vals, v>>

CronReturn ==
    /\ cronAt \in {"refused", "accepted", "found", "never"}
    /\ cronAt' = "idle" /\ specs' = <<>> /\ after' = NoTime /\ parsed' = <<>>
    /\ item' = 0 /\ vals' = {} /\ v' = 0 /\ tm' = 0

CronWork ==
    \/ AnyField \/ BeginField \/ EndField \/ BeginItem \/ BadItem \/ NextValue
    \/ Accepted \/ BeginSearch \/ Search \/ CronReturn

CronStep ==
    \/ /\ cronAt = "idle"
       /\ \/ \E n \in 0 .. MaxItems, b \in FieldBounds : \E field \in [1 .. n -> Item] :
                 AskField(field, b[1], b[2])
          \/ \E e \in FieldChoices, time \in 0 .. Len(Days) * MinutesPerDay * Fractions :
                 AskTime(e, time)
    \/ CronWork

CronSpec == CronInit /\ [][CronStep]_cronVars

----------------------------------------------------------------------------
(* What an item stands for: the numbers of its range that are a whole       *)
(* number of steps away from its beginning.                                 *)
Denotes(i, x, min, max) ==
    /\ From(i, min) <= x /\ x <= UpTo(i, max)
    /\ \E k \in 0 .. x - From(i, min) : x = From(i, min) + k * i.step

(* What a field with its bounds stands for. *)
Means(s, x) == s.field = Star \/ \E n \in 1 .. Len(s.field) : Denotes(s.field[n], x, s.min, s.max)

WellFormed(s) ==
    \A n \in 1 .. Len(s.field) :
        LET i == s.field[n]
        IN  /\ i.step # 0
            /\ From(i, s.min) \in s.min .. s.max
            /\ UpTo(i, s.max) \in From(i, s.min) .. s.max

(* An expression is accepted exactly if every item of every field has a     *)
(* step and a range within the bounds, and then each field holds exactly    *)
(* the values that one of its items stands for; a lone * stands for all.    *)
(* (cron.go:101)                                                            *)
FieldDenotation ==
    /\ cronAt = "refused" => \E n \in 1 .. Len(specs) : ~WellFormed(specs[n])
    /\ cronAt \in {"accepted", "search", "found", "never"} =>
          \A n \in 1 .. Len(specs) :
              /\ WellFormed(specs[n])
              /\ \A x \in specs[n].min .. specs[n].max :
                    contains(parsed[n], x) <=> Means(specs[n], x)

(* The minutes an expression stands for: where both kinds of days are given *)
(* one of them is enough, and a field that is not * counts as given even if *)
(* it lists every day.                                                      *)
DueAt(t) ==
    LET days == {n \in {3, 5} : specs[n].field # Star}
        hit  == {n \in days : Means(specs[n], IF n = 3 THEN DayOf(t) ELSE WeekdayOf(t))}
    IN  /\ Means(specs[1], MinuteOf(t)) /\ Means(specs[2], HourOf(t)) /\ Means(specs[4], MonthOf(t))
        /\ days # {} => hit # {}

(* The next time is later than the given one, matches, and leaves out no    *)
(* match in between; there is none exactly if nothing matches within the    *)
(* limit.  A leap day can be further away than four times 365 days          *)
(* (cron.go:37): it then counts as never.                                   *)
NextIsLeast ==
    /\ cronAt = "found" =>
          /\ tm * Fractions > after /\ tm * Fractions <= Limit /\ DueAt(tm)
          /\ \A t \in 0 .. tm - 1 : t * Fractions > after => ~DueAt(t)
    /\ cronAt = "never" =>
          \A t \in 0 .. Limit : t * Fractions > after /\ t * Fractions <= Limit => ~DueAt(t)

(* "9 AM through 4:30 PM, every 30 minutes" (cron_test.go:43) is written    *)
(* 0/30 9-16 there: a number with a step begins a progression.  The code    *)
(* takes the number alone.                                                  *)
StepFromValue ==
    cronAt = "accepted" =>
        \A n \in 1 .. Len(specs[1].field) :
            LET i == specs[1].field[n]
            IN  i.kind = "value" /\ i.step > 1 =>
                    \A x \in i.a .. specs[1].max : (x - i.a) % i.step = 0 => x \in parsed[1].vals
=============================================================================
