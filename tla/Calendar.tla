-------------------------------- MODULE Calendar --------------------------------
(* The date helpers of helper.js: counting days between two dates without some of  *)
(* them, the hour on a 12-hour clock, and clocks that show it every second. Dates  *)
(* are given without a time, so they are midnights of UTC; days are numbered from a *)
(* Sunday, and weekdays from 0.                                                    *)
EXTENDS Integers, FiniteSets, SequencesExt

CONSTANTS
  LastDate,    \* dates are 1..LastDate
  Items,       \* what can be left out: [by |-> "date" or "weekday", at |-> a number]
  MaxItems,    \* bound: length of the list of what is left out
  Elements,    \* elements that show a clock
  MaxClocks    \* bound: clocks made

VARIABLES
  question,    \* the two dates and the list calculateDays() was called with
  answer,      \* what it returned
  west,        \* the browser is west of Greenwich: midnight of UTC is the day before
  hour,        \* hour of the day
  clocks,      \* clocks made so far
  timers,      \* clocks whose interval timer runs
  place,       \* [1..MaxClocks -> the element of a clock]
  timerId,     \* [Elements -> data-clock-timer-id, 0 when there is none]
  stale        \* the cleanup of a clock that had been replaced was called

vars == <<question, answer, west, hour, clocks, timers, place, timerId, stale>>

Dates == 1..LastDate
Weekday(d) == d % 7

(* ----------------------------- counting days ----------------------------- *)
Earlier(a, b) == IF a < b THEN a ELSE b
Later(a, b) == IF a < b THEN b ELSE a

\* getDay() goes by the time of the browser.
GetDay(d) == (IF west THEN d + 6 ELSE d) % 7

\* Both ends belong to the range.
GetDatesByDay(from, to, w) == {d \in from .. to : GetDay(d) = w}

\* Mutant: a date is left out only if it lies between the two.
LeavesOutInner(item, from, to) ==
  IF item.by = "date" THEN IF from < item.at /\ item.at < to THEN 1 ELSE 0
  ELSE Cardinality(GetDatesByDay(from, to, item.at))

\* What one item of the list takes off, whatever the others have taken.
LeftOut(item, from, to) ==
  IF item.by = "date" THEN IF from <= item.at /\ item.at <= to THEN 1 ELSE 0
  ELSE Cardinality(GetDatesByDay(from, to, item.at))

CalculateDays(a, b, exception) ==
  IF a = b THEN 0
  ELSE LET from == Earlier(a, b)  to == Later(a, b)
       IN FoldLeft(LAMBDA days, item : days - LeftOut(item, from, to), to - from, exception)

Count(a, b, exception) ==
  /\ question' = [from |-> a, to |-> b, exception |-> exception]
  /\ answer' = CalculateDays(a, b, exception)
  /\ UNCHANGED <<west, hour, clocks, timers, place, timerId, stale>>

(* ------------------------------ the 12 hours ------------------------------ *)

\* getClock(), getCurrentTime() and date() each turn the hour over in this way.
TwelveHours(h) ==
  [hour |-> IF h % 12 = 0 THEN 12 ELSE h % 12, period |-> IF h >= 12 THEN "PM" ELSE "AM"]

PassHour ==
  /\ hour' = (hour + 1) % 24
  /\ UNCHANGED <<question, answer, west, clocks, timers, place, timerId, stale>>

(* -------------------------------- clocks --------------------------------- *)

\* showClock()
ShowClock(e, running) ==
  /\ clocks < MaxClocks /\ clocks' = clocks + 1
  /\ timers' = running \cup {clocks + 1}
  /\ place' = [place EXCEPT ![clocks + 1] = e]
  /\ timerId' = [timerId EXCEPT ![e] = clocks + 1]
  /\ UNCHANGED <<question, answer, west, hour, stale>>

\* A page shows a clock; the timer that is written on the element is there to be
\* cleared before.
Replace(e) == ShowClock(e, timers \ {timerId[e]})

\* The function that showClock() returned takes the attribute off the element,
\* whichever clock has written it.
Cleanup(t) ==
  /\ t <= clocks
  /\ timers' = timers \ {t}
  /\ timerId' = [timerId EXCEPT ![place[t]] = 0]
  /\ stale' = (stale \/ timerId[place[t]] # t)
  /\ UNCHANGED <<question, answer, west, hour, clocks, place>>

(* ---------------------------- specification ------------------------------ *)
Lists == UNION {[1..n -> Items] : n \in 0..MaxItems}

NoQuestion == [from |-> 1, to |-> 1, exception |-> <<>>]

Init ==
  /\ question = NoQuestion /\ answer = 0 /\ west \in BOOLEAN
  /\ hour = 0 /\ clocks = 0 /\ timers = {}
  /\ place = [t \in 1..MaxClocks |-> CHOOSE e \in Elements : TRUE]
  /\ timerId = [e \in Elements |-> 0] /\ stale = FALSE

\* The parts have nothing to do with each other: a page is followed for one of them.
Next ==
  \/ /\ question = NoQuestion /\ clocks = 0 /\ hour = 0
     /\ \E a, b \in Dates, exception \in Lists : Count(a, b, exception)
  \/ question = NoQuestion /\ clocks = 0 /\ PassHour
  \/ question = NoQuestion /\ hour = 0 /\ \E e \in Elements : Replace(e)
  \/ \E t \in 1..MaxClocks : Cleanup(t)

Spec == Init /\ [][Next]_vars

(* ------------------------------ properties ------------------------------- *)
TypeOK ==
  /\ answer \in Int /\ hour \in 0..23 /\ {west, stale} \subseteq BOOLEAN
  /\ clocks \in 0..MaxClocks /\ timers \subseteq 1..clocks
  /\ timerId \in [Elements -> 0..MaxClocks]

Names(item, d) == IF item.by = "date" THEN item.at = d ELSE Weekday(d) = item.at
Naming(d) == {i \in DOMAIN question.exception : Names(question.exception[i], d)}
First == Earlier(question.from, question.to)
End == Later(question.from, question.to)
ByWeekday == \E i \in DOMAIN question.exception : question.exception[i].by = "weekday"

\* calculateDays() counts the days up to the later date that nothing in the list names,
\* although it counts with that date left out and subtracts with it taken in: as long
\* as the list does not name that date, or another twice, or a weekday in the west.
DaysAreCounted ==
  (\A d \in First..End : Cardinality(Naming(d)) <= IF d = End THEN 0 ELSE 1) /\ ~(west /\ ByWeekday) =>
    answer = Cardinality({d \in First .. End - 1 : Naming(d) = {}})

\* Where it errs it counts too few days, never too many.
NeverTooMany ==
  ~(west /\ ByWeekday) => answer <= Cardinality({d \in First .. End - 1 : Naming(d) = {}})

\* Read with its AM or PM, the hour shown is the hour of the day: at noon and midnight too.
HourReadsBack ==
  LET t == TwelveHours(hour) IN
  hour = (t.hour % 12) + (IF t.period = "PM" THEN 12 ELSE 0) /\ t.hour \in 1..12

\* A page that clears the timer written on the element before it shows another clock
\* never has two clocks there, unless the cleanup of a clock long replaced was called.
OneClockEach ==
  ~stale => \A t, u \in timers : place[t] = place[u] => t = u

\* The timer written on an element is one that runs.
TimerIdRuns == \A e \in Elements : timerId[e] \in timers \cup {0}
===============================================================================
