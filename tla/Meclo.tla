------------------------------- MODULE Meclo --------------------------------
(***************************************************************************)
(* The clock MECLO (src/io/cchar/meclo.c): a calendar with four keys, HS,  *)
(* MS, DR and TR, and a display, all worked by a program.                  *)
(*                                                                         *)
(* The CPU presses keys; timers of the I/O loop let the clock tick and     *)
(* bring back the display.  The callbacks and the commands take turns by   *)
(* the clock's mutex; what a command sends to the loop it sends after the  *)
(* unlock.  The units of time are parameters.  Of the display it is known  *)
(* what it shows, not the digits; the PROM and its counter are left out.   *)
(* The channel's side of the interrupt is in module CChar: a tick that     *)
(* takes has_int back leaves an outdated report, which the channel bears.  *)
(***************************************************************************)
EXTENDS Integers, Sequences

CONSTANTS
  MaxSecond, MaxMinute, MaxHour,  \* 59, 59, 23
  MonthDays,                      \* month_days
  Keys                            \* sets of keys pressed together, "irq" among them

ASSUME MecloAssumption ==
  /\ MaxSecond \in Nat /\ MaxMinute \in Nat /\ MaxHour \in Nat
  /\ MonthDays \in Seq(Nat \ {0}) /\ MonthDays # <<>>
  /\ Keys \subseteq SUBSET {"hs", "ms", "dr", "tr", "irq"}

VARIABLES
  pressed,                       \* dr, tr, hs, ms, irq
  cycle_seconds, seconds_read, seconds_advance, clock_stopped, keep_date_read,
  clock,                         \* month, day, hour, minute, second
  display,                       \* "date", "time" or "seconds"
  sent, timers,                  \* asyncs sent and timers active, of "display", "switch", "keep"
  to_send,                       \* what the command under way sends after its unlock
  has_int

switches == <<pressed, cycle_seconds, seconds_read, clock_stopped>>
mecloVars == <<pressed, cycle_seconds, seconds_read, seconds_advance, clock_stopped,
               keep_date_read, clock, display, sent, timers, to_send, has_int>>

MDays == MonthDays[clock.month]

Clocks == [month : DOMAIN MonthDays, day : UNION {1..MonthDays[m] : m \in DOMAIN MonthDays},
           hour : 0..MaxHour, minute : 0..MaxMinute, second : 0..MaxSecond]

(* meclo_create(): the host's time; the first tick comes at once *)
MecloInit ==
  /\ pressed = {} /\ cycle_seconds = FALSE /\ seconds_read = FALSE
  /\ seconds_advance = FALSE /\ clock_stopped = FALSE /\ keep_date_read = FALSE
  /\ clock \in {c \in Clocks : c.day <= MonthDays[c.month]}
  /\ display = "seconds" /\ sent = {} /\ timers = {} /\ to_send = {} /\ has_int = FALSE

-----------------------------------------------------------------------------
Wrap(n, max, min) == IF n < max THEN n + 1 ELSE min

\* Mutant of DayCarries: a month ends a day early.
DayCarriesEarly(c, days) == c.day + 1 >= days

DayCarries(c, days) == c.day + 1 > days

(* meclo_clock_advance__locked(): every other tick; each unit carries into the next *)
Advance(c, days) ==
  LET minute == c.second + 1 > MaxSecond
      hour == minute /\ c.minute + 1 > MaxMinute
      day == hour /\ c.hour + 1 > MaxHour
      month == day /\ DayCarries(c, days)
  IN [second |-> IF minute THEN 0 ELSE c.second + 1,
      minute |-> IF hour THEN 0 ELSE IF minute THEN c.minute + 1 ELSE c.minute,
      hour   |-> IF day THEN 0 ELSE IF hour THEN c.hour + 1 ELSE c.hour,
      day    |-> IF month THEN 1 ELSE IF day THEN c.day + 1 ELSE c.day,
      month  |-> IF month THEN Wrap(c.month, Len(MonthDays), 1) ELSE c.month]

NextDay(d) == Wrap(d, MDays, 1)

(* meclo_clock_set__locked(): the unit that the keys choose *)
ClockSet(c) ==
  LET hs == "hs" \in pressed  dr == "dr" \in pressed  tr == "tr" \in pressed
  IN [c EXCEPT !.day = IF hs /\ dr /\ tr THEN NextDay(@) ELSE @,
               !.month = IF hs /\ dr /\ ~tr THEN Wrap(@, Len(MonthDays), 1) ELSE @,
               !.hour = IF hs /\ ~dr THEN Wrap(@, MaxHour, 0) ELSE @,
               !.minute = IF "ms" \in pressed THEN Wrap(@, MaxMinute, 0) ELSE @]

(* meclo_on_clock_tick_timeout(): the month's length is that of before the setting *)
Tick ==
  /\ seconds_read' = IF cycle_seconds THEN ~seconds_read ELSE seconds_read
  /\ clock' = IF ~clock_stopped /\ seconds_advance THEN Advance(ClockSet(clock), MDays) ELSE ClockSet(clock)
  /\ seconds_advance' = IF clock_stopped THEN seconds_advance ELSE ~seconds_advance
  /\ has_int' = ("irq" \in pressed)
  /\ sent' = sent \cup {"display"}
  /\ UNCHANGED <<pressed, cycle_seconds, clock_stopped, keep_date_read, display, timers, to_send>>

(* on_async_...(): a timer that runs is left alone *)
OnAsync(t) ==
  /\ t \in sent /\ sent' = sent \ {t} /\ timers' = timers \cup {t}
  /\ UNCHANGED <<switches, seconds_advance, keep_date_read, clock, display, to_send, has_int>>

(* meclo_on_display_update_timeout() *)
DisplayUpdate ==
  /\ "display" \in timers /\ timers' = timers \ {"display"}
  /\ display' = IF "dr" \in pressed \/ keep_date_read THEN "date"
                ELSE IF seconds_read THEN "seconds" ELSE "time"
  /\ UNCHANGED <<switches, seconds_advance, keep_date_read, clock, sent, to_send, has_int>>

(* meclo_on_seconds_switch_timeout() *)
SecondsSwitch ==
  /\ "switch" \in timers /\ timers' = timers \ {"switch"}
  /\ seconds_read' = TRUE /\ cycle_seconds' = TRUE
  /\ UNCHANGED <<pressed, seconds_advance, clock_stopped, keep_date_read, clock, display, sent, to_send, has_int>>

(* meclo_on_keep_date_read_timeout() *)
KeepDateEnds ==
  /\ "keep" \in timers /\ timers' = timers \ {"keep"}
  /\ keep_date_read' = FALSE /\ sent' = sent \cup {"display"}
  /\ UNCHANGED <<switches, seconds_advance, clock, display, to_send, has_int>>

KeepsDate(keys) == "dr" \in keys /\ "tr" \notin keys

(* meclo_clock_op() up to its unlock, and what it sends then *)
ClockOp(keys) ==
  LET tr == "tr" \in keys  dr == "dr" \in keys  ms == "ms" \in keys
  IN /\ to_send = {}
     /\ pressed' = keys
     /\ seconds_read' = (tr /\ seconds_read) /\ cycle_seconds' = (tr /\ cycle_seconds)
     /\ clock_stopped' = (ms \/ (~tr /\ clock_stopped))
     /\ clock' = IF ms THEN [clock EXCEPT !.second = 0] ELSE clock
     /\ keep_date_read' = (keep_date_read \/ KeepsDate(keys))
     /\ to_send' = {"display"} \cup (IF dr /\ ~tr THEN {"keep"} ELSE {})
                     \cup (IF tr /\ ~dr /\ ~cycle_seconds THEN {"switch"} ELSE {})
  /\ UNCHANGED <<seconds_advance, display, sent, timers, has_int>>

Send ==
  /\ to_send # {} /\ sent' = sent \cup to_send /\ to_send' = {}
  /\ UNCHANGED <<switches, seconds_advance, keep_date_read, clock, display, timers, has_int>>

(* meclo_intspec() *)
MecloIntSpec ==
  /\ to_send = {} /\ has_int' = FALSE
  /\ UNCHANGED <<switches, seconds_advance, keep_date_read, clock, display, sent, timers, to_send>>

(* meclo_reset(): the clock keeps running, and so do the timers *)
MecloReset ==
  /\ to_send = {} /\ pressed' = {}
  /\ seconds_read' = FALSE /\ cycle_seconds' = FALSE /\ clock_stopped' = FALSE
  /\ UNCHANGED <<seconds_advance, keep_date_read, clock, display, sent, timers, to_send, has_int>>

MecloNext ==
  \/ Tick \/ DisplayUpdate \/ SecondsSwitch \/ KeepDateEnds
  \/ \E t \in {"display", "switch", "keep"} : OnAsync(t)
  \/ \E keys \in Keys : ClockOp(keys)
  \/ Send \/ MecloIntSpec \/ MecloReset

MecloSpec == MecloInit /\ [][MecloNext]_mecloVars

-----------------------------------------------------------------------------
MecloTypeOK ==
  /\ pressed \subseteq {"hs", "ms", "dr", "tr", "irq"}
  /\ {cycle_seconds, seconds_read, seconds_advance, clock_stopped, keep_date_read, has_int} \subseteq BOOLEAN
  /\ clock \in Clocks /\ display \in {"date", "time", "seconds"}
  /\ {sent, timers, to_send} \subseteq SUBSET {"display", "switch", "keep"}

\* the days of the first k months
Elapsed[k \in 0..Len(MonthDays)] == IF k = 0 THEN 0 ELSE Elapsed[k - 1] + MonthDays[k]
DayOfYear(c) == c.day - 1 + Elapsed[c.month - 1]
SecondOfYear(c) ==
  c.second + (MaxSecond + 1) * (c.minute + (MaxMinute + 1) * (c.hour + (MaxHour + 1) * DayOfYear(c)))
Year == (MaxSecond + 1) * ((MaxMinute + 1) * ((MaxHour + 1) * Elapsed[Len(MonthDays)]))

\* The calendar counts: unless a key sets it, a step moves the time by one second of
\* the year or not at all, over the ends of all units.  A day that the month does not
\* have, which setting the month can leave, is outside.
ClockCounts ==
  [][(clock' # clock /\ pressed \cap {"hs", "ms"} = {} /\ pressed' = pressed /\ clock.day <= MDays)
     => SecondOfYear(clock') = (SecondOfYear(clock) + 1) % Year]_mecloVars

\* A date kept on display is taken back: whatever the program presses meanwhile, the
\* timer that ends it runs or is on its way.
DateEnds == keep_date_read => "keep" \in to_send \cup sent \cup timers

\* "no tr => stop showing seconds" (comment in meclo_clock_op()).
SecondsNeedTr == cycle_seconds => "tr" \in pressed
=============================================================================
