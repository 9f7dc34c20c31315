----------------------------- MODULE TimerEvent -----------------------------
(***************************************************************************)
(* The software timers of src/common/timer_event.c: a list of slots over a *)
(* clock that wraps around, as a main loop uses it that calls              *)
(* ev_process_timer in every turn.                                         *)
(*                                                                         *)
(* ev_process_timer reads the clock once and then calls what has expired,  *)
(* one slot after the other; the clock goes on meanwhile, and a callback   *)
(* may start and cancel other timers.  Its own timer it cancels by         *)
(* returning -1, as the only callback of the repository does.              *)
(***************************************************************************)
EXTENDS Integers

CONSTANTS
    Slots,    \* the length of timer_list: ten in the code
    Wrap,     \* the clock counts modulo Wrap: 2^32 ticks in the code
    Margin,   \* TIMER_SAFE_MARGIN_US, in ticks
    Interval, \* the intervals that timers are started with
    MaxGap    \* the longest time from one call of ev_process_timer to the next

VARIABLES
    clock,      \* ClockTime()
    timer_list,
    at,         \* the slot that ev_process_timer looks at next, or Idle
    now,        \* the clock as ev_process_timer read it
    since,      \* time since then
    age         \* [slot -> time that its interval has been running]

timerVars == <<clock, timer_list, at, now, since, age>>

Slot == 1 .. Slots
Idle == Slots + 1
Time == 0 .. Wrap - 1

ASSUME SlotsAssumption == Slots \in Nat \ {0}

ASSUME GapAssumption ==
    /\ Wrap \in Nat /\ Margin \in Nat /\ MaxGap \in Nat \ {0}
    /\ MaxGap < Margin /\ Margin < Wrap

(* An interval longer than this is taken for one that has run out already. *)
ASSUME IntervalAssumption ==
    \A i \in Interval : i \in Nat \ {0} /\ i + 2 * MaxGap <= Wrap - Margin

Event == [t : Time, interval : Interval, valid : BOOLEAN, busy : BOOLEAN]

(* Mutant: the sum is kept in more than 32 bits. *)
PlusWide(a, b) == a + b

(* u32 arithmetic. *)
Plus(a, b) == IF a + b < Wrap THEN a + b ELSE a + b - Wrap
Minus(a, b) == IF a >= b THEN a - b ELSE a - b + Wrap

(* Mutant: the times are compared as numbers. *)
ExpiredIfGreater(e, n) == n >= e.t

ev_is_timer_expired(e, n) == Minus(n, e.t) < Margin

Expired(s) == timer_list[s].valid /\ ev_is_timer_expired(timer_list[s], now)

TimerInit ==
    /\ clock \in Time
    /\ \E i \in Interval :
         timer_list = [s \in Slot |-> [t |-> 0, interval |-> i, valid |-> FALSE, busy |-> FALSE]]
    /\ at = Idle
    /\ now = clock
    /\ since = 0
    /\ age = [s \in Slot |-> 0]
-----------------------------------------------------------------------------
Tick ==
    /\ since < MaxGap
    /\ clock' = Plus(clock, 1)
    /\ since' = since + 1
    /\ age' = [s \in Slot |-> IF timer_list[s].valid THEN age[s] + 1 ELSE 0]
    /\ UNCHANGED <<timer_list, at, now>>

Free == {s \in Slot : ~timer_list[s].busy}

(* ev_on_timer, called by the main loop or by a callback; with every slot busy
   it would spin for ever. *)
ev_on_timer(i) ==
    \E s \in Free :
        /\ \A u \in Free : s <= u
        /\ timer_list' = [timer_list EXCEPT ![s] =
             [t |-> Plus(clock, i), interval |-> i, valid |-> TRUE, busy |-> TRUE]]
        /\ age' = [age EXCEPT ![s] = 0]
        /\ UNCHANGED <<clock, at, now, since>>

ev_unon_timer(s) ==
    /\ timer_list[s].busy
    /\ timer_list' = [timer_list EXCEPT ![s].valid = FALSE, ![s].busy = FALSE]
    /\ age' = [age EXCEPT ![s] = 0]
    /\ UNCHANGED <<clock, at, now, since>>

ProcessBegins ==
    /\ at = Idle
    /\ at' = 1
    /\ now' = clock
    /\ since' = 0
    /\ UNCHANGED <<clock, timer_list, age>>

(* Mutant: the loop stops at a timer that has not expired. *)
SkipRest ==
    /\ at # Idle /\ ~Expired(at)
    /\ at' = Idle
    /\ UNCHANGED <<clock, timer_list, now, since, age>>

Skip ==
    /\ at # Idle /\ ~Expired(at)
    /\ at' = at + 1
    /\ UNCHANGED <<clock, timer_list, now, since, age>>

(* The callback returned -1. *)
CallbackDeletes ==
    /\ at # Idle /\ Expired(at)
    /\ timer_list' = [timer_list EXCEPT ![at].valid = FALSE, ![at].busy = FALSE]
    /\ age' = [age EXCEPT ![at] = 0]
    /\ at' = at + 1
    /\ UNCHANGED <<clock, now, since>>

(* The callback returned 0, which keeps the interval, or a new interval: it
   runs from now, the time before the callback. *)
CallbackRepeats ==
    \E i \in Interval :
        /\ at # Idle /\ Expired(at)
        /\ timer_list' = [timer_list EXCEPT ![at].interval = i, ![at].t = Plus(now, i)]
        /\ age' = [age EXCEPT ![at] = since]
        /\ at' = at + 1
        /\ UNCHANGED <<clock, now, since>>

(* A callback starts or cancels a timer between two steps of the loop, as far
   as the list is concerned; it leaves the timer being processed alone. *)
Start == \E i \in Interval : ev_on_timer(i)

Cancel == \E s \in Slot : s # at /\ ev_unon_timer(s)

TimerNext ==
    \/ Tick
    \/ Start
    \/ Cancel
    \/ ProcessBegins
    \/ Skip
    \/ CallbackDeletes
    \/ CallbackRepeats

TimerSpec == TimerInit /\ [][TimerNext]_timerVars
-----------------------------------------------------------------------------
TimerTypeOK ==
    /\ clock \in Time /\ now \in Time
    /\ timer_list \in [Slot -> Event]
    /\ at \in 1 .. Idle
    /\ since \in 0 .. MaxGap
    /\ age \in [Slot -> Nat]

(* No timer is called before its interval has passed, wherever the clock wraps
   around and however long the callbacks before it took (timer_event.c:29,
   95-119). *)
NotEarly ==
    \A s \in Slot : at = s /\ Expired(s) => age[s] >= timer_list[s].interval

(* None is missed: if ev_process_timer is called often enough, no valid timer
   is ever overdue by more than the time of two turns of the loop. *)
NotLate ==
    \A s \in Slot : timer_list[s].valid => age[s] <= timer_list[s].interval + 2 * MaxGap
=============================================================================
