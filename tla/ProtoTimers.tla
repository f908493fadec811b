---------------------------- MODULE ProtoTimers ----------------------------
(***************************************************************************)
(* proto_timers.c: the timers that end a blocked read (T1, T2, T4, T6, T8  *)
(* and, as number 0, the timeout of the plain protocols).  They share one  *)
(* alarm(); its signal handler looks for the timer that is most overdue    *)
(* and jumps to where that timer was started.                              *)
(*                                                                         *)
(* Time is relative: a timer holds the seconds it has left, and so does    *)
(* the alarm.  A clock is the table together with the pending alarm.       *)
(***************************************************************************)
EXTENDS Integers, FiniteSets, FiniteSetsExt

CONSTANTS
    Timers,      \* the timers in use, a part of 0..MAX_TIMERS-1
    MaxAlarm,    \* the longest time alarm() is asked for: 5 minutes
    MaxOverdue   \* bound: a timer more overdue than this looks like this

ASSUME TimersAssumption ==
    /\ Timers \subseteq Nat
    /\ MaxAlarm \in Nat \ {0}
    /\ MaxOverdue \in Nat

VARIABLE clock

NoAlarm == -1
Idle == [running |-> FALSE, left |-> 0]
Runs(secs) == [running |-> TRUE, left |-> secs]

Running(t) == {i \in Timers : t[i].running}

\* What calc_min_time() returns: 0 when no timer runs
calc_min_time(t) ==
    IF Running(t) = {} THEN 0
    ELSE Max({1, Min({MaxAlarm} \cup {t[i].left : i \in Running(t)})})

\* alarm(calc_min_time()), which cancels the alarm with 0
WithAlarm(t) ==
    [timers |-> t,
     alarm  |-> IF Running(t) = {} THEN NoAlarm ELSE calc_min_time(t)]

\* Mutant of start_proto_timer: the alarm is set only when none is pending
start_proto_timer_KeepAlarm(c, idx, secs) ==
    IF c.timers[idx].running THEN c
    ELSE [WithAlarm([c.timers EXCEPT ![idx] = Runs(secs)]) EXCEPT
             !.alarm = IF c.alarm = NoAlarm THEN @ ELSE c.alarm]

\* A timer that is running already is left alone, and so is the alarm
start_proto_timer(c, idx, secs) ==
    IF c.timers[idx].running THEN c
    ELSE WithAlarm([c.timers EXCEPT ![idx] = Runs(secs)])

stop_proto_timer(c, idx) == WithAlarm([c.timers EXCEPT ![idx] = Idle])

init_proto_timers == WithAlarm([i \in Timers |-> Idle])

(***************************************************************************)
(* timeout_handler(): Due is the timer it jumps for, the most overdue one  *)
(* and among equals the highest; without one it returns and leaves the     *)
(* alarm off.                                                              *)
(***************************************************************************)
Overdue(t) == {i \in Running(t) : t[i].left <= 0}
Due(t) == Max({i \in Overdue(t) : \A j \in Overdue(t) : t[i].left <= t[j].left})

timeout_handler(c) ==
    IF Overdue(c.timers) = {} THEN [c EXCEPT !.alarm = NoAlarm]
    ELSE WithAlarm([c.timers EXCEPT ![Due(c.timers)] = Idle])

\* One second passes
Elapsed(c) ==
    [timers |-> [i \in Timers |->
                    IF c.timers[i].running
                    THEN Runs(Max({c.timers[i].left - 1, -MaxOverdue}))
                    ELSE Idle],
     alarm  |-> IF c.alarm = NoAlarm THEN NoAlarm ELSE c.alarm - 1]

ClockType ==
    clock \in [timers : [Timers -> [running : BOOLEAN, left : Int]],
               alarm  : {NoAlarm} \cup Nat]

\* AlarmCovers: a running timer is never forgotten: the alarm is pending and
\* comes no later than the timer runs out, or in a second if it is overdue;
\* and when the alarm comes, some timer has run out, so that the handler does
\* not return with the alarm off and a read blocked for ever.
Covered(c) ==
    /\ Running(c.timers) = {} <=> c.alarm = NoAlarm
    /\ \A i \in Running(c.timers) : c.alarm <= Max({1, c.timers[i].left})
    /\ c.alarm # NoAlarm => \E i \in Running(c.timers) : c.timers[i].left <= c.alarm
AlarmCovers == Covered(clock)
=============================================================================
