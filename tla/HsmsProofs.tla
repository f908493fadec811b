----------------------------- MODULE HsmsProofs -----------------------------
(***************************************************************************)
(* HSMS for every T6, T8 and MAX_READ, bodies of any length, any number of *)
(* messages and of connections, and however the network cuts the stream:   *)
(* its timers, its types, its framing, its select handshake and the order  *)
(* of its messages.                                                        *)
(***************************************************************************)
EXTENDS Hsms, SequenceTheorems, TLAPS

-----------------------------------------------------------------------------
(* proto_timers.c.  recv_hsmsI() and client_connect() use the timers 6 and *)
(* 8 only, none for longer than alarm() is asked for.                      *)

Tables ==
    {t \in [Timers -> [running : BOOLEAN, left : Int]] :
        /\ Running(t) \subseteq {6, 8}
        /\ \A i \in Timers : t[i].left <= MaxAlarm}

Clocks == [timers : Tables, alarm : {NoAlarm} \cup Nat]

\* Max and Min of the sets they are used on
LEMMA MaxTwo ==
    ASSUME NEW a \in Int, NEW b \in Int
    PROVE  Max({a, b}) = IF a >= b THEN a ELSE b
<1> DEFINE m == IF a >= b THEN a ELSE b
<1>1. m \in {a, b} /\ \A y \in {a, b} : m >= y
    OBVIOUS
<1>2. \A x \in {a, b} : (\A y \in {a, b} : x >= y) => x = m
    OBVIOUS
<1> QED  BY <1>1, <1>2 DEF Max

LEMMA MinThree ==
    ASSUME NEW a \in Int, NEW b \in Int, NEW c \in Int, NEW S, S # {},
           \A x \in S : x = a \/ x = b \/ x = c
    PROVE  Min(S) \in S /\ \A y \in S : Min(S) <= y
<1>1. \E x \in S : \A y \in S : x <= y
    <2> SUFFICES ASSUME \A x \in S : \E y \in S : ~(x <= y) PROVE FALSE
        OBVIOUS
    <2>1. \A y \in S : y = a \/ y = b \/ y = c
        OBVIOUS
    <2>2. \A x \in S : \/ a \in S /\ ~(x <= a)
                       \/ b \in S /\ ~(x <= b)
                       \/ c \in S /\ ~(x <= c)
        BY <2>1
    <2>3. a \in S => (b \in S /\ ~(a <= b)) \/ (c \in S /\ ~(a <= c))
        BY <2>2
    <2>4. b \in S => (a \in S /\ ~(b <= a)) \/ (c \in S /\ ~(b <= c))
        BY <2>2
    <2>5. c \in S => (a \in S /\ ~(c <= a)) \/ (b \in S /\ ~(c <= b))
        BY <2>2
    <2>6. a \in S \/ b \in S \/ c \in S
        BY <2>1
    <2>7. a \in Int /\ b \in Int /\ c \in Int
        OBVIOUS
    <2> QED  BY ONLY <2>3, <2>4, <2>5, <2>6, <2>7
<1> QED  BY <1>1 DEF Min

\* What calc_min_time() asks for: not later than any timer, and not before the
\* first.
LEMMA MinTime ==
    ASSUME NEW t \in Tables, Running(t) # {}
    PROVE  /\ calc_min_time(t) \in Nat \ {0}
           /\ \A i \in Running(t) : calc_min_time(t) <= Max({1, t[i].left})
           /\ \E i \in Running(t) : t[i].left <= calc_min_time(t)
<1> DEFINE S == {MaxAlarm} \cup {t[i].left : i \in Running(t)}
           m == Min(S)
<1>1. /\ Running(t) \subseteq {6, 8} /\ 6 \in Timers /\ 8 \in Timers
      /\ t[6].left \in Int /\ t[8].left \in Int /\ MaxAlarm \in Int /\ MaxAlarm > 0
      /\ \A i \in Running(t) : t[i].left \in Int /\ t[i].left <= MaxAlarm
    BY HsmsAssumption, TimersAssumption DEF Tables, Running
<1>2. (\A x \in S : x = MaxAlarm \/ x = t[6].left \/ x = t[8].left) /\ S # {}
    BY <1>1
<1>s. \A y : y \in S <=> y = MaxAlarm \/ \E i \in Running(t) : y = t[i].left
    OBVIOUS
<1>c. calc_min_time(t) = Max({1, m})
    BY DEF calc_min_time
<1> HIDE DEF S
<1>3. m \in S /\ \A y \in S : m <= y
    BY <1>1, <1>2, MinThree
<1>4. m \in Int
    BY <1>1, <1>2, <1>3
<1>5. calc_min_time(t) = IF 1 >= m THEN 1 ELSE m
    BY <1>4, <1>c, MaxTwo
<1> HIDE DEF m
<1>6. \A i \in Running(t) : m <= t[i].left
    BY <1>3, <1>s
<1>7. \E i \in Running(t) : t[i].left <= m
    BY <1>1, <1>3, <1>s
<1>8. \A i \in Running(t) : calc_min_time(t) <= Max({1, t[i].left})
    <2> SUFFICES ASSUME NEW i \in Running(t) PROVE calc_min_time(t) <= Max({1, t[i].left})
        OBVIOUS
    <2>1. t[i].left \in Int /\ m <= t[i].left
        BY <1>1, <1>6
    <2>2. Max({1, t[i].left}) = IF 1 >= t[i].left THEN 1 ELSE t[i].left
        BY <2>1, MaxTwo
    <2> QED  BY <2>1, <2>2, <1>4, <1>5
<1>9. \E i \in Running(t) : t[i].left <= calc_min_time(t)
    <2>1. PICK i \in Running(t) : t[i].left <= m
        BY <1>7
    <2>2. t[i].left \in Int
        BY <1>1
    <2> QED  BY <2>1, <2>2, <1>4, <1>5
<1> QED  BY <1>4, <1>5, <1>8, <1>9

\* With its alarm set a table is covered.
LEMMA AlarmSet ==
    ASSUME NEW t \in Tables
    PROVE  /\ WithAlarm(t) \in Clocks /\ Covered(WithAlarm(t)) /\ WithAlarm(t).timers = t
           /\ Running(t) = {} => WithAlarm(t).alarm = NoAlarm
<1> DEFINE c == WithAlarm(t)
<1>1. c.timers = t /\ c.alarm = (IF Running(t) = {} THEN NoAlarm ELSE calc_min_time(t))
    BY DEF WithAlarm
<1>2. CASE Running(t) = {}
    <2>1. c = [timers |-> t, alarm |-> NoAlarm]
        BY <1>2 DEF WithAlarm
    <2>2. c \in Clocks
        BY <2>1 DEF Clocks
    <2> QED  BY <1>1, <1>2, <2>2 DEF Covered
<1>3. CASE Running(t) # {}
    <2>1. c = [timers |-> t, alarm |-> calc_min_time(t)]
        BY <1>3 DEF WithAlarm
    <2>2. c \in Clocks /\ calc_min_time(t) # NoAlarm
        BY <1>3, <2>1, MinTime DEF Clocks, NoAlarm
    <2> QED  BY <1>1, <1>3, <2>2, MinTime DEF Covered
<1> QED  BY <1>2, <1>3

\* A timer is started: it runs too, and the alarm covers it unless it ran before.
LEMMA Started ==
    ASSUME NEW c \in Clocks, NEW i \in {6, 8}, NEW secs \in 1..MaxAlarm
    PROVE  /\ start_proto_timer(c, i, secs) \in Clocks
           /\ Running(start_proto_timer(c, i, secs).timers) = Running(c.timers) \cup {i}
           /\ i \notin Running(c.timers) => Covered(start_proto_timer(c, i, secs))
<1>1. i \in Timers /\ c.timers \in Tables
    BY HsmsAssumption DEF Clocks
<1>2. CASE c.timers[i].running
    BY <1>1, <1>2 DEF start_proto_timer, Running
<1>3. CASE ~c.timers[i].running
    <2> DEFINE t == [c.timers EXCEPT ![i] = Runs(secs)]
    <2>1. /\ t \in [Timers -> [running : BOOLEAN, left : Int]]
          /\ \A k \in Timers : t[k] = IF k = i THEN [running |-> TRUE, left |-> secs]
                                      ELSE c.timers[k]
        BY <1>1 DEF Tables, Runs
    <2>2. start_proto_timer(c, i, secs) = WithAlarm(t)
        BY <1>3 DEF start_proto_timer
    <2> HIDE DEF t
    <2>a. \A k \in Timers : t[k].running <=> k = i \/ c.timers[k].running
        BY <2>1
    <2>3. Running(t) = Running(c.timers) \cup {i}
        BY <1>1, <2>a DEF Running
    <2>4. t \in Tables
        BY <1>1, <2>1, <2>3, TimersAssumption DEF Tables
    <2> QED  BY <2>2, <2>3, <2>4, AlarmSet
<1> QED  BY <1>2, <1>3

\* A table in which a timer is idle again
LEMMA Idled ==
    ASSUME NEW t \in Tables, NEW i
    PROVE  /\ [t EXCEPT ![i] = Idle] \in Tables
           /\ Running([t EXCEPT ![i] = Idle]) = Running(t) \ {i}
<1> DEFINE u == [t EXCEPT ![i] = Idle]
<1>0. Idle \in [running : BOOLEAN, left : Int] /\ t \in [Timers -> [running : BOOLEAN, left : Int]]
    BY DEF Tables, Idle
<1>1. /\ u \in [Timers -> [running : BOOLEAN, left : Int]]
      /\ \A k \in Timers : u[k] = IF k = i THEN [running |-> FALSE, left |-> 0] ELSE t[k]
    BY <1>0 DEF Idle
<1> HIDE DEF u
<1>2. Running(u) = Running(t) \ {i}
    BY <1>1 DEF Running
<1>3. u \in Tables
    BY <1>1, <1>2, TimersAssumption DEF Tables
<1> QED  BY <1>2, <1>3 DEF u

\* A timer is stopped, whether it runs or not.
LEMMA StoppedTimer ==
    ASSUME NEW c \in Clocks, NEW i
    PROVE  /\ stop_proto_timer(c, i) \in Clocks /\ Covered(stop_proto_timer(c, i))
           /\ Running(stop_proto_timer(c, i).timers) = Running(c.timers) \ {i}
           /\ Running(c.timers) \subseteq {i} => stop_proto_timer(c, i).alarm = NoAlarm
<1> DEFINE t == [c.timers EXCEPT ![i] = Idle]
<1>1. c.timers \in Tables
    BY DEF Clocks
<1>2. t \in Tables /\ Running(t) = Running(c.timers) \ {i}
    BY <1>1, Idled
<1>3. stop_proto_timer(c, i) = WithAlarm(t)
    BY DEF stop_proto_timer
<1> HIDE DEF t
<1> QED  BY <1>2, <1>3, AlarmSet

\* The signal handler idles a timer that has run out, and sets the alarm for
\* those that are left.
LEMMA HandledTimer ==
    ASSUME NEW c \in Clocks
    PROVE  /\ timeout_handler(c) \in Clocks
           /\ Overdue(c.timers) # {} =>
                /\ Due(c.timers) \in Running(c.timers)
                /\ Running(timeout_handler(c).timers) = Running(c.timers) \ {Due(c.timers)}
                /\ Covered(timeout_handler(c))
                /\ Running(c.timers) = {Due(c.timers)} => timeout_handler(c).alarm = NoAlarm
<1> DEFINE t == c.timers
<1>1. t \in Tables
    BY DEF Clocks
<1>2. CASE Overdue(t) = {}
    <2>1. timeout_handler(c) = [c EXCEPT !.alarm = NoAlarm]
        BY <1>2 DEF timeout_handler
    <2> QED  BY <1>2, <2>1 DEF Clocks
<1>3. CASE Overdue(t) # {}
    <2> DEFINE M == {i \in Overdue(t) : \A j \in Overdue(t) : t[i].left <= t[j].left}
    <2>1. Overdue(t) \subseteq {6, 8} /\ t[6].left \in Int /\ t[8].left \in Int
        BY <1>1, HsmsAssumption DEF Tables, Overdue
    <2>2. M # {} /\ M \subseteq {6, 8}
        <3>1. CASE Overdue(t) = {6, 8}
            BY <2>1, <3>1
        <3>2. CASE Overdue(t) = {6} \/ Overdue(t) = {8}
            BY <2>1, <3>2
        <3> QED  BY <1>3, <2>1, <3>1, <3>2
    <2>3. Max(M) \in M
        <3>1. \E x \in M : \A y \in M : x >= y
            BY <2>2
        <3> QED  BY <3>1 DEF Max
    <2>4. Due(t) \in Overdue(t)
        BY <2>3 DEF Due
    <2>5. Due(t) \in Running(t)
        BY <2>4 DEF Overdue
    <2>6. timeout_handler(c) = WithAlarm([t EXCEPT ![Due(t)] = Idle])
        BY <1>3 DEF timeout_handler
    <2> HIDE DEF t, M
    <2> QED  BY <1>1, <2>5, <2>6, Idled, AlarmSet DEF t
<1> QED  BY <1>2, <1>3

LEMMA TimerIs ==
    ASSUME NEW r, NEW b \in BOOLEAN, NEW n \in Int, r = [running |-> b, left |-> n]
    PROVE  r.running = b /\ r.left = n /\ r \in [running : BOOLEAN, left : Int]
OBVIOUS

\* A second passes: what was covered stays covered.
LEMMA ElapsedTimer ==
    ASSUME NEW c \in Clocks, c.alarm # 0
    PROVE  /\ Elapsed(c) \in Clocks /\ Running(Elapsed(c).timers) = Running(c.timers)
           /\ Covered(c) => Covered(Elapsed(c))
           /\ c.alarm = NoAlarm => Elapsed(c).alarm = NoAlarm
<1> DEFINE t == c.timers
           u == Elapsed(c).timers
           a == Elapsed(c).alarm
<1>1. t \in Tables /\ c.alarm \in {NoAlarm} \cup Nat
    BY DEF Clocks
<1>2. \A i \in Timers : t[i].left \in Int /\ t[i].running \in BOOLEAN /\ t[i].left <= MaxAlarm
    BY <1>1 DEF Tables
<1>3. /\ u = [i \in Timers |-> IF t[i].running THEN Runs(Max({t[i].left - 1, -MaxOverdue}))
                               ELSE Idle]
      /\ a = (IF c.alarm = NoAlarm THEN NoAlarm ELSE c.alarm - 1)
      /\ Elapsed(c) = [timers |-> u, alarm |-> a]
    BY DEF Elapsed
<1> HIDE DEF t, u, a
<1> DEFINE less(i) == IF t[i].left - 1 >= -MaxOverdue THEN t[i].left - 1 ELSE -MaxOverdue
<1>l. \A i \in Timers : less(i) \in Int /\ less(i) <= MaxAlarm /\ 0 <= MaxAlarm
    BY <1>2, TimersAssumption
<1>4. ASSUME NEW i \in Timers
      PROVE  /\ u[i] \in [running : BOOLEAN, left : Int] /\ u[i].left <= MaxAlarm
             /\ u[i].running <=> t[i].running
             /\ t[i].running => u[i].left = less(i)
    <2>1. CASE t[i].running
        <3>1. t[i].left - 1 \in Int /\ -MaxOverdue \in Int
            BY <1>2, TimersAssumption
        <3>2. Max({t[i].left - 1, -MaxOverdue}) = less(i)
            BY <3>1, MaxTwo
        <3>3. u[i] = [running |-> TRUE, left |-> less(i)]
            BY <1>3, <2>1, <3>2 DEF Runs
        <3>4. less(i) \in Int /\ less(i) <= MaxAlarm
            BY <1>l
        <3> HIDE DEF less
        <3>5. u[i].running /\ u[i].left = less(i) /\ u[i] \in [running : BOOLEAN, left : Int]
            BY ONLY <3>3, <3>4, TimerIs
        <3> QED  BY <2>1, <3>4, <3>5
    <2>2. CASE ~t[i].running
        <3>1. u[i] = [running |-> FALSE, left |-> 0]
            BY <1>3, <2>2 DEF Idle
        <3>2. ~u[i].running /\ u[i].left = 0 /\ u[i] \in [running : BOOLEAN, left : Int]
            BY ONLY <3>1, TimerIs
        <3> QED  BY <1>l, <2>2, <3>2
    <2> QED  BY <2>1, <2>2
<1> HIDE DEF less
<1>c. \A i \in Timers : t[i].running => u[i].left = less(i)
    BY <1>4
<1>d. \A i \in Timers : u[i] \in [running : BOOLEAN, left : Int] /\ u[i].left <= MaxAlarm
    BY <1>4
<1>e. \A i \in Timers : u[i].running <=> t[i].running
    BY <1>4
<1>5. Running(u) = Running(t)
    BY <1>e DEF Running
<1>6. u \in Tables
    <2>1. u \in [Timers -> [running : BOOLEAN, left : Int]]
        BY <1>3, <1>d
    <2> QED  BY <1>1, <1>d, <1>5, <2>1 DEF Tables
<1>7. a \in {NoAlarm} \cup Nat
    BY <1>1, <1>3 DEF NoAlarm
<1>8. Elapsed(c) \in Clocks
    BY <1>3, <1>6, <1>7 DEF Clocks
<1>9. ASSUME Covered(c) PROVE Covered(Elapsed(c))
    <2>1. /\ Running(t) = {} <=> c.alarm = NoAlarm
          /\ \A i \in Running(t) : c.alarm <= Max({1, t[i].left})
          /\ c.alarm # NoAlarm => \E i \in Running(t) : t[i].left <= c.alarm
        BY <1>9 DEF Covered, t
    <2>2. CASE c.alarm = NoAlarm
        <3>1. a = NoAlarm /\ Running(u) = {}
            BY <1>3, <1>5, <2>1, <2>2
        <3>2. Elapsed(c).timers = u /\ Elapsed(c).alarm = a
            BY DEF u, a
        <3> QED  BY <3>1, <3>2 DEF Covered
    <2>3. CASE c.alarm # NoAlarm
        <3>1. c.alarm \in Nat \ {0} /\ a = c.alarm - 1 /\ a # NoAlarm /\ MaxOverdue \in Nat
            BY <1>1, <1>3, <2>3, TimersAssumption DEF NoAlarm
        <3>2. ASSUME NEW i \in Running(u) PROVE a <= Max({1, u[i].left})
            <4>1. i \in Timers /\ i \in Running(t) /\ t[i].running
                BY <1>5 DEF Running
            <4>t. t[i].left \in Int /\ u[i].left \in Int /\ 1 \in Int
                BY <1>2, <1>d, <4>1
            <4>2. c.alarm <= IF 1 >= t[i].left THEN 1 ELSE t[i].left
                <5>1. Max({1, t[i].left}) = IF 1 >= t[i].left THEN 1 ELSE t[i].left
                    BY <4>t, MaxTwo
                <5> QED  BY <2>1, <4>1, <5>1
            <4>3. Max({1, u[i].left}) = IF 1 >= u[i].left THEN 1 ELSE u[i].left
                BY <4>t, MaxTwo
            <4>5. u[i].left = IF t[i].left - 1 >= -MaxOverdue THEN t[i].left - 1 ELSE -MaxOverdue
                BY <1>c, <4>1 DEF less
            <4>4. u[i].left >= t[i].left - 1
                BY ONLY <3>1, <4>t, <4>5
            <4> QED  BY ONLY <3>1, <4>2, <4>3, <4>4, <4>t
        <3>3. \E i \in Running(u) : u[i].left <= a
            <4>1. PICK i \in Running(t) : t[i].left <= c.alarm
                BY <2>1, <2>3
            <4>2. i \in Timers /\ t[i].running
                BY DEF Running
            <4>t. t[i].left \in Int /\ u[i].left \in Int
                BY <1>2, <1>d, <4>2
            <4>4. u[i].left = IF t[i].left - 1 >= -MaxOverdue THEN t[i].left - 1 ELSE -MaxOverdue
                BY <1>c, <4>2 DEF less
            <4>3. u[i].left <= a
                BY ONLY <3>1, <4>1, <4>4, <4>t
            <4> QED  BY <1>5, <4>3
        <3>4. Running(u) # {}
            BY <1>5, <2>1, <2>3
        <3>5. Elapsed(c).timers = u /\ Elapsed(c).alarm = a
            BY DEF u, a
        <3> QED  BY <3>1, <3>2, <3>3, <3>4, <3>5 DEF Covered
    <2> QED  BY <2>2, <2>3
<1> QED  BY <1>3, <1>5, <1>8, <1>9 DEF t, u, a

-----------------------------------------------------------------------------
(* The timers of the receptions. *)

\* The timers in S run and the alarm is set for the first of them
Has(c, S) == c \in Clocks /\ Running(c.timers) = S /\ Covered(c)

\* As long as no timer was left running
Timing ==
    ~stray => /\ loc = "selecting" => Has(clock, {6, 8})
              /\ loc = "recv" => Has(clock, {8})
              /\ ~Reading => Has(clock, {})
              /\ loc # "wild"

TimersInv == clock \in Clocks /\ Timing

LEMMA StopHas ==
    ASSUME NEW c \in Clocks, NEW i
    PROVE  stop_proto_timer(c, i) \in Clocks /\ Has(stop_proto_timer(c, i), Running(c.timers) \ {i})
BY StoppedTimer DEF Has

LEMMA StartHas ==
    ASSUME NEW c \in Clocks, NEW i \in {6, 8}, NEW secs \in 1..MaxAlarm
    PROVE  /\ start_proto_timer(c, i, secs) \in Clocks
           /\ i \notin Running(c.timers)
                => Has(start_proto_timer(c, i, secs), Running(c.timers) \cup {i})
BY Started DEF Has

LEMMA HandledHas ==
    ASSUME NEW c \in Clocks
    PROVE  /\ timeout_handler(c) \in Clocks
           /\ Overdue(c.timers) # {} =>
                /\ Due(c.timers) \in Running(c.timers)
                /\ Has(timeout_handler(c), Running(c.timers) \ {Due(c.timers)})
BY HandledTimer DEF Has

LEMMA ElapsedHas ==
    ASSUME NEW c \in Clocks, c.alarm # 0
    PROVE  /\ Elapsed(c) \in Clocks
           /\ \A S : Has(c, S) => Has(Elapsed(c), S)
BY ElapsedTimer DEF Has

LEMMA InitHas == Has(init_proto_timers, {})
<1> DEFINE t == [i \in Timers |-> Idle]
<1>1. t \in [Timers -> [running : BOOLEAN, left : Int]] /\ Running(t) = {}
    BY DEF Idle, Running
<1>2. \A i \in Timers : t[i].left <= MaxAlarm
    BY TimersAssumption DEF Idle
<1>3. t \in Tables
    BY <1>1, <1>2 DEF Tables
<1> HIDE DEF t
<1> QED  BY <1>1, <1>3, AlarmSet DEF Has, init_proto_timers, t

\* The loop's own alarm() takes nothing from a clock without timers.
LEMMA OffHas ==
    ASSUME NEW c \in Clocks
    PROVE  /\ [c EXCEPT !.alarm = NoAlarm] \in Clocks
           /\ Has(c, {}) => Has([c EXCEPT !.alarm = NoAlarm], {})
<1>1. [c EXCEPT !.alarm = NoAlarm] = [timers |-> c.timers, alarm |-> NoAlarm]
    BY DEF Clocks
<1>2. [c EXCEPT !.alarm = NoAlarm] \in Clocks
    BY <1>1 DEF Clocks
<1>3. ASSUME Has(c, {}) PROVE c = [timers |-> c.timers, alarm |-> NoAlarm]
    BY <1>3 DEF Has, Covered, Clocks
<1> QED  BY <1>1, <1>2, <1>3

\* When the alarm of a covered clock comes, a timer has run out.
LEMMA AlarmHas ==
    ASSUME NEW c, NEW S, Has(c, S), c.alarm = 0
    PROVE  Overdue(c.timers) # {} /\ S # {}
BY DEF Has, Covered, Overdue, NoAlarm

\* The options are times that alarm() is asked for.
LEMMA Options == T6 \in 1..MaxAlarm /\ T8 \in 1..MaxAlarm /\ 6 \in {6, 8} /\ 8 \in {6, 8}
BY HsmsAssumption

\* The next read of a reception has a T8 of its own.
LEMMA NextHas ==
    ASSUME NEW c \in Clocks
    PROVE  Has(start_proto_timer(stop_proto_timer(c, 8), 8, T8), (Running(c.timers) \ {8}) \cup {8})
<1> DEFINE d == stop_proto_timer(c, 8)
<1>1. d \in Clocks /\ Running(d.timers) = Running(c.timers) \ {8}
    BY StopHas DEF Has
<1> HIDE DEF d
<1> QED  BY <1>1, StartHas, Options DEF d

\* A reception fails: T6 of client_connect() is stopped too.
LEMMA FailsTiming ==
    ASSUME NEW c \in Clocks, ReceptionFails(c),
           ~stray' => /\ loc = "selecting" => Running(c.timers) = {6}
                      /\ loc = "recv" => Has(c, {})
    PROVE  TimersInv'
<1>1. CASE loc = "selecting" /\ clock' = stop_proto_timer(c, 6) /\ Goto("t5")
    <2>1. clock' \in Clocks /\ (~stray' => Has(clock', {}))
        <3>1. stop_proto_timer(c, 6) \in Clocks /\ Has(stop_proto_timer(c, 6), Running(c.timers) \ {6})
            BY StopHas
        <3>2. {6} \ {6} = {}
            OBVIOUS
        <3> QED  BY <1>1, <3>1, <3>2
    <2> QED  BY <1>1, <2>1 DEF TimersInv, Timing, Goto, Reading
<1>2. CASE loc = "recv" /\ clock' = c /\ Goto("select")
    BY <1>2 DEF TimersInv, Timing, Goto, Reading
<1> QED  BY <1>1, <1>2 DEF ReceptionFails

\* A reception has its message.
LEMMA CompletesTiming ==
    ASSUME TimersInv, NEW m, Completes(m), stray' = stray
    PROVE  TimersInv'
<1> DEFINE d == stop_proto_timer(clock, 8)
<1>1. d \in Clocks /\ Has(d, Running(clock.timers) \ {8}) /\ Running(d.timers) = Running(clock.timers) \ {8}
    BY StopHas DEF TimersInv, Has
<1>2. CASE loc = "selecting" /\ clock' = stop_proto_timer(d, 6) /\ Goto("exec")
    <2>1. clock' \in Clocks /\ Has(clock', (Running(clock.timers) \ {8}) \ {6})
        BY <1>1, <1>2, StopHas
    <2>2. ~stray => Running(clock.timers) = {6, 8}
        BY <1>2 DEF TimersInv, Timing, Has
    <2>3. ({6, 8} \ {8}) \ {6} = {}
        OBVIOUS
    <2>4. ~stray' => Has(clock', {})
        BY <2>1, <2>2, <2>3
    <2> QED  BY <1>2, <2>1, <2>4 DEF TimersInv, Timing, Goto, Reading
<1>3. CASE loc = "recv" /\ clock' = d /\ Dispatch(m)
    <2>1. ~stray => Running(clock.timers) = {8}
        BY <1>3 DEF TimersInv, Timing, Has
    <2>2. {8} \ {8} = {}
        OBVIOUS
    <2>3. clock' \in Clocks /\ (~stray' => Has(clock', {}))
        BY <1>1, <1>3, <2>1, <2>2
    <2>4. loc' \in {"exec", "select", "dead"}
        BY <1>3 DEF Dispatch, Goto
    <2> QED  BY <2>3, <2>4 DEF TimersInv, Timing, Reading
<1> QED  BY <1>2, <1>3 DEF Completes

\* A reception goes on with its next read.
LEMMA NextTiming ==
    ASSUME TimersInv, Reading, NextRead, loc' = loc, stray' = stray
    PROVE  TimersInv'
<1>1. Has(clock', (Running(clock.timers) \ {8}) \cup {8}) /\ clock' \in Clocks
    BY NextHas DEF TimersInv, NextRead, Has
<1>2. CASE loc = "selecting"
    <2>1. ~stray => Running(clock.timers) = {6, 8}
        BY <1>2 DEF TimersInv, Timing, Has
    <2>2. ({6, 8} \ {8}) \cup {8} = {6, 8}
        OBVIOUS
    <2>3. ~stray' => Has(clock', {6, 8})
        BY <1>1, <2>1, <2>2
    <2> QED  BY <1>1, <1>2, <2>3 DEF TimersInv, Timing, Reading
<1>3. CASE loc = "recv"
    <2>1. ~stray => Running(clock.timers) = {8}
        BY <1>3 DEF TimersInv, Timing, Has
    <2>2. ({8} \ {8}) \cup {8} = {8}
        OBVIOUS
    <2>3. ~stray' => Has(clock', {8})
        BY <1>1, <2>1, <2>2
    <2> QED  BY <1>1, <1>3, <2>3 DEF TimersInv, Timing, Reading
<1> QED  BY <1>2, <1>3 DEF Reading

\* Steps of the others, and steps to a place of the same kind
LEMMA SameTiming ==
    ASSUME TimersInv, clock' = clock, stray' = stray,
           loc' = loc \/ (~Reading /\ ~Reading' /\ loc' # "wild")
    PROVE  TimersInv'
<1>1. CASE loc' = loc
    BY <1>1 DEF TimersInv, Timing, Reading
<1>2. CASE ~Reading /\ ~Reading' /\ loc' # "wild"
    BY <1>2 DEF TimersInv, Timing, Reading
<1> QED  BY <1>1, <1>2

LEMMA SignalTiming ==
    ASSUME TimersInv, SigAlrm
    PROVE  TimersInv'
<1> DEFINE t == clock.timers
<1>1. clock \in Clocks /\ clock.alarm = 0
    BY DEF TimersInv, SigAlrm
<1>2. Handled \in Clocks
    BY <1>1, HandledHas DEF Handled
<1>3. ~stray => Overdue(t) # {} /\ Reading
    BY <1>1, AlarmHas DEF TimersInv, Timing, Reading
<1>4. Overdue(t) # {} => Due(t) \in Running(t) /\ Has(Handled, Running(t) \ {Due(t)})
    BY <1>1, HandledHas DEF Handled
<1>5. ~stray => /\ loc = "selecting" => Running(t) = {6, 8}
                /\ loc = "recv" => Running(t) = {8}
    BY DEF TimersInv, Timing, Has
<1> HIDE DEF t
<1>6. CASE Overdue(t) = {} /\ clock' = Handled /\ UNCHANGED <<loc, history>>
    BY <1>2, <1>3, <1>6 DEF TimersInv, Timing, history
<1>7. CASE /\ Overdue(t) # {} /\ (~Reading \/ (loc = "recv" /\ Due(t) = 6))
           /\ clock' = Handled /\ UNCHANGED history
    <2>1. stray
        BY <1>3, <1>4, <1>5, <1>7
    <2> QED  BY <1>2, <1>7, <2>1 DEF TimersInv, Timing, history
<1>8. CASE Overdue(t) # {} /\ Reading /\ Due(t) = 8 /\ (T8Branch \/ T8Caller) /\ stray' = stray
    <2> DEFINE d == stop_proto_timer(Handled, 8)
    <2>1. Has(Handled, Running(t) \ {8}) /\ Running(Handled.timers) = Running(t) \ {8}
        BY <1>4, <1>8 DEF Has
    <2>2. d \in Clocks /\ Has(d, (Running(t) \ {8}) \ {8}) /\ Running(d.timers) = (Running(t) \ {8}) \ {8}
        BY <1>2, <2>1, StopHas DEF Has
    <2>3. /\ {6, 8} \ {8} = {6} /\ {8} \ {8} = {} /\ ({6, 8} \ {8}) \ {8} = {6}
          /\ ({8} \ {8}) \ {8} = {}
        OBVIOUS
    <2>4. ~stray' => /\ loc = "selecting" => Running(Handled.timers) = {6} /\ Running(d.timers) = {6}
                     /\ loc = "recv" => Has(Handled, {}) /\ Has(d, {})
        BY <1>5, <1>8, <2>1, <2>2, <2>3
    <2>5. ASSUME ReceptionFails(Handled) \/ ReceptionFails(d) PROVE TimersInv'
        <3>1. CASE ReceptionFails(Handled)
            BY <1>2, <2>4, <3>1, FailsTiming
        <3>2. CASE ReceptionFails(d)
            BY <2>2, <2>4, <3>2, FailsTiming
        <3> QED  BY <2>5, <3>1, <3>2
    <2>6. ASSUME NEW m, Completes(m) PROVE TimersInv'
        BY <1>8, <2>6, CompletesTiming
    <2>7. ASSUME clock' = start_proto_timer(d, 8, T8), loc' = loc PROVE TimersInv'
        <3>1. Has(clock', ((Running(t) \ {8}) \ {8}) \cup {8})
            BY <2>1, <2>7, NextHas, <1>2
        <3>2. (({6, 8} \ {8}) \ {8}) \cup {8} = {6, 8} /\ (({8} \ {8}) \ {8}) \cup {8} = {8}
            OBVIOUS
        <3>3. ~stray' => /\ loc = "selecting" => Has(clock', {6, 8})
                         /\ loc = "recv" => Has(clock', {8})
            BY <1>5, <1>8, <3>1, <3>2
        <3>4. clock' \in Clocks
            BY <3>1 DEF Has
        <3> QED  BY <1>8, <2>7, <3>3, <3>4 DEF TimersInv, Timing, Reading
    <2>8. CASE T8Branch
        BY <2>5, <2>8 DEF T8Branch
    <2>9. CASE T8Caller
        BY <2>5, <2>6, <2>7, <2>9 DEF T8Caller
    <2> QED  BY <1>8, <2>8, <2>9
<1>9. CASE T6Runs /\ stray' = TRUE
    <2>1. clock' \in Clocks
        BY <1>2, <1>9, StopHas DEF T6Runs
    <2> QED  BY <1>9, <2>1 DEF TimersInv, Timing
<1> QED  BY <1>6, <1>7, <1>8, <1>9 DEF SigAlrm, t

LEMMA TimersStep ==
    ASSUME TimersInv, [Next]_vars
    PROVE  TimersInv'
<1>0. clock \in Clocks
    BY DEF TimersInv
<1>1. CASE ReadLength
    <2>1. CASE NextRead /\ UNCHANGED loc
        BY <1>1, <2>1, NextTiming DEF ReadLength, history
    <2>2. CASE Goto("garbled") /\ clock' = init_proto_timers
        BY <2>2, InitHas DEF Goto, TimersInv, Timing, Has, Reading
    <2> QED  BY <1>1, <2>1, <2>2 DEF ReadLength
<1>2. CASE ReadHeader
    <2>1. CASE \E m : Completes(m)
        BY <1>2, <2>1, CompletesTiming DEF ReadHeader
    <2>2. CASE NextRead /\ UNCHANGED loc
        BY <1>2, <2>2, NextTiming DEF ReadHeader
    <2> QED  BY <1>2, <2>1, <2>2 DEF ReadHeader
<1>3. CASE ReadBody
    <2>1. CASE \E m : Completes(m)
        BY <1>3, <2>1, CompletesTiming DEF ReadBody
    <2>2. CASE NextRead /\ UNCHANGED loc
        BY <1>3, <2>2, NextTiming DEF ReadBody
    <2> QED  BY <1>3, <2>1, <2>2 DEF ReadBody
<1>4. CASE Hangup
    <2>1. CASE part = "header"
        <3>1. ReceptionFails(clock) /\ stray'
            BY <1>4, <2>1 DEF Hangup
        <3> QED  BY <1>0, <3>1, FailsTiming
    <2>2. CASE part # "header"
        <3> DEFINE d == stop_proto_timer(clock, 8)
        <3>1. ReceptionFails(d) /\ (~stray' => ~stray)
            BY <1>4, <2>2 DEF Hangup
        <3>2. d \in Clocks /\ Has(d, Running(clock.timers) \ {8})
              /\ Running(d.timers) = Running(clock.timers) \ {8}
            BY <1>0, StopHas DEF Has
        <3>3. {6, 8} \ {8} = {6} /\ {8} \ {8} = {}
            OBVIOUS
        <3>4. ~stray => /\ loc = "selecting" => Running(clock.timers) = {6, 8}
                        /\ loc = "recv" => Running(clock.timers) = {8}
            BY DEF TimersInv, Timing, Has
        <3> HIDE DEF d
        <3>5. ~stray' => /\ loc = "selecting" => Running(d.timers) = {6}
                         /\ loc = "recv" => Has(d, {})
            BY <3>1, <3>2, <3>3, <3>4
        <3> QED  BY <3>1, <3>2, <3>5, FailsTiming
    <2> QED  BY <2>1, <2>2
<1>5. CASE SigAlrm
    BY <1>5, SignalTiming
<1>6. CASE Tick
    BY <1>0, <1>6, ElapsedHas DEF Tick, TimersInv, Timing, Reading, history
<1>7. CASE client_connect
    <2>1. CASE Begins(start_proto_timer(clock, 6, T6)) /\ Goto("selecting")
        <3> DEFINE d == start_proto_timer(clock, 6, T6)
        <3>1. d \in Clocks /\ (6 \notin Running(clock.timers) => Has(d, Running(clock.timers) \cup {6}))
            BY <1>0, StartHas, Options
        <3>2. /\ start_proto_timer(d, 8, T8) \in Clocks
              /\ 8 \notin Running(d.timers) => Has(start_proto_timer(d, 8, T8), Running(d.timers) \cup {8})
            BY <3>1, StartHas, Options
        <3>3. ~stray => Running(clock.timers) = {}
            BY <1>7 DEF client_connect, TimersInv, Timing, Has, Reading
        <3>4. ~stray => Running(d.timers) = {6}
            BY <3>1, <3>3 DEF Has
        <3>5. clock' = start_proto_timer(d, 8, T8)
            BY <2>1 DEF Begins
        <3> HIDE DEF d
        <3>6. {6} \cup {8} = {6, 8} /\ 8 \notin {6}
            OBVIOUS
        <3>7. clock' \in Clocks /\ (~stray => Has(clock', {6, 8}))
            BY <3>2, <3>4, <3>5, <3>6
        <3> QED  BY <1>7, <2>1, <3>7 DEF client_connect, TimersInv, Timing, Reading, Goto, history
    <2>2. CASE Goto("t5") /\ UNCHANGED clock
        BY <1>7, <2>2, SameTiming DEF client_connect, Goto, Reading, history
    <2> QED  BY <1>7, <2>1, <2>2 DEF client_connect
<1>8. CASE Reconnect
    BY <1>8, SameTiming DEF Reconnect, Goto, Reading
<1>9. CASE EnterLoop
    <2>1. ~stray => Has(clock, {})
        BY <1>9 DEF EnterLoop, TimersInv, Timing, Reading
    <2>2. clock' \in Clocks /\ (~stray => Has(clock', {}))
        BY <1>0, <1>9, <2>1, OffHas DEF EnterLoop
    <2> QED  BY <1>9, <2>2 DEF EnterLoop, Goto, TimersInv, Timing, Reading, history
<1>10. CASE recv_hsms
    <2>1. ~stray => Running(clock.timers) = {}
        BY <1>10 DEF recv_hsms, TimersInv, Timing, Has, Reading
    <2>2. {} \cup {8} = {8} /\ 8 \notin {}
        OBVIOUS
    <2>3. clock' \in Clocks /\ (~stray => Has(clock', {8}))
        BY <1>0, <1>10, <2>1, <2>2, StartHas, Options DEF recv_hsms, Begins
    <2> QED  BY <1>10, <2>3 DEF recv_hsms, Goto, TimersInv, Timing, Reading, history
<1>11. CASE Peer
    BY <1>11, SameTiming DEF Peer, PeerAnswers, PeerSends, PeerCloses, history
<1>12. CASE Arrive
    BY <1>12, SameTiming DEF Arrive, history
<1>13. CASE Stopped \/ UNCHANGED vars
    BY <1>13, SameTiming DEF Stopped, vars, history
<1> QED  BY <1>1, <1>2, <1>3, <1>4, <1>5, <1>6, <1>7, <1>8, <1>9, <1>10, <1>11, <1>12, <1>13
         DEF Next, Receive

\* TimersKept: whatever order T6 and T8 are started, stopped and run out in,
\* the alarm is set for the timers of the reception as long as none was left over.
LEMMA TimersKept == Spec => []TimersInv
<1>1. Init => TimersInv
    BY InitHas DEF Init, TimersInv, Timing, Has, Reading
<1>2. TimersInv /\ [Next]_vars => TimersInv'
    BY TimersStep
<1> QED  BY <1>1, <1>2, PTL DEF Spec

\* AlarmComes: a blocked read of the length, the header or the body of a message
\* is ended by the alarm as soon as T6 or T8 has run out.
THEOREM AlarmComes == Spec => []AlarmPending
<1>1. TimersInv => AlarmPending
    BY DEF TimersInv, Timing, Has, AlarmPending, AlarmCovers, Reading
<1> QED  BY <1>1, TimersKept, PTL

\* TimersStopped: recv_hsmsI() and client_connect() stop their timers on every
\* path but the two that are known to leave T8 running.
THEOREM TimersStopped == Spec => []NoTimerLeft
<1>1. TimersInv => NoTimerLeft
    BY DEF TimersInv, Timing, Has, NoTimerLeft
<1> QED  BY <1>1, TimersKept, PTL

-----------------------------------------------------------------------------
(* The types. *)

Parts == {"length", "header", "body"}
Symbols == [part : Parts, msg : Message]

PlaceTypes == loc \in Locations /\ part \in Parts /\ left \in {Wrapped} \cup Nat /\ msg \in Message
StreamTypes == wire \in Seq(Symbols) /\ coming \in Seq(Symbols)
PeerTypes ==
    /\ peer \in {"asked", "selected", "closed"} /\ connects \in 1..MaxConnects
    /\ tests \in 0..MaxSent
HistoryTypes ==
    /\ sent \in Seq(Message) /\ delivered \in Seq(Message)
    /\ lost \in BOOLEAN /\ excused \in BOOLEAN /\ stray \in BOOLEAN

Typed == PlaceTypes /\ StreamTypes /\ PeerTypes /\ HistoryTypes

\* The j-th symbol of a message
Byte(m, j) == Symbol(IF j = 1 THEN "length" ELSE IF j = 2 THEN "header" ELSE "body", m)

LEMMA MessageTypes ==
    /\ NoMsg \in Message
    /\ \A stype \in Stypes : Control(stype) \in Message
    /\ \A id \in 0..MaxSent, size \in Bodies : DataMsg(id, size) \in Message
    /\ \A m \in Message : m.size \in Nat /\ m.id \in 0..MaxSent /\ m.stype \in Stypes
    /\ \A m \in Message, p \in Parts : Symbol(p, m) \in Symbols
<1>1. NoMsg \in Message
    BY HsmsAssumption DEF NoMsg, Message, Stypes
<1>2. \A stype \in Stypes : Control(stype) \in Message
    BY HsmsAssumption DEF Control, Message
<1>3. \A id \in 0..MaxSent, size \in Bodies : DataMsg(id, size) \in Message
    BY DEF DataMsg, Message, Stypes
<1>4. \A m \in Message : m.size \in Nat /\ m.id \in 0..MaxSent /\ m.stype \in Stypes
    <2>1. \A m \in Message : m.size \in Bodies \cup {0} /\ m.id \in 0..MaxSent /\ m.stype \in Stypes
        BY DEF Message
    <2>2. Bodies \cup {0} \subseteq Nat
        BY HsmsAssumption
    <2> QED  BY <2>1, <2>2
<1>5. \A m \in Message, p \in Parts : Symbol(p, m) \in Symbols
    BY DEF Symbol, Symbols
<1> QED  BY <1>1, <1>2, <1>3, <1>4, <1>5

LEMMA BytesAre ==
    ASSUME NEW m \in Message
    PROVE  /\ Bytes(m) \in Seq(Symbols) /\ Len(Bytes(m)) = m.size + 2
           /\ \A j \in 1..(m.size + 2) : Bytes(m)[j] = Byte(m, j)
<1> DEFINE a == <<Symbol("length", m), Symbol("header", m)>>
           b == [i \in 1..m.size |-> Symbol("body", m)]
<1>1. m.size \in Nat /\ \A p \in Parts : Symbol(p, m) \in Symbols
    BY MessageTypes
<1>2. b \in Seq(Symbols) /\ Len(b) = m.size /\ \A i \in 1..m.size : b[i] = Symbol("body", m)
    BY <1>1 DEF Parts
<1>3. /\ a \in Seq(Symbols) /\ Len(a) = 2
      /\ a[1] = Symbol("length", m) /\ a[2] = Symbol("header", m)
    BY <1>1 DEF Parts
<1> HIDE DEF a, b
<1>4. /\ a \o b \in Seq(Symbols) /\ Len(a \o b) = m.size + 2
      /\ \A j \in 1..(m.size + 2) : (a \o b)[j] = IF j <= 2 THEN a[j] ELSE b[j - 2]
    <2>1. /\ a \o b \in Seq(Symbols) /\ Len(a \o b) = Len(a) + Len(b)
          /\ \A j \in 1..(Len(a) + Len(b)) : (a \o b)[j] = IF j <= Len(a) THEN a[j] ELSE b[j - Len(a)]
        BY <1>2, <1>3, ConcatProperties
    <2>2. Len(a) + Len(b) = m.size + 2
        BY <1>1, <1>2, <1>3
    <2> QED  BY <1>3, <2>1, <2>2
<1>5. Bytes(m) = a \o b
    BY DEF Bytes, a, b
<1>6. ASSUME NEW j \in 1..(m.size + 2) PROVE (a \o b)[j] = Byte(m, j)
    <2>1. CASE j = 1
        BY <1>1, <1>3, <1>4, <2>1 DEF Byte
    <2>2. CASE j = 2
        BY <1>1, <1>3, <1>4, <2>2 DEF Byte
    <2>3. CASE j > 2
        <3>1. (a \o b)[j] = b[j - 2] /\ j - 2 \in 1..m.size
            BY <1>1, <1>4, <2>3
        <3>2. b[j - 2] = Symbol("body", m)
            BY <1>2, <3>1
        <3>3. Byte(m, j) = Symbol("body", m)
            BY <2>3 DEF Byte
        <3> QED  BY <3>1, <3>2, <3>3
    <2>4. j = 1 \/ j = 2 \/ j > 2
        BY <1>1
    <2> QED  BY <2>1, <2>2, <2>3, <2>4
<1> QED  BY <1>4, <1>5, <1>6

\* A read of a body takes at least one byte and at most what has arrived.
LEMMA ReadSize ==
    ASSUME NEW q \in Seq(Symbols), q # <<>>
    PROVE  Min({MaxRead, Len(q)}) \in 1..Len(q)
<1>1. /\ Len(q) \in Nat \ {0} /\ MaxRead \in Nat \ {0}
      /\ Len(q) \in Int /\ MaxRead \in Int
    BY HsmsAssumption
<1> DEFINE S == {MaxRead, Len(q)}
<1>2. S # {} /\ \A x \in S : x = MaxRead \/ x = Len(q) \/ x = Len(q)
    OBVIOUS
<1>3. Len(q) \in S /\ \A x \in S : x \in Nat \ {0}
    BY <1>1
<1> HIDE DEF S
<1>4. Min(S) \in S /\ \A y \in S : Min(S) <= y
    BY <1>1, <1>2, MinThree
<1> QED  BY <1>1, <1>3, <1>4 DEF S

LEMMA FailsTypes ==
    ASSUME NEW c, ReceptionFails(c)
    PROVE  PlaceTypes' /\ loc' \in {"t5", "select"} /\ part' = "length"
BY MessageTypes DEF ReceptionFails, Ends, Goto, PlaceTypes, Locations, Parts, Wrapped

LEMMA CompletesTypes ==
    ASSUME NEW m \in Message, Completes(m), delivered \in Seq(Message)
    PROVE  /\ PlaceTypes' /\ coming' = coming /\ part' = "length"
           /\ delivered' \in Seq(Message) /\ (excused' = excused \/ excused' \in BOOLEAN)
<1>1. part' \in Parts /\ left' \in {Wrapped} \cup Nat /\ msg' \in Message /\ part' = "length"
    BY MessageTypes DEF Completes, Ends, Parts
<1>2. CASE loc = "selecting" /\ excused' = (excused \/ m.stype # "select.rsp")
           /\ Goto("exec") /\ UNCHANGED <<coming, delivered>>
    BY <1>1, <1>2 DEF PlaceTypes, Goto, Locations
<1>3. CASE loc = "recv" /\ Dispatch(m)
    BY <1>1, <1>3 DEF PlaceTypes, Goto, Locations, Dispatch
<1> QED  BY <1>2, <1>3 DEF Completes

LEMMA TailTypes ==
    ASSUME NEW q \in Seq(Symbols), q # <<>>
    PROVE  Tail(q) \in Seq(Symbols) /\ Head(q) \in Symbols /\ Head(q).msg \in Message
<1>1. Tail(q) \in Seq(Symbols) /\ Head(q) \in Symbols
    BY HeadTailProperties
<1> QED  BY <1>1 DEF Symbols

LEMMA SignalTypes ==
    ASSUME Typed, SigAlrm
    PROVE  Typed'
<1>1. CASE UNCHANGED <<stream, coming, history>> /\ (loc' = loc \/ loc' = "wild")
    BY <1>1 DEF SigAlrm, Typed, PlaceTypes, StreamTypes, PeerTypes, HistoryTypes,
                stream, history, Locations
<1>2. CASE T8Branch /\ UNCHANGED <<stray, sent>>
    <2>1. PlaceTypes'
        BY <1>2, FailsTypes DEF T8Branch
    <2> QED  BY <1>2, <2>1 DEF SigAlrm, T8Branch, Broken, Typed, StreamTypes, PeerTypes, HistoryTypes
<1>3. CASE T8Caller /\ UNCHANGED <<stray, sent>>
    <2>1. CASE Broken /\ (\E c : ReceptionFails(c)) /\ UNCHANGED <<wire, coming, delivered, excused>>
        <3>1. PlaceTypes'
            BY <2>1, FailsTypes
        <3> QED  BY <1>3, <2>1, <3>1 DEF SigAlrm, Broken, Typed, StreamTypes, PeerTypes, HistoryTypes
    <2>2. CASE Completes(msg) /\ lost' = TRUE /\ UNCHANGED wire
        BY <1>3, <2>2, CompletesTypes DEF SigAlrm, Typed, PlaceTypes, StreamTypes, PeerTypes, HistoryTypes
    <2>3. CASE left' = Count(1) /\ UNCHANGED <<loc, part, msg, coming, delivered, excused, wire>> /\ lost' = TRUE
        <3>1. left' \in {Wrapped} \cup Nat
            BY <2>3 DEF Count, Typed, PlaceTypes, Wrapped
        <3> QED  BY <1>3, <2>3, <3>1 DEF SigAlrm, Typed, PlaceTypes, StreamTypes, PeerTypes, HistoryTypes
    <2> QED  BY <1>3, <2>1, <2>2, <2>3 DEF T8Caller
<1>4. CASE T6Runs /\ stray' = TRUE /\ UNCHANGED sent
    <2>1. PlaceTypes'
        BY <1>4, MessageTypes DEF T6Runs, Ends, Goto, PlaceTypes, Locations, Parts
    <2> QED  BY <1>4, <2>1 DEF SigAlrm, T6Runs, Broken, Typed, StreamTypes, PeerTypes, HistoryTypes
<1> QED  BY <1>1, <1>2, <1>3, <1>4 DEF SigAlrm, Goto

LEMMA PeerKeepsTypes ==
    ASSUME Typed, Peer
    PROVE  Typed'
<1>1. CASE PeerAnswers
    <2>1. Bytes(Control("select.rsp")) \in Seq(Symbols)
        BY MessageTypes, BytesAre DEF Stypes
    <2>2. coming' \in Seq(Symbols)
        BY <1>1, <2>1, ConcatProperties DEF PeerAnswers, Typed, StreamTypes
    <2> QED  BY <1>1, <2>2 DEF PeerAnswers, Typed, PlaceTypes, StreamTypes, PeerTypes, HistoryTypes,
                               stream, history
<1>2. CASE PeerSends
    <2>1. ASSUME NEW size \in Bodies, coming' = coming \o Bytes(DataMsg(Len(sent) + 1, size)),
                 sent' = Append(sent, DataMsg(Len(sent) + 1, size)), UNCHANGED tests
          PROVE  coming' \in Seq(Symbols) /\ sent' \in Seq(Message) /\ tests' \in 0..MaxSent
        <3>1. Len(sent) + 1 \in 0..MaxSent
            BY <1>2, HsmsAssumption DEF PeerSends, Typed, PeerTypes, HistoryTypes
        <3>2. DataMsg(Len(sent) + 1, size) \in Message
            BY <3>1, MessageTypes
        <3> QED  BY <2>1, <3>2, BytesAre, ConcatProperties
                 DEF Typed, PeerTypes, HistoryTypes, StreamTypes
    <2>2. ASSUME coming' = coming \o Bytes(Control("linktest.req")), tests' = tests + 1, UNCHANGED sent
          PROVE  coming' \in Seq(Symbols) /\ sent' \in Seq(Message) /\ tests' \in 0..MaxSent
        <3>1. Control("linktest.req") \in Message
            BY MessageTypes DEF Stypes
        <3>2. tests' \in 0..MaxSent
            BY <1>2, <2>2, HsmsAssumption DEF PeerSends, Typed, PeerTypes, HistoryTypes
        <3> QED  BY <2>2, <3>1, <3>2, BytesAre, ConcatProperties
                 DEF Typed, PeerTypes, HistoryTypes, StreamTypes
    <2>3. coming' \in Seq(Symbols) /\ sent' \in Seq(Message) /\ tests' \in 0..MaxSent
        BY <1>2, <2>1, <2>2 DEF PeerSends
    <2> QED  BY <1>2, <2>3 DEF PeerSends, Typed, PlaceTypes, StreamTypes, PeerTypes, HistoryTypes, stream
<1>3. CASE PeerCloses
    <2>1. ASSUME coming' = coming \o Bytes(Control("separate.req")) PROVE coming' \in Seq(Symbols)
        <3>1. Bytes(Control("separate.req")) \in Seq(Symbols)
            BY MessageTypes, BytesAre DEF Stypes
        <3> QED  BY <2>1, <3>1, ConcatProperties DEF Typed, StreamTypes
    <2>2. ASSUME NEW k \in 0..(Len(coming) - 1), coming' = SubSeq(coming, 1, k)
          PROVE  coming' \in Seq(Symbols)
        BY <2>2, SubSeqProperties DEF Typed, StreamTypes
    <2>3. coming' \in Seq(Symbols)
        BY <1>3, <2>1, <2>2 DEF PeerCloses, Typed, StreamTypes
    <2> QED  BY <1>3, <2>3 DEF PeerCloses, Typed, PlaceTypes, StreamTypes, PeerTypes, HistoryTypes,
                               stream, history
<1> QED  BY <1>1, <1>2, <1>3 DEF Peer

LEMMA TypesStep ==
    ASSUME Typed, [Next]_vars
    PROVE  Typed'
<1> USE DEF Typed, StreamTypes, PeerTypes, HistoryTypes
<1>1. CASE ReadLength
    <2>1. wire' \in Seq(Symbols)
        BY <1>1, TailTypes DEF ReadLength
    <2>2. PlaceTypes'
        BY <1>1, MessageTypes DEF ReadLength, PlaceTypes, Locations, Goto, Ends, Parts
    <2> QED  BY <1>1, <2>1, <2>2 DEF ReadLength, history
<1>2. CASE ReadHeader
    <2>1. wire' \in Seq(Symbols) /\ Head(wire).msg \in Message
        BY <1>2, TailTypes DEF ReadHeader
    <2>2. CASE Completes(Head(wire).msg)
        <3>1. /\ PlaceTypes' /\ coming' = coming /\ delivered' \in Seq(Message)
              /\ excused' = excused \/ excused' \in BOOLEAN
            BY <2>1, <2>2, CompletesTypes
        <3> QED  BY <1>2, <2>1, <3>1 DEF ReadHeader
    <2>3. CASE /\ part' = "body" /\ left' = Rest(Head(wire).msg) /\ msg' = Head(wire).msg
               /\ UNCHANGED <<loc, coming, delivered, excused>>
        <3>1. PlaceTypes'
            BY <2>1, <2>3, MessageTypes DEF PlaceTypes, Rest, Parts
        <3> QED  BY <1>2, <2>1, <2>3, <3>1 DEF ReadHeader
    <2> QED  BY <1>2, <2>2, <2>3 DEF ReadHeader
<1>3. CASE ReadBody
    <2> DEFINE n == Min({MaxRead, Len(wire)})
    <2>1. n \in 1..Len(wire)
        BY <1>3, ReadSize DEF ReadBody
    <2>2. wire' = SubSeq(wire, n + 1, Len(wire)) /\ lost' \in BOOLEAN
        BY <1>3 DEF ReadBody
    <2>3. /\ \/ Completes(msg)
             \/ left' = Count(n) /\ UNCHANGED <<loc, part, msg, coming, delivered, excused>>
          /\ UNCHANGED <<peer, connects, tests, sent, stray>>
        BY <1>3 DEF ReadBody
    <2> HIDE DEF n
    <2>4. wire' \in Seq(Symbols)
        BY <2>1, <2>2, SubSeqProperties
    <2>5. CASE Completes(msg)
        <3>1. msg \in Message
            BY DEF PlaceTypes
        <3>2. /\ PlaceTypes' /\ coming' = coming /\ delivered' \in Seq(Message)
              /\ excused' = excused \/ excused' \in BOOLEAN
            BY <2>5, <3>1, CompletesTypes
        <3> QED  BY <2>2, <2>3, <2>4, <3>2
    <2>6. CASE left' = Count(n) /\ UNCHANGED <<loc, part, msg, coming, delivered, excused>>
        <3>1. left' \in {Wrapped} \cup Nat
            BY <2>1, <2>6 DEF Count, PlaceTypes, Wrapped
        <3>2. PlaceTypes'
            BY <2>6, <3>1 DEF PlaceTypes
        <3> QED  BY <2>2, <2>3, <2>4, <2>6, <3>2
    <2> QED  BY <2>3, <2>5, <2>6
<1>4. CASE Hangup
    <2>1. PlaceTypes'
        BY <1>4, FailsTypes DEF Hangup
    <2> QED  BY <1>4, <2>1 DEF Hangup, Broken
<1>5. CASE SigAlrm
    BY <1>5, SignalTypes
<1>6. CASE Tick
    BY <1>6 DEF Tick, PlaceTypes, stream, history
<1>7. CASE client_connect
    BY <1>7, MessageTypes DEF client_connect, Begins, Goto, PlaceTypes, Locations, Parts, history
<1>8. CASE Reconnect
    <2>1. <<>> \in Seq(Symbols) /\ <<>> \in Seq(Message) /\ 0 \in 0..MaxSent
        BY HsmsAssumption
    <2>2. connects + 1 \in 1..MaxConnects
        BY <1>8, HsmsAssumption DEF Reconnect
    <2> QED  BY <1>8, <2>1, <2>2 DEF Reconnect, Goto, PlaceTypes, Locations
<1>9. CASE EnterLoop
    BY <1>9 DEF EnterLoop, Goto, PlaceTypes, Locations, stream, history
<1>10. CASE recv_hsms
    BY <1>10, MessageTypes DEF recv_hsms, Begins, Goto, PlaceTypes, Locations, Parts, history
<1>11. CASE Peer
    BY <1>11, PeerKeepsTypes
<1>12. CASE Arrive
    <2>1. PICK k \in 1..Len(coming) : /\ wire' = wire \o SubSeq(coming, 1, k)
                                      /\ coming' = SubSeq(coming, k + 1, Len(coming))
        BY <1>12 DEF Arrive
    <2>2. SubSeq(coming, 1, k) \in Seq(Symbols) /\ SubSeq(coming, k + 1, Len(coming)) \in Seq(Symbols)
        BY SubSeqProperties
    <2>3. wire' \in Seq(Symbols) /\ coming' \in Seq(Symbols)
        BY <2>1, <2>2, ConcatProperties
    <2> QED  BY <1>12, <2>3 DEF Arrive, PlaceTypes, history
<1>13. CASE Stopped \/ UNCHANGED vars
    BY <1>13 DEF Stopped, vars, stream, history, PlaceTypes
<1> QED  BY <1>1, <1>2, <1>3, <1>4, <1>5, <1>6, <1>7, <1>8, <1>9, <1>10, <1>11, <1>12, <1>13
         DEF Next, Receive

LEMMA InitTyped == ASSUME Init PROVE Typed
<1>1. PlaceTypes
    BY MessageTypes DEF Init, PlaceTypes, Locations, Parts
<1>2. StreamTypes /\ HistoryTypes
    <2>1. <<>> \in Seq(Symbols) /\ <<>> \in Seq(Message)
        OBVIOUS
    <2>2. StreamTypes
        BY <2>1 DEF Init, StreamTypes
    <2> QED  BY <2>1, <2>2 DEF Init, HistoryTypes
<1>3. PeerTypes
    BY HsmsAssumption DEF Init, PeerTypes
<1> QED  BY <1>1, <1>2, <1>3 DEF Typed

LEMMA TypesKept == Spec => []Typed
<1>1. Init => Typed
    BY InitTyped
<1>2. Typed /\ [Next]_vars => Typed'
    BY TypesStep
<1> QED  BY <1>1, <1>2, PTL DEF Spec

\* HsmsTypes: the variables keep their types for every length of a body and
\* every size of a read; where the remaining length wraps it stays Wrapped.
THEOREM HsmsTypes == Spec => []TypeOK
<1>1. TimersInv => ClockType
    BY DEF TimersInv, ClockType, Clocks, Tables
<1>2. Typed /\ ClockType => TypeOK
    BY DEF TypeOK, Typed, PlaceTypes, StreamTypes, PeerTypes, HistoryTypes, Symbols, Parts
<1> QED  BY <1>1, <1>2, TimersKept, TypesKept, PTL

-----------------------------------------------------------------------------
(* The stream: what has arrived and what is on its way.  sc takes symbols  *)
(* from its front, the equipment adds whole messages at its end, and a     *)
(* connection that breaks cuts it off.                                     *)

Whole == wire \o coming

Dropped(v, w, n) == Len(v) = Len(w) - n /\ \A k \in 1..Len(v) : v[k] = w[k + n]
Joined(v, w, m) ==
    /\ Len(v) = Len(w) + m.size + 2
    /\ \A k \in 1..Len(w) : v[k] = w[k]
    /\ \A j \in 1..(m.size + 2) : v[Len(w) + j] = Byte(m, j)
CutOff(v, w) == Len(v) <= Len(w) /\ \A k \in 1..Len(v) : v[k] = w[k]

\* From position p on w has what follows the first j - 1 symbols of m, and
\* behind m the length bytes of another message
Expect(w, p, m, j) ==
    \A q \in p..Len(w) :
        /\ q - p + j <= m.size + 2 => w[q] = Byte(m, q - p + j)
        /\ q - p + j = m.size + 3 => w[q].part = "length"

\* Every message is whole as far as the stream goes, or to its end
Framing(w) == \A k \in 1..Len(w) : w[k].part = "length" => Expect(w, k, w[k].msg, 1)
Complete(w) == \A k \in 1..Len(w) : w[k].part = "length" => k + w[k].msg.size + 1 <= Len(w)

LEMMA ExpectShift ==
    ASSUME NEW w \in Seq(Symbols), NEW p \in Nat, NEW m \in Message, NEW j \in Nat, NEW n \in Nat,
           Expect(w, p, m, j)
    PROVE  Expect(w, p + n, m, j + n)
<1> SUFFICES ASSUME NEW q \in (p + n)..Len(w)
             PROVE  /\ q - (p + n) + (j + n) <= m.size + 2 => w[q] = Byte(m, q - (p + n) + (j + n))
                    /\ q - (p + n) + (j + n) = m.size + 3 => w[q].part = "length"
    BY DEF Expect
<1>1. q \in p..Len(w) /\ q - (p + n) + (j + n) = q - p + j
    OBVIOUS
<1> QED  BY <1>1 DEF Expect

LEMMA ExpectDrop ==
    ASSUME NEW w \in Seq(Symbols), NEW v \in Seq(Symbols), NEW n \in Nat, Dropped(v, w, n),
           NEW p \in Nat \ {0}, NEW m \in Message, NEW j \in Nat, Expect(w, p + n, m, j)
    PROVE  Expect(v, p, m, j)
<1> SUFFICES ASSUME NEW q \in p..Len(v)
             PROVE  /\ q - p + j <= m.size + 2 => v[q] = Byte(m, q - p + j)
                    /\ q - p + j = m.size + 3 => v[q].part = "length"
    BY DEF Expect
<1>1. q + n \in (p + n)..Len(w) /\ (q + n) - (p + n) + j = q - p + j /\ q \in 1..Len(v)
    BY DEF Dropped
<1>2. v[q] = w[q + n]
    BY <1>1 DEF Dropped
<1>3. /\ (q + n) - (p + n) + j <= m.size + 2 => w[q + n] = Byte(m, (q + n) - (p + n) + j)
      /\ (q + n) - (p + n) + j = m.size + 3 => w[q + n].part = "length"
    BY <1>1 DEF Expect
<1> QED  BY <1>1, <1>2, <1>3

LEMMA ExpectCut ==
    ASSUME NEW w \in Seq(Symbols), NEW v \in Seq(Symbols), CutOff(v, w),
           NEW p \in Nat \ {0}, NEW m \in Message, NEW j \in Nat, Expect(w, p, m, j)
    PROVE  Expect(v, p, m, j)
<1> SUFFICES ASSUME NEW q \in p..Len(v)
             PROVE  /\ q - p + j <= m.size + 2 => v[q] = Byte(m, q - p + j)
                    /\ q - p + j = m.size + 3 => v[q].part = "length"
    BY DEF Expect
<1>1. q \in p..Len(w) /\ q \in 1..Len(v)
    BY DEF CutOff
<1>2. v[q] = w[q]
    BY <1>1 DEF CutOff
<1> QED  BY <1>1, <1>2 DEF Expect

\* A message may be added behind one that is complete.
LEMMA ExpectJoin ==
    ASSUME NEW w \in Seq(Symbols), NEW v \in Seq(Symbols), NEW a \in Message, Joined(v, w, a),
           NEW p \in Nat \ {0}, NEW m \in Message, NEW j \in Nat, Expect(w, p, m, j),
           p + m.size + 2 <= Len(w) + j
    PROVE  Expect(v, p, m, j)
<1> SUFFICES ASSUME NEW q \in p..Len(v)
             PROVE  /\ q - p + j <= m.size + 2 => v[q] = Byte(m, q - p + j)
                    /\ q - p + j = m.size + 3 => v[q].part = "length"
    BY DEF Expect
<1>0. m.size \in Nat /\ a.size \in Nat /\ Len(w) \in Nat /\ Len(v) \in Nat
    BY MessageTypes
<1>1. CASE q <= Len(w)
    <2>1. q \in p..Len(w) /\ q \in 1..Len(w)
        BY <1>0, <1>1
    <2>2. v[q] = w[q]
        BY <2>1 DEF Joined
    <2> QED  BY <2>1, <2>2 DEF Expect
<1>2. CASE q > Len(w)
    <2>0. /\ q \in Int /\ p \in Int /\ j \in Int /\ m.size \in Int /\ Len(w) \in Int
          /\ q > Len(w) /\ p + m.size + 2 <= Len(w) + j
        BY <1>0, <1>2
    <2>a. q - p + j > m.size + 2 /\ (q - p + j = m.size + 3 => q = Len(w) + 1)
        <3> DEFINE s == m.size
                   l == Len(w)
        <3>1. q \in Int /\ p \in Int /\ j \in Int /\ s \in Int /\ l \in Int
            BY <2>0
        <3>2. q > l /\ p + s + 2 <= l + j
            BY <2>0
        <3> HIDE DEF s, l
        <3>3. q - p + j > s + 2
            BY ONLY <3>1, <3>2
        <3>4. q - p + j = s + 3 => q = l + 1
            BY ONLY <3>1, <3>2
        <3> QED  BY <3>3, <3>4 DEF s, l
    <2>1. q - p + j > m.size + 2
        BY <2>a
    <2>2. q - p + j = m.size + 3 => q = Len(w) + 1
        BY <2>a
    <2>3. v[Len(w) + 1] = Byte(a, 1)
        BY <1>0 DEF Joined
    <2>4. Byte(a, 1).part = "length"
        BY DEF Byte, Symbol
    <2>5. ~(q - p + j <= m.size + 2)
        BY ONLY <2>0, <2>1
    <2> QED  BY <2>2, <2>3, <2>4, <2>5
<1> QED  BY <1>0, <1>1, <1>2

LEMMA AddLonger ==
    ASSUME NEW x \in Nat, NEW y \in Nat, NEW z \in Nat, NEW u \in Nat, x + y + 1 <= z
    PROVE  x + y + 1 <= z + u + 2
OBVIOUS

\* Messages stay whole when symbols are read, ...
LEMMA FramingDrop ==
    ASSUME NEW w \in Seq(Symbols), NEW v \in Seq(Symbols), NEW n \in Nat, Dropped(v, w, n), Framing(w)
    PROVE  Framing(v) /\ (Complete(w) => Complete(v))
<1>1. ASSUME NEW k \in 1..Len(v), v[k].part = "length"
      PROVE  Expect(v, k, v[k].msg, 1) /\ (Complete(w) => k + v[k].msg.size + 1 <= Len(v))
    <2>1. k + n \in 1..Len(w) /\ v[k] = w[k + n] /\ k \in Nat \ {0}
        BY DEF Dropped
    <2>2. v[k].msg \in Message /\ v[k].msg.size \in Nat
        <3>1. v[k] \in Symbols
            OBVIOUS
        <3> QED  BY <3>1, MessageTypes DEF Symbols
    <2>3. Expect(w, k + n, v[k].msg, 1)
        BY <1>1, <2>1 DEF Framing
    <2>4. Expect(v, k, v[k].msg, 1)
        BY <2>1, <2>2, <2>3, ExpectDrop
    <2>5. ASSUME Complete(w) PROVE k + v[k].msg.size + 1 <= Len(v)
        <3>1. (k + n) + w[k + n].msg.size + 1 <= Len(w)
            BY <1>1, <2>1, <2>5 DEF Complete
        <3>2. Len(v) = Len(w) - n /\ Len(w) \in Nat
            BY DEF Dropped
        <3> QED  BY <2>1, <2>2, <3>1, <3>2
    <2> QED  BY <2>4, <2>5
<1> QED  BY <1>1 DEF Framing, Complete

\* ... when the stream is cut off, ...
LEMMA FramingCut ==
    ASSUME NEW w \in Seq(Symbols), NEW v \in Seq(Symbols), CutOff(v, w), Framing(w)
    PROVE  Framing(v)
<1>1. ASSUME NEW k \in 1..Len(v), v[k].part = "length" PROVE Expect(v, k, v[k].msg, 1)
    <2>1. k \in 1..Len(w) /\ v[k] = w[k] /\ k \in Nat \ {0}
        BY DEF CutOff
    <2>2. v[k].msg \in Message
        <3>1. v[k] \in Symbols
            OBVIOUS
        <3> QED  BY <3>1 DEF Symbols
    <2>3. Expect(w, k, v[k].msg, 1)
        BY <1>1, <2>1 DEF Framing
    <2> QED  BY <2>1, <2>2, <2>3, ExpectCut
<1> QED  BY <1>1 DEF Framing

\* ... and when another is sent.
LEMMA FramingJoin ==
    ASSUME NEW w \in Seq(Symbols), NEW v \in Seq(Symbols), NEW a \in Message, Joined(v, w, a),
           Framing(w), Complete(w)
    PROVE  Framing(v) /\ Complete(v)
<1>0. a.size \in Nat /\ Len(w) \in Nat /\ Len(v) = Len(w) + a.size + 2
    BY MessageTypes DEF Joined
<1>1. ASSUME NEW k \in 1..Len(v), v[k].part = "length"
      PROVE  Expect(v, k, v[k].msg, 1) /\ k + v[k].msg.size + 1 <= Len(v)
    <2>1. CASE k <= Len(w)
        <3>1. k \in 1..Len(w) /\ v[k] = w[k] /\ k \in Nat \ {0}
            BY <1>0, <2>1 DEF Joined
        <3>2. v[k].msg \in Message /\ v[k].msg.size \in Nat
            <4>1. v[k] \in Symbols
                OBVIOUS
            <4> QED  BY <4>1, MessageTypes DEF Symbols
        <3>3. Expect(w, k, v[k].msg, 1) /\ k + v[k].msg.size + 1 <= Len(w)
            BY <1>1, <3>1 DEF Framing, Complete
        <3>4. k + v[k].msg.size + 2 <= Len(w) + 1
            BY <1>0, <3>1, <3>2, <3>3
        <3>5. Expect(v, k, v[k].msg, 1)
            <4>1. Expect(w, k, v[k].msg, 1) /\ 1 \in Nat
                BY <3>3
            <4> QED  BY <3>1, <3>2, <3>4, <4>1, ExpectJoin
        <3>6. k + v[k].msg.size + 1 <= Len(v)
            <4>1. k \in Nat /\ v[k].msg.size \in Nat /\ k + v[k].msg.size + 1 <= Len(w)
                BY <3>1, <3>2, <3>3
            <4> QED  BY <1>0, <4>1, AddLonger
        <3> QED  BY <3>5, <3>6
    <2>2. CASE k > Len(w)
        <3>1. k - Len(w) \in 1..(a.size + 2) /\ Len(w) + (k - Len(w)) = k
            BY <1>0, <2>2
        <3>2. v[k] = Byte(a, k - Len(w))
            BY <3>1 DEF Joined
        <3>3. k = Len(w) + 1
            <4>1. CASE k - Len(w) # 1
                <5>1. v[k].part # "length"
                    BY <3>2, <4>1 DEF Byte, Symbol
                <5> QED  BY <1>1, <5>1
            <4> QED  BY <1>0, <4>1
        <3>4. v[k].msg = a
            BY <3>2 DEF Byte, Symbol
        <3>5. Expect(v, k, a, 1)
            <4> SUFFICES ASSUME NEW q \in k..Len(v)
                         PROVE  /\ q - k + 1 <= a.size + 2 => v[q] = Byte(a, q - k + 1)
                                /\ q - k + 1 = a.size + 3 => v[q].part = "length"
                BY DEF Expect
            <4>1. q - k + 1 \in 1..(a.size + 2) /\ q = Len(w) + (q - k + 1)
                BY <1>0, <3>3
            <4>2. v[q] = Byte(a, q - k + 1)
                BY <4>1 DEF Joined
            <4> QED  BY <1>0, <4>1, <4>2
        <3> QED  BY <1>0, <3>3, <3>4, <3>5
    <2> QED  BY <1>0, <2>1, <2>2
<1> QED  BY <1>1 DEF Framing, Complete

-----------------------------------------------------------------------------
(* What the steps do to the stream. *)

LEMMA JoinIs ==
    ASSUME NEW w \in Seq(Symbols), NEW c \in Seq(Symbols)
    PROVE  /\ w \o c \in Seq(Symbols) /\ Len(w \o c) = Len(w) + Len(c)
           /\ \A k \in 1..Len(w \o c) :
                 /\ (w \o c)[k] = IF k <= Len(w) THEN w[k] ELSE c[k - Len(w)]
                 /\ (w \o c)[k] \in Symbols /\ (w \o c)[k].msg \in Message
<1>1. /\ w \o c \in Seq(Symbols) /\ Len(w \o c) = Len(w) + Len(c)
      /\ \A k \in 1..Len(w) + Len(c) : (w \o c)[k] = IF k <= Len(w) THEN w[k] ELSE c[k - Len(w)]
    BY ConcatProperties
<1>2. \A k \in 1..Len(w \o c) : (w \o c)[k] \in Symbols
    BY <1>1
<1> QED  BY <1>1, <1>2 DEF Symbols

LEMMA WholeIs ==
    ASSUME Typed
    PROVE  /\ Whole \in Seq(Symbols) /\ Len(Whole) = Len(wire) + Len(coming)
           /\ \A k \in 1..Len(Whole) :
                 /\ Whole[k] = IF k <= Len(wire) THEN wire[k] ELSE coming[k - Len(wire)]
                 /\ Whole[k] \in Symbols /\ Whole[k].msg \in Message
BY JoinIs DEF Typed, StreamTypes, Whole

LEMMA WholeIsNext ==
    ASSUME Typed'
    PROVE  /\ Whole' \in Seq(Symbols) /\ Len(Whole') = Len(wire') + Len(coming')
           /\ \A k \in 1..Len(Whole') :
                 /\ Whole'[k] = IF k <= Len(wire') THEN wire'[k] ELSE coming'[k - Len(wire')]
                 /\ Whole'[k] \in Symbols /\ Whole'[k].msg \in Message
BY JoinIs DEF Typed, StreamTypes, Whole

\* A read of n symbols
LEMMA WholeRead ==
    ASSUME Typed, Typed', NEW n \in 1..Len(wire), wire' = SubSeq(wire, n + 1, Len(wire)),
           coming' = coming
    PROVE  Dropped(Whole', Whole, n) /\ n <= Len(Whole) /\ Whole[1] = wire[1] /\ Len(Whole) > 0
<1>1. wire \in Seq(Symbols) /\ coming \in Seq(Symbols) /\ Len(wire) \in Nat /\ Len(coming) \in Nat
    BY DEF Typed, StreamTypes
<1>2. /\ Len(wire') = Len(wire) - n
      /\ \A k \in 1..(Len(wire) - n) : wire'[k] = wire[k + n]
    <2>1. \A k \in (n + 1)..Len(wire) : wire[k] \in Symbols
        BY <1>1
    <2>2. /\ Len(wire') = IF n + 1 <= Len(wire) THEN Len(wire) - (n + 1) + 1 ELSE 0
          /\ \A k \in 1..(Len(wire) - (n + 1) + 1) : wire'[k] = wire[(n + 1) + k - 1]
        BY <1>1, <2>1, SubSeqProperties
    <2>3. Len(wire') = Len(wire) - n
        BY <1>1, <2>2
    <2>4. ASSUME NEW k \in 1..(Len(wire) - n) PROVE wire'[k] = wire[k + n]
        <3>1. k \in 1..(Len(wire) - (n + 1) + 1) /\ (n + 1) + k - 1 = k + n
            BY <1>1
        <3> QED  BY <2>2, <3>1
    <2> QED  BY <2>3, <2>4
<1>3. Len(Whole) = Len(wire) + Len(coming) /\ Len(Whole') = Len(wire') + Len(coming)
    BY WholeIs, WholeIsNext
<1>4. ASSUME NEW k \in 1..Len(Whole') PROVE Whole'[k] = Whole[k + n]
    <2>1. k + n \in 1..Len(Whole)
        BY <1>1, <1>2, <1>3
    <2>2. /\ Whole'[k] = IF k <= Len(wire') THEN wire'[k] ELSE coming[k - Len(wire')]
          /\ Whole[k + n] = IF k + n <= Len(wire) THEN wire[k + n] ELSE coming[k + n - Len(wire)]
        BY <2>1, WholeIs, WholeIsNext
    <2>3. CASE k <= Len(wire')
        BY <1>1, <1>2, <2>2, <2>3
    <2>4. CASE ~(k <= Len(wire'))
        <3>0. k \in Int /\ n \in Int /\ Len(wire) \in Int /\ Len(wire') = Len(wire) - n
            BY <1>1, <1>2, <1>3
        <3>1. ~(k + n <= Len(wire)) /\ k - Len(wire') = k + n - Len(wire)
            BY ONLY <2>4, <3>0
        <3> QED  BY <2>2, <2>4, <3>1
    <2> QED  BY <2>3, <2>4
<1>5. Len(Whole') = Len(Whole) - n
    BY <1>1, <1>2, <1>3
<1>6. Whole[1] = wire[1]
    BY <1>1, <1>3, WholeIs
<1>7. n <= Len(Whole) /\ Len(Whole) > 0
    BY <1>1, <1>3
<1>8. Dropped(Whole', Whole, n)
    BY <1>4, <1>5 DEF Dropped
<1> QED  BY <1>6, <1>7, <1>8

LEMMA WholeTail ==
    ASSUME Typed, Typed', wire # <<>>, wire' = Tail(wire), coming' = coming
    PROVE  Dropped(Whole', Whole, 1) /\ Whole[1] = Head(wire) /\ Len(Whole) > 0
<1>1. wire \in Seq(Symbols)
    BY DEF Typed, StreamTypes
<1>2. 1 \in 1..Len(wire) /\ wire' = SubSeq(wire, 1 + 1, Len(wire)) /\ Head(wire) = wire[1]
    BY <1>1
<1> QED  BY <1>2, WholeRead

LEMMA WholeSent ==
    ASSUME Typed, Typed', NEW m \in Message, wire' = wire, coming' = coming \o Bytes(m)
    PROVE  Joined(Whole', Whole, m)
<1>1. /\ wire \in Seq(Symbols) /\ coming \in Seq(Symbols) /\ Len(wire) \in Nat /\ Len(coming) \in Nat
      /\ m.size \in Nat
    BY MessageTypes DEF Typed, StreamTypes
<1>2. /\ Bytes(m) \in Seq(Symbols) /\ Len(Bytes(m)) = m.size + 2
      /\ \A j \in 1..(m.size + 2) : Bytes(m)[j] = Byte(m, j)
    BY BytesAre
<1>3. /\ Len(coming') = Len(coming) + m.size + 2
      /\ \A k \in 1..Len(coming) + (m.size + 2) :
            coming'[k] = IF k <= Len(coming) THEN coming[k] ELSE Bytes(m)[k - Len(coming)]
    <2>1. /\ Len(coming \o Bytes(m)) = Len(coming) + Len(Bytes(m))
          /\ \A k \in 1..Len(coming) + Len(Bytes(m)) :
               (coming \o Bytes(m))[k] = IF k <= Len(coming) THEN coming[k] ELSE Bytes(m)[k - Len(coming)]
        BY <1>1, <1>2, ConcatProperties
    <2> QED  BY <1>1, <1>2, <2>1
<1>4. Len(Whole) = Len(wire) + Len(coming) /\ Len(Whole') = Len(wire) + Len(coming')
    BY WholeIs, WholeIsNext
<1>5. Len(Whole') = Len(Whole) + m.size + 2
    BY <1>1, <1>3, <1>4
<1>6. ASSUME NEW k \in 1..Len(Whole) PROVE Whole'[k] = Whole[k]
    <2>0. k \in 1..Len(Whole')
        BY <1>1, <1>4, <1>5
    <2>1. /\ Whole'[k] = IF k <= Len(wire) THEN wire[k] ELSE coming'[k - Len(wire)]
          /\ Whole[k] = IF k <= Len(wire) THEN wire[k] ELSE coming[k - Len(wire)]
        BY <2>0, WholeIs, WholeIsNext
    <2>2. CASE ~(k <= Len(wire))
        <3>1. k - Len(wire) \in 1..Len(coming) + (m.size + 2) /\ k - Len(wire) <= Len(coming)
            BY <1>1, <1>4, <2>2
        <3> QED  BY <1>3, <2>1, <2>2, <3>1
    <2> QED  BY <2>1, <2>2
<1>7. ASSUME NEW j \in 1..(m.size + 2) PROVE Whole'[Len(Whole) + j] = Byte(m, j)
    <2>1. Len(Whole) + j \in 1..Len(Whole') /\ ~(Len(Whole) + j <= Len(wire))
          /\ Len(Whole) + j - Len(wire) = Len(coming) + j
        BY <1>1, <1>4, <1>5
    <2>0. Whole'[Len(Whole) + j] = IF Len(Whole) + j <= Len(wire') THEN wire'[Len(Whole) + j]
                                   ELSE coming'[Len(Whole) + j - Len(wire')]
        <3>1. \A k \in 1..Len(Whole') :
                Whole'[k] = IF k <= Len(wire') THEN wire'[k] ELSE coming'[k - Len(wire')]
            BY WholeIsNext
        <3> QED  BY ONLY <2>1, <3>1
    <2>2. Whole'[Len(Whole) + j] = coming'[Len(coming) + j]
        BY <2>0, <2>1
    <2>3. Len(coming) + j \in 1..Len(coming) + (m.size + 2) /\ ~(Len(coming) + j <= Len(coming))
          /\ Len(coming) + j - Len(coming) = j
        BY <1>1
    <2>5. coming'[Len(coming) + j] = IF Len(coming) + j <= Len(coming) THEN coming[Len(coming) + j]
                                     ELSE Bytes(m)[Len(coming) + j - Len(coming)]
        BY ONLY <1>3, <2>3
    <2>4. coming'[Len(coming) + j] = Bytes(m)[j]
        BY <2>3, <2>5
    <2> QED  BY <1>2, <2>2, <2>4
<1> QED  BY <1>5, <1>6, <1>7 DEF Joined

LEMMA WholeCut ==
    ASSUME Typed, Typed', NEW k \in 0..(Len(coming) - 1), wire' = wire, coming' = SubSeq(coming, 1, k)
    PROVE  CutOff(Whole', Whole)
<1>1. wire \in Seq(Symbols) /\ coming \in Seq(Symbols) /\ Len(wire) \in Nat /\ Len(coming) \in Nat
    BY DEF Typed, StreamTypes
<1>2. /\ Len(coming') = k
      /\ \A j \in 1..k : coming'[j] = coming[j]
    <2>1. \A j \in 1..k : coming[j] \in Symbols
        BY <1>1
    <2>2. /\ Len(coming') = IF 1 <= k THEN k - 1 + 1 ELSE 0
          /\ \A j \in 1..(k - 1 + 1) : coming'[j] = coming[1 + j - 1]
        BY <1>1, <2>1, SubSeqProperties
    <2>3. Len(coming') = k
        BY <1>1, <2>2
    <2>4. \A j \in 1..k : j \in 1..(k - 1 + 1) /\ 1 + j - 1 = j
        BY <1>1
    <2> QED  BY <2>2, <2>3, <2>4
<1>3. Len(Whole) = Len(wire) + Len(coming) /\ Len(Whole') = Len(wire) + k
    BY <1>2, WholeIs, WholeIsNext
<1>4. ASSUME NEW j \in 1..Len(Whole') PROVE Whole'[j] = Whole[j]
    <2>1. /\ j \in 1..Len(Whole)
          /\ Whole'[j] = IF j <= Len(wire) THEN wire[j] ELSE coming'[j - Len(wire)]
          /\ Whole[j] = IF j <= Len(wire) THEN wire[j] ELSE coming[j - Len(wire)]
        BY <1>1, <1>3, WholeIs, WholeIsNext
    <2>2. CASE ~(j <= Len(wire))
        <3>1. j - Len(wire) \in 1..k
            BY <1>1, <1>3, <2>2
        <3> QED  BY <1>2, <2>1, <2>2, <3>1
    <2> QED  BY <2>1, <2>2
<1> QED  BY <1>1, <1>3, <1>4 DEF CutOff

\* The network moves symbols, and the stream stays as it is.
LEMMA WholeArrives ==
    ASSUME Typed, Typed', NEW k \in 1..Len(coming), wire' = wire \o SubSeq(coming, 1, k),
           coming' = SubSeq(coming, k + 1, Len(coming))
    PROVE  Whole' = Whole
<1> DEFINE a == SubSeq(coming, 1, k)
           b == SubSeq(coming, k + 1, Len(coming))
<1>1. wire \in Seq(Symbols) /\ coming \in Seq(Symbols) /\ Len(wire) \in Nat /\ Len(coming) \in Nat
    BY DEF Typed, StreamTypes
<1>2. a \in Seq(Symbols) /\ Len(a) = k /\ \A j \in 1..k : a[j] = coming[j]
    <2>1. \A j \in 1..k : coming[j] \in Symbols
        BY <1>1
    <2>2. /\ a \in Seq(Symbols) /\ Len(a) = IF 1 <= k THEN k - 1 + 1 ELSE 0
          /\ \A j \in 1..(k - 1 + 1) : a[j] = coming[1 + j - 1]
        BY <1>1, <2>1, SubSeqProperties
    <2>3. Len(a) = k
        BY <1>1, <2>2
    <2>4. \A j \in 1..k : j \in 1..(k - 1 + 1) /\ 1 + j - 1 = j
        BY <1>1
    <2> HIDE DEF a
    <2> QED  BY <2>2, <2>3, <2>4
<1>3. /\ Len(b) = Len(coming) - k
      /\ \A j \in 1..(Len(coming) - k) : b[j] = coming[k + j]
    <2>1. \A j \in (k + 1)..Len(coming) : coming[j] \in Symbols
        BY <1>1
    <2>2. /\ Len(b) = IF k + 1 <= Len(coming) THEN Len(coming) - (k + 1) + 1 ELSE 0
          /\ \A j \in 1..(Len(coming) - (k + 1) + 1) : b[j] = coming[(k + 1) + j - 1]
        BY <1>1, <2>1, SubSeqProperties
    <2>3. Len(b) = Len(coming) - k
        BY <1>1, <2>2
    <2>4. \A j \in 1..(Len(coming) - k) :
            j \in 1..(Len(coming) - (k + 1) + 1) /\ (k + 1) + j - 1 = k + j
        BY <1>1
    <2> HIDE DEF b
    <2> QED  BY <2>2, <2>3, <2>4
<1>4. wire' = wire \o a /\ coming' = b
    OBVIOUS
<1> HIDE DEF a, b
<1>5. /\ Len(wire') = Len(wire) + k
      /\ \A j \in 1..Len(wire) + k : wire'[j] = IF j <= Len(wire) THEN wire[j] ELSE a[j - Len(wire)]
    BY <1>1, <1>2, <1>4, ConcatProperties
<1>6. Len(Whole) = Len(wire) + Len(coming) /\ Len(Whole') = Len(wire') + Len(coming')
    BY WholeIs, WholeIsNext
<1>7. Len(Whole') = Len(Whole)
    BY <1>1, <1>3, <1>4, <1>5, <1>6
<1>8. ASSUME NEW j \in 1..Len(Whole) PROVE Whole'[j] = Whole[j]
    <2>0. j \in 1..Len(Whole')
        BY <1>7
    <2>1. /\ Whole'[j] = IF j <= Len(wire') THEN wire'[j] ELSE coming'[j - Len(wire')]
          /\ Whole[j] = IF j <= Len(wire) THEN wire[j] ELSE coming[j - Len(wire)]
        BY <2>0, WholeIs, WholeIsNext
    <2>2. CASE j <= Len(wire)
        <3>1. j <= Len(wire') /\ j \in 1..Len(wire) + k
            BY <1>1, <1>5, <2>2
        <3> QED  BY <1>5, <2>1, <2>2, <3>1
    <2>3. CASE ~(j <= Len(wire)) /\ j <= Len(wire')
        <3>1. j \in 1..Len(wire) + k /\ j - Len(wire) \in 1..k
            BY <1>1, <1>5, <2>3
        <3> QED  BY <1>2, <1>5, <2>1, <2>3, <3>1
    <2>4. CASE ~(j <= Len(wire'))
        <3>1. /\ j - Len(wire') \in 1..(Len(coming) - k) /\ ~(j <= Len(wire))
              /\ k + (j - Len(wire')) = j - Len(wire)
            BY <1>1, <1>5, <1>6, <1>7, <2>4
        <3> QED  BY <1>3, <1>4, <2>1, <2>4, <3>1
    <2> QED  BY <2>2, <2>3, <2>4
<1>9. Whole \in Seq(Symbols) /\ Whole' \in Seq(Symbols)
    BY WholeIs, WholeIsNext
<1> QED  BY <1>7, <1>8, <1>9, SeqEqual

-----------------------------------------------------------------------------
(* The reception and the stream agree on where messages begin. *)

\* What the next read finds
LengthNext == Len(Whole) > 0 => Whole[1].part = "length"
HeaderNext ==
    /\ Len(Whole) > 0 => Expect(Whole, 1, Whole[1].msg, 2)
    /\ peer # "closed" => Len(Whole) > 0 /\ Whole[1].msg.size + 1 <= Len(Whole)
BodyNext ==
    /\ left \in 1..msg.size /\ Expect(Whole, 1, msg, msg.size + 3 - left)
    /\ peer # "closed" => left <= Len(Whole)

Resting == {"open", "t5", "exec", "select", "closed"}

Stream ==
    /\ Framing(Whole)
    /\ peer # "closed" => Complete(Whole)
    /\ loc \in Resting => part = "length"
    /\ part = "header" => HeaderNext

\* As long as no reception stopped inside a message or went past its end
Aligned ==
    ~lost => /\ loc # "garbled"
             /\ part = "length" => LengthNext
             /\ part = "body" => BodyNext

FrameInv == Stream /\ Aligned

\* The stream and the reception stay as they are.
LEMMA FrameSame ==
    ASSUME FrameInv, Whole' = Whole, peer' = peer \/ peer' = "closed",
           UNCHANGED <<part, left, msg, lost>>,
           loc' # "garbled" \/ loc' = loc, loc' \in Resting => part = "length"
    PROVE  FrameInv'
<1>1. Stream'
    BY DEF FrameInv, Stream, HeaderNext
<1>2. Aligned'
    BY DEF FrameInv, Aligned, LengthNext, BodyNext
<1> QED  BY <1>1, <1>2 DEF FrameInv

\* A reception begins, or ends without a read.
LEMMA FrameEnds ==
    ASSUME FrameInv, Whole' = Whole, peer' = peer, part' = "length", loc' # "garbled",
           ~lost' => ~lost /\ part = "length"
    PROVE  FrameInv'
<1>1. Stream'
    BY DEF FrameInv, Stream
<1>2. Aligned'
    BY DEF FrameInv, Aligned, LengthNext
<1> QED  BY <1>1, <1>2 DEF FrameInv

\* The equipment sends a message.
LEMMA FrameJoin ==
    ASSUME Typed, Typed', FrameInv, peer # "closed", NEW m \in Message, Joined(Whole', Whole, m),
           UNCHANGED <<part, left, msg, lost, loc>>
    PROVE  FrameInv'
<1>0. Whole \in Seq(Symbols) /\ Whole' \in Seq(Symbols) /\ Len(Whole) \in Nat /\ m.size \in Nat
    BY WholeIs, WholeIsNext, MessageTypes
<1>1. Framing(Whole) /\ Complete(Whole)
    BY DEF FrameInv, Stream
<1>2. Framing(Whole') /\ Complete(Whole')
    BY <1>0, <1>1, FramingJoin
<1>3. Len(Whole') >= Len(Whole) /\ (Len(Whole) > 0 => Whole'[1] = Whole[1])
    BY <1>0 DEF Joined
<1>4. ASSUME part' = "header" PROVE HeaderNext'
    <2>1. Len(Whole) > 0 /\ Expect(Whole, 1, Whole[1].msg, 2) /\ Whole[1].msg.size + 1 <= Len(Whole)
        BY <1>4 DEF FrameInv, Stream, HeaderNext
    <2>2. Whole[1].msg \in Message /\ Whole[1].msg.size \in Nat
        BY <1>0, <2>1, WholeIs, MessageTypes
    <2>3. 1 + Whole[1].msg.size + 2 <= Len(Whole) + 2
        BY <1>0, <2>1, <2>2
    <2>4. Expect(Whole', 1, Whole[1].msg, 2)
        BY <1>0, <2>1, <2>2, <2>3, ExpectJoin
    <2>5. Len(Whole') > 0 /\ Whole[1].msg.size + 1 <= Len(Whole')
        BY <1>0, <1>3, <2>1, <2>2
    <2> QED  BY <1>3, <2>1, <2>4, <2>5 DEF HeaderNext
<1>5. ASSUME ~lost', part' = "body" PROVE BodyNext'
    <2>1. /\ left \in 1..msg.size /\ Expect(Whole, 1, msg, msg.size + 3 - left)
          /\ left <= Len(Whole)
        BY <1>5 DEF FrameInv, Aligned, BodyNext
    <2>2. msg \in Message /\ msg.size \in Nat
        BY MessageTypes DEF Typed, PlaceTypes
    <2>3. 1 + msg.size + 2 <= Len(Whole) + (msg.size + 3 - left) /\ msg.size + 3 - left \in Nat
        BY <1>0, <2>1, <2>2
    <2>4. Expect(Whole', 1, msg, msg.size + 3 - left)
        BY <1>0, <2>1, <2>2, <2>3, ExpectJoin
    <2>5. left <= Len(Whole')
        BY <1>0, <1>3, <2>1, <2>2
    <2> QED  BY <2>1, <2>4, <2>5 DEF BodyNext
<1>6. ASSUME ~lost', part' = "length" PROVE LengthNext'
    <2>1. CASE Len(Whole) > 0
        BY <1>3, <1>6, <2>1 DEF FrameInv, Aligned, LengthNext
    <2>2. CASE Len(Whole) = 0
        <3>1. 1 \in 1..(m.size + 2) /\ Len(Whole) + 1 = 1
            BY <1>0, <2>2
        <3>2. Whole'[1] = Byte(m, 1)
            BY <3>1 DEF Joined
        <3>3. Byte(m, 1).part = "length"
            BY DEF Byte, Symbol
        <3> QED  BY <3>2, <3>3 DEF LengthNext
    <2> QED  BY <1>0, <2>1, <2>2
<1>7. Stream'
    BY <1>2, <1>4 DEF FrameInv, Stream
<1>8. Aligned'
    BY <1>5, <1>6 DEF FrameInv, Aligned
<1> QED  BY <1>7, <1>8 DEF FrameInv

\* The connection breaks and the stream is cut off.
LEMMA FrameCut ==
    ASSUME Typed, Typed', FrameInv, peer' = "closed", CutOff(Whole', Whole),
           UNCHANGED <<part, left, msg, lost, loc>>
    PROVE  FrameInv'
<1>0. /\ Whole \in Seq(Symbols) /\ Whole' \in Seq(Symbols) /\ Len(Whole) \in Nat /\ Len(Whole') \in Nat
      /\ Len(Whole') <= Len(Whole)
    BY WholeIs, WholeIsNext DEF CutOff
<1>1. Framing(Whole')
    BY <1>0, FramingCut DEF FrameInv, Stream
<1>2. Len(Whole') > 0 => Len(Whole) > 0 /\ Whole'[1] = Whole[1]
    BY <1>0 DEF CutOff
<1>3. ASSUME part' = "header", Len(Whole') > 0 PROVE Expect(Whole', 1, Whole'[1].msg, 2)
    <2>1. Expect(Whole, 1, Whole[1].msg, 2)
        BY <1>2, <1>3 DEF FrameInv, Stream, HeaderNext
    <2>2. Whole[1].msg \in Message
        BY <1>0, <1>2, <1>3, WholeIs
    <2> QED  BY <1>0, <1>2, <1>3, <2>1, <2>2, ExpectCut
<1>4. ASSUME ~lost', part' = "body" PROVE BodyNext'
    <2>1. left \in 1..msg.size /\ Expect(Whole, 1, msg, msg.size + 3 - left)
        BY <1>4 DEF FrameInv, Aligned, BodyNext
    <2>2. msg \in Message /\ msg.size \in Nat
        BY MessageTypes DEF Typed, PlaceTypes
    <2>3. msg.size + 3 - left \in Nat
        BY <2>1, <2>2
    <2>4. Expect(Whole', 1, msg, msg.size + 3 - left)
        BY <1>0, <2>1, <2>2, <2>3, ExpectCut
    <2> QED  BY <2>1, <2>4 DEF BodyNext
<1>5. Stream'
    BY <1>1, <1>3 DEF FrameInv, Stream, HeaderNext
<1>6. Aligned'
    BY <1>2, <1>4 DEF FrameInv, Aligned, LengthNext
<1> QED  BY <1>5, <1>6 DEF FrameInv

\* Where a reception that has its message goes
LEMMA CompletesPlace ==
    ASSUME NEW m, Completes(m)
    PROVE  loc' \in {"exec", "select", "dead"} /\ part' = "length" /\ coming' = coming
BY DEF Completes, Ends, Dispatch, Goto

LEMMA FrameLength ==
    ASSUME Typed, Typed', FrameInv, ReadLength
    PROVE  FrameInv'
<1>0. /\ Whole \in Seq(Symbols) /\ Whole' \in Seq(Symbols) /\ Len(Whole) \in Nat
      /\ part = "length" /\ peer' = peer /\ lost' = lost
    BY WholeIs, WholeIsNext DEF ReadLength, history
<1>1. Dropped(Whole', Whole, 1) /\ Whole[1] = Head(wire) /\ Len(Whole) > 0
    BY WholeTail DEF ReadLength
<1>2. Framing(Whole') /\ (peer' # "closed" => Complete(Whole'))
    BY <1>0, <1>1, FramingDrop DEF FrameInv, Stream
<1>3. CASE Head(wire).part = "length" /\ part' = "header" /\ loc' = loc
    <2> DEFINE m == Whole[1].msg
    <2>1. m \in Message /\ m.size \in Nat /\ 1 \in 1..Len(Whole)
        BY <1>0, <1>1, WholeIs, MessageTypes
    <2>2. Expect(Whole, 1, m, 1)
        BY <1>1, <1>3, <2>1 DEF FrameInv, Stream, Framing
    <2>3. peer # "closed" => 1 + m.size + 1 <= Len(Whole)
        BY <1>1, <1>3, <2>1 DEF FrameInv, Stream, Complete
    <2> HIDE DEF m
    <2>4. Expect(Whole, 1 + 1, m, 1 + 1)
        BY <1>0, <2>1, <2>2, ExpectShift
    <2>5. Expect(Whole', 1, m, 2)
        BY <1>0, <1>1, <2>1, <2>4, ExpectDrop
    <2>6. Len(Whole') = Len(Whole) - 1
        BY <1>1 DEF Dropped
    <2>7. ASSUME Len(Whole') > 0 PROVE Whole'[1].msg = m
        <3>1. 1 \in 1..Len(Whole') /\ 1 - 1 + 2 = 2 /\ 2 <= m.size + 2
            BY <1>0, <2>1, <2>6, <2>7
        <3>2. Whole'[1] = Byte(m, 2)
            BY <2>5, <3>1 DEF Expect
        <3> QED  BY <3>2 DEF Byte, Symbol
    <2>8. peer' # "closed" => Len(Whole') > 0 /\ m.size + 1 <= Len(Whole')
        BY <1>0, <2>1, <2>3, <2>6
    <2>9. HeaderNext'
        BY <2>5, <2>7, <2>8 DEF HeaderNext
    <2>10. loc' \notin Resting
        BY <1>3 DEF ReadLength, Reading, Resting
    <2>11. loc' # "garbled"
        BY <1>3 DEF ReadLength, Reading
    <2> QED  BY <1>2, <1>3, <2>9, <2>10, <2>11 DEF FrameInv, Stream, Aligned
<1>4. CASE Head(wire).part # "length" /\ Goto("garbled") /\ Ends
    <2>1. lost
        BY <1>0, <1>1, <1>4 DEF FrameInv, Aligned, LengthNext
    <2> QED  BY <1>0, <1>2, <1>4, <2>1 DEF FrameInv, Stream, Aligned, Ends, Goto, Resting
<1> QED  BY <1>3, <1>4 DEF ReadLength

LEMMA FrameHeader ==
    ASSUME Typed, Typed', FrameInv, ReadHeader
    PROVE  FrameInv'
<1> DEFINE m == Whole[1].msg
<1>0. /\ Whole \in Seq(Symbols) /\ Whole' \in Seq(Symbols) /\ Len(Whole) \in Nat
      /\ part = "header" /\ peer' = peer /\ lost' = lost
    BY WholeIs, WholeIsNext DEF ReadHeader
<1>c. coming' = coming
    BY CompletesPlace DEF ReadHeader
<1>1. Dropped(Whole', Whole, 1) /\ Whole[1] = Head(wire) /\ Len(Whole) > 0
    BY <1>c, WholeTail DEF ReadHeader
<1>2. Framing(Whole') /\ (peer' # "closed" => Complete(Whole'))
    BY <1>0, <1>1, FramingDrop DEF FrameInv, Stream
<1>3. m \in Message /\ m.size \in Nat
    BY <1>0, <1>1, WholeIs, MessageTypes
<1>4. /\ Expect(Whole, 1, m, 2)
      /\ peer # "closed" => m.size + 1 <= Len(Whole)
    BY <1>0, <1>1 DEF FrameInv, Stream, HeaderNext
<1>5. \/ m.size = 0 /\ Completes(m)
      \/ m.size > 0 /\ part' = "body" /\ left' = m.size /\ msg' = m /\ loc' = loc
    BY <1>1 DEF ReadHeader, Rest
<1> HIDE DEF m
<1>6. Expect(Whole', 1, m, 3)
    <2>1. Expect(Whole, 1 + 1, m, 2 + 1)
        BY <1>0, <1>3, <1>4, ExpectShift
    <2> QED  BY <1>0, <1>1, <1>3, <2>1, ExpectDrop
<1>7. Len(Whole') = Len(Whole) - 1
    BY <1>1 DEF Dropped
<1>8. CASE m.size = 0 /\ Completes(m)
    <2>1. loc' \in {"exec", "select", "dead"} /\ part' = "length"
        BY <1>8, CompletesPlace
    <2>2. LengthNext'
        <3> SUFFICES ASSUME Len(Whole') > 0 PROVE Whole'[1].part = "length"
            BY DEF LengthNext
        <3>1. 1 \in 1..Len(Whole') /\ 1 - 1 + 3 = m.size + 3
            BY <1>0, <1>7, <1>8
        <3> QED  BY <1>6, <3>1 DEF Expect
    <2> QED  BY <1>2, <2>1, <2>2 DEF FrameInv, Stream, Aligned
<1>9. CASE m.size > 0 /\ part' = "body" /\ left' = m.size /\ msg' = m /\ loc' = loc
    <2>1. loc' \notin Resting /\ loc' # "garbled"
        BY <1>9 DEF ReadHeader, Reading, Resting
    <2>2. left' \in 1..msg'.size /\ msg'.size + 3 - left' = 3
        BY <1>3, <1>9
    <2>3. peer' # "closed" => left' <= Len(Whole')
        BY <1>0, <1>3, <1>4, <1>7, <1>9
    <2>4. BodyNext'
        BY <1>6, <1>9, <2>2, <2>3 DEF BodyNext
    <2> QED  BY <1>2, <1>9, <2>1, <2>4 DEF FrameInv, Stream, Aligned
<1> QED  BY <1>5, <1>8, <1>9

LEMMA FrameBody ==
    ASSUME Typed, Typed', FrameInv, ReadBody
    PROVE  FrameInv'
<1> DEFINE n == Min({MaxRead, Len(wire)})
<1>0. /\ Whole \in Seq(Symbols) /\ Whole' \in Seq(Symbols) /\ Len(Whole) \in Nat
      /\ part = "body" /\ peer' = peer /\ msg \in Message /\ msg.size \in Nat
    BY WholeIs, WholeIsNext, MessageTypes DEF ReadBody, Typed, PlaceTypes
<1>1. n \in 1..Len(wire)
    BY ReadSize DEF ReadBody, Typed, StreamTypes
<1>2. /\ wire' = SubSeq(wire, n + 1, Len(wire)) /\ lost' = (lost \/ n > left)
      /\ \/ Count(n) = 0 /\ Completes(msg)
         \/ Count(n) # 0 /\ left' = Count(n) /\ UNCHANGED <<loc, part, msg, coming>>
    BY DEF ReadBody
<1> HIDE DEF n
<1>3. coming' = coming /\ wire' = SubSeq(wire, n + 1, Len(wire)) /\ n \in Nat
    BY <1>1, <1>2, CompletesPlace
<1>4. Dropped(Whole', Whole, n) /\ n <= Len(Whole) /\ n \in Nat
    BY ONLY <1>1, <1>3, WholeRead, Typed, Typed'
<1>5. Framing(Whole') /\ (peer' # "closed" => Complete(Whole'))
    BY <1>0, <1>4, FramingDrop DEF FrameInv, Stream
<1>6. Len(Whole') = Len(Whole) - n
    BY <1>4 DEF Dropped
<1>7. ASSUME ~lost'
      PROVE  /\ left \in 1..msg.size /\ n <= left /\ Count(n) = left - n
             /\ Expect(Whole', 1, msg, msg.size + 3 - (left - n))
             /\ peer # "closed" => left <= Len(Whole)
    <2>1. ~lost /\ BodyNext
        BY <1>0, <1>2, <1>7 DEF FrameInv, Aligned
    <2>2. /\ left \in 1..msg.size /\ Expect(Whole, 1, msg, msg.size + 3 - left)
          /\ peer # "closed" => left <= Len(Whole)
        BY <2>1 DEF BodyNext
    <2>0. left \in 1..msg.size /\ msg.size \in Nat /\ n \in Nat /\ ~(n > left)
        BY <1>0, <1>2, <1>4, <1>7, <2>2
    <2>3. n <= left
        BY ONLY <2>0
    <2>4. msg.size + 3 - left \in Nat /\ (msg.size + 3 - left) + n = msg.size + 3 - (left - n)
          /\ msg.size + 3 - (left - n) \in Nat
        BY ONLY <2>0
    <2>5. Expect(Whole, 1 + n, msg, (msg.size + 3 - left) + n)
        BY <1>0, <1>4, <2>2, <2>4, ExpectShift
    <2>6. Expect(Whole, 1 + n, msg, msg.size + 3 - (left - n))
        BY <2>4, <2>5
    <2>7. Expect(Whole', 1, msg, msg.size + 3 - (left - n))
        BY <1>0, <1>4, <2>4, <2>6, ExpectDrop
    <2>8. Count(n) = left - n
        BY <1>0, <1>4, <2>2, <2>3 DEF Count
    <2> QED  BY <2>2, <2>3, <2>7, <2>8
<1>8. CASE Count(n) = 0 /\ Completes(msg)
    <2>1. loc' \in {"exec", "select", "dead"} /\ part' = "length"
        BY <1>8, CompletesPlace
    <2>2. ASSUME ~lost' PROVE LengthNext'
        <3> SUFFICES ASSUME Len(Whole') > 0 PROVE Whole'[1].part = "length"
            BY DEF LengthNext
        <3>1. left - n = 0 /\ Expect(Whole', 1, msg, msg.size + 3 - (left - n))
            BY <1>7, <1>8, <2>2
        <3>2. 1 \in 1..Len(Whole') /\ 1 - 1 + (msg.size + 3 - (left - n)) = msg.size + 3
            BY <1>0, <1>4, <1>6, <3>1
        <3> QED  BY <3>1, <3>2 DEF Expect
    <2> QED  BY <1>5, <2>1, <2>2 DEF FrameInv, Stream, Aligned
<1>9. CASE Count(n) # 0 /\ left' = Count(n) /\ UNCHANGED <<loc, part, msg, coming>>
    <2>1. loc' \notin Resting /\ loc' # "garbled"
        BY <1>9 DEF ReadBody, Reading, Resting
    <2>2. ASSUME ~lost' PROVE BodyNext'
        <3>1. /\ left \in 1..msg.size /\ n <= left /\ left' = left - n /\ left - n # 0
              /\ Expect(Whole', 1, msg, msg.size + 3 - (left - n))
              /\ peer # "closed" => left <= Len(Whole)
            BY <1>7, <1>9, <2>2
        <3>2. left' \in 1..msg.size /\ (peer' # "closed" => left' <= Len(Whole'))
            BY <1>0, <1>4, <1>6, <3>1
        <3> QED  BY <1>9, <3>1, <3>2 DEF BodyNext
    <2>3. part' = "body"
        BY <1>0, <1>9
    <2> QED  BY <1>5, <2>1, <2>2, <2>3 DEF FrameInv, Stream, Aligned
<1> QED  BY <1>2, <1>8, <1>9

LEMMA FrameSignal ==
    ASSUME FrameInv, SigAlrm
    PROVE  FrameInv'
<1>1. CASE UNCHANGED <<stream, coming, history>> /\ (loc' = loc \/ loc' = "wild")
    <2>1. Whole' = Whole /\ UNCHANGED <<part, left, msg, lost, peer>>
        BY <1>1 DEF SigAlrm, stream, history, Whole
    <2>2. loc' \in Resting => part = "length"
        BY <1>1 DEF FrameInv, Stream, Resting
    <2> QED  BY <1>1, <2>1, <2>2, FrameSame
<1>2. CASE Broken /\ (\E c : ReceptionFails(c)) /\ UNCHANGED <<wire, coming>>
    <2>1. Whole' = Whole /\ peer' = peer /\ (~lost' => ~lost /\ part = "length")
        BY <1>2 DEF Whole, Broken, SigAlrm
    <2>2. part' = "length" /\ loc' # "garbled"
        BY <1>2, FailsTypes
    <2> QED  BY <2>1, <2>2, FrameEnds
<1>3. CASE Completes(msg) /\ lost' = TRUE /\ UNCHANGED wire
    <2>1. Whole' = Whole /\ part' = "length" /\ loc' # "garbled"
        BY <1>3, CompletesPlace DEF Whole
    <2> QED  BY <1>3, <2>1, FrameEnds DEF SigAlrm
<1>4. CASE /\ UNCHANGED <<loc, part, msg, coming, delivered, excused, wire>> /\ lost' = TRUE
           /\ part = "body" /\ Reading
    <2>1. Whole' = Whole /\ peer' = peer /\ loc' \notin Resting
        BY <1>4 DEF Whole, SigAlrm, Reading, Resting
    <2> QED  BY <1>4, <2>1 DEF FrameInv, Stream, Aligned
<1>5. CASE T6Runs
    <2>1. Whole' = Whole /\ peer' = peer /\ part' = "length" /\ (~lost' => ~lost /\ part = "length")
        BY <1>5 DEF Whole, T6Runs, Broken, Ends, SigAlrm
    <2>2. loc' # "garbled"
        BY <1>5 DEF T6Runs, Goto
    <2> QED  BY <2>1, <2>2, FrameEnds
<1>6. CASE T8Branch
    <2> DEFINE c == IF part = "length" THEN Handled ELSE stop_proto_timer(Handled, 8)
    <2>1. Broken /\ ReceptionFails(c) /\ UNCHANGED <<wire, coming>>
        BY <1>6 DEF T8Branch
    <2> HIDE DEF c
    <2> QED  BY <1>2, <2>1
<1>7. CASE T8Caller /\ Reading
    <2> DEFINE c == IF part = "length" THEN stop_proto_timer(Handled, 8) ELSE Handled
    <2>1. \/ Broken /\ ReceptionFails(c) /\ UNCHANGED <<wire, coming>>
          \/ Completes(msg) /\ lost' = TRUE /\ UNCHANGED wire
          \/ /\ UNCHANGED <<loc, part, msg, coming, delivered, excused, wire>> /\ lost' = TRUE
             /\ part = "body"
        BY <1>7 DEF T8Caller
    <2> HIDE DEF c
    <2> QED  BY <1>2, <1>3, <1>4, <1>7, <2>1
<1> QED  BY <1>1, <1>5, <1>6, <1>7 DEF SigAlrm, Goto

\* What the equipment does to the stream
LEMMA PeerWhole ==
    ASSUME Typed, Typed', Peer
    PROVE  /\ peer # "closed" \/ peer' = peer
           /\ \/ /\ PeerAnswers /\ peer' = "selected"
                 /\ Joined(Whole', Whole, Control("select.rsp"))
              \/ /\ PeerSends /\ peer = "selected" /\ peer' = peer /\ tests' = tests
                 /\ \E size \in Bodies : LET m == DataMsg(Len(sent) + 1, size) IN
                       m \in Message /\ Joined(Whole', Whole, m) /\ sent' = Append(sent, m)
              \/ /\ PeerSends /\ peer' = peer /\ sent' = sent
                 /\ Joined(Whole', Whole, Control("linktest.req"))
              \/ PeerCloses /\ peer' = "closed" /\ Joined(Whole', Whole, Control("separate.req"))
              \/ PeerCloses /\ peer' = "closed" /\ CutOff(Whole', Whole)
<1>0. /\ Control("select.rsp") \in Message /\ Control("linktest.req") \in Message
      /\ Control("separate.req") \in Message
    BY MessageTypes DEF Stypes
<1>1. CASE PeerAnswers
    BY <1>0, <1>1, WholeSent DEF PeerAnswers, stream
<1>2. CASE PeerSends
    <2>0. wire' = wire /\ peer' = peer /\ peer # "closed"
        BY <1>2 DEF PeerSends, stream
    <2>1. ASSUME NEW size \in Bodies, peer = "selected", tests' = tests,
                 coming' = coming \o Bytes(DataMsg(Len(sent) + 1, size)),
                 sent' = Append(sent, DataMsg(Len(sent) + 1, size))
          PROVE  LET m == DataMsg(Len(sent) + 1, size) IN
                 m \in Message /\ Joined(Whole', Whole, m) /\ sent' = Append(sent, m)
        <3>1. Len(sent) + 1 \in 0..MaxSent
            BY <1>2, HsmsAssumption DEF PeerSends, Typed, PeerTypes, HistoryTypes
        <3>2. DataMsg(Len(sent) + 1, size) \in Message
            BY <3>1, MessageTypes
        <3> QED  BY <2>0, <2>1, <3>2, WholeSent
    <2>2. ASSUME coming' = coming \o Bytes(Control("linktest.req"))
          PROVE  Joined(Whole', Whole, Control("linktest.req"))
        BY <1>0, <2>0, <2>2, WholeSent
    <2> QED  BY <1>2, <2>0, <2>1, <2>2 DEF PeerSends
<1>3. CASE PeerCloses
    <2>0. wire' = wire /\ peer' = "closed" /\ peer # "closed"
        BY <1>3 DEF PeerCloses, stream
    <2>1. CASE coming' = coming \o Bytes(Control("separate.req"))
        BY <1>0, <1>3, <2>0, <2>1, WholeSent
    <2>2. CASE coming' = coming
        <3>1. Whole' = Whole
            BY <2>0, <2>2 DEF Whole
        <3>2. Len(Whole) \in Nat
            BY WholeIs
        <3> QED  BY <1>3, <2>0, <3>1, <3>2 DEF CutOff
    <2>3. CASE \E k \in 0..(Len(coming) - 1) : coming' = SubSeq(coming, 1, k)
        BY <1>3, <2>0, <2>3, WholeCut
    <2> QED  BY <1>3, <2>1, <2>2, <2>3 DEF PeerCloses
<1> QED  BY <1>1, <1>2, <1>3 DEF Peer

LEMMA FramePeer ==
    ASSUME Typed, Typed', FrameInv, Peer
    PROVE  FrameInv'
<1>0. /\ Control("select.rsp") \in Message /\ Control("linktest.req") \in Message
      /\ Control("separate.req") \in Message
    BY MessageTypes DEF Stypes
<1>1. UNCHANGED <<part, left, msg, lost, loc>> /\ peer # "closed"
    BY DEF Peer, PeerAnswers, PeerSends, PeerCloses, stream, history
<1>2. CASE \E m \in Message : Joined(Whole', Whole, m)
    BY <1>1, <1>2, FrameJoin
<1>3. CASE peer' = "closed" /\ CutOff(Whole', Whole)
    BY <1>1, <1>3, FrameCut
<1> QED  BY <1>0, <1>2, <1>3, PeerWhole

\* Steps that neither read nor send
LEMMA ArriveWhole ==
    ASSUME Typed, Typed', Arrive
    PROVE  Whole' = Whole
BY WholeArrives DEF Arrive

LEMMA FrameStep ==
    ASSUME Typed, Typed', FrameInv, [Next]_vars
    PROVE  FrameInv'
<1>1. CASE ReadLength \/ ReadHeader \/ ReadBody
    BY <1>1, FrameLength, FrameHeader, FrameBody
<1>4. CASE Hangup
    <2>1. Whole' = Whole /\ peer' = peer /\ (~lost' => ~lost /\ part = "length")
        BY <1>4 DEF Whole, Broken, Hangup
    <2>2. part' = "length" /\ loc' # "garbled"
        BY <1>4, FailsTypes DEF Hangup
    <2> QED  BY <2>1, <2>2, FrameEnds
<1>5. CASE SigAlrm
    BY <1>5, FrameSignal
<1>6. CASE Tick \/ EnterLoop \/ Stopped \/ UNCHANGED vars
    <2>1. Whole' = Whole /\ UNCHANGED <<part, left, msg, lost, peer>>
        BY <1>6 DEF Tick, EnterLoop, Stopped, vars, stream, history, Whole
    <2>2. (loc' \in Resting => part = "length") /\ (loc' # "garbled" \/ loc' = loc)
        BY <1>6 DEF Tick, EnterLoop, Stopped, vars, Goto, FrameInv, Stream, Resting
    <2> QED  BY <2>1, <2>2, FrameSame
<1>7. CASE client_connect \/ recv_hsms
    <2>1. Whole' = Whole /\ peer' = peer /\ lost' = lost /\ part = "length"
        BY <1>7 DEF client_connect, recv_hsms, Whole, history, FrameInv, Stream, Resting
    <2>2. part' = "length" /\ loc' # "garbled"
        BY <1>7, <2>1 DEF client_connect, recv_hsms, Begins, Goto
    <2> QED  BY <2>1, <2>2, FrameEnds
<1>8. CASE Reconnect
    <2>1. Len(Whole') = 0 /\ part' = "length" /\ loc' # "garbled"
        <3>1. Len(wire') = 0 /\ Len(coming') = 0
            BY <1>8 DEF Reconnect
        <3>2. Len(Whole') = 0
            BY <3>1, WholeIsNext
        <3> QED  BY <1>8, <3>2 DEF Reconnect, Goto, FrameInv, Stream, Resting
    <2>2. Framing(Whole') /\ Complete(Whole') /\ LengthNext'
        BY <2>1 DEF Framing, Complete, LengthNext
    <2> QED  BY <2>1, <2>2 DEF FrameInv, Stream, Aligned
<1>9. CASE Peer
    BY <1>9, FramePeer
<1>10. CASE Arrive
    <2>1. Whole' = Whole /\ UNCHANGED <<part, left, msg, lost, peer, loc>>
        BY <1>10, ArriveWhole DEF Arrive, history
    <2> QED  BY <2>1, FrameSame DEF FrameInv, Stream
<1> QED  BY <1>1, <1>4, <1>5, <1>6, <1>7, <1>8, <1>9, <1>10 DEF Next, Receive

-----------------------------------------------------------------------------
(* The handshake: there is one response to a select request at most. *)

IsKind(m) ==
    /\ m.stype \in {"select.rsp", "data", "linktest.req", "separate.req"}
    /\ m.stype # "data" => m.size = 0
Rsp(x) == x.part = "header" /\ x.msg.stype = "select.rsp"

Kinds(w) == \A k \in 1..Len(w) : IsKind(w[k].msg)
NoRsp(w) == \A k \in 1..Len(w) : ~Rsp(w[k])
OneRsp(w) == \A j, k \in 1..Len(w) : Rsp(w[j]) /\ Rsp(w[k]) => j = k

\* Once selected the response is behind sc
Past == peer # "asked" /\ NoRsp(Whole)

HandInv ==
    /\ Kinds(Whole) /\ OneRsp(Whole)
    /\ peer = "asked" => NoRsp(Whole)
    /\ part = "body" => msg.stype = "data"
    /\ ~excused => /\ loc # "dead"
                   /\ loc \in {"exec", "select", "recv"} => Past

LEMMA HandDrop ==
    ASSUME NEW w \in Seq(Symbols), NEW v \in Seq(Symbols), NEW n \in Nat, Dropped(v, w, n)
    PROVE  /\ Kinds(w) => Kinds(v)
           /\ NoRsp(w) => NoRsp(v)
           /\ OneRsp(w) => OneRsp(v)
           /\ OneRsp(w) /\ n > 0 /\ n <= Len(w) /\ Rsp(w[1]) => NoRsp(v)
<1>1. \A k \in 1..Len(v) : k + n \in 1..Len(w) /\ v[k] = w[k + n]
    BY DEF Dropped
<1>2. ASSUME OneRsp(w), NEW j \in 1..Len(v), NEW k \in 1..Len(v), Rsp(v[j]), Rsp(v[k]) PROVE j = k
    <2>1. j + n \in 1..Len(w) /\ k + n \in 1..Len(w) /\ Rsp(w[j + n]) /\ Rsp(w[k + n])
        BY <1>1, <1>2
    <2>2. j + n = k + n
        BY <1>2, <2>1 DEF OneRsp
    <2>3. j \in Int /\ k \in Int /\ n \in Int
        OBVIOUS
    <2> QED  BY ONLY <2>2, <2>3
<1>3. ASSUME OneRsp(w), n > 0, n <= Len(w), Rsp(w[1]), NEW k \in 1..Len(v), Rsp(v[k]) PROVE FALSE
    <2>1. k + n \in 1..Len(w) /\ 1 \in 1..Len(w) /\ Rsp(w[k + n])
        BY <1>1, <1>3
    <2>2. k + n = 1
        BY <1>3, <2>1 DEF OneRsp
    <2> QED  BY <1>3, <2>2
<1> QED  BY <1>1, <1>2, <1>3 DEF Kinds, NoRsp, OneRsp

LEMMA HandCut ==
    ASSUME NEW w \in Seq(Symbols), NEW v \in Seq(Symbols), CutOff(v, w)
    PROVE  /\ Kinds(w) => Kinds(v)
           /\ NoRsp(w) => NoRsp(v)
           /\ OneRsp(w) => OneRsp(v)
<1>1. \A k \in 1..Len(v) : k \in 1..Len(w) /\ v[k] = w[k]
    BY DEF CutOff
<1> QED  BY <1>1 DEF Kinds, NoRsp, OneRsp

LEMMA HandJoin ==
    ASSUME NEW w \in Seq(Symbols), NEW v \in Seq(Symbols), NEW m \in Message, Joined(v, w, m)
    PROVE  /\ Kinds(w) /\ IsKind(m) => Kinds(v)
           /\ m.stype # "select.rsp" =>
                (NoRsp(w) => NoRsp(v)) /\ (OneRsp(w) => OneRsp(v))
           /\ NoRsp(w) => OneRsp(v)
<1>0. m.size \in Nat /\ Len(w) \in Nat /\ Len(v) = Len(w) + m.size + 2
    BY MessageTypes DEF Joined
<1>1. ASSUME NEW k \in 1..Len(v), ~(k \in 1..Len(w))
      PROVE  v[k].msg = m /\ (v[k].part = "header" => k = Len(w) + 2)
    <2>1. k - Len(w) \in 1..(m.size + 2) /\ Len(w) + (k - Len(w)) = k
        BY <1>0, <1>1
    <2>2. v[k] = Byte(m, k - Len(w))
        BY <2>1 DEF Joined
    <2>3. v[k].part = "header" => k - Len(w) = 2
        BY <2>2 DEF Byte, Symbol
    <2>4. v[k].msg = m
        BY <2>2 DEF Byte, Symbol
    <2> QED  BY <1>0, <2>3, <2>4
<1>2. \A k \in 1..Len(w) : v[k] = w[k]
    BY DEF Joined
<1>3. ASSUME NoRsp(w) PROVE OneRsp(v)
    BY <1>1, <1>2, <1>3 DEF NoRsp, OneRsp, Rsp
<1>4. ASSUME m.stype # "select.rsp" PROVE \A k \in 1..Len(v) : Rsp(v[k]) => k \in 1..Len(w)
    BY <1>1, <1>4 DEF Rsp
<1>5. ASSUME m.stype # "select.rsp" PROVE (NoRsp(w) => NoRsp(v)) /\ (OneRsp(w) => OneRsp(v))
    BY <1>2, <1>4, <1>5 DEF NoRsp, OneRsp
<1>6. Kinds(w) /\ IsKind(m) => Kinds(v)
    BY <1>1, <1>2 DEF Kinds
<1> QED  BY <1>3, <1>5, <1>6

\* A message is complete, by its header or its last bytes.
LEMMA HandCompletes ==
    ASSUME NEW m, Completes(m), ~excused', ~excused => (loc = "recv" => Past), IsKind(m)
    PROVE  /\ ~excused
           /\ loc = "recv" /\ m.stype # "select.rsp" => loc' # "dead"
           /\ loc = "selecting" => loc' = "exec" /\ m.stype = "select.rsp"
           /\ loc \in {"selecting", "recv"}
<1>1. CASE loc = "selecting" /\ excused' = (excused \/ m.stype # "select.rsp") /\ Goto("exec")
    BY <1>1 DEF Goto
<1>2. CASE loc = "recv" /\ Dispatch(m)
    BY <1>2 DEF Dispatch, Goto, IsKind
<1> QED  BY <1>1, <1>2 DEF Completes

\* A read of a header finds one.
LEMMA HeaderRead ==
    ASSUME Typed, FrameInv, part = "header", Len(Whole) > 0
    PROVE  Whole[1].part = "header"
<1> DEFINE m == Whole[1].msg
<1>0. Len(Whole) \in Nat
    BY WholeIs
<1>1. Expect(Whole, 1, m, 2) /\ m.size \in Nat /\ 1 \in 1..Len(Whole)
    BY <1>0, WholeIs, MessageTypes DEF FrameInv, Stream, HeaderNext
<1>2. 1 - 1 + 2 = 2 /\ 2 <= m.size + 2
    BY <1>1
<1>3. Whole[1] = Byte(m, 2)
    BY <1>1, <1>2 DEF Expect
<1> QED  BY <1>3 DEF Byte, Symbol

LEMMA HandHeader ==
    ASSUME Typed, Typed', FrameInv, HandInv, ReadHeader
    PROVE  HandInv'
<1> DEFINE m == Whole[1].msg
<1>0. Whole \in Seq(Symbols) /\ Whole' \in Seq(Symbols) /\ Len(Whole) \in Nat /\ peer' = peer
    BY WholeIs, WholeIsNext DEF ReadHeader
<1>c. coming' = coming
    BY CompletesPlace DEF ReadHeader
<1>1. Dropped(Whole', Whole, 1) /\ Whole[1] = Head(wire) /\ Len(Whole) > 0
    BY <1>c, WholeTail DEF ReadHeader
<1>2. Whole[1].part = "header"
    BY <1>1, HeaderRead DEF ReadHeader
<1>3. IsKind(m)
    BY <1>0, <1>1 DEF HandInv, Kinds
<1>4. /\ Kinds(Whole') /\ OneRsp(Whole')
      /\ NoRsp(Whole) => NoRsp(Whole')
      /\ m.stype = "select.rsp" => NoRsp(Whole') /\ peer # "asked"
    <2>1. m.stype = "select.rsp" => Rsp(Whole[1])
        BY <1>2 DEF Rsp
    <2>2. Rsp(Whole[1]) => peer # "asked"
        BY <1>0, <1>1 DEF HandInv, NoRsp
    <2>3. 1 \in Nat /\ 1 > 0 /\ 1 <= Len(Whole)
        BY <1>0, <1>1
    <2> QED  BY <1>0, <1>1, <2>1, <2>2, <2>3, HandDrop DEF HandInv
<1>5. \/ m.size = 0 /\ Completes(m)
      \/ m.size > 0 /\ part' = "body" /\ msg' = m /\ loc' = loc /\ excused' = excused
    BY <1>1 DEF ReadHeader, Rest
<1>6. NoRsp(Whole) => m.stype # "select.rsp"
    BY <1>0, <1>1, <1>2 DEF NoRsp, Rsp
<1> HIDE DEF m
<1>7. CASE m.size > 0 /\ part' = "body" /\ msg' = m /\ loc' = loc /\ excused' = excused
    <2>1. m.stype = "data"
        BY <1>3, <1>7 DEF IsKind
    <2> QED  BY <1>0, <1>4, <1>7, <2>1 DEF HandInv, Past
<1>8. CASE Completes(m)
    <2>1. part' = "length" /\ loc' # "recv" 
        BY <1>8, CompletesPlace
    <2>2. ASSUME ~excused' PROVE Past' /\ loc' # "dead"
        <3>1. /\ ~excused
              /\ loc = "recv" /\ m.stype # "select.rsp" => loc' # "dead"
              /\ loc = "selecting" => loc' = "exec" /\ m.stype = "select.rsp"
              /\ loc \in {"selecting", "recv"}
            BY <1>3, <1>8, <2>2, HandCompletes DEF HandInv
        <3>2. CASE loc = "recv"
            BY <1>0, <1>4, <1>6, <3>1, <3>2 DEF HandInv, Past
        <3>3. CASE loc = "selecting"
            BY <1>0, <1>4, <3>1, <3>3 DEF Past
        <3> QED  BY <3>1, <3>2, <3>3
    <2> QED  BY <1>0, <1>4, <2>1, <2>2 DEF HandInv
<1> QED  BY <1>5, <1>7, <1>8

\* The symbols of a body are read.
LEMMA HandBody ==
    ASSUME Typed, Typed', HandInv, ReadBody
    PROVE  HandInv'
<1> DEFINE n == Min({MaxRead, Len(wire)})
<1>0. /\ Whole \in Seq(Symbols) /\ Whole' \in Seq(Symbols) /\ Len(Whole) \in Nat
      /\ part = "body" /\ peer' = peer /\ msg.stype = "data"
    BY WholeIs, WholeIsNext DEF ReadBody, HandInv
<1>1. n \in 1..Len(wire)
    BY ReadSize DEF ReadBody, Typed, StreamTypes
<1>2. /\ wire' = SubSeq(wire, n + 1, Len(wire))
      /\ \/ Completes(msg)
         \/ UNCHANGED <<loc, part, msg, coming, excused>>
    BY DEF ReadBody
<1> HIDE DEF n
<1>3. coming' = coming /\ wire' = SubSeq(wire, n + 1, Len(wire)) /\ n \in Nat
    BY <1>1, <1>2, CompletesPlace
<1>4. Dropped(Whole', Whole, n) /\ n \in Nat
    BY ONLY <1>1, <1>3, WholeRead, Typed, Typed'
<1>5. Kinds(Whole') /\ OneRsp(Whole') /\ (NoRsp(Whole) => NoRsp(Whole'))
    BY <1>0, <1>4, HandDrop DEF HandInv
<1>6. CASE UNCHANGED <<loc, part, msg, coming, excused>>
    BY <1>0, <1>5, <1>6 DEF HandInv, Past
<1>7. CASE Completes(msg)
    <2>1. part' = "length"
        BY <1>7, CompletesPlace
    <2>2. ASSUME ~excused' PROVE Past' /\ loc' # "dead"
        <3>1. ~excused /\ loc = "recv" /\ loc' # "dead"
            BY <1>0, <1>7, <2>2, HandCompletes DEF HandInv, IsKind
        <3> QED  BY <1>0, <1>5, <3>1 DEF HandInv, Past
    <2> QED  BY <1>0, <1>5, <2>1, <2>2 DEF HandInv
<1> QED  BY <1>2, <1>6, <1>7

LEMMA HandLength ==
    ASSUME Typed, Typed', HandInv, ReadLength
    PROVE  HandInv'
<1>0. /\ Whole \in Seq(Symbols) /\ Whole' \in Seq(Symbols) /\ peer' = peer /\ excused' = excused
      /\ part' # "body" /\ (loc' = loc \/ loc' = "garbled") /\ 1 \in Nat
    BY WholeIs, WholeIsNext DEF ReadLength, history, Goto, Ends
<1>1. Dropped(Whole', Whole, 1)
    BY WholeTail DEF ReadLength
<1>2. Kinds(Whole') /\ OneRsp(Whole') /\ (NoRsp(Whole) => NoRsp(Whole'))
    BY <1>0, <1>1, HandDrop DEF HandInv
<1> QED  BY <1>0, <1>2 DEF HandInv, Past

LEMMA HandPeer ==
    ASSUME Typed, Typed', HandInv, Peer
    PROVE  HandInv'
<1>0. /\ Whole \in Seq(Symbols) /\ Whole' \in Seq(Symbols)
      /\ UNCHANGED <<part, msg, loc, excused>>
    BY WholeIs, WholeIsNext DEF Peer, PeerAnswers, PeerSends, PeerCloses, stream, history
<1>1. ASSUME NEW m \in Message, IsKind(m), m.stype # "select.rsp", Joined(Whole', Whole, m),
             peer' = peer \/ peer' = "closed"
      PROVE  HandInv'
    <2>1. Kinds(Whole') /\ OneRsp(Whole') /\ (NoRsp(Whole) => NoRsp(Whole'))
        BY <1>0, <1>1, HandJoin DEF HandInv
    <2> QED  BY <1>0, <1>1, <2>1 DEF HandInv, Past
<1>2. CASE CutOff(Whole', Whole) /\ peer' = "closed"
    <2>1. Kinds(Whole') /\ OneRsp(Whole') /\ (NoRsp(Whole) => NoRsp(Whole'))
        BY <1>0, <1>2, HandCut DEF HandInv
    <2> QED  BY <1>0, <1>2, <2>1 DEF HandInv, Past
<1>3. CASE PeerAnswers /\ peer' = "selected" /\ Joined(Whole', Whole, Control("select.rsp"))
    <2>1. peer = "asked" /\ NoRsp(Whole)
        BY <1>3 DEF PeerAnswers, HandInv
    <2>2. Control("select.rsp") \in Message /\ IsKind(Control("select.rsp"))
        BY MessageTypes DEF Stypes, IsKind, Control
    <2>3. Kinds(Whole') /\ OneRsp(Whole')
        BY <1>0, <1>3, <2>1, <2>2, HandJoin DEF HandInv
    <2> QED  BY <1>0, <1>3, <2>1, <2>3 DEF HandInv, Past
<1>4. /\ Control("linktest.req") \in Message /\ IsKind(Control("linktest.req"))
      /\ Control("separate.req") \in Message /\ IsKind(Control("separate.req"))
      /\ Control("linktest.req").stype # "select.rsp" /\ Control("separate.req").stype # "select.rsp"
    BY MessageTypes DEF Stypes, IsKind, Control
<1>5. \A id, size : IsKind(DataMsg(id, size)) /\ DataMsg(id, size).stype # "select.rsp"
    BY DEF IsKind, DataMsg
<1> QED  BY <1>1, <1>2, <1>3, <1>4, <1>5, PeerWhole

LEMMA HandSignal ==
    ASSUME HandInv, SigAlrm
    PROVE  HandInv'
<1>0. peer' = peer
    BY DEF SigAlrm
<1>1. CASE UNCHANGED <<stream, coming, history>> /\ (loc' = loc \/ loc' = "wild")
    <2>1. Whole' = Whole /\ UNCHANGED <<part, msg, excused>>
        BY <1>1 DEF stream, history, Whole
    <2> QED  BY <1>0, <1>1, <2>1 DEF HandInv, Past
<1>2. ASSUME NEW c, ReceptionFails(c), UNCHANGED <<wire, coming, excused>> PROVE HandInv'
    <2>1. Whole' = Whole /\ part' = "length"
        BY <1>2, FailsTypes DEF Whole
    <2>2. loc' = "t5" \/ (loc = "recv" /\ loc' = "select")
        BY <1>2 DEF ReceptionFails, Goto
    <2> QED  BY <1>0, <1>2, <2>1, <2>2 DEF HandInv, Past
<1>3. CASE Completes(msg) /\ UNCHANGED wire /\ part = "body"
    <2>1. Whole' = Whole /\ part' = "length" /\ msg.stype = "data" /\ loc' # "recv"
        BY <1>3, CompletesPlace DEF Whole, HandInv
    <2>2. ASSUME ~excused' PROVE ~excused /\ loc = "recv" /\ loc' # "dead"
        <3>1. CASE loc = "selecting" /\ excused' = (excused \/ msg.stype # "select.rsp")
            BY <2>1, <2>2, <3>1
        <3>2. CASE loc = "recv" /\ Dispatch(msg)
            BY <2>1, <2>2, <3>2 DEF Dispatch, Goto
        <3> QED  BY <1>3, <3>1, <3>2 DEF Completes
    <2> QED  BY <1>0, <2>1, <2>2 DEF HandInv, Past
<1>4. CASE UNCHANGED <<loc, part, msg, coming, delivered, excused, wire>>
    <2>1. Whole' = Whole
        BY <1>4 DEF Whole
    <2> QED  BY <1>0, <1>4, <2>1 DEF HandInv, Past
<1>5. CASE T6Runs
    <2>1. Whole' = Whole /\ part' = "length"
        BY <1>5 DEF Whole, T6Runs, Ends
    <2>2. excused' \/ (loc' = "t5" /\ excused' = excused)
        BY <1>5 DEF T6Runs, Goto
    <2> QED  BY <1>0, <2>1, <2>2 DEF HandInv, Past
<1>6. CASE T8Branch
    BY <1>2, <1>6 DEF T8Branch
<1>7. CASE T8Caller
    BY <1>2, <1>3, <1>4, <1>7 DEF T8Caller
<1> QED  BY <1>1, <1>5, <1>6, <1>7 DEF SigAlrm, Goto

LEMMA HandStep ==
    ASSUME Typed, Typed', FrameInv, HandInv, [Next]_vars
    PROVE  HandInv'
<1>1. CASE ReadLength \/ ReadHeader \/ ReadBody
    BY <1>1, HandLength, HandHeader, HandBody
<1>4. CASE Hangup
    <2>1. Whole' = Whole /\ peer' = peer /\ excused' = excused
        BY <1>4 DEF Whole, Hangup
    <2>2. part' = "length"
        BY <1>4, FailsTypes DEF Hangup
    <2>3. loc' = "t5" \/ (loc = "recv" /\ loc' = "select")
        BY <1>4 DEF Hangup, ReceptionFails, Goto
    <2> QED  BY <2>1, <2>2, <2>3 DEF HandInv, Past
<1>5. CASE SigAlrm
    BY <1>5, HandSignal
<1>6. CASE Tick \/ EnterLoop \/ Stopped \/ UNCHANGED vars
    <2>1. Whole' = Whole /\ UNCHANGED <<part, msg, excused, peer>>
        BY <1>6 DEF Tick, EnterLoop, Stopped, vars, stream, history, Whole
    <2>2. loc' = loc \/ (loc = "exec" /\ loc' = "select")
        BY <1>6 DEF Tick, EnterLoop, Stopped, vars, Goto
    <2> QED  BY <2>1, <2>2 DEF HandInv, Past
<1>7. CASE client_connect \/ recv_hsms
    <2>1. Whole' = Whole /\ peer' = peer /\ excused' = excused
        BY <1>7 DEF client_connect, recv_hsms, Whole, history
    <2>2. part' # "body" \/ (part' = part /\ msg' = msg)
        BY <1>7 DEF client_connect, recv_hsms, Begins
    <2>3. loc' \in {"selecting", "t5"} \/ (loc = "select" /\ loc' = "recv")
        BY <1>7 DEF client_connect, recv_hsms, Goto
    <2> QED  BY <2>1, <2>2, <2>3 DEF HandInv, Past
<1>8. CASE Reconnect
    <2>1. Len(Whole') = 0
        <3>1. Len(wire') = 0 /\ Len(coming') = 0
            BY <1>8 DEF Reconnect
        <3> QED  BY <3>1, WholeIsNext
    <2>2. Kinds(Whole') /\ OneRsp(Whole') /\ NoRsp(Whole')
        BY <2>1 DEF Kinds, OneRsp, NoRsp
    <2>3. loc' \in {"open", "closed"} /\ UNCHANGED <<part, msg>>
        BY <1>8 DEF Reconnect, Goto
    <2> QED  BY <2>2, <2>3 DEF HandInv
<1>9. CASE Peer
    BY <1>9, HandPeer
<1>10. CASE Arrive
    <2>1. Whole' = Whole /\ UNCHANGED <<part, msg, peer, loc, excused>>
        BY <1>10, ArriveWhole DEF Arrive, history
    <2> QED  BY <2>1 DEF HandInv, Past
<1> QED  BY <1>1, <1>4, <1>5, <1>6, <1>7, <1>8, <1>9, <1>10 DEF Next, Receive

LEMMA HandKept == Spec => [](Typed /\ FrameInv /\ HandInv)
<1>1. ASSUME Init PROVE Typed /\ FrameInv /\ HandInv
    <2>1. Typed
        BY <1>1, InitTyped
    <2>2. Len(Whole) = 0
        <3>1. Len(wire) = 0 /\ Len(coming) = 0
            BY <1>1 DEF Init
        <3> QED  BY <2>1, <3>1, WholeIs
    <2>3. FrameInv
        BY <1>1, <2>2 DEF Init, FrameInv, Stream, Aligned, Framing, Complete, LengthNext
    <2>4. HandInv
        BY <1>1, <2>2 DEF Init, HandInv, Kinds, OneRsp, NoRsp
    <2> QED  BY <2>1, <2>3, <2>4
<1>2. Typed /\ FrameInv /\ HandInv /\ [Next]_vars => (Typed /\ FrameInv /\ HandInv)'
    BY TypesStep, FrameStep, HandStep
<1> QED  BY <1>1, <1>2, PTL DEF Spec

\* SelectedFirst: on every connection the program goes on only when the equipment
\* has answered the select request, and the answer never reaches recv_hsms().
THEOREM SelectedFirst == Spec => []Selected
<1>1. HandInv => Selected
    BY DEF HandInv, Selected, Past
<1> QED  BY <1>1, HandKept, PTL

-----------------------------------------------------------------------------
(* The order: the headers of data messages in the stream w are those of the *)
(* messages of s behind the first b, one each, in order and without gaps.   *)

IsHead(x) == x.part = "header" /\ x.msg.stype = "data"
HasHead(w, i) == \E k \in 1..Len(w) : IsHead(w[k]) /\ w[k].msg.id = i

Known(w, s, b) ==
    \A k \in 1..Len(w) : IsHead(w[k]) =>
        w[k].msg.id \in (b + 1)..Len(s) /\ w[k].msg = s[w[k].msg.id]
Rising(w) ==
    \A j, k \in 1..Len(w) : IsHead(w[j]) /\ IsHead(w[k]) /\ j < k => w[j].msg.id < w[k].msg.id
NoGap(w, b) ==
    \A k \in 1..Len(w) : IsHead(w[k]) => \A i \in (b + 1)..w[k].msg.id : HasHead(w, i)
Queue(w, s, b) == Known(w, s, b) /\ Rising(w) /\ NoGap(w, b)

\* None is missing up to the t-th
AllOf(w, b, t) == \A i \in (b + 1)..t : HasHead(w, i)

LEMMA IdTypes ==
    ASSUME NEW w \in Seq(Symbols), NEW k \in 1..Len(w)
    PROVE  w[k].msg.id \in Nat
<1>1. w[k] \in Symbols
    OBVIOUS
<1>2. w[k].msg \in Message
    BY <1>1 DEF Symbols
<1>3. w[k].msg.id \in 0..MaxSent
    BY <1>2, MessageTypes
<1> QED  BY <1>3, HsmsAssumption

\* Symbols that are no such header are read.
LEMMA QueueDrop ==
    ASSUME NEW w \in Seq(Symbols), NEW v \in Seq(Symbols), NEW n \in Nat, Dropped(v, w, n),
           n <= Len(w), \A k \in 1..n : ~IsHead(w[k]), NEW s, NEW b \in Nat, NEW t \in Nat, Queue(w, s, b)
    PROVE  Queue(v, s, b) /\ (AllOf(w, b, t) => AllOf(v, b, t))
<1>0. Len(w) \in Nat /\ Len(v) = Len(w) - n
    BY DEF Dropped
<1>1. \A k \in 1..Len(v) : k + n \in 1..Len(w) /\ v[k] = w[k + n]
    BY DEF Dropped
<1>2. ASSUME NEW i, HasHead(w, i) PROVE HasHead(v, i)
    <2>1. PICK k \in 1..Len(w) : IsHead(w[k]) /\ w[k].msg.id = i
        BY <1>2 DEF HasHead
    <2>2. ~(k \in 1..n)
        BY <2>1
    <2>3. k - n \in 1..Len(v) /\ (k - n) + n = k
        BY <1>0, <2>2
    <2>4. v[k - n] = w[k]
        BY <1>1, <2>3
    <2> QED  BY <2>1, <2>3, <2>4 DEF HasHead
<1>3. Known(v, s, b)
    BY <1>1 DEF Queue, Known
<1>4. Rising(v)
    <2> SUFFICES ASSUME NEW j \in 1..Len(v), NEW k \in 1..Len(v), IsHead(v[j]), IsHead(v[k]), j < k
                 PROVE  v[j].msg.id < v[k].msg.id
        BY DEF Rising
    <2>1. /\ j + n \in 1..Len(w) /\ k + n \in 1..Len(w) /\ j + n < k + n
          /\ v[j] = w[j + n] /\ v[k] = w[k + n]
        BY <1>0, <1>1
    <2> QED  BY <2>1 DEF Queue, Rising
<1>5. NoGap(v, b)
    <2> SUFFICES ASSUME NEW k \in 1..Len(v), IsHead(v[k]), NEW i \in (b + 1)..v[k].msg.id
                 PROVE  HasHead(v, i)
        BY DEF NoGap
    <2>1. HasHead(w, i)
        BY <1>1 DEF Queue, NoGap
    <2> QED  BY <1>2, <2>1
<1>6. AllOf(w, b, t) => AllOf(v, b, t)
    BY <1>2 DEF AllOf
<1> QED  BY <1>3, <1>4, <1>5, <1>6 DEF Queue

\* Such a header is read: it is the next one.
LEMMA QueueTake ==
    ASSUME NEW w \in Seq(Symbols), NEW v \in Seq(Symbols), Dropped(v, w, 1), Len(w) > 0,
           IsHead(w[1]), NEW s \in Seq(Message), NEW b \in Nat, NEW t \in Nat, Queue(w, s, b)
    PROVE  /\ b < Len(s) /\ w[1].msg = s[b + 1]
           /\ Queue(v, s, b + 1) /\ (AllOf(w, b, t) => AllOf(v, b + 1, t))
<1>0. Len(w) \in Nat /\ Len(v) = Len(w) - 1 /\ Len(s) \in Nat /\ 1 \in 1..Len(w)
    BY DEF Dropped
<1>1. \A k \in 1..Len(v) : k + 1 \in 1..Len(w) /\ v[k] = w[k + 1]
    BY DEF Dropped
<1>t. \A k \in 1..Len(w) : w[k].msg.id \in Nat
    BY IdTypes
<1>2. w[1].msg.id \in (b + 1)..Len(s) /\ w[1].msg = s[w[1].msg.id]
    BY <1>0 DEF Queue, Known
<1>3. w[1].msg.id = b + 1
    <2>1. b + 1 \in (b + 1)..w[1].msg.id
        BY <1>0, <1>2
    <2>2. HasHead(w, b + 1)
        BY <1>0, <2>1 DEF Queue, NoGap
    <2>3. PICK k \in 1..Len(w) : IsHead(w[k]) /\ w[k].msg.id = b + 1
        BY <2>2 DEF HasHead
    <2>4. 1 < k => w[1].msg.id < w[k].msg.id
        BY <1>0, <2>3 DEF Queue, Rising
    <2>5. k = 1
        BY <1>0, <1>2, <2>3, <2>4
    <2> QED  BY <2>3, <2>5
<1>4. ASSUME NEW i \in Int, i > b + 1, HasHead(w, i) PROVE HasHead(v, i)
    <2>1. PICK k \in 1..Len(w) : IsHead(w[k]) /\ w[k].msg.id = i
        BY <1>4 DEF HasHead
    <2>2. k # 1
        BY <1>3, <1>4, <2>1
    <2>3. k - 1 \in 1..Len(v) /\ (k - 1) + 1 = k
        BY <1>0, <2>2
    <2>4. v[k - 1] = w[k]
        BY <1>1, <2>3
    <2> QED  BY <2>1, <2>3, <2>4 DEF HasHead
<1>5. Known(v, s, b + 1)
    <2> SUFFICES ASSUME NEW k \in 1..Len(v), IsHead(v[k])
                 PROVE  v[k].msg.id \in (b + 1 + 1)..Len(s) /\ v[k].msg = s[v[k].msg.id]
        BY DEF Known
    <2>1. k + 1 \in 1..Len(w) /\ v[k] = w[k + 1] /\ 1 < k + 1
        BY <1>0, <1>1
    <2>2. v[k].msg.id \in (b + 1)..Len(s) /\ v[k].msg = s[v[k].msg.id]
        BY <2>1 DEF Queue, Known
    <2>3. w[1].msg.id < v[k].msg.id
        BY <1>0, <2>1 DEF Queue, Rising
    <2> QED  BY <1>0, <1>3, <2>2, <2>3
<1>6. Rising(v)
    <2> SUFFICES ASSUME NEW j \in 1..Len(v), NEW k \in 1..Len(v), IsHead(v[j]), IsHead(v[k]), j < k
                 PROVE  v[j].msg.id < v[k].msg.id
        BY DEF Rising
    <2>1. /\ j + 1 \in 1..Len(w) /\ k + 1 \in 1..Len(w) /\ j + 1 < k + 1
          /\ v[j] = w[j + 1] /\ v[k] = w[k + 1]
        BY <1>0, <1>1
    <2> QED  BY <2>1 DEF Queue, Rising
<1>7. NoGap(v, b + 1)
    <2> SUFFICES ASSUME NEW k \in 1..Len(v), IsHead(v[k]), NEW i \in (b + 1 + 1)..v[k].msg.id
                 PROVE  HasHead(v, i)
        BY DEF NoGap
    <2>1. k + 1 \in 1..Len(w) /\ v[k] = w[k + 1] /\ v[k].msg.id \in Nat
        BY <1>1, <1>t
    <2>2. i \in (b + 1)..v[k].msg.id /\ i \in Int /\ i > b + 1
        BY <2>1
    <2>3. HasHead(w, i)
        BY <2>1, <2>2 DEF Queue, NoGap
    <2> QED  BY <1>4, <2>2, <2>3
<1>8. ASSUME AllOf(w, b, t) PROVE AllOf(v, b + 1, t)
    <2> SUFFICES ASSUME NEW i \in (b + 1 + 1)..t PROVE HasHead(v, i)
        BY DEF AllOf
    <2>1. i \in (b + 1)..t /\ i \in Int /\ i > b + 1
        OBVIOUS
    <2> QED  BY <1>4, <1>8, <2>1 DEF AllOf
<1>9. b < Len(s) /\ w[1].msg = s[b + 1]
    BY <1>0, <1>2, <1>3
<1> QED  BY <1>5, <1>6, <1>7, <1>8, <1>9 DEF Queue

\* The stream is cut off.
LEMMA QueueCut ==
    ASSUME NEW w \in Seq(Symbols), NEW v \in Seq(Symbols), CutOff(v, w), NEW s, NEW b \in Nat,
           Queue(w, s, b)
    PROVE  Queue(v, s, b)
<1>0. Len(w) \in Nat /\ Len(v) \in Nat /\ Len(v) <= Len(w)
    BY DEF CutOff
<1>1. \A k \in 1..Len(v) : k \in 1..Len(w) /\ v[k] = w[k]
    BY DEF CutOff
<1>t. \A k \in 1..Len(w) : w[k].msg.id \in Nat
    BY IdTypes
<1>2. Known(v, s, b) /\ Rising(v)
    BY <1>1 DEF Queue, Known, Rising
<1>3. NoGap(v, b)
    <2> SUFFICES ASSUME NEW k \in 1..Len(v), IsHead(v[k]), NEW i \in (b + 1)..v[k].msg.id
                 PROVE  HasHead(v, i)
        BY DEF NoGap
    <2>1. k \in 1..Len(w) /\ v[k] = w[k] /\ w[k].msg.id \in Nat
        BY <1>1, <1>t
    <2>2. HasHead(w, i)
        BY <2>1 DEF Queue, NoGap
    <2>3. PICK j \in 1..Len(w) : IsHead(w[j]) /\ w[j].msg.id = i
        BY <2>2 DEF HasHead
    <2>4. k < j => w[k].msg.id < w[j].msg.id
        BY <2>1, <2>3 DEF Queue, Rising
    <2>5. i <= w[k].msg.id
        BY <2>1
    <2>6. j \in 1..Len(v)
        BY <1>0, <1>t, <2>1, <2>3, <2>4, <2>5
    <2>7. v[j] = w[j]
        BY <1>1, <2>6
    <2> QED  BY <2>3, <2>6, <2>7 DEF HasHead
<1> QED  BY <1>2, <1>3 DEF Queue

\* What is new in a stream that a message joined
LEMMA JoinedHeads ==
    ASSUME NEW w \in Seq(Symbols), NEW v \in Seq(Symbols), NEW m \in Message, Joined(v, w, m)
    PROVE  /\ \A k \in 1..Len(w) : k \in 1..Len(v) /\ v[k] = w[k]
           /\ Len(w) + 2 \in 1..Len(v) /\ v[Len(w) + 2] = Symbol("header", m)
           /\ \A k \in 1..Len(v) : ~(k \in 1..Len(w)) =>
                 v[k].msg = m /\ (v[k].part = "header" => k = Len(w) + 2)
<1>0. m.size \in Nat /\ Len(w) \in Nat /\ Len(v) = Len(w) + m.size + 2
    BY MessageTypes DEF Joined
<1>1. ASSUME NEW k \in 1..Len(v), ~(k \in 1..Len(w))
      PROVE  v[k].msg = m /\ (v[k].part = "header" => k = Len(w) + 2)
    <2>1. k - Len(w) \in 1..(m.size + 2) /\ Len(w) + (k - Len(w)) = k
        BY <1>0, <1>1
    <2>2. v[k] = Byte(m, k - Len(w))
        BY <2>1 DEF Joined
    <2>3. v[k].part = "header" => k - Len(w) = 2
        BY <2>2 DEF Byte, Symbol
    <2>4. v[k].msg = m
        BY <2>2 DEF Byte, Symbol
    <2> QED  BY <1>0, <2>3, <2>4
<1>2. \A k \in 1..Len(w) : k \in 1..Len(v) /\ v[k] = w[k]
    BY <1>0 DEF Joined
<1>3. Len(w) + 2 \in 1..Len(v) /\ 2 \in 1..(m.size + 2)
    BY <1>0
<1>4. v[Len(w) + 2] = Symbol("header", m)
    BY <1>3 DEF Joined, Byte
<1> QED  BY <1>1, <1>2, <1>3, <1>4

\* A message that is no data message is sent.
LEMMA QueueJoin ==
    ASSUME NEW w \in Seq(Symbols), NEW v \in Seq(Symbols), NEW m \in Message, Joined(v, w, m),
           m.stype # "data", NEW s, NEW b \in Nat, NEW t \in Nat, Queue(w, s, b)
    PROVE  Queue(v, s, b) /\ (AllOf(w, b, t) => AllOf(v, b, t))
<1>1. \A k \in 1..Len(w) : k \in 1..Len(v) /\ v[k] = w[k]
    BY JoinedHeads
<1>2. \A k \in 1..Len(v) : IsHead(v[k]) => k \in 1..Len(w)
    BY JoinedHeads DEF IsHead
<1>3. \A i : HasHead(w, i) => HasHead(v, i)
    BY <1>1 DEF HasHead
<1>4. Known(v, s, b)
    BY <1>1, <1>2 DEF Queue, Known
<1>5. Rising(v)
    BY <1>1, <1>2 DEF Queue, Rising
<1>6. NoGap(v, b)
    BY <1>1, <1>2, <1>3 DEF Queue, NoGap
<1>7. AllOf(w, b, t) => AllOf(v, b, t)
    BY <1>3 DEF AllOf
<1> QED  BY <1>4, <1>5, <1>6, <1>7 DEF Queue

\* The next data message is sent.
LEMMA QueueSend ==
    ASSUME NEW w \in Seq(Symbols), NEW v \in Seq(Symbols), NEW m \in Message, Joined(v, w, m),
           m.stype = "data", NEW s \in Seq(Message), NEW b \in Nat, b <= Len(s), m.id = Len(s) + 1,
           Queue(w, s, b), AllOf(w, b, Len(s))
    PROVE  Queue(v, Append(s, m), b) /\ AllOf(v, b, Len(s) + 1)
<1> DEFINE r == Append(s, m)
<1>0. /\ Len(s) \in Nat /\ Len(w) \in Nat /\ Len(r) = Len(s) + 1
      /\ \A i \in 1..Len(s) : r[i] = s[i]
      /\ r[Len(s) + 1] = m
    BY AppendProperties
<1> HIDE DEF r
<1>1. \A k \in 1..Len(w) : k \in 1..Len(v) /\ v[k] = w[k]
    BY JoinedHeads
<1>2. Len(w) + 2 \in 1..Len(v) /\ v[Len(w) + 2].msg = m /\ IsHead(v[Len(w) + 2])
    <2>1. Len(w) + 2 \in 1..Len(v) /\ v[Len(w) + 2] = Symbol("header", m)
        BY JoinedHeads
    <2>2. Symbol("header", m).msg = m /\ Symbol("header", m).part = "header"
        BY DEF Symbol
    <2> QED  BY <2>1, <2>2 DEF IsHead
<1>3. \A k \in 1..Len(v) : IsHead(v[k]) => k \in 1..Len(w) \/ (k = Len(w) + 2 /\ v[k].msg = m)
    BY JoinedHeads DEF IsHead
<1>4. ASSUME NEW k \in 1..Len(w), IsHead(w[k])
      PROVE  w[k].msg.id \in (b + 1)..Len(s) /\ w[k].msg = s[w[k].msg.id]
    BY <1>4 DEF Queue, Known
<1>5. Known(v, r, b)
    <2> SUFFICES ASSUME NEW k \in 1..Len(v), IsHead(v[k])
                 PROVE  v[k].msg.id \in (b + 1)..Len(r) /\ v[k].msg = r[v[k].msg.id]
        BY DEF Known
    <2>1. CASE k \in 1..Len(w)
        <3>1. v[k].msg.id \in (b + 1)..Len(s) /\ v[k].msg = s[v[k].msg.id]
            BY <1>1, <1>4, <2>1
        <3>2. v[k].msg.id \in 1..Len(s) /\ v[k].msg.id \in (b + 1)..Len(r)
            BY <1>0, <3>1
        <3> QED  BY <1>0, <3>1, <3>2
    <2>2. CASE v[k].msg = m
        <3>1. Len(s) + 1 \in (b + 1)..Len(r)
            BY <1>0
        <3> QED  BY <1>0, <2>2, <3>1
    <2> QED  BY <1>3, <2>1, <2>2
<1>6. Rising(v)
    <2> SUFFICES ASSUME NEW j \in 1..Len(v), NEW k \in 1..Len(v), IsHead(v[j]), IsHead(v[k]), j < k
                 PROVE  v[j].msg.id < v[k].msg.id
        BY DEF Rising
    <2>1. CASE k \in 1..Len(w)
        <3>1. j \in 1..Len(w)
            BY <1>0, <2>1
        <3> QED  BY <1>1, <2>1, <3>1 DEF Queue, Rising
    <2>2. CASE k = Len(w) + 2 /\ v[k].msg = m
        <3>1. j \in 1..Len(w)
            BY <1>3, <2>2
        <3>2. v[j].msg.id \in (b + 1)..Len(s)
            BY <1>1, <1>4, <3>1
        <3> QED  BY <1>0, <2>2, <3>2
    <2> QED  BY <1>3, <2>1, <2>2
<1>7. AllOf(v, b, Len(s) + 1)
    <2> SUFFICES ASSUME NEW i \in (b + 1)..(Len(s) + 1) PROVE HasHead(v, i)
        BY DEF AllOf
    <2>1. CASE i <= Len(s)
        <3>1. i \in (b + 1)..Len(s)
            BY <1>0, <2>1
        <3>2. HasHead(w, i)
            BY <3>1 DEF AllOf
        <3> QED  BY <1>1, <3>2 DEF HasHead
    <2>2. CASE i = Len(s) + 1
        BY <1>2, <2>2 DEF HasHead
    <2> QED  BY <1>0, <2>1, <2>2
<1>8. NoGap(v, b)
    <2> SUFFICES ASSUME NEW k \in 1..Len(v), IsHead(v[k]), NEW i \in (b + 1)..v[k].msg.id
                 PROVE  HasHead(v, i)
        BY DEF NoGap
    <2>1. v[k].msg.id \in (b + 1)..Len(r)
        BY <1>5 DEF Known
    <2>2. i \in (b + 1)..(Len(s) + 1)
        BY <1>0, <2>1
    <2> QED  BY <1>7, <2>2 DEF AllOf
<1> QED  BY <1>5, <1>6, <1>7, <1>8 DEF Queue, r

\* Messages up to the one of the reception
Base == IF part = "body" THEN Len(delivered) + 1 ELSE Len(delivered)

\* The program was run for the first messages that were sent
Follows(d, s) == Len(d) <= Len(s) /\ \A j \in 1..Len(d) : d[j] = s[j]

InOrder ==
    /\ Follows(delivered, sent)
    /\ part = "body" => Len(delivered) < Len(sent) /\ msg = sent[Len(delivered) + 1]
    /\ Queue(Whole, sent, Base)
    /\ peer # "closed" => AllOf(Whole, Base, Len(sent))

OrderInv == ~lost /\ ~excused => InOrder

LEMMA FollowsNext ==
    ASSUME NEW d \in Seq(Message), NEW s \in Seq(Message), Follows(d, s), Len(d) < Len(s)
    PROVE  Follows(Append(d, s[Len(d) + 1]), s)
<1> DEFINE e == Append(d, s[Len(d) + 1])
<1>1. Len(d) \in Nat /\ Len(s) \in Nat /\ Len(d) + 1 \in 1..Len(s)
    OBVIOUS
<1>2. s[Len(d) + 1] \in Message
    BY <1>1
<1>3. /\ Len(e) = Len(d) + 1 /\ e[Len(d) + 1] = s[Len(d) + 1]
      /\ \A j \in 1..Len(d) : e[j] = d[j]
    BY <1>2, AppendProperties
<1> HIDE DEF e
<1>4. ASSUME NEW j \in 1..Len(e) PROVE e[j] = s[j]
    <2>1. j \in 1..Len(d) \/ j = Len(d) + 1
        BY <1>1, <1>3
    <2> QED  BY <1>3, <2>1 DEF Follows
<1>5. Len(e) <= Len(s)
    BY <1>1, <1>3
<1> QED  BY <1>4, <1>5 DEF Follows, e

\* The types of what the order is about
LEMMA OrderTypes ==
    ASSUME Typed
    PROVE  /\ Whole \in Seq(Symbols) /\ Len(Whole) \in Nat
           /\ sent \in Seq(Message) /\ delivered \in Seq(Message)
           /\ Len(sent) \in Nat /\ Len(delivered) \in Nat /\ Base \in Nat
BY WholeIs DEF Typed, HistoryTypes, Base

\* The reception ends or stays where it is, and the stream as it is.
LEMMA OrderSame ==
    ASSUME OrderInv, Whole' = Whole, UNCHANGED <<sent, delivered>>, peer' = peer,
           ~lost' => ~lost /\ ((part = "length" /\ part' = "length") \/ UNCHANGED <<part, msg>>),
           ~excused' => ~excused
    PROVE  OrderInv'
<1> SUFFICES ASSUME ~lost', ~excused' PROVE InOrder'
    BY DEF OrderInv
<1>1. InOrder
    BY DEF OrderInv
<1>2. Base' = Base /\ (part' = "body" => part = "body" /\ msg' = msg)
    BY DEF Base
<1> QED  BY <1>1, <1>2 DEF InOrder

LEMMA OrderLength ==
    ASSUME Typed, Typed', FrameInv, OrderInv, ReadLength
    PROVE  OrderInv'
<1> SUFFICES ASSUME ~lost', ~excused' PROVE InOrder'
    BY DEF OrderInv
<1>0. /\ part = "length" /\ UNCHANGED <<peer, sent, delivered, lost, excused>> /\ coming' = coming
      /\ part' # "body"
    BY DEF ReadLength, history, Ends
<1>1. InOrder /\ LengthNext
    BY <1>0 DEF OrderInv, FrameInv, Aligned
<1>2. Dropped(Whole', Whole, 1) /\ Len(Whole) > 0 /\ 1 \in Nat
    BY <1>0, WholeTail DEF ReadLength
<1>3. \A k \in 1..1 : ~IsHead(Whole[k])
    BY <1>1, <1>2 DEF LengthNext, IsHead
<1>4. Whole' \in Seq(Symbols)
    BY WholeIsNext
<1>5. 1 <= Len(Whole)
    BY <1>2, OrderTypes
<1>6. Queue(Whole', sent, Base) /\ (AllOf(Whole, Base, Len(sent)) => AllOf(Whole', Base, Len(sent)))
    BY <1>1, <1>2, <1>3, <1>4, <1>5, OrderTypes, QueueDrop DEF InOrder
<1>7. Base' = Base
    BY <1>0 DEF Base
<1> QED  BY <1>0, <1>1, <1>6, <1>7 DEF InOrder

\* What a complete message does to the order
LEMMA OrderCompletes ==
    ASSUME NEW m, Completes(m), ~excused'
    PROVE  /\ ~excused /\ part' = "length"
           /\ m.stype = "data" => loc = "recv" /\ delivered' = Append(delivered, m)
           /\ m.stype # "data" => delivered' = delivered
<1>1. part' = "length"
    BY CompletesPlace
<1>2. CASE loc = "selecting" /\ excused' = (excused \/ m.stype # "select.rsp") /\ delivered' = delivered
    BY <1>1, <1>2
<1>3. CASE loc = "recv" /\ Dispatch(m)
    BY <1>1, <1>3 DEF Dispatch
<1> QED  BY <1>2, <1>3 DEF Completes

LEMMA OrderHeader ==
    ASSUME Typed, Typed', FrameInv, HandInv, OrderInv, ReadHeader
    PROVE  OrderInv'
<1> SUFFICES ASSUME ~lost', ~excused' PROVE InOrder'
    BY DEF OrderInv
<1> DEFINE m == Whole[1].msg
<1>0. part = "header" /\ UNCHANGED <<peer, sent, lost>>
    BY DEF ReadHeader
<1>c. coming' = coming
    BY CompletesPlace DEF ReadHeader
<1>1. Dropped(Whole', Whole, 1) /\ Whole[1] = Head(wire) /\ Len(Whole) > 0 /\ 1 \in Nat
    BY <1>c, WholeTail DEF ReadHeader
<1>2. Whole[1].part = "header"
    BY <1>1, HeaderRead DEF ReadHeader
<1>3. IsKind(m)
    BY <1>1, OrderTypes DEF HandInv, Kinds
<1>4. Whole' \in Seq(Symbols) /\ 1 <= Len(Whole)
    BY <1>1, OrderTypes, WholeIsNext
<1>5. \/ m.size = 0 /\ Completes(m)
      \/ /\ m.size > 0 /\ part' = "body" /\ msg' = m
         /\ UNCHANGED <<delivered, excused>>
    BY <1>1 DEF ReadHeader, Rest
<1>6. ~excused
    BY <1>5, OrderCompletes
<1>7. InOrder /\ Base = Len(delivered)
    BY <1>0, <1>6 DEF OrderInv, Base
<1>8. Follows(delivered, sent) /\ Queue(Whole, sent, Base)
      /\ (peer # "closed" => AllOf(Whole, Base, Len(sent)))
    BY <1>7 DEF InOrder
<1>9. CASE m.stype = "data"
    <2>1. IsHead(Whole[1])
        BY <1>2, <1>9 DEF IsHead
    <2>2. /\ Len(delivered) < Len(sent) /\ m = sent[Len(delivered) + 1]
          /\ Queue(Whole', sent, Len(delivered) + 1)
          /\ AllOf(Whole, Base, Len(sent)) => AllOf(Whole', Len(delivered) + 1, Len(sent))
        <3>1. /\ Whole \in Seq(Symbols) /\ Whole' \in Seq(Symbols) /\ sent \in Seq(Message)
              /\ Base \in Nat /\ Len(sent) \in Nat
            BY <1>4, OrderTypes
        <3>2. /\ Dropped(Whole', Whole, 1) /\ Len(Whole) > 0 /\ IsHead(Whole[1])
              /\ Queue(Whole, sent, Base)
            BY <1>1, <1>8, <2>1
        <3>3. /\ Base < Len(sent) /\ m = sent[Base + 1] /\ Queue(Whole', sent, Base + 1)
              /\ AllOf(Whole, Base, Len(sent)) => AllOf(Whole', Base + 1, Len(sent))
            BY ONLY <3>1, <3>2, QueueTake
        <3> QED  BY <1>7, <3>3
    <2> HIDE DEF m
    <2>3. CASE Completes(m)
        <3>1. part' = "length" /\ delivered' = Append(delivered, sent[Len(delivered) + 1])
            BY <1>9, <2>2, <2>3, OrderCompletes
        <3>2. Follows(delivered', sent)
            BY <1>8, <2>2, <3>1, OrderTypes, FollowsNext
        <3>3. Base' = Len(delivered) + 1
            <4>1. Len(delivered) + 1 \in 1..Len(sent)
                BY <2>2, OrderTypes
            <4>2. sent[Len(delivered) + 1] \in Message
                BY <4>1, OrderTypes
            <4>3. Len(delivered') = Len(delivered) + 1
                BY <3>1, <4>2, OrderTypes, AppendProperties
            <4> QED  BY <3>1, <4>3 DEF Base
        <3> QED  BY <1>0, <1>8, <2>2, <3>1, <3>2, <3>3 DEF InOrder
    <2>4. CASE part' = "body" /\ msg' = m /\ UNCHANGED <<delivered, excused>>
        <3>1. Base' = Len(delivered) + 1
            BY <2>4 DEF Base
        <3> QED  BY <1>0, <1>8, <2>2, <2>4, <3>1 DEF InOrder
    <2> QED  BY <1>5, <2>3, <2>4 DEF m
<1>10. CASE m.stype # "data"
    <2>1. \A k \in 1..1 : ~IsHead(Whole[k])
        BY <1>10 DEF IsHead
    <2>2. Queue(Whole', sent, Base) /\ (AllOf(Whole, Base, Len(sent)) => AllOf(Whole', Base, Len(sent)))
        BY <1>1, <1>4, <1>8, <2>1, OrderTypes, QueueDrop
    <2>3. m.size = 0
        BY <1>3, <1>10 DEF IsKind
    <2> HIDE DEF m
    <2>4. Completes(m)
        BY <1>5, <2>3
    <2>5. part' = "length" /\ delivered' = delivered
        BY <1>10, <2>4, OrderCompletes
    <2>6. Base' = Base
        BY <1>7, <2>5 DEF Base
    <2> QED  BY <1>0, <1>8, <2>2, <2>5, <2>6 DEF InOrder
<1> QED  BY <1>9, <1>10

LEMMA OrderBody ==
    ASSUME Typed, Typed', FrameInv, HandInv, OrderInv, ReadBody
    PROVE  OrderInv'
<1> SUFFICES ASSUME ~lost', ~excused' PROVE InOrder'
    BY DEF OrderInv
<1> DEFINE n == Min({MaxRead, Len(wire)})
<1>0. part = "body" /\ UNCHANGED <<peer, sent>> /\ msg.stype = "data" /\ msg.size \in Nat
    BY MessageTypes DEF ReadBody, HandInv, Typed, PlaceTypes
<1>1. n \in 1..Len(wire)
    BY ReadSize DEF ReadBody, Typed, StreamTypes
<1>2. /\ wire' = SubSeq(wire, n + 1, Len(wire)) /\ lost' = (lost \/ n > left)
      /\ \/ Completes(msg)
         \/ UNCHANGED <<part, msg, coming, delivered, excused>>
    BY DEF ReadBody
<1> HIDE DEF n
<1>3. coming' = coming /\ wire' = SubSeq(wire, n + 1, Len(wire)) /\ n \in Nat
    BY <1>1, <1>2, CompletesPlace
<1>4. Dropped(Whole', Whole, n) /\ n <= Len(Whole) /\ n \in Nat
    BY ONLY <1>1, <1>3, WholeRead, Typed, Typed'
<1>5. ~excused /\ ~lost /\ ~(n > left)
    <2>1. ~excused
        BY <1>2, OrderCompletes
    <2>2. ~lost /\ ~(n > left)
        BY <1>2
    <2> QED  BY <2>1, <2>2
<1>6. left \in 1..msg.size /\ Expect(Whole, 1, msg, msg.size + 3 - left)
    BY <1>0, <1>5 DEF FrameInv, Aligned, BodyNext
<1>7. ASSUME NEW k \in 1..n PROVE ~IsHead(Whole[k])
    <2>0. k \in 1..n /\ n \in Nat /\ left \in 1..msg.size /\ msg.size \in Nat /\ ~(n > left)
        BY <1>0, <1>4, <1>5, <1>6
    <2>1. /\ k - 1 + (msg.size + 3 - left) <= msg.size + 2
          /\ k - 1 + (msg.size + 3 - left) # 1 /\ k - 1 + (msg.size + 3 - left) # 2
        BY ONLY <2>0
    <2>2. k \in 1..Len(Whole)
        BY <1>4, OrderTypes
    <2>3. Whole[k] = Byte(msg, k - 1 + (msg.size + 3 - left))
        BY <1>6, <2>1, <2>2 DEF Expect
    <2> QED  BY <2>1, <2>3 DEF Byte, Symbol, IsHead
<1>8. InOrder /\ Base = Len(delivered) + 1
    BY <1>0, <1>5 DEF OrderInv, Base
<1>9. /\ Follows(delivered, sent) /\ Queue(Whole, sent, Base)
      /\ Len(delivered) < Len(sent) /\ msg = sent[Len(delivered) + 1]
      /\ peer # "closed" => AllOf(Whole, Base, Len(sent))
    BY <1>0, <1>8 DEF InOrder
<1>10. Whole' \in Seq(Symbols)
    BY WholeIsNext
<1>11. Queue(Whole', sent, Base) /\ (AllOf(Whole, Base, Len(sent)) => AllOf(Whole', Base, Len(sent)))
    BY <1>4, <1>7, <1>9, <1>10, OrderTypes, QueueDrop
<1>12. CASE Completes(msg)
    <2>1. part' = "length" /\ delivered' = Append(delivered, sent[Len(delivered) + 1])
        BY <1>0, <1>9, <1>12, OrderCompletes
    <2>2. Follows(delivered', sent)
        BY <1>9, <2>1, OrderTypes, FollowsNext
    <2>3. msg \in Message
        BY DEF Typed, PlaceTypes
    <2>4. Len(delivered') = Len(delivered) + 1
        BY <1>9, <2>1, <2>3, OrderTypes, AppendProperties
    <2>5. Base' = Base
        BY <1>8, <2>1, <2>4 DEF Base
    <2> QED  BY <1>0, <1>9, <1>11, <2>1, <2>2, <2>5 DEF InOrder
<1>13. CASE UNCHANGED <<part, msg, coming, delivered, excused>>
    <2>1. Base' = Base
        BY <1>13 DEF Base
    <2> QED  BY <1>0, <1>9, <1>11, <1>13, <2>1 DEF InOrder
<1> QED  BY <1>2, <1>12, <1>13

LEMMA OrderPeer ==
    ASSUME Typed, Typed', OrderInv, Peer
    PROVE  OrderInv'
<1> SUFFICES ASSUME ~lost', ~excused' PROVE InOrder'
    BY DEF OrderInv
<1>0. UNCHANGED <<part, msg, delivered, lost, excused>> /\ peer # "closed"
    BY DEF Peer, PeerAnswers, PeerSends, PeerCloses, stream, history
<1>1. InOrder /\ Base' = Base
    BY <1>0 DEF OrderInv, Base
<1>2. /\ Follows(delivered, sent) /\ Queue(Whole, sent, Base) /\ AllOf(Whole, Base, Len(sent))
      /\ part = "body" => Len(delivered) < Len(sent) /\ msg = sent[Len(delivered) + 1]
    BY <1>0, <1>1 DEF InOrder
<1>3. Whole' \in Seq(Symbols)
    BY WholeIsNext
<1>4. ASSUME NEW m \in Message, m.stype # "data", Joined(Whole', Whole, m), sent' = sent
      PROVE  InOrder'
    <2>1. Queue(Whole', sent, Base) /\ AllOf(Whole', Base, Len(sent))
        BY <1>2, <1>3, <1>4, OrderTypes, QueueJoin
    <2> QED  BY <1>0, <1>1, <1>2, <1>4, <2>1 DEF InOrder
<1>5. ASSUME CutOff(Whole', Whole), peer' = "closed", sent' = sent PROVE InOrder'
    <2>1. Queue(Whole', sent, Base)
        BY <1>2, <1>3, <1>5, OrderTypes, QueueCut
    <2> QED  BY <1>0, <1>1, <1>2, <1>5, <2>1 DEF InOrder
<1>6. ASSUME NEW size \in Bodies, DataMsg(Len(sent) + 1, size) \in Message,
             Joined(Whole', Whole, DataMsg(Len(sent) + 1, size)),
             sent' = Append(sent, DataMsg(Len(sent) + 1, size))
      PROVE  InOrder'
    <2> DEFINE m == DataMsg(Len(sent) + 1, size)
    <2>1. m \in Message /\ m.stype = "data" /\ m.id = Len(sent) + 1 /\ sent' = Append(sent, m)
          /\ Joined(Whole', Whole, m)
        BY <1>6 DEF DataMsg
    <2> HIDE DEF m
    <2>2. Base <= Len(sent)
        BY <1>2, OrderTypes DEF Base, Follows
    <2>3. Queue(Whole', sent', Base) /\ AllOf(Whole', Base, Len(sent) + 1)
        BY <1>2, <1>3, <2>1, <2>2, OrderTypes, QueueSend
    <2>4. Len(sent') = Len(sent) + 1 /\ \A i \in 1..Len(sent) : sent'[i] = sent[i]
        BY <2>1, OrderTypes, AppendProperties
    <2>5. Follows(delivered, sent')
        <3>1. Len(delivered) <= Len(sent) /\ Len(delivered) <= Len(sent')
            BY <1>2, <2>4, OrderTypes DEF Follows
        <3>2. ASSUME NEW j \in 1..Len(delivered) PROVE delivered[j] = sent'[j]
            <4>1. j \in 1..Len(sent)
                BY <3>1, OrderTypes
            <4> QED  BY <1>2, <2>4, <4>1 DEF Follows
        <3> QED  BY <3>1, <3>2 DEF Follows
    <2>6. ASSUME part = "body" PROVE Len(delivered) < Len(sent') /\ msg = sent'[Len(delivered) + 1]
        <3>1. Len(delivered) + 1 \in 1..Len(sent) /\ Len(delivered) < Len(sent')
            BY <1>2, <2>4, <2>6, OrderTypes
        <3> QED  BY <1>2, <2>4, <2>6, <3>1
    <2> QED  BY <1>0, <1>1, <2>3, <2>4, <2>5, <2>6 DEF InOrder
<1>7. /\ Control("select.rsp") \in Message /\ Control("select.rsp").stype # "data"
      /\ Control("linktest.req") \in Message /\ Control("linktest.req").stype # "data"
      /\ Control("separate.req") \in Message /\ Control("separate.req").stype # "data"
    BY MessageTypes DEF Stypes, Control
<1>8. PeerAnswers \/ PeerCloses => sent' = sent
    BY DEF PeerAnswers, PeerCloses, history
<1> QED  BY <1>4, <1>5, <1>6, <1>7, <1>8, PeerWhole

LEMMA OrderSignal ==
    ASSUME OrderInv, SigAlrm
    PROVE  OrderInv'
<1>0. peer' = peer
    BY DEF SigAlrm
<1>1. CASE UNCHANGED <<stream, coming, history>>
    BY <1>0, <1>1, OrderSame DEF stream, history, Whole
<1>2. ASSUME NEW c, ReceptionFails(c), Broken, UNCHANGED <<wire, coming, delivered, excused, sent>>
      PROVE  OrderInv'
    <2>1. Whole' = Whole /\ part' = "length" /\ (~lost' => ~lost /\ part = "length")
        BY <1>2, FailsTypes DEF Whole, Broken
    <2> QED  BY <1>0, <1>2, <2>1, OrderSame
<1>3. CASE lost' = TRUE
    BY <1>3 DEF OrderInv
<1>5. CASE T6Runs /\ sent' = sent
    <2>1. Whole' = Whole /\ part' = "length" /\ (~lost' => ~lost /\ part = "length")
          /\ delivered' = delivered
        BY <1>5 DEF Whole, T6Runs, Ends, Broken
    <2>2. ~excused' => ~excused
        BY <1>5 DEF T6Runs
    <2> QED  BY <1>0, <1>5, <2>1, <2>2, OrderSame
<1>6. CASE T8Branch /\ sent' = sent
    BY <1>2, <1>6 DEF T8Branch
<1>7. CASE T8Caller /\ sent' = sent
    BY <1>2, <1>3, <1>7 DEF T8Caller
<1> QED  BY <1>1, <1>5, <1>6, <1>7 DEF SigAlrm

LEMMA OrderStep ==
    ASSUME Typed, Typed', FrameInv, HandInv, OrderInv, [Next]_vars
    PROVE  OrderInv'
<1>1. CASE ReadLength \/ ReadHeader \/ ReadBody
    BY <1>1, OrderLength, OrderHeader, OrderBody
<1>4. CASE Hangup
    <2>1. Whole' = Whole /\ UNCHANGED <<peer, excused, sent, delivered>>
          /\ (~lost' => ~lost /\ part = "length")
        BY <1>4 DEF Whole, Hangup, Broken
    <2>2. part' = "length"
        BY <1>4, FailsTypes DEF Hangup
    <2> QED  BY <2>1, <2>2, OrderSame
<1>5. CASE SigAlrm
    BY <1>5, OrderSignal
<1>6. CASE Tick \/ EnterLoop \/ Stopped \/ UNCHANGED vars
    <2>1. Whole' = Whole /\ UNCHANGED <<part, msg, lost, excused, peer, sent, delivered>>
        BY <1>6 DEF Tick, EnterLoop, Stopped, vars, stream, history, Whole
    <2> QED  BY <2>1, OrderSame
<1>7. CASE client_connect \/ recv_hsms
    <2>1. Whole' = Whole /\ UNCHANGED <<peer, lost, excused, sent, delivered>> /\ part = "length"
        BY <1>7 DEF client_connect, recv_hsms, Whole, history, FrameInv, Stream, Resting
    <2>2. part' = "length"
        BY <1>7, <2>1 DEF client_connect, recv_hsms, Begins
    <2> QED  BY <2>1, <2>2, OrderSame
<1>8. CASE Reconnect
    <2>1. Len(Whole') = 0
        <3>1. Len(wire') = 0 /\ Len(coming') = 0
            BY <1>8 DEF Reconnect
        <3> QED  BY <3>1, WholeIsNext
    <2>2. part' = "length" /\ Len(sent') = 0 /\ Len(delivered') = 0
        BY <1>8 DEF Reconnect, FrameInv, Stream, Resting
    <2> QED  BY <2>1, <2>2 DEF OrderInv, InOrder, Base, Follows, Queue, Known, Rising, NoGap, AllOf
<1>9. CASE Peer
    BY <1>9, OrderPeer
<1>10. CASE Arrive
    <2>1. Whole' = Whole /\ UNCHANGED <<part, msg, lost, excused, peer, sent, delivered>>
        BY <1>10, ArriveWhole DEF Arrive, history
    <2> QED  BY <2>1, OrderSame
<1> QED  BY <1>1, <1>4, <1>5, <1>6, <1>7, <1>8, <1>9, <1>10 DEF Next, Receive

LEMMA OrderKept == Spec => [](Typed /\ FrameInv /\ OrderInv)
<1>1. ASSUME Init PROVE OrderInv
    <2>1. Len(Whole) = 0
        <3>1. Len(wire) = 0 /\ Len(coming) = 0
            BY <1>1 DEF Init
        <3> QED  BY <1>1, <3>1, InitTyped, WholeIs
    <2>2. part = "length" /\ Len(sent) = 0 /\ Len(delivered) = 0
        BY <1>1 DEF Init
    <2> QED  BY <2>1, <2>2 DEF OrderInv, InOrder, Base, Follows, Queue, Known, Rising, NoGap, AllOf
<1>2. Typed /\ Typed' /\ FrameInv /\ HandInv /\ OrderInv /\ [Next]_vars => OrderInv'
    BY OrderStep
<1> QED  BY <1>1, <1>2, HandKept, PTL DEF Spec

LEMMA FollowsIsPrefix ==
    ASSUME NEW d \in Seq(Message), NEW s \in Seq(Message), Follows(d, s)
    PROVE  IsPrefix(d, s)
<1>0. Len(d) \in Nat /\ Len(s) \in Nat /\ Len(d) <= Len(s)
    BY DEF Follows
<1>1. \A j \in 1..Len(d) : d[j] \in Message /\ s[j] \in Message /\ d[j] = s[j]
    BY <1>0 DEF Follows
<1>2. /\ SubSeq(d, 1, Len(d)) \in Seq(Message)
      /\ Len(SubSeq(d, 1, Len(d))) = IF 1 <= Len(d) THEN Len(d) - 1 + 1 ELSE 0
      /\ \A j \in 1..(Len(d) - 1 + 1) : SubSeq(d, 1, Len(d))[j] = d[1 + j - 1]
    BY <1>0, <1>1, SubSeqProperties
<1>3. /\ SubSeq(s, 1, Len(d)) \in Seq(Message)
      /\ Len(SubSeq(s, 1, Len(d))) = IF 1 <= Len(d) THEN Len(d) - 1 + 1 ELSE 0
      /\ \A j \in 1..(Len(d) - 1 + 1) : SubSeq(s, 1, Len(d))[j] = s[1 + j - 1]
    BY <1>0, <1>1, SubSeqProperties
<1>4. ASSUME NEW j \in 1..Len(d)
      PROVE  SubSeq(d, 1, Len(d))[j] = SubSeq(s, 1, Len(d))[j]
    <2>1. j \in 1..(Len(d) - 1 + 1) /\ 1 + j - 1 = j
        BY <1>0
    <2> QED  BY <1>1, <1>2, <1>3, <2>1
<1>5. Len(SubSeq(d, 1, Len(d))) = Len(d) /\ Len(SubSeq(s, 1, Len(d))) = Len(d)
    BY <1>0, <1>2, <1>3
<1>6. SubSeq(d, 1, Len(d)) = SubSeq(s, 1, Len(d))
    BY <1>2, <1>3, <1>4, <1>5, SeqEqual
<1> QED  BY <1>0, <1>6 DEF IsPrefix

\* MessagesFramed: however the network cuts the stream and the timers run out,
\* recv_hsms() hands the program the data messages of a connection whole, once
\* each and in order, and none is left out when the stream is read.
THEOREM MessagesFramed == Spec => []Framed
<1>1. ASSUME Typed, FrameInv, OrderInv PROVE Framed
    <2>1. loc = "garbled" => lost
        BY <1>1 DEF FrameInv, Aligned
    <2>2. ASSUME ~lost, ~excused
          PROVE  /\ IsPrefix(delivered, sent)
                 /\ loc = "select" /\ wire \o coming = <<>> /\ peer = "selected" => delivered = sent
        <3>1. InOrder
            BY <1>1, <2>2 DEF OrderInv
        <3>2. Follows(delivered, sent)
            BY <3>1 DEF InOrder
        <3>3. IsPrefix(delivered, sent)
            BY <1>1, <3>2, OrderTypes, FollowsIsPrefix
        <3>4. ASSUME loc = "select", wire \o coming = <<>>, peer = "selected" PROVE delivered = sent
            <4>1. part = "length"
                BY <1>1, <3>4 DEF FrameInv, Stream, Resting
            <4>2. AllOf(Whole, Len(delivered), Len(sent))
                BY <3>1, <3>4, <4>1 DEF InOrder, Base
            <4>3. Len(Whole) = 0
                BY <3>4 DEF Whole
            <4>4. \A i \in (Len(delivered) + 1)..Len(sent) : FALSE
                BY <4>2, <4>3 DEF AllOf, HasHead
            <4>5. Len(delivered) = Len(sent)
                BY <1>1, <3>2, <4>4, OrderTypes DEF Follows
            <4> QED  BY <1>1, <3>2, <4>5, OrderTypes, SeqEqual DEF Follows
        <3> QED  BY <3>3, <3>4
    <2> QED  BY <2>1, <2>2 DEF Framed
<1> QED  BY <1>1, OrderKept, PTL
=============================================================================
