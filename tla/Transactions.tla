---------------------------- MODULE Transactions ----------------------------
(***************************************************************************)
(* User timers (timers.c), the table of open SECS transactions (secs.c)    *)
(* and the server loop that drives both (server.c).                        *)
(*                                                                         *)
(* sc is one thread.  It waits in select(); a message from a peer or an    *)
(* expired timer makes it run the program from some place until the        *)
(* program ends or sends a primary message with the wait bit.  Such a send *)
(* starts a T3 timer, records the transaction in the table and suspends    *)
(* the program at that place; the reply, or the T3 timer, resumes it.      *)
(* While a SECS-I send is under way the peer may win the line: then its    *)
(* message is received, and the program run for it, inside the send.       *)
(*                                                                         *)
(* Time is in whole seconds, as time(NULL) gives it.                       *)
(***************************************************************************)
EXTENDS Integers, FiniteSetsExt

CONSTANTS
    MAX_TIMERS,           \* timers.c:35, 50 in the code
    FirstDynamic,         \* timers.c:232, 10: lower slots are for the program
    MAX_OPEN_TRANS_TABLE, \* secs.c:33, 50 in the code
    MAX_WAIT,             \* timers.c:371, five minutes
    T3,                   \* the t3= option of the connection, in seconds
    Seconds,              \* values of seconds= and of sleep in the program
    StartIds,             \* values of timer= in start_timer statements
    StopIds,              \* values of timer= in stop_timer statements
    LateReplies,          \* may a peer reply late, twice or unasked?
    JumpOutcomes,         \* where a SIGALRM in select() may come back
    SBModulus,            \* number of values of a system bytes word, 2^32
    MaxSends,             \* bound: primaries sent
    MaxReplies,           \* bound: replies accepted for one system bytes
    MaxNest,              \* bound: sends under way at once (contention inside contention)
    MaxTime               \* bound: last second

ASSUME SizesAssumption ==
    /\ MAX_TIMERS \in Nat /\ FirstDynamic \in Nat
    /\ 0 < FirstDynamic /\ FirstDynamic <= MAX_TIMERS
    /\ MAX_OPEN_TRANS_TABLE \in Nat
    /\ MAX_WAIT \in Nat \ {0}
    /\ T3 \in Nat
    /\ Seconds \subseteq Nat
    /\ StartIds \subseteq 0..(FirstDynamic - 1)
    /\ StopIds \subseteq 0..(MAX_TIMERS - 1)

ASSUME EnvironmentAssumption ==
    /\ LateReplies \in BOOLEAN
    /\ JumpOutcomes \subseteq {"branch", "caller"}

ASSUME BoundsAssumption ==
    /\ MaxTime \in Nat \ {0} /\ MaxReplies \in Nat /\ MaxNest \in Nat
    /\ SBModulus \in Nat /\ MaxSends \in Nat /\ MaxSends < SBModulus

Slots   == 0..(MAX_TIMERS - 1)
Dynamic == FirstDynamic..(MAX_TIMERS - 1)
Entries == 0..(MAX_OPEN_TRANS_TABLE - 1)
Sends   == 1..MaxSends

(***************************************************************************)
(* The place where the program resumes (program_idx): behind the send that *)
(* used system bytes id, at the handler label of program timer id, or      *)
(* behind a sleep.                                                         *)
(***************************************************************************)
T3Place(s)   == [kind |-> "T3", id |-> s]
UserPlace(k) == [kind |-> "user", id |-> k]
SleepPlace   == [kind |-> "sleep", id |-> 0]
Places == [kind : {"T3", "user", "sleep"}, id : Nat]

Timer == [active : BOOLEAN, end : Nat, program_idx : Places]
Entry == [active : BOOLEAN, system_bytes : Nat, timer_idx : Slots,
          end_time : Nat]

VARIABLES
    now,            \* time(NULL)
    timers,         \* timers.c:40
    table,          \* open_trans_table, secs.c:39; the program_idx of an
                    \* entry is T3Place of its system bytes
    system_bytes,   \* secs.c:36, last value handed out
    timeout_value,  \* server.c:64, what alarm() is armed with next
    alarm,          \* second at which SIGALRM is due, 0 when none is
    pc,             \* where the process is
    caller,         \* where the server loop called execute()
    sending,        \* system bytes of the sends under way: the innermost
                    \* one has the largest
    opened,         \* history: system bytes of the sends that suspended
    replies,        \* history: how often a reply resumed each send
    timeouts        \* history: how often its T3 timer resumed each send

tables == <<timers, table, system_bytes, timeout_value>>
history == <<opened, replies, timeouts>>
vars == <<now, timers, table, system_bytes, timeout_value, alarm, pc, caller,
          sending, opened, replies, timeouts>>

(***************************************************************************)
(* exec     the program runs          select   waiting in select()         *)
(* send     in the innermost send     scan     serving the ready fds       *)
(* top      timer_handler() at the    blocked  serving fds although none   *)
(*          top of the server loop             is ready                    *)
(* alarm    timer_handler() after     dead     the process has exited      *)
(*          SIGALRM                                                        *)
(***************************************************************************)
Locations == {"exec", "send", "top", "alarm", "select", "scan", "blocked",
              "dead"}
Callers == {"main", "top", "alarm", "scan"}

\* TypeOK: the variables have the values the C declarations allow, within
\* the bounds.
TypeOK ==
    /\ now \in Nat
    /\ timers \in [Slots -> Timer]
    /\ table \in [Entries -> Entry]
    /\ system_bytes \in 0..MaxSends
    /\ timeout_value \in 0..MAX_WAIT
    /\ alarm \in Nat
    /\ pc \in Locations
    /\ caller \in Callers
    /\ sending \subseteq Sends
    /\ opened \subseteq Sends
    /\ replies \in [0..MaxSends -> Nat]
    /\ timeouts \in [Sends -> Nat]

-----------------------------------------------------------------------------
(* What the helpers of timers.c and secs.c compute. *)

Least(S) == {x \in S : \A y \in S : x <= y}

Active(tm) == {i \in Slots : tm[i].active}

\* Mutants of Wait: an overdue timer is not rounded up to a second
Wait_Raw(tm, t, i) == tm[i].end - t
Wait_Zero(tm, t, i) == IF tm[i].end - t <= 0 THEN 0 ELSE tm[i].end - t

\* calc_min_time(): seconds until the next timer is due, 0 when none runs
Wait(tm, t, i) == IF tm[i].end - t <= 0 THEN 1 ELSE tm[i].end - t

calc_min_time(tm, t) ==
    IF Active(tm) = {} THEN 0
    ELSE Min({MAX_WAIT} \cup {Wait(tm, t, i) : i \in Active(tm)})

\* Mutant of TimerSlot: a slot in use is taken again
TimerSlot_InUse(id) ==
    IF id = 0 THEN {0} ELSE Least(Dynamic)

\* The slot start_timer() takes, if there is one.  Only id 0 gets the slot it
\* names: every other id takes the first free dynamic slot, as -1 does.
TimerSlot(id) ==
    IF id = 0 THEN {0} ELSE Least({i \in Dynamic : ~timers[i].active})

\* Mutant of Started: the timer is not marked active
Started_Inactive(i, seconds, place) ==
    [timers EXCEPT ![i] = [active |-> @.active, end |-> now + seconds,
                           program_idx |-> place]]

Started(i, seconds, place) ==
    [timers EXCEPT ![i] = [active |-> TRUE, end |-> now + seconds,
                           program_idx |-> place]]

Stopped(i) == [timers EXCEPT ![i].active = FALSE]

\* Mutant of NextSystemBytes: the same system bytes again
NextSystemBytes_Same == IF system_bytes = 0 THEN 1 ELSE system_bytes

\* secs_inc_system_bytes()
NextSystemBytes ==
    IF system_bytes = 0 THEN 1 ELSE (system_bytes + 1) % SBModulus

\* First loop of open_trans_table_add(): entries past their end are freed
CleanedUp(t) ==
    [e \in Entries |-> [table[e] EXCEPT !.active = @ /\ table[e].end_time >= t]]

\* The timer timer_handler() picks: the most overdue one, the last of equals
Expired == {i \in Active(timers) : now >= timers[i].end}

MostOverdue ==
    {i \in Expired : \A j \in Expired :
        \/ timers[i].end < timers[j].end
        \/ timers[i].end = timers[j].end /\ j <= i}

\* The entry open_trans_table_del() finds: the first with these system bytes,
\* whether or not it is active
Found(s) == Least({e \in Entries : table[e].system_bytes = s})

Innermost == {s \in sending : \A r \in sending : r <= s}

-----------------------------------------------------------------------------
(* Control: how a run of the program starts and ends. *)

Init ==
    /\ now = 1
    /\ timers = [i \in Slots |->
          [active |-> FALSE, end |-> 0, program_idx |-> SleepPlace]]
    /\ table = [e \in Entries |->
          [active |-> FALSE, system_bytes |-> 0, timer_idx |-> 0,
           end_time |-> 0]]
    /\ system_bytes = 0 /\ timeout_value = 0 /\ alarm = 0
    /\ pc = "exec" /\ caller = "main" /\ sending = {}
    /\ opened = {}
    /\ replies = [s \in 0..MaxSends |-> 0]
    /\ timeouts = [s \in Sends |-> 0]

\* Mutant of AfterTimers: the timeout is not computed anew
AfterTimers_Stale(place, tm) ==
    /\ timeout_value' = timeout_value
    /\ \/ /\ place = "top" /\ pc' = "select"
          /\ IF timeout_value' = 0 THEN alarm' = 0
             ELSE alarm' \in {now + timeout_value', now + timeout_value' + 1}
       \/ place = "alarm" /\ pc' = "top" /\ alarm' = alarm

\* timer_handler() ends by computing the timeout; at the top of the loop
\* alarm() and select() follow.  The clock may move on before alarm().
AfterTimers(place, tm) ==
    /\ timeout_value' = calc_min_time(tm, now)
    /\ \/ /\ place = "top" /\ pc' = "select"
          /\ IF timeout_value' = 0 THEN alarm' = 0
             ELSE alarm' \in {now + timeout_value', now + timeout_value' + 1}
       \/ place = "alarm" /\ pc' = "top" /\ alarm' = alarm

\* execute() returns.  A run inside a send goes back to that send, any other
\* to the place in the server loop that started it.
Returns(tm, outer, tv) ==
    \/ /\ outer # {} /\ pc' = "send"
       /\ timeout_value' = tv /\ alarm' = alarm
    \/ /\ outer = {} /\ caller \in {"main", "scan"}
       /\ pc' = IF caller = "main" THEN "top" ELSE "scan"
       /\ timeout_value' = tv /\ alarm' = alarm
    \/ /\ outer = {} /\ caller \in {"top", "alarm"}
       /\ AfterTimers(caller, tm)

\* FATAL(): the process exits
Fatal ==
    /\ pc' = "dead"
    /\ UNCHANGED <<now, tables, alarm, caller, sending, history>>

-----------------------------------------------------------------------------
(* Statements of the program. *)

\* The program ends, stops at a label or fails: execute() returns
EndRun ==
    /\ pc = "exec"
    /\ Returns(timers, sending, timeout_value)
    /\ UNCHANGED <<now, timers, table, system_bytes, caller, sending, history>>

\* start_timer timer=k seconds=n handler=label
StartTimer(k, n) ==
    /\ pc = "exec"
    /\ \/ TimerSlot(k) = {} /\ Fatal
       \/ \E i \in TimerSlot(k) :
            /\ timers' = Started(i, n, UserPlace(k))
            /\ timeout_value' = calc_min_time(timers', now)
            /\ UNCHANGED <<now, table, system_bytes, alarm, pc, caller,
                           sending, history>>

\* stop_timer timer=k: the timeout is not computed anew
StopTimer(k) ==
    /\ pc = "exec"
    /\ timers' = Stopped(k)
    /\ UNCHANGED <<now, table, system_bytes, timeout_value, alarm, pc, caller,
                   sending, history>>

\* sleep n under #pragma NO_BLOCK_ON_SLEEP suspends the program on a timer
Sleep(n) ==
    /\ pc = "exec"
    /\ \/ TimerSlot(-1) = {} /\ Fatal
       \/ \E i \in TimerSlot(-1) :
            /\ timers' = Started(i, n, SleepPlace)
            /\ Returns(timers', sending, calc_min_time(timers', now))
            /\ UNCHANGED <<now, table, system_bytes, caller, sending, history>>

\* send: system bytes are handed out, then the message goes on the line
SendBegin ==
    /\ pc = "exec"
    /\ system_bytes < MaxSends /\ Cardinality(sending) < MaxNest
    /\ system_bytes' = NextSystemBytes
    /\ sending' = sending \cup {NextSystemBytes}
    /\ pc' = "send"
    /\ UNCHANGED <<now, timers, table, timeout_value, alarm, caller, history>>

\* The message has no wait bit, or could not be sent: the program goes on
\* (or takes its error path)
SendEnd ==
    /\ pc = "send"
    /\ sending' = sending \ Innermost
    /\ pc' = "exec"
    /\ UNCHANGED <<now, tables, alarm, caller, history>>

\* The message is sent and has the wait bit: start_timer() takes slot i, then
\* open_trans_table_add(), whose time() t may already be a second later, frees
\* what is past its end and takes entry e; the program is suspended
FreeEntry(t) == Least({e \in Entries : ~CleanedUp(t)[e].active})

Suspended(s, i, t, e) ==
    /\ i \in TimerSlot(-1) /\ t \in {now, now + 1} /\ e \in FreeEntry(t)
    /\ timers' = Started(i, T3, T3Place(s))
    /\ table' = [CleanedUp(t) EXCEPT ![e] =
          [active |-> TRUE, system_bytes |-> s, timer_idx |-> i,
           end_time |-> t + T3]]
    /\ opened' = opened \cup {s}
    /\ sending' = sending \ {s}
    /\ Returns(timers', sending', calc_min_time(timers', now))
    /\ UNCHANGED <<now, system_bytes, caller, replies, timeouts>>

SendWait(s) ==
    /\ pc = "send" /\ s \in Innermost
    /\ \/ TimerSlot(-1) = {} /\ Fatal
       \/ \E t \in {now, now + 1} : FreeEntry(t) = {} /\ Fatal
       \/ \E i \in Slots, t \in {now, now + 1}, e \in Entries :
            Suspended(s, i, t, e)

-----------------------------------------------------------------------------
(* The server loop. *)

Resume(from) ==
    pc' = "exec" /\ caller' = from /\ sending' = sending

\* Mutant of TimedOut: the timer stays active
TimedOut_StillActive(i) ==
    /\ timers' = timers
    /\ timeouts' = [s \in Sends |->
          IF timers[i].program_idx = T3Place(s) THEN timeouts[s] + 1
          ELSE timeouts[s]]
    /\ Resume(pc)
    /\ UNCHANGED <<timeout_value, alarm>>

\* timer_handler(): runs the program for at most one expired timer
TimedOut(i) ==
    /\ timers' = Stopped(i)
    /\ timeouts' = [s \in Sends |->
          IF timers[i].program_idx = T3Place(s) THEN timeouts[s] + 1
          ELSE timeouts[s]]
    /\ Resume(pc)
    /\ UNCHANGED <<timeout_value, alarm>>

timer_handler ==
    /\ pc \in {"top", "alarm"}
    /\ \/ /\ Expired = {}
          /\ AfterTimers(pc, timers)
          /\ UNCHANGED <<timers, caller, sending, timeouts>>
       \/ \E i \in MostOverdue : TimedOut(i)
    /\ UNCHANGED <<now, table, system_bytes, opened, replies>>

\* select() returns because an fd is ready
SelectReturns ==
    /\ pc = "select"
    /\ alarm' = 0
    /\ pc' = "scan"
    /\ UNCHANGED <<now, tables, caller, sending, history>>

\* A signal handler jumps out of select().  The jump buffer belongs to a
\* function that has returned (do_the_setsigjump).  "branch": control comes
\* back there and the loop takes the branch for the signal.  "caller": it
\* looks as if select() had returned 1 with every watched fd ready; unless
\* no fd is watched, serving the first one blocks.
JumpTo(branch) ==
    \/ "branch" \in JumpOutcomes /\ pc' = branch
    \/ "caller" \in JumpOutcomes /\ pc' \in {"scan", "blocked"}

AlarmFires ==
    /\ pc = "select" /\ alarm # 0 /\ now >= alarm
    /\ alarm' = 0
    /\ JumpTo("alarm")
    /\ UNCHANGED <<now, tables, caller, sending, history>>

\* SIGUSR1 while in select(); user_sigusr1_handler() is a stub
SigUsr1 ==
    /\ pc = "select"
    /\ alarm' = 0
    /\ JumpTo("top")
    /\ UNCHANGED <<now, tables, caller, sending, history>>

\* A blocked accept() or read() returns: a peer connects or sends
Unblock ==
    /\ pc = "blocked"
    /\ pc' = "scan"
    /\ UNCHANGED <<now, tables, alarm, caller, sending, history>>

\* Every fd has been looked at
EndScan ==
    /\ pc = "scan"
    /\ pc' = "top"
    /\ UNCHANGED <<now, tables, alarm, caller, sending, history>>

\* A message is received from a ready fd, or from the peer that won the line
Receiving == pc \in {"scan", "send"}

Received == Resume(IF pc = "scan" THEN "scan" ELSE caller)

\* A primary message: the program runs from the label of the connection
PrimaryArrives ==
    /\ Receiving
    /\ Received
    /\ UNCHANGED <<now, tables, alarm, history>>

Waiting(s) == s \in opened /\ replies[s] = 0 /\ timeouts[s] = 0

PeerMayReply(s) ==
    /\ replies[s] < MaxReplies
    /\ LateReplies \/ (s \in Sends /\ Waiting(s))

\* Mutant of Accepted: the T3 timer is not cancelled
Accepted_NoCancel(s, e) ==
    /\ now <= table[e].end_time
    /\ table' = [table EXCEPT ![e].active = FALSE]
    /\ timers' = timers
    /\ replies' = [replies EXCEPT ![s] = @ + 1]
    /\ Received

\* A secondary message: open_trans_table_del() discards it or resumes the send
Accepted(s, e) ==
    /\ now <= table[e].end_time
    /\ table' = [table EXCEPT ![e].active = FALSE]
    /\ timers' = Stopped(table[e].timer_idx)
    /\ replies' = [replies EXCEPT ![s] = @ + 1]
    /\ Received

ReplyArrives(s) ==
    /\ Receiving /\ PeerMayReply(s)
    /\ \/ /\ \A e \in Found(s) : now > table[e].end_time
          /\ UNCHANGED <<timers, table, pc, caller, sending, replies>>
       \/ \E e \in Found(s) : Accepted(s, e)
    /\ UNCHANGED <<now, system_bytes, timeout_value, alarm, opened, timeouts>>

Tick ==
    /\ pc # "dead" /\ now < MaxTime
    /\ now' = now + 1
    /\ UNCHANGED <<tables, alarm, pc, caller, sending, history>>

Terminated == pc = "dead" /\ UNCHANGED vars

Program ==
    \/ EndRun
    \/ \E k \in StartIds, n \in Seconds : StartTimer(k, n)
    \/ \E k \in StopIds : StopTimer(k)
    \/ \E n \in Seconds : Sleep(n)
    \/ SendBegin
    \/ SendEnd
    \/ \E s \in Sends : SendWait(s)

Next ==
    \/ Program
    \/ timer_handler
    \/ SelectReturns
    \/ AlarmFires
    \/ SigUsr1
    \/ Unblock
    \/ EndScan
    \/ PrimaryArrives
    \/ \E s \in 0..MaxSends : ReplyArrives(s)
    \/ Tick
    \/ Terminated

Spec == Init /\ [][Next]_vars
-----------------------------------------------------------------------------
(* Safety. *)

\* The timers that would resume the program behind send s with a timeout
T3Timers(s) == {i \in Active(timers) : timers[i].program_idx = T3Place(s)}

\* T3OnlyWhileWaiting: timer_handler() resumes a send with a T3 timeout only
\* while that send waits: never after its reply was accepted and never twice,
\* however late, duplicated or unasked replies are and whatever slots the
\* program starts and stops (open_trans_table_del() stops the right timer).
T3OnlyWhileWaiting ==
    [][\A s \in Sends : timeouts'[s] # timeouts[s] => Waiting(s)]_vars

\* The parts of the invariant behind it.  A T3 timer runs only for a send that
\* waits, in one slot, and that slot is the timer_idx of every entry of the
\* table, active or not, that carries the system bytes of the send.
T3TimersWait ==
    \A s \in Sends, i \in Slots : i \in T3Timers(s) => Waiting(s)

T3TimersUnique ==
    \A s \in Sends, i, j \in Slots :
        i \in T3Timers(s) /\ j \in T3Timers(s) => i = j

T3TimersLinked ==
    \A s \in Sends, i \in Slots, e \in Entries :
        i \in T3Timers(s) /\ table[e].system_bytes = s
            => table[e].timer_idx = i

\* System bytes are handed out once: those of a send under way are new, and
\* nothing is known of system bytes that no suspended send used.
SystemBytesFresh ==
    /\ \A s \in opened \cup sending : s <= system_bytes
    /\ \A s \in sending : s \notin opened
    /\ \A s \in Sends : s \notin opened => replies[s] = 0 /\ timeouts[s] = 0
    /\ \A e \in Entries : table[e].system_bytes \in {0} \cup opened

\* TransactionInv: the timers and the table agree on which send each T3 timer
\* belongs to, also through stale entries that open_trans_table_del() finds.
TransactionInv ==
    T3TimersWait /\ T3TimersUnique /\ T3TimersLinked /\ SystemBytesFresh

\* WakeupArmed: whenever sc waits in select() and a timer runs, a SIGALRM is
\* pending, and it comes no later than a second after that timer's end or,
\* for a timer already overdue, within two seconds.
WakeupArmed ==
    pc = "select" => \A i \in Active(timers) :
        /\ alarm # 0
        /\ alarm <= 1 + (IF timers[i].end > now THEN timers[i].end ELSE now + 1)

\* WaitingHasTimer: with peers that answer each primary at most once and in
\* time, and a program that stops only its own timers, a suspended send always
\* has exactly one T3 timer left to resume it: no stale timer_idx of the
\* transaction table ever stops the timer of another send.
WaitingHasTimer ==
    \A s \in Sends : Waiting(s) => \E i \in Slots : T3Timers(s) = {i}

-----------------------------------------------------------------------------
(* Refinement: a send is resumed once, by its reply or by its timeout. *)

Outcome(byReply, byTimeout) ==
    CASE byReply = 0 /\ byTimeout = 0 -> "waiting"
      [] byReply = 1 /\ byTimeout = 0 -> "replied"
      [] byReply = 0 /\ byTimeout = 1 -> "timed out"
      [] OTHER                        -> "resumed twice"

Status(s) ==
    IF s \in opened THEN Outcome(replies[s], timeouts[s]) ELSE "unsent"

Promise == INSTANCE OpenTransactions WITH status <- [s \in Sends |-> Status(s)]

\* ResumedOnce: with peers that answer at most once and in time, and a program
\* that stops only its own timers, the timers, the table and the server loop
\* implement OpenTransactions.
ResumedOnce == Promise!Spec

-----------------------------------------------------------------------------
(* Liveness.  The loop itself never stops, a run of the program ends (the   *)
(* program does not loop for ever), a scan looks at finitely many fds, a    *)
(* send does not lose the line for ever, and time passes.                   *)

Fairness ==
    /\ WF_vars(timer_handler)
    /\ WF_vars(AlarmFires)
    /\ SF_vars(EndScan)
    /\ WF_vars(EndRun)
    /\ SF_vars(SendEnd)
    /\ WF_vars(Tick)

FairSpec == Spec /\ Fairness

\* The clock stops at MaxTime: what is due later is out of sight
BeyondBound == pc = "select" /\ alarm > MaxTime

\* OverdueTimersFire: a timer that is due is eventually handled or stopped,
\* even when other timers and messages keep coming (timer_handler() serves
\* one timer per turn of the loop).
OverdueTimersFire ==
    \A i \in Slots :
        i \in Expired ~> (i \notin Expired \/ pc = "dead" \/ BeyondBound)

\* SendsResume: a send that suspended the program is eventually resumed, by
\* its reply or by its T3 timer.
SendsResume ==
    \A s \in Sends :
        Waiting(s) ~> (~Waiting(s) \/ pc = "dead" \/ BeyondBound)

-----------------------------------------------------------------------------
(* What comments and documents say and the code does not do. *)

\* ReplyOnlyWhileWaiting: a reply resumes the program only for a primary that
\* is waiting for it; other replies are discarded.
ReplyOnlyWhileWaiting ==
    [][\A s \in Sends : replies'[s] # replies[s] => Waiting(s)]_vars

\* StopTimerStops: when the program runs stop_timer timer=k, no timer that
\* start_timer timer=k started stays running.
StopTimerStops ==
    pc = "exec" => \A k \in StopIds :
        ~\E i \in Active(Stopped(k)) : timers[i].program_idx = UserPlace(k)
=============================================================================
