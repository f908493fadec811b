------------------------- MODULE TransactionsProofs -------------------------
(***************************************************************************)
(* Theorems about Transactions, for every size of the tables, every T3,    *)
(* every program and every peer.                                           *)
(***************************************************************************)
EXTENDS Transactions, WellFoundedInduction, TLAPS

-----------------------------------------------------------------------------
(* The helpers. *)

\* A nonempty set of naturals has a least element, which Min returns
LEMMA MinNat ==
    ASSUME NEW S \in SUBSET Nat, S # {}
    PROVE  Min(S) \in S /\ \A y \in S : Min(S) <= y
<1> DEFINE R == {p \in Nat \X Nat : p[1] < p[2]}
<1>1. IsWellFoundedOn(R, Nat)
  BY NatLessThanWellFounded DEF OpToRel
<1> HIDE DEF R
<1>2. PICK x \in S : \A y \in S : ~(<<y, x>> \in R)
  BY <1>1, WFMin
<1>3. \A y \in S : x <= y
  <2> SUFFICES ASSUME NEW y \in S, y < x PROVE FALSE
    OBVIOUS
  <2>1. <<y, x>> \in R
    BY DEF R
  <2> QED BY <1>2, <2>1
<1> QED
  BY <1>3 DEF Min

\* calc_min_time() stays between 0 and five minutes, and is positive and no
\* later than any running timer needs when one runs
LEMMA MinTimeBounds ==
    ASSUME NEW tm \in [Slots -> Timer], NEW t \in Nat
    PROVE  /\ calc_min_time(tm, t) \in 0..MAX_WAIT
           /\ \A i \in Active(tm) : /\ calc_min_time(tm, t) # 0
                                    /\ calc_min_time(tm, t) <= Wait(tm, t, i)
<1> DEFINE W == {MAX_WAIT} \cup {Wait(tm, t, i) : i \in Active(tm)}
<1>1. \A i \in Active(tm) : tm[i].end \in Nat
  BY DEF Active, Timer
<1>2. \A i \in Active(tm) : Wait(tm, t, i) \in Nat \ {0}
  BY <1>1 DEF Wait
<1>3. W \in SUBSET (Nat \ {0})
  BY <1>2, SizesAssumption
<1>4. Min(W) \in W /\ \A y \in W : Min(W) <= y
  BY <1>3, MinNat
<1>5. calc_min_time(tm, t) = IF Active(tm) = {} THEN 0 ELSE Min(W)
  BY DEF calc_min_time
<1> HIDE DEF W
<1>6. MAX_WAIT \in W /\ \A i \in Active(tm) : Wait(tm, t, i) \in W
  BY DEF W
<1>7. Min(W) \in Nat \ {0} /\ Min(W) <= MAX_WAIT
  BY <1>3, <1>4, <1>6
<1>8. CASE Active(tm) = {}
  BY <1>5, <1>8, SizesAssumption
<1>9. CASE Active(tm) # {}
  <2>1. calc_min_time(tm, t) = Min(W)
    BY <1>5, <1>9
  <2>2. \A i \in Active(tm) : Min(W) <= Wait(tm, t, i)
    BY <1>4, <1>6
  <2>3. calc_min_time(tm, t) \in 0..MAX_WAIT /\ calc_min_time(tm, t) # 0
    BY <1>7, <2>1, SizesAssumption
  <2> QED
    BY <2>1, <2>2, <2>3
<1> QED
  BY <1>8, <1>9

\* secs_inc_system_bytes() adds one while the word does not wrap
LEMMA NextIsFresh ==
    ASSUME TypeOK, system_bytes < MaxSends
    PROVE  NextSystemBytes = system_bytes + 1 /\ NextSystemBytes \in Sends
<1>1. system_bytes + 1 \in 0..(SBModulus - 1)
  BY BoundsAssumption DEF TypeOK
<1>2. (system_bytes + 1) % SBModulus = system_bytes + 1
  BY <1>1, BoundsAssumption
<1> QED
  BY <1>2, BoundsAssumption DEF NextSystemBytes, TypeOK, Sends

-----------------------------------------------------------------------------
(* Types. *)

\* AfterTimers and Returns leave the loop's variables well typed
LEMMA AfterTimersType ==
    ASSUME now \in Nat, alarm \in Nat, NEW tm \in [Slots -> Timer], NEW place,
           AfterTimers(place, tm)
    PROVE  timeout_value' \in 0..MAX_WAIT /\ alarm' \in Nat /\ pc' \in Locations
<1>1. timeout_value' \in 0..MAX_WAIT
  BY MinTimeBounds DEF AfterTimers
<1>2. timeout_value' \in Nat
  BY <1>1, SizesAssumption
<1> QED
  BY <1>1, <1>2 DEF AfterTimers, Locations

LEMMA ReturnsType ==
    ASSUME TypeOK, NEW tm \in [Slots -> Timer], NEW outer,
           NEW tv \in 0..MAX_WAIT, Returns(tm, outer, tv)
    PROVE  timeout_value' \in 0..MAX_WAIT /\ alarm' \in Nat /\ pc' \in Locations
BY AfterTimersType DEF Returns, TypeOK, Locations

\* start_timer() and stop_timer() keep the timer table well typed
LEMMA TimerTableType ==
    ASSUME TypeOK, NEW i \in Slots
    PROVE  /\ Stopped(i) \in [Slots -> Timer]
           /\ \A n \in Nat, p \in Places : Started(i, n, p) \in [Slots -> Timer]
<1>1. \A j \in Slots : Stopped(i)[j] \in Timer
  BY DEF TypeOK, Stopped, Timer
<1>2. ASSUME NEW n \in Nat, NEW p \in Places
      PROVE  Started(i, n, p) \in [Slots -> Timer]
  <2>1. [active |-> TRUE, end |-> now + n, program_idx |-> p] \in Timer
    BY DEF TypeOK, Timer
  <2> QED
    BY <2>1 DEF TypeOK, Started
<1>3. Stopped(i) \in [Slots -> Timer]
  BY <1>1 DEF TypeOK, Stopped
<1> QED
  BY <1>2, <1>3

LEMMA TimerSlotType ==
    ASSUME NEW id, NEW i \in TimerSlot(id)
    PROVE  i \in Slots
BY SizesAssumption DEF TimerSlot, Least, Dynamic, Slots

\* The variables keep their types through every statement, message and turn
\* of the server loop.
LEMMA TypeStep == TypeOK /\ [Next]_vars => TypeOK'
<1> SUFFICES ASSUME TypeOK, [Next]_vars PROVE TypeOK'
  OBVIOUS
<1> USE DEF history, tables
<1>1. CASE EndRun
  BY <1>1, ReturnsType DEF EndRun, TypeOK
<1>2. ASSUME NEW k \in StartIds, NEW n \in Seconds, StartTimer(k, n)
      PROVE  TypeOK'
  <2>1. CASE Fatal
    BY <2>1 DEF Fatal, TypeOK, Locations
  <2>2. ASSUME NEW i \in TimerSlot(k), timers' = Started(i, n, UserPlace(k)),
               timeout_value' = calc_min_time(timers', now),
               UNCHANGED <<now, table, system_bytes, alarm, pc, caller,
                           sending, history>>
        PROVE  TypeOK'
    <3>1. UserPlace(k) \in Places
      BY SizesAssumption DEF UserPlace, Places
    <3>2. timers' \in [Slots -> Timer]
      BY <2>2, <3>1, TimerSlotType, TimerTableType, SizesAssumption
    <3>3. timeout_value' \in 0..MAX_WAIT
      BY <2>2, <3>2, MinTimeBounds DEF TypeOK
    <3> QED
      BY <2>2, <3>2, <3>3 DEF TypeOK
  <2> QED
    BY <1>2, <2>1, <2>2 DEF StartTimer
<1>3. ASSUME NEW k \in StopIds, StopTimer(k) PROVE TypeOK'
  <2>1. timers' \in [Slots -> Timer]
    BY <1>3, TimerTableType, SizesAssumption DEF StopTimer, Slots
  <2> QED
    BY <1>3, <2>1 DEF StopTimer, TypeOK
<1>4. ASSUME NEW n \in Seconds, Sleep(n) PROVE TypeOK'
  <2>1. CASE Fatal
    BY <2>1 DEF Fatal, TypeOK, Locations
  <2>2. ASSUME NEW i \in TimerSlot(-1), timers' = Started(i, n, SleepPlace),
               Returns(timers', sending, calc_min_time(timers', now)),
               UNCHANGED <<now, table, system_bytes, caller, sending, history>>
        PROVE  TypeOK'
    <3>1. SleepPlace \in Places
      BY DEF SleepPlace, Places
    <3>2. timers' \in [Slots -> Timer]
      BY <2>2, <3>1, TimerSlotType, TimerTableType, SizesAssumption
    <3>3. calc_min_time(timers', now) \in 0..MAX_WAIT
      BY <3>2, MinTimeBounds DEF TypeOK
    <3>4. timeout_value' \in 0..MAX_WAIT /\ alarm' \in Nat /\ pc' \in Locations
      BY <2>2, <3>2, <3>3, ReturnsType
    <3> QED
      BY <2>2, <3>2, <3>4 DEF TypeOK
  <2> QED
    BY <1>4, <2>1, <2>2 DEF Sleep
<1>5. CASE SendBegin
  <2>1. NextSystemBytes \in Sends
    BY <1>5, NextIsFresh DEF SendBegin
  <2>2. system_bytes' \in 0..MaxSends /\ sending' \subseteq Sends
    BY <1>5, <2>1, BoundsAssumption DEF SendBegin, TypeOK, Sends
  <2> QED
    BY <1>5, <2>2 DEF SendBegin, TypeOK, Locations
<1>6. CASE SendEnd
  BY <1>6 DEF SendEnd, TypeOK, Locations
<1>7. ASSUME NEW s \in Sends, SendWait(s) PROVE TypeOK'
  <2>1. CASE Fatal
    BY <2>1 DEF Fatal, TypeOK, Locations
  <2>2. ASSUME NEW i, NEW t, NEW e, Suspended(s, i, t, e) PROVE TypeOK'
    <3>1. i \in Slots /\ T3Place(s) \in Places /\ t \in Nat
      BY <2>2, TimerSlotType DEF Suspended, T3Place, Places, Sends, TypeOK
    <3>2. timers' \in [Slots -> Timer]
      BY <2>2, <3>1, TimerTableType, SizesAssumption DEF Suspended
    <3>3. table' \in [Entries -> Entry]
      <4>1. CleanedUp(t) \in [Entries -> Entry]
        BY DEF CleanedUp, TypeOK, Entry
      <4>2. [active |-> TRUE, system_bytes |-> s, timer_idx |-> i,
             end_time |-> t + T3] \in Entry
        BY <3>1, SizesAssumption DEF Entry, Sends
      <4> QED
        BY <2>2, <4>1, <4>2 DEF Suspended
    <3>4. calc_min_time(timers', now) \in 0..MAX_WAIT
      BY <3>2, MinTimeBounds DEF TypeOK
    <3>5. timeout_value' \in 0..MAX_WAIT /\ alarm' \in Nat /\ pc' \in Locations
      BY <2>2, <3>2, <3>4, ReturnsType DEF Suspended
    <3> QED
      BY <2>2, <3>2, <3>3, <3>5 DEF Suspended, TypeOK
  <2> QED
    BY <1>7, <2>1, <2>2 DEF SendWait
<1>8. CASE timer_handler
  <2>1. CASE AfterTimers(pc, timers) /\ UNCHANGED <<timers, caller, sending, timeouts>>
    <3>1. timeout_value' \in 0..MAX_WAIT /\ alarm' \in Nat /\ pc' \in Locations
      BY <2>1, AfterTimersType DEF TypeOK
    <3> QED
      BY <1>8, <2>1, <3>1 DEF timer_handler, TypeOK
  <2>2. ASSUME NEW i \in MostOverdue, TimedOut(i) PROVE TypeOK'
    <3>1. i \in Slots
      BY DEF MostOverdue, Expired, Active
    <3>2. timers' \in [Slots -> Timer]
      BY <2>2, <3>1, TimerTableType DEF TimedOut
    <3>3. timeouts' \in [Sends -> Nat]
      BY <2>2 DEF TimedOut, TypeOK
    <3>4. caller' \in Callers
      BY <1>8, <2>2 DEF timer_handler, TimedOut, Resume, Callers
    <3> QED
      BY <1>8, <2>2, <3>2, <3>3, <3>4
         DEF timer_handler, TimedOut, Resume, TypeOK, Locations
  <2> QED
    BY <1>8, <2>1, <2>2 DEF timer_handler
<1>9. CASE SelectReturns \/ AlarmFires \/ SigUsr1 \/ Unblock \/ EndScan
  BY <1>9 DEF SelectReturns, AlarmFires, SigUsr1, Unblock, EndScan, JumpTo,
              TypeOK, Locations
<1>10. CASE PrimaryArrives
  BY <1>10 DEF PrimaryArrives, Receiving, Received, Resume, TypeOK, Locations,
               Callers
<1>11. ASSUME NEW s \in 0..MaxSends, ReplyArrives(s) PROVE TypeOK'
  <2>1. CASE UNCHANGED <<timers, table, pc, caller, sending, replies>>
    BY <1>11, <2>1 DEF ReplyArrives, TypeOK
  <2>2. ASSUME NEW e \in Found(s), Accepted(s, e) PROVE TypeOK'
    <3>1. e \in Entries /\ table[e].timer_idx \in Slots
      BY DEF Found, Least, TypeOK, Entry
    <3>2. timers' \in [Slots -> Timer]
      BY <2>2, <3>1, TimerTableType DEF Accepted
    <3>3. table' \in [Entries -> Entry]
      BY <2>2, <3>1 DEF Accepted, TypeOK, Entry
    <3>4. replies' \in [0..MaxSends -> Nat]
      BY <2>2 DEF Accepted, TypeOK
    <3>5. pc' \in Locations /\ caller' \in Callers /\ sending' = sending
      BY <2>2 DEF Accepted, Received, Resume, Locations, Callers, TypeOK
    <3> QED
      BY <1>11, <3>2, <3>3, <3>4, <3>5 DEF ReplyArrives, TypeOK
  <2> QED
    BY <1>11, <2>1, <2>2 DEF ReplyArrives
<1>12. CASE Tick
  BY <1>12 DEF Tick, TypeOK
<1>13. CASE Terminated \/ UNCHANGED vars
  BY <1>13 DEF Terminated, TypeOK, vars
<1> QED
  BY <1>1, <1>2, <1>3, <1>4, <1>5, <1>6, <1>7, <1>8, <1>9, <1>10, <1>11,
     <1>12, <1>13 DEF Next, Program

\* TypeCorrect: every variable keeps its type, whatever the program and the
\* peers do.
THEOREM TypeCorrect == Spec => []TypeOK
<1>1. Init => TypeOK
  BY SizesAssumption, BoundsAssumption
     DEF Init, TypeOK, Timer, Entry, Places, SleepPlace, Locations, Callers,
         Slots, Sends
<1> QED
  BY <1>1, TypeStep, PTL DEF Spec

-----------------------------------------------------------------------------
(* T3 timers and the table of open transactions. *)

\* A step that adds no T3 timer, and changes neither the table's links nor the
\* history, keeps the invariant
LEMMA FewerTimers ==
    ASSUME TransactionInv, UNCHANGED <<opened, replies, timeouts>>,
           sending' \subseteq sending, system_bytes' = system_bytes,
           \A s \in Sends : T3Timers(s)' \subseteq T3Timers(s),
           \A e \in Entries : /\ table'[e].system_bytes = table[e].system_bytes
                              /\ table'[e].timer_idx = table[e].timer_idx
    PROVE  TransactionInv'
<1>1. T3TimersWait'
  BY DEF TransactionInv, T3TimersWait, Waiting
<1>2. T3TimersUnique'
  BY DEF TransactionInv, T3TimersUnique
<1>3. T3TimersLinked'
  BY DEF TransactionInv, T3TimersLinked
<1>4. SystemBytesFresh'
  BY DEF TransactionInv, SystemBytesFresh
<1> QED
  BY <1>1, <1>2, <1>3, <1>4 DEF TransactionInv

\* Stopping a timer removes it and no other
LEMMA StoppedT3 ==
    ASSUME TypeOK, NEW i \in Slots, timers' = Stopped(i)
    PROVE  \A s \in Sends : T3Timers(s)' = T3Timers(s) \ {i}
BY DEF T3Timers, Active, Stopped, TypeOK, Timer

\* Starting a timer adds it to the T3 timers of its own send, if it has one,
\* and takes a slot that no other T3 timer uses
LEMMA StartedT3 ==
    ASSUME TypeOK, NEW i \in Slots, NEW n, NEW p, timers' = Started(i, n, p)
    PROVE  \A s \in Sends :
              T3Timers(s)' = IF p = T3Place(s) THEN T3Timers(s) \cup {i}
                             ELSE T3Timers(s) \ {i}
BY DEF T3Timers, Active, Started, TypeOK

\* TransactionInv is inductive: every action keeps the T3 timers, the table
\* and the history in agreement.
LEMMA TransactionStep ==
    TypeOK /\ TransactionInv /\ [Next]_vars => TransactionInv'
<1> SUFFICES ASSUME TypeOK, TransactionInv, [Next]_vars PROVE TransactionInv'
  OBVIOUS
<1> USE DEF history, tables
<1>1. CASE UNCHANGED <<timers, table, system_bytes, history>> /\ sending' \subseteq sending
  BY <1>1, FewerTimers DEF T3Timers, Active
<1>2. ASSUME NEW k \in StartIds, NEW n \in Seconds, StartTimer(k, n)
      PROVE  TransactionInv'
  <2>1. CASE Fatal
    BY <1>1, <2>1 DEF Fatal
  <2>2. ASSUME NEW i \in TimerSlot(k), timers' = Started(i, n, UserPlace(k)),
               UNCHANGED <<now, table, system_bytes, alarm, pc, caller,
                           sending, history>>
        PROVE  TransactionInv'
    <3>1. \A s \in Sends : UserPlace(k) # T3Place(s)
      BY DEF UserPlace, T3Place
    <3>2. \A s \in Sends : T3Timers(s)' \subseteq T3Timers(s)
      BY <2>2, <3>1, StartedT3, TimerSlotType
    <3> QED
      BY <2>2, <3>2, FewerTimers
  <2> QED
    BY <1>2, <2>1, <2>2 DEF StartTimer
<1>3. ASSUME NEW k \in StopIds, StopTimer(k) PROVE TransactionInv'
  <2>1. \A s \in Sends : T3Timers(s)' \subseteq T3Timers(s)
    BY <1>3, StoppedT3, SizesAssumption DEF StopTimer, Slots
  <2> QED
    BY <1>3, <2>1, FewerTimers DEF StopTimer
<1>4. ASSUME NEW n \in Seconds, Sleep(n) PROVE TransactionInv'
  <2>1. CASE Fatal
    BY <1>1, <2>1 DEF Fatal
  <2>2. ASSUME NEW i \in TimerSlot(-1), timers' = Started(i, n, SleepPlace),
               UNCHANGED <<now, table, system_bytes, caller, sending, history>>
        PROVE  TransactionInv'
    <3>1. \A s \in Sends : SleepPlace # T3Place(s)
      BY DEF SleepPlace, T3Place
    <3>2. \A s \in Sends : T3Timers(s)' \subseteq T3Timers(s)
      BY <2>2, <3>1, StartedT3, TimerSlotType
    <3> QED
      BY <2>2, <3>2, FewerTimers
  <2> QED
    BY <1>4, <2>1, <2>2 DEF Sleep
<1>5. CASE SendBegin
  <2>1. NextSystemBytes = system_bytes + 1 /\ system_bytes' = system_bytes + 1
    BY <1>5, NextIsFresh DEF SendBegin
  <2>2. SystemBytesFresh'
    BY <1>5, <2>1 DEF SendBegin, TransactionInv, SystemBytesFresh, TypeOK, Sends
  <2> QED
    BY <1>5, <2>2 DEF SendBegin, TransactionInv, T3TimersWait, T3TimersUnique,
                      T3TimersLinked, T3Timers, Active, Waiting
<1>6. ASSUME NEW s \in Sends, SendWait(s) PROVE TransactionInv'
  <2>1. CASE Fatal
    BY <1>1, <2>1 DEF Fatal
  <2>2. ASSUME NEW i, NEW t, NEW e, Suspended(s, i, t, e) PROVE TransactionInv'
    <3>1. i \in Slots /\ e \in Entries
      BY <2>2, TimerSlotType DEF Suspended, FreeEntry, Least
    <3>2. s \in sending /\ s \notin opened /\ replies[s] = 0 /\ timeouts[s] = 0
      BY <1>6 DEF SendWait, Innermost, TransactionInv, SystemBytesFresh
    <3>3. T3Timers(s) = {}
      BY <3>2 DEF TransactionInv, T3TimersWait, Waiting, T3Timers, Active
    <3>4. \A r \in Sends : T3Timers(r)' = IF r = s THEN {i} ELSE T3Timers(r) \ {i}
      <4>1. \A r \in Sends : T3Place(s) = T3Place(r) <=> s = r
        BY DEF T3Place
      <4> QED
        BY <2>2, <3>1, <3>3, <4>1, StartedT3 DEF Suspended
    <3>5. \A f \in Entries :
            /\ table'[f].system_bytes = IF f = e THEN s ELSE table[f].system_bytes
            /\ table'[f].timer_idx = IF f = e THEN i ELSE table[f].timer_idx
      BY <2>2, <3>1 DEF Suspended, CleanedUp, TypeOK, Entry
    <3>6. T3TimersWait'
      BY <2>2, <3>2, <3>4 DEF Suspended, TransactionInv, T3TimersWait, Waiting
    <3>7. T3TimersUnique'
      BY <3>4 DEF TransactionInv, T3TimersUnique
    <3>8. T3TimersLinked'
      <4>1. \A f \in Entries : f # e => table[f].system_bytes # s
        BY <3>2 DEF TransactionInv, SystemBytesFresh, Sends
      <4> QED
        BY <3>1, <3>4, <3>5, <4>1 DEF TransactionInv, T3TimersLinked
    <3>9. SystemBytesFresh'
      BY <2>2, <3>2, <3>5 DEF Suspended, TransactionInv, SystemBytesFresh
    <3> QED
      BY <3>6, <3>7, <3>8, <3>9 DEF TransactionInv
  <2> QED
    BY <1>6, <2>1, <2>2 DEF SendWait
<1>7. ASSUME NEW i \in MostOverdue, TimedOut(i), timer_handler
      PROVE  TransactionInv'
  <2>1. i \in Slots /\ i \in Active(timers)
    BY DEF MostOverdue, Expired, Active
  <2>2. \A s \in Sends : T3Timers(s)' = T3Timers(s) \ {i}
    BY <1>7, <2>1, StoppedT3 DEF TimedOut
  <2>3. UNCHANGED <<table, system_bytes, opened, replies, sending>>
    BY <1>7 DEF timer_handler, TimedOut, Resume
  <2>4. \A s \in Sends : i \notin T3Timers(s) => timeouts'[s] = timeouts[s]
    BY <1>7, <2>1 DEF TimedOut, T3Timers
  <2>5. T3TimersWait'
    <3> SUFFICES ASSUME NEW s \in Sends, NEW j \in Slots, j \in T3Timers(s)'
                 PROVE  Waiting(s)'
      BY DEF T3TimersWait
    <3>1. j \in T3Timers(s) /\ i \notin T3Timers(s)
      BY <2>1, <2>2 DEF TransactionInv, T3TimersUnique
    <3> QED
      BY <2>3, <2>4, <3>1 DEF TransactionInv, T3TimersWait, Waiting
  <2>6. T3TimersUnique' /\ T3TimersLinked'
    BY <2>2, <2>3 DEF TransactionInv, T3TimersUnique, T3TimersLinked
  <2>7. SystemBytesFresh'
    BY <2>1, <2>3, <2>4
       DEF TransactionInv, SystemBytesFresh, T3TimersWait, Waiting
  <2> QED
    BY <2>5, <2>6, <2>7 DEF TransactionInv
<1>8. ASSUME NEW s \in 0..MaxSends, ReplyArrives(s) PROVE TransactionInv'
  <2>1. CASE UNCHANGED <<timers, table, pc, caller, sending, replies>>
    BY <1>1, <1>8, <2>1 DEF ReplyArrives
  <2>2. ASSUME NEW e \in Found(s), Accepted(s, e) PROVE TransactionInv'
    <3>1. /\ e \in Entries /\ table[e].system_bytes = s
          /\ table[e].timer_idx \in Slots
      BY DEF Found, Least, TypeOK, Entry
    <3>2. \A r \in Sends : T3Timers(r)' = T3Timers(r) \ {table[e].timer_idx}
      BY <2>2, <3>1, StoppedT3 DEF Accepted
    <3>3. s \in Sends => T3Timers(s)' = {}
      BY <3>1, <3>2 DEF TransactionInv, T3TimersLinked, T3Timers, Active
    <3>4. UNCHANGED <<system_bytes, opened, timeouts, sending>>
      BY <1>8, <2>2 DEF ReplyArrives, Accepted, Received, Resume
    <3>5. \A r \in Sends : r # s => replies'[r] = replies[r]
      BY <2>2 DEF Accepted, TypeOK, Sends
    <3>6. \A f \in Entries :
            /\ table'[f].system_bytes = table[f].system_bytes
            /\ table'[f].timer_idx = table[f].timer_idx
      BY <2>2, <3>1 DEF Accepted, TypeOK, Entry
    <3>7. T3TimersWait'
      BY <3>2, <3>3, <3>4, <3>5 DEF TransactionInv, T3TimersWait, Waiting
    <3>8. T3TimersUnique' /\ T3TimersLinked'
      BY <3>2, <3>6 DEF TransactionInv, T3TimersUnique, T3TimersLinked
    <3>9. SystemBytesFresh'
      BY <3>1, <3>4, <3>5, <3>6 DEF TransactionInv, SystemBytesFresh, Sends
    <3> QED
      BY <3>7, <3>8, <3>9 DEF TransactionInv
  <2> QED
    BY <1>8, <2>1, <2>2 DEF ReplyArrives
<1>9. CASE EndRun \/ SendEnd \/ SelectReturns \/ AlarmFires \/ SigUsr1
           \/ Unblock \/ EndScan \/ PrimaryArrives \/ Tick \/ Terminated
           \/ UNCHANGED vars
  BY <1>1, <1>9 DEF EndRun, SendEnd, SelectReturns, AlarmFires, SigUsr1, Unblock,
        EndScan, PrimaryArrives, Received, Resume, Tick, Terminated, vars
<1>10. CASE timer_handler
  <2>1. CASE UNCHANGED <<timers, caller, sending, timeouts>>
    BY <1>1, <1>10, <2>1 DEF timer_handler
  <2> QED
    BY <1>7, <1>10, <2>1 DEF timer_handler
<1> QED
  BY <1>2, <1>3, <1>4, <1>5, <1>6, <1>8, <1>9, <1>10 DEF Next, Program

\* TransactionsAgree: the timer table, the transaction table and the history
\* agree in every reachable state, for every peer and every program.
THEOREM TransactionsAgree == Spec => []TransactionInv
<1>1. Init => TransactionInv
  BY DEF Init, TransactionInv, T3TimersWait, T3TimersUnique, T3TimersLinked,
         SystemBytesFresh, T3Timers, Active, Sends
<1> QED
  BY <1>1, TransactionStep, TypeCorrect, PTL DEF Spec

\* NoTimeoutAfterReply: timer_handler() never resumes a send with a timeout
\* after open_trans_table_del() accepted its reply, nor a second time.
THEOREM NoTimeoutAfterReply == Spec => T3OnlyWhileWaiting
<1>1. TypeOK /\ TransactionInv /\ [Next]_vars
        => [\A s \in Sends : timeouts'[s] # timeouts[s] => Waiting(s)]_vars
  <2> SUFFICES ASSUME TypeOK, TransactionInv, Next,
                      NEW s \in Sends, timeouts'[s] # timeouts[s]
               PROVE  Waiting(s)
    OBVIOUS
  <2>1. PICK i \in MostOverdue : TimedOut(i)
    BY DEF Next, Program, EndRun, StartTimer, StopTimer, Sleep, SendBegin,
           SendEnd, SendWait, Suspended, Fatal, timer_handler, SelectReturns,
           AlarmFires, SigUsr1, Unblock, EndScan, PrimaryArrives,
           ReplyArrives, Tick, Terminated, history, vars
  <2>2. i \in T3Timers(s)
    BY <2>1 DEF TimedOut, T3Timers, MostOverdue, Expired, TypeOK
  <2> QED
    BY <2>2 DEF TransactionInv, T3TimersWait, T3Timers, Active
<1> QED
  BY <1>1, TypeCorrect, TransactionsAgree, PTL DEF Spec, T3OnlyWhileWaiting

-----------------------------------------------------------------------------
(* The pending SIGALRM. *)

\* Whenever timer_handler() has returned at the top of the loop, the alarm it
\* leads to covers every running timer
LEMMA ArmedAfterTimers ==
    ASSUME TypeOK, TypeOK', now' = now, NEW place, AfterTimers(place, timers')
    PROVE  WakeupArmed'
<1> SUFFICES ASSUME pc' = "select", NEW i \in Active(timers')
             PROVE  /\ alarm' # 0
                    /\ alarm' <= 1 + (IF timers'[i].end > now' THEN timers'[i].end
                                      ELSE now' + 1)
  BY DEF WakeupArmed, Active
<1> DEFINE w == calc_min_time(timers', now)
<1>1. w \in Nat /\ w # 0 /\ w <= Wait(timers', now, i)
  <2>1. timers' \in [Slots -> Timer] /\ now \in Nat
    BY DEF TypeOK
  <2>2. w \in 0..MAX_WAIT /\ w # 0 /\ w <= Wait(timers', now, i)
    BY <2>1, MinTimeBounds
  <2> QED
    BY <2>2, SizesAssumption
<1>2. alarm' \in {now + w, now + w + 1}
  BY <1>1 DEF AfterTimers
<1>3. timers'[i].end \in Nat /\ now \in Nat
  BY DEF TypeOK, Timer, Active
<1> HIDE DEF w
<1> QED
  BY <1>1, <1>2, <1>3 DEF Wait

LEMMA ArmedReturns ==
    ASSUME TypeOK, TypeOK', now' = now, NEW outer, NEW tv,
           Returns(timers', outer, tv)
    PROVE  WakeupArmed'
<1>1. CASE \E place : AfterTimers(place, timers')
  BY <1>1, ArmedAfterTimers
<1>2. CASE pc' # "select"
  BY <1>2 DEF WakeupArmed
<1> QED
  BY <1>1, <1>2 DEF Returns

\* TimersCovered: sc never waits in select() with a running timer and no
\* SIGALRM pending that is early enough, whatever the program started or
\* stopped before.
THEOREM TimersCovered == Spec => []WakeupArmed
<1>1. Init => WakeupArmed
  BY DEF Init, WakeupArmed
<1>2. TypeOK /\ TypeOK' /\ WakeupArmed /\ [Next]_vars => WakeupArmed'
  <2> SUFFICES ASSUME TypeOK, TypeOK', WakeupArmed, [Next]_vars
               PROVE  WakeupArmed'
    OBVIOUS
  <2> USE DEF history, tables
  <2>1. CASE EndRun
    BY <2>1, ArmedReturns DEF EndRun
  <2>2. ASSUME NEW n \in Seconds, Sleep(n) PROVE WakeupArmed'
    BY <2>2, ArmedReturns DEF Sleep, Fatal, WakeupArmed
  <2>3. ASSUME NEW s \in Sends, SendWait(s) PROVE WakeupArmed'
    BY <2>3, ArmedReturns DEF SendWait, Suspended, Fatal, WakeupArmed
  <2>4. CASE timer_handler
    BY <2>4, ArmedAfterTimers DEF timer_handler, TimedOut, Resume, WakeupArmed
  <2>5. CASE Tick
    BY <2>5 DEF Tick, WakeupArmed, Active, TypeOK, Timer
  <2>6. CASE UNCHANGED vars
    BY <2>6 DEF vars, WakeupArmed, Active
  <2>7. CASE pc # "select" /\ pc' = pc
    BY <2>7 DEF WakeupArmed
  <2>8. CASE pc' # "select"
    BY <2>8 DEF WakeupArmed
  <2> QED
    BY <2>1, <2>2, <2>3, <2>4, <2>5, <2>6, <2>7, <2>8
       DEF Next, Program, StartTimer, Fatal, StopTimer, SendBegin, SendEnd,
           SelectReturns, AlarmFires, SigUsr1, JumpTo, Unblock, EndScan,
           PrimaryArrives, ReplyArrives, Accepted, Receiving, Received,
           Resume, Terminated
<1> QED
  BY <1>1, <1>2, TypeCorrect, PTL DEF Spec

-----------------------------------------------------------------------------
(* Refinement, for peers that answer at most once and in time and programs *)
(* that stop only their own timers.                                        *)

\* T3 timers live in dynamic slots, which such a program never stops; a send
\* that is no longer waiting was resumed exactly once.
T3TimersDynamic ==
    \A s \in Sends : T3Timers(s) \subseteq Dynamic

ResumedAtMostOnce ==
    \A s \in opened : \/ Waiting(s)
                      \/ replies[s] = 1 /\ timeouts[s] = 0
                      \/ replies[s] = 0 /\ timeouts[s] = 1

PromiseInv == WaitingHasTimer /\ T3TimersDynamic /\ ResumedAtMostOnce

\* A step that changes neither the T3 timers nor the history
LEMMA SameT3 ==
    ASSUME PromiseInv, UNCHANGED <<opened, replies, timeouts>>,
           \A s \in Sends : T3Timers(s)' = T3Timers(s)
    PROVE  PromiseInv' /\ \A s \in Sends : Status(s)' = Status(s)
<1>1. \A s \in Sends : Waiting(s)' <=> Waiting(s)
  BY DEF Waiting
<1>2. WaitingHasTimer' /\ T3TimersDynamic'
  BY <1>1 DEF PromiseInv, WaitingHasTimer, T3TimersDynamic
<1>3. ResumedAtMostOnce'
  BY DEF PromiseInv, ResumedAtMostOnce, Waiting
<1>4. \A s \in Sends : Status(s)' = Status(s)
  BY DEF Status, Outcome, Waiting
<1> QED
  BY <1>2, <1>3, <1>4 DEF PromiseInv

\* Starting a timer for the program or for a sleep takes no slot of a T3 timer
LEMMA SlotFree ==
    ASSUME PromiseInv, NEW id, NEW i \in TimerSlot(id), NEW s \in Sends
    PROVE  i \notin T3Timers(s)
BY SizesAssumption DEF PromiseInv, T3TimersDynamic, TimerSlot, Least, T3Timers,
                       Active, Dynamic

\* A step as OpenTransactions sees it: one send moves on, or none does
Moves(s) ==
    /\ \/ Status(s) = "unsent" /\ Status(s)' = "waiting"
       \/ Status(s) = "waiting" /\ Status(s)' = "replied"
       \/ Status(s) = "waiting" /\ Status(s)' = "timed out"
    /\ \A r \in Sends : r # s => Status(r)' = Status(r)

PromisedStep ==
    /\ PromiseInv'
    /\ \/ \A s \in Sends : Status(s)' = Status(s)
       \/ \E s \in Sends : Moves(s)

\* Every step is a step of OpenTransactions or a stuttering one
LEMMA PromiseStep ==
    ASSUME ~LateReplies, StopIds \subseteq 0..(FirstDynamic - 1),
           TypeOK, TransactionInv, PromiseInv, [Next]_vars
    PROVE  PromisedStep
<1> USE DEF history, tables
<1>1. ASSUME UNCHANGED <<opened, replies, timeouts>>,
             \A s \in Sends : T3Timers(s)' = T3Timers(s)
      PROVE  PromisedStep
  BY <1>1, SameT3 DEF PromisedStep
<1>2. CASE UNCHANGED <<timers, opened, replies, timeouts>>
  BY <1>1, <1>2 DEF T3Timers, Active
<1>4. ASSUME NEW k \in StartIds, NEW n \in Seconds, StartTimer(k, n)
      PROVE  PromisedStep
  <2>1. CASE Fatal
    BY <1>2, <2>1 DEF Fatal
  <2>2. ASSUME NEW i \in TimerSlot(k), timers' = Started(i, n, UserPlace(k)),
               UNCHANGED history
        PROVE  PromisedStep
    <3>1. \A s \in Sends : UserPlace(k) # T3Place(s)
      BY DEF UserPlace, T3Place
    <3>2. i \in Slots /\ \A s \in Sends : i \notin T3Timers(s)
      BY TimerSlotType, SlotFree
    <3>3. \A s \in Sends : T3Timers(s)' = T3Timers(s)
      BY <2>2, <3>1, <3>2, StartedT3
    <3> QED
      BY <1>1, <2>2, <3>3
  <2> QED
    BY <1>4, <2>1, <2>2 DEF StartTimer
<1>5. ASSUME NEW k \in StopIds, StopTimer(k) PROVE PromisedStep
  <2>1. k \in Slots /\ k \notin Dynamic
    BY SizesAssumption DEF Slots, Dynamic
  <2>2. \A s \in Sends : T3Timers(s)' = T3Timers(s)
    BY <1>5, <2>1, StoppedT3 DEF StopTimer, PromiseInv, T3TimersDynamic
  <2> QED
    BY <1>1, <1>5, <2>2 DEF StopTimer
<1>6. ASSUME NEW n \in Seconds, Sleep(n) PROVE PromisedStep
  <2>1. CASE Fatal
    BY <1>2, <2>1 DEF Fatal
  <2>2. ASSUME NEW i \in TimerSlot(-1), timers' = Started(i, n, SleepPlace),
               UNCHANGED history
        PROVE  PromisedStep
    <3>1. \A s \in Sends : SleepPlace # T3Place(s)
      BY DEF SleepPlace, T3Place
    <3>2. i \in Slots /\ \A s \in Sends : i \notin T3Timers(s)
      BY TimerSlotType, SlotFree
    <3>3. \A s \in Sends : T3Timers(s)' = T3Timers(s)
      BY <2>2, <3>1, <3>2, StartedT3
    <3> QED
      BY <1>1, <2>2, <3>3
  <2> QED
    BY <1>6, <2>1, <2>2 DEF Sleep
<1>7. ASSUME NEW s \in Sends, SendWait(s) PROVE PromisedStep
  <2>1. CASE Fatal
    BY <1>2, <2>1 DEF Fatal
  <2>2. ASSUME NEW i, NEW t, NEW e, Suspended(s, i, t, e) PROVE PromisedStep
    <3>1. i \in Slots /\ i \in Dynamic
      BY <2>2, TimerSlotType DEF Suspended, TimerSlot, Least
    <3>2. s \notin opened /\ replies[s] = 0 /\ timeouts[s] = 0
      BY <1>7 DEF SendWait, Innermost, TransactionInv, SystemBytesFresh
    <3>3. \A r \in Sends : T3Timers(r)' = IF r = s THEN {i} ELSE T3Timers(r)
      <4>1. \A r \in Sends : T3Place(s) = T3Place(r) <=> s = r
        BY DEF T3Place
      <4>2. T3Timers(s) = {}
        BY <3>2 DEF TransactionInv, T3TimersWait, Waiting, T3Timers, Active
      <4>3. \A r \in Sends : i \notin T3Timers(r)
        BY <2>2, SlotFree DEF Suspended
      <4> QED
        BY <2>2, <3>1, <4>1, <4>2, <4>3, StartedT3 DEF Suspended
    <3>4. Waiting(s)' /\ \A r \in Sends : r # s => (Waiting(r)' <=> Waiting(r))
      BY <2>2, <3>2 DEF Suspended, Waiting
    <3>5. PromiseInv'
      <4>1. WaitingHasTimer' /\ T3TimersDynamic'
        BY <3>1, <3>3, <3>4 DEF PromiseInv, WaitingHasTimer, T3TimersDynamic
      <4>2. ResumedAtMostOnce'
        BY <2>2, <3>2 DEF PromiseInv, ResumedAtMostOnce, Waiting, Suspended
      <4> QED
        BY <4>1, <4>2 DEF PromiseInv
    <3>6. /\ Status(s) = "unsent" /\ Status(s)' = "waiting"
          /\ \A r \in Sends : r # s => Status(r)' = Status(r)
      <4>1. opened' = opened \cup {s} /\ UNCHANGED <<replies, timeouts>>
        BY <2>2 DEF Suspended
      <4>2. Status(s) = "unsent"
        BY <3>2 DEF Status
      <4>3. Status(s)' = "waiting"
        <5>1. s \in opened' /\ replies'[s] = 0 /\ timeouts'[s] = 0
          BY <3>2, <4>1
        <5> QED
          BY <5>1 DEF Status, Outcome
      <4>4. ASSUME NEW r \in Sends, r # s PROVE Status(r)' = Status(r)
        <5>1. r \in opened' <=> r \in opened
          BY <4>1, <4>4
        <5>2. replies'[r] = replies[r] /\ timeouts'[r] = timeouts[r]
          BY <4>1
        <5> QED
          BY <5>1, <5>2 DEF Status
      <4> QED
        BY <4>2, <4>3, <4>4
    <3> QED
      BY <3>5, <3>6 DEF PromisedStep, Moves
  <2> QED
    BY <1>7, <2>1, <2>2 DEF SendWait
<1>8. ASSUME NEW i \in MostOverdue, TimedOut(i), timer_handler
      PROVE  PromisedStep
  <2>1. i \in Slots /\ i \in Active(timers)
    BY DEF MostOverdue, Expired, Active
  <2>2. \A s \in Sends : T3Timers(s)' = T3Timers(s) \ {i}
    BY <1>8, <2>1, StoppedT3 DEF TimedOut
  <2>3. UNCHANGED <<opened, replies>>
    BY <1>8 DEF timer_handler
  <2>4. CASE \A s \in Sends : i \notin T3Timers(s)
    <3>1. \A s \in Sends : T3Timers(s)' = T3Timers(s)
      BY <2>2, <2>4
    <3>2. timeouts' = timeouts
      BY <1>8, <2>1, <2>4 DEF TimedOut, T3Timers, TypeOK
    <3> QED
      BY <1>1, <2>3, <3>1, <3>2
  <2>5. ASSUME NEW s \in Sends, i \in T3Timers(s) PROVE PromisedStep
    <3>1. Waiting(s)
      BY <2>1, <2>5 DEF TransactionInv, T3TimersWait
    <3>2. \A r \in Sends : r # s => i \notin T3Timers(r)
      BY <2>5 DEF T3Timers, T3Place
    <3>3. timeouts'[s] = 1 /\ \A r \in Sends : r # s => timeouts'[r] = timeouts[r]
      BY <1>8, <2>1, <2>5, <3>1, <3>2 DEF TimedOut, T3Timers, Waiting
    <3>4. ~Waiting(s)' /\ \A r \in Sends : r # s => (Waiting(r)' <=> Waiting(r))
      BY <2>3, <3>3 DEF Waiting
    <3>5. PromiseInv'
      <4>1. WaitingHasTimer' /\ T3TimersDynamic'
        BY <2>2, <3>2, <3>4 DEF PromiseInv, WaitingHasTimer, T3TimersDynamic
      <4>2. ResumedAtMostOnce'
        BY <2>3, <3>1, <3>3 DEF PromiseInv, ResumedAtMostOnce, Waiting, TypeOK
      <4> QED
        BY <4>1, <4>2 DEF PromiseInv
    <3>6. /\ Status(s) = "waiting" /\ Status(s)' = "timed out"
          /\ \A r \in Sends : r # s => Status(r)' = Status(r)
      BY <2>3, <3>1, <3>3, <3>4 DEF Status, Outcome, Waiting
    <3> QED
      BY <3>5, <3>6 DEF PromisedStep, Moves
  <2> QED
    BY <2>4, <2>5
<1>9. ASSUME NEW s \in 0..MaxSends, ReplyArrives(s) PROVE PromisedStep
  <2>1. CASE UNCHANGED <<timers, table, pc, caller, sending, replies>>
    BY <1>2, <1>9, <2>1 DEF ReplyArrives
  <2>2. ASSUME NEW e \in Found(s), Accepted(s, e) PROVE PromisedStep
    <3>1. s \in Sends /\ Waiting(s)
      BY <1>9 DEF ReplyArrives, PeerMayReply
    <3>2. PICK i \in Slots : T3Timers(s) = {i}
      BY <3>1 DEF PromiseInv, WaitingHasTimer
    <3>3. e \in Entries /\ table[e].timer_idx = i
      BY <3>1, <3>2 DEF Found, Least, TransactionInv, T3TimersLinked
    <3>4. \A r \in Sends : T3Timers(r)' = T3Timers(r) \ {i}
      BY <2>2, <3>3, StoppedT3 DEF Accepted
    <3>5. \A r \in Sends : r # s => i \notin T3Timers(r)
      BY <3>2 DEF T3Timers, T3Place
    <3>6. UNCHANGED <<opened, timeouts>>
      BY <1>9 DEF ReplyArrives
    <3>7. replies'[s] = 1 /\ \A r \in Sends : r # s => replies'[r] = replies[r]
      BY <2>2, <3>1 DEF Accepted, Waiting, TypeOK, Sends
    <3>8. ~Waiting(s)' /\ \A r \in Sends : r # s => (Waiting(r)' <=> Waiting(r))
      BY <3>6, <3>7 DEF Waiting
    <3>9. PromiseInv'
      <4>1. WaitingHasTimer' /\ T3TimersDynamic'
        BY <3>4, <3>5, <3>8 DEF PromiseInv, WaitingHasTimer, T3TimersDynamic
      <4>2. ResumedAtMostOnce'
        BY <3>1, <3>6, <3>7 DEF PromiseInv, ResumedAtMostOnce, Waiting, TypeOK
      <4> QED
        BY <4>1, <4>2 DEF PromiseInv
    <3>10. /\ Status(s) = "waiting" /\ Status(s)' = "replied"
           /\ \A r \in Sends : r # s => Status(r)' = Status(r)
      BY <3>1, <3>6, <3>7, <3>8 DEF Status, Outcome, Waiting
    <3> QED
      BY <3>1, <3>9, <3>10 DEF PromisedStep, Moves
  <2> QED
    BY <1>9, <2>1, <2>2 DEF ReplyArrives
<1>10. CASE EndRun \/ SendBegin \/ SendEnd \/ SelectReturns \/ AlarmFires
            \/ SigUsr1 \/ Unblock \/ EndScan \/ PrimaryArrives \/ Tick
            \/ Terminated \/ UNCHANGED vars
  BY <1>2, <1>10 DEF EndRun, SendBegin, SendEnd, SelectReturns, AlarmFires,
       SigUsr1, Unblock, EndScan, PrimaryArrives, Tick, Terminated, vars
<1>11. CASE timer_handler
  BY <1>2, <1>8, <1>11 DEF timer_handler
<1> QED
  BY <1>4, <1>5, <1>6, <1>7, <1>9, <1>10, <1>11 DEF Next, Program

\* At the start nothing is sent, so there is no timer to be missing.
LEMMA PromiseInit == Init => PromiseInv
<1> SUFFICES ASSUME Init PROVE PromiseInv
  OBVIOUS
<1>1. opened = {} /\ \A s \in Sends : T3Timers(s) = {} /\ ~Waiting(s)
  BY DEF Init, T3Timers, Active, Waiting
<1> QED
  BY <1>1 DEF PromiseInv, WaitingHasTimer, T3TimersDynamic, ResumedAtMostOnce

\* WaitingSendsHaveTimer: a send that waits for its reply has exactly one
\* T3 timer in the timer table, so cmd_send_standard's caller cannot be left
\* without a timeout, whatever the sizes of the tables and the interleaving.
THEOREM WaitingSendsHaveTimer ==
    ASSUME ~LateReplies, StopIds \subseteq 0..(FirstDynamic - 1)
    PROVE  Spec => []WaitingHasTimer
<1>1. TypeOK /\ TransactionInv /\ PromiseInv /\ [Next]_vars => PromiseInv'
  BY PromiseStep DEF PromisedStep
<1>2. PromiseInv => WaitingHasTimer
  BY DEF PromiseInv
<1> QED
  BY <1>1, <1>2, PromiseInit, TypeCorrect, TransactionsAgree, PTL DEF Spec

\* SendsResumedOnce: the timers, the table and the server loop implement
\* OpenTransactions: every send is resumed once, by its reply or by its T3
\* timeout, whatever the sizes of the tables and the interleaving.
THEOREM SendsResumedOnce ==
    ASSUME ~LateReplies, StopIds \subseteq 0..(FirstDynamic - 1)
    PROVE  Spec => ResumedOnce
<1>1. Init => PromiseInv /\ Promise!Init
  <2> SUFFICES ASSUME Init PROVE PromiseInv /\ Promise!Init
    OBVIOUS
  <2>1. opened = {}
    BY DEF Init
  <2>2. PromiseInv
    BY PromiseInit
  <2>3. \A s \in Sends : Status(s) = "unsent"
    BY <2>1 DEF Status
  <2> QED
    BY <2>2, <2>3 DEF Promise!Init
<1>2. TypeOK /\ TransactionInv /\ PromiseInv /\ [Next]_vars
        => PromiseInv' /\ [Promise!Next]_([s \in Sends |-> Status(s)])
  <2> SUFFICES ASSUME TypeOK, TransactionInv, PromiseInv, [Next]_vars
               PROVE  PromiseInv' /\ [Promise!Next]_([s \in Sends |-> Status(s)])
    OBVIOUS
  <2>1. PromisedStep
    BY PromiseStep
  <2> DEFINE S == [s \in Sends |-> Status(s)]
  <2>2. CASE \A s \in Sends : Status(s)' = Status(s)
    <3>1. S' = S
      BY <2>2
    <3> QED
      BY <2>1, <3>1 DEF PromisedStep
  <2>3. ASSUME NEW s \in Sends, Moves(s) PROVE Promise!Next
    <3>1. S' = [S EXCEPT ![s] = Status(s)'] /\ S[s] = Status(s)
      BY <2>3 DEF Moves
    <3>2. Promise!Open(s) \/ Promise!Reply(s) \/ Promise!TimeOut(s)
      BY <2>3, <3>1 DEF Moves, Promise!Open, Promise!Reply, Promise!TimeOut,
                        Promise!Becomes
    <3> QED
      BY <3>2 DEF Promise!Next
  <2> QED
    BY <2>1, <2>2, <2>3 DEF PromisedStep
<1> QED
  BY <1>1, <1>2, TypeCorrect, TransactionsAgree, PTL
     DEF Spec, ResumedOnce, Promise!Spec

=============================================================================
