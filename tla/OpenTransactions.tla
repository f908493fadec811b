-------------------------- MODULE OpenTransactions --------------------------
(***************************************************************************)
(* What the transaction table and the T3 timers promise a program: every   *)
(* primary message sent with the wait bit is resumed once, either by its   *)
(* reply or by a timeout, and by nothing else.                             *)
(***************************************************************************)
CONSTANT Sends
VARIABLE status

Init == status = [s \in Sends |-> "unsent"]

Becomes(s, old, new) ==
    /\ status[s] = old
    /\ status' = [status EXCEPT ![s] = new]

Open(s)    == Becomes(s, "unsent", "waiting")
Reply(s)   == Becomes(s, "waiting", "replied")
TimeOut(s) == Becomes(s, "waiting", "timed out")

Next == \E s \in Sends : Open(s) \/ Reply(s) \/ TimeOut(s)

Spec == Init /\ [][Next]_status
=============================================================================
