------------------------------ MODULE SecsLine ------------------------------
(***************************************************************************)
(* SECS-I: two instances of sc on the two ends of a serial line, each      *)
(* running send_secs.c and recv_secs.c.  A sender asks for the line with   *)
(* ENQ, gets it with EOT, sends one block and waits for ACK or NAK.  Both  *)
(* ends may ask at once: the master (rbit=1) then ignores the ENQ of the   *)
(* other, the slave (rbit=0) gives way and receives inside its own send.   *)
(*                                                                         *)
(* A character on the line is a symbol; a block (size byte, header, body   *)
(* and checksum) is one symbol that carries the number of its message, and *)
(* "cut" is what is left of a block when its start or its end is missing.  *)
(* Noise loses a symbol, spoils a block or cuts it.  An end that does not  *)
(* expect a block reads it byte by byte, and its bytes may have any value. *)
(***************************************************************************)
EXTENDS Integers, Sequences

CONSTANTS
    Station,        \* the two ends
    Master,         \* the one with rbit=1
    MaxRetry,       \* the retry= option
    JumpOutcomes,   \* where a jump out of a timer's signal handler goes
    MaxMsgs,        \* bound: messages both ends send, together
    MaxNest,        \* bound: sends under way at one end
    MaxFaults,      \* bound: symbols lost or spoilt
    MaxEarly        \* bound: timers that run out before a late answer

ASSUME LineAssumption ==
    /\ Master \in Station
    /\ \E other \in Station : other # Master /\ Station = {Master, other}
    /\ JumpOutcomes \subseteq {"branch", "caller"} /\ JumpOutcomes # {}
    /\ {MaxRetry, MaxMsgs, MaxNest, MaxFaults, MaxEarly} \subseteq Nat

Peer(s) == CHOOSE p \in Station : p # s

Messages == 1..MaxMsgs

Control == {"ENQ", "EOT", "ACK", "NAK"}
Data == {"block", "spoilt", "cut"}
Symbol(kind, m) == [kind |-> kind, msg |-> m]
Char(kind) == Symbol(kind, 0)
Symbols == [kind : Control \cup Data, msg : 0..MaxMsgs]

VARIABLES
    pc,       \* where each end is
    sends,    \* its sends under way, the innermost last: [msg, retry]
    line,     \* symbols on their way to each end
    started,  \* messages each end has begun to send
    outcome,  \* what send returned to the program, per end and message
    received, \* history: how often the program of each end was run for each
              \* message of the other
    faults,   \* symbols lost or spoilt so far
    early     \* timers that ran out before an answer that was still to come

noise == <<faults, early>>
vars == <<pc, sends, line, started, outcome, received, noise>>

(***************************************************************************)
(* idle   in select()                   eot    ENQ sent, waiting for EOT   *)
(* run    running the program           ack    block sent, waiting for ACK *)
(* enq    send_secsI() begins           size   EOT sent, waiting for the   *)
(* drain  in completion(), until the           size byte of a block        *)
(*        line is quiet                 block  waiting for the rest of it  *)
(***************************************************************************)
Locations == {"idle", "run", "enq", "eot", "ack", "size", "block",
              "drain"}
Frame == [msg : Messages, retry : 0..(MaxRetry + 1)]

\* TypeOK: the variables stay in their types and the nesting in its bound.
TypeOK ==
    /\ pc \in [Station -> Locations]
    /\ sends \in [Station -> Seq(Frame)]
    /\ \A s \in Station : Len(sends[s]) <= MaxNest
    /\ line \in [Station -> Seq(Symbols)]
    /\ started \in [Station -> 0..MaxMsgs]
    /\ outcome \in [Station -> [Messages -> {"none", "ok", "failed"}]]
    /\ received \in [Station -> [Messages -> Nat]]
    /\ faults \in 0..MaxFaults /\ early \in 0..MaxEarly

Init ==
    /\ pc = [s \in Station |-> "idle"]
    /\ sends = [s \in Station |-> <<>>]
    /\ line = [s \in Station |-> <<>>]
    /\ started = [s \in Station |-> 0]
    /\ outcome = [s \in Station |-> [m \in Messages |-> "none"]]
    /\ received = [s \in Station |-> [m \in Messages |-> 0]]
    /\ faults = 0 /\ early = 0

-----------------------------------------------------------------------------
(* Steps the handlers are made of. *)

Goto(s, where) == pc' = [pc EXCEPT ![s] = where]

\* my_writec() to the other end
Write(s, symbol) == line' = [line EXCEPT ![Peer(s)] = Append(@, symbol)]

\* my_readc() takes the next character: of a block, one byte and perhaps all
Rests(s) ==
    {Tail(line[s])} \cup
    {<<Char("cut")>> \o Tail(line[s]) : x \in {Head(line[s]).kind} \cap Data}

Take(s) == \E rest \in Rests(s) : line' = [line EXCEPT ![s] = rest]

\* my_readc() takes the next character and the answer goes out
TakeAndWrite(s, symbol) ==
    \E rest \in Rests(s) :
        line' = [line EXCEPT ![s] = rest, ![Peer(s)] = Append(@, symbol)]

\* The next symbol is of one of these kinds; the next character may be
Reads(s, kinds) == line[s] # <<>> /\ Head(line[s]).kind \in kinds
Hears(s, char) == Reads(s, {char} \cup Data)

Top(s) == sends[s][Len(sends[s])]
Popped(s) == SubSeq(sends[s], 1, Len(sends[s]) - 1)

\* send_secsII() ends with this result and the program goes on
Ends(s, result) ==
    /\ outcome' = [outcome EXCEPT ![s][Top(s).msg] = result]
    /\ sends' = [sends EXCEPT ![s] = Popped(s)]
    /\ Goto(s, "run")

\* The retry loop of send_secsII() after a protocol error
Retry(s) ==
    \/ /\ Top(s).retry > 1
       /\ sends' = [sends EXCEPT ![s][Len(sends[s])].retry = @ - 1]
       /\ Goto(s, "enq")
       /\ UNCHANGED outcome
    \/ Top(s).retry <= 1 /\ Ends(s, "failed")

\* Mutant of Resume: one try too many after contention
Resume_OneMore(s) ==
    \/ /\ sends[s] # <<>>
       /\ sends' = [sends EXCEPT ![s][Len(sends[s])].retry = MaxRetry + 2]
       /\ Goto(s, "enq")
    \/ sends[s] = <<>> /\ sends' = sends /\ Goto(s, "idle")

\* A program run or a reception is over: back to the send it happened in,
\* whose retries start anew, or to select()
Resume(s) ==
    \/ /\ sends[s] # <<>>
       /\ sends' = [sends EXCEPT ![s][Len(sends[s])].retry = MaxRetry + 1]
       /\ Goto(s, "enq")
    \/ sends[s] = <<>> /\ sends' = sends /\ Goto(s, "idle")

\* No answer is on its way and none will be written
Waits(s) == pc[s] \in {"idle", "eot", "ack", "size", "block", "drain"}
Quiet(s) == \A t \in Station : line[t] = <<>> /\ Waits(t)

\* A protocol timer runs out: nothing more would come, or the answer is late
Expires(s) ==
    \/ Quiet(s) /\ UNCHANGED noise
    \/ /\ ~Quiet(s) /\ line[s] = <<>> /\ early < MaxEarly
       /\ early' = early + 1 /\ UNCHANGED faults

-----------------------------------------------------------------------------
(* Sending: send_secsII() and send_secsI(). *)

\* The program sends its next message
Send(s) ==
    /\ pc[s] \in {"idle", "run"}
    /\ started[s] + started[Peer(s)] < MaxMsgs /\ Len(sends[s]) < MaxNest
    /\ started' = [started EXCEPT ![s] = @ + 1]
    /\ sends' = [sends EXCEPT ![s] =
          Append(@, [msg |-> started[s] + 1, retry |-> MaxRetry + 1])]
    /\ Goto(s, "enq")
    /\ UNCHANGED <<line, outcome, received, noise>>

\* send_secsI() begins: ENQ
Ask(s) ==
    /\ pc[s] = "enq"
    /\ Write(s, Char("ENQ"))
    /\ Goto(s, "eot")
    /\ UNCHANGED <<sends, started, outcome, received, noise>>

\* EOT: the line is ours, the block goes out
Granted(s) ==
    /\ pc[s] = "eot" /\ Hears(s, "EOT")
    /\ TakeAndWrite(s, Symbol("block", Top(s).msg))
    /\ Goto(s, "ack")
    /\ UNCHANGED <<sends, started, outcome, received, noise>>

\* Mutant of Contention: the master gives way too
Contention_Both(s) ==
    /\ pc[s] = "eot" /\ Hears(s, "ENQ")
    /\ TakeAndWrite(s, Char("EOT"))
    /\ Goto(s, "size")
    /\ UNCHANGED <<sends, started, outcome, received, noise>>

\* ENQ instead of EOT: the slave gives way and calls recv_secs(), which
\* answers EOT at once
Contention(s) ==
    /\ pc[s] = "eot" /\ Hears(s, "ENQ") /\ s # Master
    /\ TakeAndWrite(s, Char("EOT"))
    /\ Goto(s, "size")
    /\ UNCHANGED <<sends, started, outcome, received, noise>>

\* Anything else while waiting for EOT is skipped; the master skips ENQ
NotEot(s) ==
    /\ pc[s] = "eot"
    /\ Reads(s, {"ACK", "NAK"} \cup Data) \/ (Reads(s, {"ENQ"}) /\ s = Master)
    /\ Take(s)
    /\ UNCHANGED <<pc, sends, started, outcome, received, noise>>

\* ACK ends the send; NAK or anything else is a protocol error
Answered(s) ==
    /\ pc[s] = "ack" /\ line[s] # <<>>
    /\ Take(s)
    /\ \/ Hears(s, "ACK") /\ Ends(s, "ok")
       \/ ~Reads(s, {"ACK"}) /\ Retry(s)
    /\ UNCHANGED <<started, received, noise>>

\* Mutant of SendTimeout: T2 is not started for the ACK
SendTimeout_EotOnly(s) ==
    /\ pc[s] = "eot" /\ Expires(s)
    /\ \/ "branch" \in JumpOutcomes /\ Retry(s)
       \/ "caller" \in JumpOutcomes /\ Ends(s, "failed")
    /\ UNCHANGED <<line, started, received>>

\* T2 runs out.  "branch": send_secsI() returns 1 as its source says.
\* "caller": it looks as if my_readc() had failed and send_secsI() returns 3.
SendTimeout(s) ==
    /\ pc[s] \in {"eot", "ack"} /\ Expires(s)
    /\ \/ "branch" \in JumpOutcomes /\ Retry(s)
       \/ "caller" \in JumpOutcomes /\ Ends(s, "failed")
    /\ UNCHANGED <<line, started, received>>

-----------------------------------------------------------------------------
(* Receiving: recv_secsI(), for a message of one block. *)

\* handler() finds a character: ENQ starts a reception, others are discarded
Listen(s) ==
    /\ pc[s] = "idle" /\ line[s] # <<>>
    /\ \/ Hears(s, "ENQ") /\ TakeAndWrite(s, Char("EOT")) /\ Goto(s, "size")
       \/ ~Reads(s, {"ENQ"}) /\ Take(s) /\ UNCHANGED pc
    /\ UNCHANGED <<sends, started, outcome, received, noise>>

\* ENQ in place of the size byte is skipped
SkipEnq(s) ==
    /\ pc[s] = "size" /\ Reads(s, {"ENQ"})
    /\ Take(s)
    /\ UNCHANGED <<pc, sends, started, outcome, received, noise>>

\* A block with a good checksum: ACK, and the program runs for the message
Accept(s) ==
    /\ pc[s] = "size" /\ Reads(s, {"block"})
    /\ line' = [line EXCEPT ![s] = Tail(@), ![Peer(s)] = Append(@, Char("ACK"))]
    /\ received' = [received EXCEPT ![s][Head(line[s]).msg] = @ + 1]
    /\ Goto(s, "run")
    /\ UNCHANGED <<sends, started, outcome, noise>>

\* A size byte below 10 (EOT is 4, ACK is 6) or a wrong checksum: the rest is
\* drained before the NAK
Reject(s) ==
    /\ pc[s] = "size" /\ Reads(s, {"EOT", "ACK", "spoilt", "cut"})
    /\ Take(s)
    /\ Goto(s, "drain")
    /\ UNCHANGED <<sends, started, outcome, received, noise>>

\* A size byte of 10 or more (NAK is 21) and then too few bytes
Begin(s) ==
    /\ pc[s] = "size" /\ Reads(s, {"NAK", "spoilt", "cut"})
    /\ Take(s)
    /\ Goto(s, "block")
    /\ UNCHANGED <<sends, started, outcome, received, noise>>

\* What comes then counts as the rest of the block, whose checksum is wrong
Swallow(s) ==
    /\ pc[s] = "block" /\ line[s] # <<>>
    /\ Take(s)
    /\ Goto(s, "block") \/ Goto(s, "drain")
    /\ UNCHANGED <<sends, started, outcome, received, noise>>

\* completion() discards what comes until T1 runs out, then NAK
Drain(s) ==
    /\ pc[s] = "drain" /\ line[s] # <<>>
    /\ Take(s)
    /\ UNCHANGED <<pc, sends, started, outcome, received, noise>>

\* Mutant of Drained: ACK for a block with a wrong checksum
Drained_Ack(s) ==
    /\ pc[s] = "drain" /\ Expires(s)
    /\ Write(s, Char("ACK"))
    /\ Resume(s)
    /\ UNCHANGED <<started, outcome, received>>

Drained(s) ==
    /\ pc[s] = "drain" /\ Expires(s)
    /\ Write(s, Char("NAK"))
    /\ Resume(s)
    /\ UNCHANGED <<started, outcome, received>>

\* A timer runs out in recv_secsI().  "branch": NAK and return 2.  "caller":
\* it looks as if my_readc() had failed: return 1 without a NAK.
GiveUp(s) ==
    /\ \/ "branch" \in JumpOutcomes /\ Write(s, Char("NAK"))
       \/ "caller" \in JumpOutcomes /\ UNCHANGED line
    /\ Resume(s)
    /\ UNCHANGED <<started, outcome, received>>

\* T2 while waiting for the size byte
SizeTimeout(s) == pc[s] = "size" /\ Expires(s) /\ GiveUp(s)

\* T1 while waiting for the next byte of the block
BlockTimeout(s) == pc[s] = "block" /\ Expires(s) /\ GiveUp(s)

\* The program, run for a message or after a send, ends
EndRun(s) ==
    /\ pc[s] = "run"
    /\ Resume(s)
    /\ UNCHANGED <<line, started, outcome, received, noise>>

-----------------------------------------------------------------------------
(* The line. *)

Lose(s) ==
    /\ faults < MaxFaults /\ line[s] # <<>>
    /\ Take(s)
    /\ faults' = faults + 1
    /\ UNCHANGED <<pc, sends, started, outcome, received, early>>

Spoil(s, how) ==
    /\ faults < MaxFaults /\ Reads(s, {"block"})
    /\ line' = [line EXCEPT ![s][1] = Char(how)]
    /\ faults' = faults + 1
    /\ UNCHANGED <<pc, sends, started, outcome, received, early>>

Finished ==
    /\ \A s \in Station : pc[s] = "idle" /\ started[s] + started[Peer(s)] = MaxMsgs /\ line[s] = <<>>
    /\ UNCHANGED vars

Sender(s) ==
    Send(s) \/ Ask(s) \/ Granted(s) \/ Contention(s) \/ NotEot(s)
        \/ Answered(s) \/ SendTimeout(s)

Receiver(s) ==
    Listen(s) \/ SkipEnq(s) \/ Accept(s) \/ Reject(s) \/ Begin(s) \/ Swallow(s)
        \/ Drain(s) \/ Drained(s) \/ SizeTimeout(s) \/ BlockTimeout(s)

Noise == \E s \in Station : Lose(s) \/ \E how \in {"spoilt", "cut"} : Spoil(s, how)

Next ==
    \/ \E s \in Station : Sender(s) \/ Receiver(s) \/ EndRun(s)
    \/ Noise
    \/ Finished

Spec == Init /\ [][Next]_vars

-----------------------------------------------------------------------------
(* Properties. *)

\* OkMeansReceived: when a send reports success to its program, the program of
\* the other end has been run for that message: through noise and contention
\* no ACK of an earlier block or message is taken for the ACK of this one.  Only
\* a timer that runs out before a late ACK may break this, because an ACK does
\* not say what it is for.
OkMeansReceived ==
    early = 0 => \A s \in Station, m \in Messages :
        outcome[s][m] = "ok" => received[Peer(s)][m] > 0

\* CleanLine: as long as there is no noise and no late answer, contention never
\* loses, repeats or fails a message, and nothing is ever rejected.
CleanLine ==
    faults = 0 /\ early = 0 => \A s \in Station, m \in Messages :
        /\ outcome[s][m] # "failed"
        /\ received[Peer(s)][m] <= 1
        /\ pc[s] # "drain"

\* SendsEnd: every send returns to its program, with success or failure,
\* through contention, noise and retries.
SendsEnd ==
    \A s \in Station : sends[s] # <<>> ~> sends[s] = <<>>

Fairness ==
    \A s \in Station :
        WF_vars((Sender(s) /\ ~Send(s)) \/ Receiver(s) \/ EndRun(s))

FairSpec == Spec /\ Fairness

\* NoDuplicates: a block that is sent again because its ACK was lost is
\* discarded as a duplicate and not handed to the program twice.
NoDuplicates ==
    \A s \in Station, m \in Messages : received[s][m] <= 1
=============================================================================
