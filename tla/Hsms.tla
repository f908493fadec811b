-------------------------------- MODULE Hsms --------------------------------
(***************************************************************************)
(* HSMS: sc as the client of a piece of equipment over TCP.  cmd_open()    *)
(* connects and asks to be selected until hsms_client_connect() succeeds;  *)
(* then the server loop receives messages with recv_hsms().  recv_hsmsI()  *)
(* cuts the stream into messages: length bytes, header, body.              *)
(*                                                                         *)
(* The 4 length bytes and the 10 header bytes are one symbol each, every   *)
(* byte of a body is one.  The equipment is external: it writes whole      *)
(* messages, the network hands them over in pieces of any size at any      *)
(* time.  After framing is lost what is read means nothing: the model      *)
(* stops at "garbled".                                                     *)
(***************************************************************************)
EXTENDS ProtoTimers, SequencesExt

CONSTANTS
    T6, T8,         \* the options t6= and t8=, in seconds
    MaxRead,        \* MAX_READ: bytes asked for in one read of a body
    Bodies,         \* lengths of the bodies of data messages
    JumpOutcomes,   \* where a jump out of a timer's signal handler goes
    MaxSent,        \* bound: messages the equipment sends by itself
    MaxConnects     \* bound: connections made

ASSUME HsmsAssumption ==
    /\ {6, 8} \subseteq Timers
    /\ {T6, T8} \subseteq 1..MaxAlarm
    /\ {MaxRead, MaxConnects} \subseteq Nat \ {0}
    /\ Bodies \subseteq Nat /\ Bodies # {} /\ MaxSent \in Nat
    /\ JumpOutcomes \subseteq {"branch", "caller"} /\ JumpOutcomes # {}

VARIABLES
    loc,        \* where sc is
    part,       \* what recv_hsmsI() reads next
    left,       \* its i, the bytes of the body still to come; Wrapped below 0
    msg,        \* the message whose header it has read
    wire,       \* symbols that arrived and are not read yet
    coming,     \* symbols on their way
    peer,       \* the equipment: "asked", "selected" or "closed"
    connects,   \* connections made
    tests,      \* link tests the equipment sent on this connection
    sent,       \* history: data messages the equipment sent
    delivered,  \* history: data messages the program was run for
    lost,       \* history: a reception went past or stopped inside a message
    excused,    \* history: the handshake met what it does not handle
    stray       \* history: a timer was left running

stream == <<part, left, msg, wire>>
history == <<sent, delivered, lost, excused, stray>>
vars == <<clock, loc, stream, coming, peer, connects, tests, history>>

Wrapped == -1
NoMsg == [stype |-> "none", id |-> 0, size |-> 0]
Control(stype) == [stype |-> stype, id |-> 0, size |-> 0]
DataMsg(id, size) == [stype |-> "data", id |-> id, size |-> size]
Stypes == {"none", "data", "select.req", "select.rsp", "linktest.req",
           "linktest.rsp", "separate.req"}
Message == [stype : Stypes, id : 0..MaxSent, size : Bodies \cup {0}]

Symbol(p, m) == [part |-> p, msg |-> m]
Bytes(m) == <<Symbol("length", m), Symbol("header", m)>>
                \o [i \in 1..m.size |-> Symbol("body", m)]

(***************************************************************************)
(* open       cmd_open() has a socket   select  in select() of the loop    *)
(* selecting  client_connect() waits    recv    recv_hsms() receives       *)
(*            for the response          closed  no connection              *)
(* t5         hsms_client_connect()     dead    FATAL                      *)
(*            sleeps for T5             wild    a timer jumped to a place  *)
(* exec       the program runs                  that is gone               *)
(***************************************************************************)
Locations == {"open", "selecting", "t5", "exec", "select", "recv", "closed",
              "dead", "wild", "garbled"}
Reading == loc \in {"selecting", "recv"}
Connected == loc \notin {"closed", "dead", "wild", "garbled"}

\* TypeOK: the variables stay in their types.
TypeOK ==
    /\ ClockType
    /\ loc \in Locations
    /\ part \in {"length", "header", "body"}
    /\ left \in {Wrapped} \cup Nat
    /\ msg \in Message
    /\ wire \in Seq([part : {"length", "header", "body"}, msg : Message])
    /\ coming \in Seq([part : {"length", "header", "body"}, msg : Message])
    /\ peer \in {"asked", "selected", "closed"}
    /\ connects \in 1..MaxConnects /\ tests \in 0..MaxSent
    /\ sent \in Seq(Message) /\ delivered \in Seq(Message)
    /\ {lost, excused, stray} \subseteq BOOLEAN

Init ==
    /\ clock = init_proto_timers
    /\ loc = "open" /\ part = "length" /\ left = 0 /\ msg = NoMsg
    /\ wire = <<>> /\ coming = <<>> /\ peer = "asked" /\ connects = 1
    /\ tests = 0 /\ sent = <<>> /\ delivered = <<>>
    /\ lost = FALSE /\ excused = FALSE /\ stray = FALSE

-----------------------------------------------------------------------------
(* recv_hsmsI(): every read has its own T8. *)

Goto(where) == loc' = where

\* The reception begins with a read of the length; c is the clock so far
Begins(c) ==
    /\ part' = "length" /\ left' = 0 /\ msg' = NoMsg
    /\ clock' = start_proto_timer(c, 8, T8)

\* Mutant of NextRead: T8 is started only once
NextRead_Once == clock' = stop_proto_timer(clock, 8)

\* T8 of the read that is over stops and the one of the next starts
NextRead == clock' = start_proto_timer(stop_proto_timer(clock, 8), 8, T8)

\* The reception is over; what it read of a message is forgotten
Ends == part' = "length" /\ left' = 0 /\ msg' = NoMsg

\* A reception that fails inside a message leaves the rest of it behind
Broken == lost' = (lost \/ part # "length")

\* Mutant of ReceptionFails: client_connect() does not return the error
ReceptionFails_Ignored(c) ==
    /\ Ends
    /\ \/ loc = "selecting" /\ clock' = stop_proto_timer(c, 6) /\ Goto("exec")
       \/ loc = "recv" /\ clock' = c /\ Goto("select")

\* Mutant of ReceptionFails: T6 is not stopped
ReceptionFails_T6Runs(c) ==
    /\ Ends
    /\ clock' = c
    /\ \/ loc = "selecting" /\ Goto("t5")
       \/ loc = "recv" /\ Goto("select")

\* recv_hsmsI() returns 1 to client_connect(), which stops T6, or to
\* recv_hsms(), whose error goes no further than handler(); c is the clock
\* it leaves
ReceptionFails(c) ==
    /\ Ends
    /\ \/ loc = "selecting" /\ clock' = stop_proto_timer(c, 6) /\ Goto("t5")
       \/ loc = "recv" /\ clock' = c /\ Goto("select")

\* What recv_hsms() does with a message, by its stype
Dispatch(m) ==
    \/ /\ m.stype = "data"
       /\ delivered' = Append(delivered, m)
       /\ Goto("exec")
       /\ UNCHANGED <<coming, excused>>
    \/ /\ m.stype \in {"select.req", "linktest.req", "separate.req"}
       /\ Goto("select")
       /\ UNCHANGED <<coming, delivered, excused>>
    \/ /\ m.stype \in {"select.rsp", "linktest.rsp"}
       /\ Goto("dead")
       /\ UNCHANGED <<coming, delivered, excused>>

\* A whole message is there: client_connect() takes any for the response
Completes(m) ==
    /\ Ends
    /\ \/ /\ loc = "selecting"
          /\ clock' = stop_proto_timer(stop_proto_timer(clock, 8), 6)
          /\ excused' = (excused \/ m.stype # "select.rsp")
          /\ Goto("exec")
          /\ UNCHANGED <<coming, delivered>>
       \/ /\ loc = "recv"
          /\ clock' = stop_proto_timer(clock, 8)
          /\ Dispatch(m)

ReadLength ==
    /\ Reading /\ part = "length" /\ wire # <<>>
    /\ wire' = Tail(wire)
    /\ \/ /\ Head(wire).part = "length"
          /\ part' = "header" /\ NextRead
          /\ UNCHANGED <<loc, left, msg>>
       \/ /\ Head(wire).part # "length"
          /\ Goto("garbled") /\ Ends /\ clock' = init_proto_timers
    /\ UNCHANGED <<coming, peer, connects, tests, history>>

\* Mutant of Rest: the length counts the header
Rest_Counted(m) == m.size + 1

\* length - 10
Rest(m) == m.size

ReadHeader ==
    /\ Reading /\ part = "header" /\ wire # <<>>
    /\ wire' = Tail(wire)
    /\ LET m == Head(wire).msg IN
       \/ /\ Rest(m) = 0
          /\ Completes(m)
       \/ /\ Rest(m) > 0
          /\ part' = "body" /\ left' = Rest(m) /\ msg' = m /\ NextRead
          /\ UNCHANGED <<loc, coming, delivered, excused>>
    /\ UNCHANGED <<peer, connects, tests, sent, lost, stray>>

\* Mutant of Count: the number is signed
Count_Signed(n) == left - n

\* i - bytes_read as an unsigned number: past 0 it does not come back
Count(n) == IF left >= n THEN left - n ELSE Wrapped

\* read() hands out what has arrived, up to MAX_READ bytes, also of the next
\* message
ReadBody ==
    /\ Reading /\ part = "body" /\ wire # <<>>
    /\ LET n == Min({MaxRead, Len(wire)}) IN
       /\ wire' = SubSeq(wire, n + 1, Len(wire))
       /\ lost' = (lost \/ n > left)
       /\ \/ /\ Count(n) = 0
             /\ Completes(msg)
          \/ /\ Count(n) # 0
             /\ left' = Count(n) /\ NextRead
             /\ UNCHANGED <<loc, part, msg, coming, delivered, excused>>
    /\ UNCHANGED <<peer, connects, tests, sent, stray>>

\* read() returns 0: client_disconnect(), then the error path of the place;
\* the one of the header does not stop T8
Hangup ==
    /\ Reading /\ wire = <<>> /\ coming = <<>> /\ peer = "closed"
    /\ Broken
    /\ stray' = (stray \/ part = "header")
    /\ ReceptionFails(IF part = "header" THEN clock
                      ELSE stop_proto_timer(clock, 8))
    /\ UNCHANGED <<wire, coming, peer, connects, tests, sent, delivered, excused>>

-----------------------------------------------------------------------------
(* SIGALRM.  The jump goes to the line behind the call of                  *)
(* do_the_setsigjump() ("branch"), or makes the call that was interrupted  *)
(* return 1 ("caller").                                                    *)

\* The handler as it leaves the clock
Handled == timeout_handler(clock)

\* T8 runs out while its read waits
T8Branch ==
    /\ Broken
    /\ ReceptionFails(IF part = "length" THEN Handled
                      ELSE stop_proto_timer(Handled, 8))
    /\ UNCHANGED <<wire, coming, delivered, excused>>

\* my_readc() returned 1 is an error, my_readx() returned 1 is a byte
T8Caller ==
    \/ /\ part # "body"
       /\ Broken
       /\ ReceptionFails(IF part = "length" THEN stop_proto_timer(Handled, 8)
                         ELSE Handled)
       /\ UNCHANGED <<wire, coming, delivered, excused>>
    \/ /\ part = "body"
       /\ lost' = TRUE
       /\ \/ /\ Count(1) = 0
             /\ Completes(msg)
          \/ /\ Count(1) # 0
             /\ left' = Count(1)
             /\ clock' = start_proto_timer(stop_proto_timer(Handled, 8), 8, T8)
             /\ UNCHANGED <<loc, part, msg, coming, delivered, excused>>
       /\ UNCHANGED wire

\* T6 runs out: client_connect() returns the 0 of send_hsmsI(), or the 1 of
\* recv_hsmsI(); either way T8 goes on
T6Runs ==
    /\ Broken
    /\ Ends
    /\ clock' = stop_proto_timer(Handled, 6)
    /\ \/ "branch" \in JumpOutcomes /\ Goto("exec") /\ excused' = TRUE
       \/ "caller" \in JumpOutcomes /\ Goto("t5") /\ UNCHANGED excused
    /\ UNCHANGED <<wire, coming, delivered>>

SigAlrm ==
    /\ clock.alarm = 0
    /\ \/ /\ Overdue(clock.timers) = {}
          /\ clock' = Handled
          /\ UNCHANGED <<loc, stream, coming, history>>
       \/ /\ Overdue(clock.timers) # {}
          /\ ~Reading \/ (loc = "recv" /\ Due(clock.timers) = 6)
          /\ clock' = Handled
          /\ Goto("wild")
          /\ UNCHANGED <<stream, coming, history>>
       \/ /\ Overdue(clock.timers) # {} /\ Reading
          /\ \/ /\ Due(clock.timers) = 8
                /\ \/ "branch" \in JumpOutcomes /\ T8Branch
                   \/ "caller" \in JumpOutcomes /\ T8Caller
                /\ UNCHANGED stray
             \/ /\ Due(clock.timers) = 6 /\ loc = "selecting"
                /\ T6Runs
                /\ stray' = TRUE
          /\ UNCHANGED sent
    /\ UNCHANGED <<peer, connects, tests>>

Tick ==
    /\ clock.alarm # 0
    /\ clock' = Elapsed(clock)
    /\ UNCHANGED <<loc, stream, coming, peer, connects, tests, history>>

-----------------------------------------------------------------------------
(* Connecting, in cmd_open(), and the server loop. *)

\* client_connect() sends the request, starts T6 and receives; the write
\* fails when the connection is gone
client_connect ==
    /\ loc = "open"
    /\ \/ Begins(start_proto_timer(clock, 6, T6)) /\ Goto("selecting")
       \/ peer = "closed" /\ Goto("t5") /\ UNCHANGED <<clock, part, left, msg>>
    /\ UNCHANGED <<wire, coming, peer, connects, tests, history>>

\* After T5 cmd_open() closes the socket and opens another, or gives up
Reconnect ==
    /\ loc = "t5" /\ connects < MaxConnects
    /\ wire' = <<>> /\ coming' = <<>> /\ sent' = <<>> /\ delivered' = <<>>
    /\ lost' = FALSE /\ tests' = 0
    /\ connects' = connects + 1
    /\ \/ Goto("open") /\ peer' = "asked"
       \/ Goto("closed") /\ peer' = "closed"
    /\ UNCHANGED <<clock, part, left, msg, excused, stray>>

\* The program is done; the loop has an alarm of its own (server.c)
EnterLoop ==
    /\ loc = "exec"
    /\ Goto("select")
    /\ clock' = [clock EXCEPT !.alarm = NoAlarm]
    /\ UNCHANGED <<stream, coming, peer, connects, tests, history>>

\* select() reports the connection and handler() calls recv_hsms()
recv_hsms ==
    /\ loc = "select"
    /\ wire # <<>> \/ (coming = <<>> /\ peer = "closed")
    /\ Begins(clock)
    /\ Goto("recv")
    /\ UNCHANGED <<wire, coming, peer, connects, tests, history>>

-----------------------------------------------------------------------------
(* The equipment and the network. *)

\* The select request is answered; it may come late or never
PeerAnswers ==
    /\ loc \in {"selecting", "t5", "exec", "select", "recv"} /\ peer = "asked"
    /\ coming' = coming \o Bytes(Control("select.rsp"))
    /\ peer' = "selected"
    /\ UNCHANGED <<clock, loc, stream, connects, tests, history>>

\* Data once it is selected, a link test at any time
PeerSends ==
    /\ loc # "open" /\ Connected /\ peer # "closed"
    /\ Len(sent) + tests < MaxSent
    /\ \/ /\ peer = "selected"
          /\ \E size \in Bodies :
               LET m == DataMsg(Len(sent) + 1, size) IN
               coming' = coming \o Bytes(m) /\ sent' = Append(sent, m)
          /\ UNCHANGED tests
       \/ /\ coming' = coming \o Bytes(Control("linktest.req"))
          /\ tests' = tests + 1
          /\ UNCHANGED sent
    /\ UNCHANGED <<clock, loc, stream, peer, connects, delivered, lost, excused,
                   stray>>

PeerCloses ==
    /\ loc # "open" /\ Connected /\ peer # "closed"
    /\ peer' = "closed"
    /\ \/ coming' = coming \o Bytes(Control("separate.req"))
       \/ coming' = coming
       \/ \E k \in 0..(Len(coming) - 1) : coming' = SubSeq(coming, 1, k)
    /\ UNCHANGED <<clock, loc, stream, connects, tests, history>>

Arrive ==
    /\ Connected /\ coming # <<>>
    /\ \E k \in 1..Len(coming) :
          /\ wire' = wire \o SubSeq(coming, 1, k)
          /\ coming' = SubSeq(coming, k + 1, Len(coming))
    /\ UNCHANGED <<clock, loc, part, left, msg, peer, connects, tests, history>>

Stopped ==
    /\ \/ ~Connected
       \/ loc = "t5" /\ connects = MaxConnects
       \/ loc = "select" /\ wire = <<>> /\ coming = <<>>
    /\ UNCHANGED vars

Receive == ReadLength \/ ReadHeader \/ ReadBody \/ Hangup
Peer == PeerAnswers \/ PeerSends \/ PeerCloses
Next == Receive \/ SigAlrm \/ Tick \/ client_connect \/ Reconnect
        \/ EnterLoop \/ recv_hsms \/ Peer \/ Arrive \/ Stopped

Spec == Init /\ [][Next]_vars

\* Time passes or sc reacts; the equipment owes nothing
FairSpec == Spec /\ WF_vars(Receive \/ SigAlrm \/ Tick)

-----------------------------------------------------------------------------
(* Properties. *)

\* AlarmPending: while recv_hsmsI() waits and no timer was left over from an
\* earlier call, the alarm comes as soon as the first of T6 and T8 runs out,
\* whatever order the timers were started, stopped and run out in.
AlarmPending == Reading /\ ~stray => AlarmCovers

\* Framed: however the network cuts the stream, the program is run for the
\* data messages that were sent, whole, once each and in order, and for all of
\* them once the stream is read; only a reception that broke off inside a
\* message or read beyond its end can lose the framing.
Framed ==
    /\ loc = "garbled" => lost
    /\ ~lost /\ ~excused =>
         /\ IsPrefix(delivered, sent)
         /\ (loc = "select" /\ wire \o coming = <<>> /\ peer = "selected")
               => delivered = sent

\* Selected: cmd_open() goes on with the program only when the equipment has
\* answered this connection's select request, and a response never reaches
\* recv_hsms(), which takes it for a fatal error; except where T6 ran out or
\* another message was taken for the response.
Selected ==
    ~excused => /\ loc # "dead"
                /\ loc \in {"exec", "select", "recv"} => peer # "asked"

\* NoTimerLeft: no protocol timer runs when no reception does, so that a timer
\* never jumps into a function that has returned; except for the T8 that the
\* header's error path and the end of T6 leave running.
NoTimerLeft ==
    ~stray => /\ loc # "wild"
              /\ ~Reading => Running(clock.timers) = {}

\* ReceptionEnds: a reception comes to an end even if the equipment falls
\* silent inside a message; except when an earlier call left its T8 running,
\* whose alarm the server loop has replaced, or when it has read past the end
\* of the message and counts down from 2^32.
ReceptionEnds == Reading ~> ~Reading \/ stray \/ left = Wrapped

\* OnlyItsMessage: the loop under "Get the rest of the message" takes no
\* byte of the message behind it, as long as every byte comes in time.
OnlyItsMessage == left # Wrapped
=============================================================================
