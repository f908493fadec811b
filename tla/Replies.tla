------------------------------- MODULE Replies -------------------------------
(***************************************************************************)
(* send_reply finds its receiver in two places that are overwritten by     *)
(* whatever comes in: the client that sent last on the connection, and the *)
(* system bytes of the primary message received last, on any connection.   *)
(* The program may have been suspended between the message and its reply,  *)
(* by a send that waits, or interrupted, by contention.                    *)
(***************************************************************************)
EXTENDS Naturals, Sequences

CONSTANTS
    Names,      \* names of connections
    Clients,    \* file descriptors of clients
    get_proto,  \* the protocol of each name
    MaxMsgs,    \* bound: primary messages
    MaxStack    \* bound: receptions within receptions

ASSUME RepliesAssumption ==
    /\ get_proto \in [Names -> {"secs", "hsms", "standard", "xml"}]
    /\ 0 \notin Clients /\ MaxMsgs \in Nat /\ MaxStack \in Nat \ {0}

VARIABLES
    client_fd,            \* fd_info[].client_fd; 0 before the first message
    saved_system_bytes,   \* of secs.c
    running,              \* messages being handled, the innermost last
    waiting,              \* messages whose handling waits for a reply
    answered,             \* history: the reply just sent
    count                 \* history: primary messages so far

vars == <<client_fd, saved_system_bytes, running, waiting, answered, count>>

\* A message being handled: where it came from, and what has come since that
\* replaced its client or its system bytes
Messages == [name : Names, client : Clients, bytes : 0..MaxMsgs,
             lost : SUBSET {"client", "bytes"}]
HasBytes(n) == get_proto[n] \in {"secs", "hsms"}

TypeOK ==
    /\ client_fd \in [Names -> Clients \cup {0}]
    /\ saved_system_bytes \in 0..MaxMsgs /\ count \in 0..MaxMsgs
    /\ running \in Seq(Messages) /\ Len(running) <= MaxStack
    /\ waiting \subseteq [message : Messages, on : Names, to : Clients]
    /\ answered = <<>> \/ answered[1] \in
         [message : Messages, to : Clients \cup {0}, bytes : 0..MaxMsgs]

Init ==
    /\ client_fd = [n \in Names |-> 0] /\ saved_system_bytes = 0
    /\ running = <<>> /\ waiting = {} /\ answered = <<>> /\ count = 0

-----------------------------------------------------------------------------

\* What a message loses when client c sends on n, and when a primary message
\* with system bytes comes in
Later(m, n, c, primary) ==
    [m EXCEPT !.lost = @ \cup (IF m.name = n /\ m.client # c THEN {"client"} ELSE {})
                         \cup (IF primary THEN {"bytes"} ELSE {})]
LosesBytes(m) == [m EXCEPT !.lost = @ \cup {"bytes"}]
LaterAll(ms, n, c, primary) ==
    [i \in DOMAIN ms |-> Later(ms[i], n, c, primary)]
LaterWaits(ws, n, c, primary) ==
    {[w EXCEPT !.message = Later(@, n, c, primary)] : w \in ws}

update_fd_info(n, c) == client_fd' = [client_fd EXCEPT ![n] = c]

\* Mutant of NewMessage: the number after the next
NewMessage_Ahead(n, c) == [name |-> n, client |-> c, bytes |-> count + 2, lost |-> {}]

\* A primary message of a protocol with system bytes is remembered by them
NewMessage(n, c) == [name |-> n, client |-> c,
                     bytes |-> IF HasBytes(n) THEN count + 1 ELSE 0, lost |-> {}]

\* secs_set_system_bytes(), and the program at the label of the connection
Begins(n, c) ==
    /\ count < MaxMsgs /\ Len(running) < MaxStack
    /\ saved_system_bytes' = IF HasBytes(n) THEN count + 1 ELSE saved_system_bytes
    /\ running' = Append(LaterAll(running, n, c, HasBytes(n)), NewMessage(n, c))
    /\ waiting' = LaterWaits(waiting, n, c, HasBytes(n))
    /\ count' = count + 1
    /\ answered' = <<>>

\* handler(): a primary message, or one of the protocols without a wait
handler(n, c) == running = <<>> /\ update_fd_info(n, c) /\ Begins(n, c)

\* handler(): a reception that fails, or a message of HSMS itself, such as a
\* link test: the client is updated all the same
Nothing(n, c) ==
    /\ running = <<>>
    /\ update_fd_info(n, c)
    /\ waiting' = LaterWaits(waiting, n, c, FALSE)
    /\ answered' = <<>>
    /\ UNCHANGED <<saved_system_bytes, running, count>>

\* handler(): a primary message that cannot be decoded.  It is dropped, but its
\* system bytes have been remembered by then.
Undecodable(n, c) ==
    /\ running = <<>> /\ HasBytes(n) /\ count < MaxMsgs
    /\ update_fd_info(n, c)
    /\ saved_system_bytes' = count + 1
    /\ count' = count + 1
    /\ waiting' = LaterWaits(waiting, n, c, TRUE)
    /\ answered' = <<>>
    /\ UNCHANGED running

\* Mutant of Continues: the reply, too, leaves its system bytes
Continues_Saved(w) ==
    /\ update_fd_info(w.on, w.to)
    /\ saved_system_bytes' = 0

\* handler(): the reply that a suspended program waits for
Continues(w) ==
    /\ update_fd_info(w.on, w.to)
    /\ UNCHANGED saved_system_bytes

ReplyArrives ==
    /\ running = <<>>
    /\ \E w \in waiting :
         /\ Continues(w)
         /\ running' = <<Later(w.message, w.on, w.to, FALSE)>>
         /\ waiting' = LaterWaits(waiting \ {w}, w.on, w.to, FALSE)
    /\ answered' = <<>>
    /\ UNCHANGED count

\* A suspended program goes on without a change of the client
Resumed(w) ==
    /\ running' = Append(running, w.message)
    /\ waiting' = waiting \ {w}
    /\ answered' = <<>>
    /\ UNCHANGED <<client_fd, saved_system_bytes, count>>

\* timer_handler(): T3 of the send runs out
timer_handler == running = <<>> /\ \E w \in waiting : Resumed(w)

\* send_secsII() meets contention with a reply
ContentionReply ==
    /\ running # <<>> /\ Len(running) < MaxStack
    /\ \E w \in waiting : get_proto[w.on] = "secs" /\ Resumed(w)

-----------------------------------------------------------------------------
(* The program, handling the innermost message. *)

Top == running[Len(running)]
Pop == SubSeq(running, 1, Len(running) - 1)

\* cmd_send(): the connection's own descriptor, or client= if it is given; a
\* message with the wait bit suspends the program, any other leaves all this
cmd_send ==
    /\ running # <<>>
    /\ \E n \in Names, c \in Clients :
         /\ HasBytes(n)
         /\ waiting' = waiting \cup {[message |-> Top, on |-> n, to |-> c]}
    /\ running' = Pop
    /\ answered' = <<>>
    /\ UNCHANGED <<client_fd, saved_system_bytes, count>>

\* send_secsII() meets contention: the message is received and handled first,
\* within the send
Contention(n, c) ==
    /\ running # <<>> /\ get_proto[n] = "secs"
    /\ update_fd_info(n, c)
    /\ Begins(n, c)

\* send_secsII() meets contention with a primary message that cannot be decoded:
\* its system bytes are remembered, its client is not
ContentionUndecodable ==
    /\ running # <<>> /\ count < MaxMsgs
    /\ \E n \in Names : get_proto[n] = "secs"
    /\ saved_system_bytes' = count + 1
    /\ count' = count + 1
    /\ running' = [i \in DOMAIN running |-> LosesBytes(running[i])]
    /\ waiting' = {[w EXCEPT !.message = LosesBytes(@)] : w \in waiting}
    /\ answered' = <<>>
    /\ UNCHANGED client_fd

\* The system bytes of send_secs_reply() and send_hsms_reply()
ReplyBytes(n) == IF HasBytes(n) THEN saved_system_bytes ELSE 0
get_client_fd(n) == client_fd[n]

\* cmd_send_reply() on the connection the message came from
cmd_send_reply ==
    /\ running # <<>>
    /\ answered' = <<[message |-> Top, to |-> get_client_fd(Top.name),
                      bytes |-> ReplyBytes(Top.name)]>>
    /\ UNCHANGED <<client_fd, saved_system_bytes, running, waiting, count>>

\* break, or the end of the program: back to the server loop, or to the send
\* that met contention
Done ==
    /\ running # <<>>
    /\ running' = Pop
    /\ answered' = <<>>
    /\ UNCHANGED <<client_fd, saved_system_bytes, waiting, count>>

Next ==
    \/ \E n \in Names, c \in Clients : \/ handler(n, c) \/ Nothing(n, c)
                                      \/ Undecodable(n, c) \/ Contention(n, c)
    \/ ContentionUndecodable \/ ReplyArrives \/ timer_handler \/ ContentionReply
    \/ cmd_send \/ cmd_send_reply \/ Done

Spec == Init /\ [][Next]_vars

-----------------------------------------------------------------------------
(* Properties. *)

\* ReplyToSender: a reply goes to the client the message came from, and carries
\* the system bytes of that message, through whatever the program waits for and
\* however deep contention nests; unless another client has sent anything on the
\* connection since, or another primary message has come in on any of them.
ReplyToSender ==
    answered # <<>> =>
      LET a == answered[1] IN
      /\ a.to = a.message.client \/ "client" \in a.message.lost
      /\ HasBytes(a.message.name) =>
           a.bytes = a.message.bytes \/ "bytes" \in a.message.lost

\* Every message being handled, or waiting, still finds its client and its bytes,
\* or is known to have lost them
Kept(m, fds, saved) ==
    /\ fds[m.name] = m.client \/ "client" \in m.lost
    /\ HasBytes(m.name) => saved = m.bytes \/ "bytes" \in m.lost
Remembered ==
    /\ \A i \in DOMAIN running : Kept(running[i], client_fd, saved_system_bytes)
    /\ \A w \in waiting : Kept(w.message, client_fd, saved_system_bytes)
=============================================================================
