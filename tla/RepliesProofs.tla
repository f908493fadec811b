---------------------------- MODULE RepliesProofs ----------------------------
(***************************************************************************)
(* For any connections, clients and bounds, a reply finds the sender of    *)
(* its message, or something came in between.                              *)
(***************************************************************************)
EXTENDS Replies, SequenceTheorems, TLAPS

IInv == TypeOK /\ Remembered /\ ReplyToSender

\* The messages that a send in the middle of the program leaves behind
LEMMA TopType ==
    ASSUME TypeOK, running # <<>>
    PROVE  /\ Top \in Messages /\ Len(running) \in DOMAIN running
           /\ Pop \in Seq(Messages) /\ Len(Pop) = Len(running) - 1
           /\ \A i \in DOMAIN Pop : i \in DOMAIN running /\ Pop[i] = running[i]
<1>1. running \in Seq(Messages) /\ Len(running) \in Nat /\ DOMAIN running = 1..Len(running)
  BY DEF TypeOK
<1>2. Len(running) # 0
  BY <1>1, EmptySeq
<1>3. Len(running) \in DOMAIN running /\ Top \in Messages
  BY <1>1, <1>2 DEF Top
<1>4. /\ Pop \in Seq(Messages) /\ Len(Pop) = Len(running) - 1
      /\ \A i \in 1..(Len(running) - 1) : Pop[i] = running[i]
  BY <1>1, <1>2, SubSeqProperties DEF Pop
<1> QED BY <1>1, <1>2, <1>3, <1>4

\* What comes in on a connection keeps a message, or is noted in it
LEMMA LaterKept ==
    ASSUME NEW m \in Messages, NEW n \in Names, NEW c \in Clients,
           NEW primary \in BOOLEAN, TypeOK, Kept(m, client_fd, saved_system_bytes),
           client_fd' = [client_fd EXCEPT ![n] = c],
           primary \/ saved_system_bytes' = saved_system_bytes
    PROVE  Later(m, n, c, primary) \in Messages /\ Kept(Later(m, n, c, primary), client_fd', saved_system_bytes')
<1> DEFINE l == Later(m, n, c, primary)
<1>1. l = [m EXCEPT !.lost = l.lost] /\ l \in Messages
  BY DEF Later, Messages
<1>2. /\ m.lost \subseteq l.lost
      /\ m.name = n /\ m.client # c => "client" \in l.lost
      /\ primary => "bytes" \in l.lost
  BY DEF Later, Messages
<1>3. l.name = m.name /\ l.client = m.client /\ l.bytes = m.bytes
  BY <1>1 DEF Messages
<1>4. client_fd'[l.name] = l.client \/ "client" \in l.lost
  BY <1>2, <1>3 DEF Kept, TypeOK, Messages
<1>5. HasBytes(l.name) => saved_system_bytes' = l.bytes \/ "bytes" \in l.lost
  BY <1>2, <1>3 DEF Kept
<1> HIDE DEF l
<1>6. Kept(l, client_fd', saved_system_bytes')
  BY <1>4, <1>5 DEF Kept
<1> QED BY <1>1, <1>6 DEF l

\* The same for all messages that are handled and that wait
LEMMA AllKept ==
    ASSUME NEW n \in Names, NEW c \in Clients, NEW primary \in BOOLEAN,
           TypeOK, Remembered, client_fd' = [client_fd EXCEPT ![n] = c],
           primary \/ saved_system_bytes' = saved_system_bytes
    PROVE  /\ LaterAll(running, n, c, primary) \in Seq(Messages)
           /\ Len(LaterAll(running, n, c, primary)) = Len(running)
           /\ \A i \in DOMAIN running :
                Kept(LaterAll(running, n, c, primary)[i], client_fd', saved_system_bytes')
           /\ \A ws \in SUBSET waiting :
                /\ LaterWaits(ws, n, c, primary)
                     \subseteq [message : Messages, on : Names, to : Clients]
                /\ \A w \in LaterWaits(ws, n, c, primary) : Kept(w.message, client_fd', saved_system_bytes')
<1>1. \A i \in DOMAIN running : Later(running[i], n, c, primary) \in Messages
                                /\ Kept(Later(running[i], n, c, primary), client_fd', saved_system_bytes')
  <2> TAKE i \in DOMAIN running
  <2>1. running[i] \in Messages /\ Kept(running[i], client_fd, saved_system_bytes)
    BY DEF TypeOK, Remembered
  <2> QED BY <2>1, LaterKept
<1>2. /\ LaterAll(running, n, c, primary) \in Seq(Messages)
      /\ Len(LaterAll(running, n, c, primary)) = Len(running)
  <2> DEFINE later == LaterAll(running, n, c, primary)
  <2>1. Len(running) \in Nat /\ DOMAIN running = 1..Len(running)
    BY DEF TypeOK
  <2>2. later = [i \in 1..Len(running) |-> Later(running[i], n, c, primary)]
    BY <2>1 DEF LaterAll
  <2>3. \A i \in 1..Len(running) : Later(running[i], n, c, primary) \in Messages
    BY <1>1, <2>1
  <2> QED BY <2>1, <2>2, <2>3, IsASeq, LenProperties
<1>3. \A i \in DOMAIN running : LaterAll(running, n, c, primary)[i]
                                  = Later(running[i], n, c, primary)
  BY DEF LaterAll
<1>4. ASSUME NEW ws \in SUBSET waiting, NEW v \in LaterWaits(ws, n, c, primary)
      PROVE  v \in [message : Messages, on : Names, to : Clients] /\ Kept(v.message, client_fd', saved_system_bytes')
  <2>1. PICK w \in ws : v = [w EXCEPT !.message = Later(w.message, n, c, primary)]
    BY <1>4 DEF LaterWaits
  <2>2. w \in [message : Messages, on : Names, to : Clients] /\ Kept(w.message, client_fd, saved_system_bytes)
    BY DEF TypeOK, Remembered
  <2>3. /\ Later(w.message, n, c, primary) \in Messages
        /\ Kept(Later(w.message, n, c, primary), client_fd', saved_system_bytes')
    BY <2>2, LaterKept
  <2>4. v.message = Later(w.message, n, c, primary)
    BY <2>1, <2>2
  <2>5. v \in [message : Messages, on : Names, to : Clients]
    <3> DEFINE l == Later(w.message, n, c, primary)
    <3>1. l \in Messages /\ v = [w EXCEPT !.message = l]
      BY <2>1, <2>3
    <3> HIDE DEF l
    <3> QED BY <3>1, <2>2
  <2> QED BY <2>3, <2>4, <2>5
<1> QED BY <1>1, <1>2, <1>3, <1>4

\* A primary message begins to be handled
LEMMA BeginsKeeps ==
    ASSUME IInv, NEW n \in Names, NEW c \in Clients, update_fd_info(n, c), Begins(n, c)
    PROVE  IInv'
<1> USE DEF IInv
<1> DEFINE m == NewMessage(n, c)
           p == HasBytes(n)
           later == LaterAll(running, n, c, p)
<1>1. client_fd' = [client_fd EXCEPT ![n] = c] /\ p \in BOOLEAN
  BY DEF update_fd_info, HasBytes
<1>2. p \/ saved_system_bytes' = saved_system_bytes
  BY DEF Begins
<1>3. /\ later \in Seq(Messages) /\ Len(later) = Len(running)
      /\ \A i \in DOMAIN running : Kept(later[i], client_fd', saved_system_bytes')
      /\ LaterWaits(waiting, n, c, p) \subseteq [message : Messages, on : Names, to : Clients]
      /\ \A w \in LaterWaits(waiting, n, c, p) : Kept(w.message, client_fd', saved_system_bytes')
  BY <1>1, <1>2, AllKept
<1>4. /\ running' = Append(later, m) /\ waiting' = LaterWaits(waiting, n, c, p)
      /\ count \in 0..MaxMsgs /\ count < MaxMsgs /\ count' = count + 1
      /\ answered' = <<>> /\ Len(running) < MaxStack
      /\ saved_system_bytes' = IF p THEN count + 1 ELSE saved_system_bytes
  BY DEF Begins, TypeOK
<1>5. m \in Messages
  <2> DEFINE b == IF HasBytes(n) THEN count + 1 ELSE 0
  <2>1. b \in 0..MaxMsgs
    BY <1>4, RepliesAssumption
  <2>2. m = [name |-> n, client |-> c, bytes |-> b, lost |-> {}]
    BY DEF NewMessage
  <2> HIDE DEF b, m
  <2> QED BY <2>1, <2>2 DEF Messages
<1>6. Kept(m, client_fd', saved_system_bytes')
  <2>1. m.name = n /\ m.client = c /\ m.bytes = (IF p THEN count + 1 ELSE 0)
    BY DEF NewMessage
  <2>2. client_fd'[n] = c
    BY <1>1 DEF TypeOK
  <2> HIDE DEF m
  <2> QED BY <1>4, <2>1, <2>2 DEF Kept
<1> HIDE DEF m, later, p
<1>7. /\ running' \in Seq(Messages) /\ Len(running') = Len(running) + 1
      /\ \A i \in DOMAIN running' : Kept(running'[i], client_fd', saved_system_bytes')
  <2>1. running \in Seq(Messages) /\ DOMAIN running = 1..Len(running)
    BY DEF TypeOK
  <2>2. DOMAIN running' = 1..(Len(running) + 1) /\ running' \in Seq(Messages)
        /\ Len(running') = Len(running) + 1
    BY <1>3, <1>4, <1>5, <2>1, AppendProperties, LenProperties
  <2>3. ASSUME NEW i \in DOMAIN running' PROVE Kept(running'[i], client_fd', saved_system_bytes')
    <3>1. CASE i \in DOMAIN running
      <4>1. running'[i] = later[i]
        BY <1>3, <1>4, <1>5, <2>1, <3>1, AppendProperties
      <4> QED BY <4>1, <1>3, <3>1
    <3>2. CASE i \notin DOMAIN running
      <4>1. running'[i] = m
        <5>1. i = Len(running) + 1
          BY <2>1, <2>2, <3>2
        <5> QED BY <1>3, <1>4, <1>5, <5>1, AppendProperties
      <4> QED BY <4>1, <1>6
    <3> QED BY <3>1, <3>2
  <2> QED BY <2>2, <2>3
<1>8. TypeOK'
  BY <1>1, <1>3, <1>4, <1>7, RepliesAssumption DEF TypeOK
<1>9. Remembered' /\ ReplyToSender'
  BY <1>3, <1>4, <1>7 DEF Remembered, ReplyToSender
<1> QED BY <1>8, <1>9

\* One message fewer, the rest as before, and nothing of the two tables touched
LEMMA PopKeeps ==
    ASSUME IInv, running # <<>>, running' = Pop,
           UNCHANGED <<client_fd, saved_system_bytes>>
    PROVE  /\ running' \in Seq(Messages) /\ Len(running') <= MaxStack
           /\ \A i \in DOMAIN running' :
                Kept(running'[i], client_fd', saved_system_bytes')
<1>1. /\ Pop \in Seq(Messages) /\ Len(Pop) = Len(running) - 1
      /\ \A i \in DOMAIN Pop : i \in DOMAIN running /\ Pop[i] = running[i]
  BY TopType DEF IInv
<1>2. Len(running) \in Nat /\ Len(running) <= MaxStack
  BY DEF IInv, TypeOK
<1>3. \A i \in DOMAIN Pop : Kept(Pop[i], client_fd, saved_system_bytes)
  BY <1>1 DEF IInv, Remembered
<1> QED BY <1>1, <1>2, <1>3, RepliesAssumption

\* An input that is no message of the program's
LEMMA NothingKeeps ==
    ASSUME IInv, NEW n \in Names, NEW c \in Clients, Nothing(n, c)
    PROVE  IInv'
<1>1. /\ client_fd' = [client_fd EXCEPT ![n] = c] /\ saved_system_bytes' = saved_system_bytes
      /\ waiting' = LaterWaits(waiting, n, c, FALSE) /\ answered' = <<>>
      /\ running = <<>> /\ running' = <<>> /\ count' = count
  BY DEF Nothing, update_fd_info
<1>2. /\ waiting' \subseteq [message : Messages, on : Names, to : Clients]
      /\ \A w \in waiting' : Kept(w.message, client_fd', saved_system_bytes')
  BY <1>1, AllKept DEF IInv
<1>3. TypeOK'
  <2>1. client_fd' \in [Names -> Clients \cup {0}]
    BY <1>1 DEF IInv, TypeOK
  <2>2. running' \in Seq(Messages) /\ Len(running') <= MaxStack
    BY <1>1, EmptySeq, RepliesAssumption
  <2>3. saved_system_bytes' \in 0..MaxMsgs /\ count' \in 0..MaxMsgs
    BY <1>1 DEF IInv, TypeOK
  <2> QED BY <1>1, <1>2, <2>1, <2>2, <2>3 DEF TypeOK
<1>4. \A i \in DOMAIN running' : FALSE
  BY <1>1
<1>5. Remembered'
  BY <1>2, <1>4 DEF Remembered
<1>6. ReplyToSender'
  BY <1>1 DEF ReplyToSender
<1> QED BY <1>3, <1>5, <1>6 DEF IInv

\* A primary message that is dropped leaves its system bytes
LEMMA UndecodableKeeps ==
    ASSUME IInv, NEW n \in Names, NEW c \in Clients, Undecodable(n, c)
    PROVE  IInv'
<1>1. /\ client_fd' = [client_fd EXCEPT ![n] = c] /\ saved_system_bytes' = count + 1
      /\ waiting' = LaterWaits(waiting, n, c, TRUE) /\ answered' = <<>>
      /\ running = <<>> /\ running' = <<>> /\ count' = count + 1 /\ count < MaxMsgs
  BY DEF Undecodable, update_fd_info
<1>2. /\ waiting' \subseteq [message : Messages, on : Names, to : Clients]
      /\ \A w \in waiting' : Kept(w.message, client_fd', saved_system_bytes')
  BY <1>1, AllKept DEF IInv
<1>3. TypeOK'
  <2>1. client_fd' \in [Names -> Clients \cup {0}]
    BY <1>1 DEF IInv, TypeOK
  <2>2. running' \in Seq(Messages) /\ Len(running') <= MaxStack
    BY <1>1, EmptySeq, RepliesAssumption
  <2>3. saved_system_bytes' \in 0..MaxMsgs /\ count' \in 0..MaxMsgs
    BY <1>1, RepliesAssumption DEF IInv, TypeOK
  <2> QED BY <1>1, <1>2, <2>1, <2>2, <2>3 DEF TypeOK
<1>4. \A i \in DOMAIN running' : FALSE
  BY <1>1
<1>5. Remembered'
  BY <1>2, <1>4 DEF Remembered
<1>6. ReplyToSender'
  BY <1>1 DEF ReplyToSender
<1> QED BY <1>3, <1>5, <1>6 DEF IInv

\* A message whose system bytes are gone still has its client
LEMMA LosesBytesKept ==
    ASSUME NEW m \in Messages, NEW fds, NEW saved, NEW other, Kept(m, fds, saved)
    PROVE  LosesBytes(m) \in Messages /\ Kept(LosesBytes(m), fds, other)
<1> DEFINE l == LosesBytes(m)
<1>1. l \in Messages
  BY DEF LosesBytes, Messages
<1>2. l.name = m.name /\ l.client = m.client /\ m.lost \subseteq l.lost /\ "bytes" \in l.lost
  BY DEF LosesBytes, Messages
<1> HIDE DEF l
<1>3. Kept(l, fds, other)
  BY <1>2 DEF Kept
<1> QED BY <1>1, <1>3 DEF l

\* The same within a send that meets contention
LEMMA ContentionUndecodableKeeps ==
    ASSUME IInv, ContentionUndecodable
    PROVE  IInv'
<1>1. /\ client_fd' = client_fd /\ saved_system_bytes' = count + 1
      /\ running' = [i \in DOMAIN running |-> LosesBytes(running[i])]
      /\ waiting' = {[w EXCEPT !.message = LosesBytes(w.message)] : w \in waiting}
      /\ answered' = <<>> /\ count' = count + 1 /\ count < MaxMsgs
  BY DEF ContentionUndecodable
<1>2. \A i \in DOMAIN running : /\ LosesBytes(running[i]) \in Messages
                               /\ Kept(LosesBytes(running[i]), client_fd, saved_system_bytes')
  <2> TAKE i \in DOMAIN running
  <2>1. running[i] \in Messages /\ Kept(running[i], client_fd, saved_system_bytes)
    BY DEF IInv, TypeOK, Remembered
  <2> QED BY <2>1, LosesBytesKept
<1>3. /\ running' \in Seq(Messages) /\ Len(running') = Len(running)
      /\ \A i \in DOMAIN running' : Kept(running'[i], client_fd', saved_system_bytes')
  <2>1. Len(running) \in Nat /\ DOMAIN running = 1..Len(running)
    BY DEF IInv, TypeOK
  <2>2. running' = [i \in 1..Len(running) |-> LosesBytes(running[i])]
    BY <1>1, <2>1
  <2>3. \A i \in 1..Len(running) : LosesBytes(running[i]) \in Messages
    BY <1>2, <2>1
  <2>4. running' \in Seq(Messages) /\ Len(running') = Len(running)
    BY <2>1, <2>2, <2>3, IsASeq, LenProperties
  <2>5. \A i \in DOMAIN running' : i \in DOMAIN running /\ running'[i] = LosesBytes(running[i])
    BY <1>1
  <2> QED BY <1>1, <1>2, <2>4, <2>5
<1>4. ASSUME NEW v \in waiting'
      PROVE  /\ v \in [message : Messages, on : Names, to : Clients]
             /\ Kept(v.message, client_fd', saved_system_bytes')
  <2>1. PICK w \in waiting : v = [w EXCEPT !.message = LosesBytes(w.message)]
    BY <1>1
  <2>2. w \in [message : Messages, on : Names, to : Clients]
        /\ Kept(w.message, client_fd, saved_system_bytes)
    BY DEF IInv, TypeOK, Remembered
  <2> DEFINE l == LosesBytes(w.message)
  <2>3. l \in Messages /\ Kept(l, client_fd, saved_system_bytes')
    BY <2>2, LosesBytesKept
  <2>4. v = [w EXCEPT !.message = l]
    BY <2>1
  <2> HIDE DEF l
  <2> QED BY <1>1, <2>2, <2>3, <2>4
<1>5. TypeOK'
  <2>1. saved_system_bytes' \in 0..MaxMsgs /\ count' \in 0..MaxMsgs
    BY <1>1, RepliesAssumption DEF IInv, TypeOK
  <2> QED BY <1>1, <1>3, <1>4, <2>1 DEF IInv, TypeOK
<1>6. Remembered' /\ ReplyToSender'
  BY <1>1, <1>3, <1>4 DEF Remembered, ReplyToSender
<1> QED BY <1>5, <1>6 DEF IInv

\* The reply that the program waited for: it goes on with the message it had
LEMMA ReplyArrivesKeeps ==
    ASSUME IInv, ReplyArrives
    PROVE  IInv'
<1>1. PICK w \in waiting :
        /\ client_fd' = [client_fd EXCEPT ![w.on] = w.to]
        /\ saved_system_bytes' = saved_system_bytes
        /\ running' = <<Later(w.message, w.on, w.to, FALSE)>>
        /\ waiting' = LaterWaits(waiting \ {w}, w.on, w.to, FALSE)
  BY DEF ReplyArrives, Continues, update_fd_info
<1>2. answered' = <<>> /\ count' = count /\ running = <<>>
  BY DEF ReplyArrives
<1>3. w \in [message : Messages, on : Names, to : Clients]
      /\ Kept(w.message, client_fd, saved_system_bytes)
  BY DEF IInv, TypeOK, Remembered
<1> DEFINE l == Later(w.message, w.on, w.to, FALSE)
<1>4. l \in Messages /\ Kept(l, client_fd', saved_system_bytes')
  BY <1>1, <1>3, LaterKept DEF IInv
<1>5. /\ waiting' \subseteq [message : Messages, on : Names, to : Clients]
      /\ \A v \in waiting' : Kept(v.message, client_fd', saved_system_bytes')
  BY <1>1, <1>3, AllKept DEF IInv
<1>6. running' = <<l>>
  BY <1>1
<1> HIDE DEF l
<1>7. /\ running' \in Seq(Messages) /\ Len(running') = 1
      /\ \A i \in DOMAIN running' : Kept(running'[i], client_fd', saved_system_bytes')
  BY <1>4, <1>6
<1>8. MaxStack >= 1
  BY RepliesAssumption
<1>9. TypeOK'
  BY <1>1, <1>2, <1>3, <1>5, <1>7, <1>8 DEF IInv, TypeOK
<1>10. Remembered' /\ ReplyToSender'
  BY <1>2, <1>5, <1>7 DEF Remembered, ReplyToSender
<1> QED BY <1>9, <1>10 DEF IInv

\* T3 has run out, or contention ends with a reply: the program that waited goes
\* on, innermost, with the client and the system bytes as they are
LEMMA ResumedKeeps ==
    ASSUME IInv, NEW w \in waiting, Resumed(w), Len(running) < MaxStack
    PROVE  IInv'
<1>1. running' = Append(running, w.message) /\ waiting' = waiting \ {w}
  BY DEF Resumed
<1>2. /\ UNCHANGED <<client_fd, saved_system_bytes, count>> /\ answered' = <<>>
      /\ Len(running) < MaxStack
  BY DEF Resumed
<1> DEFINE m == w.message
<1>3. m \in Messages /\ Kept(m, client_fd, saved_system_bytes)
  BY DEF IInv, TypeOK, Remembered
<1>4. running \in Seq(Messages) /\ Len(running) \in Nat /\ DOMAIN running = 1..Len(running)
  BY DEF IInv, TypeOK
<1>5. running' = Append(running, m)
  BY <1>1
<1> HIDE DEF m
<1>6. /\ running' \in Seq(Messages) /\ Len(running') = Len(running) + 1
      /\ DOMAIN running' = 1..(Len(running) + 1)
      /\ \A i \in 1..Len(running) : running'[i] = running[i]
      /\ running'[Len(running) + 1] = m
  BY <1>3, <1>4, <1>5, AppendProperties, LenProperties
<1>7. \A i \in DOMAIN running' : Kept(running'[i], client_fd', saved_system_bytes')
  <2> SUFFICES ASSUME NEW i \in DOMAIN running'
               PROVE  Kept(running'[i], client_fd, saved_system_bytes)
    BY <1>2
  <2>1. CASE i \in 1..Len(running)
    BY <2>1, <1>4, <1>6 DEF IInv, Remembered
  <2>2. CASE i = Len(running) + 1
    BY <2>2, <1>3, <1>6
  <2> QED BY <2>1, <2>2, <1>4, <1>6
<1>8. TypeOK'
  BY <1>1, <1>2, <1>4, <1>6, RepliesAssumption DEF IInv, TypeOK
<1>9. Remembered' /\ ReplyToSender'
  BY <1>1, <1>2, <1>7 DEF IInv, Remembered, ReplyToSender
<1> QED BY <1>8, <1>9 DEF IInv

\* The program waits for a reply: the message it handled is put aside
LEMMA cmd_sendKeeps ==
    ASSUME IInv, cmd_send
    PROVE  IInv'
<1>1. PICK n \in Names, c \in Clients :
        waiting' = waiting \cup {[message |-> Top, on |-> n, to |-> c]}
  BY DEF cmd_send
<1>2. /\ running # <<>> /\ running' = Pop /\ answered' = <<>>
      /\ UNCHANGED <<client_fd, saved_system_bytes, count>>
  BY DEF cmd_send
<1>3. /\ running' \in Seq(Messages) /\ Len(running') <= MaxStack
      /\ \A i \in DOMAIN running' : Kept(running'[i], client_fd', saved_system_bytes')
  BY <1>2, PopKeeps
<1>4. Top \in Messages /\ Len(running) \in DOMAIN running
  BY <1>2, TopType DEF IInv
<1>5. Kept(Top, client_fd, saved_system_bytes)
  BY <1>4 DEF IInv, Remembered, Top
<1> DEFINE m == Top
           v == [message |-> m, on |-> n, to |-> c]
<1> HIDE DEF m
<1>6. m \in Messages /\ Kept(m, client_fd, saved_system_bytes)
  BY <1>4, <1>5 DEF m
<1>7. v \in [message : Messages, on : Names, to : Clients] /\ v.message = m
  BY <1>6
<1>8. waiting' = waiting \cup {v}
  BY <1>1 DEF m
<1> HIDE DEF v
<1>9. TypeOK'
  BY <1>2, <1>3, <1>7, <1>8 DEF IInv, TypeOK
<1>10. Remembered' /\ ReplyToSender'
  BY <1>2, <1>3, <1>6, <1>7, <1>8 DEF IInv, Remembered, ReplyToSender
<1> QED BY <1>9, <1>10 DEF IInv

\* The reply itself, from the two tables
LEMMA cmd_send_replyKeeps ==
    ASSUME IInv, cmd_send_reply
    PROVE  IInv'
<1> DEFINE m == Top
           a == [message |-> m, to |-> client_fd[m.name], bytes |-> ReplyBytes(m.name)]
<1>1. /\ running # <<>> /\ answered' = <<a>>
      /\ UNCHANGED <<client_fd, saved_system_bytes, running, waiting, count>>
  BY DEF cmd_send_reply, get_client_fd
<1>2. m \in Messages /\ Len(running) \in DOMAIN running
  BY <1>1, TopType DEF IInv
<1>3. Kept(m, client_fd, saved_system_bytes)
  BY <1>2 DEF IInv, Remembered, Top
<1> HIDE DEF m
<1>4. client_fd[m.name] \in Clients \cup {0}
  BY <1>2 DEF IInv, TypeOK, Messages
<1>5. /\ ReplyBytes(m.name) \in 0..MaxMsgs
      /\ HasBytes(m.name) => ReplyBytes(m.name) = saved_system_bytes
  BY RepliesAssumption DEF IInv, TypeOK, ReplyBytes
<1>6. /\ a \in [message : Messages, to : Clients \cup {0}, bytes : 0..MaxMsgs]
      /\ a.message = m /\ a.to = client_fd[m.name] /\ a.bytes = ReplyBytes(m.name)
  BY <1>2, <1>4, <1>5
<1> HIDE DEF a
<1>7. answered'[1] = a
  BY <1>1
<1>8. TypeOK'
  BY <1>1, <1>6, <1>7 DEF IInv, TypeOK
<1>9. ReplyToSender'
  BY <1>3, <1>5, <1>6, <1>7 DEF ReplyToSender, Kept
<1>10. Remembered'
  BY <1>1 DEF IInv, Remembered
<1> QED BY <1>8, <1>9, <1>10 DEF IInv

\* The program ends, or breaks
LEMMA DoneKeeps ==
    ASSUME IInv, Done
    PROVE  IInv'
<1>1. /\ running # <<>> /\ running' = Pop /\ answered' = <<>>
      /\ UNCHANGED <<client_fd, saved_system_bytes, waiting, count>>
  BY DEF Done
<1>2. /\ running' \in Seq(Messages) /\ Len(running') <= MaxStack
      /\ \A i \in DOMAIN running' : Kept(running'[i], client_fd', saved_system_bytes')
  BY <1>1, PopKeeps
<1>3. TypeOK'
  BY <1>1, <1>2 DEF IInv, TypeOK
<1>4. Remembered' /\ ReplyToSender'
  BY <1>1, <1>2 DEF IInv, Remembered, ReplyToSender
<1> QED BY <1>3, <1>4 DEF IInv

\* The inductive invariant of the replies (handler(), cmd_send(), cmd_send_reply()
\* and the contention of send_secsII())
THEOREM Inductive == Spec => []IInv
<1>1. Init => IInv
  BY EmptySeq, RepliesAssumption
  DEF Init, IInv, TypeOK, Remembered, ReplyToSender
<1>2. IInv /\ [Next]_vars => IInv'
  <2> SUFFICES ASSUME IInv, [Next]_vars PROVE IInv'
    OBVIOUS
  <2>1. ASSUME NEW n \in Names, NEW c \in Clients, handler(n, c) PROVE IInv'
    BY <2>1, BeginsKeeps DEF handler
  <2>2. ASSUME NEW n \in Names, NEW c \in Clients, Nothing(n, c) PROVE IInv'
    BY <2>2, NothingKeeps
  <2>3. ASSUME NEW n \in Names, NEW c \in Clients, Contention(n, c) PROVE IInv'
    BY <2>3, BeginsKeeps DEF Contention
  <2>4. ASSUME NEW n \in Names, NEW c \in Clients, Undecodable(n, c) PROVE IInv'
    BY <2>4, UndecodableKeeps
  <2>5. CASE timer_handler
    <3>1. Len(running) < MaxStack
      BY <2>5, RepliesAssumption DEF timer_handler
    <3> QED BY <2>5, <3>1, ResumedKeeps DEF timer_handler
  <2>6. CASE ContentionReply
    BY <2>6, ResumedKeeps DEF ContentionReply
  <2>7. CASE UNCHANGED vars
    BY <2>7 DEF vars, IInv, TypeOK, Remembered, ReplyToSender
  <2> QED BY <2>1, <2>2, <2>3, <2>4, <2>5, <2>6, <2>7, ContentionUndecodableKeeps,
             ReplyArrivesKeeps, cmd_sendKeeps, cmd_send_replyKeeps, DoneKeeps DEF Next
<1> QED BY <1>1, <1>2, PTL DEF Spec

\* For any connections, protocols and clients, a reply of cmd_send_reply() finds the
\* client and carries the system bytes of the message it answers, unless something
\* came in between that replaced them.
THEOREM RepliesToSender == Spec => [](TypeOK /\ ReplyToSender)
<1>1. IInv => TypeOK /\ ReplyToSender
  BY DEF IInv
<1> QED BY <1>1, Inductive, PTL

\* What handler() and the protocols remember of a message stays in its types,
\* whichever of them is interrupted by contention.
THEOREM ReplyTypes == Spec => []TypeOK
<1>1. IInv => TypeOK
  BY DEF IInv
<1> QED BY <1>1, Inductive, PTL
=============================================================================
