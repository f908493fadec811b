----------------------------- MODULE SecsBlocks -----------------------------
(***************************************************************************)
(* recv_secs(): a SECS-I message is put together from its blocks.  What    *)
(* recv_secsI() does to receive one block is in SecsLine; here an attempt  *)
(* to send a block has one of the outcomes it can have there.  The sender  *)
(* is external: it repeats a block that was not acknowledged, gives the    *)
(* message up after that, and then sends its next one.                     *)
(***************************************************************************)
EXTENDS Naturals, FiniteSets, Sequences

CONSTANTS
    Sizes,      \* the numbers of blocks a message may have
    Retry,      \* how often the sender repeats a block
    MaxMsgs     \* bound: messages sent

ASSUME SecsBlocksAssumption ==
    /\ Sizes \subseteq Nat \ {0}
    /\ Retry \in Nat /\ MaxMsgs \in Nat

VARIABLES
    receiving,    \* recv_secs() has blocks and waits for the next, T4 running
    header,       \* of the first block of this call
    last_header,  \* of the last block of this call but the first
    body,         \* encoded_secs_msg, as the blocks in it
    sending,      \* the block the sender is about to send, if any
    tries,        \* how often it may still repeat it
    count,        \* messages begun
    delivered,    \* history: messages given to the program
    completed,    \* history: messages whose last block was acknowledged
    disturbed     \* history: messages that met what recv_secs() does not handle

reception == <<receiving, header, last_header, body>>
sender == <<sending, tries, count>>
vars == <<reception, sender, delivered, completed, disturbed>>

\* A block is what its header tells: the message by its system bytes, the
\* number of the block, and whether it is the last one
Block(m, k, n) == [msg |-> m, no |-> k, of |-> n]
IsLast(b) == b.no = b.of
Whole(b) == [k \in 1..b.of |-> Block(b.msg, k, b.of)]
NoHeader == Block(0, 0, 0)

Init ==
    /\ receiving = FALSE /\ body = <<>>
    /\ header = NoHeader /\ last_header = NoHeader
    /\ sending = <<>> /\ tries = 0 /\ count = 0
    /\ delivered = <<>> /\ completed = {} /\ disturbed = {}

-----------------------------------------------------------------------------
(* recv_secs(). *)

\* It returns, and the next call begins with nothing
Returns ==
    /\ receiving' = FALSE /\ body' = <<>>
    /\ header' = NoHeader /\ last_header' = NoHeader

\* A block other than the first, with the header of the block before
Duplicate(b) == receiving /\ last_header = b

\* Mutant of SaveHeader: last_header is not saved
SaveHeader_Not(b) == last_header' = last_header

\* It is not saved for the first block
SaveHeader(b) == last_header' = IF receiving THEN b ELSE last_header

\* Mutant of TakeBlock: the bit of the last block is not looked at
TakeBlock_Waits(b) ==
    /\ receiving' = TRUE /\ header' = (IF receiving THEN header ELSE b)
    /\ body' = (IF Duplicate(b) THEN body ELSE Append(body, b))
    /\ SaveHeader(b)
    /\ UNCHANGED delivered

\* A block is received and acknowledged.  With the last one the message goes to
\* the program; otherwise T4 is started and the next block waited for.
TakeBlock(b) ==
    LET first == IF receiving THEN header ELSE b
        sofar == IF Duplicate(b) THEN body ELSE Append(body, b)
    IN \/ /\ ~IsLast(b)
          /\ receiving' = TRUE /\ header' = first /\ body' = sofar
          /\ SaveHeader(b)
          /\ UNCHANGED delivered
       \/ /\ IsLast(b)
          /\ delivered' = Append(delivered, [header |-> first, body |-> sofar])
          /\ Returns

\* The message of a reception that a block of another one is added to
Spliced(b) == IF receiving /\ header.msg # b.msg THEN {header.msg, b.msg} ELSE {}

\* T4 runs out, or recv_secsI() has an error: what was received is dropped, and
\* the blocks that follow are taken for a message of their own
Fails ==
    /\ receiving
    /\ Returns
    /\ disturbed' = disturbed \cup {header.msg}
    /\ UNCHANGED <<sender, delivered, completed>>

-----------------------------------------------------------------------------
(* The sender, and what may become of a block. *)

Current == sending[1]

Starts ==
    /\ sending = <<>> /\ count < MaxMsgs
    /\ \E n \in Sizes : sending' = <<Block(count + 1, 1, n)>>
    /\ tries' = Retry /\ count' = count + 1
    /\ UNCHANGED <<reception, delivered, completed, disturbed>>

\* Not acknowledged: the block is repeated, or the message given up
Repeats ==
    /\ \/ tries > 0 /\ tries' = tries - 1 /\ UNCHANGED sending
       \/ tries = 0 /\ sending' = <<>> /\ UNCHANGED tries
    /\ UNCHANGED <<count, completed>>

Acknowledged ==
    /\ sending # <<>>
    /\ TakeBlock(Current)
    /\ disturbed' = disturbed \cup Spliced(Current)
    /\ \/ /\ IsLast(Current)
          /\ sending' = <<>> /\ completed' = completed \cup {Current.msg}
          /\ UNCHANGED tries
       \/ /\ ~IsLast(Current)
          /\ sending' = <<Block(Current.msg, Current.no + 1, Current.of)>>
          /\ tries' = Retry
          /\ UNCHANGED completed
    /\ UNCHANGED count

\* The block was taken, but the ACK does not get through
AckLost ==
    /\ sending # <<>>
    /\ TakeBlock(Current)
    /\ disturbed' = disturbed \cup Spliced(Current)
         \cup (IF Current.no = 1 \/ IsLast(Current) THEN {Current.msg} ELSE {})
    /\ Repeats

\* Bytes are lost or wrong: recv_secsI() answers NAK, or reads something else
\* than ENQ, and recv_secs() returns with 2
Nak ==
    /\ sending # <<>>
    /\ Returns
    /\ disturbed' = disturbed \cup (IF receiving THEN {header.msg, Current.msg} ELSE {})
    /\ Repeats
    /\ UNCHANGED delivered

\* Nothing of it is heard
Unheard ==
    /\ sending # <<>>
    /\ Repeats
    /\ UNCHANGED <<reception, delivered, disturbed>>

Finished ==
    /\ sending = <<>> /\ count = MaxMsgs
    /\ UNCHANGED vars

Next == Fails \/ Starts \/ Acknowledged \/ AckLost \/ Nak \/ Unheard \/ Finished

Spec == Init /\ [][Next]_vars

-----------------------------------------------------------------------------
(* Properties. *)

\* Assembled: a message given to the program is all the blocks of one message,
\* in order and once each, however often blocks in its middle or attempts before
\* its first block were repeated; except when a NAK or T4 fell into it, the ACK
\* of its first or last block was lost, or the next message came before T4 had
\* ended one that the sender gave up.
Assembled ==
    \A i \in DOMAIN delivered :
        LET d == delivered[i] IN
        d.header.msg \in disturbed \/ d.body = Whole(d.header)

\* OnceEach: with the same exceptions, a message whose last block was acknowledged
\* has been given to the program, and once only.
OnceEach ==
    \A m \in completed \ disturbed :
        Cardinality({i \in DOMAIN delivered : delivered[i].header.msg = m}) = 1
=============================================================================
