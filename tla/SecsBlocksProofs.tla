-------------------------- MODULE SecsBlocksProofs --------------------------
(***************************************************************************)
(* Assembled and OnceEach of SecsBlocks, for messages of any size, any     *)
(* number of retries and any number of messages; and that the receiver     *)
(* reads from the header of an item what the sender put into it.           *)
(***************************************************************************)
EXTENDS SecsBlocks, ItemHeader, FiniteSetTheorems, SequenceTheorems, TLAPS

Bl == [msg : Nat, no : Nat, of : Nat]
Given == [header : Bl, body : Seq(Bl)]

Types ==
    /\ receiving \in BOOLEAN
    /\ header \in Bl /\ last_header \in Bl
    /\ body \in Seq(Bl)
    /\ sending = <<>> \/ \E b \in Bl : sending = <<b>>
    /\ tries \in Nat /\ count \in Nat
    /\ ~receiving => body = <<>> /\ last_header = NoHeader
    /\ delivered \in Seq(Given)

\* What the sender is at, and the numbers of the messages so far
InTurn ==
    /\ sending # <<>> => /\ Current.msg = count /\ count \notin completed
                         /\ 1 <= Current.no /\ Current.no <= Current.of
    /\ receiving => header.msg <= count
    /\ \A m \in completed : m \in Nat /\ m <= count
    /\ \A i \in DOMAIN delivered : delivered[i].header.msg <= count

\* The first n blocks of the message of h
Prefix(h, n) == [k \in 1..n |-> Block(h.msg, k, h.of)]

\* A reception that met nothing unexpected has the first blocks of its message,
\* knows the header of the last one unless that is the first, and the sender, if
\* it is still at this message, repeats that block or sends the one behind it
Undisturbed ==
    receiving /\ header.msg \notin disturbed =>
      LET n == Len(body) IN
      /\ header = Block(header.msg, 1, header.of)
      /\ 1 <= n /\ n < header.of
      /\ body = Prefix(header, n)
      /\ last_header = IF n = 1 THEN NoHeader ELSE Block(header.msg, n, header.of)
      /\ sending # <<>> /\ Current.msg = header.msg =>
           /\ Current.of = header.of
           /\ Current.no = n + 1 \/ (n > 1 /\ Current.no = n)

\* A message nothing of which has been taken is sent from its first block
FromStart ==
    sending # <<>> /\ Current.msg \notin disturbed /\ ~(receiving /\ header.msg = Current.msg)
      => Current.no = 1

\* A message is given to the program when its last block is acknowledged, once
Once ==
    /\ \A i \in DOMAIN delivered :
         delivered[i].header.msg \in completed \cup disturbed
    /\ \A m \in completed \ disturbed :
         \E i \in DOMAIN delivered : delivered[i].header.msg = m
    /\ \A i, j \in DOMAIN delivered :
         delivered[i].header.msg = delivered[j].header.msg /\ i # j
           => delivered[i].header.msg \in disturbed

IInv == Types /\ InTurn /\ Undisturbed /\ FromStart /\ Assembled /\ Once

-----------------------------------------------------------------------------

LEMMA Empty == NoHeader \in Bl /\ <<>> \in Seq(Bl) /\ <<>> \in Seq(Given)
<1>1. NoHeader \in Bl  BY DEF NoHeader, Block, Bl
<1>2. <<>> \in Seq(Bl) /\ <<>> \in Seq(Given)  OBVIOUS
<1> QED BY <1>1, <1>2

LEMMA InitIInv == Init => IInv
<1> SUFFICES ASSUME Init PROVE IInv  OBVIOUS
<1>0. receiving \in BOOLEAN  BY Zenon DEF Init
<1>1. Types  BY <1>0, Empty DEF Init, Types
<1>2. Undisturbed /\ FromStart  BY DEF Init, Undisturbed, FromStart
<1>3. DOMAIN delivered = {}  BY DEF Init
<1>4. InTurn /\ Assembled /\ Once
  BY <1>3 DEF Init, InTurn, Assembled, Once
<1> QED BY <1>1, <1>2, <1>4 DEF IInv

\* Steps that take no block and give nothing to the program
LEMMA QuietKeeps ==
    ASSUME IInv, disturbed \subseteq disturbed', UNCHANGED <<delivered, completed>>,
           count' \in Nat, count <= count', Types',
           sending' # <<>> => /\ Current'.msg = count' /\ count' \notin completed
                              /\ 1 <= Current'.no /\ Current'.no <= Current'.of,
           receiving' => header'.msg <= count'
    PROVE  InTurn' /\ Assembled' /\ Once'
<1>a. \A i \in DOMAIN delivered : delivered[i] \in Given
  BY DEF IInv, Types
<1>0. \A i \in DOMAIN delivered : delivered[i].header.msg \in Nat
  BY <1>a DEF Given, Bl
<1>1. InTurn'
  BY <1>0 DEF IInv, Types, InTurn
<1>2. Assembled'  BY DEF IInv, Assembled
<1>3. Once'  BY DEF IInv, Once
<1> QED BY <1>1, <1>2, <1>3

LEMMA StartsKeeps == ASSUME IInv, Starts PROVE IInv'
<1> USE SecsBlocksAssumption
<1>1. PICK n \in Sizes : sending' = <<Block(count + 1, 1, n)>>  BY DEF Starts
<1>2. n \in Nat \ {0} /\ Block(count + 1, 1, n) \in Bl /\ Current' = Block(count + 1, 1, n)
      /\ Current'.msg = count + 1 /\ Current'.no = 1 /\ Current'.of = n
  BY <1>1 DEF IInv, Types, Block, Bl, Current
<1>3. Types'
  BY <1>1, <1>2 DEF IInv, Types, Starts, reception
<1>4. count + 1 \notin completed
  BY DEF IInv, Types, InTurn
<1>a. /\ count' = count + 1 /\ count \in Nat
      /\ UNCHANGED <<delivered, completed, disturbed, receiving, header>>
      /\ receiving => header.msg \in Nat /\ header.msg <= count
  BY DEF Starts, IInv, Types, InTurn, reception, Bl
<1>5. InTurn' /\ Assembled' /\ Once'
  BY <1>2, <1>3, <1>4, <1>a, QuietKeeps
<1>6. Undisturbed'
  BY <1>2 DEF Starts, IInv, Types, InTurn, Undisturbed, reception, Bl, Current
<1>7. FromStart'  BY <1>2 DEF FromStart
<1> QED BY <1>3, <1>5, <1>6, <1>7 DEF IInv

\* The sender repeats the block or gives the message up
LEMMA RepeatsKeeps ==
    ASSUME IInv, Repeats
    PROVE  /\ tries' \in Nat /\ count' = count /\ completed' = completed
           /\ sending' = <<>> \/ sending' = sending
           /\ sending' # <<>> => sending' = sending /\ Current' = Current
  BY DEF IInv, Types, Repeats, Current

LEMMA FailsKeeps == ASSUME IInv, Fails PROVE IInv'
<1>0. receiving' \in BOOLEAN  BY Zenon DEF Fails, Returns
<1>1. Types'
  BY <1>0, Empty DEF IInv, Types, Fails, Returns, sender
<1>2. Current' = Current  BY DEF Fails, sender, Current
<1>3. InTurn' /\ Assembled' /\ Once'
  BY <1>1, <1>2, QuietKeeps DEF Fails, Returns, sender, IInv, Types, InTurn
<1>4. Undisturbed' /\ FromStart'
  BY <1>2 DEF Fails, Returns, sender, IInv, Undisturbed, FromStart
<1> QED BY <1>1, <1>3, <1>4 DEF IInv

LEMMA NakKeeps == ASSUME IInv, Nak PROVE IInv'
<1>0. /\ tries' \in Nat /\ count' = count /\ completed' = completed
      /\ sending' = <<>> \/ sending' = sending
      /\ sending' # <<>> => sending' = sending /\ Current' = Current
  BY RepeatsKeeps DEF Nak
<1>a. receiving' \in BOOLEAN  BY Zenon DEF Nak, Returns
<1>1. Types'
  BY <1>a, Empty, <1>0 DEF IInv, Types, Nak, Returns
<1>2. InTurn' /\ Assembled' /\ Once'
  BY <1>0, <1>1, QuietKeeps DEF Nak, Returns, IInv, Types, InTurn
<1>3. Undisturbed' /\ FromStart'
  BY <1>0 DEF Nak, Returns, IInv, Undisturbed, FromStart
<1> QED BY <1>1, <1>2, <1>3 DEF IInv

LEMMA UnheardKeeps == ASSUME IInv, Unheard PROVE IInv'
<1>0. /\ tries' \in Nat /\ count' = count /\ completed' = completed
      /\ sending' = <<>> \/ sending' = sending
      /\ sending' # <<>> => sending' = sending /\ Current' = Current
  BY RepeatsKeeps DEF Unheard
<1>1. Types'
  BY <1>0 DEF IInv, Types, Unheard, reception
<1>2. InTurn' /\ Assembled' /\ Once'
  BY <1>0, <1>1, QuietKeeps DEF Unheard, reception, IInv, Types, InTurn
<1>3. Undisturbed' /\ FromStart'
  BY <1>0 DEF Unheard, reception, IInv, Undisturbed, FromStart
<1> QED BY <1>1, <1>2, <1>3 DEF IInv

-----------------------------------------------------------------------------
(* A block is taken. *)

LEMMA CurrentIsBlock ==
    ASSUME IInv, sending # <<>>
    PROVE  /\ Current \in Bl /\ Current = Block(Current.msg, Current.no, Current.of)
           /\ sending = <<Current>>
<1>1. PICK b \in Bl : sending = <<b>>  BY DEF IInv, Types
<1>2. Current = b  BY <1>1 DEF Current
<1>3. b = Block(b.msg, b.no, b.of)  BY DEF Bl, Block
<1> QED BY <1>1, <1>2, <1>3

\* What the reception has after the block, the last one or not: this is where
\* duplicates in the middle of a message are dropped
First == IF receiving THEN header ELSE Current
SoFar == IF Duplicate(Current) THEN body ELSE Append(body, Current)

LEMMA FirstType ==
    ASSUME IInv, sending # <<>>
    PROVE  /\ First \in Bl /\ SoFar \in Seq(Bl)
           /\ First.msg \in Nat /\ First.msg <= count
           /\ First.msg = Current.msg \/ Spliced(Current) = {First.msg, Current.msg}
<1>1. Current \in Bl /\ Current.msg = count  BY CurrentIsBlock DEF IInv, InTurn
<1>2. body \in Seq(Bl) /\ header \in Bl /\ count \in Nat  BY DEF IInv, Types
<1>3. First \in Bl  BY <1>1, <1>2 DEF First
<1>4. SoFar \in Seq(Bl)  BY <1>1, <1>2 DEF SoFar
<1>5. First.msg \in Nat  BY <1>3 DEF Bl
<1>6. First.msg <= count  BY <1>1, <1>2 DEF First, IInv, InTurn
<1>7. First.msg = Current.msg \/ Spliced(Current) = {First.msg, Current.msg}
  BY DEF First, Spliced
<1> QED BY <1>3, <1>4, <1>5, <1>6, <1>7

LEMMA Taken ==
    ASSUME IInv, sending # <<>>, First.msg = Current.msg, First.msg \notin disturbed
    PROVE  /\ First = Block(Current.msg, 1, Current.of)
           /\ Len(SoFar) = Current.no
           /\ SoFar = Prefix(First, Current.no)
           /\ Current.no = 1 => ~receiving
           /\ Current.no > 1 => receiving
<1> DEFINE n == Len(body)
<1>0. /\ Current \in Bl /\ Current = Block(Current.msg, Current.no, Current.of)
      /\ Current.no \in Nat /\ Current.of \in Nat /\ Current.msg \in Nat
      /\ 1 <= Current.no /\ Current.no <= Current.of
  BY CurrentIsBlock DEF IInv, InTurn, Bl
<1>1. CASE ~receiving
  <2>1. Current.no = 1  BY <1>1 DEF IInv, FromStart, First
  <2>2. First = Current /\ SoFar = <<Current>>
    BY <1>1 DEF First, SoFar, Duplicate, IInv, Types
  <2>3. <<Current>> = Prefix(Current, 1)
    BY <2>1, <1>0 DEF Prefix
  <2> QED BY <1>0, <1>1, <2>1, <2>2, <2>3
<1>2. CASE receiving
  <2>1. /\ header.msg = Current.msg /\ header = Block(header.msg, 1, header.of)
        /\ 1 <= n /\ n < header.of /\ body = Prefix(header, n)
        /\ last_header = (IF n = 1 THEN NoHeader ELSE Block(header.msg, n, header.of))
        /\ Current.of = header.of
        /\ Current.no = n + 1 \/ (n > 1 /\ Current.no = n)
    BY <1>2 DEF IInv, Undisturbed, First
  <2>2. n \in Nat /\ body \in Seq(Bl) /\ Len(body) = n  BY DEF IInv, Types
  <2> HIDE DEF n
  <2>3. CASE Current.no = n + 1
    <3>1. last_header.no \in {0, n}  BY <2>1 DEF NoHeader, Block
    <3>2. last_header # Current  BY <3>1, <2>1, <2>2, <2>3
    <3>3. SoFar = Append(body, Current)  BY <3>2 DEF SoFar, Duplicate
    <3>4. Append(body, Current) = Prefix(header, n + 1)
      <4> DEFINE c == Append(body, Current)
      <4>1. DOMAIN c = 1..(n + 1) /\ c \in Seq(Bl)  BY <2>2, <1>0
      <4>2. \A k \in 1..n : body[k] = Block(header.msg, k, header.of)
        BY <2>1 DEF Prefix
      <4>3. Current = Block(header.msg, n + 1, header.of)
        BY <2>1, <2>3, <1>0
      <4>4. \A k \in 1..(n + 1) : c[k] = Block(header.msg, k, header.of)
        BY <4>2, <4>3, <2>2, <1>0
      <4> HIDE DEF c
      <4>5. c = [k \in 1..(n + 1) |-> c[k]]
        <5>1. PICK m \in Nat : c \in [1..m -> Bl]  BY <4>1, SeqDef
        <5> QED BY <5>1, <4>1
      <4>6. c = Prefix(header, n + 1)  BY <4>4, <4>5 DEF Prefix
      <4> QED BY <4>6 DEF c
    <3>5. Len(Append(body, Current)) = n + 1  BY <2>2, <1>0
    <3> QED BY <1>2, <2>1, <2>2, <2>3, <3>3, <3>4, <3>5 DEF First
  <2>4. CASE n > 1 /\ Current.no = n
    <3>1. last_header = Current  BY <2>1, <2>2, <2>4, <1>0
    <3>2. SoFar = body  BY <3>1, <1>2 DEF SoFar, Duplicate
    <3> QED BY <1>2, <2>1, <2>2, <2>4, <3>2 DEF First
  <2> QED BY <2>1, <2>3, <2>4
<1> QED BY <1>1, <1>2

\* The history of messages when one more is given to the program
LEMMA GivenKeeps ==
    ASSUME IInv, NEW g \in Given, delivered' = Append(delivered, g),
           disturbed \subseteq disturbed', completed \subseteq completed',
           completed' \subseteq completed \cup {count}, count \notin completed,
           count' = count, g.header.msg <= count,
           \/ g.header.msg \in disturbed'
           \/ g.header.msg = count /\ count \in completed' /\ g.body = Whole(g.header),
           count \in completed' => count \in disturbed' \/ g.header.msg = count
    PROVE  /\ delivered' \in Seq(Given)
           /\ \A i \in DOMAIN delivered' : delivered'[i].header.msg <= count
           /\ \A m \in completed' : m \in Nat /\ m <= count
           /\ Assembled' /\ Once'
<1> DEFINE l == Len(delivered) + 1
<1>1. /\ delivered \in Seq(Given) /\ count \in Nat /\ Len(delivered) \in Nat
      /\ DOMAIN delivered = 1..Len(delivered)
  BY DEF IInv, Types
<1>2. /\ DOMAIN delivered' = DOMAIN delivered \cup {l}
      /\ l \notin DOMAIN delivered
      /\ \A i \in DOMAIN delivered : delivered'[i] = delivered[i]
      /\ delivered'[l] = g
      /\ delivered' \in Seq(Given)
  BY <1>1
<1> HIDE DEF l
<1>3. /\ \A i \in DOMAIN delivered : delivered[i].header.msg <= count
      /\ \A m \in completed : m \in Nat /\ m <= count
  BY DEF IInv, InTurn
<1>4. Assembled'
  <2>1. \A i \in DOMAIN delivered :
          delivered[i].header.msg \in disturbed \/ delivered[i].body = Whole(delivered[i].header)
    BY DEF IInv, Assembled
  <2> QED BY <1>2, <2>1 DEF Assembled
<1>5. Once'
  <2>1. /\ \A i \in DOMAIN delivered :
             delivered[i].header.msg \in completed \cup disturbed
        /\ \A m \in completed \ disturbed :
             \E i \in DOMAIN delivered : delivered[i].header.msg = m
        /\ \A i, j \in DOMAIN delivered :
             delivered[i].header.msg = delivered[j].header.msg /\ i # j
               => delivered[i].header.msg \in disturbed
    BY DEF IInv, Once
  <2>2. \A i \in DOMAIN delivered' :
          delivered'[i].header.msg \in completed' \cup disturbed'
    BY <1>2, <2>1
  <2>3. \A m \in completed' \ disturbed' :
          \E i \in DOMAIN delivered' : delivered'[i].header.msg = m
    <3> TAKE m \in completed' \ disturbed'
    <3>1. CASE m \in completed  BY <3>1, <1>2, <2>1
    <3>2. CASE m = count  BY <3>2, <1>2
    <3> QED BY <3>1, <3>2
  <2>4. \A i, j \in DOMAIN delivered' :
          delivered'[i].header.msg = delivered'[j].header.msg /\ i # j
            => delivered'[i].header.msg \in disturbed'
    <3> TAKE i, j \in DOMAIN delivered'
    <3> HAVE delivered'[i].header.msg = delivered'[j].header.msg /\ i # j
    <3>1. CASE i \in DOMAIN delivered /\ j \in DOMAIN delivered  BY <3>1, <1>2, <2>1
    <3>2. CASE i = l \/ j = l
      <4>1. PICK k \in DOMAIN delivered : delivered[k].header.msg = g.header.msg
        BY <3>2, <1>2
      <4>2. delivered'[i].header.msg = g.header.msg  BY <3>2, <1>2
      <4>3. g.header.msg \in completed \cup disturbed  BY <4>1, <2>1
      <4> QED BY <4>2, <4>3
    <3> QED BY <3>1, <3>2, <1>2
  <2> QED BY <2>2, <2>3, <2>4 DEF Once
<1> QED BY <1>1, <1>2, <1>3, <1>4, <1>5

LEMMA AcknowledgedKeeps == ASSUME IInv, Acknowledged PROVE IInv'
<1>0. /\ sending # <<>> /\ Current \in Bl /\ Current.msg = count
      /\ Current = Block(Current.msg, Current.no, Current.of)
      /\ count \in Nat /\ count' = count /\ count \notin completed
      /\ Current.no \in Nat /\ Current.of \in Nat
      /\ 1 <= Current.no /\ Current.no <= Current.of
      /\ delivered \in Seq(Given) /\ header \in Bl /\ last_header \in Bl
  BY CurrentIsBlock DEF Acknowledged, IInv, Types, InTurn, Bl
<1>1. /\ First \in Bl /\ SoFar \in Seq(Bl)
      /\ First.msg \in Nat /\ First.msg <= count
      /\ First.msg = Current.msg \/ Spliced(Current) = {First.msg, Current.msg}
  BY <1>0, FirstType
<1>2. disturbed' = disturbed \cup Spliced(Current)  BY DEF Acknowledged
<1>3. First.msg \notin disturbed' =>
        /\ First.msg = Current.msg /\ First = Block(Current.msg, 1, Current.of)
        /\ Len(SoFar) = Current.no /\ SoFar = Prefix(First, Current.no)
        /\ Current.no = 1 => ~receiving
        /\ Current.no > 1 => receiving
  BY <1>0, <1>1, <1>2, Taken
<1>4. CASE ~IsLast(Current)
  <2>1. /\ receiving' = TRUE /\ header' = First /\ body' = SoFar
        /\ last_header' = (IF receiving THEN Current ELSE last_header)
        /\ delivered' = delivered /\ completed' = completed /\ tries' = Retry
        /\ sending' = <<Block(Current.msg, Current.no + 1, Current.of)>>
    BY <1>4 DEF Acknowledged, TakeBlock, SaveHeader, First, SoFar
  <2>2. /\ Current' = Block(Current.msg, Current.no + 1, Current.of)
        /\ Current' \in Bl /\ sending' = <<Current'>> /\ sending' # <<>>
        /\ Current'.msg = Current.msg /\ Current'.no = Current.no + 1
        /\ Current'.of = Current.of /\ Current.no < Current.of
    BY <2>1, <1>0, <1>4 DEF Current, Block, Bl, IsLast
  <2>3. receiving' \in BOOLEAN  BY <2>1, Zenon
  <2>4. Types'
    BY <2>1, <2>2, <2>3, <1>0, <1>1, SecsBlocksAssumption DEF Types
  <2>5. InTurn' /\ Assembled' /\ Once'
    BY <2>1, <2>2, <2>4, <1>0, <1>1, <1>2, QuietKeeps
  <2>6. Undisturbed'
    <3> SUFFICES ASSUME header'.msg \notin disturbed' PROVE Undisturbed'
      BY DEF Undisturbed
    <3>1. /\ First.msg = Current.msg /\ First = Block(Current.msg, 1, Current.of)
          /\ Len(SoFar) = Current.no /\ SoFar = Prefix(First, Current.no)
      BY <1>3, <2>1
    <3>2. First.msg = Current.msg /\ First.of = Current.of  BY <3>1 DEF Block
    <3>3. last_header' = IF Current.no = 1 THEN NoHeader
                         ELSE Block(Current.msg, Current.no, Current.of)
      <4>1. CASE Current.no = 1
        BY <4>1, <1>3, <2>1 DEF IInv, Types
      <4>2. CASE Current.no > 1  BY <4>2, <1>0, <1>3, <2>1
      <4> QED BY <4>1, <4>2, <1>0
    <3> QED BY <3>1, <3>2, <3>3, <2>1, <2>2, <1>0 DEF Undisturbed
  <2>7. FromStart'
    BY <2>1, <2>2, <1>1, <1>2 DEF FromStart
  <2> QED BY <2>4, <2>5, <2>6, <2>7 DEF IInv
<1>5. CASE IsLast(Current)
  <2> DEFINE g == [header |-> First, body |-> SoFar]
  <2>1. /\ receiving' = FALSE /\ body' = <<>>
        /\ header' = NoHeader /\ last_header' = NoHeader
        /\ delivered' = Append(delivered, g) /\ tries' = tries
        /\ sending' = <<>> /\ completed' = completed \cup {count}
    BY <1>5, <1>0 DEF Acknowledged, TakeBlock, Returns, First, SoFar
  <2>2. g \in Given /\ g.header = First /\ g.body = SoFar
    BY <1>1 DEF Given
  <2>3. First.msg \notin disturbed' => SoFar = Whole(First)
    BY <1>0, <1>3, <1>5 DEF Prefix, Whole, IsLast, Block
  <2>4. count \in disturbed' \/ First.msg = count
    BY <1>0, <1>1, <1>2
  <2>5. First.msg \in disturbed' \/ (First.msg = count /\ SoFar = Whole(First))
    BY <1>0, <1>3, <2>3
  <2> HIDE DEF g
  <2>6. /\ delivered' \in Seq(Given)
        /\ \A i \in DOMAIN delivered' : delivered'[i].header.msg <= count
        /\ \A m \in completed' : m \in Nat /\ m <= count
        /\ Assembled' /\ Once'
    BY <1>0, <1>1, <1>2, <2>1, <2>2, <2>4, <2>5, GivenKeeps
  <2>7. receiving' \in BOOLEAN  BY <2>1, Zenon
  <2>8. Types'
    BY <2>1, <2>6, <2>7, <1>0, Empty DEF Types, IInv
  <2>9. InTurn' /\ Undisturbed' /\ FromStart'
    BY <2>1, <2>6, <1>0 DEF InTurn, Undisturbed, FromStart
  <2> QED BY <2>6, <2>8, <2>9 DEF IInv
<1> QED BY <1>4, <1>5

LEMMA AckLostKeeps == ASSUME IInv, AckLost PROVE IInv'
<1>0. /\ sending # <<>> /\ Current \in Bl /\ Current.msg = count
      /\ Current = Block(Current.msg, Current.no, Current.of)
      /\ count \in Nat /\ count \notin completed
      /\ Current.no \in Nat /\ Current.of \in Nat
      /\ 1 <= Current.no /\ Current.no <= Current.of
      /\ delivered \in Seq(Given) /\ header \in Bl /\ last_header \in Bl
  BY CurrentIsBlock DEF AckLost, IInv, Types, InTurn, Bl
<1>a. /\ tries' \in Nat /\ count' = count /\ completed' = completed
      /\ sending' = <<>> \/ sending' = sending
      /\ sending' # <<>> => sending' = sending /\ Current' = Current
  BY RepeatsKeeps DEF AckLost
<1>1. /\ First \in Bl /\ SoFar \in Seq(Bl)
      /\ First.msg \in Nat /\ First.msg <= count
      /\ First.msg = Current.msg \/ Spliced(Current) = {First.msg, Current.msg}
  BY <1>0, FirstType
<1>2. /\ disturbed \cup Spliced(Current) \subseteq disturbed'
      /\ Current.no = 1 \/ IsLast(Current) => Current.msg \in disturbed'
  BY DEF AckLost
<1>3. First.msg \notin disturbed' =>
        /\ First.msg = Current.msg /\ First = Block(Current.msg, 1, Current.of)
        /\ Len(SoFar) = Current.no /\ SoFar = Prefix(First, Current.no)
        /\ Current.no > 1 /\ receiving
  <2> SUFFICES ASSUME First.msg \notin disturbed'
               PROVE  /\ First.msg = Current.msg /\ First = Block(Current.msg, 1, Current.of)
                      /\ Len(SoFar) = Current.no /\ SoFar = Prefix(First, Current.no)
                      /\ Current.no > 1 /\ receiving
    OBVIOUS
  <2>1. First.msg = Current.msg  BY <1>1, <1>2
  <2>2. Current.no > 1  BY <2>1, <1>0, <1>2
  <2> QED BY <2>1, <2>2, <1>0, <1>2, Taken
<1>4. CASE ~IsLast(Current)
  <2>1. /\ receiving' = TRUE /\ header' = First /\ body' = SoFar
        /\ last_header' = (IF receiving THEN Current ELSE last_header)
        /\ delivered' = delivered
    BY <1>4 DEF AckLost, TakeBlock, SaveHeader, First, SoFar
  <2>2. Current.no < Current.of  BY <1>0, <1>4 DEF IsLast
  <2>3. receiving' \in BOOLEAN  BY <2>1, Zenon
  <2>4. Types'
    BY <2>1, <2>3, <1>0, <1>a, <1>1 DEF Types, IInv
  <2>5. InTurn' /\ Assembled' /\ Once'
    BY <2>1, <2>4, <1>0, <1>a, <1>1, <1>2, QuietKeeps
  <2>6. Undisturbed'
    <3> SUFFICES ASSUME header'.msg \notin disturbed' PROVE Undisturbed'
      BY DEF Undisturbed
    <3>1. /\ First.msg = Current.msg /\ First = Block(Current.msg, 1, Current.of)
          /\ Len(SoFar) = Current.no /\ SoFar = Prefix(First, Current.no)
          /\ Current.no > 1 /\ receiving
      BY <1>3, <2>1
    <3>2. First.of = Current.of  BY <3>1 DEF Block
    <3>3. last_header' = Block(Current.msg, Current.no, Current.of)
      BY <1>0, <2>1, <3>1
    <3>4. /\ header'.msg = Current.msg /\ header'.of = Current.of
          /\ header' = Block(header'.msg, 1, header'.of)
      BY <2>1, <3>1, <3>2
    <3>5. /\ Len(body') = Current.no /\ body' = Prefix(header', Len(body'))
      BY <2>1, <3>1
    <3>6. sending' # <<>> => Current'.of = header'.of /\ Current'.no = Len(body')
      BY <1>a, <3>4, <3>5
    <3>7. 1 <= Len(body') /\ Len(body') < header'.of /\ Len(body') > 1 /\ Len(body') # 1
      BY <1>0, <2>2, <3>1, <3>4, <3>5
    <3>8. last_header' = Block(header'.msg, Len(body'), header'.of)
      BY <3>3, <3>4, <3>5
    <3> QED BY <3>4, <3>5, <3>6, <3>7, <3>8 DEF Undisturbed
  <2>7. FromStart'
    BY <2>1, <1>a, <1>1, <1>2 DEF FromStart
  <2> QED BY <2>4, <2>5, <2>6, <2>7 DEF IInv
<1>5. CASE IsLast(Current)
  <2> DEFINE g == [header |-> First, body |-> SoFar]
  <2>1. /\ receiving' = FALSE /\ body' = <<>>
        /\ header' = NoHeader /\ last_header' = NoHeader
        /\ delivered' = Append(delivered, g)
    BY <1>5, <1>0 DEF AckLost, TakeBlock, Returns, First, SoFar
  <2>2. g \in Given /\ g.header = First /\ g.body = SoFar
    BY <1>1 DEF Given
  <2>3. First.msg \in disturbed' /\ count \in disturbed'
    BY <1>0, <1>1, <1>2, <1>5
  <2> HIDE DEF g
  <2>4. /\ delivered' \in Seq(Given)
        /\ \A i \in DOMAIN delivered' : delivered'[i].header.msg <= count
        /\ \A m \in completed' : m \in Nat /\ m <= count
        /\ Assembled' /\ Once'
    BY <1>0, <1>a, <1>1, <1>2, <2>1, <2>2, <2>3, GivenKeeps
  <2>5. receiving' \in BOOLEAN  BY <2>1, Zenon
  <2>6. Types'
    BY <2>1, <2>4, <2>5, <1>0, <1>a, Empty DEF Types, IInv
  <2>7. InTurn' /\ Undisturbed' /\ FromStart'
    BY <2>1, <2>3, <2>4, <1>0, <1>a DEF InTurn, Undisturbed, FromStart
  <2> QED BY <2>4, <2>6, <2>7 DEF IInv
<1> QED BY <1>4, <1>5

-----------------------------------------------------------------------------

\* Inductive: the reception of recv_secs() and the place of the sender stay in
\* step, as IInv says, through every repetition and every loss.
THEOREM Inductive == Spec => []IInv
<1>1. Init => IInv  BY InitIInv
<1>2. IInv /\ [Next]_vars => IInv'
  <2> SUFFICES ASSUME IInv, [Next]_vars PROVE IInv'  OBVIOUS
  <2>1. CASE Next
    <3>1. CASE Finished
      BY <3>1 DEF Finished, vars, reception, sender, IInv, Types, InTurn, Undisturbed,
                  FromStart, Assembled, Once, Current
    <3> QED BY <2>1, <3>1, FailsKeeps, StartsKeeps, AcknowledgedKeeps, AckLostKeeps,
               NakKeeps, UnheardKeeps DEF Next
  <2>2. CASE UNCHANGED vars
    BY <2>2 DEF vars, reception, sender, IInv, Types, InTurn, Undisturbed,
                FromStart, Assembled, Once, Current
  <2> QED BY <2>1, <2>2
<1> QED BY <1>1, <1>2, PTL DEF Spec

\* AlwaysAssembled: what recv_secs() gives to the program is one message, whole and
\* in order, for any number of blocks and retries; with the exceptions of Assembled.
THEOREM AlwaysAssembled == Spec => []Assembled
<1>1. IInv => Assembled  BY DEF IInv
<1> QED BY <1>1, Inductive, PTL

\* DeliveredOnce: a message whose last block was acknowledged has been given to the
\* program exactly once, for any number of blocks and retries; with the exceptions
\* of OnceEach.
THEOREM DeliveredOnce == Spec => []OnceEach
<1>1. IInv => OnceEach
  <2> SUFFICES ASSUME IInv, NEW m \in completed \ disturbed
               PROVE  Cardinality({i \in DOMAIN delivered : delivered[i].header.msg = m}) = 1
    BY DEF OnceEach
  <2>1. PICK k \in DOMAIN delivered : delivered[k].header.msg = m
    BY DEF IInv, Once
  <2>2. {i \in DOMAIN delivered : delivered[i].header.msg = m} = {k}
    BY <2>1 DEF IInv, Once
  <2> QED BY <2>2, FS_Singleton
<1> QED BY <1>1, Inductive, PTL

-----------------------------------------------------------------------------
(* The length bytes of an item. *)

\* Quotient and remainder by the radix
LEMMA Division ==
    ASSUME NEW n \in Nat
    PROVE  /\ n \div Radix \in Nat
           /\ n % Radix \in 0..(Radix - 1)
           /\ n = Radix * (n \div Radix) + (n % Radix)
  BY RadixAssumption, Z3

\* A quotient is below m when the number is below m times the radix
LEMMA QuotientBound ==
    ASSUME NEW n \in Nat, NEW m \in Nat, n < Radix * m
    PROVE  n \div Radix < m
<1> DEFINE q == n \div Radix
<1>1. q \in Nat /\ Radix * q <= n
  BY Division, RadixAssumption, Z3
<1>2. ASSUME q >= m PROVE FALSE
  <2>1. Radix * q >= Radix * m
    <3> HIDE DEF q
    <3> QED BY <1>1, <1>2, RadixAssumption, Z3
  <2> QED BY <2>1, <1>1, RadixAssumption, Z3
<1> QED BY <1>1, <1>2

\* Multiplying keeps the order
LEMMA Times ==
    ASSUME NEW a \in Nat, NEW b \in Nat, NEW c \in Nat, a <= b
    PROVE  c * a <= c * b
  BY Z3

\* The quotient is the only one that leaves a remainder below the divisor
LEMMA QuotientUnique ==
    ASSUME NEW m \in Nat, NEW r \in Nat, NEW s \in Nat, s < m
    PROVE  (m * r + s) \div m = r
<1> DEFINE x == m * r + s
           d == x \div m
<1>1. x \in Nat
  BY Z3
<1>2. d \in Nat /\ m * d <= x /\ x < m * d + m
  BY <1>1, Z3
<1>3. m * r <= x /\ x < m * r + m
  BY Z3
<1> HIDE DEF x, d
<1>4. ASSUME d < r PROVE FALSE
  <2>1. m * r >= m * (d + 1)
    BY <1>2, <1>4, Z3
  <2>2. m * (d + 1) = m * d + m
    BY <1>2, Z3
  <2> QED BY <1>1, <1>2, <1>3, <2>1, <2>2, Z3
<1>5. ASSUME r < d PROVE FALSE
  <2>1. m * d >= m * (r + 1)
    BY <1>2, <1>5, Z3
  <2>2. m * (r + 1) = m * r + m
    BY Z3
  <2> QED BY <1>1, <1>2, <1>3, <2>1, <2>2, Z3
<1>6. d = r
  BY <1>2, <1>4, <1>5
<1> QED BY <1>6 DEF x, d

\* LengthReadBack: whatever the length of an item, from zero to three full length
\* bytes, secs_decode() takes from the bytes of set_size_bytes() the length that
\* secs_encode() gave it, and as many bytes as there are.
THEOREM LengthReadBack ==
    ASSUME NEW n \in Nat, n < Radix * (Radix * Radix)
    PROVE  LET b == set_size_bytes(n)
           IN /\ item_size(Len(b), b) = n
              /\ LengthBytes(Len(b)) = Len(b)
              /\ \A i \in DOMAIN b : b[i] \in 0..(Radix - 1)
<1> DEFINE q == n \div Radix
<1>1. /\ q \in Nat /\ n % Radix \in 0..(Radix - 1)
      /\ n = Radix * q + (n % Radix)
  BY Division
<1>2. CASE n < Radix
  BY <1>2, RadixAssumption DEF set_size_bytes, item_size, LengthBytes
<1>3. CASE ~(n < Radix) /\ n < Radix * Radix
  <2>1. q < Radix
    BY <1>3, QuotientBound, RadixAssumption
  <2>2. q % Radix = q
    <3> HIDE DEF q
    <3> QED BY <1>1, <2>1, RadixAssumption, Z3
  <2>3. set_size_bytes(n) = <<q, n % Radix>>
    BY <1>3, <2>2 DEF set_size_bytes
  <2>4. q * Radix + (n % Radix) = n
    <3> HIDE DEF q
    <3> QED BY <1>1, RadixAssumption, Z3
  <2> HIDE DEF q
  <2> QED BY <1>1, <2>1, <2>3, <2>4, RadixAssumption DEF item_size, LengthBytes
<1>4. CASE ~(n < Radix) /\ ~(n < Radix * Radix)
  <2> DEFINE r == q \div Radix
  <2>1. /\ r \in Nat /\ q % Radix \in 0..(Radix - 1)
        /\ q = Radix * r + (q % Radix)
    BY <1>1, Division
  <2>2. r < Radix
    <3>1. Radix * Radix \in Nat
      BY RadixAssumption, Z3
    <3>2. q < Radix * Radix
      BY <3>1, QuotientBound
    <3> QED BY <1>1, <3>2, QuotientBound, RadixAssumption
  <2>3. n \div (Radix * Radix) = r
    <3> HIDE DEF q
    <3>1. n = (Radix * Radix) * r + (Radix * (q % Radix) + (n % Radix))
      BY <1>1, <2>1, RadixAssumption, Z3
    <3> DEFINE m == Radix * Radix
               s == Radix * (q % Radix) + (n % Radix)
    <3>2. m \in Nat /\ s \in Nat /\ s < m
      <4>1. Radix * (q % Radix) <= Radix * (Radix - 1)
        <5> DEFINE a == q % Radix
        <5>1. a \in Nat /\ Radix - 1 \in Nat /\ a <= Radix - 1
          BY <2>1, RadixAssumption
        <5> HIDE DEF a
        <5>2. Radix * a <= Radix * (Radix - 1)
          BY <5>1, Times, RadixAssumption
        <5> QED BY <5>2 DEF a
      <4> QED BY <4>1, <1>1, <2>1, RadixAssumption, Z3
    <3> HIDE DEF m, s, r
    <3>3. (m * r + s) \div m = r
      BY <2>1, <3>2, QuotientUnique
    <3> QED BY <3>1, <3>3 DEF m, s
  <2>4. r % Radix = r
    <3> HIDE DEF r
    <3> QED BY <2>1, <2>2, RadixAssumption, Z3
  <2>5. set_size_bytes(n) = <<r, q % Radix, n % Radix>>
    BY <1>4, <2>3, <2>4 DEF set_size_bytes
  <2>6. r * (Radix * Radix) + (q % Radix) * Radix + (n % Radix) = n
    <3> HIDE DEF q, r
    <3> QED BY <1>1, <2>1, RadixAssumption, Z3
  <2> DEFINE b == <<r, q % Radix, n % Radix>>
  <2> HIDE DEF q, r
  <2>7. item_size(3, b) = n /\ LengthBytes(3) = 3
    BY <2>6 DEF item_size, LengthBytes
  <2>8. Len(b) = 3 /\ \A i \in DOMAIN b : b[i] \in 0..(Radix - 1)
    BY <1>1, <2>1, <2>2, RadixAssumption
  <2> QED BY <2>5, <2>7, <2>8
<1> QED BY <1>2, <1>3, <1>4
=============================================================================
