--------------------------- MODULE SecsLineProofs ---------------------------
(***************************************************************************)
(* SecsLine, for any number of messages, retries, nested sends and faults. *)
(***************************************************************************)
EXTENDS SecsLine, SequenceTheorems, TLAPS

LEMMA Numbers == {MaxRetry, MaxMsgs, MaxNest, MaxFaults, MaxEarly} \subseteq Nat
BY LineAssumption

\* The line has two ends
LEMMA PeerIs ==
    ASSUME NEW s \in Station
    PROVE  /\ Peer(s) \in Station /\ Peer(s) # s /\ Peer(Peer(s)) = s
           /\ \A t \in Station : t = s \/ t = Peer(s)
           /\ s = Master <=> Peer(s) # Master
<1>1. PICK other \in Station : other # Master /\ Station = {Master, other}
  BY LineAssumption
<1>2. \A t \in Station : \E u \in Station : u # t
  BY <1>1, LineAssumption
<1>3. \A t \in Station : Peer(t) \in Station /\ Peer(t) # t
  BY <1>2 DEF Peer
<1> QED BY <1>1, <1>3

-----------------------------------------------------------------------------
(* What a line carries. *)

Kinds == Control \cup Data

\* Some symbol of this kind is on its way
Carries(q, k) == \E i \in 1..Len(q) : q[i].kind = k

\* The order in which the symbols that may be on the line together follow
Rank(k) ==
    IF k \in {"ACK", "NAK"} THEN 1 ELSE IF k = "ENQ" THEN 2
    ELSE IF k = "EOT" THEN 3 ELSE 4

\* Answer, ENQ and EOT follow in this order; a block is alone on the line
Shape(q) ==
    /\ \A i, j \in 1..Len(q) : i < j => Rank(q[i].kind) < Rank(q[j].kind)
    /\ \A i \in 1..Len(q) : q[i].kind \in Data => Len(q) = 1

LEMMA KindsAre ==
    /\ Control = {"ENQ", "EOT", "ACK", "NAK"} /\ Data = {"block", "spoilt", "cut"}
    /\ Rank("ACK") = 1 /\ Rank("NAK") = 1 /\ Rank("ENQ") = 2 /\ Rank("EOT") = 3
    /\ \A k \in Data : Rank(k) = 4
    /\ \A k \in Kinds : Rank(k) \in 1..4
BY DEF Control, Data, Kinds, Rank

LEMMA SymbolType ==
    /\ \A q \in Seq(Symbols), i \in Nat : i \in 1..Len(q) =>
          q[i] \in Symbols /\ q[i].kind \in Kinds
    /\ \A x \in Symbols : x.kind \in Kinds
    /\ \A k \in Kinds, m \in 0..MaxMsgs :
          Symbol(k, m) \in Symbols /\ Symbol(k, m).kind = k /\ Symbol(k, m).msg = m
    /\ \A k \in Kinds : Char(k) \in Symbols /\ Char(k).kind = k
<1>1. \A x \in Symbols : x.kind \in Kinds  BY DEF Symbols, Kinds
<1>2. 0 \in 0..MaxMsgs  BY Numbers
<1>3. \A k \in Kinds, m \in 0..MaxMsgs :
          Symbol(k, m) \in Symbols /\ Symbol(k, m).kind = k /\ Symbol(k, m).msg = m
  BY DEF Symbol, Symbols, Kinds
<1>4. \A k \in Kinds : Char(k) \in Symbols /\ Char(k).kind = k
  BY <1>2, <1>3 DEF Char
<1> QED BY <1>1, <1>3, <1>4

LEMMA EmptyLine ==
    /\ \A k : ~Carries(<<>>, k)
    /\ Shape(<<>>)
    /\ \A q \in Seq(Symbols) : q = <<>> <=> \A k \in Kinds : ~Carries(q, k)
<1>1. Len(<<>>) = 0 /\ 1..0 = {}  OBVIOUS
<1>2. \A k : ~Carries(<<>>, k)  BY <1>1 DEF Carries
<1>3. Shape(<<>>)  BY <1>1 DEF Shape
<1>4. ASSUME NEW q \in Seq(Symbols), q # <<>> PROVE \E k \in Kinds : Carries(q, k)
  <2>1. 1 \in 1..Len(q)  BY <1>4
  <2> QED BY <2>1, SymbolType DEF Carries
<1> QED BY <1>2, <1>3, <1>4

LEMMA FirstSymbol ==
    ASSUME NEW q \in Seq(Symbols), q # <<>>
    PROVE  /\ Head(q) \in Symbols /\ Head(q) = q[1] /\ Head(q).kind \in Kinds
           /\ Carries(q, Head(q).kind)
<1>1. 1 \in 1..Len(q) /\ Head(q) = q[1]  OBVIOUS
<1> QED BY <1>1, SymbolType DEF Carries

\* What a read leaves on the line
LEMMA TailCarries ==
    ASSUME NEW q \in Seq(Symbols), q # <<>>, Shape(q)
    PROVE  /\ Tail(q) \in Seq(Symbols) /\ Shape(Tail(q))
           /\ \A k \in Kinds : Carries(Tail(q), k) => 
                 Carries(q, k) /\ k \in Control /\ Rank(Head(q).kind) < Rank(k)
           /\ \A k \in Kinds : Carries(q, k) /\ k # Head(q).kind => Carries(Tail(q), k)
           /\ Head(q).kind \in Data => Tail(q) = <<>>
<1> DEFINE r == Tail(q)
<1>1. Len(q) \in Nat /\ Len(q) >= 1 /\ Head(q) = q[1] /\ 1 \in 1..Len(q)  OBVIOUS
<1>2. /\ r \in Seq(Symbols) /\ Len(r) = Len(q) - 1
      /\ \A i \in 1..Len(r) : r[i] = q[i + 1]
  OBVIOUS
<1> HIDE DEF r
<1>3. \A i \in 1..Len(r) : i + 1 \in 1..Len(q)  BY <1>1, <1>2
<1>4. Shape(r)
  <2>1. \A i, j \in 1..Len(r) : i < j => Rank(r[i].kind) < Rank(r[j].kind)
    BY <1>2, <1>3 DEF Shape
  <2>2. \A i \in 1..Len(r) : r[i].kind \notin Data
    BY <1>1, <1>2, <1>3 DEF Shape
  <2> QED BY <2>1, <2>2 DEF Shape
<1>5. ASSUME NEW k \in Kinds, Carries(r, k)
      PROVE  Carries(q, k) /\ k \in Control /\ Rank(Head(q).kind) < Rank(k)
  <2>1. PICK i \in 1..Len(r) : r[i].kind = k  BY <1>5 DEF Carries
  <2>2. q[i + 1].kind = k /\ i + 1 \in 1..Len(q)  BY <1>2, <1>3, <2>1
  <2>3. k \notin Data
    <3>1. Len(q) # 1  BY <1>1, <1>2, <2>1
    <3> QED BY <2>2, <3>1 DEF Shape
  <2>4. Rank(q[1].kind) < Rank(q[i + 1].kind)
    <3>1. 1 < i + 1  BY <2>1
    <3> QED BY <1>1, <2>2, <3>1 DEF Shape
  <2> QED BY <1>1, <2>2, <2>3, <2>4 DEF Carries, Kinds
<1>6. ASSUME NEW k \in Kinds, Carries(q, k), k # Head(q).kind PROVE Carries(r, k)
  <2>1. PICK i \in 1..Len(q) : q[i].kind = k  BY <1>6 DEF Carries
  <2>2. i # 1  BY <1>1, <1>6, <2>1
  <2>3. i - 1 \in 1..Len(r) /\ r[i - 1] = q[i]  BY <1>1, <1>2, <2>2
  <2> QED BY <2>1, <2>3 DEF Carries
<1>7. Head(q).kind \in Data => r = <<>>
  <2>1. Head(q).kind \in Data => Len(q) = 1  BY <1>1 DEF Shape
  <2> QED BY <1>2, <2>1
<1> QED BY <1>2, <1>4, <1>5, <1>6, <1>7 DEF r

LEMMA AppendCarries ==
    ASSUME NEW q \in Seq(Symbols), NEW x \in Symbols
    PROVE  /\ Append(q, x) \in Seq(Symbols) /\ Append(q, x) # <<>>
           /\ \A k : Carries(Append(q, x), k) <=> Carries(q, k) \/ k = x.kind
           /\ Shape(q) /\ (\A k \in Kinds : Carries(q, k) => k \in Control /\ Rank(k) < Rank(x.kind))
                /\ (x.kind \in Data => q = <<>>)
              => Shape(Append(q, x))
           /\ q = <<>> => Head(Append(q, x)) = x
<1> DEFINE r == Append(q, x)
<1>1. /\ Len(q) \in Nat /\ r \in Seq(Symbols) /\ Len(r) = Len(q) + 1
      /\ \A i \in 1..Len(q) : r[i] = q[i]
      /\ r[Len(q) + 1] = x /\ r # <<>>
  OBVIOUS
<1>2. q = <<>> => Head(r) = x  OBVIOUS
<1> HIDE DEF r
<1>3. \A k : Carries(r, k) <=> Carries(q, k) \/ k = x.kind
  <2>1. \A i \in 1..Len(q) : i \in 1..Len(r)  BY <1>1
  <2>2. Len(q) + 1 \in 1..Len(r)  BY <1>1
  <2>3. \A i \in 1..Len(r) : i \in 1..Len(q) \/ i = Len(q) + 1  BY <1>1
  <2> QED BY <1>1, <2>1, <2>2, <2>3 DEF Carries
<1>4. ASSUME Shape(q), \A k \in Kinds : Carries(q, k) => k \in Control /\ Rank(k) < Rank(x.kind),
             x.kind \in Data => q = <<>>
      PROVE  Shape(r)
  <2>1. \A i \in 1..Len(q) : q[i].kind \in Control /\ Rank(q[i].kind) < Rank(x.kind)
    BY <1>4, SymbolType DEF Carries
  <2>2. ASSUME NEW i \in 1..Len(r), NEW j \in 1..Len(r), i < j
        PROVE  Rank(r[i].kind) < Rank(r[j].kind)
    <3>1. i \in 1..Len(q) /\ r[i] = q[i]  BY <1>1, <2>2
    <3>2. CASE j \in 1..Len(q)
      <4>1. r[j] = q[j]  BY <1>1, <3>2
      <4> QED BY <1>4, <2>2, <3>1, <3>2, <4>1 DEF Shape
    <3>3. CASE j = Len(q) + 1  BY <1>1, <2>1, <3>1, <3>3
    <3> QED BY <1>1, <2>2, <3>2, <3>3
  <2>3. ASSUME NEW i \in 1..Len(r), r[i].kind \in Data PROVE Len(r) = 1
    <3>1. CASE i \in 1..Len(q)
      <4>1. r[i].kind \in Control  BY <1>1, <2>1, <3>1
      <4> QED BY <2>3, <4>1 DEF Control, Data
    <3>2. CASE i = Len(q) + 1
      <4>1. q = <<>>  BY <1>1, <1>4, <2>3, <3>2
      <4> QED BY <1>1, <4>1
    <3> QED BY <1>1, <3>1, <3>2
  <2> QED BY <2>2, <2>3 DEF Shape
<1> QED BY <1>1, <1>2, <1>3, <1>4 DEF r

\* What is left of a line after a character is taken from it
After(q, r) ==
    /\ r \in Seq(Symbols) /\ Shape(r)
    /\ \A k \in Control : Carries(r, k) =>
          /\ Carries(q, k) /\ k \in {"ENQ", "EOT"}
          /\ Head(q).kind # k /\ Head(q).kind # "EOT"
    /\ \A k \in Data : Carries(r, k) => k = "cut" /\ Head(q).kind \in Data
    /\ \A k \in Control : Carries(q, k) /\ k # Head(q).kind => Carries(r, k)

\* A line with one symbol
LEMMA OneSymbol ==
    ASSUME NEW x \in Symbols
    PROVE  /\ <<x>> \in Seq(Symbols) /\ <<x>> # <<>> /\ Head(<<x>>) = x
           /\ \A k : Carries(<<x>>, k) <=> k = x.kind
           /\ Shape(<<x>>)
<1>1. Len(<<x>>) = 1 /\ <<x>>[1] = x /\ 1..1 = {1}  OBVIOUS
<1>2. Shape(<<x>>)  BY <1>1 DEF Shape
<1>3. \A k : Carries(<<x>>, k) <=> k = x.kind  BY <1>1 DEF Carries
<1> QED BY <1>1, <1>2, <1>3

LEMMA RestsType ==
    ASSUME TypeOK, NEW s \in Station, line[s] # <<>>, NEW r \in Rests(s)
    PROVE  /\ r \in Seq(Symbols)
           /\ r = Tail(line[s])
              \/ (r = <<Char("cut")>> \o Tail(line[s]) /\ Head(line[s]).kind \in Data)
<1>1. line[s] \in Seq(Symbols)  BY DEF TypeOK
<1>2. Char("cut") \in Symbols  BY SymbolType, KindsAre DEF Kinds
<1>3. Tail(line[s]) \in Seq(Symbols)  BY <1>1
<1>4. <<Char("cut")>> \o Tail(line[s]) \in Seq(Symbols)
  <2>1. <<Char("cut")>> \in Seq(Symbols)  BY <1>2
  <2> QED BY <1>3, <2>1
<1>5. r = Tail(line[s])
      \/ (r = <<Char("cut")>> \o Tail(line[s]) /\ Head(line[s]).kind \in Data)
  BY DEF Rests
<1> QED BY <1>3, <1>4, <1>5

LEMMA RestsAfter ==
    ASSUME TypeOK, NEW s \in Station, line[s] # <<>>, Shape(line[s]), NEW r \in Rests(s)
    PROVE  After(line[s], r)
<1> DEFINE q == line[s]
<1> SUFFICES After(q, r)  OBVIOUS
<1>1. q \in Seq(Symbols) /\ q # <<>> /\ Shape(q)  BY DEF TypeOK
<1>2. Char("cut") \in Symbols /\ Char("cut").kind = "cut"
  BY SymbolType, KindsAre DEF Kinds
<1>3. Head(q).kind \in Kinds  BY <1>1, FirstSymbol
<1>4. r \in Seq(Symbols)
      /\ (r = Tail(q) \/ (r = <<Char("cut")>> \o Tail(q) /\ Head(q).kind \in Data))
  BY RestsType
<1> HIDE DEF q
<1>5. CASE r = Tail(q)
  <2>1. /\ Shape(r) /\ \A k \in Kinds : Carries(r, k) =>
              Carries(q, k) /\ k \in Control /\ Rank(Head(q).kind) < Rank(k)
    BY <1>1, <1>5, TailCarries
  <2>2. \A k \in Data : k \notin Control /\ k \in Kinds  BY DEF Data, Control, Kinds
  <2>3. \A k \in Control : k \in Kinds  BY DEF Kinds
  <2>5. \A k \in Data : ~Carries(r, k)  BY <2>1, <2>2
  <2>6. ASSUME NEW k \in Control, Carries(r, k)
        PROVE  /\ Carries(q, k) /\ k \in {"ENQ", "EOT"}
               /\ Head(q).kind # k /\ Head(q).kind # "EOT"
    <3>1. Carries(q, k) /\ Rank(Head(q).kind) < Rank(k) /\ Rank(Head(q).kind) \in 1..4
      BY <1>3, <2>1, <2>3, <2>6, KindsAre
    <3>2. Rank(k) # 1 /\ Head(q).kind # k  BY <3>1, <2>6, KindsAre DEF Control
    <3>3. k \in {"ENQ", "EOT"}  BY <2>6, <3>2, KindsAre
    <3>4. Rank(k) <= 3  BY <3>3, KindsAre
    <3>5. Head(q).kind # "EOT"  BY <3>1, <3>4, KindsAre
    <3> QED BY <3>1, <3>2, <3>3, <3>5
  <2>7. \A k \in Control : Carries(r, k) =>
           /\ Carries(q, k) /\ k \in {"ENQ", "EOT"}
           /\ Head(q).kind # k /\ Head(q).kind # "EOT"
    BY <2>6
  <2>8. \A k \in Data : Carries(r, k) => k = "cut" /\ Head(q).kind \in Data  BY <2>5
  <2>9. \A k \in Control : Carries(q, k) /\ k # Head(q).kind => Carries(r, k)
    BY <1>1, <1>5, <2>3, TailCarries
  <2> QED BY <1>4, <2>1, <2>7, <2>8, <2>9 DEF After
<1>6. CASE r = <<Char("cut")>> \o Tail(q) /\ Head(q).kind \in Data
  <2>1. Tail(q) = <<>>  BY <1>1, <1>6, TailCarries
  <2>4. \A k \in Control : ~(Carries(q, k) /\ k # Head(q).kind)
    BY <1>1, <2>1, TailCarries, EmptyLine DEF Kinds
  <2>2. r = <<Char("cut")>>
    <3>1. <<Char("cut")>> \in Seq(Symbols)  BY <1>2
    <3> QED BY <1>6, <2>1, <3>1, ConcatEmptySeq
  <2>3. Shape(r) /\ \A k : Carries(r, k) <=> k = "cut"  BY <1>2, <2>2, OneSymbol
  <2>5. \A k \in Control : ~Carries(r, k)  BY <2>3 DEF Control
  <2>6. \A k \in Data : Carries(r, k) => k = "cut"  BY <2>3
  <2> QED BY <1>4, <1>6, <2>3, <2>4, <2>5, <2>6 DEF After
<1> QED BY <1>4, <1>5, <1>6

-----------------------------------------------------------------------------
(* How the lines and the ends go together as long as no timer runs out      *)
(* before a late answer.                                                    *)

Receiving == {"size", "block", "drain"}
Blocks(q) == \E d \in Data : Carries(q, d)

\* What is on its way to s, which is at "here" while its peer is at "there"
\* and "back" is on its way to the peer
Tidy(s, q, back, here, there) ==
    /\ Shape(q)
    /\ Carries(q, "EOT") => /\ here = "eot" /\ there = "size" /\ back = <<>>
                            /\ Carries(q, "ENQ") => s = Master
    /\ Carries(q, "ENQ") => there = "eot" \/ Carries(q, "EOT")
    /\ Carries(q, "ACK") => /\ here = "ack" /\ back = <<>>
                            /\ there \in {"run", "idle", "enq", "eot"}
    /\ Carries(q, "NAK") => /\ here \in {"ack", "idle", "enq", "eot"}
                            /\ there \in {"idle", "enq", "eot"} \/ Carries(q, "EOT")
    /\ Blocks(q) => here \in Receiving /\ there = "ack" /\ back = <<>>
    /\ Carries(q, "block") \/ Carries(q, "spoilt") => here = "size"
    /\ here \in Receiving => there \notin Receiving

\* Neither an ACK nor a good block is among these symbols
Mute(q) == ~Carries(q, "ACK") /\ ~Carries(q, "block")

\* Both ends
Both(s, q, o, a, b) == Tidy(s, q, o, a, b) /\ Tidy(Peer(s), o, q, b, a)

LEMMA Removed ==
    ASSUME NEW q \in Seq(Symbols), q # <<>>, NEW r, After(q, r)
    PROVE  /\ r \in Seq(Symbols) /\ Shape(r)
           /\ Head(q).kind \in Kinds /\ Carries(q, Head(q).kind)
           /\ Blocks(q) <=> \E d \in Data : Carries(q, d)
           /\ Head(q).kind \in Data => Blocks(q)
           /\ ~Carries(r, "ACK") /\ ~Carries(r, "NAK")
           /\ Carries(r, "ENQ") => Carries(q, "ENQ") /\ Head(q).kind \notin {"ENQ", "EOT"}
           /\ Carries(r, "EOT") => Carries(q, "EOT") /\ Head(q).kind # "EOT"
           /\ \A k \in {"ENQ", "EOT"} :
                 Carries(q, k) /\ Head(q).kind # k => Carries(r, k)
           /\ Blocks(r) => Blocks(q)
           /\ ~Carries(r, "block") /\ ~Carries(r, "spoilt")
<1>1. /\ Head(q).kind \in Kinds /\ Carries(q, Head(q).kind)  BY FirstSymbol
<1>2. r \in Seq(Symbols) /\ Shape(r)  BY DEF After
<1>3. ~Carries(r, "ACK") /\ ~Carries(r, "NAK")  BY DEF After, Control
<1>4. Carries(r, "ENQ") => Carries(q, "ENQ") /\ Head(q).kind \notin {"ENQ", "EOT"}
  BY DEF After, Control
<1>5. Carries(r, "EOT") => Carries(q, "EOT") /\ Head(q).kind # "EOT"
  BY DEF After, Control
<1>6. ~Carries(r, "block") /\ ~Carries(r, "spoilt")  BY DEF After, Data
<1>7. Head(q).kind \in Data => Blocks(q)  BY <1>1 DEF Blocks
<1>8. Blocks(r) => Blocks(q)  BY <1>7 DEF After, Blocks
<1>9. \A k \in {"ENQ", "EOT"} : Carries(q, k) /\ Head(q).kind # k => Carries(r, k)
  BY DEF After, Control
<1> QED BY <1>1, <1>2, <1>3, <1>4, <1>5, <1>6, <1>7, <1>8, <1>9 DEF Blocks

\* A line with anything on it carries one of the seven kinds
LEMMA SomeSymbol ==
    ASSUME NEW q \in Seq(Symbols)
    PROVE  q = <<>> <=> /\ ~Carries(q, "ENQ") /\ ~Carries(q, "EOT")
                        /\ ~Carries(q, "ACK") /\ ~Carries(q, "NAK") /\ ~Blocks(q)
<1>1. q = <<>> <=> \A k \in Kinds : ~Carries(q, k)  BY EmptyLine
<1> QED BY <1>1 DEF Blocks, Kinds, Control

\* A read, whatever is read
LEMMA ReadKeeps ==
    ASSUME NEW s, NEW q \in Seq(Symbols), NEW o, NEW a, NEW b, NEW r, NEW c,
           Both(s, q, o, a, b), q # <<>>, After(q, r),
           \/ c = a
           \/ a \in Receiving /\ c \in Receiving
           \/ a = "ack" /\ c \in {"run", "enq"}
    PROVE  Both(s, r, o, c, b) /\ Mute(r) /\ Mute(o)
<1> SUFFICES Both(s, r, o, c, b)
  <2>1. Mute(r)  BY Removed DEF Mute
  <2>2. ~Carries(o, "ACK") /\ ~Blocks(o)  BY DEF Both, Tidy
  <2>3. Mute(o)  BY <2>2 DEF Mute, Blocks, Data
  <2> QED BY <2>1, <2>3
<1>2. CASE c = a
  <2>1. Tidy(s, r, o, c, b)  BY <1>2, Removed DEF Both, Tidy
  <2>2. Tidy(Peer(s), o, r, b, c)  BY <1>2, Removed DEF Both, Tidy
  <2> QED BY <2>1, <2>2 DEF Both
<1>3. CASE a \in Receiving /\ c \in Receiving
  <2>1. Tidy(s, r, o, c, b)  BY <1>3, Removed DEF Both, Tidy, Receiving
  <2>2. Tidy(Peer(s), o, r, b, c)  BY <1>3, Removed DEF Both, Tidy, Receiving
  <2> QED BY <2>1, <2>2 DEF Both
<1>4. CASE a = "ack" /\ c \in {"run", "enq"}
  <2>1. Tidy(s, r, o, c, b)  BY <1>4, Removed DEF Both, Tidy, Receiving
  <2>2. Tidy(Peer(s), o, r, b, c)  BY <1>4, Removed DEF Both, Tidy, Receiving
  <2> QED BY <2>1, <2>2 DEF Both
<1> QED BY <1>2, <1>3, <1>4

\* Putting a symbol behind what is on the line
LEMMA Added ==
    ASSUME NEW q \in Seq(Symbols), NEW x \in Symbols, Shape(q),
           x.kind \in {"ENQ", "EOT"} =>
               ~Carries(q, x.kind) /\ ~Carries(q, "EOT") /\ ~Blocks(q),
           x.kind \notin {"ENQ", "EOT"} => q = <<>>
    PROVE  /\ Append(q, x) \in Seq(Symbols) /\ Append(q, x) # <<>> /\ Shape(Append(q, x))
           /\ \A k \in Control : Carries(Append(q, x), k) <=> Carries(q, k) \/ k = x.kind
           /\ Blocks(Append(q, x)) <=> Blocks(q) \/ x.kind \in Data
           /\ \A k \in Data : x.kind \in Control /\ ~Blocks(q) => ~Carries(Append(q, x), k)
<1>1. /\ Append(q, x) \in Seq(Symbols) /\ Append(q, x) # <<>>
      /\ \A k : Carries(Append(q, x), k) <=> Carries(q, k) \/ k = x.kind
  BY AppendCarries
<1>2. ASSUME NEW k \in Kinds, Carries(q, k) PROVE k \in Control /\ Rank(k) < Rank(x.kind)
  <2>1. q # <<>>  BY <1>2, EmptyLine
  <2>2. x.kind \in {"ENQ", "EOT"}  BY <2>1
  <2>3. k \notin Data /\ k # "EOT" /\ k # x.kind  BY <1>2, <2>2 DEF Blocks
  <2>4. k \in {"ACK", "NAK", "ENQ"}  BY <1>2, <2>3 DEF Kinds, Control
  <2> QED BY <2>2, <2>3, <2>4, KindsAre
<1>3. x.kind \in Data => q = <<>>  BY DEF Data
<1>4. Shape(Append(q, x))  BY <1>2, <1>3, AppendCarries
<1>5. Blocks(Append(q, x)) <=> Blocks(q) \/ x.kind \in Data  BY <1>1 DEF Blocks
<1>6. \A k \in Data : x.kind \in Control /\ ~Blocks(q) => ~Carries(Append(q, x), k)
  BY <1>1 DEF Blocks, Control, Data
<1> QED BY <1>1, <1>4, <1>5, <1>6

\* ENQ goes out
LEMMA AskKeeps ==
    ASSUME NEW s, NEW q \in Seq(Symbols), NEW o \in Seq(Symbols), NEW b,
           Both(s, q, o, "enq", b)
    PROVE  /\ Both(s, q, Append(o, Char("ENQ")), "eot", b)
           /\ Mute(q) /\ ~Carries(Append(o, Char("ENQ")), "block")
           /\ Carries(Append(o, Char("ENQ")), "ACK") => Carries(o, "ACK")
<1> DEFINE n == Append(o, Char("ENQ"))
<1>1. Char("ENQ") \in Symbols /\ Char("ENQ").kind = "ENQ"
  BY SymbolType DEF Kinds, Control
<1>2. Shape(o) /\ ~Carries(o, "ENQ") /\ ~Carries(o, "EOT") /\ ~Blocks(o)
  BY DEF Both, Tidy
<1>3. /\ n # <<>> /\ Shape(n) /\ Carries(n, "ENQ") /\ ~Carries(n, "EOT") /\ ~Blocks(n)
      /\ Carries(n, "ACK") <=> Carries(o, "ACK")
      /\ Carries(n, "NAK") <=> Carries(o, "NAK")
      /\ ~Carries(n, "block") /\ ~Carries(n, "spoilt")
  BY <1>1, <1>2, Added DEF Control, Data
<1> HIDE DEF n
<1>4. Tidy(s, q, n, "eot", b)  BY DEF Both, Tidy, Receiving
<1>5. Tidy(Peer(s), n, q, b, "eot")  BY <1>3 DEF Both, Tidy, Receiving
<1>6. Mute(q)  BY DEF Both, Tidy, Mute
<1> QED BY <1>3, <1>4, <1>5, <1>6 DEF Both, n

\* ENQ is answered with EOT
LEMMA YieldKeeps ==
    ASSUME NEW s \in Station, NEW q \in Seq(Symbols), NEW o \in Seq(Symbols), NEW a, NEW b, NEW r,
           Both(s, q, o, a, b), q # <<>>, After(q, r), Head(q).kind \in {"ENQ"} \cup Data,
           a = "idle" \/ (a = "eot" /\ s # Master)
    PROVE  /\ b = "eot" /\ r = <<>> /\ Both(s, r, Append(o, Char("EOT")), "size", b)
           /\ Mute(r) /\ Mute(Append(o, Char("EOT")))
<1> DEFINE n == Append(o, Char("EOT"))
<1>1. Char("EOT") \in Symbols /\ Char("EOT").kind = "EOT"
  BY SymbolType DEF Kinds, Control
<1>2. Head(q).kind = "ENQ" /\ Carries(q, "ENQ")
  <2>1. ~Blocks(q)  BY DEF Both, Tidy, Receiving
  <2> QED BY <2>1, Removed
<1>3. ~Carries(q, "EOT")  BY <1>2 DEF Both, Tidy
<1>4. b = "eot"  BY <1>2, <1>3 DEF Both, Tidy
<1>5. r \in Seq(Symbols) /\ r = <<>>
  <2>1. ~Blocks(q)  BY DEF Both, Tidy, Receiving
  <2>2. /\ r \in Seq(Symbols) /\ ~Carries(r, "ACK") /\ ~Carries(r, "NAK")
        /\ ~Carries(r, "ENQ") /\ ~Carries(r, "EOT") /\ ~Blocks(r)
    BY <1>2, <1>3, <2>1, Removed
  <2> QED BY <2>2, SomeSymbol
<1>6. Shape(o) /\ ~Carries(o, "EOT") /\ ~Carries(o, "ACK") /\ ~Blocks(o)
  BY <1>2, EmptyLine DEF Both, Tidy
<1>7. Carries(o, "ENQ") => Peer(s) = Master
  <2>1. Carries(o, "ENQ") => a = "eot"  BY <1>6 DEF Both, Tidy
  <2> QED BY <2>1, PeerIs
<1>8. /\ n # <<>> /\ Shape(n) /\ Carries(n, "EOT") /\ ~Blocks(n) /\ ~Carries(n, "ACK")
      /\ Carries(n, "ENQ") => Carries(o, "ENQ")
      /\ ~Carries(n, "block") /\ ~Carries(n, "spoilt")
  BY <1>1, <1>6, Added DEF Control, Data
<1>9. Shape(r) /\ \A k : ~Carries(r, k)  BY <1>5, EmptyLine
<1>10. ~Blocks(r)  BY <1>9 DEF Blocks
<1> HIDE DEF n
<1>11. Tidy(s, r, n, "size", b)  BY <1>4, <1>9, <1>10 DEF Tidy, Receiving
<1>12. Tidy(Peer(s), n, r, b, "size")
  BY <1>4, <1>5, <1>7, <1>8 DEF Tidy, Receiving
<1> QED BY <1>4, <1>5, <1>8, <1>9, <1>11, <1>12 DEF Both, Mute, n

\* EOT is answered with the block
LEMMA GrantKeeps ==
    ASSUME NEW s \in Station, NEW q \in Seq(Symbols), NEW o \in Seq(Symbols), NEW b, NEW r,
           NEW x \in Symbols, x.kind = "block",
           Both(s, q, o, "eot", b), q # <<>>, After(q, r), Head(q).kind \in {"EOT"} \cup Data
    PROVE  /\ b = "size" /\ o = <<>> /\ r = <<>> /\ Both(s, r, Append(o, x), "ack", b)
           /\ Mute(r) /\ ~Carries(Append(o, x), "ACK") /\ Head(Append(o, x)) = x
<1> DEFINE n == Append(o, x)
<1>1. ~Blocks(q)  BY DEF Both, Tidy, Receiving
<1>2. Head(q).kind = "EOT" /\ Carries(q, "EOT")  BY <1>1, Removed
<1>3. b = "size" /\ o = <<>>  BY <1>2 DEF Both, Tidy
<1>4. r \in Seq(Symbols) /\ r = <<>>
  <2>1. /\ r \in Seq(Symbols) /\ ~Carries(r, "ACK") /\ ~Carries(r, "NAK")
        /\ ~Carries(r, "ENQ") /\ ~Carries(r, "EOT") /\ ~Blocks(r)
    BY <1>1, <1>2, Removed
  <2> QED BY <2>1, SomeSymbol
<1>5. Shape(r) /\ \A k : ~Carries(r, k)  BY <1>4, EmptyLine
<1>6. ~Blocks(r)  BY <1>5 DEF Blocks
<1>7. /\ n # <<>> /\ Shape(n)
      /\ \A k \in Control : ~Carries(n, k)
  <2>1. \A k : ~Carries(o, k)  BY <1>3, EmptyLine
  <2>2. Shape(o)  BY <1>3, EmptyLine
  <2>3. x.kind \notin Control  BY DEF Control
  <2> QED BY <1>3, <2>1, <2>2, <2>3, Added
<1>10. Head(n) = x  BY <1>3
<1> HIDE DEF n
<1>8. Tidy(s, r, n, "ack", b)  BY <1>5, <1>6 DEF Tidy, Receiving
<1>9. Tidy(Peer(s), n, r, b, "ack")
  BY <1>3, <1>4, <1>7 DEF Tidy, Receiving, Control
<1>11. ~Carries(n, "ACK")  BY <1>7 DEF Control
<1> QED BY <1>3, <1>4, <1>5, <1>8, <1>9, <1>10, <1>11 DEF Both, Mute, n

\* A block is answered with ACK
LEMMA AcceptKeeps ==
    ASSUME NEW s \in Station, NEW q \in Seq(Symbols), NEW o \in Seq(Symbols), NEW b,
           Both(s, q, o, "size", b), q # <<>>, Head(q).kind = "block"
    PROVE  /\ o = <<>> /\ Tail(q) = <<>> /\ Carries(q, "block") /\ b = "ack"
           /\ Both(s, Tail(q), Append(o, Char("ACK")), "run", b)
           /\ Mute(Tail(q)) /\ ~Carries(Append(o, Char("ACK")), "block")
<1> DEFINE n == Append(o, Char("ACK"))
           r == Tail(q)
<1>1. Char("ACK") \in Symbols /\ Char("ACK").kind = "ACK"
  BY SymbolType DEF Kinds, Control
<1>2. Carries(q, "block") /\ Blocks(q)  BY FirstSymbol DEF Blocks, Data
<1>3. b = "ack" /\ o = <<>>  BY <1>2 DEF Both, Tidy
<1>4. r = <<>>
  <2>1. Shape(q)  BY DEF Both, Tidy
  <2>2. Head(q).kind \in Data  BY DEF Data
  <2> QED BY <2>1, <2>2, TailCarries
<1>5. Shape(r) /\ \A k : ~Carries(r, k)  BY <1>4, EmptyLine
<1>6. ~Blocks(r)  BY <1>5 DEF Blocks
<1>7. /\ n # <<>> /\ Shape(n) /\ ~Blocks(n)
      /\ \A k \in Control : Carries(n, k) <=> k = "ACK"
      /\ ~Carries(n, "block") /\ ~Carries(n, "spoilt")
  <2>1. \A k : ~Carries(o, k)  BY <1>3, EmptyLine
  <2>2. Shape(o)  BY <1>3, EmptyLine
  <2>3. ~Blocks(o) /\ "ACK" \notin Data /\ "ACK" \in Control
    BY <2>1 DEF Blocks, Data, Control
  <2>4. /\ n # <<>> /\ Shape(n) /\ ~Blocks(n)
        /\ \A k \in Control : Carries(n, k) <=> Carries(o, k) \/ k = "ACK"
        /\ \A k \in Data : ~Carries(n, k)
    <3> DEFINE x == Char("ACK")
    <3>1. /\ x \in Symbols /\ x.kind = "ACK" /\ o \in Seq(Symbols) /\ Shape(o)
          /\ x.kind \notin {"ENQ", "EOT"} /\ o = <<>>
      BY <1>1, <1>3, <2>2
    <3> HIDE DEF x
    <3>2. /\ Append(o, x) # <<>> /\ Shape(Append(o, x))
          /\ \A k \in Control : Carries(Append(o, x), k) <=> Carries(o, k) \/ k = x.kind
          /\ Blocks(Append(o, x)) <=> Blocks(o) \/ x.kind \in Data
          /\ \A k \in Data : x.kind \in Control /\ ~Blocks(o) => ~Carries(Append(o, x), k)
      BY <3>1, Added
    <3> QED BY <2>3, <3>1, <3>2 DEF x
  <2> QED BY <2>1, <2>4 DEF Data
<1> HIDE DEF n, r
<1>8. Tidy(s, r, n, "run", b)  BY <1>5, <1>6 DEF Tidy, Receiving
<1>9. Tidy(Peer(s), n, r, b, "run")
  BY <1>3, <1>4, <1>7 DEF Tidy, Receiving, Control
<1> QED BY <1>2, <1>3, <1>4, <1>5, <1>7, <1>8, <1>9 DEF Both, Mute, n, r

\* A reception is given up on a quiet line, with or without NAK
LEMMA GiveUpKeeps ==
    ASSUME NEW s \in Station, NEW a, NEW b, NEW c, NEW n,
           Both(s, <<>>, <<>>, a, b), a \in Receiving,
           b \in {"idle", "eot", "ack", "size", "block", "drain"},
           c \in {"idle", "enq"}, n = <<>> \/ n = Append(<<>>, Char("NAK"))
    PROVE  Both(s, <<>>, n, c, b) /\ Mute(<<>>) /\ Mute(n)
<1>1. Char("NAK") \in Symbols /\ Char("NAK").kind = "NAK"
  BY SymbolType DEF Kinds, Control
<1>2. b \in {"idle", "eot", "ack"}  BY DEF Both, Tidy, Receiving
<1>3. Shape(<<>>) /\ \A k : ~Carries(<<>>, k)  BY EmptyLine
<1>4. ~Blocks(<<>>)  BY <1>3 DEF Blocks
<1>5. /\ Shape(n) /\ ~Blocks(n)
      /\ ~Carries(n, "block") /\ ~Carries(n, "spoilt")
      /\ ~Carries(n, "ACK") /\ ~Carries(n, "ENQ") /\ ~Carries(n, "EOT")
  <2>1. CASE n = <<>>  BY <1>3, <1>4, <2>1
  <2>2. CASE n = Append(<<>>, Char("NAK"))
    <3>1. <<>> \in Seq(Symbols) /\ "NAK" \notin Data /\ "NAK" \in Control
      BY DEF Data, Control
    <3> QED BY <1>1, <1>3, <1>4, <2>2, <3>1, Added DEF Control, Data
  <2> QED BY <2>1, <2>2
<1>6. Tidy(s, <<>>, n, c, b)  BY <1>3, <1>4 DEF Tidy, Receiving
<1>7. Tidy(Peer(s), n, <<>>, b, c)  BY <1>2, <1>5 DEF Tidy, Receiving
<1> QED BY <1>3, <1>5, <1>6, <1>7 DEF Both, Mute

\* A send is given up or begins anew on a quiet line
LEMMA QuietKeeps ==
    ASSUME NEW s \in Station, NEW a, NEW b, NEW c,
           Both(s, <<>>, <<>>, a, b), c \in {"run", "enq"}
    PROVE  Both(s, <<>>, <<>>, c, b) /\ Mute(<<>>)
<1>1. Shape(<<>>) /\ \A k : ~Carries(<<>>, k)  BY EmptyLine
<1>2. ~Blocks(<<>>)  BY <1>1 DEF Blocks
<1>3. Tidy(s, <<>>, <<>>, c, b)  BY <1>1, <1>2 DEF Tidy, Receiving
<1>4. Tidy(Peer(s), <<>>, <<>>, b, c)  BY <1>1, <1>2 DEF Tidy, Receiving
<1> QED BY <1>1, <1>3, <1>4 DEF Both, Mute

\* The program goes on
LEMMA RunKeeps ==
    ASSUME NEW s \in Station, NEW q, NEW o, NEW a, NEW b, NEW c,
           Both(s, q, o, a, b),
           (a \in {"idle", "run"} /\ c = "enq") \/ (a = "run" /\ c = "idle")
    PROVE  Both(s, q, o, c, b) /\ Mute(q) /\ ~Carries(o, "block")
<1>1. Mute(q) /\ ~Carries(o, "block")  BY DEF Both, Tidy, Mute, Blocks, Data
<1>2. Tidy(s, q, o, c, b)  BY DEF Both, Tidy, Receiving
<1>3. Tidy(Peer(s), o, q, b, c)  BY DEF Both, Tidy, Receiving
<1> QED BY <1>1, <1>2, <1>3 DEF Both

\* Noise in a block
LEMMA SpoilKeeps ==
    ASSUME NEW s \in Station, NEW q \in Seq(Symbols), NEW o, NEW a, NEW b,
           NEW how \in {"spoilt", "cut"},
           Both(s, q, o, a, b), q # <<>>, Head(q).kind = "block"
    PROVE  /\ [q EXCEPT ![1] = Char(how)] = <<Char(how)>>
           /\ Both(s, <<Char(how)>>, o, a, b) /\ Mute(<<Char(how)>>) /\ Mute(o)
<1> DEFINE n == <<Char(how)>>
<1>1. Char(how) \in Symbols /\ Char(how).kind = how
  BY SymbolType DEF Kinds, Data
<1>2. Carries(q, "block") /\ Blocks(q)  BY FirstSymbol DEF Blocks, Data
<1>3. a = "size" /\ b = "ack" /\ o = <<>>  BY <1>2 DEF Both, Tidy
<1>4. /\ Shape(n) /\ \A k : Carries(n, k) <=> k = how  BY <1>1, OneSymbol
<1>5. Len(q) = 1
  <2>1. Shape(q) /\ 1 \in 1..Len(q) /\ q[1].kind \in Data
    BY DEF Both, Tidy, Data
  <2> QED BY <2>1 DEF Shape
<1>6. [q EXCEPT ![1] = Char(how)] = n  BY <1>5
<1> HIDE DEF n
<1>7. Tidy(s, n, o, a, b)  BY <1>3, <1>4 DEF Tidy, Receiving
<1>9. Mute(n)  BY <1>4 DEF Mute
<1>10. Mute(o)  BY <1>3, EmptyLine DEF Mute
<1>8. Tidy(Peer(s), o, n, b, a)
  <2>1. Shape(<<>>) /\ \A k : ~Carries(<<>>, k)  BY EmptyLine
  <2>2. ~Blocks(<<>>)  BY <2>1 DEF Blocks
  <2> QED BY <1>3, <2>1, <2>2 DEF Tidy, Receiving
<1> QED BY <1>6, <1>7, <1>8, <1>9, <1>10 DEF Both, n

-----------------------------------------------------------------------------
(* Types. *)

\* A send is under way wherever the end is inside one
NonEmpty == \A s \in Station : pc[s] \in {"enq", "eot", "ack"} => sends[s] # <<>>

Typed == TypeOK /\ NonEmpty

\* The part of it that the control of an end is about
Placed ==
    /\ pc \in [Station -> Locations]
    /\ sends \in [Station -> Seq(Frame)]
    /\ \A s \in Station : Len(sends[s]) <= MaxNest
    /\ NonEmpty

Lines == line \in [Station -> Seq(Symbols)]

LEMMA TopFrame ==
    ASSUME Typed, NEW s \in Station, sends[s] # <<>>
    PROVE  /\ sends[s] \in Seq(Frame) /\ Len(sends[s]) \in 1..Len(sends[s])
           /\ Top(s) \in Frame /\ Top(s).msg \in Messages /\ Top(s).msg \in 0..MaxMsgs
           /\ Top(s).retry \in 0..(MaxRetry + 1)
<1>1. sends[s] \in Seq(Frame)  BY DEF Typed, TypeOK
<1>2. Len(sends[s]) \in 1..Len(sends[s])  BY <1>1
<1>3. Top(s) \in Frame  BY <1>1, <1>2 DEF Top
<1>4. Messages \subseteq 0..MaxMsgs  BY Numbers DEF Messages
<1> QED BY <1>1, <1>2, <1>3, <1>4 DEF Frame

LEMMA WriteType ==
    ASSUME Typed, NEW s \in Station, NEW x \in Symbols, Write(s, x)
    PROVE  Lines'
BY PeerIs DEF Typed, TypeOK, Write, Lines

LEMMA TakeType ==
    ASSUME Typed, NEW s \in Station, line[s] # <<>>, Take(s)
    PROVE  Lines'
BY RestsType DEF Typed, TypeOK, Take, Lines

LEMMA TakeAndWriteType ==
    ASSUME Typed, NEW s \in Station, NEW x \in Symbols, line[s] # <<>>, TakeAndWrite(s, x)
    PROVE  Lines'
<1>1. PICK r \in Rests(s) :
          line' = [line EXCEPT ![s] = r, ![Peer(s)] = Append(@, x)]
  BY DEF TakeAndWrite
<1>2. r \in Seq(Symbols)  BY RestsType DEF Typed
<1>3. Peer(s) \in Station /\ Peer(s) # s  BY PeerIs
<1>4. Append(line[Peer(s)], x) \in Seq(Symbols)  BY <1>3 DEF Typed, TypeOK
<1>5. \A t \in Station : line'[t] \in Seq(Symbols)
  BY <1>1, <1>2, <1>3, <1>4 DEF Typed, TypeOK
<1>6. line' = [t \in Station |-> line'[t]]  BY <1>1 DEF Typed, TypeOK
<1> QED BY <1>5, <1>6 DEF Lines

\* An end that changes its place and not its sends
LEMMA GotoPlaced ==
    ASSUME Typed, NEW s \in Station, NEW where \in Locations, Goto(s, where), UNCHANGED sends,
           where \in {"enq", "eot", "ack"} => sends[s] # <<>>
    PROVE  Placed'
BY DEF Typed, TypeOK, NonEmpty, Placed, Goto

LEMMA EndsPlaced ==
    ASSUME Typed, NEW s \in Station, NEW result \in {"ok", "failed"}, sends[s] # <<>>,
           Ends(s, result)
    PROVE  /\ Placed' /\ pc' = [pc EXCEPT ![s] = "run"]
           /\ outcome' \in [Station -> [Messages -> {"none", "ok", "failed"}]]
<1>1. sends[s] \in Seq(Frame) /\ Len(sends[s]) \in Nat /\ Len(sends[s]) >= 1
  BY TopFrame
<1>2. Popped(s) \in Seq(Frame) /\ Len(Popped(s)) = Len(sends[s]) - 1
  BY <1>1 DEF Popped
<1>3. sends' = [sends EXCEPT ![s] = Popped(s)] /\ pc' = [pc EXCEPT ![s] = "run"]
  BY DEF Ends, Goto
<1>4. sends' \in [Station -> Seq(Frame)]  BY <1>2, <1>3 DEF Typed, TypeOK
<1>5. \A t \in Station : Len(sends'[t]) <= MaxNest
  BY <1>1, <1>2, <1>3, Numbers DEF Typed, TypeOK
<1>6. pc' \in [Station -> Locations]  BY <1>3 DEF Typed, TypeOK, Locations
<1>7. NonEmpty'  BY <1>3 DEF Typed, TypeOK, NonEmpty
<1>8. outcome' \in [Station -> [Messages -> {"none", "ok", "failed"}]]
  BY DEF Typed, TypeOK, Ends
<1> QED BY <1>3, <1>4, <1>5, <1>6, <1>7, <1>8 DEF Placed

\* A send whose number of tries is set
LEMMA SetRetryPlaced ==
    ASSUME Typed, NEW s \in Station, sends[s] # <<>>, NEW n \in 0..(MaxRetry + 1),
           sends' = [sends EXCEPT ![s][Len(sends[s])].retry = n], Goto(s, "enq")
    PROVE  Placed' /\ pc' = [pc EXCEPT ![s] = "enq"]
<1> DEFINE f == [Top(s) EXCEPT !.retry = n]
           q == [sends[s] EXCEPT ![Len(sends[s])] = f]
<1>1. sends[s] \in Seq(Frame) /\ Len(sends[s]) \in 1..Len(sends[s]) /\ Top(s) \in Frame
  BY TopFrame
<1>2. f \in Frame  BY <1>1 DEF Frame
<1>3. sends' = [sends EXCEPT ![s] = q]  BY DEF Top
<1> HIDE DEF f
<1>4. q \in Seq(Frame) /\ Len(q) = Len(sends[s])  BY <1>1, <1>2
<1> HIDE DEF q
<1>5. q # <<>>  BY <1>1, <1>4
<1>6. sends' \in [Station -> Seq(Frame)]  BY <1>3, <1>4 DEF Typed, TypeOK
<1>7. \A t \in Station : Len(sends'[t]) <= MaxNest
  BY <1>3, <1>4 DEF Typed, TypeOK
<1>8. pc' \in [Station -> Locations] /\ pc' = [pc EXCEPT ![s] = "enq"]
  BY DEF Typed, TypeOK, Locations, Goto
<1>9. NonEmpty'  BY <1>3, <1>5, <1>8 DEF Typed, TypeOK, NonEmpty
<1> QED BY <1>6, <1>7, <1>8, <1>9 DEF Placed

LEMMA RetryPlaced ==
    ASSUME Typed, NEW s \in Station, sends[s] # <<>>, Retry(s)
    PROVE  /\ Placed' /\ \E c \in {"run", "enq"} : pc' = [pc EXCEPT ![s] = c]
           /\ outcome' \in [Station -> [Messages -> {"none", "ok", "failed"}]]
           /\ \A t \in Station, m \in Messages : outcome'[t][m] = "ok" => outcome[t][m] = "ok"
<1>1. CASE Ends(s, "failed")
  <2>1. /\ Placed' /\ pc' = [pc EXCEPT ![s] = "run"]
        /\ outcome' \in [Station -> [Messages -> {"none", "ok", "failed"}]]
    BY <1>1, EndsPlaced
  <2>2. \A t \in Station, m \in Messages : outcome'[t][m] = "ok" => outcome[t][m] = "ok"
    BY <1>1 DEF Typed, TypeOK, Ends
  <2> QED BY <2>1, <2>2
<1>2. CASE /\ Top(s).retry > 1 /\ Goto(s, "enq") /\ UNCHANGED outcome
           /\ sends' = [sends EXCEPT ![s][Len(sends[s])].retry = @ - 1]
  <2>1. sends' = [sends EXCEPT ![s][Len(sends[s])].retry = Top(s).retry - 1]
    BY <1>2 DEF Top
  <2>2. Top(s).retry - 1 \in 0..(MaxRetry + 1)  BY <1>2, TopFrame, Numbers
  <2>3. Placed' /\ pc' = [pc EXCEPT ![s] = "enq"]  BY <1>2, <2>1, <2>2, SetRetryPlaced
  <2> QED BY <1>2, <2>3 DEF Typed, TypeOK
<1> QED BY <1>1, <1>2 DEF Retry

LEMMA ResumePlaced ==
    ASSUME Typed, NEW s \in Station, Resume(s)
    PROVE  Placed' /\ \E c \in {"idle", "enq"} : pc' = [pc EXCEPT ![s] = c]
<1>1. CASE /\ sends[s] # <<>> /\ Goto(s, "enq")
           /\ sends' = [sends EXCEPT ![s][Len(sends[s])].retry = MaxRetry + 1]
  <2>1. MaxRetry + 1 \in 0..(MaxRetry + 1)  BY Numbers
  <2> QED BY <1>1, <2>1, SetRetryPlaced
<1>2. CASE sends[s] = <<>> /\ sends' = sends /\ Goto(s, "idle")
  <2>1. Placed'  BY <1>2, GotoPlaced DEF Locations
  <2> QED BY <1>2, <2>1 DEF Goto
<1> QED BY <1>1, <1>2 DEF Resume

Counted ==
    /\ started \in [Station -> 0..MaxMsgs]
    /\ outcome \in [Station -> [Messages -> {"none", "ok", "failed"}]]
    /\ received \in [Station -> [Messages -> Nat]]
    /\ faults \in 0..MaxFaults /\ early \in 0..MaxEarly

LEMMA TypedParts == Typed <=> Placed /\ Lines /\ Counted
BY DEF Typed, TypeOK, Placed, Lines, Counted

LEMMA ExpiresType ==
    ASSUME Typed, NEW s \in Station, Expires(s)
    PROVE  /\ faults' \in 0..MaxFaults /\ early' \in 0..MaxEarly
           /\ early' = 0 => early = 0 /\ Quiet(s)
BY Numbers DEF Typed, TypeOK, Expires, noise

LEMMA CharType ==
    /\ \A k \in Control : Char(k) \in Symbols
    /\ {"ENQ", "EOT", "ACK", "NAK"} \subseteq Control
BY SymbolType DEF Kinds, Control

\* A block of the innermost send
LEMMA BlockType ==
    ASSUME Typed, NEW s \in Station, sends[s] # <<>>
    PROVE  /\ Symbol("block", Top(s).msg) \in Symbols
           /\ Symbol("block", Top(s).msg).kind = "block"
           /\ Symbol("block", Top(s).msg).msg = Top(s).msg
BY TopFrame, SymbolType DEF Kinds, Data

\* The variables stay in their types, and every send in its frame.
LEMMA TypedStep ==
    ASSUME Typed, [Next]_vars
    PROVE  Typed'
<1>0. Placed /\ Lines /\ Counted  BY TypedParts
<1> SUFFICES Placed' /\ Lines' /\ Counted'
  BY DEF Typed, TypeOK, Placed, Lines, Counted
<1>1. ASSUME NEW s \in Station, Send(s) PROVE Placed' /\ Lines' /\ Counted'
  <2> DEFINE f == [msg |-> started[s] + 1, retry |-> MaxRetry + 1]
  <2>1. started[s] + 1 \in Messages
    <3>1. Peer(s) \in Station  BY PeerIs
    <3>2. started[s] \in Nat /\ started[Peer(s)] \in Nat /\ MaxMsgs \in Nat
      BY <3>1, Numbers DEF Typed, TypeOK
    <3>3. started[s] + started[Peer(s)] < MaxMsgs  BY <1>1 DEF Send
    <3> QED BY <3>2, <3>3 DEF Messages
  <2>2. f \in Frame  BY <2>1, Numbers DEF Frame
  <2> HIDE DEF f
  <2>3. /\ sends' = [sends EXCEPT ![s] = Append(sends[s], f)]
        /\ pc' = [pc EXCEPT ![s] = "enq"] /\ Len(sends[s]) < MaxNest
        /\ started' = [started EXCEPT ![s] = started[s] + 1]
        /\ UNCHANGED <<line, outcome, received, faults, early>>
    BY <1>1 DEF Send, Goto, noise, f
  <2>4. /\ sends[s] \in Seq(Frame) /\ Append(sends[s], f) \in Seq(Frame)
        /\ Append(sends[s], f) # <<>> /\ Len(Append(sends[s], f)) = Len(sends[s]) + 1
        /\ Len(sends[s]) \in Nat
    <3>1. sends[s] \in Seq(Frame)  BY DEF Typed, TypeOK
    <3> QED BY <2>2, <3>1
  <2>5. sends' \in [Station -> Seq(Frame)] /\ \A t \in Station : Len(sends'[t]) <= MaxNest
    BY <2>3, <2>4, Numbers DEF Typed, TypeOK
  <2>6. pc' \in [Station -> Locations]  BY <2>3 DEF Typed, TypeOK, Locations
  <2>7. NonEmpty'  BY <2>3, <2>4 DEF Typed, TypeOK, NonEmpty
  <2>8. started' \in [Station -> 0..MaxMsgs]
    BY <2>1, <2>3, Numbers DEF Typed, TypeOK, Messages
  <2> QED BY <1>0, <2>3, <2>5, <2>6, <2>7, <2>8 DEF Placed, Lines, Counted
<1>2. ASSUME NEW s \in Station, Ask(s) PROVE Placed' /\ Lines' /\ Counted'
  <2>1. Lines'  BY <1>2, WriteType, CharType DEF Ask
  <2>2. Placed'
    <3>1. sends[s] # <<>>  BY <1>2 DEF Ask, Typed, NonEmpty
    <3> QED BY <1>2, <3>1, GotoPlaced DEF Ask, Locations
  <2> QED BY <1>0, <1>2, <2>1, <2>2 DEF Ask, Counted, noise
<1>3. ASSUME NEW s \in Station, Granted(s) PROVE Placed' /\ Lines' /\ Counted'
  <2>1. sends[s] # <<>> /\ line[s] # <<>>
    BY <1>3 DEF Granted, Typed, NonEmpty, Hears, Reads
  <2>2. Lines'  BY <1>3, <2>1, TakeAndWriteType, BlockType DEF Granted
  <2>3. Placed'  BY <1>3, <2>1, GotoPlaced DEF Granted, Locations
  <2> QED BY <1>0, <1>3, <2>2, <2>3 DEF Granted, Counted, noise
<1>4. ASSUME NEW s \in Station, Contention(s) PROVE Placed' /\ Lines' /\ Counted'
  <2>1. line[s] # <<>>  BY <1>4 DEF Contention, Hears, Reads
  <2>2. Lines'  BY <1>4, <2>1, TakeAndWriteType, CharType DEF Contention
  <2>3. Placed'  BY <1>4, GotoPlaced DEF Contention, Locations
  <2> QED BY <1>0, <1>4, <2>2, <2>3 DEF Contention, Counted, noise
<1>5. ASSUME NEW s \in Station, NotEot(s) PROVE Placed' /\ Lines' /\ Counted'
  <2>1. line[s] # <<>>  BY <1>5 DEF NotEot, Reads
  <2>2. Lines'  BY <1>5, <2>1, TakeType DEF NotEot
  <2> QED BY <1>0, <1>5, <2>2 DEF NotEot, Counted, Placed, NonEmpty, noise
<1>6. ASSUME NEW s \in Station, Answered(s) PROVE Placed' /\ Lines' /\ Counted'
  <2>1. sends[s] # <<>> /\ line[s] # <<>>  BY <1>6 DEF Answered, Typed, NonEmpty
  <2>2. Lines'  BY <1>6, <2>1, TakeType DEF Answered
  <2>3. Placed' /\ outcome' \in [Station -> [Messages -> {"none", "ok", "failed"}]]
    BY <1>6, <2>1, EndsPlaced, RetryPlaced DEF Answered
  <2> QED BY <1>0, <1>6, <2>2, <2>3 DEF Answered, Counted, noise
<1>7. ASSUME NEW s \in Station, SendTimeout(s) PROVE Placed' /\ Lines' /\ Counted'
  <2>1. sends[s] # <<>>  BY <1>7 DEF SendTimeout, Typed, NonEmpty
  <2>2. Placed' /\ outcome' \in [Station -> [Messages -> {"none", "ok", "failed"}]]
    BY <1>7, <2>1, EndsPlaced, RetryPlaced DEF SendTimeout
  <2>3. faults' \in 0..MaxFaults /\ early' \in 0..MaxEarly
    BY <1>7, ExpiresType DEF SendTimeout
  <2> QED BY <1>0, <1>7, <2>2, <2>3 DEF SendTimeout, Counted, Lines
<1>8. ASSUME NEW s \in Station, Listen(s) PROVE Placed' /\ Lines' /\ Counted'
  <2>1. CASE TakeAndWrite(s, Char("EOT")) /\ Goto(s, "size")
    <3>1. Lines'  BY <1>8, <2>1, TakeAndWriteType, CharType DEF Listen
    <3>2. Placed'  BY <1>8, <2>1, GotoPlaced DEF Listen, Locations
    <3> QED BY <1>0, <1>8, <3>1, <3>2 DEF Listen, Counted, noise
  <2>2. CASE Take(s) /\ UNCHANGED pc
    <3>1. Lines'  BY <1>8, <2>2, TakeType DEF Listen
    <3> QED BY <1>0, <1>8, <2>2, <3>1 DEF Listen, Counted, Placed, NonEmpty, noise
  <2> QED BY <1>8, <2>1, <2>2 DEF Listen
<1>9. ASSUME NEW s \in Station, SkipEnq(s) PROVE Placed' /\ Lines' /\ Counted'
  <2>1. line[s] # <<>>  BY <1>9 DEF SkipEnq, Reads
  <2>2. Lines'  BY <1>9, <2>1, TakeType DEF SkipEnq
  <2> QED BY <1>0, <1>9, <2>2 DEF SkipEnq, Counted, Placed, NonEmpty, noise
<1>10. ASSUME NEW s \in Station, Accept(s) PROVE Placed' /\ Lines' /\ Counted'
  <2>1. line[s] # <<>>  BY <1>10 DEF Accept, Reads
  <2>2. Peer(s) \in Station /\ Peer(s) # s  BY PeerIs
  <2>3. Tail(line[s]) \in Seq(Symbols) /\ Append(line[Peer(s)], Char("ACK")) \in Seq(Symbols)
    BY <2>1, <2>2, CharType DEF Typed, TypeOK
  <2>4. line' = [line EXCEPT ![s] = Tail(line[s]), ![Peer(s)] = Append(line[Peer(s)], Char("ACK"))]
    BY <1>10, <2>2 DEF Accept
  <2>5. Lines'  BY <2>2, <2>3, <2>4 DEF Typed, TypeOK, Lines
  <2>6. Placed'  BY <1>10, GotoPlaced DEF Accept, Locations
  <2>7. received' \in [Station -> [Messages -> Nat]]
    <3> DEFINE m == Head(line[s]).msg
               g == [received[s] EXCEPT ![m] = received[s][m] + 1]
    <3>1. received' = [received EXCEPT ![s] = g]  BY <1>10 DEF Accept
    <3>2. received[s] \in [Messages -> Nat]  BY DEF Typed, TypeOK
    <3> HIDE DEF m
    <3>3. \A k \in Messages : g[k] \in Nat  BY <3>2
    <3>4. g \in [Messages -> Nat]  BY <3>2, <3>3
    <3> HIDE DEF g
    <3> QED BY <3>1, <3>4 DEF Typed, TypeOK
  <2> QED BY <1>0, <1>10, <2>5, <2>6, <2>7 DEF Accept, Counted, noise
<1>11. ASSUME NEW s \in Station, Reject(s) PROVE Placed' /\ Lines' /\ Counted'
  <2>1. line[s] # <<>>  BY <1>11 DEF Reject, Reads
  <2>2. Lines'  BY <1>11, <2>1, TakeType DEF Reject
  <2>3. Placed'  BY <1>11, GotoPlaced DEF Reject, Locations
  <2> QED BY <1>0, <1>11, <2>2, <2>3 DEF Reject, Counted, noise
<1>12. ASSUME NEW s \in Station, Begin(s) PROVE Placed' /\ Lines' /\ Counted'
  <2>1. line[s] # <<>>  BY <1>12 DEF Begin, Reads
  <2>2. Lines'  BY <1>12, <2>1, TakeType DEF Begin
  <2>3. Placed'  BY <1>12, GotoPlaced DEF Begin, Locations
  <2> QED BY <1>0, <1>12, <2>2, <2>3 DEF Begin, Counted, noise
<1>13. ASSUME NEW s \in Station, Swallow(s) PROVE Placed' /\ Lines' /\ Counted'
  <2>1. Lines'  BY <1>13, TakeType DEF Swallow
  <2>2. Placed'  BY <1>13, GotoPlaced DEF Swallow, Locations
  <2> QED BY <1>0, <1>13, <2>1, <2>2 DEF Swallow, Counted, noise
<1>14. ASSUME NEW s \in Station, Drain(s) PROVE Placed' /\ Lines' /\ Counted'
  <2>1. Lines'  BY <1>14, TakeType DEF Drain
  <2> QED BY <1>0, <1>14, <2>1 DEF Drain, Counted, Placed, NonEmpty, noise
<1>15. ASSUME NEW s \in Station, Drained(s) PROVE Placed' /\ Lines' /\ Counted'
  <2>1. Lines'  BY <1>15, WriteType, CharType DEF Drained
  <2>2. Placed'  BY <1>15, ResumePlaced DEF Drained
  <2>3. faults' \in 0..MaxFaults /\ early' \in 0..MaxEarly
    BY <1>15, ExpiresType DEF Drained
  <2> QED BY <1>0, <1>15, <2>1, <2>2, <2>3 DEF Drained, Counted
<1>16. ASSUME NEW s \in Station, Expires(s), GiveUp(s) PROVE Placed' /\ Lines' /\ Counted'
  <2>1. Lines'  BY <1>0, <1>16, WriteType, CharType DEF GiveUp, Lines
  <2>2. Placed'  BY <1>16, ResumePlaced DEF GiveUp
  <2>3. faults' \in 0..MaxFaults /\ early' \in 0..MaxEarly  BY <1>16, ExpiresType
  <2> QED BY <1>0, <1>16, <2>1, <2>2, <2>3 DEF GiveUp, Counted
<1>17. ASSUME NEW s \in Station, EndRun(s) PROVE Placed' /\ Lines' /\ Counted'
  <2>1. Placed'  BY <1>17, ResumePlaced DEF EndRun
  <2> QED BY <1>0, <1>17, <2>1 DEF EndRun, Lines, Counted, noise
<1>18. ASSUME NEW s \in Station, Lose(s) PROVE Placed' /\ Lines' /\ Counted'
  <2>1. Lines'  BY <1>18, TakeType DEF Lose
  <2>2. faults' \in 0..MaxFaults  BY <1>18, Numbers DEF Lose, Typed, TypeOK
  <2> QED BY <1>0, <1>18, <2>1, <2>2 DEF Lose, Counted, Placed, NonEmpty
<1>19. ASSUME NEW s \in Station, NEW how \in {"spoilt", "cut"}, Spoil(s, how)
       PROVE  Placed' /\ Lines' /\ Counted'
  <2>1. Char(how) \in Symbols  BY SymbolType DEF Kinds, Data
  <2>2. [line[s] EXCEPT ![1] = Char(how)] \in Seq(Symbols)
    <3> DEFINE q == line[s]
    <3>1. q \in Seq(Symbols) /\ q # <<>>  BY <1>19 DEF Typed, TypeOK, Spoil, Reads
    <3> HIDE DEF q
    <3>2. 1 \in 1..Len(q)  BY <3>1
    <3>3. [q EXCEPT ![1] = Char(how)] \in Seq(Symbols)  BY <2>1, <3>1, <3>2
    <3> QED BY <3>3 DEF q
  <2>3. Lines'  BY <1>19, <2>2 DEF Spoil, Lines, Typed, TypeOK
  <2>4. faults' \in 0..MaxFaults  BY <1>19, Numbers DEF Spoil, Typed, TypeOK
  <2> QED BY <1>0, <1>19, <2>3, <2>4 DEF Spoil, Counted, Placed, NonEmpty
<1>20. CASE UNCHANGED vars
  BY <1>0, <1>20 DEF vars, noise, Placed, NonEmpty, Lines, Counted
<1> QED
  BY <1>1, <1>2, <1>3, <1>4, <1>5, <1>6, <1>7, <1>8, <1>9, <1>10, <1>11, <1>12, <1>13, <1>14,
     <1>15, <1>16, <1>17, <1>18, <1>19, <1>20
  DEF Next, Sender, Receiver, Noise, Finished, SizeTimeout, BlockTimeout

-----------------------------------------------------------------------------
(* The invariant. *)

TidyAll(l, at) == \A t \in Station : Tidy(t, l[t], l[Peer(t)], at[t], at[Peer(t)])

\* An ACK is for the innermost send of the end it goes to, and a block is the
\* one the other end is waiting for the answer to
Match(s) ==
    /\ Carries(line[s], "ACK") => received[Peer(s)][Top(s).msg] > 0
    /\ Carries(line[s], "block") => Head(line[s]).msg = Top(Peer(s)).msg

Orderly == early = 0 => TidyAll(line, pc) /\ \A s \in Station : Match(s)

LEMMA TwoEnds ==
    ASSUME NEW l, NEW at, NEW s \in Station
    PROVE  TidyAll(l, at) <=> Both(s, l[s], l[Peer(s)], at[s], at[Peer(s)])
BY PeerIs DEF TidyAll, Both

\* What is to be shown of a step of s
Kept(s) ==
    /\ Both(s, line[s], line[Peer(s)], pc[s], pc[Peer(s)])
    /\ Match(s) /\ Match(Peer(s))

LEMMA KeptIsOrderly ==
    ASSUME NEW s \in Station, Kept(s)'
    PROVE  (TidyAll(line, pc) /\ \A t \in Station : Match(t))'
<1>1. Both(s, line'[s], line'[Peer(s)], pc'[s], pc'[Peer(s)])  BY DEF Kept
<1>2. TidyAll(line', pc')  BY <1>1, TwoEnds
<1>3. \A t \in Station : Match(t)'
  <2>1. Match(s)' /\ Match(Peer(s))'  BY DEF Kept
  <2>2. ASSUME NEW t \in Station PROVE Match(t)'
    <3>1. t = s \/ t = Peer(s)  BY PeerIs
    <3> QED BY <2>1, <3>1
  <2> QED BY <2>2
<1> QED BY <1>2, <1>3

LEMMA MuteMatches ==
    ASSUME NEW s \in Station, Mute(line[s])'
    PROVE  Match(s)'
BY DEF Mute, Match

\* A step of s that only takes a character
LEMMA TakeKept ==
    ASSUME Typed, NEW s \in Station, Kept(s), line[s] # <<>>, Take(s),
           NEW c, pc' = [pc EXCEPT ![s] = c],
           \/ c = pc[s]
           \/ pc[s] \in Receiving /\ c \in Receiving
           \/ pc[s] = "ack" /\ c \in {"run", "enq"}
    PROVE  Kept(s)'
<1>1. PICK r \in Rests(s) : line' = [line EXCEPT ![s] = r]  BY DEF Take
<1>2. Peer(s) \in Station /\ Peer(s) # s  BY PeerIs
<1>3. line[s] \in Seq(Symbols) /\ Shape(line[s])  BY DEF Typed, TypeOK, Kept, Both, Tidy
<1>4. After(line[s], r)  BY <1>3, RestsAfter DEF Typed
<1>5. Both(s, r, line[Peer(s)], c, pc[Peer(s)]) /\ Mute(r) /\ Mute(line[Peer(s)])
  BY <1>3, <1>4, ReadKeeps DEF Kept
<1>6. line'[s] = r /\ line'[Peer(s)] = line[Peer(s)] /\ pc'[s] = c /\ pc'[Peer(s)] = pc[Peer(s)]
  BY <1>1, <1>2 DEF Typed, TypeOK
<1>7. Match(s)'  BY <1>5, <1>6, MuteMatches
<1>8. Match(Peer(s))'  BY <1>2, <1>5, <1>6, MuteMatches
<1> QED BY <1>5, <1>6, <1>7, <1>8 DEF Kept

\* A step of s that answers ENQ with EOT
LEMMA YieldKept ==
    ASSUME Typed, NEW s \in Station, Kept(s), Hears(s, "ENQ"), TakeAndWrite(s, Char("EOT")),
           Goto(s, "size"), pc[s] = "idle" \/ (pc[s] = "eot" /\ s # Master)
    PROVE  Kept(s)'
<1>1. PICK r \in Rests(s) :
          line' = [line EXCEPT ![s] = r, ![Peer(s)] = Append(@, Char("EOT"))]
  BY DEF TakeAndWrite
<1>2. Peer(s) \in Station /\ Peer(s) # s  BY PeerIs
<1>3. /\ line[s] \in Seq(Symbols) /\ line[Peer(s)] \in Seq(Symbols) /\ Shape(line[s])
      /\ line[s] # <<>> /\ Head(line[s]).kind \in {"ENQ"} \cup Data
  BY <1>2 DEF Typed, TypeOK, Kept, Both, Tidy, Hears, Reads
<1>4. After(line[s], r)  BY <1>3, RestsAfter DEF Typed
<1>5. /\ Both(s, r, Append(line[Peer(s)], Char("EOT")), "size", pc[Peer(s)])
      /\ Mute(r) /\ Mute(Append(line[Peer(s)], Char("EOT")))
  BY <1>3, <1>4, YieldKeeps DEF Kept
<1>6. /\ line'[s] = r /\ line'[Peer(s)] = Append(line[Peer(s)], Char("EOT"))
      /\ pc'[s] = "size" /\ pc'[Peer(s)] = pc[Peer(s)]
  BY <1>1, <1>2 DEF Typed, TypeOK, Goto
<1>7. Match(s)'  BY <1>5, <1>6, MuteMatches
<1>8. Match(Peer(s))'  BY <1>2, <1>5, <1>6, MuteMatches
<1> QED BY <1>5, <1>6, <1>7, <1>8 DEF Kept

\* A step of s that answers EOT with its block
LEMMA GrantedKept ==
    ASSUME Typed, NEW s \in Station, Kept(s), Granted(s)
    PROVE  Kept(s)'
<1> DEFINE x == Symbol("block", Top(s).msg)
<1>1. PICK r \in Rests(s) : line' = [line EXCEPT ![s] = r, ![Peer(s)] = Append(@, x)]
  BY DEF TakeAndWrite, Granted
<1>2. Peer(s) \in Station /\ Peer(s) # s /\ Peer(Peer(s)) = s  BY PeerIs
<1>3. /\ line[s] \in Seq(Symbols) /\ line[Peer(s)] \in Seq(Symbols) /\ Shape(line[s])
      /\ line[s] # <<>> /\ Head(line[s]).kind \in {"EOT"} \cup Data /\ sends[s] # <<>>
  BY <1>2 DEF Typed, TypeOK, NonEmpty, Kept, Both, Tidy, Hears, Reads, Granted
<1>4. After(line[s], r)  BY <1>3, RestsAfter DEF Typed
<1>5. x \in Symbols /\ x.kind = "block" /\ x.msg = Top(s).msg  BY <1>3, BlockType
<1> HIDE DEF x
<1>6. /\ Both(s, r, Append(line[Peer(s)], x), "ack", pc[Peer(s)])
      /\ Mute(r) /\ ~Carries(Append(line[Peer(s)], x), "ACK")
      /\ Head(Append(line[Peer(s)], x)) = x
  <2>1. Both(s, line[s], line[Peer(s)], "eot", pc[Peer(s)])  BY DEF Kept, Granted
  <2> QED BY <1>3, <1>4, <1>5, <2>1, GrantKeeps
<1>7. /\ line'[s] = r /\ line'[Peer(s)] = Append(line[Peer(s)], x)
      /\ pc'[s] = "ack" /\ pc'[Peer(s)] = pc[Peer(s)] /\ sends' = sends
  BY <1>1, <1>2 DEF Typed, TypeOK, Goto, Granted
<1>8. Match(s)'  BY <1>6, <1>7, MuteMatches
<1>9. Match(Peer(s))'  BY <1>2, <1>5, <1>6, <1>7 DEF Match, Top
<1> QED BY <1>6, <1>7, <1>8, <1>9 DEF Kept

\* A step of s that asks for the line
LEMMA AskKept ==
    ASSUME Typed, NEW s \in Station, Kept(s), Ask(s)
    PROVE  Kept(s)'
<1> DEFINE n == Append(line[Peer(s)], Char("ENQ"))
<1>1. Peer(s) \in Station /\ Peer(s) # s /\ Peer(Peer(s)) = s  BY PeerIs
<1>2. line[s] \in Seq(Symbols) /\ line[Peer(s)] \in Seq(Symbols)
  BY <1>1 DEF Typed, TypeOK
<1>3. /\ Both(s, line[s], n, "eot", pc[Peer(s)]) /\ Mute(line[s])
      /\ ~Carries(n, "block")
      /\ Carries(n, "ACK") => Carries(line[Peer(s)], "ACK")
  BY <1>2, AskKeeps DEF Kept, Ask
<1>4. /\ line'[s] = line[s] /\ line'[Peer(s)] = n
      /\ pc'[s] = "eot" /\ pc'[Peer(s)] = pc[Peer(s)] /\ sends' = sends /\ received' = received
  BY <1>1 DEF Typed, TypeOK, Goto, Ask, Write
<1> HIDE DEF n
<1>5. Match(s)'  BY <1>3, <1>4, MuteMatches
<1>6. Match(Peer(s))'  BY <1>3, <1>4 DEF Match, Top, Kept
<1> QED BY <1>3, <1>4, <1>5, <1>6 DEF Kept

\* A step of s that accepts a block
LEMMA AcceptKept ==
    ASSUME Typed, NEW s \in Station, Kept(s), Accept(s)
    PROVE  Kept(s)'
<1> DEFINE n == Append(line[Peer(s)], Char("ACK"))
           m == Head(line[s]).msg
<1>1. Peer(s) \in Station /\ Peer(s) # s /\ Peer(Peer(s)) = s  BY PeerIs
<1>2. /\ line[s] \in Seq(Symbols) /\ line[Peer(s)] \in Seq(Symbols)
      /\ line[s] # <<>> /\ Head(line[s]).kind = "block" /\ pc[s] = "size"
  BY <1>1 DEF Typed, TypeOK, Accept, Reads
<1>3. /\ Both(s, Tail(line[s]), n, "run", pc[Peer(s)]) /\ Mute(Tail(line[s]))
      /\ ~Carries(n, "block") /\ Carries(line[s], "block") /\ pc[Peer(s)] = "ack"
  BY <1>2, AcceptKeeps DEF Kept
<1>4. /\ line'[s] = Tail(line[s]) /\ line'[Peer(s)] = n
      /\ pc'[s] = "run" /\ pc'[Peer(s)] = pc[Peer(s)] /\ sends' = sends
  BY <1>1 DEF Typed, TypeOK, Goto, Accept
<1> HIDE DEF n
<1>5. m = Top(Peer(s)).msg /\ m \in Messages
  <2>1. sends[Peer(s)] # <<>>  BY <1>1, <1>3 DEF Typed, NonEmpty
  <2> QED BY <1>1, <1>3, <2>1, TopFrame DEF Kept, Match
<1>6. received'[s][m] > 0
  <2>1. received[s] \in [Messages -> Nat] /\ received'[s] = [received[s] EXCEPT ![m] = received[s][m] + 1]
    BY DEF Typed, TypeOK, Accept
  <2> HIDE DEF m
  <2> QED BY <1>5, <2>1
<1> HIDE DEF m
<1>7. Match(s)'  BY <1>3, <1>4, MuteMatches
<1>8. Match(Peer(s))'  BY <1>1, <1>3, <1>4, <1>5, <1>6 DEF Match, Top
<1> QED BY <1>3, <1>4, <1>7, <1>8 DEF Kept

\* What a quiet line is
LEMMA QuietIs ==
    ASSUME Typed, NEW s \in Station, Kept(s), Quiet(s)
    PROVE  /\ line[s] = <<>> /\ line[Peer(s)] = <<>>
           /\ Both(s, <<>>, <<>>, pc[s], pc[Peer(s)])
           /\ pc[Peer(s)] \in {"idle", "eot", "ack", "size", "block", "drain"}
<1>1. Peer(s) \in Station  BY PeerIs
<1>2. line[s] = <<>> /\ line[Peer(s)] = <<>>  BY <1>1 DEF Quiet
<1>3. pc[Peer(s)] \in {"idle", "eot", "ack", "size", "block", "drain"}
  BY <1>1 DEF Quiet, Waits
<1> QED BY <1>2, <1>3 DEF Kept

\* A step of s that gives up a reception
LEMMA GiveUpKept ==
    ASSUME Typed, NEW s \in Station, Kept(s), Quiet(s), pc[s] \in Receiving, Resume(s),
           Write(s, Char("NAK")) \/ UNCHANGED line
    PROVE  Kept(s)'
<1>1. Peer(s) \in Station /\ Peer(s) # s  BY PeerIs
<1>2. /\ line[s] = <<>> /\ line[Peer(s)] = <<>>
      /\ Both(s, <<>>, <<>>, pc[s], pc[Peer(s)])
      /\ pc[Peer(s)] \in {"idle", "eot", "ack", "size", "block", "drain"}
  BY QuietIs
<1>3. PICK c \in {"idle", "enq"} : pc' = [pc EXCEPT ![s] = c]  BY ResumePlaced
<1>4. pc'[s] = c /\ pc'[Peer(s)] = pc[Peer(s)]  BY <1>1, <1>3 DEF Typed, TypeOK
<1>5. line'[s] = <<>>  BY <1>1, <1>2 DEF Typed, TypeOK, Write
<1>6. line'[Peer(s)] = <<>> \/ line'[Peer(s)] = Append(<<>>, Char("NAK"))
  BY <1>1, <1>2 DEF Typed, TypeOK, Write
<1>7. Both(s, <<>>, line'[Peer(s)], c, pc[Peer(s)]) /\ Mute(<<>>) /\ Mute(line'[Peer(s)])
  BY <1>2, <1>6, GiveUpKeeps
<1>8. Match(s)'  BY <1>5, <1>7, MuteMatches
<1>9. Match(Peer(s))'  BY <1>1, <1>7, MuteMatches
<1> QED BY <1>4, <1>5, <1>7, <1>8, <1>9 DEF Kept

\* A step of s that gives up a try to send
LEMMA SendTimeoutKept ==
    ASSUME Typed, NEW s \in Station, Kept(s), Quiet(s), UNCHANGED line,
           NEW c \in {"run", "enq"}, pc' = [pc EXCEPT ![s] = c]
    PROVE  Kept(s)'
<1>1. Peer(s) \in Station /\ Peer(s) # s  BY PeerIs
<1>2. line[s] = <<>> /\ line[Peer(s)] = <<>> /\ Both(s, <<>>, <<>>, pc[s], pc[Peer(s)])
  BY QuietIs
<1>3. pc'[s] = c /\ pc'[Peer(s)] = pc[Peer(s)]  BY <1>1 DEF Typed, TypeOK
<1>4. Both(s, <<>>, <<>>, c, pc[Peer(s)]) /\ Mute(<<>>)  BY <1>2, QuietKeeps
<1>5. Match(s)'  BY <1>2, <1>4, MuteMatches
<1>6. Match(Peer(s))'  BY <1>1, <1>2, <1>4, MuteMatches
<1> QED BY <1>2, <1>3, <1>4, <1>5, <1>6 DEF Kept

\* A step of the program at s
LEMMA RunKept ==
    ASSUME Typed, NEW s \in Station, Kept(s), UNCHANGED <<line, received>>,
           sends'[Peer(s)] = sends[Peer(s)], NEW c, pc' = [pc EXCEPT ![s] = c],
           (pc[s] \in {"idle", "run"} /\ c = "enq") \/ (pc[s] = "run" /\ c = "idle")
    PROVE  Kept(s)'
<1>1. Peer(s) \in Station /\ Peer(s) # s /\ Peer(Peer(s)) = s  BY PeerIs
<1>2. pc'[s] = c /\ pc'[Peer(s)] = pc[Peer(s)]  BY <1>1 DEF Typed, TypeOK
<1>3. /\ Both(s, line[s], line[Peer(s)], c, pc[Peer(s)])
      /\ Mute(line[s]) /\ ~Carries(line[Peer(s)], "block")
  BY RunKeeps DEF Kept
<1>4. Match(s)'  BY <1>3, MuteMatches
<1>5. Match(Peer(s))'  BY <1>3 DEF Match, Top, Kept
<1> QED BY <1>2, <1>3, <1>4, <1>5 DEF Kept

\* Noise on the line to s
LEMMA SpoilKept ==
    ASSUME Typed, NEW s \in Station, Kept(s), NEW how \in {"spoilt", "cut"}, Spoil(s, how)
    PROVE  Kept(s)'
<1>1. Peer(s) \in Station /\ Peer(s) # s  BY PeerIs
<1>2. line[s] \in Seq(Symbols) /\ line[s] # <<>> /\ Head(line[s]).kind = "block"
  BY DEF Typed, TypeOK, Spoil, Reads
<1>3. /\ [line[s] EXCEPT ![1] = Char(how)] = <<Char(how)>>
      /\ Both(s, <<Char(how)>>, line[Peer(s)], pc[s], pc[Peer(s)])
      /\ Mute(<<Char(how)>>) /\ Mute(line[Peer(s)])
  BY <1>2, SpoilKeeps DEF Kept
<1>4. line'[s] = <<Char(how)>> /\ line'[Peer(s)] = line[Peer(s)] /\ pc' = pc
  BY <1>1, <1>3 DEF Typed, TypeOK, Spoil
<1>5. Match(s)'  BY <1>3, <1>4, MuteMatches
<1>6. Match(Peer(s))'  BY <1>1, <1>3, <1>4, MuteMatches
<1> QED BY <1>3, <1>4, <1>5, <1>6 DEF Kept

\* A step of s that takes the answer to its block
LEMMA AnsweredKept ==
    ASSUME Typed, NEW s \in Station, Kept(s), Answered(s)
    PROVE  Kept(s)'
<1>1. sends[s] # <<>> /\ line[s] # <<>> /\ pc[s] = "ack" /\ Take(s)
  BY DEF Answered, Typed, NonEmpty
<1>2. \E c \in {"run", "enq"} : pc' = [pc EXCEPT ![s] = c]
  BY <1>1, EndsPlaced, RetryPlaced DEF Answered
<1> QED BY <1>1, <1>2, TakeKept

\* Every step of the system, before any timer has run out early.
LEMMA OrderlyStep ==
    ASSUME Typed, Orderly, [Next]_vars
    PROVE  Orderly'
<1> SUFFICES ASSUME early' = 0
             PROVE  (TidyAll(line, pc) /\ \A s \in Station : Match(s))'
  BY DEF Orderly
<1>0. early = 0 => \A s \in Station : Kept(s)
  BY TwoEnds, PeerIs DEF Orderly, Kept
<1>1. ASSUME NEW s \in Station, Send(s) PROVE Kept(s)'
  <2>1. Kept(s)  BY <1>0, <1>1 DEF Send, noise
  <2>2. sends'[Peer(s)] = sends[Peer(s)]  BY <1>1, PeerIs DEF Send, Typed, TypeOK
  <2> QED BY <1>1, <2>1, <2>2, RunKept DEF Send, Goto
<1>2. ASSUME NEW s \in Station, Ask(s) PROVE Kept(s)'
  BY <1>0, <1>2, AskKept DEF Ask, noise
<1>3. ASSUME NEW s \in Station, Granted(s) PROVE Kept(s)'
  BY <1>0, <1>3, GrantedKept DEF Granted, noise
<1>4. ASSUME NEW s \in Station, Contention(s) PROVE Kept(s)'
  BY <1>0, <1>4, YieldKept DEF Contention, noise
<1>5. ASSUME NEW s \in Station, NotEot(s) PROVE Kept(s)'
  <2>1. Kept(s) /\ line[s] # <<>> /\ Take(s)  BY <1>0, <1>5 DEF NotEot, Reads, noise
  <2>2. pc' = [pc EXCEPT ![s] = pc[s]]  BY <1>5 DEF NotEot, Typed, TypeOK
  <2> QED BY <2>1, <2>2, TakeKept
<1>6. ASSUME NEW s \in Station, Answered(s) PROVE Kept(s)'
  BY <1>0, <1>6, AnsweredKept DEF Answered, noise
<1>7. ASSUME NEW s \in Station, SendTimeout(s) PROVE Kept(s)'
  <2>1. sends[s] # <<>>  BY <1>7 DEF SendTimeout, Typed, NonEmpty
  <2>2. \E c \in {"run", "enq"} : pc' = [pc EXCEPT ![s] = c]
    BY <1>7, <2>1, EndsPlaced, RetryPlaced DEF SendTimeout
  <2>3. Quiet(s) /\ Kept(s) /\ UNCHANGED line  BY <1>0, <1>7, ExpiresType DEF SendTimeout
  <2> QED BY <2>2, <2>3, SendTimeoutKept
<1>8. ASSUME NEW s \in Station, Listen(s) PROVE Kept(s)'
  <2>1. Kept(s) /\ line[s] # <<>> /\ pc[s] = "idle"  BY <1>0, <1>8 DEF Listen, noise
  <2>2. CASE Hears(s, "ENQ") /\ TakeAndWrite(s, Char("EOT")) /\ Goto(s, "size")
    BY <2>1, <2>2, YieldKept
  <2>3. CASE Take(s) /\ UNCHANGED pc
    <3>1. pc' = [pc EXCEPT ![s] = pc[s]]  BY <2>3 DEF Typed, TypeOK
    <3> QED BY <2>1, <2>3, <3>1, TakeKept
  <2> QED BY <1>8, <2>2, <2>3 DEF Listen
<1>9. ASSUME NEW s \in Station, SkipEnq(s) PROVE Kept(s)'
  <2>1. Kept(s) /\ line[s] # <<>> /\ Take(s)  BY <1>0, <1>9 DEF SkipEnq, Reads, noise
  <2>2. pc' = [pc EXCEPT ![s] = pc[s]]  BY <1>9 DEF SkipEnq, Typed, TypeOK
  <2> QED BY <2>1, <2>2, TakeKept
<1>10. ASSUME NEW s \in Station, Accept(s) PROVE Kept(s)'
  BY <1>0, <1>10, AcceptKept DEF Accept, noise
<1>11. ASSUME NEW s \in Station, Reject(s) PROVE Kept(s)'
  <2>1. Kept(s) /\ line[s] # <<>> /\ Take(s)  BY <1>0, <1>11 DEF Reject, Reads, noise
  <2>2. pc' = [pc EXCEPT ![s] = "drain"] /\ pc[s] = "size"  BY <1>11 DEF Reject, Goto
  <2> QED BY <2>1, <2>2, TakeKept DEF Receiving
<1>12. ASSUME NEW s \in Station, Begin(s) PROVE Kept(s)'
  <2>1. Kept(s) /\ line[s] # <<>> /\ Take(s)  BY <1>0, <1>12 DEF Begin, Reads, noise
  <2>2. pc' = [pc EXCEPT ![s] = "block"] /\ pc[s] = "size"  BY <1>12 DEF Begin, Goto
  <2> QED BY <2>1, <2>2, TakeKept DEF Receiving
<1>13. ASSUME NEW s \in Station, Swallow(s) PROVE Kept(s)'
  <2>1. Kept(s) /\ line[s] # <<>> /\ Take(s) /\ pc[s] = "block"
    BY <1>0, <1>13 DEF Swallow, noise
  <2>2. \E c \in {"block", "drain"} : pc' = [pc EXCEPT ![s] = c]
    BY <1>13 DEF Swallow, Goto
  <2> QED BY <2>1, <2>2, TakeKept DEF Receiving
<1>14. ASSUME NEW s \in Station, Drain(s) PROVE Kept(s)'
  <2>1. Kept(s) /\ line[s] # <<>> /\ Take(s)  BY <1>0, <1>14 DEF Drain, noise
  <2>2. pc' = [pc EXCEPT ![s] = pc[s]]  BY <1>14 DEF Drain, Typed, TypeOK
  <2> QED BY <2>1, <2>2, TakeKept
<1>15. ASSUME NEW s \in Station, Drained(s) PROVE Kept(s)'
  <2>1. Quiet(s) /\ Kept(s)  BY <1>0, <1>15, ExpiresType DEF Drained
  <2> QED BY <1>15, <2>1, GiveUpKept DEF Drained, Receiving
<1>16. ASSUME NEW s \in Station, SizeTimeout(s) \/ BlockTimeout(s) PROVE Kept(s)'
  <2>1. Expires(s) /\ GiveUp(s) /\ pc[s] \in Receiving
    BY <1>16 DEF SizeTimeout, BlockTimeout, Receiving
  <2>2. Quiet(s) /\ Kept(s)  BY <1>0, <2>1, ExpiresType
  <2> QED BY <2>1, <2>2, GiveUpKept DEF GiveUp
<1>17. ASSUME NEW s \in Station, EndRun(s) PROVE Kept(s)'
  <2>1. Kept(s) /\ pc[s] = "run" /\ UNCHANGED <<line, received>> /\ Resume(s)
    BY <1>0, <1>17 DEF EndRun, noise
  <2>2. PICK c \in {"idle", "enq"} : pc' = [pc EXCEPT ![s] = c]  BY <2>1, ResumePlaced
  <2>3. sends'[Peer(s)] = sends[Peer(s)]  BY <2>1, PeerIs DEF Resume, Typed, TypeOK
  <2> QED BY <2>1, <2>2, <2>3, RunKept
<1>18. ASSUME NEW s \in Station, Lose(s) PROVE Kept(s)'
  <2>1. Kept(s) /\ line[s] # <<>> /\ Take(s)  BY <1>0, <1>18 DEF Lose
  <2>2. pc' = [pc EXCEPT ![s] = pc[s]]  BY <1>18 DEF Lose, Typed, TypeOK
  <2> QED BY <2>1, <2>2, TakeKept
<1>19. ASSUME NEW s \in Station, NEW how \in {"spoilt", "cut"}, Spoil(s, how) PROVE Kept(s)'
  BY <1>0, <1>19, SpoilKept DEF Spoil
<1>20. ASSUME UNCHANGED vars PROVE \A s \in Station : Kept(s)'
  BY <1>0, <1>20 DEF vars, noise, Kept, Match, Top
<1>21. \E s \in Station : Kept(s)'
  <2>1. CASE UNCHANGED vars  BY <1>20, <2>1, LineAssumption
  <2>2. CASE Finished  BY <1>20, <2>2, LineAssumption DEF Finished
  <2>3. ASSUME NEW s \in Station, Sender(s) PROVE Kept(s)'
    BY <1>1, <1>2, <1>3, <1>4, <1>5, <1>6, <1>7, <2>3 DEF Sender
  <2>4. ASSUME NEW s \in Station, Receiver(s) PROVE Kept(s)'
    BY <1>8, <1>9, <1>10, <1>11, <1>12, <1>13, <1>14, <1>15, <1>16, <2>4 DEF Receiver
  <2>5. CASE Noise  BY <1>18, <1>19, <2>5 DEF Noise
  <2> QED BY <1>17, <2>1, <2>2, <2>3, <2>4, <2>5 DEF Next
<1> QED BY <1>21, KeptIsOrderly

\* What a program has received is not taken back, and only the answer to a
\* block ends a send with success
LEMMA OkStep ==
    ASSUME Typed, Orderly, OkMeansReceived, [Next]_vars
    PROVE  OkMeansReceived'
<1> SUFFICES ASSUME early' = 0, NEW s \in Station, NEW m \in Messages,
                    outcome'[s][m] = "ok"
             PROVE  received'[Peer(s)][m] > 0
  BY DEF OkMeansReceived
<1>0. Peer(s) \in Station  BY PeerIs
<1>1. CASE early = 0 /\ outcome[s][m] = "ok" /\ received' = received
  BY <1>1 DEF OkMeansReceived
<1>2. CASE early = 0 /\ outcome' = outcome /\ received' = received
  BY <1>1, <1>2
<1>3. ASSUME NEW t \in Station, Answered(t) PROVE received'[Peer(s)][m] > 0
  <2>1. /\ sends[t] # <<>> /\ line[t] # <<>> /\ pc[t] = "ack"
        /\ received' = received /\ early = 0
    BY <1>3 DEF Answered, Typed, NonEmpty, noise
  <2>2. CASE Retry(t)
    <3>1. outcome[s][m] = "ok"  BY <2>1, <2>2, RetryPlaced
    <3> QED BY <1>1, <2>1, <3>1
  <2>3. CASE Hears(t, "ACK") /\ Ends(t, "ok")
    <3>1. CASE outcome[s][m] = "ok"  BY <1>1, <2>1, <3>1
    <3>2. CASE outcome[s][m] # "ok"
      <4>1. s = t /\ m = Top(t).msg
        BY <2>3, <3>2 DEF Ends, Typed, TypeOK
      <4>2. Tidy(t, line[t], line[Peer(t)], pc[t], pc[Peer(t)]) /\ Match(t)
        BY <2>1 DEF Orderly, TidyAll
      <4>3. ~Blocks(line[t])  BY <2>1, <4>2 DEF Tidy, Receiving
      <4>4. Carries(line[t], "ACK")
        <5>1. Carries(line[t], Head(line[t]).kind)  BY <2>1, FirstSymbol DEF Typed, TypeOK
        <5>2. Head(line[t]).kind = "ACK"  BY <2>3, <4>3, <5>1 DEF Hears, Reads, Blocks
        <5> QED BY <5>1, <5>2
      <4> QED BY <2>1, <4>1, <4>2, <4>4 DEF Match
    <3> QED BY <3>1, <3>2
  <2> QED BY <1>3, <2>2, <2>3 DEF Answered
<1>4. ASSUME NEW t \in Station, SendTimeout(t) PROVE received'[Peer(s)][m] > 0
  <2>1. /\ sends[t] # <<>> /\ received' = received /\ early = 0
    BY <1>4, ExpiresType DEF SendTimeout, Typed, NonEmpty
  <2>2. CASE Retry(t)
    <3>1. outcome[s][m] = "ok"  BY <2>1, <2>2, RetryPlaced
    <3> QED BY <1>1, <2>1, <3>1
  <2>3. CASE Ends(t, "failed")
    <3>1. outcome[s][m] = "ok"  BY <2>3 DEF Ends, Typed, TypeOK
    <3> QED BY <1>1, <2>1, <3>1
  <2> QED BY <1>4, <2>2, <2>3 DEF SendTimeout
<1>5. ASSUME NEW t \in Station, Accept(t) PROVE received'[Peer(s)][m] > 0
  <2>1. received[Peer(s)][m] > 0 /\ received[Peer(s)] \in [Messages -> Nat]
    BY <1>0, <1>5 DEF Accept, noise, OkMeansReceived, Typed, TypeOK
  <2>2. CASE t # Peer(s)  BY <1>0, <1>5, <2>1, <2>2 DEF Accept, Typed, TypeOK
  <2>3. CASE t = Peer(s)
    <3> DEFINE k == Head(line[t]).msg
    <3>1. received'[t] = [received[t] EXCEPT ![k] = received[t][k] + 1]
      BY <1>5 DEF Accept, Typed, TypeOK
    <3> HIDE DEF k
    <3> QED BY <2>1, <2>3, <3>1
  <2> QED BY <2>2, <2>3
<1>6. ASSUME NEW t \in Station, Sender(t) PROVE received'[Peer(s)][m] > 0
  <2>1. CASE Send(t) \/ Ask(t) \/ Granted(t) \/ Contention(t) \/ NotEot(t)
    BY <1>2, <2>1 DEF Send, Ask, Granted, Contention, NotEot, noise
  <2> QED BY <1>3, <1>4, <1>6, <2>1 DEF Sender
<1>7. ASSUME NEW t \in Station, Receiver(t) PROVE received'[Peer(s)][m] > 0
  <2>1. CASE \/ Listen(t) \/ SkipEnq(t) \/ Reject(t) \/ Begin(t) \/ Swallow(t) \/ Drain(t)
    BY <1>2, <2>1 DEF Listen, SkipEnq, Reject, Begin, Swallow, Drain, noise
  <2>2. CASE Drained(t) \/ SizeTimeout(t) \/ BlockTimeout(t)
    BY <1>2, <2>2, ExpiresType DEF Drained, SizeTimeout, BlockTimeout, GiveUp
  <2> QED BY <1>5, <1>7, <2>1, <2>2 DEF Receiver
<1>8. ASSUME NEW t \in Station, EndRun(t) PROVE received'[Peer(s)][m] > 0
  BY <1>2, <1>8 DEF EndRun, noise
<1>9. CASE Noise  BY <1>2, <1>9 DEF Noise, Lose, Spoil
<1>10. CASE UNCHANGED vars  BY <1>2, <1>10 DEF vars, noise
<1> QED BY <1>6, <1>7, <1>8, <1>9, <1>10 DEF Next, Finished

-----------------------------------------------------------------------------
(* A line without noise, as long as no timer runs out early.                *)

\* Whoever waits has what it waits for on its way, or a question that will be
\* answered; nothing is spoilt and nothing is refused
Neat(s, q, back, here, there) ==
    /\ here \notin {"block", "drain"}
    /\ ~Carries(q, "NAK") /\ ~Carries(q, "spoilt") /\ ~Carries(q, "cut")
    /\ here = "ack" => Carries(back, "block") \/ Carries(q, "ACK")
    /\ here = "eot" => \/ Carries(back, "ENQ") \/ Carries(q, "EOT")
                       \/ s # Master /\ there = "eot" /\ Carries(q, "ENQ")
    /\ here = "size" => Carries(q, "block") \/ Carries(back, "EOT")

BothNeat(s, q, o, a, b) == Neat(s, q, o, a, b) /\ Neat(Peer(s), o, q, b, a)

\* Nobody times out: on a quiet line nobody waits
LEMMA NeatNotQuiet ==
    ASSUME NEW s, NEW a, NEW b, a \in {"eot", "ack", "size", "block", "drain"}
    PROVE  ~BothNeat(s, <<>>, <<>>, a, b)
BY EmptyLine DEF BothNeat, Neat

\* No block, and no part of one, is on a line where none is awaited
LEMMA NoBlocks ==
    ASSUME NEW q, ~Blocks(q)
    PROVE  ~Carries(q, "block") /\ ~Carries(q, "spoilt") /\ ~Carries(q, "cut")
BY DEF Blocks, Data

\* A character is skipped
LEMMA NeatSkip ==
    ASSUME NEW s \in Station, NEW q \in Seq(Symbols), NEW o, NEW a, NEW b, NEW r,
           Both(s, q, o, a, b), BothNeat(s, q, o, a, b), q # <<>>, After(q, r),
           \/ a = "size" /\ Head(q).kind = "ENQ"
           \/ a = "eot" /\ Head(q).kind # "EOT" /\ (Head(q).kind = "ENQ" => s = Master)
    PROVE  BothNeat(s, r, o, a, b) /\ ~Carries(q, "ACK")
<1>1. ~Carries(q, "ACK")  BY DEF Both, Tidy
<1>2. s = Master <=> Peer(s) # Master  BY PeerIs
<1>3. Head(q).kind = "ENQ" /\ Carries(q, "ENQ")
  <2>1. CASE a = "eot"
    <3>1. ~Blocks(q)  BY <2>1 DEF Both, Tidy, Receiving
    <3>2. Head(q).kind \in Kinds /\ Carries(q, Head(q).kind) /\ Head(q).kind \notin Data
      BY <3>1, Removed
    <3> QED BY <1>1, <2>1, <3>2 DEF BothNeat, Neat, Kinds, Control
  <2>2. CASE a = "size"  BY <2>2, FirstSymbol
  <2> QED BY <2>1, <2>2
<1>4. /\ ~Blocks(r) /\ ~Carries(r, "NAK") /\ ~Carries(r, "ENQ")
      /\ Carries(r, "EOT") <=> Carries(q, "EOT")
  <2>1. Head(q).kind \notin Data  BY <1>3 DEF Data
  <2>2. ~Blocks(r)  BY <2>1 DEF After, Blocks
  <2> QED BY <1>3, <2>2, Removed
<1>5. ~Carries(r, "spoilt") /\ ~Carries(r, "cut")  BY <1>4, NoBlocks
<1>6. ~Carries(o, "block") /\ ~Carries(o, "ACK")
  BY <1>3, NoBlocks DEF Both, Tidy
<1>7. CASE a = "eot" /\ s = Master
  <2>1. Neat(s, r, o, a, b)  BY <1>4, <1>5, <1>7 DEF BothNeat, Neat
  <2>2. Carries(o, "ENQ") \/ Carries(q, "EOT")  BY <1>7 DEF BothNeat, Neat
  <2>3. b = "eot" \/ Carries(q, "EOT")  BY <1>3 DEF Both, Tidy
  <2>4. Carries(q, "EOT") => b = "size"  BY DEF Both, Tidy
  <2>5. Neat(Peer(s), o, r, b, a)
    BY <1>2, <1>4, <1>6, <1>7, <2>2, <2>3, <2>4 DEF BothNeat, Neat
  <2> QED BY <1>1, <2>1, <2>5 DEF BothNeat
<1>8. CASE a = "size"
  <2>1. ~Carries(q, "EOT")  BY <1>8 DEF Both, Tidy
  <2>2. b = "eot"  BY <1>3, <2>1 DEF Both, Tidy
  <2>3. ~Carries(q, "block")  BY <2>2, NoBlocks DEF Both, Tidy
  <2>4. Carries(o, "EOT")  BY <1>8, <2>3 DEF BothNeat, Neat
  <2>5. Neat(s, r, o, a, b)  BY <1>4, <1>5, <1>8, <2>4 DEF BothNeat, Neat
  <2>6. Neat(Peer(s), o, r, b, a)  BY <2>2, <2>4 DEF BothNeat, Neat
  <2> QED BY <1>1, <2>5, <2>6 DEF BothNeat
<1> QED BY <1>3, <1>7, <1>8

\* The answer to a block is ACK
LEMMA NeatAnswered ==
    ASSUME NEW s \in Station, NEW q \in Seq(Symbols), NEW o, NEW b, NEW r,
           Both(s, q, o, "ack", b), BothNeat(s, q, o, "ack", b), q # <<>>, After(q, r)
    PROVE  Head(q).kind = "ACK" /\ BothNeat(s, r, o, "run", b)
<1>1. ~Blocks(q) /\ ~Carries(q, "EOT")  BY DEF Both, Tidy, Receiving
<1>2. ~Carries(o, "block") /\ ~Carries(o, "ACK")  BY NoBlocks DEF Both, Tidy
<1>3. Carries(q, "ACK") /\ ~Carries(q, "NAK")  BY <1>2 DEF BothNeat, Neat
<1>4. Head(q).kind \in {"ACK", "ENQ"}
  <2>1. Head(q).kind \in Kinds /\ Carries(q, Head(q).kind) /\ Head(q).kind \notin Data
    BY <1>1, Removed
  <2> QED BY <1>1, <1>3, <2>1 DEF Kinds, Control
<1>5. Head(q).kind = "ACK"
  <2>1. Head(q).kind # "ACK" => Carries(r, "ACK")  BY <1>3 DEF After, Control
  <2> QED BY <2>1, Removed
<1>6. ~Carries(r, "NAK") /\ ~Carries(r, "spoilt") /\ ~Carries(r, "cut")
  <2>1. ~Blocks(r)  BY <1>1, Removed
  <2> QED BY <2>1, NoBlocks, Removed
<1>7. Carries(q, "ENQ") => Carries(r, "ENQ")  BY <1>5, Removed
<1>8. Neat(s, r, o, "run", b)  BY <1>6 DEF Neat
<1>9. Neat(Peer(s), o, r, b, "run")
  <2>1. ~Carries(o, "EOT") /\ ~Carries(o, "ENQ") /\ ~Carries(q, "block")
    BY <1>1, NoBlocks DEF Both, Tidy
  <2> QED BY <1>1, <1>2, <1>7, <2>1 DEF BothNeat, Neat
<1> QED BY <1>5, <1>8, <1>9 DEF BothNeat

\* ENQ goes out
LEMMA NeatAsk ==
    ASSUME NEW s \in Station, NEW q \in Seq(Symbols), NEW o \in Seq(Symbols), NEW b,
           Both(s, q, o, "enq", b), BothNeat(s, q, o, "enq", b)
    PROVE  BothNeat(s, q, Append(o, Char("ENQ")), "eot", b)
<1> DEFINE n == Append(o, Char("ENQ"))
<1>1. Char("ENQ") \in Symbols /\ Char("ENQ").kind = "ENQ"
  BY SymbolType DEF Kinds, Control
<1>2. \A k : Carries(n, k) <=> Carries(o, k) \/ k = "ENQ"  BY <1>1, AppendCarries
<1> HIDE DEF n
<1>3. ~Carries(o, "block") /\ ~Carries(o, "EOT") /\ ~Carries(q, "EOT")
  BY NoBlocks DEF Both, Tidy
<1>4. Neat(s, q, n, "eot", b)  BY <1>2 DEF BothNeat, Neat
<1>5. Neat(Peer(s), n, q, b, "eot")  BY <1>2, <1>3 DEF BothNeat, Neat
<1> QED BY <1>4, <1>5 DEF BothNeat, n

\* ENQ is answered with EOT
LEMMA NeatYield ==
    ASSUME NEW s \in Station, NEW q, NEW o \in Seq(Symbols), NEW a,
           BothNeat(s, q, o, a, "eot")
    PROVE  BothNeat(s, <<>>, Append(o, Char("EOT")), "size", "eot")
<1> DEFINE n == Append(o, Char("EOT"))
<1>1. Char("EOT") \in Symbols /\ Char("EOT").kind = "EOT"
  BY SymbolType DEF Kinds, Control
<1>2. \A k : Carries(n, k) <=> Carries(o, k) \/ k = "EOT"  BY <1>1, AppendCarries
<1>3. \A k : ~Carries(<<>>, k)  BY EmptyLine
<1> HIDE DEF n
<1>4. Neat(s, <<>>, n, "size", "eot")  BY <1>2, <1>3 DEF Neat
<1>5. Neat(Peer(s), n, <<>>, "eot", "size")  BY <1>2 DEF BothNeat, Neat
<1> QED BY <1>4, <1>5 DEF BothNeat, n

\* EOT is answered with the block, and the block with ACK
LEMMA NeatExchange ==
    ASSUME NEW s \in Station, NEW x \in Symbols, NEW o, o = <<>>
    PROVE  /\ x.kind = "block" => BothNeat(s, <<>>, Append(o, x), "ack", "size")
           /\ x.kind = "ACK" => BothNeat(s, <<>>, Append(o, x), "run", "ack")
<1> DEFINE n == Append(o, x)
<1>1. \A k : Carries(n, k) <=> k = x.kind
  <2>1. o \in Seq(Symbols)  OBVIOUS
  <2>2. \A k : Carries(n, k) <=> Carries(o, k) \/ k = x.kind  BY <2>1, AppendCarries
  <2>3. \A k : ~Carries(o, k)  BY EmptyLine
  <2> QED BY <2>2, <2>3
<1>2. \A k : ~Carries(<<>>, k)  BY EmptyLine
<1> HIDE DEF n
<1>3. ASSUME x.kind = "block" PROVE BothNeat(s, <<>>, n, "ack", "size")
  BY <1>1, <1>2, <1>3 DEF BothNeat, Neat
<1>4. ASSUME x.kind = "ACK" PROVE BothNeat(s, <<>>, n, "run", "ack")
  BY <1>1, <1>2, <1>4 DEF BothNeat, Neat
<1> QED BY <1>3, <1>4 DEF n

\* The program goes on
LEMMA NeatRun ==
    ASSUME NEW s \in Station, NEW q, NEW o, NEW a, NEW b, NEW c,
           BothNeat(s, q, o, a, b), a \in {"idle", "run"}, c \in {"idle", "enq"}
    PROVE  BothNeat(s, q, o, c, b)
<1>1. Neat(s, q, o, c, b)  BY DEF BothNeat, Neat
<1>2. Neat(Peer(s), o, q, b, c)  BY DEF BothNeat, Neat
<1> QED BY <1>1, <1>2 DEF BothNeat

\* Nothing comes that an end would refuse or discard
LEMMA NeatExpected ==
    ASSUME NEW s \in Station, NEW q \in Seq(Symbols), NEW o, NEW a, NEW b,
           Both(s, q, o, a, b), BothNeat(s, q, o, a, b), q # <<>>
    PROVE  /\ a = "idle" => Head(q).kind = "ENQ"
           /\ a = "size" => Head(q).kind \in {"ENQ", "block"}
<1>1. Head(q).kind \in Kinds /\ Carries(q, Head(q).kind)  BY FirstSymbol
<1>2. Head(q).kind \notin {"NAK", "spoilt", "cut"}  BY <1>1 DEF BothNeat, Neat
<1>3. Head(q).kind \in {"ENQ", "EOT", "ACK", "block"}
  BY <1>1, <1>2 DEF Kinds, Control, Data
<1>4. a \in {"idle", "size"} => ~Carries(q, "EOT") /\ ~Carries(q, "ACK")  BY DEF Both, Tidy
<1>5. a = "idle" => ~Carries(q, "block")  BY DEF Both, Tidy
<1> QED BY <1>1, <1>3, <1>4, <1>5

-----------------------------------------------------------------------------
(* How often each message has been received. *)

\* f: the sends under way at one end; n: the messages it has begun to send;
\* g: how often the other end has received each; q: what is on its way back.
\* A message is received at most once, and the message of a send under way not
\* yet, but for the innermost when its ACK is on its way.
Count(f, n, g, q) ==
    /\ \A i \in 1..Len(f) :
          f[i].msg <= n /\ (g[f[i].msg] = 0 \/ (i = Len(f) /\ Carries(q, "ACK")))
    /\ \A i, j \in 1..Len(f) : i < j => f[i].msg < f[j].msg
    /\ \A m \in Messages : g[m] <= 1 /\ (m > n => g[m] = 0)

\* The line changes
LEMMA CountLine ==
    ASSUME NEW f, NEW n, NEW g, NEW q, NEW r, Count(f, n, g, q),
           Carries(q, "ACK") => Carries(r, "ACK")
    PROVE  Count(f, n, g, r)
BY DEF Count

\* The number of tries changes
LEMMA CountTries ==
    ASSUME NEW f \in Seq(Frame), NEW h \in Seq(Frame), NEW n, NEW g, NEW q, Count(f, n, g, q),
           Len(h) = Len(f), \A i \in 1..Len(f) : h[i].msg = f[i].msg
    PROVE  Count(h, n, g, q)
BY DEF Count

\* The innermost send ends
LEMMA CountEnd ==
    ASSUME NEW f \in Seq(Frame), f # <<>>, NEW n, NEW g, NEW q, NEW r, Count(f, n, g, q)
    PROVE  Count(SubSeq(f, 1, Len(f) - 1), n, g, r)
<1> DEFINE h == SubSeq(f, 1, Len(f) - 1)
<1>1. Len(f) \in Nat /\ Len(f) >= 1  OBVIOUS
<1>2. Len(h) = Len(f) - 1 /\ \A i \in 1..Len(h) : h[i] = f[i]
  <2> DEFINE e == Len(f) - 1
  <2>1. e \in 0..Len(f) /\ e \in Int  BY <1>1
  <2> HIDE DEF e
  <2>2. /\ Len(SubSeq(f, 1, e)) = e
        /\ \A i \in 1..e : SubSeq(f, 1, e)[i] = f[i]
    BY <1>1, <2>1
  <2> QED BY <2>2 DEF e
<1> HIDE DEF h
<1>3. \A i \in 1..Len(h) : i \in 1..Len(f) /\ i # Len(f)  BY <1>1, <1>2
<1>4. \A i \in 1..Len(h) : h[i].msg <= n /\ g[h[i].msg] = 0  BY <1>2, <1>3 DEF Count
<1>5. \A i, j \in 1..Len(h) : i < j => h[i].msg < h[j].msg  BY <1>2, <1>3 DEF Count
<1> QED BY <1>4, <1>5 DEF Count, h

\* A send begins
LEMMA CountSend ==
    ASSUME NEW f \in Seq(Frame), NEW n \in Nat, NEW g, NEW q, Count(f, n, g, q),
           ~Carries(q, "ACK"), NEW x \in Frame, x.msg = n + 1
    PROVE  Count(Append(f, x), n + 1, g, q)
<1> DEFINE h == Append(f, x)
<1>1. /\ Len(f) \in Nat /\ Len(h) = Len(f) + 1 /\ h[Len(f) + 1] = x
      /\ \A i \in 1..Len(f) : h[i] = f[i] /\ f[i] \in Frame
  OBVIOUS
<1> HIDE DEF h
<1>2. \A i \in 1..Len(h) : i \in 1..Len(f) \/ i = Len(f) + 1  BY <1>1
<1>3. n + 1 \in Messages /\ \A i \in 1..Len(f) : f[i].msg \in Nat
  <2>1. \A y \in Frame : y.msg \in Messages  BY DEF Frame
  <2>2. Messages \subseteq Nat  BY Numbers DEF Messages
  <2> QED BY <1>1, <2>1, <2>2
<1>4. g[n + 1] = 0  BY <1>3 DEF Count
<1>5. \A i \in 1..Len(f) : f[i].msg <= n /\ g[f[i].msg] = 0  BY DEF Count
<1>6. \A i \in 1..Len(h) : h[i].msg <= n + 1 /\ g[h[i].msg] = 0
  BY <1>1, <1>2, <1>3, <1>4, <1>5
<1>7. ASSUME NEW i \in 1..Len(h), NEW j \in 1..Len(h), i < j PROVE h[i].msg < h[j].msg
  <2>1. i \in 1..Len(f)  BY <1>1, <1>7
  <2>2. CASE j \in 1..Len(f)  BY <1>1, <1>7, <2>1, <2>2 DEF Count
  <2>3. CASE j = Len(f) + 1  BY <1>1, <1>3, <1>5, <2>1, <2>3
  <2> QED BY <1>2, <2>2, <2>3
<1>8. \A m \in Messages : g[m] <= 1 /\ (m > n + 1 => g[m] = 0)
  BY DEF Count, Messages
<1> QED BY <1>6, <1>7, <1>8 DEF Count, h

\* The message of the innermost send is received
LEMMA CountAccept ==
    ASSUME NEW f \in Seq(Frame), f # <<>>, NEW n \in Nat, NEW g \in [Messages -> Nat], NEW q, NEW r,
           Count(f, n, g, q), ~Carries(q, "ACK"), Carries(r, "ACK"),
           NEW k, k = f[Len(f)].msg
    PROVE  Count(f, n, [g EXCEPT ![k] = g[k] + 1], r)
<1> DEFINE h == [g EXCEPT ![k] = g[k] + 1]
<1>1. Len(f) \in 1..Len(f) /\ Len(f) \in Nat  OBVIOUS
<1>2. k \in Messages /\ \A i \in 1..Len(f) : f[i].msg \in Messages
  <2>1. \A y \in Frame : y.msg \in Messages  BY DEF Frame
  <2>2. \A i \in 1..Len(f) : f[i] \in Frame  OBVIOUS
  <2> QED BY <1>1, <2>1, <2>2
<1>3. k \in Nat /\ \A i \in 1..Len(f) : f[i].msg \in Nat  BY <1>2, Numbers DEF Messages
<1>4. h[k] = g[k] + 1 /\ \A m \in Messages : m # k => h[m] = g[m]  BY <1>2
<1> HIDE DEF h
<1>5. g[k] = 0 /\ k <= n  BY <1>1 DEF Count
<1>6. ASSUME NEW i \in 1..Len(f)
      PROVE  f[i].msg <= n /\ (h[f[i].msg] = 0 \/ (i = Len(f) /\ Carries(r, "ACK")))
  <2>1. CASE i = Len(f)  BY <1>5, <2>1
  <2>2. CASE i # Len(f)
    <3>1. i < Len(f)  BY <1>1, <2>2
    <3>2. f[i].msg < k  BY <1>1, <3>1 DEF Count
    <3>3. f[i].msg # k  BY <1>3, <3>2
    <3>4. h[f[i].msg] = g[f[i].msg]  BY <1>2, <1>4, <3>3
    <3> QED BY <2>2, <3>4 DEF Count
  <2> QED BY <2>1, <2>2
<1>7. ASSUME NEW m \in Messages PROVE h[m] <= 1 /\ (m > n => h[m] = 0)
  <2>1. CASE m = k
    <3>1. ~(m > n)  BY <1>3, <1>5, <2>1
    <3> QED BY <1>4, <1>5, <2>1, <3>1
  <2>2. CASE m # k  BY <1>4, <2>2 DEF Count
  <2> QED BY <2>1, <2>2
<1> QED BY <1>6, <1>7 DEF Count, h

Tally(s) ==
    /\ Count(sends[s], started[s], received[Peer(s)], line[s])
    /\ \A m \in Messages : outcome[s][m] # "failed"

Fine(s) ==
    /\ BothNeat(s, line[s], line[Peer(s)], pc[s], pc[Peer(s)])
    /\ Tally(s) /\ Tally(Peer(s))

Clean == faults = 0 /\ early = 0 => \A s \in Station : Fine(s)

LEMMA FineForBoth ==
    ASSUME NEW s \in Station, Fine(s)'
    PROVE  \A t \in Station : Fine(t)'
<1>1. Peer(Peer(s)) = s  BY PeerIs
<1>2. Fine(Peer(s))'
  <2>1. BothNeat(Peer(s), line'[Peer(s)], line'[s], pc'[Peer(s)], pc'[s])
    BY <1>1 DEF Fine, BothNeat
  <2> QED BY <1>1, <2>1 DEF Fine
<1>3. ASSUME NEW t \in Station PROVE Fine(t)'
  <2>1. t = s \/ t = Peer(s)  BY PeerIs
  <2> QED BY <1>2, <2>1
<1> QED BY <1>3

LEMMA TallySame ==
    ASSUME NEW s \in Station, Tally(s), sends'[s] = sends[s], started'[s] = started[s],
           received'[Peer(s)] = received[Peer(s)], outcome'[s] = outcome[s],
           Carries(line[s], "ACK") => Carries(line'[s], "ACK")
    PROVE  Tally(s)'
<1>1. Count(sends[s], started[s], received[Peer(s)], line'[s])  BY CountLine DEF Tally
<1> QED BY <1>1 DEF Tally

\* A step of s that skips a character
LEMMA SkipFine ==
    ASSUME Typed, NEW s \in Station, Kept(s), Fine(s), Take(s), line[s] # <<>>,
           UNCHANGED <<pc, sends, started, outcome, received>>,
           \/ pc[s] = "size" /\ Head(line[s]).kind = "ENQ"
           \/ /\ pc[s] = "eot" /\ Head(line[s]).kind # "EOT"
              /\ Head(line[s]).kind = "ENQ" => s = Master
    PROVE  Fine(s)'
<1>1. PICK r \in Rests(s) : line' = [line EXCEPT ![s] = r]  BY DEF Take
<1>2. Peer(s) \in Station /\ Peer(s) # s  BY PeerIs
<1>3. line[s] \in Seq(Symbols) /\ Shape(line[s])  BY DEF Typed, TypeOK, Kept, Both, Tidy
<1>4. After(line[s], r)  BY <1>3, RestsAfter DEF Typed
<1>5. BothNeat(s, r, line[Peer(s)], pc[s], pc[Peer(s)]) /\ ~Carries(line[s], "ACK")
  BY <1>3, <1>4, NeatSkip DEF Kept, Fine
<1>6. line'[s] = r /\ line'[Peer(s)] = line[Peer(s)]  BY <1>1, <1>2 DEF Typed, TypeOK
<1>7. Tally(s)'  BY <1>5, TallySame DEF Fine
<1>8. Tally(Peer(s))'  BY <1>2, <1>6, TallySame DEF Fine
<1> QED BY <1>5, <1>6, <1>7, <1>8 DEF Fine

\* A step of s that takes the answer to its block
LEMMA AnsweredFine ==
    ASSUME Typed, NEW s \in Station, Kept(s), Fine(s), Answered(s)
    PROVE  Fine(s)'
<1>1. PICK r \in Rests(s) : line' = [line EXCEPT ![s] = r]  BY DEF Take, Answered
<1>2. Peer(s) \in Station /\ Peer(s) # s  BY PeerIs
<1>3. /\ line[s] \in Seq(Symbols) /\ Shape(line[s]) /\ line[s] # <<>>
      /\ sends[s] \in Seq(Frame) /\ sends[s] # <<>>
  BY DEF Typed, TypeOK, NonEmpty, Kept, Both, Tidy, Answered
<1>4. After(line[s], r)  BY <1>3, RestsAfter DEF Typed
<1>5. /\ Both(s, line[s], line[Peer(s)], "ack", pc[Peer(s)])
      /\ BothNeat(s, line[s], line[Peer(s)], "ack", pc[Peer(s)])
  BY DEF Kept, Fine, Answered
<1>6. Head(line[s]).kind = "ACK" /\ BothNeat(s, r, line[Peer(s)], "run", pc[Peer(s)])
  BY <1>3, <1>4, <1>5, NeatAnswered
<1>7. Ends(s, "ok") /\ UNCHANGED <<started, received>>
  BY <1>3, <1>6 DEF Answered, Reads
<1>8. /\ line'[s] = r /\ line'[Peer(s)] = line[Peer(s)]
      /\ pc'[s] = "run" /\ pc'[Peer(s)] = pc[Peer(s)]
      /\ sends'[s] = Popped(s) /\ sends'[Peer(s)] = sends[Peer(s)]
      /\ outcome'[Peer(s)] = outcome[Peer(s)]
  BY <1>1, <1>2, <1>7 DEF Ends, Goto, Typed, TypeOK
<1>9. Tally(s)'
  <2>1. Count(Popped(s), started[s], received[Peer(s)], r)
    BY <1>3, CountEnd DEF Fine, Tally, Popped
  <2>2. \A m \in Messages : outcome'[s][m] # "failed"
    BY <1>7 DEF Ends, Fine, Tally, Typed, TypeOK
  <2> QED BY <1>7, <1>8, <2>1, <2>2 DEF Tally
<1>10. Tally(Peer(s))'  BY <1>2, <1>7, <1>8, TallySame DEF Fine
<1> QED BY <1>6, <1>8, <1>9, <1>10 DEF Fine

\* A step of s that answers ENQ with EOT
LEMMA YieldFine ==
    ASSUME Typed, NEW s \in Station, Kept(s), Fine(s), Hears(s, "ENQ"),
           TakeAndWrite(s, Char("EOT")), Goto(s, "size"),
           pc[s] = "idle" \/ (pc[s] = "eot" /\ s # Master),
           UNCHANGED <<sends, started, outcome, received>>
    PROVE  Fine(s)'
<1> DEFINE n == Append(line[Peer(s)], Char("EOT"))
<1>1. PICK r \in Rests(s) :
          line' = [line EXCEPT ![s] = r, ![Peer(s)] = Append(@, Char("EOT"))]
  BY DEF TakeAndWrite
<1>2. Peer(s) \in Station /\ Peer(s) # s  BY PeerIs
<1>3. /\ line[s] \in Seq(Symbols) /\ line[Peer(s)] \in Seq(Symbols) /\ Shape(line[s])
      /\ line[s] # <<>> /\ Head(line[s]).kind \in {"ENQ"} \cup Data
  BY <1>2 DEF Typed, TypeOK, Kept, Both, Tidy, Hears, Reads
<1>4. After(line[s], r)  BY <1>3, RestsAfter DEF Typed
<1>5. pc[Peer(s)] = "eot" /\ r = <<>>  BY <1>3, <1>4, YieldKeeps DEF Kept
<1>6. BothNeat(s, line[s], line[Peer(s)], pc[s], "eot")  BY <1>5 DEF Fine
<1>7. BothNeat(s, <<>>, n, "size", "eot")  BY <1>3, <1>6, NeatYield
<1>8. /\ line'[s] = <<>> /\ line'[Peer(s)] = n
      /\ pc'[s] = "size" /\ pc'[Peer(s)] = "eot"
  BY <1>1, <1>2, <1>5 DEF Typed, TypeOK, Goto
<1>9. ~Carries(line[s], "ACK")  BY DEF Kept, Both, Tidy
<1>10. Carries(line[Peer(s)], "ACK") => Carries(n, "ACK")
  <2>1. Char("EOT") \in Symbols  BY CharType
  <2> QED BY <1>3, <2>1, AppendCarries
<1> HIDE DEF n
<1>11. Tally(s)'  BY <1>9, TallySame DEF Fine
<1>12. Tally(Peer(s))'  BY <1>2, <1>8, <1>10, TallySame DEF Fine
<1> QED BY <1>7, <1>8, <1>11, <1>12 DEF Fine

\* A step of s that answers EOT with its block
LEMMA GrantedFine ==
    ASSUME Typed, NEW s \in Station, Kept(s), Fine(s), Granted(s)
    PROVE  Fine(s)'
<1> DEFINE x == Symbol("block", Top(s).msg)
           n == Append(line[Peer(s)], x)
<1>1. PICK r \in Rests(s) : line' = [line EXCEPT ![s] = r, ![Peer(s)] = Append(@, x)]
  BY DEF TakeAndWrite, Granted
<1>2. Peer(s) \in Station /\ Peer(s) # s  BY PeerIs
<1>3. /\ line[s] \in Seq(Symbols) /\ line[Peer(s)] \in Seq(Symbols) /\ Shape(line[s])
      /\ line[s] # <<>> /\ Head(line[s]).kind \in {"EOT"} \cup Data /\ sends[s] # <<>>
  BY <1>2 DEF Typed, TypeOK, NonEmpty, Kept, Both, Tidy, Hears, Reads, Granted
<1>4. After(line[s], r)  BY <1>3, RestsAfter DEF Typed
<1>5. x \in Symbols /\ x.kind = "block"  BY <1>3, BlockType
<1> HIDE DEF x
<1>6. pc[Peer(s)] = "size" /\ line[Peer(s)] = <<>> /\ r = <<>>
  <2>1. Both(s, line[s], line[Peer(s)], "eot", pc[Peer(s)])  BY DEF Kept, Granted
  <2> QED BY <1>3, <1>4, <1>5, <2>1, GrantKeeps
<1>7. BothNeat(s, <<>>, n, "ack", "size")  BY <1>5, <1>6, NeatExchange
<1>8. /\ line'[s] = <<>> /\ line'[Peer(s)] = n /\ pc'[s] = "ack" /\ pc'[Peer(s)] = "size"
  BY <1>1, <1>2, <1>6 DEF Typed, TypeOK, Goto, Granted
<1>9. ~Carries(line[s], "ACK") /\ ~Carries(line[Peer(s)], "ACK")
  BY <1>6, EmptyLine DEF Kept, Both, Tidy, Granted
<1> HIDE DEF n
<1>10. Tally(s)'  BY <1>9, TallySame DEF Fine, Granted
<1>11. Tally(Peer(s))'  BY <1>2, <1>9, TallySame DEF Fine, Granted
<1> QED BY <1>7, <1>8, <1>10, <1>11 DEF Fine

\* A step of s that asks for the line
LEMMA AskFine ==
    ASSUME Typed, NEW s \in Station, Kept(s), Fine(s), Ask(s)
    PROVE  Fine(s)'
<1> DEFINE n == Append(line[Peer(s)], Char("ENQ"))
<1>1. Peer(s) \in Station /\ Peer(s) # s  BY PeerIs
<1>2. line[s] \in Seq(Symbols) /\ line[Peer(s)] \in Seq(Symbols)
  BY <1>1 DEF Typed, TypeOK
<1>3. BothNeat(s, line[s], n, "eot", pc[Peer(s)])
  <2>1. /\ Both(s, line[s], line[Peer(s)], "enq", pc[Peer(s)])
        /\ BothNeat(s, line[s], line[Peer(s)], "enq", pc[Peer(s)])
    BY DEF Kept, Fine, Ask
  <2> QED BY <1>2, <2>1, NeatAsk
<1>4. /\ line'[s] = line[s] /\ line'[Peer(s)] = n
      /\ pc'[s] = "eot" /\ pc'[Peer(s)] = pc[Peer(s)]
  BY <1>1 DEF Typed, TypeOK, Goto, Ask, Write
<1>5. Carries(line[Peer(s)], "ACK") => Carries(n, "ACK")
  <2>1. Char("ENQ") \in Symbols  BY CharType
  <2> QED BY <1>2, <2>1, AppendCarries
<1> HIDE DEF n
<1>6. Tally(s)'  BY <1>4, TallySame DEF Fine, Ask
<1>7. Tally(Peer(s))'  BY <1>1, <1>4, <1>5, TallySame DEF Fine, Ask
<1> QED BY <1>3, <1>4, <1>6, <1>7 DEF Fine

\* A step of s that accepts a block
LEMMA AcceptFine ==
    ASSUME Typed, NEW s \in Station, Kept(s), Fine(s), Accept(s)
    PROVE  Fine(s)'
<1> DEFINE n == Append(line[Peer(s)], Char("ACK"))
           m == Head(line[s]).msg
<1>1. Peer(s) \in Station /\ Peer(s) # s /\ Peer(Peer(s)) = s  BY PeerIs
<1>2. /\ line[s] \in Seq(Symbols) /\ line[Peer(s)] \in Seq(Symbols)
      /\ line[s] # <<>> /\ Head(line[s]).kind = "block" /\ pc[s] = "size"
  BY <1>1 DEF Typed, TypeOK, Accept, Reads
<1>3. /\ line[Peer(s)] = <<>> /\ Tail(line[s]) = <<>> /\ Carries(line[s], "block")
      /\ pc[Peer(s)] = "ack"
  BY <1>2, AcceptKeeps DEF Kept
<1>4. Char("ACK") \in Symbols /\ Char("ACK").kind = "ACK"
  BY SymbolType DEF Kinds, Control
<1>5. BothNeat(s, <<>>, n, "run", "ack")  BY <1>3, <1>4, NeatExchange
<1>6. ~Carries(line[Peer(s)], "ACK") /\ Carries(n, "ACK")
  BY <1>2, <1>3, <1>4, AppendCarries, EmptyLine
<1>7. /\ line'[s] = <<>> /\ line'[Peer(s)] = n
      /\ pc'[s] = "run" /\ pc'[Peer(s)] = "ack"
      /\ received'[Peer(s)] = received[Peer(s)]
      /\ received'[s] = [received[s] EXCEPT ![m] = received[s][m] + 1]
      /\ UNCHANGED <<sends, started, outcome>>
  BY <1>1, <1>3 DEF Typed, TypeOK, Goto, Accept
<1> HIDE DEF n
<1>8. m = Top(Peer(s)).msg /\ sends[Peer(s)] # <<>>
  BY <1>1, <1>3 DEF Kept, Match, Typed, NonEmpty
<1> HIDE DEF m
<1>9. Tally(s)'
  <2>1. ~Carries(line[s], "ACK")  BY <1>2 DEF Kept, Both, Tidy
  <2> QED BY <1>7, <2>1, TallySame DEF Fine
<1>10. Tally(Peer(s))'
  <2>1. /\ sends[Peer(s)] \in Seq(Frame) /\ started[Peer(s)] \in Nat
        /\ received[s] \in [Messages -> Nat]
    BY <1>1, Numbers DEF Typed, TypeOK
  <2>2. m = sends[Peer(s)][Len(sends[Peer(s)])].msg  BY <1>8 DEF Top
  <2>3. Count(sends[Peer(s)], started[Peer(s)], received[s], line[Peer(s)])
    BY <1>1 DEF Fine, Tally
  <2>4. Count(sends[Peer(s)], started[Peer(s)],
              [received[s] EXCEPT ![m] = received[s][m] + 1], n)
    BY <1>6, <1>8, <2>1, <2>2, <2>3, CountAccept
  <2>5. Count(sends[Peer(s)], started[Peer(s)], received'[s], n)  BY <1>7, <2>4
  <2> QED BY <1>1, <1>7, <2>5 DEF Tally, Fine
<1> QED BY <1>5, <1>7, <1>9, <1>10 DEF Fine

\* A step of the program at s: it ends, or begins to send
LEMMA EndRunFine ==
    ASSUME Typed, NEW s \in Station, Kept(s), Fine(s), EndRun(s)
    PROVE  Fine(s)'
<1>1. Peer(s) \in Station /\ Peer(s) # s  BY PeerIs
<1>2. PICK c \in {"idle", "enq"} : pc' = [pc EXCEPT ![s] = c]
  BY ResumePlaced DEF EndRun
<1>3. pc'[s] = c /\ pc'[Peer(s)] = pc[Peer(s)]  BY <1>1, <1>2 DEF Typed, TypeOK
<1>4. BothNeat(s, line[s], line[Peer(s)], c, pc[Peer(s)])
  BY NeatRun DEF Fine, EndRun
<1>5. Tally(s)'
  <2>1. CASE sends[s] = <<>> /\ sends' = sends  BY <2>1, TallySame DEF Fine, EndRun
  <2>2. CASE /\ sends[s] # <<>>
             /\ sends' = [sends EXCEPT ![s][Len(sends[s])].retry = MaxRetry + 1]
    <3> DEFINE f == [sends[s][Len(sends[s])] EXCEPT !.retry = MaxRetry + 1]
               h == [sends[s] EXCEPT ![Len(sends[s])] = f]
    <3>1. sends[s] \in Seq(Frame) /\ Len(sends[s]) \in 1..Len(sends[s]) /\ Top(s) \in Frame
      BY <2>2, TopFrame
    <3>2. f \in Frame /\ f.msg = sends[s][Len(sends[s])].msg
      <4> DEFINE y == sends[s][Len(sends[s])]
      <4>1. y \in Frame  BY <3>1 DEF Top
      <4>2. MaxRetry + 1 \in 0..(MaxRetry + 1)  BY Numbers
      <4> HIDE DEF y
      <4>3. [y EXCEPT !.retry = MaxRetry + 1] \in Frame
            /\ [y EXCEPT !.retry = MaxRetry + 1].msg = y.msg
        BY <4>1, <4>2 DEF Frame
      <4> QED BY <4>3 DEF y
    <3>3. sends'[s] = h  BY <2>2 DEF Typed, TypeOK
    <3> HIDE DEF f
    <3>4. h \in Seq(Frame) /\ Len(h) = Len(sends[s])  BY <3>1, <3>2
    <3>5. \A i \in 1..Len(sends[s]) : h[i].msg = sends[s][i].msg  BY <3>1, <3>2
    <3> HIDE DEF h
    <3>6. Count(h, started[s], received[Peer(s)], line[s])
      BY <3>1, <3>4, <3>5, CountTries DEF Fine, Tally
    <3> QED BY <3>3, <3>6 DEF Tally, Fine, EndRun
  <2> QED BY <2>1, <2>2 DEF EndRun, Resume
<1>6. Tally(Peer(s))'
  <2>1. sends'[Peer(s)] = sends[Peer(s)]  BY <1>1 DEF EndRun, Resume, Typed, TypeOK
  <2> QED BY <1>1, <2>1, TallySame DEF Fine, EndRun
<1> QED BY <1>3, <1>4, <1>5, <1>6 DEF Fine, EndRun

LEMMA SendFine ==
    ASSUME Typed, NEW s \in Station, Kept(s), Fine(s), Send(s)
    PROVE  Fine(s)'
<1> DEFINE x == [msg |-> started[s] + 1, retry |-> MaxRetry + 1]
<1>1. Peer(s) \in Station /\ Peer(s) # s  BY PeerIs
<1>2. /\ sends[s] \in Seq(Frame) /\ started[s] \in Nat /\ started[Peer(s)] \in Nat
  BY <1>1, Numbers DEF Typed, TypeOK
<1>3. started[s] + 1 \in Messages
  <2>1. started[s] + started[Peer(s)] < MaxMsgs  BY DEF Send
  <2> QED BY <1>2, <2>1, Numbers DEF Messages
<1>4. x \in Frame /\ x.msg = started[s] + 1  BY <1>3, Numbers DEF Frame
<1>5. /\ pc'[s] = "enq" /\ pc'[Peer(s)] = pc[Peer(s)]
      /\ sends'[s] = Append(sends[s], x) /\ sends'[Peer(s)] = sends[Peer(s)]
      /\ started'[s] = started[s] + 1 /\ started'[Peer(s)] = started[Peer(s)]
      /\ UNCHANGED <<line, outcome, received>>
  BY <1>1 DEF Typed, TypeOK, Send, Goto
<1> HIDE DEF x
<1>6. BothNeat(s, line[s], line[Peer(s)], "enq", pc[Peer(s)])
  BY NeatRun DEF Fine, Send
<1>7. Tally(s)'
  <2>1. ~Carries(line[s], "ACK")  BY DEF Kept, Both, Tidy, Send
  <2>2. Count(Append(sends[s], x), started[s] + 1, received[Peer(s)], line[s])
    BY <1>2, <1>4, <2>1, CountSend DEF Fine, Tally
  <2> QED BY <1>5, <2>2 DEF Tally, Fine
<1>8. Tally(Peer(s))'  BY <1>1, <1>5, TallySame DEF Fine
<1> QED BY <1>5, <1>6, <1>7, <1>8 DEF Fine

\* Every step of the system, before any noise and any early timer.
LEMMA CleanStep ==
    ASSUME Typed, Orderly, Clean, [Next]_vars
    PROVE  Clean'
<1> SUFFICES ASSUME faults' = 0, early' = 0 PROVE \A s \in Station : Fine(s)'
  BY DEF Clean
<1>0. faults = 0 /\ early = 0 => \A s \in Station : Kept(s) /\ Fine(s)
  BY TwoEnds, PeerIs DEF Orderly, Kept, Clean
<1>1. ASSUME NEW s \in Station, UNCHANGED noise PROVE Kept(s) /\ Fine(s)
  BY <1>0, <1>1 DEF noise
<1>2. ASSUME NEW s \in Station, Expires(s),
             pc[s] \in {"eot", "ack", "size", "block", "drain"}
      PROVE  FALSE
  <2>1. Quiet(s) /\ UNCHANGED noise
    <3>1. early' = 0 => early = 0 /\ Quiet(s)  BY <1>2, ExpiresType
    <3> QED BY <1>2, <3>1 DEF Expires
  <2>2. Kept(s) /\ Fine(s)  BY <1>1, <2>1
  <2>3. line[s] = <<>> /\ line[Peer(s)] = <<>>  BY <2>1, <2>2, QuietIs
  <2>4. BothNeat(s, <<>>, <<>>, pc[s], pc[Peer(s)])  BY <2>2, <2>3 DEF Fine
  <2> QED BY <1>2, <2>4, NeatNotQuiet
<1>3. ASSUME NEW s \in Station, UNCHANGED noise
      PROVE  /\ pc[s] \notin {"block", "drain"}
             /\ line[s] # <<>> /\ pc[s] = "idle" => Head(line[s]).kind = "ENQ"
             /\ line[s] # <<>> /\ pc[s] = "size" => Head(line[s]).kind \in {"ENQ", "block"}
  <2>1. Kept(s) /\ Fine(s)  BY <1>1, <1>3
  <2>2. line[s] \in Seq(Symbols)  BY DEF Typed, TypeOK
  <2>3. pc[s] \notin {"block", "drain"}  BY <2>1 DEF Fine, BothNeat, Neat
  <2> QED BY <2>1, <2>2, <2>3, NeatExpected DEF Kept, Fine
<1>4. ASSUME NEW s \in Station, Sender(s) PROVE Fine(s)'
  <2>1. CASE Send(s)  BY <1>1, <2>1, SendFine DEF Send
  <2>2. CASE Ask(s)  BY <1>1, <2>2, AskFine DEF Ask
  <2>3. CASE Granted(s)  BY <1>1, <2>3, GrantedFine DEF Granted
  <2>4. CASE Contention(s)  BY <1>1, <2>4, YieldFine DEF Contention
  <2>5. CASE NotEot(s)
    <3>1. Kept(s) /\ Fine(s) /\ Take(s) /\ pc[s] = "eot"
      BY <1>1, <2>5 DEF NotEot
    <3>2. /\ line[s] # <<>> /\ Head(line[s]).kind # "EOT"
          /\ Head(line[s]).kind = "ENQ" => s = Master
      BY <2>5 DEF NotEot, Reads, Data
    <3> QED BY <2>5, <3>1, <3>2, SkipFine DEF NotEot
  <2>6. CASE Answered(s)  BY <1>1, <2>6, AnsweredFine DEF Answered
  <2>7. CASE SendTimeout(s)  BY <1>2, <2>7 DEF SendTimeout
  <2> QED BY <1>4, <2>1, <2>2, <2>3, <2>4, <2>5, <2>6, <2>7 DEF Sender
<1>5. ASSUME NEW s \in Station, Receiver(s) PROVE Fine(s)'
  <2>1. CASE Listen(s)
    <3>1. Kept(s) /\ Fine(s)  BY <1>1, <2>1 DEF Listen
    <3>2. Head(line[s]).kind = "ENQ"  BY <1>3, <2>1 DEF Listen
    <3>3. Hears(s, "ENQ") /\ TakeAndWrite(s, Char("EOT")) /\ Goto(s, "size")
      BY <2>1, <3>2 DEF Listen, Reads
    <3> QED BY <2>1, <3>1, <3>3, YieldFine DEF Listen
  <2>2. CASE SkipEnq(s)
    <3>1. /\ Kept(s) /\ Fine(s) /\ Take(s) /\ pc[s] = "size"
          /\ line[s] # <<>> /\ Head(line[s]).kind = "ENQ"
      BY <1>1, <2>2 DEF SkipEnq, Reads
    <3> QED BY <2>2, <3>1, SkipFine DEF SkipEnq
  <2>3. CASE Accept(s)  BY <1>1, <2>3, AcceptFine DEF Accept
  <2>4. CASE Reject(s)  BY <1>3, <2>4 DEF Reject, Reads
  <2>5. CASE Begin(s)  BY <1>3, <2>5 DEF Begin, Reads
  <2>6. CASE Swallow(s) \/ Drain(s)  BY <1>3, <2>6 DEF Swallow, Drain
  <2>7. CASE Drained(s) \/ SizeTimeout(s) \/ BlockTimeout(s)
    BY <1>2, <2>7 DEF Drained, SizeTimeout, BlockTimeout
  <2> QED BY <1>5, <2>1, <2>2, <2>3, <2>4, <2>5, <2>6, <2>7 DEF Receiver
<1>6. ASSUME NEW s \in Station, EndRun(s) PROVE Fine(s)'
  BY <1>1, <1>6, EndRunFine DEF EndRun
<1>7. ~Noise
  <2>1. faults \in Nat  BY Numbers DEF Typed, TypeOK
  <2> QED BY <2>1 DEF Noise, Lose, Spoil
<1>8. ASSUME UNCHANGED vars PROVE \A s \in Station : Fine(s)'
  BY <1>0, <1>8 DEF vars, noise, Fine, Tally
<1> QED BY <1>4, <1>5, <1>6, <1>7, <1>8, FineForBoth DEF Next, Finished

-----------------------------------------------------------------------------
\* The inductive invariant: types, how the lines and the ends go together as
\* long as no timer has run out early, what success means then, and what a
\* line without noise does.
IInv == Typed /\ Orderly /\ OkMeansReceived /\ Clean

LEMMA InitGood == Init => IInv
<1> SUFFICES ASSUME Init PROVE IInv  OBVIOUS
<1>1. Typed
  BY Numbers DEF Init, Typed, TypeOK, NonEmpty, Locations
<1>2. \A s \in Station : line[s] = <<>> /\ line[Peer(s)] = <<>> /\ pc[s] = "idle"
  BY PeerIs DEF Init
<1>3. Shape(<<>>) /\ \A k : ~Carries(<<>>, k)  BY EmptyLine
<1>4. ~Blocks(<<>>)  BY <1>3 DEF Blocks
<1>5. TidyAll(line, pc)  BY <1>2, <1>3, <1>4 DEF TidyAll, Tidy, Receiving
<1>6. \A s \in Station : Match(s)  BY <1>2, <1>3 DEF Match
<1>7. OkMeansReceived  BY DEF OkMeansReceived, Init
<1>8. \A s \in Station : Fine(s)
  <2>1. \A s \in Station : BothNeat(s, line[s], line[Peer(s)], pc[s], pc[Peer(s)])
    <3>1. \A s \in Station : pc[Peer(s)] = "idle"  BY <1>2, PeerIs
    <3> QED BY <1>2, <1>3, <3>1 DEF BothNeat, Neat
  <2>2. \A s \in Station : Tally(s)
    <3>1. ASSUME NEW s \in Station PROVE Tally(s)
      <4>1. /\ sends[s] = <<>> /\ started[s] = 0 /\ Peer(s) \in Station
            /\ received[Peer(s)] = [m \in Messages |-> 0]
        BY PeerIs DEF Init
      <4>2. Len(sends[s]) = 0 /\ 1..0 = {}  BY <4>1
      <4>3. Count(sends[s], started[s], received[Peer(s)], line[s])
        BY <4>1, <4>2 DEF Count
      <4> QED BY <4>3 DEF Init, Tally
    <3> QED BY <3>1
  <2> QED BY <2>1, <2>2, PeerIs DEF Fine
<1> QED BY <1>1, <1>5, <1>6, <1>7, <1>8 DEF IInv, Orderly, Clean

\* Every state of the line satisfies the invariant.
THEOREM LineInvariant == Spec => []IInv
<1>1. IInv /\ [Next]_vars => IInv'
  BY TypedStep, OrderlyStep, OkStep, CleanStep DEF IInv
<1> QED BY <1>1, InitGood, PTL DEF Spec

\* The types of SecsLine, and the bound of the nesting, for any number of
\* messages, retries, faults and late answers.
THEOREM LineTypes == Spec => []TypeOK
<1>1. IInv => TypeOK  BY DEF IInv, Typed
<1> QED BY <1>1, LineInvariant, PTL

\* When send_secsII() returns success to the program, the program of the other
\* end has been run for that message, unless a timer ran out before an answer.
THEOREM SuccessMeansReceived == Spec => []OkMeansReceived
<1>1. IInv => OkMeansReceived  BY DEF IInv
<1> QED BY <1>1, LineInvariant, PTL

\* Without noise and late answers, contention never loses, repeats or fails a
\* message and nothing is rejected.
THEOREM ContentionIsHarmless == Spec => []CleanLine
<1>1. IInv => CleanLine
  <2> SUFFICES ASSUME Clean, faults = 0, early = 0, NEW s \in Station, NEW m \in Messages
               PROVE  /\ outcome[s][m] # "failed" /\ received[Peer(s)][m] <= 1
                      /\ pc[s] # "drain"
    BY DEF IInv, CleanLine
  <2>1. Fine(s)  BY DEF Clean
  <2> QED BY <2>1 DEF Fine, Tally, Count, BothNeat, Neat
<1> QED BY <1>1, LineInvariant, PTL
=============================================================================
