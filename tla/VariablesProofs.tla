--------------------------- MODULE VariablesProofs ---------------------------
(***************************************************************************)
(* The table of variables, for every program, every set of names, every    *)
(* hash and every size of the table, and that of the variables of a        *)
(* message.                                                                *)
(***************************************************************************)
EXTENDS Variables, TmpVariables, FiniteSetTheorems, SequenceTheorems, WellFoundedInduction, TLAPS

\* What is in the table
Contents == {Val(v) : v \in Values \cup {0, 1}} \cup {NameOf(n) : n \in FullNames}
Entries == [name : FullNames, value : Contents, type : Kinds]

\* The table is in the order of name_cmp(), without equals
Sorted(t) ==
    \A i, j \in 1..Len(t) : i < j => name_cmp(t[i].name, t[j].name) < 0

-----------------------------------------------------------------------------
(* The order, and bsearch(). *)

\* A nonempty set of naturals has a least element, which Min returns
LEMMA MinNat ==
    ASSUME NEW S \in SUBSET Nat, S # {}
    PROVE  Min(S) \in S /\ \A y \in S : Min(S) <= y
<1> DEFINE R == {p \in Nat \X Nat : p[1] < p[2]}
<1>1. IsWellFoundedOn(R, Nat)
  BY NatLessThanWellFounded DEF OpToRel
<1> HIDE DEF R
<1>2. PICK x \in S : \A y \in S : ~(<<y, x>> \in R)
  BY <1>1, WFMin
<1>3. \A y \in S : x <= y
  <2> SUFFICES ASSUME NEW y \in S, y < x PROVE FALSE
    OBVIOUS
  <2>1. <<y, x>> \in R
    BY DEF R
  <2> QED BY <1>2, <2>1
<1> QED
  BY <1>3 DEF Min

\* name_cmp() orders the names N, and the entries E have such names
Ordered(N) ==
    \A m, n \in N : /\ get_hash(m) \in Int /\ strcmp(m) \in Int
                    /\ strcmp(m) = strcmp(n) => m = n
Named(E, N) == \A e \in E : e.name \in N

LEMMA Cmp ==
    ASSUME NEW N, Ordered(N), NEW m \in N, NEW n \in N
    PROVE  /\ name_cmp(m, n) \in Int
           /\ name_cmp(m, n) = 0 <=> m = n
           /\ name_cmp(m, n) < 0 <=> name_cmp(n, m) > 0
<1>1. /\ get_hash(m) \in Int /\ strcmp(m) \in Int
      /\ get_hash(n) \in Int /\ strcmp(n) \in Int
      /\ strcmp(m) = strcmp(n) => m = n
  BY DEF Ordered
<1> QED BY <1>1 DEF name_cmp

LEMMA CmpTransitive ==
    ASSUME NEW N, Ordered(N), NEW m \in N, NEW n \in N, NEW o \in N,
           name_cmp(m, n) < 0, name_cmp(n, o) < 0
    PROVE  name_cmp(m, o) < 0
<1>1. /\ get_hash(m) \in Int /\ strcmp(m) \in Int
      /\ get_hash(n) \in Int /\ strcmp(n) \in Int
      /\ get_hash(o) \in Int /\ strcmp(o) \in Int
  BY DEF Ordered
<1> QED BY <1>1 DEF name_cmp

LEMMA NameType ==
    ASSUME NEW N, NEW E, Named(E, N), NEW t \in Seq(E), NEW i \in 1..Len(t)
    PROVE  t[i] \in E /\ t[i].name \in N
<1>1. t[i] \in E  OBVIOUS
<1> QED BY <1>1 DEF Named

\* An entry below or above the middle leaves the other half alone
LEMMA Sides ==
    ASSUME NEW N, Ordered(N), NEW E, Named(E, N), NEW t \in Seq(E), Sorted(t), NEW n \in N,
           NEW i \in 1..Len(t), NEW j \in 1..Len(t), t[i].name = n
    PROVE  /\ name_cmp(n, t[j].name) < 0 => i < j
           /\ name_cmp(n, t[j].name) > 0 => i > j
           /\ name_cmp(n, t[j].name) = 0 => i = j
<1>1. t[i].name \in N /\ t[j].name \in N
  BY NameType
<1>2. i < j => name_cmp(n, t[j].name) < 0
  BY DEF Sorted
<1>3. j < i => name_cmp(t[j].name, n) < 0
  BY DEF Sorted
<1>4. i = j => name_cmp(n, t[j].name) = 0
  BY <1>1, Cmp
<1>5. name_cmp(t[j].name, n) < 0 <=> name_cmp(n, t[j].name) > 0
  BY <1>1, Cmp
<1>6. name_cmp(n, t[j].name) \in Int
  BY <1>1, Cmp
<1> QED BY <1>2, <1>3, <1>4, <1>5, <1>6

\* What bsearch() looks for in the part [l, u)
Place(t, n, l, u) ==
    IF \E k \in (l + 1)..u : t[k].name = n
    THEN CHOOSE k \in (l + 1)..u : t[k].name = n
    ELSE 0

LEMMA PlaceIs ==
    ASSUME NEW N, Ordered(N), NEW E, Named(E, N), NEW t \in Seq(E), Sorted(t), NEW n \in N,
           NEW l \in 0..Len(t), NEW u \in 0..Len(t)
    PROVE  /\ \A k \in (l + 1)..u : t[k].name = n => Place(t, n, l, u) = k
           /\ (\A k \in (l + 1)..u : t[k].name # n) => Place(t, n, l, u) = 0
<1>0. Len(t) \in Nat /\ (l + 1)..u \subseteq 1..Len(t)  OBVIOUS
<1>1. \A i, k \in 1..Len(t) : t[i].name = n /\ t[k].name = n => i = k
  <2> SUFFICES ASSUME NEW i \in 1..Len(t), NEW k \in 1..Len(t),
                      t[i].name = n, t[k].name = n
               PROVE  i = k
    OBVIOUS
  <2>1. name_cmp(n, t[k].name) = 0  BY Cmp
  <2> QED BY <2>1, Sides
<1>2. ASSUME NEW k \in (l + 1)..u, t[k].name = n PROVE Place(t, n, l, u) = k
  <2> DEFINE c == CHOOSE k1 \in (l + 1)..u : t[k1].name = n
  <2>1. c \in (l + 1)..u /\ t[c].name = n
    BY <1>2
  <2>2. Place(t, n, l, u) = c
    BY <1>2 DEF Place
  <2> QED BY <2>1, <2>2, <1>0, <1>1, <1>2
<1>3. (\A k \in (l + 1)..u : t[k].name # n) => Place(t, n, l, u) = 0
  BY DEF Place
<1> QED BY <1>2, <1>3

\* Place solves the equation of the search
LEMMA PlaceSolves ==
    ASSUME NEW N, Ordered(N), NEW E, Named(E, N), NEW t \in Seq(E), Sorted(t), NEW n \in N,
           NEW l \in 0..Len(t), NEW u \in 0..Len(t), NEW f,
           \A a, b \in 0..Len(t) : f[<<a, b>>] = Place(t, n, a, b)
    PROVE  Place(t, n, l, u) = Halve(t, n, f, l, u)
<1> DEFINE mid == (l + u) \div 2
           c == name_cmp(n, t[mid + 1].name)
<1>0. Len(t) \in Nat  OBVIOUS
<1>1. CASE l >= u
  <2>1. (l + 1)..u = {}  BY <1>1, <1>0
  <2>2. Place(t, n, l, u) = 0  BY <2>1 DEF Place
  <2>3. Halve(t, n, f, l, u) = 0  BY <1>1 DEF Halve
  <2> QED BY <2>2, <2>3
<1>2. CASE l < u
  <2>1. mid \in 0..Len(t) /\ l <= mid /\ mid < u /\ mid + 1 \in 1..Len(t)
        /\ mid + 1 \in 0..Len(t) /\ mid + 1 \in (l + 1)..u
    BY <1>2, <1>0
  <2>2. t[mid + 1].name \in N
    BY <2>1, NameType
  <2>3. c \in Int /\ (c = 0 => t[mid + 1].name = n)
    BY <2>2, Cmp
  <2>4. Halve(t, n, f, l, u) = IF c < 0 THEN Place(t, n, l, mid)
                               ELSE IF c > 0 THEN Place(t, n, mid + 1, u)
                               ELSE mid + 1
    BY <1>2, <1>0, <2>1 DEF Halve
  <2>5. \A k \in (l + 1)..u : t[k].name = n =>
           /\ c < 0 => k \in (l + 1)..mid
           /\ c > 0 => k \in (mid + 2)..u
           /\ c = 0 => k = mid + 1
    <3> SUFFICES ASSUME NEW k \in (l + 1)..u, t[k].name = n
                 PROVE  /\ c < 0 => k < mid + 1
                        /\ c > 0 => k > mid + 1
                        /\ c = 0 => k = mid + 1
      BY <2>1, <1>0
    <3>1. k \in 1..Len(t)  BY <1>0
    <3> HIDE DEF mid
    <3> QED BY <3>1, <2>1, Sides
  <2> HIDE DEF mid, c
  <2>6. (l + 1)..mid \subseteq (l + 1)..u /\ (mid + 1 + 1)..u \subseteq (l + 1)..u
    BY <2>1, <1>0
  <2>7. CASE \E k \in (l + 1)..u : t[k].name = n
    <3>1. PICK k \in (l + 1)..u : t[k].name = n  BY <2>7
    <3>2. Place(t, n, l, u) = k  BY <3>1, PlaceIs
    <3>3. c < 0 => Place(t, n, l, mid) = k
      BY <3>1, <2>1, <2>5, PlaceIs
    <3>4. c > 0 => Place(t, n, mid + 1, u) = k
      <4>1. c > 0 => k \in (mid + 1 + 1)..u  BY <3>1, <2>1, <2>5
      <4>2. \A j \in (mid + 1 + 1)..u : t[j].name = n => Place(t, n, mid + 1, u) = j
        BY <2>1, PlaceIs
      <4> QED BY <4>1, <4>2, <3>1
    <3>5. c = 0 => mid + 1 = k  BY <3>1, <2>5
    <3> QED BY <2>3, <2>4, <3>2, <3>3, <3>4, <3>5
  <2>8. CASE \A k \in (l + 1)..u : t[k].name # n
    <3>1. Place(t, n, l, u) = 0  BY <2>8, PlaceIs
    <3>2. Place(t, n, l, mid) = 0  BY <2>8, <2>6, <2>1, PlaceIs
    <3>3. Place(t, n, mid + 1, u) = 0
      <4>1. \A k \in (mid + 1 + 1)..u : t[k].name # n  BY <2>8, <2>6
      <4> QED BY <4>1, <2>1, PlaceIs
    <3>4. c # 0  BY <2>8, <2>1, <2>3
    <3> QED BY <2>3, <2>4, <3>1, <3>2, <3>3, <3>4
  <2> QED BY <2>7, <2>8
<1> QED BY <1>0, <1>1, <1>2

\* bsearch() finds the entry of a name, and 0 for a name without one
LEMMA BsearchIs ==
    ASSUME NEW N, Ordered(N), NEW E, Named(E, N), NEW t \in Seq(E), Sorted(t), NEW n \in N
    PROVE  bsearch(t, n) = Place(t, n, 0, Len(t))
<1> DEFINE Eq(f) == f = [p \in Parts(t) |-> Halve(t, n, f, p[1], p[2])]
           W == [p \in Parts(t) |-> Place(t, n, p[1], p[2])]
           F == CHOOSE f : Eq(f)
<1>0. Len(t) \in Nat  OBVIOUS
<1>1. \A a, b \in 0..Len(t) : W[<<a, b>>] = Place(t, n, a, b)
  BY DEF Parts
<1>2. \A p \in Parts(t) : p[1] \in 0..Len(t) /\ p[2] \in 0..Len(t) /\ p = <<p[1], p[2]>>
  BY DEF Parts
<1>3. \A p \in Parts(t) : Place(t, n, p[1], p[2]) = Halve(t, n, W, p[1], p[2])
  <2> HIDE DEF W
  <2> QED BY <1>1, <1>2, PlaceSolves
<1>4. Eq(W)  BY <1>3
<1> HIDE DEF Eq
<1>5. Eq(F)  BY <1>4
<1> USE DEF Eq
<1> HIDE DEF F, W
<1>6. \A p \in Parts(t) : F[p] = Halve(t, n, F, p[1], p[2])
  BY <1>5
<1>7. \A p \in Parts(t) : W[p] = Halve(t, n, W, p[1], p[2])
  BY <1>4
<1> DEFINE Wrong == {k \in Nat : \E p \in Parts(t) :
                       k = (IF p[1] <= p[2] THEN p[2] - p[1] ELSE 0) /\ F[p] # W[p]}
<1>8. Wrong = {}
  <2> SUFFICES ASSUME Wrong # {} PROVE FALSE  OBVIOUS
  <2>1. Min(Wrong) \in Wrong /\ \A k \in Wrong : Min(Wrong) <= k
    <3>1. Wrong \in SUBSET Nat  OBVIOUS
    <3> HIDE DEF Wrong
    <3> QED BY <3>1, MinNat
  <2>2. PICK p \in Parts(t) : /\ Min(Wrong) = (IF p[1] <= p[2] THEN p[2] - p[1] ELSE 0)
                              /\ F[p] # W[p]
    BY <2>1
  <2> DEFINE l == p[1]
             u == p[2]
             mid == (l + u) \div 2
             c == name_cmp(n, t[mid + 1].name)
  <2>3. l \in 0..Len(t) /\ u \in 0..Len(t)  BY <1>2
  <2>4. l < u
    <3> SUFFICES ASSUME l >= u PROVE FALSE  BY <2>3, <1>0
    <3>1. Halve(t, n, F, l, u) = 0 /\ Halve(t, n, W, l, u) = 0  BY DEF Halve
    <3> QED BY <3>1, <1>6, <1>7, <2>2
  <2>5. mid \in 0..Len(t) /\ mid + 1 \in 0..Len(t) /\ l <= mid /\ mid < u
    BY <2>3, <2>4, <1>0
  <2>6. \A q \in Parts(t) : q[1] <= q[2] /\ q[2] - q[1] < u - l => F[q] = W[q]
    <3> SUFFICES ASSUME NEW q \in Parts(t), q[1] <= q[2], q[2] - q[1] < u - l,
                        F[q] # W[q]
                 PROVE  FALSE
      OBVIOUS
    <3>1. q[2] - q[1] \in Nat  BY <1>0, <1>2
    <3>2. q[2] - q[1] \in Wrong  BY <3>1
    <3>3. Min(Wrong) = u - l  BY <2>2, <2>3, <2>4, <1>0
    <3> HIDE DEF Wrong
    <3>4. Min(Wrong) <= q[2] - q[1]  BY <2>1, <3>2
    <3> QED BY <3>1, <3>3, <3>4, <2>3, <1>0
  <2>7. F[<<l, mid>>] = W[<<l, mid>>]
    <3>1. <<l, mid>> \in Parts(t)  BY <2>3, <2>5 DEF Parts
    <3> HIDE DEF mid
    <3> QED BY <3>1, <2>3, <2>5, <2>6, <1>0
  <2>8. F[<<mid + 1, u>>] = W[<<mid + 1, u>>]
    <3>1. <<mid + 1, u>> \in Parts(t)  BY <2>3, <2>5 DEF Parts
    <3> HIDE DEF mid
    <3> QED BY <3>1, <2>3, <2>5, <2>6, <1>0
  <2>9. Halve(t, n, F, l, u) = Halve(t, n, W, l, u)
    BY <2>7, <2>8 DEF Halve
  <2> QED BY <1>6, <1>7, <2>2, <2>9
<1>9. <<0, Len(t)>> \in Parts(t)  BY <1>0 DEF Parts
<1>10. F[<<0, Len(t)>>] = W[<<0, Len(t)>>]
  <2> DEFINE k == Len(t)
  <2>1. <<0, k>>[1] = 0 /\ <<0, k>>[2] = k  OBVIOUS
  <2> SUFFICES ASSUME F[<<0, k>>] # W[<<0, k>>] PROVE FALSE  OBVIOUS
  <2>2. k \in Wrong  BY <1>0, <1>9, <2>1
  <2> QED BY <2>2, <1>8
<1>11. bsearch(t, n) = F[<<0, Len(t)>>]
  BY DEF bsearch, F
<1> QED BY <1>0, <1>1, <1>10, <1>11

Has(t, n) == \E i \in 1..Len(t) : t[i].name = n

\* A name is found if and only if it is there
LEMMA Searched ==
    ASSUME NEW N, Ordered(N), NEW E, Named(E, N), NEW t \in Seq(E), Sorted(t), NEW n \in N
    PROVE  /\ \A k \in 1..Len(t) : t[k].name = n => bsearch(t, n) = k
           /\ ~Has(t, n) => bsearch(t, n) = 0
<1>1. Len(t) \in Nat  OBVIOUS
<1>2. 0 \in 0..Len(t) /\ Len(t) \in 0..Len(t) /\ (0 + 1)..Len(t) = 1..Len(t)
  BY <1>1
<1>3. bsearch(t, n) = Place(t, n, 0, Len(t))  BY BsearchIs
<1>4. /\ \A k \in 1..Len(t) : t[k].name = n => Place(t, n, 0, Len(t)) = k
      /\ (\A k \in 1..Len(t) : t[k].name # n) => Place(t, n, 0, Len(t)) = 0
  BY <1>2, PlaceIs
<1> QED BY <1>3, <1>4 DEF Has

\* Spot() is where the order is kept
LEMMA SpotIs ==
    ASSUME NEW N, Ordered(N), NEW E, Named(E, N), NEW t \in Seq(E), Sorted(t),
           NEW n \in N, ~Has(t, n)
    PROVE  /\ Spot(t, n) \in 1..(Len(t) + 1)
           /\ \A k \in 1..Len(t) : k < Spot(t, n) => name_cmp(t[k].name, n) < 0
           /\ \A k \in 1..Len(t) : k >= Spot(t, n) => name_cmp(n, t[k].name) < 0
<1>0. Len(t) \in Nat  OBVIOUS
<1>a. \A k \in 1..Len(t) : t[k].name \in N /\ t[k].name # n
  BY <1>0, NameType DEF Has
<1> DEFINE OK(i) == /\ \A j \in 1..(i - 1) : name_cmp(t[j].name, n) < 0
                    /\ i <= Len(t) => name_cmp(t[i].name, n) >= 0
           S == {i \in 1..(Len(t) + 1) : i <= Len(t) => name_cmp(t[i].name, n) >= 0}
<1>1. \E i \in 1..(Len(t) + 1) : OK(i)
  <2>1. S \in SUBSET Nat /\ Len(t) + 1 \in S  BY <1>0
  <2>2. Min(S) \in S /\ \A y \in S : Min(S) <= y
    <3> HIDE DEF S
    <3> QED BY <2>1, MinNat
  <2>3. \A j \in 1..(Min(S) - 1) : name_cmp(t[j].name, n) < 0
    <3> SUFFICES ASSUME NEW j \in 1..(Min(S) - 1) PROVE name_cmp(t[j].name, n) < 0
      OBVIOUS
    <3>1. j \in 1..Len(t) /\ j < Min(S)  BY <2>2, <1>0
    <3>2. j \notin S  BY <2>2, <3>1, <1>0
    <3>3. name_cmp(t[j].name, n) \in Int  BY <1>a, <3>1, Cmp
    <3> QED BY <3>1, <3>2, <3>3, <1>0
  <2> QED BY <2>2, <2>3
<1>2. Spot(t, n) \in 1..(Len(t) + 1) /\ OK(Spot(t, n))
  BY <1>1 DEF Spot
<1>3. ASSUME NEW k \in 1..Len(t), k < Spot(t, n) PROVE name_cmp(t[k].name, n) < 0
  BY <1>0, <1>2, <1>3
<1>4. ASSUME NEW k \in 1..Len(t), k >= Spot(t, n) PROVE name_cmp(n, t[k].name) < 0
  <2> DEFINE s == Spot(t, n)
  <2>1. s \in 1..Len(t) /\ name_cmp(t[s].name, n) >= 0  BY <1>0, <1>2, <1>4
  <2> HIDE DEF s
  <2>2. name_cmp(t[s].name, n) \in Int /\ name_cmp(t[s].name, n) # 0
        /\ (name_cmp(n, t[s].name) < 0 <=> name_cmp(t[s].name, n) > 0)
    BY <1>a, <2>1, Cmp
  <2>3. name_cmp(n, t[s].name) < 0  BY <2>1, <2>2
  <2>4. CASE k = s  BY <2>3, <2>4
  <2>5. CASE k > s
    <3>1. name_cmp(t[s].name, t[k].name) < 0  BY <2>1, <2>5, <1>0 DEF Sorted
    <3> QED BY <3>1, <2>1, <2>3, <1>a, CmpTransitive
  <2> QED BY <2>1, <2>4, <2>5, <1>4, <1>0 DEF s
<1> QED BY <1>2, <1>3, <1>4

LEMMA Joined ==
    ASSUME NEW E, NEW a \in Seq(E), NEW b \in Seq(E)
    PROVE  /\ a \o b \in Seq(E) /\ Len(a \o b) = Len(a) + Len(b)
           /\ \A k \in 1..Len(a) : (a \o b)[k] = a[k]
           /\ \A k \in 1..Len(b) : (a \o b)[Len(a) + k] = b[k]
OBVIOUS

\* The insertion keeps the order and adds one entry
LEMMA Grown ==
    ASSUME NEW N, Ordered(N), NEW E, Named(E, N), NEW t \in Seq(E), Sorted(t),
           NEW e \in E, ~Has(t, e.name), NEW t2, t2 = Insert(t, e)
    PROVE  /\ t2 \in Seq(E) /\ Sorted(t2) /\ Len(t2) = Len(t) + 1
           /\ \A k \in 1..Len(t) : \E j \in 1..Len(t2) : t2[j] = t[k]
           /\ \A j \in 1..Len(t2) : t2[j] = e \/ \E k \in 1..Len(t) : t2[j] = t[k]
           /\ \E j \in 1..Len(t2) : t2[j] = e
<1> DEFINE n == e.name
           s == Spot(t, n)
           A == SubSeq(t, 1, s - 1)
           B == SubSeq(t, s, Len(t))
<1>0. t \in Seq(E) /\ Sorted(t) /\ Len(t) \in Nat /\ n \in N
  BY DEF Named
<1>1. /\ s \in 1..(Len(t) + 1)
      /\ \A k \in 1..Len(t) : k < s => name_cmp(t[k].name, n) < 0
      /\ \A k \in 1..Len(t) : k >= s => name_cmp(n, t[k].name) < 0
  BY <1>0, SpotIs
<1>2. t2 = A \o <<e>> \o B  BY DEF Insert, InsertAt
<1> HIDE DEF s, n
<1>3. /\ A \in Seq(E) /\ Len(A) = s - 1 /\ \A k \in 1..(s - 1) : A[k] = t[k]
      /\ B \in Seq(E) /\ Len(B) = Len(t) - s + 1
      /\ \A k \in 1..(Len(t) - s + 1) : B[k] = t[s + k - 1]
  BY <1>0, <1>1
<1> HIDE DEF A, B
<1>4. /\ t2 \in Seq(E) /\ Len(t2) = Len(t) + 1
      /\ \A k \in 1..(s - 1) : t2[k] = t[k]
      /\ t2[s] = e
      /\ \A k \in (s + 1)..(Len(t) + 1) : t2[k] = t[k - 1]
  <2> DEFINE C == A \o <<e>>
  <2>1. C \in Seq(E) /\ Len(C) = s
        /\ (\A k \in 1..(s - 1) : C[k] = t[k]) /\ C[s] = e
    <3> DEFINE o == <<e>>
    <3>1. o \in Seq(E) /\ Len(o) = 1 /\ o[1] = e /\ 1 \in 1..1  OBVIOUS
    <3> HIDE DEF o
    <3>2. /\ A \o o \in Seq(E) /\ Len(A \o o) = (s - 1) + 1
          /\ \A k \in 1..(s - 1) : (A \o o)[k] = A[k]
          /\ (A \o o)[(s - 1) + 1] = e
      <4>1. A \in Seq(E) /\ o \in Seq(E) /\ Len(A) = s - 1  BY <1>3, <3>1
      <4>2. /\ A \o o \in Seq(E) /\ Len(A \o o) = Len(A) + Len(o)
            /\ \A k \in 1..Len(A) : (A \o o)[k] = A[k]
        BY <4>1, Joined
      <4>3. \A k \in 1..Len(o) : (A \o o)[Len(A) + k] = o[k]
        BY <4>1, Joined
      <4> QED BY <3>1, <4>1, <4>2, <4>3
    <3>3. (s - 1) + 1 = s  BY <1>0, <1>1
    <3> QED BY <1>3, <3>2, <3>3 DEF o
  <2> HIDE DEF C
  <2>2. t2 = C \o B  BY <1>2 DEF C
  <2>3. t2 \in Seq(E) /\ Len(t2) = Len(t) + 1
    <3>0. C \o B \in Seq(E) /\ Len(C \o B) = Len(C) + Len(B)
      BY <2>1, <1>3, Joined
    <3>1. t2 \in Seq(E) /\ Len(t2) = Len(C) + Len(B)
      BY <2>2, <3>0
    <3> QED BY <3>1, <2>1, <1>0, <1>1, <1>3
  <2>4. \A k \in 1..s : t2[k] = C[k]
    <3>1. \A k \in 1..Len(C) : (C \o B)[k] = C[k]  BY <2>1, <1>3, Joined
    <3> QED BY <2>1, <2>2, <3>1
  <2>5. ASSUME NEW k \in (s + 1)..(Len(t) + 1) PROVE t2[k] = t[k - 1]
    <3>1. k - s \in 1..(Len(t) - s + 1) /\ s + (k - s) - 1 = k - 1
      BY <1>0, <1>1
    <3>2. t2[k] = B[k - s]
      <4>1. \A j \in 1..Len(B) : (C \o B)[Len(C) + j] = B[j]
        <5>1. C \in Seq(E) /\ B \in Seq(E)  BY <2>1, <1>3
        <5> QED BY <5>1, Joined
      <4>2. Len(C) + (k - s) = k /\ k - s \in 1..Len(B)  BY <2>1, <1>0, <1>1, <1>3, <3>1
      <4> QED BY <2>2, <4>1, <4>2
    <3> QED BY <3>1, <3>2, <1>3
  <2> QED BY <2>1, <2>3, <2>4, <2>5, <1>1
<1>5. Sorted(t2)
  <2> SUFFICES ASSUME NEW i \in 1..Len(t2), NEW j \in 1..Len(t2), i < j
               PROVE  name_cmp(t2[i].name, t2[j].name) < 0
    BY DEF Sorted
  <2>1. CASE j < s
    BY <2>1, <1>0, <1>1, <1>4 DEF Sorted
  <2>2. CASE j = s
    <3>1. i \in 1..Len(t) /\ i < s /\ i \in 1..(s - 1)  BY <2>2, <1>0, <1>1, <1>4
    <3>2. t2[i] = t[i] /\ t2[j] = e  BY <2>2, <3>1, <1>4
    <3> QED BY <3>1, <3>2, <1>1 DEF n
  <2>3. CASE j > s /\ i > s
    <3>1. t2[i] = t[i - 1] /\ t2[j] = t[j - 1]  BY <2>3, <1>0, <1>1, <1>4
    <3>2. i - 1 \in 1..Len(t) /\ j - 1 \in 1..Len(t) /\ i - 1 < j - 1
      BY <2>3, <1>0, <1>1, <1>4
    <3> QED BY <3>1, <3>2, <1>0 DEF Sorted
  <2>4. CASE j > s /\ i = s
    <3>0. j \in (s + 1)..(Len(t) + 1) /\ j - 1 \in 1..Len(t) /\ j - 1 >= s
      BY <2>4, <1>0, <1>1, <1>4
    <3>1. t2[i] = e /\ t2[j] = t[j - 1] /\ j - 1 \in 1..Len(t) /\ j - 1 >= s
      BY <2>4, <3>0, <1>4
    <3> QED BY <3>1, <1>1 DEF n
  <2>5. CASE j > s /\ i < s
    <3>1. /\ i \in 1..(s - 1) /\ j \in (s + 1)..(Len(t) + 1)
          /\ j - 1 \in 1..Len(t) /\ i \in 1..Len(t) /\ i < j - 1
      BY <2>5, <1>0, <1>1, <1>4
    <3>2. t2[i] = t[i] /\ t2[j] = t[j - 1]  BY <3>1, <1>4
    <3> QED BY <3>1, <3>2, <1>0 DEF Sorted
  <2> QED BY <2>1, <2>2, <2>3, <2>4, <2>5, <1>0, <1>1, <1>4
<1>6. \A k \in 1..Len(t) : \E j \in 1..Len(t2) : t2[j] = t[k]
  <2> SUFFICES ASSUME NEW k \in 1..Len(t) PROVE \E j \in 1..Len(t2) : t2[j] = t[k]
    OBVIOUS
  <2>1. CASE k < s
    <3>1. k \in 1..Len(t2) /\ t2[k] = t[k]  BY <2>1, <1>0, <1>1, <1>4
    <3> QED BY <3>1
  <2>2. CASE k >= s
    <3> DEFINE j == k + 1
    <3>0. j \in (s + 1)..(Len(t) + 1) /\ j - 1 = k /\ j \in 1..(Len(t) + 1)
      BY <2>2, <1>0, <1>1
    <3> HIDE DEF j
    <3>1. j \in 1..Len(t2) /\ t2[j] = t[k]  BY <3>0, <1>4
    <3> QED BY <3>1
  <2> QED BY <2>1, <2>2, <1>0, <1>1
<1>7. \A j \in 1..Len(t2) : t2[j] = e \/ \E k \in 1..Len(t) : t2[j] = t[k]
  <2> SUFFICES ASSUME NEW j \in 1..Len(t2), j # s PROVE \E k \in 1..Len(t) : t2[j] = t[k]
    BY <1>4
  <2>1. CASE j < s
    <3>1. j \in 1..Len(t) /\ t2[j] = t[j]  BY <2>1, <1>0, <1>1, <1>4
    <3> QED BY <3>1
  <2>2. CASE j > s
    <3>1. j - 1 \in 1..Len(t) /\ t2[j] = t[j - 1]  BY <2>2, <1>0, <1>1, <1>4
    <3> QED BY <3>1
  <2> QED BY <2>1, <2>2, <1>0, <1>1, <1>4
<1>8. s \in 1..Len(t2) /\ t2[s] = e  BY <1>0, <1>1, <1>4
<1> QED BY <1>4, <1>5, <1>6, <1>7, <1>8

-----------------------------------------------------------------------------
(* The table as a map from full names to entries. *)

Good(t) == t \in Seq(Entries) /\ Sorted(t)
At(t, n) == t[bsearch(t, n)]

LEMMA EntryType ==
    ASSUME NEW t \in Seq(Entries), NEW i \in 1..Len(t)
    PROVE  /\ t[i] \in Entries /\ t[i].name \in FullNames
           /\ t[i].value \in Contents /\ t[i].type \in Kinds
<1>1. t[i] \in Entries  OBVIOUS
<1> QED BY <1>1 DEF Entries

LEMMA AllOrdered == Ordered(FullNames) /\ Named(Entries, FullNames)
BY OrderAssumption DEF Ordered, Named, Entries

LEMMA Finds ==
    ASSUME NEW t, Good(t), NEW n \in FullNames
    PROVE  /\ bsearch(t, n) \in 0..Len(t)
           /\ bsearch(t, n) # 0 <=> Has(t, n)
           /\ Found(t, n) <=> Has(t, n)
           /\ Has(t, n) => /\ bsearch(t, n) \in 1..Len(t) /\ At(t, n).name = n
                           /\ At(t, n) \in Entries
           /\ \A i \in 1..Len(t) : t[i].name = n => bsearch(t, n) = i /\ At(t, n) = t[i]
<1>0. t \in Seq(Entries) /\ Sorted(t) /\ Len(t) \in Nat  BY DEF Good
<1>1. /\ \A k \in 1..Len(t) : t[k].name = n => bsearch(t, n) = k
      /\ ~Has(t, n) => bsearch(t, n) = 0
  BY <1>0, AllOrdered, Searched
<1>2. CASE Has(t, n)
  <2>1. PICK i \in 1..Len(t) : t[i].name = n  BY <1>2 DEF Has
  <2>2. bsearch(t, n) = i /\ i # 0 /\ i \in 0..Len(t)  BY <2>1, <1>1, <1>0
  <2>3. t[i] \in Entries  BY <1>0, <2>1, EntryType
  <2> QED BY <1>1, <1>2, <2>1, <2>2, <2>3 DEF At, Found
<1>3. CASE ~Has(t, n)
  BY <1>0, <1>1, <1>3 DEF Has, Found
<1> QED BY <1>2, <1>3

\* Two tables that agree on the names: t2 has the value v for m
Rewrites(t, t2, m, v) ==
    /\ Has(t, m)
    /\ \A n \in FullNames : Has(t2, n) <=> Has(t, n)
    /\ \A n \in FullNames : Has(t, n) =>
         At(t2, n) = IF n = m THEN [At(t, n) EXCEPT !.value = v] ELSE At(t, n)

\* t2 has one more entry
Adds(t, t2, e) ==
    /\ ~Has(t, e.name) /\ Has(t2, e.name) /\ At(t2, e.name) = e
    /\ \A n \in FullNames : Has(t2, n) <=> Has(t, n) \/ n = e.name
    /\ \A n \in FullNames : Has(t, n) => At(t2, n) = At(t, n)

LEMMA Written ==
    ASSUME NEW t, Good(t), NEW i \in 1..Len(t), NEW v \in Contents
    PROVE  /\ Good([t EXCEPT ![i].value = v])
           /\ Rewrites(t, [t EXCEPT ![i].value = v], t[i].name, v)
<1> DEFINE e == [t[i] EXCEPT !.value = v]
           t2 == [t EXCEPT ![i].value = v]
<1>0. t \in Seq(Entries) /\ Sorted(t) /\ Len(t) \in Nat  BY DEF Good
<1>1. t[i] \in Entries /\ t[i].name \in FullNames  BY <1>0, EntryType
<1>2. e \in Entries /\ e.name = t[i].name  BY <1>1 DEF Entries
<1>3. t2 = [t EXCEPT ![i] = e]  OBVIOUS
<1> HIDE DEF e
<1>4. /\ t2 \in Seq(Entries) /\ Len(t2) = Len(t)
      /\ \A k \in 1..Len(t) : t2[k] = IF k = i THEN e ELSE t[k]
  BY <1>0, <1>2, <1>3
<1> HIDE DEF t2
<1>5. \A k \in 1..Len(t) : t2[k].name = t[k].name  BY <1>2, <1>4
<1>6. Good(t2)  BY <1>0, <1>4, <1>5 DEF Good, Sorted
<1>7. \A n \in FullNames : Has(t2, n) <=> Has(t, n)
  BY <1>4, <1>5 DEF Has
<1>8. ASSUME NEW n \in FullNames, Has(t, n)
      PROVE  At(t2, n) = IF n = t[i].name THEN [At(t, n) EXCEPT !.value = v] ELSE At(t, n)
  <2>1. PICK k \in 1..Len(t) : t[k].name = n  BY <1>8 DEF Has
  <2>2. At(t, n) = t[k]  BY <2>1, Finds
  <2>3. t2[k].name = n /\ k \in 1..Len(t2)  BY <2>1, <1>4, <1>5
  <2>4. At(t2, n) = t2[k]  BY <2>3, <1>6, Finds
  <2>5. n = t[i].name => k = i
    <3>1. n = t[i].name => bsearch(t, n) = i /\ bsearch(t, n) = k  BY <2>1, Finds
    <3> QED BY <3>1
  <2> QED BY <2>1, <2>2, <2>4, <2>5, <1>4 DEF e
<1>9. Has(t, t[i].name)  BY DEF Has
<1>10. Rewrites(t, t2, t[i].name, v)
  BY <1>7, <1>8, <1>9 DEF Rewrites
<1> QED BY <1>6, <1>10 DEF t2

LEMMA Inserted ==
    ASSUME NEW t, Good(t), NEW e \in Entries, ~Has(t, e.name)
    PROVE  Good(Insert(t, e)) /\ Adds(t, Insert(t, e), e)
<1> DEFINE t2 == Insert(t, e)
<1>0. t \in Seq(Entries) /\ Sorted(t) /\ Len(t) \in Nat /\ e.name \in FullNames
  BY DEF Good, Entries
<1>1. /\ t2 \in Seq(Entries) /\ Sorted(t2)
      /\ \A k \in 1..Len(t) : \E j \in 1..Len(t2) : t2[j] = t[k]
      /\ \A j \in 1..Len(t2) : t2[j] = e \/ \E k \in 1..Len(t) : t2[j] = t[k]
      /\ \E j \in 1..Len(t2) : t2[j] = e
  BY <1>0, AllOrdered, Grown
<1> HIDE DEF t2
<1>2. Good(t2)  BY <1>1 DEF Good
<1>3. \A m \in FullNames : Has(t2, m) <=> Has(t, m) \/ m = e.name
  BY <1>1 DEF Has
<1>4. ASSUME NEW m \in FullNames, Has(t, m) PROVE At(t2, m) = At(t, m)
  <2>1. PICK k \in 1..Len(t) : t[k].name = m  BY <1>4 DEF Has
  <2>2. At(t, m) = t[k]  BY <2>1, Finds
  <2>3. PICK j \in 1..Len(t2) : t2[j] = t[k]  BY <1>1
  <2> QED BY <2>1, <2>2, <2>3, <1>2, Finds
<1>5. Has(t2, e.name) /\ At(t2, e.name) = e
  <2>1. PICK j \in 1..Len(t2) : t2[j] = e  BY <1>1
  <2> QED BY <2>1, <1>0, <1>2, Finds DEF Has
<1> QED BY <1>2, <1>3, <1>4, <1>5 DEF Adds, t2

-----------------------------------------------------------------------------
(* variable_put() and variable_get(). *)

Types == {"USER", "GLOBAL", "LOCAL", "DEFINE", "REF", "LABEL"}

LEMMA FullNameType ==
    ASSUME NEW type, NEW program \in Programs, NEW label \in Labels \cup {NoLabel},
           NEW name \in Simple \cup Elements
    PROVE  /\ FullName(type, program, label, name) \in FullNames
           /\ FullName(type, program, label, name).program = program
           /\ FullName(type, program, label, name).label = label
           /\ FullName(type, program, label, name).name = name
<1>1. (type \in {"SC", "LABEL"}) \in BOOLEAN  OBVIOUS
<1> DEFINE b == type \in {"SC", "LABEL"}
<1>2. FullName(type, program, label, name) =
        [sc |-> b, program |-> program, label |-> label, name |-> name]
  BY DEF FullName
<1> HIDE DEF b
<1>3. b \in BOOLEAN  BY <1>1 DEF b
<1> QED BY <1>2, <1>3 DEF FullNames

\* A value of the table is one of an expression or a full name
LEMMA ContentsAre ==
    /\ \A v \in Values \cup {0, 1} : Val(v) \in Contents /\ ~IsName(Val(v))
    /\ \A n \in FullNames : NameOf(n) \in Contents /\ IsName(NameOf(n)) /\ NameOf(n)[1] = n
    /\ \A c \in Contents : IsName(c) => c[1] \in FullNames /\ c = NameOf(c[1])
    /\ \A c \in Contents : c # NotFound
<1>1. \A v : Len(Val(v)) = 1 /\ Val(v) # <<>>  BY DEF Val
<1>2. \A n : Len(NameOf(n)) = 2 /\ NameOf(n) # <<>> /\ NameOf(n)[1] = n  BY DEF NameOf
<1> QED BY <1>1, <1>2 DEF Contents, IsName, NotFound

LEMMA PutNameType ==
    ASSUME NEW t, NEW p \in Places, NEW name \in Simple \cup Elements, NEW type \in Types
    PROVE  PutName(t, p, name, type) \in FullNames /\ PutName(t, p, name, type).name = name
<1>1. p.program \in Programs /\ p.label \in Labels \cup {NoLabel}  BY DEF Places
<1>2. Default \in Programs /\ NoLabel \in Labels \cup {NoLabel}  BY VariablesAssumption
<1>3. \A pr \in Programs, l \in Labels \cup {NoLabel} :
          FullName(type, pr, l, name) \in FullNames /\ FullName(type, pr, l, name).name = name
  BY FullNameType
<1>4. \E pr \in Programs, l \in Labels \cup {NoLabel} :
          PutName(t, p, name, type) = FullName(type, pr, l, name)
  BY <1>1, <1>2, Zenon DEF PutName
<1> QED BY <1>3, <1>4

\* What becomes of the table t when value is put into the entry n
PutResult(t, n, value, type, r) ==
    /\ Good(r.table) /\ r.dead \in BOOLEAN
    /\ ~Has(t, n) => /\ r.dead = FALSE
                     /\ Adds(t, r.table, [name |-> n, value |-> value, type |-> Kind(type)])
    /\ Has(t, n) =>
         /\ type = "REF" \/ At(t, n).type = "plain" =>
               r.dead = FALSE /\ Rewrites(t, r.table, n, value)
         /\ type # "REF" /\ At(t, n).type = "DEFINE" => r.dead = FALSE /\ r.table = t
         /\ type # "REF" /\ At(t, n).type = "LABEL" => r.dead = TRUE /\ r.table = t
         /\ type # "REF" /\ At(t, n).type = "REF" =>
               \/ r.dead = TRUE /\ r.table = t
               \/ \E m \in FullNames :
                    /\ At(t, n).value = NameOf(m) /\ Has(t, m)
                    /\ r.dead = FALSE /\ Rewrites(t, r.table, m, value)

LEMMA PutIs ==
    ASSUME NEW t, Good(t), NEW p \in Places, NEW name \in Simple \cup Elements,
           NEW value \in Contents, NEW type \in Types,
           NEW n, n = PutName(t, p, name, type),
           NEW r, r = variable_put(t, p, name, value, type)
    PROVE  /\ n \in FullNames /\ n.name = name
           /\ PutResult(t, n, value, type, r)
<1>0. n \in FullNames /\ n.name = name  BY PutNameType
<1> USE DEF PutResult
<1> DEFINE i == bsearch(t, n)
           entry == [name |-> n, value |-> value, type |-> Kind(type)]
<1>1. r = IF i # 0 THEN Update(t, i, value, type) ELSE Holds(Insert(t, entry))
  BY DEF variable_put
<1>2. i # 0 <=> Has(t, n)  BY <1>0, Finds
<1>3. \A x : Holds(x).table = x /\ Holds(x).dead = FALSE
             /\ Stopped(x).table = x /\ Stopped(x).dead = TRUE
  BY DEF Holds, Stopped
<1>4. CASE ~Has(t, n)
  <2>1. entry \in Entries /\ entry.name = n
    <3>1. Kind(type) \in Kinds  BY DEF Kind, Kinds
    <3> QED BY <3>1, <1>0 DEF Entries
  <2> HIDE DEF entry
  <2>2. Good(Insert(t, entry)) /\ Adds(t, Insert(t, entry), entry)
    BY <2>1, <1>4, Inserted
  <2>3. r.table = Insert(t, entry) /\ r.dead = FALSE  BY <1>1, <1>2, <1>3, <1>4
  <2>4. r.dead \in BOOLEAN  BY <2>3, Zenon
  <2> QED BY <1>0, <1>4, <2>2, <2>3, <2>4 DEF entry
<1>5. CASE Has(t, n)
  <2>1. i \in 1..Len(t) /\ t[i] = At(t, n) /\ t[i].name = n
    BY <1>0, <1>5, Finds DEF At
  <2>2. r = Update(t, i, value, type)  BY <1>1, <1>2, <1>5
  <2>3. t[i] \in Entries /\ t[i].type \in Kinds /\ t[i].value \in Contents
    BY <2>1, EntryType DEF Good
  <2> DEFINE j == IF IsName(t[i].value) THEN bsearch(t, t[i].value[1]) ELSE 0
  <2>4. /\ type = "REF" => r = Holds([t EXCEPT ![i].value = value])
        /\ type # "REF" /\ t[i].type = "REF" =>
             r = IF j = 0 THEN Stopped(t) ELSE Holds([t EXCEPT ![j].value = value])
        /\ type # "REF" /\ t[i].type = "DEFINE" => r = Holds(t)
        /\ type # "REF" /\ t[i].type = "LABEL" => r = Stopped(t)
        /\ type # "REF" /\ t[i].type = "plain" => r = Holds([t EXCEPT ![i].value = value])
    BY <2>2 DEF Update
  <2> HIDE DEF i
  <2>5. CASE r = Holds([t EXCEPT ![i].value = value]) /\ (type = "REF" \/ At(t, n).type = "plain")
    <3>1. Good(r.table) /\ Rewrites(t, r.table, n, value) /\ r.dead = FALSE
      BY <2>1, <2>5, <1>3, Written
    <3>2. r.dead \in BOOLEAN  BY <3>1, Zenon
    <3> QED BY <1>0, <1>5, <2>5, <3>1, <3>2
  <2>6. CASE type # "REF" /\ At(t, n).type \in {"DEFINE", "LABEL"}
    <3>1. r.table = t /\ r.dead = (At(t, n).type = "LABEL")
      <4>1. CASE At(t, n).type = "DEFINE"
        <5>1. r = Holds(t)  BY <2>1, <2>4, <2>6, <4>1
        <5> QED BY <5>1, <1>3, <4>1
      <4>2. CASE At(t, n).type = "LABEL"
        <5>1. r = Stopped(t)  BY <2>1, <2>4, <2>6, <4>2
        <5> QED BY <5>1, <1>3, <4>2
      <4> QED BY <4>1, <4>2, <2>6
    <3>2. r.dead \in BOOLEAN  BY <3>1, Zenon
    <3> QED BY <1>0, <1>5, <2>6, <3>1, <3>2
  <2>7. CASE type # "REF" /\ At(t, n).type = "REF"
    <3>1. CASE j = 0
      <4>1. r.table = t /\ r.dead = TRUE  BY <3>1, <2>1, <2>4, <2>7, <1>3
      <4>2. r.dead \in BOOLEAN  BY <4>1, Zenon
      <4> QED BY <1>0, <1>5, <2>7, <4>1, <4>2
    <3>2. CASE j # 0
      <4> DEFINE m == t[i].value[1]
      <4>1. IsName(t[i].value) /\ j = bsearch(t, m)  BY <3>2
      <4>2. m \in FullNames /\ t[i].value = NameOf(m)  BY <2>3, <4>1, ContentsAre
      <4> HIDE DEF m
      <4>3. Has(t, m) /\ j \in 1..Len(t) /\ t[j].name = m
        BY <3>2, <4>1, <4>2, Finds DEF At
      <4>4. r = Holds([t EXCEPT ![j].value = value])
        BY <3>2, <2>1, <2>4, <2>7
      <4> HIDE DEF j
      <4>a. /\ Good([t EXCEPT ![j].value = value])
            /\ Rewrites(t, [t EXCEPT ![j].value = value], t[j].name, value)
        BY <4>3, Written
      <4>b. r.table = [t EXCEPT ![j].value = value] /\ r.dead = FALSE  BY <4>4, <1>3
      <4>5. Good(r.table) /\ Rewrites(t, r.table, m, value) /\ r.dead = FALSE
        BY <4>3, <4>a, <4>b
      <4>6. r.dead \in BOOLEAN  BY <4>5, Zenon
      <4>7. At(t, n).value = NameOf(m)  BY <2>1, <4>2
      <4>8. \E mm \in FullNames :
              /\ At(t, n).value = NameOf(mm) /\ Has(t, mm)
              /\ r.dead = FALSE /\ Rewrites(t, r.table, mm, value)
        BY <4>2, <4>3, <4>5, <4>7
      <4> QED BY <1>0, <1>5, <2>7, <4>5, <4>6, <4>8
    <3> QED BY <3>1, <3>2
  <2>8. type = "REF" \/ At(t, n).type = "plain" =>
          r = Holds([t EXCEPT ![i].value = value])
    BY <2>1, <2>4
  <2>9. At(t, n).type \in {"plain", "DEFINE", "LABEL", "REF"}  BY <2>1, <2>3 DEF Kinds
  <2> QED BY <2>5, <2>6, <2>7, <2>8, <2>9
<1> QED BY <1>4, <1>5

\* The entry variable_get() finds: of the label, of the program, of the default
\* program
LEMMA VisibleIs ==
    ASSUME NEW t, Good(t), NEW p \in Places, NEW name \in Simple \cup Elements, NEW type,
           NEW L, L = FullName(type, p.program, p.label, name),
           NEW P, P = FullName(type, p.program, NoLabel, name),
           NEW D, D = FullName(type, Default, NoLabel, name)
    PROVE  /\ L \in FullNames /\ P \in FullNames /\ D \in FullNames
           /\ Has(t, L) => Visible(t, p, name, type) = bsearch(t, L)
           /\ ~Has(t, L) /\ Has(t, P) => Visible(t, p, name, type) = bsearch(t, P)
           /\ ~Has(t, L) /\ ~Has(t, P) /\ Has(t, D) =>
                Visible(t, p, name, type) = bsearch(t, D)
           /\ ~Has(t, L) /\ ~Has(t, P) /\ ~Has(t, D) => Visible(t, p, name, type) = 0
<1>0. /\ p.program \in Programs /\ p.label \in Labels \cup {NoLabel}
      /\ Default \in Programs /\ NoLabel \in Labels \cup {NoLabel}
  BY VariablesAssumption DEF Places
<1>1. L \in FullNames /\ P \in FullNames /\ D \in FullNames  BY <1>0, FullNameType
<1> DEFINE names == Scopes(p, name, type)
           hits == {k \in DOMAIN names : Found(t, names[k])}
<1>2. Visible(t, p, name, type) = IF hits = {} THEN 0 ELSE bsearch(t, names[Min(hits)])
  BY DEF Visible
<1>3. p.label = NoLabel => names = <<P, D>> /\ L = P
  BY DEF Scopes
<1>4. p.label # NoLabel => names = <<L, P, D>>
  BY DEF Scopes
<1>5. /\ Found(t, L) <=> Has(t, L)
      /\ Found(t, P) <=> Has(t, P)
      /\ Found(t, D) <=> Has(t, D)
  BY <1>1, Finds
<1> HIDE DEF names
<1>a. Len(<<P, D>>) = 2 /\ Len(<<L, P, D>>) = 3  OBVIOUS
<1>b. DOMAIN <<P, D>> = {1, 2} /\ DOMAIN <<L, P, D>> = {1, 2, 3}
  <2>1. 1..2 = {1, 2} /\ 1..3 = {1, 2, 3}  OBVIOUS
  <2>2. DOMAIN <<P, D>> = 1..2 /\ DOMAIN <<L, P, D>> = 1..3  OBVIOUS
  <2> QED BY <2>1, <2>2
<1>6. DOMAIN names \subseteq Nat  BY <1>3, <1>4, <1>b
<1>7. \A k \in hits : Min(hits) \in hits /\ Min(hits) <= k
  <2>1. hits \in SUBSET Nat  BY <1>6
  <2> HIDE DEF hits
  <2> QED BY <2>1, MinNat
<1>8. CASE p.label = NoLabel
  <2>1. DOMAIN names = {1, 2} /\ names[1] = P /\ names[2] = D  BY <1>3, <1>8, <1>b
  <2>2. 1 \in hits <=> Has(t, P)  BY <2>1, <1>5
  <2>3. 2 \in hits <=> Has(t, D)  BY <2>1, <1>5
  <2>4. hits \subseteq {1, 2}  BY <2>1
  <2> HIDE DEF hits
  <2>5. Has(t, P) => Min(hits) = 1
    <3>1. Has(t, P) => Min(hits) \in {1, 2} /\ Min(hits) <= 1  BY <2>2, <2>4, <1>7
    <3> QED BY <3>1
  <2>6. ~Has(t, P) /\ Has(t, D) => Min(hits) = 2  BY <2>2, <2>3, <2>4, <1>7
  <2>7. ~Has(t, P) /\ ~Has(t, D) => hits = {}  BY <2>2, <2>3, <2>4
  <2> QED BY <1>1, <1>2, <1>3, <1>8, <2>1, <2>2, <2>3, <2>5, <2>6, <2>7
<1>9. CASE p.label # NoLabel
  <2>1. DOMAIN names = {1, 2, 3} /\ names[1] = L /\ names[2] = P /\ names[3] = D
    BY <1>4, <1>9, <1>b
  <2>2. 1 \in hits <=> Has(t, L)  BY <2>1, <1>5
  <2>3. 2 \in hits <=> Has(t, P)  BY <2>1, <1>5
  <2>4. 3 \in hits <=> Has(t, D)  BY <2>1, <1>5
  <2>5. hits \subseteq {1, 2, 3}  BY <2>1
  <2> HIDE DEF hits
  <2>6. Has(t, L) => Min(hits) = 1
    <3>1. Has(t, L) => Min(hits) \in {1, 2, 3} /\ Min(hits) <= 1  BY <2>2, <2>5, <1>7
    <3> QED BY <3>1
  <2>7. ~Has(t, L) /\ Has(t, P) => Min(hits) = 2
    <3>1. ~Has(t, L) /\ Has(t, P) => Min(hits) \in {2, 3} /\ Min(hits) <= 2
      <4>1. ~Has(t, L) => hits \subseteq {2, 3}  BY <2>2, <2>5
      <4> QED BY <4>1, <2>3, <1>7
    <3> QED BY <3>1
  <2>8. ~Has(t, L) /\ ~Has(t, P) /\ Has(t, D) => Min(hits) = 3
    BY <2>2, <2>3, <2>4, <2>5, <1>7
  <2>9. ~Has(t, L) /\ ~Has(t, P) /\ ~Has(t, D) => hits = {}
    BY <2>2, <2>3, <2>4, <2>5
  <2> QED BY <1>1, <1>2, <2>1, <2>2, <2>3, <2>4, <2>6, <2>7, <2>8, <2>9
<1> QED BY <1>8, <1>9

\* What is read at the entry that was found
LEMMA GetIs ==
    ASSUME NEW t, Good(t), NEW p, NEW name, NEW n \in FullNames, Has(t, n),
           Visible(t, p, name, "USER") = bsearch(t, n)
    PROVE  /\ At(t, n).type # "REF" => variable_get(t, p, name, "USER") = At(t, n).value
           /\ \A m \in FullNames :
                At(t, n).type = "REF" /\ At(t, n).value = NameOf(m) /\ Has(t, m) =>
                  variable_get(t, p, name, "USER") = At(t, m).value
<1> DEFINE i == bsearch(t, n)
<1>1. i # 0 /\ t[i] = At(t, n)  BY Finds DEF At
<1>2. variable_get(t, p, name, "USER") =
        IF t[i].type # "REF" THEN t[i].value
        ELSE LET j == IF IsName(t[i].value) THEN bsearch(t, t[i].value[1]) ELSE 0
             IN IF j = 0 THEN NotFound ELSE t[j].value
  BY <1>1 DEF variable_get
<1> HIDE DEF i
<1>3. ASSUME NEW m \in FullNames, At(t, n).type = "REF", At(t, n).value = NameOf(m),
             Has(t, m)
      PROVE  variable_get(t, p, name, "USER") = At(t, m).value
  <2>1. IsName(t[i].value) /\ t[i].value[1] = m  BY <1>1, <1>3, ContentsAre
  <2>2. bsearch(t, m) # 0 /\ t[bsearch(t, m)] = At(t, m)  BY <1>3, Finds DEF At
  <2> QED BY <1>1, <1>2, <1>3, <2>1, <2>2
<1> QED BY <1>1, <1>2, <1>3

\* The reference to a variable
LEMMA GetRefIs ==
    ASSUME NEW t, Good(t), NEW p \in Places, NEW name \in Simple,
           variable_get(t, p, name, "REF") # NotFound
    PROVE  \E n \in FullNames : Has(t, n) /\ variable_get(t, p, name, "REF") = NameOf(n)
<1> DEFINE i == Visible(t, p, name, "REF")
           L == FullName("REF", p.program, p.label, name)
           P == FullName("REF", p.program, NoLabel, name)
           D == FullName("REF", Default, NoLabel, name)
<1>1. i # 0 /\ variable_get(t, p, name, "REF") = NameOf(t[i].name)
  BY DEF variable_get
<1>2. /\ L \in FullNames /\ P \in FullNames /\ D \in FullNames
      /\ \E n \in {L, P, D} : Has(t, n) /\ i = bsearch(t, n)
  <2> HIDE DEF i, L, P, D
  <2>1. /\ L \in FullNames /\ P \in FullNames /\ D \in FullNames
        /\ Has(t, L) => i = bsearch(t, L)
        /\ ~Has(t, L) /\ Has(t, P) => i = bsearch(t, P)
        /\ ~Has(t, L) /\ ~Has(t, P) /\ Has(t, D) => i = bsearch(t, D)
        /\ ~Has(t, L) /\ ~Has(t, P) /\ ~Has(t, D) => i = 0
    <3> USE DEF i, L, P, D
    <3>1. name \in Simple \cup Elements  OBVIOUS
    <3> QED BY <3>1, VisibleIs
  <2> QED BY <1>1, <2>1
<1> HIDE DEF i, L, P, D
<1>3. PICK n \in {L, P, D} : Has(t, n) /\ i = bsearch(t, n)  BY <1>2
<1>4. n \in FullNames /\ t[i].name = n  BY <1>2, <1>3, Finds DEF At
<1> QED BY <1>1, <1>3, <1>4

-----------------------------------------------------------------------------
(* The inductive invariant. *)

\* "define" makes variables of the program only, and elements of arrays are all
\* its work
Outside(t) ==
    \A n \in FullNames : Has(t, n) =>
        /\ n.label # NoLabel => At(t, n).type # "DEFINE"
        /\ n.name \in Elements => At(t, n).type = "DEFINE"

\* A reference names a variable that is none
Sound(t) ==
    \A n \in FullNames : Has(t, n) /\ At(t, n).type = "REF" =>
        \E m \in FullNames :
            At(t, n).value = NameOf(m) /\ Has(t, m) /\ At(t, m).type # "REF"

Args == {<<>>} \cup {NameOf(n) : n \in FullNames}
Params == {<<x>> : x \in Idents}
Calls == [back : Places, to : Places, arg : Args, param : Params]

\* The full name of a call's parameter
Param(c) == FullName("USER", c.to.program, c.to.label, c.param)

\* The statement being executed is in the label that was called last, and a
\* label was called from the one called before
InLabel ==
    /\ calls # <<>> => place = calls[Len(calls)].to
    /\ \A k \in 1..Len(calls) : k > 1 => calls[k].back = calls[k - 1].to

\* Every call in progress has its reference
Bound(t, cs) ==
    \A k \in 1..Len(cs) : cs[k].arg # <<>> =>
        /\ Has(t, Param(cs[k])) /\ At(t, Param(cs[k])).type = "REF"
        /\ At(t, Param(cs[k])).value = cs[k].arg

TypesGood ==
    /\ Good(table) /\ place \in Places /\ calls \in Seq(Calls)
    /\ dead \in BOOLEAN /\ tangled \in BOOLEAN

Core ==
    /\ TypesGood
    /\ ~dead => Outside(table)
    /\ InLabel
    /\ ~dead /\ ~tangled => Sound(table) /\ Bound(table, calls)

IInv == Core /\ LetReadsBack

-----------------------------------------------------------------------------
(* What variable_put() keeps. *)

\* Nothing is lost, and one entry at most gets another value: one that "define"
\* made only through a reference
Assigns(t, t2) ==
    /\ \A n \in FullNames : Has(t, n) => Has(t2, n)
    /\ \E m \in FullNames :
         /\ \A n \in FullNames : Has(t, n) /\ n # m => At(t2, n) = At(t, n)
         /\ Has(t, m) => At(t2, m).type = At(t, m).type
         /\ Has(t, m) /\ At(t, m).type = "DEFINE" =>
              \/ At(t2, m) = At(t, m)
              \/ \E r \in FullNames :
                   Has(t, r) /\ At(t, r).type = "REF" /\ At(t, r).value = NameOf(m)

\* References stay what they are
KeepsRefs(t, t2) ==
    \A n \in FullNames : Has(t, n) /\ At(t, n).type = "REF" =>
        Has(t2, n) /\ At(t2, n) = At(t, n)

LEMMA NamesDiffer ==
    \A name \in Simple : name \notin Elements
<1>1. \A x, y, k : <<x>> # <<y, k>>  OBVIOUS
<1> QED BY <1>1 DEF Simple, Elements

LEMMA RewriteKeeps ==
    ASSUME NEW t, NEW t2, Good(t), Good(t2), NEW m \in FullNames, NEW v \in Contents,
           Rewrites(t, t2, m, v)
    PROVE  /\ \A n \in FullNames : Has(t2, n) <=> Has(t, n)
           /\ \A n \in FullNames : Has(t, n) => At(t2, n).type = At(t, n).type
           /\ \A n \in FullNames : Has(t, n) /\ n # m => At(t2, n) = At(t, n)
           /\ At(t2, m).value = v
           /\ Outside(t) => Outside(t2)
<1>1. \A n \in FullNames : Has(t2, n) <=> Has(t, n)  BY DEF Rewrites
<1>2. \A n \in FullNames : Has(t, n) /\ n # m => At(t2, n) = At(t, n)  BY DEF Rewrites
<1>3. At(t, m) \in Entries  BY Finds DEF Rewrites
<1>4. At(t2, m) = [At(t, m) EXCEPT !.value = v]  BY DEF Rewrites
<1>5. At(t2, m).type = At(t, m).type /\ At(t2, m).value = v  BY <1>3, <1>4 DEF Entries
<1>6. \A n \in FullNames : Has(t, n) => At(t2, n).type = At(t, n).type  BY <1>2, <1>5
<1>7. Outside(t) => Outside(t2)  BY <1>1, <1>6 DEF Outside
<1> QED BY <1>1, <1>2, <1>5, <1>6, <1>7

\* A value that is written where no reference is
LEMMA RewriteSound ==
    ASSUME NEW t, NEW t2, Good(t), Good(t2), NEW m \in FullNames, NEW v \in Contents,
           Rewrites(t, t2, m, v), Sound(t), At(t, m).type # "REF"
    PROVE  Sound(t2) /\ KeepsRefs(t, t2)
<1>1. /\ \A n \in FullNames : Has(t2, n) <=> Has(t, n)
      /\ \A n \in FullNames : Has(t, n) => At(t2, n).type = At(t, n).type
      /\ \A n \in FullNames : Has(t, n) /\ n # m => At(t2, n) = At(t, n)
  BY RewriteKeeps
<1>2. KeepsRefs(t, t2)  BY <1>1 DEF KeepsRefs
<1>3. ASSUME NEW n \in FullNames, Has(t2, n), At(t2, n).type = "REF"
      PROVE  \E o \in FullNames :
               At(t2, n).value = NameOf(o) /\ Has(t2, o) /\ At(t2, o).type # "REF"
  <2>1. Has(t, n) /\ At(t, n).type = "REF" /\ At(t2, n) = At(t, n)
    BY <1>1, <1>3
  <2>2. PICK o \in FullNames :
          At(t, n).value = NameOf(o) /\ Has(t, o) /\ At(t, o).type # "REF"
    BY <2>1 DEF Sound
  <2> QED BY <1>1, <2>1, <2>2
<1> QED BY <1>2, <1>3 DEF Sound

LEMMA AddKeeps ==
    ASSUME NEW t, NEW t2, Good(t), Good(t2), NEW e \in Entries, Adds(t, t2, e)
    PROVE  /\ \A n \in FullNames : Has(t, n) => Has(t2, n) /\ At(t2, n) = At(t, n)
           /\ KeepsRefs(t, t2)
           /\ /\ Outside(t)
              /\ e.name.label # NoLabel => e.type # "DEFINE"
              /\ e.name.name \in Elements => e.type = "DEFINE"
              => Outside(t2)
           /\ /\ Sound(t)
              /\ e.type = "REF" => \E m \in FullNames :
                    e.value = NameOf(m) /\ Has(t, m) /\ At(t, m).type # "REF"
              => Sound(t2)
<1>0. e.name \in FullNames  BY DEF Entries
<1>1. \A n \in FullNames : Has(t, n) => Has(t2, n) /\ At(t2, n) = At(t, n)
  BY DEF Adds
<1>2. \A n \in FullNames : Has(t2, n) => Has(t, n) \/ (n = e.name /\ At(t2, n) = e)
  BY DEF Adds
<1>3. KeepsRefs(t, t2)  BY <1>1 DEF KeepsRefs
<1>4. ASSUME Outside(t), e.name.label # NoLabel => e.type # "DEFINE",
             e.name.name \in Elements => e.type = "DEFINE"
      PROVE  Outside(t2)
  BY <1>1, <1>2, <1>4 DEF Outside
<1>5. ASSUME Sound(t),
             e.type = "REF" => \E m \in FullNames :
                    e.value = NameOf(m) /\ Has(t, m) /\ At(t, m).type # "REF",
             NEW n \in FullNames, Has(t2, n), At(t2, n).type = "REF"
      PROVE  \E o \in FullNames :
               At(t2, n).value = NameOf(o) /\ Has(t2, o) /\ At(t2, o).type # "REF"
  <2>1. \E o \in FullNames :
          At(t2, n).value = NameOf(o) /\ Has(t, o) /\ At(t, o).type # "REF"
    <3>1. CASE Has(t, n)
      BY <1>1, <1>5, <3>1 DEF Sound
    <3>2. CASE n = e.name /\ At(t2, n) = e
      BY <1>5, <3>2
    <3> QED BY <1>2, <1>5, <3>1, <3>2
  <2> QED BY <1>1, <2>1
<1> QED BY <1>1, <1>3, <1>4, <1>5 DEF Sound

LEMMA AddAssigns ==
    ASSUME NEW t, NEW t2, NEW m \in FullNames,
           \A n \in FullNames : Has(t, n) => Has(t2, n) /\ At(t2, n) = At(t, n)
    PROVE  Assigns(t, t2)
BY DEF Assigns

\* variable_put() but for references: let, glet, local_var, define and labels
LEMMA PutKeeps ==
    ASSUME NEW t, Good(t), NEW p \in Places, NEW name \in Simple \cup Elements,
           NEW value \in Contents, NEW type \in Types \ {"REF"},
           name \in Elements => type = "DEFINE",
           NEW r, r = variable_put(t, p, name, value, type)
    PROVE  /\ Good(r.table) /\ r.dead \in BOOLEAN
           /\ Outside(t) => Outside(r.table)
           /\ Assigns(t, r.table)
           /\ Sound(t) => Sound(r.table) /\ KeepsRefs(t, r.table)
<1> DEFINE n == PutName(t, p, name, type)
           e == [name |-> n, value |-> value, type |-> Kind(type)]
           t2 == r.table
<1>1. /\ n \in FullNames /\ n.name = name
      /\ Good(t2) /\ r.dead \in BOOLEAN
      /\ ~Has(t, n) => Adds(t, t2, e)
      /\ Has(t, n) =>
           /\ At(t, n).type = "plain" => Rewrites(t, t2, n, value)
           /\ At(t, n).type \in {"DEFINE", "LABEL"} => t2 = t
           /\ At(t, n).type = "REF" =>
                 \/ t2 = t
                 \/ \E m \in FullNames :
                      /\ At(t, n).value = NameOf(m) /\ Has(t, m)
                      /\ Rewrites(t, t2, m, value)
  <2>1. type \in Types /\ type # "REF"  OBVIOUS
  <2>2. n = PutName(t, p, name, type)  OBVIOUS
  <2> HIDE DEF n
  <2>3. n \in FullNames /\ n.name = name /\ PutResult(t, n, value, type, r)
    BY <2>1, <2>2, PutIs
  <2> QED BY <2>1, <2>3 DEF PutResult
<1>2. type = "DEFINE" /\ ~Has(t, n) => n.label = NoLabel
  <2> DEFINE L == FullName(type, p.program, p.label, name)
             P == FullName(type, p.program, NoLabel, name)
  <2>1. /\ p.program \in Programs /\ p.label \in Labels \cup {NoLabel}
        /\ NoLabel \in Labels \cup {NoLabel}
    BY DEF Places
  <2>2. L \in FullNames /\ P.label = NoLabel  BY <2>1, FullNameType
  <2> HIDE DEF L, P
  <2>3. type = "DEFINE" => n = P \/ (Found(t, L) /\ n = L)
    BY DEF PutName, L, P
  <2>4. Found(t, L) => Has(t, L)  BY <2>2, Finds
  <2> HIDE DEF n
  <2> QED BY <2>2, <2>3, <2>4
<1> HIDE DEF n
<1>3. CASE ~Has(t, n)
  <2>1. Kind(type) \in Kinds /\ Kind(type) # "REF"
        /\ (Kind(type) = "DEFINE" <=> type = "DEFINE")
    BY DEF Kind, Kinds, Types
  <2>2. e \in Entries /\ e.name = n /\ e.type = Kind(type)  BY <2>1, <1>1 DEF Entries
  <2> HIDE DEF e, t2
  <2>3. Adds(t, t2, e)  BY <1>1, <1>3
  <2>4. /\ \A o \in FullNames : Has(t, o) => Has(t2, o) /\ At(t2, o) = At(t, o)
        /\ KeepsRefs(t, t2)
        /\ Outside(t) => Outside(t2)
        /\ Sound(t) => Sound(t2)
    BY <1>1, <1>2, <1>3, <2>1, <2>2, <2>3, AddKeeps
  <2>5. Assigns(t, t2)  BY <1>1, <2>4, AddAssigns
  <2> QED BY <1>1, <2>4, <2>5 DEF t2
<1>4. CASE t2 = t
  <2>1. Assigns(t, t) /\ KeepsRefs(t, t)  BY <1>1 DEF Assigns, KeepsRefs
  <2> QED BY <1>1, <1>4, <2>1
<1>5. CASE Has(t, n) /\ At(t, n).type = "plain"
  <2>1. Rewrites(t, t2, n, value)  BY <1>1, <1>5
  <2> HIDE DEF t2
  <2>2. /\ \A o \in FullNames : Has(t2, o) <=> Has(t, o)
        /\ \A o \in FullNames : Has(t, o) => At(t2, o).type = At(t, o).type
        /\ \A o \in FullNames : Has(t, o) /\ o # n => At(t2, o) = At(t, o)
        /\ Outside(t) => Outside(t2)
    BY <1>1, <2>1, RewriteKeeps
  <2>3. Assigns(t, t2)  BY <1>1, <1>5, <2>2 DEF Assigns
  <2>4. Sound(t) => Sound(t2) /\ KeepsRefs(t, t2)
    BY <1>1, <1>5, <2>1, RewriteSound
  <2> QED BY <1>1, <2>2, <2>3, <2>4 DEF t2
<1>6. ASSUME NEW m \in FullNames, Has(t, n), At(t, n).type = "REF",
             At(t, n).value = NameOf(m), Has(t, m), Rewrites(t, t2, m, value)
      PROVE  /\ Outside(t) => Outside(t2)
             /\ Assigns(t, t2)
             /\ Sound(t) => Sound(t2) /\ KeepsRefs(t, t2)
  <2> HIDE DEF t2
  <2>1. /\ \A o \in FullNames : Has(t2, o) <=> Has(t, o)
        /\ \A o \in FullNames : Has(t, o) => At(t2, o).type = At(t, o).type
        /\ \A o \in FullNames : Has(t, o) /\ o # m => At(t2, o) = At(t, o)
        /\ Outside(t) => Outside(t2)
    BY <1>1, <1>6, RewriteKeeps
  <2>2. Assigns(t, t2)
    <3>1. \E o \in FullNames :
            Has(t, o) /\ At(t, o).type = "REF" /\ At(t, o).value = NameOf(m)
      BY <1>1, <1>6
    <3> QED BY <2>1, <3>1 DEF Assigns
  <2>3. ASSUME Sound(t) PROVE Sound(t2) /\ KeepsRefs(t, t2)
    <3>1. PICK o \in FullNames :
            At(t, n).value = NameOf(o) /\ Has(t, o) /\ At(t, o).type # "REF"
      BY <1>1, <1>6, <2>3 DEF Sound
    <3>2. o = m  BY <1>6, <3>1, ContentsAre
    <3> QED BY <1>1, <1>6, <2>3, <3>1, <3>2, RewriteSound
  <2> QED BY <2>1, <2>2, <2>3
<1>7. Has(t, n) => At(t, n).type \in {"plain", "DEFINE", "LABEL", "REF"}
  BY <1>1, Finds DEF Entries, Kinds
<1>8. CASE Has(t, n) /\ At(t, n).type = "REF" /\ t2 # t
  BY <1>1, <1>6, <1>8
<1> QED BY <1>1, <1>3, <1>4, <1>5, <1>7, <1>8

\* An element of an array is new, or stays as it is
LEMMA PutElement ==
    ASSUME NEW t, Good(t), Outside(t), NEW p \in Places, NEW name \in Elements,
           NEW value \in Contents,
           NEW r, r = variable_put(t, p, name, value, "DEFINE")
    PROVE  /\ r.dead = FALSE /\ Good(r.table) /\ Outside(r.table)
           /\ \A n \in FullNames : Has(t, n) => Has(r.table, n) /\ At(r.table, n) = At(t, n)
           /\ Sound(t) => Sound(r.table)
<1> DEFINE n == PutName(t, p, name, "DEFINE")
<1>1. "DEFINE" \in Types \ {"REF"} /\ "DEFINE" \in Types /\ name \in Simple \cup Elements
  BY DEF Types
<1>2. n \in FullNames /\ n.name = name /\ PutResult(t, n, value, "DEFINE", r)
  BY <1>1, PutIs
<1>3. Good(r.table) /\ (Outside(t) => Outside(r.table)) /\ (Sound(t) => Sound(r.table))
  BY <1>1, PutKeeps
<1> HIDE DEF n
<1>4. CASE Has(t, n)
  <2>1. At(t, n).type = "DEFINE"  BY <1>2, <1>4 DEF Outside
  <2>2. r.dead = FALSE /\ r.table = t  BY <1>2, <1>4, <2>1 DEF PutResult
  <2> QED BY <1>2, <1>3, <2>2
<1>5. CASE ~Has(t, n)
  <2> DEFINE e == [name |-> n, value |-> value, type |-> Kind("DEFINE")]
  <2>1. r.dead = FALSE /\ Adds(t, r.table, e)  BY <1>2, <1>5 DEF PutResult
  <2>2. \A o \in FullNames : Has(t, o) => Has(r.table, o) /\ At(r.table, o) = At(t, o)
    BY <2>1 DEF Adds
  <2> QED BY <1>2, <1>3, <2>1, <2>2
<1> QED BY <1>4, <1>5

LEMMA PutBothKeeps ==
    ASSUME NEW t, Good(t), Outside(t), NEW p \in Places, NEW m \in Elements,
           NEW n \in Elements, NEW v \in Contents, NEW w \in Contents,
           NEW r, r = PutBoth(t, p, m, v, n, w)
    PROVE  /\ Good(r.table) /\ r.dead = FALSE /\ Outside(r.table)
           /\ Assigns(t, r.table)
           /\ Sound(t) => Sound(r.table) /\ KeepsRefs(t, r.table)
<1> DEFINE q == variable_put(t, p, m, v, "DEFINE")
<1>1. /\ q.dead = FALSE /\ Good(q.table) /\ Outside(q.table)
      /\ \A o \in FullNames : Has(t, o) => Has(q.table, o) /\ At(q.table, o) = At(t, o)
      /\ Sound(t) => Sound(q.table)
  BY PutElement
<1>2. r = variable_put(q.table, p, n, w, "DEFINE")  BY <1>1 DEF PutBoth
<1> DEFINE t1 == q.table
<1>a. Good(t1) /\ Outside(t1) /\ r = variable_put(t1, p, n, w, "DEFINE")  BY <1>1, <1>2
<1>b. /\ \A o \in FullNames : Has(t, o) => Has(t1, o) /\ At(t1, o) = At(t, o)
      /\ Sound(t) => Sound(t1)
  BY <1>1
<1> HIDE DEF q, t1
<1>3. /\ r.dead = FALSE /\ Good(r.table) /\ Outside(r.table)
      /\ \A o \in FullNames : Has(t1, o) => Has(r.table, o) /\ At(r.table, o) = At(t1, o)
      /\ Sound(t1) => Sound(r.table)
  BY <1>a, PutElement
<1>4. \A o \in FullNames : Has(t, o) => Has(r.table, o) /\ At(r.table, o) = At(t, o)
  BY <1>b, <1>3
<1>c. \E o : o \in FullNames
  <2>1. "DEFINE" \in Types /\ m \in Simple \cup Elements  BY DEF Types
  <2> QED BY <2>1, PutNameType
<1>5. Assigns(t, r.table)  BY <1>c, <1>4, AddAssigns
<1>6. KeepsRefs(t, r.table)  BY <1>4 DEF KeepsRefs
<1> QED BY <1>b, <1>3, <1>5, <1>6

\* The full name a reference of the label has
LEMMA RefName ==
    ASSUME NEW t, t # <<>>, NEW p, NEW name, NEW type \in {"LOCAL", "REF"}
    PROVE  PutName(t, p, name, type) = FullName("USER", p.program, p.label, name)
<1>1. PutName(t, p, name, type) = FullName(type, p.program, p.label, name)
  BY DEF PutName
<1>2. FullName(type, p.program, p.label, name) = FullName("USER", p.program, p.label, name)
  <2>1. (type \in {"SC", "LABEL"}) = FALSE /\ ("USER" \in {"SC", "LABEL"}) = FALSE
    OBVIOUS
  <2> QED BY <2>1, Zenon DEF FullName
<1> QED BY <1>1, <1>2

LEMMA HasSome ==
    ASSUME NEW t, Good(t), NEW n \in FullNames, Has(t, n)
    PROVE  t # <<>>
<1>1. Len(<<>>) = 0  OBVIOUS
<1> QED BY <1>1 DEF Has

\* What becomes of the table t when gosub makes n a reference to m
RefResult(t, n, m, r) ==
    /\ Good(r.table) /\ r.dead = FALSE /\ Outside(r.table)
    /\ Assigns(t, r.table)
    /\ /\ Sound(t) /\ At(t, m).type # "REF"
       /\ Has(t, n) => At(t, n).type = "REF"
       => /\ Sound(r.table) /\ Has(r.table, n) /\ At(r.table, n).type = "REF"
          /\ At(r.table, n).value = NameOf(m)
          /\ \A o \in FullNames : o # n /\ Has(t, o) =>
                Has(r.table, o) /\ At(r.table, o) = At(t, o)

LEMMA PutRef ==
    ASSUME NEW t, Good(t), Outside(t), NEW p \in Places, p.label \in Labels,
           NEW name \in Params, NEW m \in FullNames, Has(t, m),
           NEW n, n = FullName("USER", p.program, p.label, name),
           NEW r, r = variable_put(t, p, name, NameOf(m), "REF")
    PROVE  n \in FullNames /\ RefResult(t, n, m, r)
<1> USE DEF RefResult
<1>1. name \in Simple /\ name \in Simple \cup Elements /\ name \notin Elements
  <2>1. name \in Simple  BY DEF Params, Simple
  <2> QED BY <2>1, NamesDiffer
<1>2. NameOf(m) \in Contents  BY ContentsAre
<1>3. n = PutName(t, p, name, "REF")  BY HasSome, RefName
<1>4. "REF" \in Types /\ Kind("REF") = "REF" /\ "REF" \in Kinds  BY DEF Types, Kind, Kinds
<1>5. n \in FullNames /\ n.name = name /\ PutResult(t, n, NameOf(m), "REF", r)
  BY <1>1, <1>2, <1>3, <1>4, PutIs
<1>6. n.label # NoLabel
  <2>1. n.label = p.label
    <3>1. p.program \in Programs /\ p.label \in Labels \cup {NoLabel}  BY DEF Places
    <3> QED BY <3>1, <1>1, FullNameType
  <2> QED BY <2>1, VariablesAssumption
<1> DEFINE t2 == r.table
           v == NameOf(m)
<1>7. CASE Has(t, n)
  <2>1. r.dead = FALSE /\ Good(t2) /\ Rewrites(t, t2, n, v)
    BY <1>5, <1>7 DEF PutResult
  <2> HIDE DEF t2
  <2>2. /\ \A o \in FullNames : Has(t2, o) <=> Has(t, o)
        /\ \A o \in FullNames : Has(t, o) => At(t2, o).type = At(t, o).type
        /\ \A o \in FullNames : Has(t, o) /\ o # n => At(t2, o) = At(t, o)
        /\ At(t2, n).value = v
        /\ Outside(t2)
    BY <1>2, <1>5, <2>1, RewriteKeeps
  <2>3. At(t, n).type # "DEFINE"  BY <1>5, <1>6, <1>7 DEF Outside
  <2>4. Assigns(t, t2)  BY <1>5, <2>2, <2>3 DEF Assigns
  <2>5. ASSUME Sound(t), At(t, m).type # "REF", At(t, n).type = "REF"
        PROVE  Sound(t2)
    <3> SUFFICES ASSUME NEW o \in FullNames, Has(t2, o), At(t2, o).type = "REF"
                 PROVE  \E q \in FullNames :
                          /\ At(t2, o).value = NameOf(q)
                          /\ Has(t2, q) /\ At(t2, q).type # "REF"
      BY DEF Sound
    <3>1. CASE o = n
      BY <2>2, <2>5, <3>1
    <3>2. CASE o # n
      <4>1. Has(t, o) /\ At(t, o).type = "REF" /\ At(t2, o) = At(t, o)  BY <2>2, <3>2
      <4>2. PICK q \in FullNames :
              At(t, o).value = NameOf(q) /\ Has(t, q) /\ At(t, q).type # "REF"
        BY <2>5, <4>1 DEF Sound
      <4> QED BY <2>2, <4>1, <4>2
    <3> QED BY <3>1, <3>2
  <2>6. At(t, n).type = "REF" => Has(t2, n) /\ At(t2, n).type = "REF"
    BY <1>5, <1>7, <2>2
  <2> QED BY <1>5, <1>7, <2>1, <2>2, <2>4, <2>5, <2>6 DEF t2
<1>8. CASE ~Has(t, n)
  <2> DEFINE e == [name |-> n, value |-> v, type |-> Kind("REF")]
  <2>1. r.dead = FALSE /\ Good(t2) /\ Adds(t, t2, e)
    BY <1>5, <1>8 DEF PutResult
  <2>2. e \in Entries /\ e.name = n /\ e.value = v /\ e.type = "REF"
    BY <1>2, <1>4, <1>5 DEF Entries
  <2> HIDE DEF e, t2, v
  <2>3. /\ \A o \in FullNames : Has(t, o) => Has(t2, o) /\ At(t2, o) = At(t, o)
        /\ Outside(t2)
        /\ Sound(t) /\ At(t, m).type # "REF" => Sound(t2)
    <3>1. \E q \in FullNames : e.value = NameOf(q) /\ (At(t, m).type # "REF" =>
              Has(t, q) /\ At(t, q).type # "REF")
      BY <2>2 DEF v
    <3>2. /\ e.name.label # NoLabel => e.type # "DEFINE"
          /\ e.name.name \in Elements => e.type = "DEFINE"
      BY <1>1, <1>5, <2>2
    <3> QED BY <2>1, <2>2, <3>1, <3>2, AddKeeps
  <2>4. Assigns(t, t2)  BY <1>5, <2>3, AddAssigns
  <2>5. Has(t2, n) /\ At(t2, n) = e  BY <2>1, <2>2 DEF Adds
  <2> QED BY <1>5, <1>8, <2>1, <2>2, <2>3, <2>4, <2>5 DEF t2, v
<1> QED BY <1>7, <1>8

\* What LetReadsBack says, of a table and a place
ReadsBack(t, p, name, v) ==
    LET i == Visible(t, p, name, "USER") IN
    \/ variable_get(t, p, name, "USER") = v
    \/ i # 0 /\ t[i].type = "DEFINE"

\* What let and local_var have put is what is read at the same place
LEMMA ReadBack ==
    ASSUME NEW t, Good(t), Sound(t), NEW p \in Places, NEW name \in Params,
           NEW v \in Contents, NEW type \in {"USER", "LOCAL"},
           NEW r, r = variable_put(t, p, name, v, type), r.dead = FALSE
    PROVE  ReadsBack(r.table, p, name, v)
<1> DEFINE i == Visible(r.table, p, name, "USER")
<1> SUFFICES \/ variable_get(r.table, p, name, "USER") = v
             \/ i # 0 /\ r.table[i].type = "DEFINE"
  BY DEF ReadsBack
<1> DEFINE n == PutName(t, p, name, type)
           L == FullName("USER", p.program, p.label, name)
           P == FullName("USER", p.program, NoLabel, name)
           t2 == r.table
<1>1. type \in Types /\ type # "REF" /\ name \in Simple \cup Elements
  BY DEF Types, Params, Simple
<1>2. n \in FullNames /\ PutResult(t, n, v, type, r)
  BY <1>1, PutIs
<1>3. /\ p.program \in Programs /\ p.label \in Labels \cup {NoLabel}
      /\ NoLabel \in Labels \cup {NoLabel}
  BY DEF Places
<1>4. L \in FullNames /\ P \in FullNames  BY <1>1, <1>3, FullNameType
<1>5. n = L \/ (n = P /\ ~Has(t, L))
  <2>1. \A l : FullName(type, p.program, l, name) = FullName("USER", p.program, l, name)
    <3>1. (type \in {"SC", "LABEL"}) = FALSE /\ ("USER" \in {"SC", "LABEL"}) = FALSE
      OBVIOUS
    <3> QED BY <3>1, Zenon DEF FullName
  <2>2. t = <<>> => ~Has(t, L)  BY <1>4, HasSome
  <2>3. Found(t, L) <=> Has(t, L)  BY <1>4, Finds
  <2> HIDE DEF L, P
  <2>4. FullName(type, p.program, p.label, name) = L /\ FullName(type, p.program, NoLabel, name) = P
    BY <2>1 DEF L, P
  <2>5. n = IF t = <<>> THEN P ELSE IF type = "LOCAL" \/ Found(t, L) THEN L ELSE P
    BY <2>4 DEF PutName
  <2> HIDE DEF n
  <2> QED BY <2>2, <2>3, <2>5
<1> HIDE DEF n
<1>6. CASE ~Has(t, n)
  <2> DEFINE e == [name |-> n, value |-> v, type |-> Kind(type)]
  <2>1. Good(t2) /\ Adds(t, t2, e)  BY <1>2, <1>6 DEF PutResult
  <2>2. e.name = n /\ e.value = v /\ e.type = "plain"  BY <1>1 DEF Kind, Kinds
  <2> HIDE DEF e, t2, L, P
  <2>3. Has(t2, n) /\ At(t2, n).type # "REF" /\ At(t2, n).value = v
    BY <2>1, <2>2 DEF Adds
  <2>4. n = L \/ ~Has(t2, L)  BY <1>4, <1>5, <2>1, <2>2 DEF Adds
  <2>5. Visible(t2, p, name, "USER") = bsearch(t2, n)
    BY <1>1, <1>5, <2>1, <2>3, <2>4, VisibleIs DEF L, P
  <2>6. variable_get(t2, p, name, "USER") = v  BY <1>2, <2>1, <2>3, <2>5, GetIs
  <2> QED BY <2>6 DEF t2
<1>7. CASE Has(t, n)
  <2>1. At(t, n).type \in {"plain", "DEFINE", "LABEL", "REF"}
    BY <1>2, <1>7, Finds DEF Entries, Kinds
  <2>2. ASSUME Good(t2), Has(t2, n), \A o \in FullNames : Has(t2, o) <=> Has(t, o)
        PROVE  Visible(t2, p, name, "USER") = bsearch(t2, n)
    <3> HIDE DEF L, P, t2
    <3>1. n = L \/ (n = P /\ ~Has(t2, L))  BY <1>4, <1>5, <2>2
    <3> QED BY <1>1, <2>2, <3>1, VisibleIs DEF L, P
  <2>3. CASE At(t, n).type = "DEFINE"
    <3>1. t2 = t  BY <1>1, <1>2, <1>7, <2>3 DEF PutResult
    <3>2. i = bsearch(t, n)  BY <1>7, <2>2, <3>1
    <3>3. i # 0 /\ t[i] = At(t, n)  BY <1>2, <1>7, <3>2, Finds DEF At
    <3> QED BY <2>3, <3>1, <3>3
  <2>4. CASE At(t, n).type = "plain"
    <3>1. Good(t2) /\ Rewrites(t, t2, n, v)  BY <1>1, <1>2, <1>7, <2>4 DEF PutResult
    <3> HIDE DEF t2
    <3>2. /\ \A o \in FullNames : Has(t2, o) <=> Has(t, o)
          /\ At(t2, n).type = "plain" /\ At(t2, n).value = v
      BY <1>2, <1>7, <2>4, <3>1, RewriteKeeps
    <3>3. Has(t2, n) /\ Visible(t2, p, name, "USER") = bsearch(t2, n)
      BY <1>2, <1>7, <2>2, <3>1, <3>2
    <3>4. variable_get(t2, p, name, "USER") = v  BY <1>2, <3>1, <3>2, <3>3, GetIs
    <3> QED BY <3>4 DEF t2
  <2>5. CASE At(t, n).type = "REF"
    <3>1. Good(t2) /\ \E m \in FullNames : /\ At(t, n).value = NameOf(m) /\ Has(t, m)
                                          /\ Rewrites(t, t2, m, v)
      BY <1>1, <1>2, <1>7, <2>5 DEF PutResult
    <3> HIDE DEF t2
    <3>2. PICK m \in FullNames : /\ At(t, n).value = NameOf(m) /\ Has(t, m)
                                 /\ Rewrites(t, t2, m, v)
      BY <3>1
    <3>3. PICK o \in FullNames :
            At(t, n).value = NameOf(o) /\ Has(t, o) /\ At(t, o).type # "REF"
      BY <1>2, <1>7, <2>5 DEF Sound
    <3>4. o = m
      <4>1. NameOf(o) = NameOf(m)  BY <3>2, <3>3
      <4>2. NameOf(o)[1] = o /\ NameOf(m)[1] = m  BY ContentsAre
      <4> QED BY <4>1, <4>2
    <3>5. m # n  BY <2>5, <3>3, <3>4
    <3>6. /\ \A q \in FullNames : Has(t2, q) <=> Has(t, q)
          /\ At(t2, n) = At(t, n) /\ At(t2, m).value = v
      BY <1>2, <1>7, <3>1, <3>2, <3>5, RewriteKeeps
    <3>7. Has(t2, n) /\ Has(t2, m) /\ Visible(t2, p, name, "USER") = bsearch(t2, n)
      BY <1>2, <1>7, <2>2, <3>1, <3>2, <3>6
    <3>8. variable_get(t2, p, name, "USER") = v
      BY <1>2, <2>5, <3>1, <3>2, <3>6, <3>7, GetIs
    <3> QED BY <3>8 DEF t2
  <2>6. CASE At(t, n).type = "LABEL"
    BY <1>1, <1>2, <1>7, <2>6 DEF PutResult
  <2> QED BY <2>1, <2>3, <2>4, <2>5, <2>6
<1> QED BY <1>6, <1>7

-----------------------------------------------------------------------------
(* The invariant holds at first, and every statement keeps it. *)

LEMMA EmptyTable ==
    /\ Good(<<>>) /\ \A n : ~Has(<<>>, n)
    /\ Outside(<<>>) /\ Sound(<<>>)
    /\ \A t : Bound(t, <<>>)
<1>1. Len(<<>>) = 0 /\ 1..0 = {}  OBVIOUS
<1>2. \A n : ~Has(<<>>, n)  BY <1>1 DEF Has
<1>3. Good(<<>>)  BY <1>1 DEF Good, Sorted
<1>4. Outside(<<>>) /\ Sound(<<>>)  BY <1>2 DEF Outside, Sound
<1>5. \A t : Bound(t, <<>>)  BY <1>1 DEF Bound
<1> QED BY <1>2, <1>3, <1>4, <1>5

LEMMA CallType ==
    ASSUME NEW c \in Calls
    PROVE  /\ c.back \in Places /\ c.to \in Places /\ c.arg \in Args /\ c.param \in Params
           /\ Param(c) \in FullNames
<1>1. c.back \in Places /\ c.to \in Places /\ c.arg \in Args /\ c.param \in Params
  BY DEF Calls
<1>2. c.to.program \in Programs /\ c.to.label \in Labels \cup {NoLabel}
  BY <1>1 DEF Places
<1>3. c.param \in Simple \cup Elements  BY <1>1 DEF Params, Simple
<1>4. Param(c) \in FullNames  BY <1>2, <1>3, FullNameType DEF Param
<1> QED BY <1>1, <1>4

\* The parameters of two labels have two names
LEMMA ParamOf ==
    ASSUME NEW c \in Calls, NEW p \in Places, NEW name \in Params,
           Param(c) = FullName("USER", p.program, p.label, name)
    PROVE  c.to = p /\ c.param = name
<1>1. c.to \in Places /\ c.param \in Params  BY CallType
<1>2. c.to.program = p.program /\ c.to.label = p.label /\ c.param = name
  <2>1. \A pr, l, n : /\ FullName("USER", pr, l, n).program = pr
                      /\ FullName("USER", pr, l, n).label = l
                      /\ FullName("USER", pr, l, n).name = n
    BY DEF FullName
  <2> QED BY <2>1 DEF Param
<1>3. c.to = p  BY <1>1, <1>2 DEF Places
<1> QED BY <1>2, <1>3

LEMMA BoundStays ==
    ASSUME NEW t, NEW t2, NEW cs \in Seq(Calls), Bound(t, cs), KeepsRefs(t, t2)
    PROVE  Bound(t2, cs)
<1> SUFFICES ASSUME NEW k \in 1..Len(cs), cs[k].arg # <<>>
             PROVE  /\ Has(t2, Param(cs[k])) /\ At(t2, Param(cs[k])).type = "REF"
                    /\ At(t2, Param(cs[k])).value = cs[k].arg
  BY DEF Bound
<1>1. cs[k] \in Calls  OBVIOUS
<1>2. Param(cs[k]) \in FullNames  BY <1>1, CallType
<1>3. /\ Has(t, Param(cs[k])) /\ At(t, Param(cs[k])).type = "REF"
      /\ At(t, Param(cs[k])).value = cs[k].arg
  BY DEF Bound
<1> QED BY <1>2, <1>3 DEF KeepsRefs

LEMMA NamesTyped ==
    /\ \A x \in Idents : <<x>> \in Params /\ <<x>> \in Simple /\ <<x>> \notin Elements
    /\ \A l \in Labels : <<l>> \in Simple /\ <<l>> \notin Elements
    /\ \A x \in Arrays, k \in Values \cup {0, 1} : <<x, k>> \in Elements
    /\ \A v \in Values : Val(v) \in Contents
    /\ Val(0) \in Contents /\ Val(1) \in Contents
<1>1. \A x \in Idents : <<x>> \in Params /\ <<x>> \in Simple  BY DEF Params, Simple
<1>2. \A l \in Labels : <<l>> \in Simple  BY DEF Simple
<1>3. \A x \in Arrays, k \in Values \cup {0, 1} : <<x, k>> \in Elements  BY DEF Elements
<1> QED BY <1>1, <1>2, <1>3, NamesDiffer, ContentsAre

\* A statement that changes the table and stays in its label
LEMMA CoreStays ==
    ASSUME Core, ~dead, UNCHANGED <<place, calls, tangled>>,
           Good(table'), dead' \in BOOLEAN, Outside(table'),
           Sound(table) => Sound(table') /\ KeepsRefs(table, table')
    PROVE  Core'
<1>1. TypesGood'  BY DEF Core, TypesGood
<1>2. InLabel'  BY DEF Core, InLabel
<1>3. ~tangled' => Sound(table') /\ Bound(table', calls')
  <2>1. calls \in Seq(Calls)  BY DEF Core, TypesGood
  <2> QED BY <2>1, BoundStays DEF Core
<1> QED BY <1>1, <1>2, <1>3 DEF Core

LEMMA CorePut ==
    ASSUME Core, ~dead, UNCHANGED <<place, calls, tangled>>,
           NEW name \in Simple, NEW v \in Contents, NEW type \in Types \ {"REF"},
           Becomes(variable_put(table, place, name, v, type))
    PROVE  Core'
<1> DEFINE r == variable_put(table, place, name, v, type)
<1>1. Good(table) /\ place \in Places /\ Outside(table)  BY DEF Core, TypesGood
<1>2. table' = r.table /\ dead' = r.dead  BY DEF Becomes
<1>3. name \in Simple \cup Elements /\ name \notin Elements  BY NamesDiffer
<1>4. /\ Good(r.table) /\ r.dead \in BOOLEAN
      /\ Outside(table) => Outside(r.table)
      /\ Sound(table) => Sound(r.table) /\ KeepsRefs(table, r.table)
  BY <1>1, <1>3, PutKeeps
<1> QED BY <1>1, <1>2, <1>4, CoreStays

LEMMA CoreBoth ==
    ASSUME Core, ~dead, UNCHANGED <<place, calls, tangled>>,
           NEW m \in Elements, NEW n \in Elements, NEW v \in Contents, NEW w \in Contents,
           Becomes(PutBoth(table, place, m, v, n, w))
    PROVE  Core'
<1> DEFINE r == PutBoth(table, place, m, v, n, w)
<1>1. Good(table) /\ place \in Places /\ Outside(table)  BY DEF Core, TypesGood
<1>2. table' = r.table /\ dead' = r.dead  BY DEF Becomes
<1>3. /\ Good(r.table) /\ r.dead = FALSE /\ Outside(r.table)
      /\ Sound(table) => Sound(r.table) /\ KeepsRefs(table, r.table)
  BY <1>1, PutBothKeeps
<1>4. dead' \in BOOLEAN  BY <1>2, <1>3, Zenon
<1> QED BY <1>1, <1>2, <1>3, <1>4, CoreStays

\* What a call adds to the calls in progress
LEMMA CoreCalls ==
    ASSUME TypesGood, InLabel, NEW l \in Labels, NEW arg \in Args, NEW name \in Params,
           place' = [place EXCEPT !.label = l],
           calls' = Append(calls, [back |-> place, to |-> place', arg |-> arg,
                                   param |-> name])
    PROVE  /\ place' \in Places /\ place'.label = l /\ calls' \in Seq(Calls) /\ InLabel'
           /\ Len(calls') = Len(calls) + 1
           /\ \A k \in 1..Len(calls) : calls'[k] = calls[k]
           /\ calls'[Len(calls) + 1].arg = arg
           /\ Param(calls'[Len(calls) + 1]) =
                FullName("USER", place'.program, place'.label, name)
<1> DEFINE c == [back |-> place, to |-> place', arg |-> arg, param |-> name]
<1>1. place \in Places /\ calls \in Seq(Calls) /\ Len(calls) \in Nat  BY DEF TypesGood
<1>2. place' \in Places /\ place'.label = l  BY <1>1 DEF Places
<1>3. c \in Calls  BY <1>1, <1>2 DEF Calls
<1>4. c.back = place /\ c.to = place' /\ c.arg = arg /\ c.param = name  OBVIOUS
<1>5. calls' = Append(calls, c)  OBVIOUS
<1> HIDE DEF c
<1>6. /\ calls' \in Seq(Calls) /\ Len(calls') = Len(calls) + 1
      /\ \A k \in 1..Len(calls) : calls'[k] = calls[k]
      /\ calls'[Len(calls) + 1] = c
  BY <1>1, <1>3, <1>5
<1>7. InLabel'
  <2>1. place' = calls'[Len(calls')].to  BY <1>4, <1>6
  <2>2. ASSUME NEW k \in 1..Len(calls'), k > 1 PROVE calls'[k].back = calls'[k - 1].to
    <3>1. CASE k \in 1..Len(calls)
      <4>1. k - 1 \in 1..Len(calls)  BY <1>1, <2>2, <3>1
      <4> QED BY <1>6, <2>2, <3>1, <4>1 DEF InLabel
    <3>2. CASE k = Len(calls) + 1
      <4>1. Len(calls) \in 1..Len(calls) /\ calls # <<>> /\ k - 1 = Len(calls)
        BY <1>1, <2>2, <3>2
      <4>2. calls'[k - 1].to = place  BY <1>6, <4>1 DEF InLabel
      <4> QED BY <1>4, <1>6, <3>2, <4>2
    <3> QED BY <1>1, <1>6, <2>2, <3>1, <3>2
  <2> QED BY <2>1, <2>2 DEF InLabel
<1>8. Param(c) = FullName("USER", place'.program, place'.label, name)
  BY <1>4 DEF Param
<1> QED BY <1>2, <1>4, <1>6, <1>7, <1>8

LEMMA BeforeIs ==
    ASSUME TypesGood, NEW p \in Places, NEW x \in Idents,
           NEW n, n = FullName("USER", p.program, p.label, <<x>>)
    PROVE  /\ n \in FullNames
           /\ Before(p, x) = bsearch(table, n)
           /\ Before(p, x) # 0 <=> Has(table, n)
           /\ Has(table, n) => table[Before(p, x)] = At(table, n)
<1>1. Before(p, x) = bsearch(table, n)
  <2>1. ("LOCAL" \in {"SC", "LABEL"}) = FALSE /\ ("USER" \in {"SC", "LABEL"}) = FALSE
    OBVIOUS
  <2>2. FullName("LOCAL", p.program, p.label, <<x>>) = n  BY <2>1, Zenon DEF FullName
  <2> QED BY <2>2 DEF Before
<1>2. n \in FullNames
  <2>1. p.program \in Programs /\ p.label \in Labels \cup {NoLabel}  BY DEF Places
  <2>2. <<x>> \in Simple \cup Elements  BY NamesTyped
  <2> QED BY <2>1, <2>2, FullNameType
<1>3. Good(table)  BY DEF TypesGood
<1> QED BY <1>1, <1>2, <1>3, Finds DEF At

LEMMA GosubValueCore ==
    ASSUME Core, GosubValue
    PROVE  Core'
<1>1. TypesGood /\ InLabel /\ Good(table) /\ Outside(table) /\ calls \in Seq(Calls)
      /\ tangled \in BOOLEAN /\ Len(calls) \in Nat
  BY DEF Core, TypesGood, GosubValue, Runs
<1>2. PICK l \in Labels, x \in Idents, v \in Values :
        LET there == [place EXCEPT !.label = l]
            i == Before(there, x)
        IN /\ place' = there
           /\ Becomes(IF QueueFits
                      THEN variable_put(table, there, <<x>>, Val(v), "LOCAL")
                      ELSE Stopped(table))
           /\ tangled' = (tangled \/ (i # 0 /\ table[i].type = "REF"))
           /\ calls' = Append(calls, [back |-> place, to |-> there, arg |-> <<>>,
                                      param |-> <<x>>])
           /\ wrote' = [name |-> <<x>>, value |-> Val(v)]
  BY DEF GosubValue
<1>3. <<x>> \in Params /\ <<x>> \in Simple \cup Elements /\ <<x>> \notin Elements
      /\ Val(v) \in Contents /\ <<>> \in Args
  BY NamesTyped DEF Args
<1>4. /\ place' = [place EXCEPT !.label = l]
      /\ calls' = Append(calls, [back |-> place, to |-> place', arg |-> <<>>,
                                 param |-> <<x>>])
  BY <1>2
<1>5. /\ place' \in Places /\ calls' \in Seq(Calls) /\ InLabel'
      /\ Len(calls') = Len(calls) + 1
      /\ \A k \in 1..Len(calls) : calls'[k] = calls[k]
      /\ calls'[Len(calls) + 1].arg = <<>>
  BY <1>1, <1>3, <1>4, CoreCalls
<1>6. tangled' \in BOOLEAN /\ (~tangled' => ~tangled)
  <2>1. \E b \in BOOLEAN : tangled' = (tangled \/ b)  BY <1>2, Zenon
  <2> QED BY <2>1, <1>1, Zenon
<1>7. /\ Good(table') /\ dead' \in BOOLEAN
      /\ Outside(table')
      /\ Sound(table) => Sound(table') /\ KeepsRefs(table, table')
  <2>1. CASE QueueFits
    <3> DEFINE r == variable_put(table, place', <<x>>, Val(v), "LOCAL")
    <3>1. table' = r.table /\ dead' = r.dead  BY <1>2, <2>1 DEF Becomes
    <3>2. "LOCAL" \in Types \ {"REF"}  BY DEF Types
    <3> QED BY <1>1, <1>3, <1>5, <3>1, <3>2, PutKeeps
  <2>2. CASE ~QueueFits
    <3>1. table' = table /\ dead' = TRUE  BY <1>2, <2>2 DEF Becomes, Stopped
    <3>2. dead' \in BOOLEAN  BY <3>1, Zenon
    <3> QED BY <1>1, <3>1, <3>2 DEF KeepsRefs
  <2> QED BY <2>1, <2>2
<1>8. ASSUME ~tangled' PROVE Sound(table') /\ Bound(table', calls')
  <2>1. Sound(table) /\ Bound(table, calls)
    BY <1>6, <1>8 DEF Core, GosubValue, Runs
  <2>2. Sound(table') /\ Bound(table', calls)  BY <1>1, <1>7, <2>1, BoundStays
  <2>3. Bound(table', calls')
    <3> SUFFICES ASSUME NEW k \in 1..Len(calls'), calls'[k].arg # <<>>
                 PROVE  k \in 1..Len(calls) /\ calls'[k] = calls[k]
      BY <2>2 DEF Bound
    <3> QED BY <1>1, <1>5
  <2> QED BY <2>2, <2>3
<1>9. TypesGood'  BY <1>5, <1>6, <1>7 DEF TypesGood
<1> QED BY <1>5, <1>7, <1>8, <1>9 DEF Core

LEMMA GosubRefCore ==
    ASSUME Core, GosubRef
    PROVE  Core'
<1>1. TypesGood /\ InLabel /\ Good(table) /\ Outside(table) /\ calls \in Seq(Calls)
      /\ tangled \in BOOLEAN /\ Len(calls) \in Nat /\ place \in Places
  BY DEF Core, TypesGood, GosubRef, Runs
<1>2. PICK l \in Labels, x \in Idents, a \in Idents :
        LET there == [place EXCEPT !.label = l]
            i == Before(there, x)
            n == variable_get(table, place, <<a>>, "REF")
        IN /\ n # NotFound
           /\ place' = there
           /\ Becomes(IF QueueFits
                      THEN variable_put(table, there, <<x>>, n, "REF")
                      ELSE Stopped(table))
           /\ tangled' = (tangled \/ (i # 0 /\ table[i].type # "REF")
                            \/ table[bsearch(table, n[1])].type = "REF"
                            \/ InUse(there, x))
           /\ calls' = Append(calls, [back |-> place, to |-> there, arg |-> n,
                                      param |-> <<x>>])
           /\ wrote' = NoWrite
  BY DEF GosubRef
<1>3. <<x>> \in Params /\ <<x>> \in Simple \cup Elements /\ <<a>> \in Simple
  BY NamesTyped
<1>4. PICK m \in FullNames : Has(table, m) /\ variable_get(table, place, <<a>>, "REF") = NameOf(m)
  BY <1>1, <1>2, <1>3, GetRefIs
<1>5. NameOf(m) \in Args /\ NameOf(m)[1] = m /\ NameOf(m) # <<>>
  BY ContentsAre DEF Args, NotFound
<1>6. /\ place' = [place EXCEPT !.label = l]
      /\ Becomes(IF QueueFits
                 THEN variable_put(table, place', <<x>>, NameOf(m), "REF")
                 ELSE Stopped(table))
      /\ tangled' = (tangled \/ (Before(place', x) # 0 /\ table[Before(place', x)].type # "REF")
                       \/ table[bsearch(table, m)].type = "REF"
                       \/ InUse(place', x))
      /\ calls' = Append(calls, [back |-> place, to |-> place', arg |-> NameOf(m),
                                 param |-> <<x>>])
  BY <1>2, <1>4, <1>5
<1> DEFINE N == FullName("USER", place'.program, place'.label, <<x>>)
<1>7. /\ place' \in Places /\ place'.label = l /\ calls' \in Seq(Calls) /\ InLabel'
      /\ Len(calls') = Len(calls) + 1
      /\ \A k \in 1..Len(calls) : calls'[k] = calls[k]
      /\ calls'[Len(calls) + 1].arg = NameOf(m)
      /\ Param(calls'[Len(calls) + 1]) = N
  BY <1>1, <1>3, <1>5, <1>6, CoreCalls
<1>8. tangled' \in BOOLEAN
      /\ (~tangled' => /\ ~tangled /\ At(table, m).type # "REF" /\ ~InUse(place', x)
                       /\ Before(place', x) # 0 => table[Before(place', x)].type = "REF")
  <2>1. InUse(place', x) \in BOOLEAN  BY DEF InUse
  <2> QED BY <1>1, <1>6, <2>1, Zenon DEF At
<1>9. /\ N \in FullNames
      /\ Before(place', x) # 0 <=> Has(table, N)
      /\ Has(table, N) => table[Before(place', x)] = At(table, N)
  BY <1>1, <1>7, BeforeIs
<1> DEFINE r == variable_put(table, place', <<x>>, NameOf(m), "REF")
<1>10. /\ Good(r.table) /\ r.dead = FALSE /\ Outside(r.table)
       /\ /\ Sound(table) /\ At(table, m).type # "REF"
          /\ Has(table, N) => At(table, N).type = "REF"
          => /\ Sound(r.table) /\ Has(r.table, N) /\ At(r.table, N).type = "REF"
             /\ At(r.table, N).value = NameOf(m)
             /\ \A o \in FullNames : o # N /\ Has(table, o) =>
                   Has(r.table, o) /\ At(r.table, o) = At(table, o)
  <2>1. RefResult(table, N, m, r)
    BY <1>1, <1>3, <1>4, <1>7, PutRef
  <2> HIDE DEF N, r
  <2> QED BY <2>1 DEF RefResult
<1>11. CASE QueueFits
  <2>1. table' = r.table /\ dead' = r.dead  BY <1>6, <1>11 DEF Becomes
  <2>2. dead' \in BOOLEAN  BY <1>10, <2>1, Zenon
  <2>3. TypesGood' /\ Outside(table')  BY <1>7, <1>8, <1>10, <2>1, <2>2 DEF TypesGood
  <2> HIDE DEF r, N
  <2>4. ASSUME ~tangled' PROVE Sound(table') /\ Bound(table', calls')
    <3>1. Sound(table) /\ Bound(table, calls)
      BY <1>8, <2>4 DEF Core, GosubRef, Runs
    <3>2. /\ Sound(table') /\ Has(table', N) /\ At(table', N).type = "REF"
          /\ At(table', N).value = NameOf(m)
          /\ \A o \in FullNames : o # N /\ Has(table, o) =>
                   Has(table', o) /\ At(table', o) = At(table, o)
      BY <1>8, <1>9, <1>10, <2>1, <2>4, <3>1
    <3>3. ASSUME NEW k \in 1..Len(calls'), calls'[k].arg # <<>>
          PROVE  /\ Has(table', Param(calls'[k])) /\ At(table', Param(calls'[k])).type = "REF"
                 /\ At(table', Param(calls'[k])).value = calls'[k].arg
      <4>1. CASE k = Len(calls) + 1  BY <1>7, <3>2, <4>1
      <4>2. CASE k \in 1..Len(calls)
        <5>1. calls'[k] = calls[k] /\ calls[k] \in Calls  BY <1>1, <1>7, <4>2
        <5>2. Param(calls[k]) \in FullNames  BY <5>1, CallType
        <5>3. Param(calls[k]) # N
          <6> SUFFICES ASSUME Param(calls[k]) = N PROVE FALSE  OBVIOUS
          <6>1. calls[k].to = place' /\ calls[k].param = <<x>>
            BY <1>3, <1>7, <5>1, ParamOf DEF N
          <6>2. InUse(place', x)  BY <1>1, <3>3, <4>2, <5>1, <6>1 DEF InUse
          <6> QED BY <1>8, <2>4, <6>2
        <5>4. /\ Has(table, Param(calls[k])) /\ At(table, Param(calls[k])).type = "REF"
              /\ At(table, Param(calls[k])).value = calls[k].arg
          BY <3>1, <3>3, <4>2, <5>1 DEF Bound
        <5> QED BY <3>2, <5>1, <5>2, <5>3, <5>4
      <4> QED BY <1>1, <1>7, <4>1, <4>2
    <3> QED BY <3>2, <3>3 DEF Bound
  <2> QED BY <1>7, <2>3, <2>4 DEF Core
<1>12. CASE ~QueueFits
  <2>1. table' = table /\ dead' = TRUE  BY <1>6, <1>12 DEF Becomes, Stopped
  <2>2. dead' \in BOOLEAN  BY <2>1, Zenon
  <2>3. TypesGood'  BY <1>1, <1>7, <1>8, <2>1, <2>2 DEF TypesGood
  <2> QED BY <1>7, <2>1, <2>3 DEF Core
<1> QED BY <1>11, <1>12

LEMMA ReturnCore ==
    ASSUME Core, cmd_return
    PROVE  Core'
<1>1. /\ TypesGood /\ InLabel /\ calls \in Seq(Calls) /\ Len(calls) \in Nat
      /\ calls # <<>> /\ UNCHANGED <<table, dead, tangled>>
  BY DEF Core, TypesGood, cmd_return
<1>2. place' = calls[Len(calls)].back /\ calls' = SubSeq(calls, 1, Len(calls) - 1)
  BY DEF cmd_return, Last, Front
<1>3. Len(calls) \in 1..Len(calls)  BY <1>1
<1>4. /\ calls' \in Seq(Calls) /\ Len(calls') = Len(calls) - 1
      /\ \A k \in 1..(Len(calls) - 1) : calls'[k] = calls[k]
  <2>1. \A k \in 1..(Len(calls) - 1) : calls[k] \in Calls  BY <1>1, <1>3
  <2> DEFINE n == Len(calls) - 1
  <2>2. n \in Nat /\ 1 \in Int /\ n \in Int  BY <1>1, <1>3
  <2> HIDE DEF n
  <2>3. /\ SubSeq(calls, 1, n) \in Seq(Calls)
        /\ Len(SubSeq(calls, 1, n)) = IF 1 <= n THEN n - 1 + 1 ELSE 0
        /\ \A k \in 1..(n - 1 + 1) : SubSeq(calls, 1, n)[k] = calls[1 + k - 1]
    BY <2>1, <2>2, SubSeqProperties DEF n
  <2>4. Len(SubSeq(calls, 1, n)) = n /\ \A k \in 1..n : SubSeq(calls, 1, n)[k] = calls[k]
    BY <2>2, <2>3
  <2> QED BY <1>2, <2>3, <2>4 DEF n
<1>5. place' \in Places
  <2>1. calls[Len(calls)] \in Calls  BY <1>1, <1>3
  <2> QED BY <1>2, <2>1, CallType
<1>6. TypesGood'  BY <1>1, <1>4, <1>5 DEF TypesGood
<1>7. InLabel'
  <2>1. calls' # <<>> => place' = calls'[Len(calls')].to
    <3> SUFFICES ASSUME calls' # <<>> PROVE place' = calls'[Len(calls')].to  OBVIOUS
    <3>1. Len(calls') \in 1..(Len(calls) - 1) /\ Len(calls) > 1
          /\ Len(calls') = Len(calls) - 1
      BY <1>1, <1>4
    <3>2. calls[Len(calls)].back = calls[Len(calls) - 1].to
      BY <1>1, <1>3, <3>1 DEF InLabel
    <3> QED BY <1>2, <1>4, <3>1, <3>2
  <2>2. ASSUME NEW k \in 1..Len(calls'), k > 1 PROVE calls'[k].back = calls'[k - 1].to
    <3>1. k \in 1..(Len(calls) - 1) /\ k - 1 \in 1..(Len(calls) - 1) /\ k \in 1..Len(calls)
      BY <1>1, <1>4, <2>2
    <3> QED BY <1>1, <1>4, <2>2, <3>1 DEF InLabel
  <2> QED BY <2>1, <2>2 DEF InLabel
<1>8. Bound(table, calls) => Bound(table', calls')
  <2>1. \A k \in 1..Len(calls') : k \in 1..Len(calls) /\ calls'[k] = calls[k]
    BY <1>1, <1>4
  <2> QED BY <1>1, <2>1 DEF Bound
<1> QED BY <1>1, <1>6, <1>7, <1>8 DEF Core

LEMMA CoreNext ==
    ASSUME Core, [Next]_vars
    PROVE  Core'
<1>0. ASSUME UNCHANGED <<table, place, calls, dead, tangled>> PROVE Core'
  BY <1>0 DEF Core, TypesGood, InLabel
<1>1. CASE cmd_let
  <2>1. PICK x \in Idents, v \in Values :
          Becomes(variable_put(table, place, <<x>>, Val(v), "USER"))
    BY <1>1 DEF cmd_let
  <2>2. "USER" \in Types \ {"REF"}  BY DEF Types
  <2> QED BY <1>1, <2>1, <2>2, NamesTyped, CorePut DEF cmd_let, Runs
<1>2. CASE cmd_glet
  <2>1. PICK x \in Idents, v \in Values :
          Becomes(variable_put(table, place, <<x>>, Val(v), "GLOBAL"))
    BY <1>2 DEF cmd_glet
  <2>2. "GLOBAL" \in Types \ {"REF"}  BY DEF Types
  <2> QED BY <1>2, <2>1, <2>2, NamesTyped, CorePut DEF cmd_glet, Runs
<1>3. CASE cmd_local_var
  <2>1. PICK x \in Idents, v \in Values :
          Becomes(variable_put(table, place, <<x>>, Val(v), "LOCAL"))
    BY <1>3 DEF cmd_local_var
  <2>2. "LOCAL" \in Types \ {"REF"}  BY DEF Types
  <2> QED BY <1>3, <2>1, <2>2, NamesTyped, CorePut DEF cmd_local_var, Runs
<1>4. CASE cmd_define
  <2>1. PICK x \in Idents, v \in Values :
          Becomes(variable_put(table, place, <<x>>, Val(v), "DEFINE"))
    BY <1>4 DEF cmd_define
  <2>2. "DEFINE" \in Types \ {"REF"}  BY DEF Types
  <2> QED BY <1>4, <2>1, <2>2, NamesTyped, CorePut DEF cmd_define, Runs
<1>5. CASE cmd_define_array
  <2>1. PICK x \in Arrays, v \in Values :
          Becomes(PutBoth(table, place, <<x, 1>>, Val(v), <<x, 0>>, Val(1)))
    BY <1>5 DEF cmd_define_array
  <2>2. <<x, 1>> \in Elements /\ <<x, 0>> \in Elements  BY NamesTyped
  <2> QED BY <1>5, <2>1, <2>2, NamesTyped, CoreBoth DEF cmd_define_array, Runs
<1>6. CASE cmd_define_xref
  <2>1. PICK x \in Arrays, v, w \in Values :
          Becomes(PutBoth(table, place, <<x, v>>, Val(w), <<x, w>>, Val(v)))
    BY <1>6 DEF cmd_define_xref
  <2>2. <<x, v>> \in Elements /\ <<x, w>> \in Elements  BY NamesTyped
  <2> QED BY <1>6, <2>1, <2>2, NamesTyped, CoreBoth DEF cmd_define_xref, Runs
<1>7. CASE DefineLabel
  <2>1. PICK l \in Labels :
          Becomes(variable_put(table, place, <<l>>, Val(0), "LABEL"))
    BY <1>7 DEF DefineLabel
  <2>2. "LABEL" \in Types \ {"REF"}  BY DEF Types
  <2> QED BY <1>7, <2>1, <2>2, NamesTyped, CorePut DEF DefineLabel, Runs
<1>8. CASE Move
  <2>1. place' \in Places /\ calls' = <<>> /\ UNCHANGED <<table, dead, tangled>>
    BY <1>8 DEF Move
  <2>2. <<>> \in Seq(Calls) /\ Len(<<>>) = 0 /\ 1..0 = {}  OBVIOUS
  <2>3. TypesGood' /\ InLabel'  BY <2>1, <2>2 DEF Core, TypesGood, InLabel
  <2>4. Bound(table', calls')  BY <2>1, EmptyTable
  <2> QED BY <2>1, <2>3, <2>4 DEF Core
<1>9. CASE cmd_delete
  BY <1>0, <1>9 DEF cmd_delete, variable_delete
<1>10. CASE variable_delete_all
  <2>1. /\ table' = <<>> /\ calls' = <<>> /\ UNCHANGED <<dead, tangled>>
        /\ place' = [program |-> Default, label |-> NoLabel]
    BY <1>10 DEF variable_delete_all
  <2>2. <<>> \in Seq(Calls) /\ Len(<<>>) = 0 /\ 1..0 = {}  OBVIOUS
  <2>3. place' \in Places  BY <2>1, VariablesAssumption DEF Places
  <2>4. TypesGood' /\ InLabel'
    BY <2>1, <2>2, <2>3, EmptyTable DEF Core, TypesGood, InLabel
  <2> QED BY <2>1, <2>4, EmptyTable DEF Core
<1>11. CASE GosubValue  BY <1>11, GosubValueCore
<1>12. CASE GosubRef  BY <1>12, GosubRefCore
<1>13. CASE cmd_return  BY <1>13, ReturnCore
<1>14. CASE Dies  BY <1>0, <1>14 DEF Dies, vars
<1>15. CASE UNCHANGED vars  BY <1>0, <1>15 DEF vars
<1> QED BY <1>1, <1>2, <1>3, <1>4, <1>5, <1>6, <1>7, <1>8, <1>9, <1>10, <1>11,
           <1>12, <1>13, <1>14, <1>15 DEF Next

LEMMA ReadBackStep ==
    ASSUME Core, ~dead, ~dead', ~tangled, place' \in Places,
           NEW name \in Params, NEW v \in Contents, NEW type \in {"USER", "LOCAL"},
           Becomes(variable_put(table, place', name, v, type)),
           wrote' = [name |-> name, value |-> v]
    PROVE  LetReadsBack'
<1> DEFINE r == variable_put(table, place', name, v, type)
<1>1. table' = r.table /\ dead' = r.dead  BY DEF Becomes
<1>2. Good(table) /\ Sound(table) /\ Outside(table)  BY DEF Core, TypesGood
<1>3. name \in Simple \cup Elements /\ name \notin Elements
  BY NamesDiffer DEF Params, Simple
<1>4. r.dead = FALSE
  <2>1. type \in Types \ {"REF"}  BY DEF Types
  <2>2. r.dead \in BOOLEAN  BY <1>2, <1>3, <2>1, PutKeeps
  <2> QED BY <1>1, <2>2, Zenon
<1>5. ReadsBack(r.table, place', name, v)
  BY <1>2, <1>4, ReadBack
<1> HIDE DEF r
<1>6. wrote'.name = name /\ wrote'.value = v  OBVIOUS
<1> QED BY <1>1, <1>5, <1>6 DEF LetReadsBack, ReadsBack

LEMMA ReadBackNext ==
    ASSUME IInv, [Next]_vars
    PROVE  LetReadsBack'
<1>0. Core /\ place \in Places  BY DEF IInv, Core, TypesGood
<1>1. CASE wrote' = NoWrite \/ dead' \/ tangled'
  BY <1>1 DEF LetReadsBack
<1>2. CASE cmd_let /\ ~dead' /\ ~tangled'
  <2>1. ~dead /\ ~tangled /\ place' = place  BY <1>2 DEF cmd_let, Runs
  <2>2. PICK x \in Idents, v \in Values :
          /\ Becomes(variable_put(table, place', <<x>>, Val(v), "USER"))
          /\ wrote' = [name |-> <<x>>, value |-> Val(v)]
    BY <1>2, <2>1 DEF cmd_let
  <2> QED BY <1>0, <1>2, <2>1, <2>2, NamesTyped, ReadBackStep
<1>3. CASE cmd_local_var /\ ~dead' /\ ~tangled'
  <2>1. ~dead /\ ~tangled /\ place' = place  BY <1>3 DEF cmd_local_var, Runs
  <2>2. PICK x \in Idents, v \in Values :
          /\ Becomes(variable_put(table, place', <<x>>, Val(v), "LOCAL"))
          /\ wrote' = [name |-> <<x>>, value |-> Val(v)]
    BY <1>3, <2>1 DEF cmd_local_var
  <2> QED BY <1>0, <1>3, <2>1, <2>2, NamesTyped, ReadBackStep
<1>4. CASE GosubValue /\ ~dead' /\ ~tangled'
  <2>1. ~dead /\ place' \in Places
    <3>1. Core'  BY <1>0, <1>4, GosubValueCore
    <3> QED BY <1>4, <3>1 DEF GosubValue, Runs, Core, TypesGood
  <2>2. PICK l \in Labels, x \in Idents, v \in Values :
          /\ place' = [place EXCEPT !.label = l]
          /\ Becomes(IF QueueFits
                     THEN variable_put(table, place', <<x>>, Val(v), "LOCAL")
                     ELSE Stopped(table))
          /\ ~tangled' => ~tangled
          /\ wrote' = [name |-> <<x>>, value |-> Val(v)]
    BY <1>4, Zenon DEF GosubValue
  <2>3. QueueFits  BY <1>4, <2>2 DEF Becomes, Stopped
  <2> QED BY <1>0, <1>4, <2>1, <2>2, <2>3, NamesTyped, ReadBackStep
<1>5. CASE Dies \/ UNCHANGED vars
  BY <1>5 DEF IInv, LetReadsBack, Dies, vars
<1>6. CASE \/ cmd_glet \/ cmd_define \/ cmd_define_array \/ cmd_define_xref
           \/ DefineLabel \/ Move \/ cmd_delete \/ variable_delete_all \/ GosubRef
           \/ cmd_return
  <2>1. wrote' = NoWrite
    BY <1>6 DEF cmd_glet, cmd_define, cmd_define_array, cmd_define_xref, DefineLabel,
                Move, cmd_delete, variable_delete_all, GosubRef, cmd_return
  <2> QED BY <2>1, <1>1
<1> QED BY <1>1, <1>2, <1>3, <1>4, <1>5, <1>6 DEF Next

-----------------------------------------------------------------------------
(* The theorems. *)

LEMMA InitIInv ==
    ASSUME Init
    PROVE  IInv
<1>1. <<>> \in Seq(Calls) /\ Len(<<>>) = 0 /\ 1..0 = {}  OBVIOUS
<1>2. place \in Places  BY VariablesAssumption DEF Init, Places
<1>3. TypesGood /\ InLabel  BY <1>1, <1>2, EmptyTable DEF Init, TypesGood, InLabel
<1>4. LetReadsBack  BY DEF Init, LetReadsBack
<1> QED BY <1>3, <1>4, EmptyTable DEF Init, IInv, Core

\* The inductive invariant holds for every set of names, every hash and every
\* bound on the variables and the calls: the table is sorted without equals,
\* variables that "define" made are outside of labels, and as long as nothing is
\* tangled every reference of a call in progress leads to a variable.
THEOREM VariablesInvariant == Spec => []IInv
<1>1. Init => IInv  BY InitIInv
<1>2. IInv /\ [Next]_vars => IInv'  BY CoreNext, ReadBackNext DEF IInv
<1> QED BY <1>1, <1>2, PTL DEF Spec

\* bsearch() finds every variable that variable_put() placed in the table
THEOREM EveryVariableFound == Spec => []EveryNameFound
<1>1. IInv => EveryNameFound
  <2> SUFFICES ASSUME IInv, NEW i \in DOMAIN table
               PROVE  bsearch(table, table[i].name) = i
    BY DEF EveryNameFound
  <2>1. Good(table) /\ table \in Seq(Entries)  BY DEF IInv, Core, TypesGood, Good
  <2>2. i \in 1..Len(table)  BY <2>1
  <2>3. table[i].name \in FullNames  BY <2>1, <2>2, EntryType
  <2> QED BY <2>1, <2>2, <2>3, Finds
<1> QED BY <1>1, VariablesInvariant, PTL

\* let, local_var and value arguments read back, whichever scope variable_put()
\* chose and variable_get() searches first
THEOREM AssignmentsReadBack == Spec => []LetReadsBack
<1>1. IInv => LetReadsBack  BY DEF IInv
<1> QED BY <1>1, VariablesInvariant, PTL

\* The parameter gosub passes by reference and its argument have one value
THEOREM ReferencesAlias == Spec => []Alias
<1>1. IInv => Alias
  <2> SUFFICES ASSUME IInv, calls # <<>>, ~dead, ~tangled,
                      NEW c, c = Last(calls), c.arg # <<>>
               PROVE  variable_get(table, place, c.param, "USER")
                        = table[bsearch(table, c.arg[1])].value
    BY DEF Alias
  <2>1. /\ Good(table) /\ calls \in Seq(Calls) /\ Len(calls) \in Nat
        /\ Sound(table) /\ Bound(table, calls) /\ InLabel
    BY DEF IInv, Core, TypesGood
  <2>2. Len(calls) \in 1..Len(calls) /\ c = calls[Len(calls)]  BY <2>1 DEF Last
  <2>3. c \in Calls /\ place = c.to  BY <2>1, <2>2 DEF InLabel
  <2> DEFINE N == Param(c)
  <2>4. N \in FullNames /\ c.to \in Places /\ c.param \in Params  BY <2>3, CallType
  <2>5. Has(table, N) /\ At(table, N).type = "REF" /\ At(table, N).value = c.arg
    BY <2>1, <2>2 DEF Bound
  <2>6. Visible(table, place, c.param, "USER") = bsearch(table, N)
    <3>1. c.param \in Simple \cup Elements  BY <2>4 DEF Params, Simple
    <3>2. N = FullName("USER", place.program, place.label, c.param)  BY <2>3 DEF Param
    <3> HIDE DEF N
    <3> QED BY <2>1, <2>3, <2>4, <2>5, <3>1, <3>2, VisibleIs
  <2> HIDE DEF N
  <2>7. PICK m \in FullNames : At(table, N).value = NameOf(m) /\ Has(table, m)
    BY <2>1, <2>4, <2>5 DEF Sound
  <2>8. variable_get(table, place, c.param, "USER") = At(table, m).value
    BY <2>1, <2>4, <2>5, <2>6, <2>7, GetIs
  <2>9. c.arg[1] = m  BY <2>5, <2>7, ContentsAre
  <2> QED BY <2>8, <2>9 DEF At
<1> QED BY <1>1, VariablesInvariant, PTL

\* Two tables that agree but for n
SameBut(t, t2, n) ==
    \A o \in FullNames : o # n => /\ Has(t2, o) <=> Has(t, o)
                                  /\ Has(t, o) => At(t2, o) = At(t, o)

\* What another place sees of a table that changed in one entry of a label
LEMMA OthersSee ==
    ASSUME NEW t, NEW t2, Good(t), Good(t2), NEW n \in FullNames, n.label # NoLabel,
           SameBut(t, t2, n), NEW p \in Places, p.program # n.program \/ p.label # n.label,
           NEW name \in Params,
           NEW k, k = Visible(t, p, name, "USER")
    PROVE  \/ variable_get(t2, p, name, "USER") = variable_get(t, p, name, "USER")
           \/ k # 0 /\ t[k].type = "REF"
<1> DEFINE L == FullName("USER", p.program, p.label, name)
           P == FullName("USER", p.program, NoLabel, name)
           D == FullName("USER", Default, NoLabel, name)
<1>1. L.program = p.program /\ L.label = p.label /\ P.label = NoLabel /\ D.label = NoLabel
  BY DEF FullName
<1>2. name \in Simple \cup Elements  BY DEF Params, Simple
<1>3. /\ L \in FullNames /\ P \in FullNames /\ D \in FullNames
      /\ Has(t, L) => k = bsearch(t, L)
      /\ ~Has(t, L) /\ Has(t, P) => k = bsearch(t, P)
      /\ ~Has(t, L) /\ ~Has(t, P) /\ Has(t, D) => k = bsearch(t, D)
      /\ ~Has(t, L) /\ ~Has(t, P) /\ ~Has(t, D) => k = 0
  BY <1>2, VisibleIs
<1>4. /\ Has(t2, L) => Visible(t2, p, name, "USER") = bsearch(t2, L)
      /\ ~Has(t2, L) /\ Has(t2, P) => Visible(t2, p, name, "USER") = bsearch(t2, P)
      /\ ~Has(t2, L) /\ ~Has(t2, P) /\ Has(t2, D) =>
           Visible(t2, p, name, "USER") = bsearch(t2, D)
      /\ ~Has(t2, L) /\ ~Has(t2, P) /\ ~Has(t2, D) => Visible(t2, p, name, "USER") = 0
  BY <1>2, VisibleIs
<1>5. L # n /\ P # n /\ D # n  BY <1>1
<1> HIDE DEF L, P, D
<1>6. /\ Has(t2, L) <=> Has(t, L)
      /\ Has(t2, P) <=> Has(t, P)
      /\ Has(t2, D) <=> Has(t, D)
  BY <1>3, <1>5 DEF SameBut
<1>7. ASSUME NEW o \in {L, P, D}, Has(t, o), k = bsearch(t, o),
             Visible(t2, p, name, "USER") = bsearch(t2, o)
      PROVE  \/ variable_get(t2, p, name, "USER") = variable_get(t, p, name, "USER")
             \/ k # 0 /\ t[k].type = "REF"
  <2>1. o \in FullNames /\ o # n  BY <1>3, <1>5
  <2>2. Has(t2, o) /\ At(t2, o) = At(t, o)  BY <1>7, <2>1 DEF SameBut
  <2>3. k # 0 /\ t[k] = At(t, o)  BY <1>7, <2>1, Finds DEF At
  <2>4. CASE At(t, o).type # "REF"
    <3>1. variable_get(t, p, name, "USER") = At(t, o).value
      BY <1>7, <2>1, <2>4, GetIs
    <3>2. variable_get(t2, p, name, "USER") = At(t2, o).value
      BY <1>7, <2>1, <2>2, <2>4, GetIs
    <3> QED BY <2>2, <3>1, <3>2
  <2> QED BY <2>3, <2>4
<1>8. CASE k = 0 /\ Visible(t2, p, name, "USER") = 0
  BY <1>8 DEF variable_get
<1> QED BY <1>3, <1>4, <1>6, <1>7, <1>8

\* local_var and value arguments change what one label sees, no other place
THEOREM LocalsStayThere == Spec => LocalsStay
<1>1. ASSUME Core, cmd_local_var \/ GosubValue,
             NEW i, i = Before(place', wrote'.name[1]),
             place'.label # NoLabel, table # <<>>, ~dead', ~(i # 0 /\ table[i].type = "REF"),
             NEW p \in Places \ {place'}, NEW y \in Idents,
             NEW k, k = Visible(table, p, <<y>>, "USER")
      PROVE  \/ Seen(table', p, y) = Seen(table, p, y)
             \/ k # 0 /\ table[k].type = "REF"
  <2>1. TypesGood /\ Good(table) /\ place \in Places /\ Core'
    <3>1. [Next]_vars  BY <1>1 DEF Next
    <3> QED BY <1>1, <3>1, CoreNext DEF Core, TypesGood
  <2>2. place' \in Places /\ Good(table')  BY <2>1 DEF Core, TypesGood
  <2>3. PICK x \in Idents, v \in Values :
          /\ Becomes(variable_put(table, place', <<x>>, Val(v), "LOCAL"))
          /\ wrote' = [name |-> <<x>>, value |-> Val(v)]
    <3>1. CASE cmd_local_var  BY <3>1 DEF cmd_local_var
    <3>2. CASE GosubValue
      <4>1. PICK l \in Labels, x \in Idents, v \in Values :
              /\ place' = [place EXCEPT !.label = l]
              /\ Becomes(IF QueueFits
                         THEN variable_put(table, place', <<x>>, Val(v), "LOCAL")
                         ELSE Stopped(table))
              /\ wrote' = [name |-> <<x>>, value |-> Val(v)]
        BY <3>2, Zenon DEF GosubValue
      <4>2. QueueFits  BY <1>1, <4>1 DEF Becomes, Stopped
      <4> QED BY <4>1, <4>2
    <3> QED BY <1>1, <3>1, <3>2
  <2> DEFINE name == <<x>>
             N == FullName("USER", place'.program, place'.label, name)
             r == variable_put(table, place', name, Val(v), "LOCAL")
  <2>4. name \in Simple \cup Elements /\ Val(v) \in Contents /\ <<y>> \in Params
    BY NamesTyped
  <2>5. N = PutName(table, place', name, "LOCAL")  BY <1>1, RefName
  <2>6. "LOCAL" \in Types /\ "LOCAL" # "REF"  BY DEF Types
  <2>7. table' = r.table /\ dead' = r.dead  BY <2>3 DEF Becomes
  <2>8. N \in FullNames /\ PutResult(table, N, Val(v), "LOCAL", r)
    BY <2>1, <2>2, <2>4, <2>5, <2>6, PutIs
  <2>9. Has(table, N) => i # 0 /\ table[i] = At(table, N)
    <3>1. wrote'.name[1] = x  BY <2>3
    <3> QED BY <1>1, <2>1, <2>2, <3>1, BeforeIs
  <2>10. N.label = place'.label /\ N.program = place'.program  BY DEF FullName
  <2> HIDE DEF N, r, name
  <2>11. SameBut(table, table', N)
    <3>1. CASE ~Has(table, N)
      <4> DEFINE e == [name |-> N, value |-> Val(v), type |-> Kind("LOCAL")]
      <4>1. Adds(table, table', e) /\ e.name = N  BY <2>7, <2>8, <3>1 DEF PutResult
      <4> QED BY <4>1 DEF Adds, SameBut
    <3>2. CASE Has(table, N)
      <4>1. At(table, N).type \in {"plain", "DEFINE", "LABEL"}
        BY <1>1, <2>1, <2>8, <2>9, <3>2, Finds DEF Entries, Kinds
      <4>2. r.dead # TRUE  BY <1>1, <2>7
      <4>3. table' = table \/ Rewrites(table, table', N, Val(v))
        BY <2>6, <2>7, <2>8, <3>2, <4>1, <4>2 DEF PutResult
      <4> QED BY <4>3 DEF Rewrites, SameBut
    <3> QED BY <3>1, <3>2
  <2>12. p \in Places /\ (p.program # N.program \/ p.label # N.label)
    BY <2>2, <2>10 DEF Places
  <2>13. N.label # NoLabel  BY <1>1, <2>10
  <2> DEFINE other == <<y>>
  <2>14. other \in Params /\ k = Visible(table, p, other, "USER")  BY <1>1, <2>4
  <2>15. Seen(table', p, y) = variable_get(table', p, other, "USER")
         /\ Seen(table, p, y) = variable_get(table, p, other, "USER")
    BY DEF Seen
  <2> HIDE DEF other
  <2>16. \/ variable_get(table', p, other, "USER") = variable_get(table, p, other, "USER")
         \/ k # 0 /\ table[k].type = "REF"
    BY <2>1, <2>2, <2>8, <2>11, <2>12, <2>13, <2>14, OthersSee
  <2> QED BY <2>15, <2>16
<1> DEFINE Step ==
      cmd_local_var \/ GosubValue =>
         LET i == Before(place', wrote'.name[1]) IN
         \/ place'.label = NoLabel \/ table = <<>> \/ dead'
         \/ i # 0 /\ table[i].type = "REF"
         \/ \A p \in Places \ {place'}, x \in Idents :
              LET k == Visible(table, p, <<x>>, "USER") IN
              \/ Seen(table', p, x) = Seen(table, p, x)
              \/ k # 0 /\ table[k].type = "REF"
<1>2. IInv /\ [Next]_vars => [Step]_vars
  BY <1>1, Zenon DEF IInv
<1>3. []IInv /\ [][Next]_vars => [][Step]_vars  BY <1>2, PTL
<1> QED BY <1>3, VariablesInvariant, PTL DEF Spec, LocalsStay

-----------------------------------------------------------------------------
(* The table implements VariableStore. *)

LEMMA StoreIs ==
    ASSUME NEW t, Good(t)
    PROVE  /\ \A n \in DOMAIN StoreOf(t) : n \in FullNames /\ Has(t, n)
           /\ \A n \in FullNames : Has(t, n) =>
                /\ n \in DOMAIN StoreOf(t)
                /\ StoreOf(t)[n] = [value |-> At(t, n).value, type |-> At(t, n).type]
                /\ StoreOf(t)[n].value = At(t, n).value
                /\ StoreOf(t)[n].type = At(t, n).type
<1>1. t \in Seq(Entries) /\ DOMAIN t = 1..Len(t)  BY DEF Good
<1>2. DOMAIN StoreOf(t) = {t[i].name : i \in DOMAIN t}  BY DEF StoreOf
<1>3. \A n \in DOMAIN StoreOf(t) : n \in FullNames /\ Has(t, n)
  BY <1>1, <1>2, EntryType DEF Has
<1>4. ASSUME NEW n \in FullNames, Has(t, n)
      PROVE  /\ n \in DOMAIN StoreOf(t)
             /\ StoreOf(t)[n] = [value |-> At(t, n).value, type |-> At(t, n).type]
  <2>1. n \in {t[i].name : i \in DOMAIN t}  BY <1>1, <1>4 DEF Has
  <2> DEFINE i == CHOOSE i \in DOMAIN t : t[i].name = n
  <2>2. i \in 1..Len(t) /\ t[i].name = n  BY <1>1, <2>1
  <2>3. At(t, n) = t[i]  BY <2>2, Finds
  <2>4. StoreOf(t)[n] = [value |-> t[i].value, type |-> t[i].type]
    BY <2>1 DEF StoreOf
  <2> QED BY <1>2, <2>1, <2>3, <2>4
<1> QED BY <1>3, <1>4

\* A step of the table that is one of the map
LEMMA StoreAssigns ==
    ASSUME Good(table), Good(table'), Assigns(table, table')
    PROVE  Store!Assign
<1> DEFINE s == StoreOf(table)
           s2 == StoreOf(table')
           changed == {n \in DOMAIN s : s2[n] # s[n]}
<1>1. /\ DOMAIN s \subseteq DOMAIN s2
      /\ \A m, n \in changed : m = n
      /\ \A n \in changed :
           /\ s2[n].type = s[n].type
           /\ s[n].type = "DEFINE" =>
                \E r \in DOMAIN s : s[r].type = "REF" /\ s[r].value = NameOf(n)
  <2>1. PICK m \in FullNames :
          /\ \A n \in FullNames : Has(table, n) /\ n # m => At(table', n) = At(table, n)
          /\ Has(table, m) => At(table', m).type = At(table, m).type
          /\ Has(table, m) /\ At(table, m).type = "DEFINE" =>
               \/ At(table', m) = At(table, m)
               \/ \E r \in FullNames : /\ Has(table, r) /\ At(table, r).type = "REF"
                                      /\ At(table, r).value = NameOf(m)
    BY DEF Assigns
  <2>2. \A n \in DOMAIN s : n \in FullNames /\ Has(table, n)  BY StoreIs
  <2>3. \A n \in DOMAIN s : Has(table', n)  BY <2>2 DEF Assigns
  <2>4. \A n \in FullNames : Has(table, n) =>
          /\ n \in DOMAIN s
          /\ s[n] = [value |-> At(table, n).value, type |-> At(table, n).type]
          /\ s[n].value = At(table, n).value /\ s[n].type = At(table, n).type
    BY StoreIs
  <2>5. \A n \in FullNames : Has(table', n) =>
          /\ n \in DOMAIN s2
          /\ s2[n] = [value |-> At(table', n).value, type |-> At(table', n).type]
          /\ s2[n].type = At(table', n).type
    BY StoreIs
  <2> HIDE DEF s, s2
  <2>6. DOMAIN s \subseteq DOMAIN s2  BY <2>2, <2>3, <2>5
  <2>7. \A n \in changed : n = m /\ n \in DOMAIN s /\ At(table', n) # At(table, n)
    <3> SUFFICES ASSUME NEW n \in changed PROVE n = m /\ At(table', n) # At(table, n)
      OBVIOUS
    <3>1. n \in DOMAIN s /\ s2[n] # s[n]  OBVIOUS
    <3>2. Has(table, n) /\ Has(table', n) /\ n \in FullNames  BY <2>2, <2>3, <3>1
    <3>3. At(table', n) # At(table, n)  BY <2>4, <2>5, <3>1, <3>2
    <3> QED BY <2>1, <3>2, <3>3
  <2>8. ASSUME NEW n \in changed
        PROVE  /\ s2[n].type = s[n].type
               /\ s[n].type = "DEFINE" =>
                    \E r \in DOMAIN s : s[r].type = "REF" /\ s[r].value = NameOf(n)
    <3>1. n = m /\ n \in DOMAIN s /\ At(table', n) # At(table, n)  BY <2>7
    <3>2. Has(table, n) /\ Has(table', n) /\ n \in FullNames  BY <2>2, <2>3, <3>1
    <3> HIDE DEF changed
    <3> QED BY <2>1, <2>4, <2>5, <3>1, <3>2
  <2> QED BY <2>6, <2>7, <2>8
<1> QED BY <1>1 DEF Store!Assign, Store!Changed

LEMMA StoreStep ==
    ASSUME Core, [Next]_vars
    PROVE  Store!Next \/ table' = table
<1>1. Good(table) /\ Good(table') /\ place \in Places /\ place' \in Places
      /\ (~dead => Outside(table)) /\ TypesGood /\ InLabel
  <2>1. Core'  BY CoreNext
  <2> QED BY <2>1 DEF Core, TypesGood
<1>2. ASSUME Assigns(table, table') PROVE Store!Next
  BY <1>1, <1>2, StoreAssigns DEF Store!Next
<1>3. ASSUME NEW p \in Places, NEW name \in Simple, NEW v \in Contents,
             NEW type \in Types \ {"REF"},
             Becomes(variable_put(table, p, name, v, type))
      PROVE  Store!Next
  <2> DEFINE r == variable_put(table, p, name, v, type)
  <2>1. table' = r.table  BY <1>3 DEF Becomes
  <2>2. name \in Simple \cup Elements /\ name \notin Elements  BY NamesDiffer
  <2>3. Assigns(table, r.table)  BY <1>1, <2>2, PutKeeps
  <2> QED BY <1>2, <2>1, <2>3
<1>4. ASSUME ~dead, NEW m \in Elements, NEW n \in Elements, NEW v \in Contents,
             NEW w \in Contents, Becomes(PutBoth(table, place, m, v, n, w))
      PROVE  Store!Next
  <2> DEFINE r == PutBoth(table, place, m, v, n, w)
  <2>1. table' = r.table  BY <1>4 DEF Becomes
  <2>2. Assigns(table, r.table)  BY <1>1, <1>4, PutBothKeeps
  <2> QED BY <1>2, <2>1, <2>2
<1>5. "USER" \in Types \ {"REF"} /\ "GLOBAL" \in Types \ {"REF"} /\ "LOCAL" \in Types \ {"REF"}
      /\ "DEFINE" \in Types \ {"REF"} /\ "LABEL" \in Types \ {"REF"}
  BY DEF Types
<1>6. CASE cmd_let \/ cmd_glet \/ cmd_local_var \/ cmd_define
  <2>1. \E x \in Idents, v \in Values, type \in Types \ {"REF"} :
          Becomes(variable_put(table, place, <<x>>, Val(v), type))
    BY <1>5, <1>6, Zenon DEF cmd_let, cmd_glet, cmd_local_var, cmd_define
  <2> QED BY <1>1, <1>3, <2>1, NamesTyped
<1>7. CASE DefineLabel
  <2>1. \E l \in Labels : Becomes(variable_put(table, place, <<l>>, Val(0), "LABEL"))
    BY <1>7 DEF DefineLabel
  <2> QED BY <1>1, <1>3, <1>5, <2>1, NamesTyped
<1>8. CASE cmd_define_array
  <2>1. PICK x \in Arrays, v \in Values :
          Becomes(PutBoth(table, place, <<x, 1>>, Val(v), <<x, 0>>, Val(1)))
    BY <1>8 DEF cmd_define_array
  <2>2. <<x, 1>> \in Elements /\ <<x, 0>> \in Elements  BY NamesTyped
  <2> QED BY <1>4, <1>8, <2>1, <2>2, NamesTyped DEF cmd_define_array, Runs
<1>9. CASE cmd_define_xref
  <2>1. PICK x \in Arrays, v, w \in Values :
          Becomes(PutBoth(table, place, <<x, v>>, Val(w), <<x, w>>, Val(v)))
    BY <1>9 DEF cmd_define_xref
  <2>2. <<x, v>> \in Elements /\ <<x, w>> \in Elements  BY NamesTyped
  <2> QED BY <1>4, <1>9, <2>1, <2>2, NamesTyped DEF cmd_define_xref, Runs
<1>10. CASE GosubValue
  <2>1. PICK l \in Labels, x \in Idents, v \in Values :
          /\ place' = [place EXCEPT !.label = l]
          /\ Becomes(IF QueueFits
                     THEN variable_put(table, place', <<x>>, Val(v), "LOCAL")
                     ELSE Stopped(table))
    BY <1>10, Zenon DEF GosubValue
  <2>2. CASE QueueFits  BY <1>1, <1>3, <1>5, <2>1, <2>2, NamesTyped
  <2>3. CASE ~QueueFits  BY <2>1, <2>3 DEF Becomes, Stopped
  <2> QED BY <2>2, <2>3
<1>11. CASE GosubRef
  <2>1. PICK l \in Labels, x \in Idents, a \in Idents :
          /\ place' = [place EXCEPT !.label = l]
          /\ variable_get(table, place, <<a>>, "REF") # NotFound
          /\ Becomes(IF QueueFits
                     THEN variable_put(table, place', <<x>>,
                                       variable_get(table, place, <<a>>, "REF"), "REF")
                     ELSE Stopped(table))
    BY <1>11, Zenon DEF GosubRef
  <2>2. <<x>> \in Params /\ <<a>> \in Simple  BY NamesTyped
  <2>3. PICK m \in FullNames :
          Has(table, m) /\ variable_get(table, place, <<a>>, "REF") = NameOf(m)
    BY <1>1, <2>1, <2>2, GetRefIs
  <2>4. place'.label \in Labels
    BY <1>1, <2>1 DEF Places
  <2>5. Outside(table)  BY <1>1, <1>11 DEF GosubRef, Runs
  <2>6. CASE QueueFits
    <3> DEFINE r == variable_put(table, place', <<x>>, NameOf(m), "REF")
               N == FullName("USER", place'.program, place'.label, <<x>>)
    <3>1. table' = r.table  BY <2>1, <2>3, <2>6 DEF Becomes
    <3>2. RefResult(table, N, m, r)  BY <1>1, <2>2, <2>3, <2>4, <2>5, PutRef
    <3> HIDE DEF r, N
    <3>3. Assigns(table, r.table)  BY <3>2 DEF RefResult
    <3> QED BY <1>2, <3>1, <3>3
  <2>7. CASE ~QueueFits  BY <2>1, <2>7 DEF Becomes, Stopped
  <2> QED BY <2>6, <2>7
<1>12. CASE variable_delete_all
  <2>1. table' = <<>>  BY <1>12 DEF variable_delete_all
  <2>2. StoreOf(<<>>) = [m \in {} |-> m]
    <3>1. DOMAIN <<>> = {}  OBVIOUS
    <3>2. {<<>>[i].name : i \in DOMAIN <<>>} = {}  BY <3>1
    <3> QED BY <3>2 DEF StoreOf
  <2> QED BY <2>1, <2>2 DEF Store!Next, Store!Clear
<1>13. CASE Move \/ cmd_delete \/ cmd_return \/ Dies \/ UNCHANGED vars
  BY <1>13 DEF Move, cmd_delete, variable_delete, cmd_return, Dies, vars
<1> QED BY <1>6, <1>7, <1>8, <1>9, <1>10, <1>11, <1>12, <1>13 DEF Next

\* The table implements the map: no statement loses a variable, writes to two,
\* changes a type, or writes to what "define" made but through a reference
THEOREM TableIsStore == Spec => IsStore
<1>1. Init => Store!Init
  <2>1. DOMAIN <<>> = {}  OBVIOUS
  <2>2. {<<>>[i].name : i \in DOMAIN <<>>} = {}  BY <2>1
  <2> QED BY <2>2 DEF Init, Store!Init, StoreOf
<1>2. IInv /\ [Next]_vars => [Store!Next]_(StoreOf(table))
  <2> SUFFICES ASSUME IInv, [Next]_vars PROVE Store!Next \/ StoreOf(table)' = StoreOf(table)
    OBVIOUS
  <2>1. Store!Next \/ table' = table  BY StoreStep DEF IInv
  <2> QED BY <2>1
<1> QED BY <1>1, <1>2, VariablesInvariant, PTL DEF Spec, IsStore, Store!Spec

-----------------------------------------------------------------------------
(* The variables of a message: tmp_variables.c.  The names N are any that   *)
(* name_cmp() orders, the contents C and the lengths L any.                 *)

TmpEntries(N, C, L) == [name : N, content : C, length : L]

LEMMA TmpNamed == ASSUME NEW N, NEW C, NEW L PROVE Named(TmpEntries(N, C, L), N)
BY DEF Named, TmpEntries

\* One of two entries belongs before the other, and what belongs before the
\* first also belongs before the second.
LEMMA EarlierOrders ==
    ASSUME NEW N, Ordered(N), NEW E, Named(E, N), NEW t \in Seq(E)
    PROVE  /\ \A i, j \in 1..Len(t) : i # j => Earlier(t, i, j) \/ Earlier(t, j, i)
           /\ \A i \in 1..Len(t) : ~Earlier(t, i, i)
           /\ \A i, j, k \in 1..Len(t) :
                Earlier(t, i, j) /\ Earlier(t, j, k) => Earlier(t, i, k)
<1> USE DEF Earlier
<1>0. Len(t) \in Nat /\ \A i \in 1..Len(t) : t[i].name \in N  BY NameType
<1>1. ASSUME NEW i \in 1..Len(t), NEW j \in 1..Len(t), i # j
      PROVE  Earlier(t, i, j) \/ Earlier(t, j, i)
  <2>1. /\ name_cmp(t[i].name, t[j].name) \in Int
        /\ name_cmp(t[i].name, t[j].name) = 0 <=> name_cmp(t[j].name, t[i].name) = 0
        /\ name_cmp(t[j].name, t[i].name) < 0 <=> name_cmp(t[i].name, t[j].name) > 0
    BY <1>0, Cmp
  <2> QED BY <1>0, <1>1, <2>1
<1>2. ASSUME NEW i \in 1..Len(t) PROVE ~Earlier(t, i, i)
  <2>1. name_cmp(t[i].name, t[i].name) = 0  BY <1>0, Cmp
  <2> QED BY <1>0, <2>1
<1>3. ASSUME NEW i \in 1..Len(t), NEW j \in 1..Len(t), NEW k \in 1..Len(t),
             Earlier(t, i, j), Earlier(t, j, k)
      PROVE  Earlier(t, i, k)
  <2> DEFINE a == t[i].name
             b == t[j].name
             c == t[k].name
  <2>1. a \in N /\ b \in N /\ c \in N  BY <1>0
  <2>2. /\ name_cmp(a, b) < 0 \/ (name_cmp(a, b) = 0 /\ i < j)
        /\ name_cmp(b, c) < 0 \/ (name_cmp(b, c) = 0 /\ j < k)
    BY <1>3
  <2>3. (name_cmp(a, b) = 0 <=> a = b) /\ (name_cmp(b, c) = 0 <=> b = c)
    BY <2>1, Cmp
  <2>4. name_cmp(a, b) < 0 /\ name_cmp(b, c) < 0 => name_cmp(a, c) < 0
    BY <2>1, CmpTransitive
  <2>5. name_cmp(a, c) < 0 \/ (name_cmp(a, c) = 0 /\ i < k)
    <3> HIDE DEF a, b, c, Earlier
    <3> QED BY <1>0, <2>2, <2>3, <2>4
  <2> QED BY <2>5
<1> QED BY <1>1, <1>2, <1>3

Distinct(t) == \A i, j \in 1..Len(t) : i # j => t[i].name # t[j].name

\* The entries of t and q are the same
SameEntries(t, q) ==
    /\ Len(q) = Len(t)
    /\ \A i \in 1..Len(t) : \E k \in 1..Len(t) : q[k] = t[i]
    /\ \A k \in 1..Len(t) : \E i \in 1..Len(t) : q[k] = t[i]

\* qsort() returns the entries of the table, in order when no two are equal.
LEMMA QsortIs ==
    ASSUME NEW N, Ordered(N), NEW E, Named(E, N), NEW t \in Seq(E), NEW q, q = qsort(t)
    PROVE  /\ q \in Seq(E) /\ Len(q) = Len(t) /\ SameEntries(t, q)
           /\ Distinct(t) => Sorted(q)
<1> DEFINE D == 1..Len(t)
           B(i) == {j \in D : Earlier(t, j, i)}
           f == [i \in D |-> Cardinality(B(i)) + 1]
<1>0. Len(t) \in Nat /\ DOMAIN t = D /\ IsFiniteSet(D) /\ Cardinality(D) = Len(t)
  <2>1. Len(t) \in Nat /\ DOMAIN t = D  OBVIOUS
  <2>2. IsFiniteSet(1..Len(t))
        /\ Cardinality(1..Len(t)) = IF 1 > Len(t) THEN 0 ELSE Len(t) - 1 + 1
    <3>1. 1 \in Int /\ Len(t) \in Int  BY <2>1
    <3> QED BY <3>1, FS_Interval
  <2> QED BY <2>1, <2>2
<1>1. \A i \in D : IsFiniteSet(B(i)) /\ Cardinality(B(i)) \in Nat
  <2> TAKE i \in D
  <2>1. B(i) \in SUBSET D  OBVIOUS
  <2> HIDE DEF D, B
  <2> QED BY <1>0, <2>1, FS_Subset, FS_CardinalityType
<1>2. ASSUME NEW i \in D, NEW j \in D, Earlier(t, i, j) PROVE f[i] < f[j]
  <2>1. B(i) \in SUBSET B(j) /\ i \in B(j) /\ i \notin B(i)  BY <1>2, EarlierOrders
  <2>2. Cardinality(B(i)) <= Cardinality(B(j)) /\ Cardinality(B(i)) # Cardinality(B(j))
    <3> HIDE DEF B, D
    <3> QED BY <1>1, <2>1, FS_Subset
  <2> HIDE DEF B, D
  <2> QED BY <1>1, <2>2 DEF f
<1>3. \A i \in D : f[i] \in D
  <2> TAKE i \in D
  <2>1. B(i) \in SUBSET D /\ i \in D /\ i \notin B(i)  BY EarlierOrders
  <2>2. Cardinality(B(i)) <= Cardinality(D) /\ Cardinality(B(i)) # Cardinality(D)
    <3> HIDE DEF B, D
    <3> QED BY <1>0, <2>1, FS_Subset
  <2>3. Cardinality(B(i)) + 1 \in 1..Len(t)
    <3> HIDE DEF B
    <3> QED BY <1>0, <1>1, <2>2
  <2> QED BY <2>3 DEF f
<1>4. \A i, j \in D : f[i] = f[j] => i = j
  <2> SUFFICES ASSUME NEW i \in D, NEW j \in D, f[i] = f[j], i # j PROVE FALSE
    OBVIOUS
  <2>1. f[i] \in Int /\ f[j] \in Int  BY <1>0, <1>3
  <2>2. Earlier(t, i, j) \/ Earlier(t, j, i)  BY EarlierOrders
  <2> HIDE DEF f
  <2> QED BY <1>2, <2>1, <2>2
<1>5. \A k \in D : \E i \in D : f[i] = k
  <2>1. f \in [D -> D]
    <3>1. f = [i \in D |-> f[i]]  OBVIOUS
    <3> HIDE DEF f, D
    <3> QED BY <1>3, <3>1
  <2> HIDE DEF f, D
  <2>2. f \in Injection(D, D)
    BY <1>4, <2>1 DEF Injection, IsInjective
  <2>3. f \in Surjection(D, D)  BY <1>0, <2>2, FS_Injection
  <2> QED BY <2>3 DEF Surjection
<1> DEFINE P == {<<f[i], i>> : i \in D}
           g(k) == (CHOOSE p \in P : p[1] = k)[2]
<1>6. \A k \in D : g(k) \in D /\ f[g(k)] = k
  <2> TAKE k \in D
  <2>1. PICK i \in D : f[i] = k  BY <1>5
  <2> HIDE DEF f, D
  <2>2. <<f[i], i>> \in P /\ <<f[i], i>>[1] = k  BY <2>1
  <2> DEFINE p == CHOOSE p1 \in P : p1[1] = k
  <2>3. p \in P /\ p[1] = k
    <3> HIDE DEF P
    <3> QED BY <2>2
  <2> HIDE DEF p
  <2>4. p[2] \in D /\ f[p[2]] = p[1]  BY <2>3
  <2>5. g(k) = p[2]  BY DEF p
  <2> QED BY <2>3, <2>4, <2>5
<1>7. q = [k \in D |-> t[g(k)]]
  <2> DEFINE R(i) == Cardinality({j \in DOMAIN t : Earlier(t, j, i)})
             S == {<<R(i) + 1, i>> : i \in DOMAIN t}
  <2>1. \A i \in D : R(i) + 1 = f[i]  BY <1>0
  <2>2. S = P
    <3> HIDE DEF R, f, D
    <3> QED BY <1>0, <2>1
  <2>3. q = [k \in DOMAIN t |-> t[(CHOOSE p \in S : p[1] = k)[2]]]
    BY DEF qsort
  <2> HIDE DEF S, P, D
  <2> QED BY <1>0, <2>2, <2>3
<1> HIDE DEF g, f
<1>8. /\ q \in Seq(E) /\ Len(q) = Len(t)
      /\ \A k \in D : q[k] = t[g(k)]
  <2>1. \A k \in D : t[g(k)] \in E  BY <1>6
  <2>2. q \in [1..Len(t) -> E]  BY <1>7, <2>1
  <2>3. \A k \in D : q[k] = t[g(k)]  BY <1>7
  <2> QED BY <1>0, <2>2, <2>3
<1>9. ASSUME NEW i \in D PROVE q[f[i]] = t[i] /\ f[i] \in D
  <2>1. f[i] \in D  BY <1>3
  <2>2. g(f[i]) = i  BY <1>4, <1>6, <2>1
  <2> QED BY <2>1, <2>2, <1>8
<1>10. ASSUME Distinct(t) PROVE Sorted(q)
  <2> SUFFICES ASSUME NEW k \in D, NEW l \in D, k < l
               PROVE  name_cmp(q[k].name, q[l].name) < 0
    BY <1>8 DEF Sorted
  <2>1. g(k) \in D /\ g(l) \in D /\ f[g(k)] = k /\ f[g(l)] = l  BY <1>6
  <2>2. g(k) # g(l)  BY <2>1, <1>0
  <2>3. ~Earlier(t, g(l), g(k))
    <3>1. Earlier(t, g(l), g(k)) => l < k  BY <1>2, <2>1
    <3> QED BY <1>0, <3>1
  <2>4. Earlier(t, g(k), g(l))  BY <2>1, <2>2, <2>3, EarlierOrders
  <2>5. name_cmp(t[g(k)].name, t[g(l)].name) # 0
    <3>1. t[g(k)].name \in N /\ t[g(l)].name \in N  BY <2>1, NameType
    <3>2. t[g(k)].name # t[g(l)].name  BY <2>1, <2>2, <1>10 DEF Distinct
    <3> QED BY <3>1, <3>2, Cmp
  <2>6. name_cmp(t[g(k)].name, t[g(l)].name) < 0  BY <2>4, <2>5 DEF Earlier
  <2> QED BY <2>6, <1>8
<1>11. SameEntries(t, q)  BY <1>6, <1>8, <1>9 DEF SameEntries
<1> QED BY <1>8, <1>10, <1>11

\* The states of tmp_variables.c, and the texts of its values
TmpTables(N, C, L) == [root : Seq(TmpEntries(N, C, L)), alloc : Nat, max : Nat]
Texts(C, L) == [content : C, size : L]

\* There is memory for every entry
Fits(N, C, L, s) == s \in TmpTables(N, C, L) /\ Len(s.root) <= s.alloc

LEMMA AddIs ==
    ASSUME NEW N, NEW C, NEW L, NEW s \in TmpTables(N, C, L), NEW n \in N,
           NEW x \in Texts(C, L), NEW t, t = tmp_variable_add(s, n, x)
    PROVE  /\ t \in TmpTables(N, C, L) /\ t.root = Append(s.root, Entry(n, x))
           /\ Entry(n, x) \in TmpEntries(N, C, L) /\ Len(t.root) = Len(s.root) + 1
           /\ Len(s.root) = 0 => t.alloc = NUM_TMP_VARS /\ t.max = NUM_TMP_VARS
           /\ Len(s.root) > 0 /\ Len(s.root) >= s.max =>
                t.alloc = Len(s.root) + NUM_TMP_VARS /\ t.max = s.max + NUM_TMP_VARS
           /\ Len(s.root) > 0 /\ Len(s.root) < s.max => t.alloc = s.alloc /\ t.max = s.max
<1>1. /\ s.root \in Seq(TmpEntries(N, C, L)) /\ s.alloc \in Nat /\ s.max \in Nat
      /\ s = [root |-> s.root, alloc |-> s.alloc, max |-> s.max]
  BY DEF TmpTables
<1>2. Len(s.root) \in Nat /\ NUM_TMP_VARS \in Nat  BY <1>1, TmpAssumption
<1>3. Entry(n, x) \in TmpEntries(N, C, L)  BY DEF Entry, Texts, TmpEntries
<1> DEFINE r == Append(s.root, Entry(n, x))
<1>4. r \in Seq(TmpEntries(N, C, L)) /\ Len(r) = Len(s.root) + 1  BY <1>1, <1>3
<1>5. CASE Len(s.root) = 0
  <2>1. t = [root |-> r, alloc |-> NUM_TMP_VARS, max |-> NUM_TMP_VARS]
    BY <1>1, <1>5 DEF tmp_variable_add
  <2> HIDE DEF r
  <2>2. t.root = r /\ t.alloc = NUM_TMP_VARS /\ t.max = NUM_TMP_VARS
        /\ t \in TmpTables(N, C, L)
    BY <2>1, <1>2, <1>4 DEF TmpTables
  <2> QED BY <2>2, <1>2, <1>3, <1>4, <1>5 DEF r
<1>6. CASE Len(s.root) # 0 /\ Len(s.root) >= s.max
  <2>1. t = [root |-> r, alloc |-> Len(s.root) + NUM_TMP_VARS, max |-> s.max + NUM_TMP_VARS]
    BY <1>1, <1>6 DEF tmp_variable_add
  <2> HIDE DEF r
  <2>2. t.root = r /\ t.alloc = Len(s.root) + NUM_TMP_VARS /\ t.max = s.max + NUM_TMP_VARS
        /\ t \in TmpTables(N, C, L)
    BY <2>1, <1>1, <1>2, <1>4 DEF TmpTables
  <2> QED BY <2>2, <1>1, <1>2, <1>3, <1>4, <1>6 DEF r
<1>7. CASE Len(s.root) # 0 /\ ~(Len(s.root) >= s.max)
  <2>1. t = [root |-> r, alloc |-> s.alloc, max |-> s.max]
    BY <1>1, <1>7 DEF tmp_variable_add
  <2> HIDE DEF r
  <2>2. t.root = r /\ t.alloc = s.alloc /\ t.max = s.max /\ t \in TmpTables(N, C, L)
    BY <2>1, <1>1, <1>4 DEF TmpTables
  <2> QED BY <2>2, <1>1, <1>2, <1>3, <1>4, <1>7 DEF r
<1> QED BY <1>5, <1>6, <1>7

LEMMA SortIs ==
    ASSUME NEW N, Ordered(N), NEW C, NEW L, NEW s \in TmpTables(N, C, L),
           NEW t, t = tmp_variable_sort(s)
    PROVE  /\ t \in TmpTables(N, C, L) /\ t.root = qsort(s.root) /\ Len(t.root) = Len(s.root)
           /\ t.alloc = s.alloc /\ t.max = s.max
<1>1. /\ s.root \in Seq(TmpEntries(N, C, L)) /\ s.alloc \in Nat /\ s.max \in Nat
      /\ s = [root |-> s.root, alloc |-> s.alloc, max |-> s.max]
  BY DEF TmpTables
<1>2. t = [root |-> qsort(s.root), alloc |-> s.alloc, max |-> s.max]
  BY <1>1 DEF tmp_variable_sort
<1>3. qsort(s.root) \in Seq(TmpEntries(N, C, L)) /\ Len(qsort(s.root)) = Len(s.root)
  BY <1>1, TmpNamed, QsortIs
<1> QED BY <1>1, <1>2, <1>3 DEF TmpTables

LEMMA DeleteIs ==
    ASSUME NEW N, NEW C, NEW L, NEW s \in TmpTables(N, C, L)
    PROVE  /\ tmp_variable_delete_all(s) \in TmpTables(N, C, L)
           /\ tmp_variable_delete_all(s).root = <<>>
           /\ tmp_variable_delete_all(s).alloc = 0
<1>1. s = [root |-> s.root, alloc |-> s.alloc, max |-> s.max] /\ s.max \in Nat
  BY DEF TmpTables
<1> DEFINE none == <<>>
<1>2. tmp_variable_delete_all(s) = [s EXCEPT !.root = none, !.alloc = 0]
  BY DEF tmp_variable_delete_all
<1>3. none \in Seq(TmpEntries(N, C, L))  OBVIOUS
<1> HIDE DEF none
<1>4. tmp_variable_delete_all(s) = [root |-> none, alloc |-> 0, max |-> s.max]
  BY <1>1, <1>2
<1>5. /\ tmp_variable_delete_all(s) \in TmpTables(N, C, L)
      /\ tmp_variable_delete_all(s).root = none /\ tmp_variable_delete_all(s).alloc = 0
  BY <1>1, <1>3, <1>4 DEF TmpTables
<1> QED BY <1>5 DEF none

\* A table in any order has a spot for a name, and the insertion makes it longer
LEMMA Longer ==
    ASSUME NEW N, Ordered(N), NEW E, Named(E, N), NEW t \in Seq(E), NEW e \in E
    PROVE  Insert(t, e) \in Seq(E) /\ Len(Insert(t, e)) = Len(t) + 1
<1> DEFINE n == e.name
           OK(i) == /\ \A j \in 1..(i - 1) : name_cmp(t[j].name, n) < 0
                    /\ i <= Len(t) => name_cmp(t[i].name, n) >= 0
           S == {i \in 1..(Len(t) + 1) : i <= Len(t) => name_cmp(t[i].name, n) >= 0}
<1>0. /\ Len(t) \in Nat /\ n \in N /\ \A k \in 1..Len(t) : t[k].name \in N
  BY NameType DEF Named
<1>1. \E i \in 1..(Len(t) + 1) : OK(i)
  <2>1. S \in SUBSET Nat /\ Len(t) + 1 \in S  BY <1>0
  <2>2. Min(S) \in S /\ \A y \in S : Min(S) <= y
    <3> HIDE DEF S
    <3> QED BY <2>1, MinNat
  <2>3. \A j \in 1..(Min(S) - 1) : name_cmp(t[j].name, n) < 0
    <3> SUFFICES ASSUME NEW j \in 1..(Min(S) - 1) PROVE name_cmp(t[j].name, n) < 0
      OBVIOUS
    <3>1. j \in 1..Len(t) /\ j < Min(S)  BY <2>2, <1>0
    <3>2. j \notin S
      <4>1. Min(S) \in Nat /\ j \in Nat  BY <2>1, <2>2, <3>1, <1>0
      <4> HIDE DEF S
      <4> QED BY <2>2, <3>1, <4>1
    <3>3. name_cmp(t[j].name, n) \in Int  BY <1>0, <3>1, Cmp
    <3> QED BY <3>1, <3>2, <3>3, <1>0
  <2> QED BY <2>2, <2>3
<1>2. Spot(t, n) \in 1..(Len(t) + 1)  BY <1>1 DEF Spot
<1> DEFINE s == Spot(t, n)
           A == SubSeq(t, 1, s - 1)
           B == SubSeq(t, s, Len(t))
<1>3. Insert(t, e) = A \o <<e>> \o B  BY DEF Insert, InsertAt
<1> HIDE DEF s, n, OK, S
<1>4. A \in Seq(E) /\ Len(A) = s - 1 /\ B \in Seq(E) /\ Len(B) = Len(t) - s + 1
  BY <1>0, <1>2 DEF s
<1> HIDE DEF A, B
<1>5. A \o <<e>> \in Seq(E) /\ Len(A \o <<e>>) = Len(A) + 1  BY <1>4
<1> DEFINE D == A \o <<e>>
<1> HIDE DEF D
<1>6. D \o B \in Seq(E) /\ Len(D \o B) = Len(D) + Len(B)
  BY <1>4, <1>5, Joined DEF D
<1>7. s \in Int  BY <1>0, <1>2 DEF s
<1>8. Insert(t, e) = D \o B /\ Len(D) = Len(A) + 1  BY <1>3, <1>5 DEF D
<1> QED BY <1>0, <1>4, <1>6, <1>7, <1>8

\* Setting n to x turns the table of s into that of t
PutRoot(s, t, n, x) ==
    /\ s.root = <<>> => t.root = <<Entry(n, x)>>
    /\ s.root # <<>> /\ bsearch(s.root, n) # 0 =>
         t.root = [s.root EXCEPT ![bsearch(s.root, n)].content = x.content]
    /\ s.root # <<>> /\ bsearch(s.root, n) = 0 => t.root = Insert(s.root, Entry(n, x))

LEMMA TmpPutIs ==
    ASSUME NEW N, Ordered(N), NEW C, NEW L, NEW s \in TmpTables(N, C, L),
           NEW n \in N, NEW x \in Texts(C, L), NEW t, t = tmp_variable_put(s, n, x)
    PROVE  /\ t \in TmpTables(N, C, L)
           /\ Len(s.root) <= s.alloc => Len(t.root) <= t.alloc
           /\ PutRoot(s, t, n, x)
<1> DEFINE E == TmpEntries(N, C, L)
           e == Entry(n, x)
           i == bsearch(s.root, n)
<1>1. /\ s.root \in Seq(E) /\ s.alloc \in Nat /\ s.max \in Nat
      /\ s = [root |-> s.root, alloc |-> s.alloc, max |-> s.max]
  BY DEF TmpTables
<1>2. e \in E /\ Len(s.root) \in Nat  BY <1>1 DEF Entry, Texts, TmpEntries
<1>3. CASE s.root = <<>>
  <2>1. t = [root |-> <<e>>, alloc |-> 1, max |-> s.max]
    BY <1>1, <1>3 DEF tmp_variable_put
  <2> HIDE DEF e
  <2>2. t.root = <<e>> /\ t.alloc = 1 /\ <<e>> \in Seq(E) /\ Len(<<e>>) = 1
    BY <1>2, <2>1
  <2>3. t \in TmpTables(N, C, L)  BY <1>1, <2>1, <2>2 DEF TmpTables
  <2> QED BY <1>3, <2>2, <2>3 DEF e, PutRoot
<1>4. CASE s.root # <<>> /\ i # 0
  <2> DEFINE r == [s.root EXCEPT ![i].content = x.content]
  <2>1. t = [root |-> r, alloc |-> s.alloc, max |-> s.max]
    BY <1>1, <1>4 DEF tmp_variable_put
  <2>2. r \in Seq(E) /\ Len(r) = Len(s.root)
    <3>1. r = [k \in 1..Len(s.root) |->
                 IF k = i THEN [s.root[k] EXCEPT !.content = x.content] ELSE s.root[k]]
      BY <1>1
    <3>2. \A k \in 1..Len(s.root) :
             s.root[k] \in E /\ [s.root[k] EXCEPT !.content = x.content] \in E
      <4> TAKE k \in 1..Len(s.root)
      <4>1. s.root[k] \in E  BY <1>1
      <4>2. x.content \in C  BY DEF Texts
      <4>3. \A d \in E : [d EXCEPT !.content = x.content] \in E  BY <4>2 DEF TmpEntries
      <4> QED BY <4>1, <4>3
    <3> HIDE DEF r, i, E
    <3>3. r \in [1..Len(s.root) -> E]  BY <3>1, <3>2
    <3> QED BY <1>2, <3>3
  <2> HIDE DEF r
  <2>3. t.root = r /\ t.alloc = s.alloc /\ t \in TmpTables(N, C, L)
    BY <1>1, <2>1, <2>2 DEF TmpTables
  <2> QED BY <1>4, <2>2, <2>3 DEF r, PutRoot
<1>5. CASE s.root # <<>> /\ i = 0
  <2> DEFINE r == Insert(s.root, e)
  <2>1. t = [root |-> r, alloc |-> Len(s.root) + 1, max |-> s.max]
    BY <1>1, <1>5 DEF tmp_variable_put
  <2>2. r \in Seq(E) /\ Len(r) = Len(s.root) + 1
    BY <1>1, <1>2, TmpNamed, Longer
  <2> HIDE DEF r
  <2>3. t.root = r /\ t.alloc = Len(s.root) + 1 /\ t \in TmpTables(N, C, L)
    BY <1>1, <1>2, <2>1, <2>2 DEF TmpTables
  <2> QED BY <1>2, <1>5, <2>2, <2>3 DEF r, PutRoot
<1> QED BY <1>3, <1>4, <1>5

LEMMA PutFits ==
    ASSUME NEW N, Ordered(N), NEW C, NEW L, NEW s \in TmpTables(N, C, L),
           NEW n \in N, NEW x \in Texts(C, L), Len(s.root) <= s.alloc
    PROVE  Fits(N, C, L, tmp_variable_put(s, n, x))
BY TmpPutIs DEF Fits

LEMMA AllNumbers ==
    ASSUME NEW S \in SUBSET Nat, 0 \in S, \A i \in S : i + 1 \in S
    PROVE  \A i \in Nat : i \in S
<1> DEFINE W == Nat \ S
<1> SUFFICES ASSUME W # {} PROVE FALSE  OBVIOUS
<1>1. W \in SUBSET Nat  OBVIOUS
<1>2. Min(W) \in W /\ \A y \in W : Min(W) <= y
  <2> HIDE DEF W
  <2> QED BY <1>1, MinNat
<1>3. Min(W) - 1 \in S /\ (Min(W) - 1) + 1 = Min(W)
  <2>1. Min(W) \in Nat /\ Min(W) # 0  BY <1>2
  <2>2. Min(W) - 1 \in Nat /\ ~(Min(W) <= Min(W) - 1) /\ (Min(W) - 1) + 1 = Min(W)
    <3> HIDE DEF W
    <3> QED BY <2>1
  <2>3. Min(W) - 1 \notin W
    <3> HIDE DEF W
    <3> QED BY <1>2, <2>2
  <2> QED BY <2>2, <2>3
<1>4. Min(W) \in S
  <2> HIDE DEF W
  <2> QED BY <1>3
<1> QED BY <1>2, <1>4

\* Function op of tmp_variables.c turns s into t
Works(N, C, L, s, t, op) ==
    \/ op = "add" /\ \E n \in N, x \in Texts(C, L) : t = tmp_variable_add(s, n, x)
    \/ op = "put" /\ \E n \in N, x \in Texts(C, L) : t = tmp_variable_put(s, n, x)
    \/ op = "sort" /\ t = tmp_variable_sort(s)
    \/ op = "delete" /\ t = tmp_variable_delete_all(s)

\* The maximum says for how many entries there is memory
Added(s) == Len(s.root) = 0 \/ (s.alloc = s.max /\ Len(s.root) <= s.max)

LEMMA WorkFits ==
    ASSUME NEW N, Ordered(N), NEW C, NEW L, NEW s, NEW t, NEW op,
           Fits(N, C, L, s), Works(N, C, L, s, t, op), op = "add" => Added(s)
    PROVE  /\ Fits(N, C, L, t)
           /\ op = "add" \/ op = "delete" \/ (op = "sort" /\ Added(s)) => Added(t)
<1>1. /\ s \in TmpTables(N, C, L) /\ Len(s.root) <= s.alloc
      /\ s.alloc \in Nat /\ s.max \in Nat /\ Len(s.root) \in Nat
  BY DEF Fits, TmpTables
<1>2. CASE op = "add"
  <2>1. PICK n \in N, x \in Texts(C, L) : t = tmp_variable_add(s, n, x)
    BY <1>2 DEF Works
  <2>2. /\ t \in TmpTables(N, C, L) /\ Len(t.root) = Len(s.root) + 1
        /\ Len(s.root) = 0 => t.alloc = NUM_TMP_VARS /\ t.max = NUM_TMP_VARS
        /\ Len(s.root) > 0 /\ Len(s.root) >= s.max =>
             t.alloc = Len(s.root) + NUM_TMP_VARS /\ t.max = s.max + NUM_TMP_VARS
        /\ Len(s.root) > 0 /\ Len(s.root) < s.max => t.alloc = s.alloc /\ t.max = s.max
    BY <1>1, <2>1, AddIs
  <2>3. Len(s.root) = 0 \/ (s.alloc = s.max /\ Len(s.root) <= s.max)
    BY <1>2 DEF Added
  <2>4. Len(t.root) <= t.alloc /\ t.alloc = t.max
    BY <1>1, <2>2, <2>3, TmpAssumption
  <2> QED BY <2>2, <2>4 DEF Fits, Added
<1>3. CASE op = "put"
  <2>1. PICK n \in N, x \in Texts(C, L) : t = tmp_variable_put(s, n, x)
    BY <1>3 DEF Works
  <2>2. Fits(N, C, L, t)  BY <1>1, <2>1, PutFits
  <2> QED BY <1>3, <2>2
<1>4. CASE op = "sort"
  <2>1. t = tmp_variable_sort(s)  BY <1>4 DEF Works
  <2>2. t \in TmpTables(N, C, L) /\ Len(t.root) = Len(s.root)
        /\ t.alloc = s.alloc /\ t.max = s.max
    BY <1>1, <2>1, SortIs
  <2> QED BY <1>1, <1>4, <2>2 DEF Fits, Added
<1>5. CASE op = "delete"
  <2>1. t = tmp_variable_delete_all(s)  BY <1>5 DEF Works
  <2>2. t \in TmpTables(N, C, L) /\ t.root = <<>> /\ t.alloc = 0
    BY <1>1, <2>1, DeleteIs
  <2>3. Len(t.root) = 0  BY <2>2
  <2> QED BY <2>2, <2>3 DEF Fits, Added
<1> QED BY <1>2, <1>3, <1>4, <1>5 DEF Works

\* Before the i-th call of a history, a variable was set since the last delete
WasSet(op, i) == \E k \in Nat : /\ k < i /\ op[k] = "put"
                                /\ \A m \in k..(i - 1) : op[m] # "delete"

LEMMA WasSetNext ==
    ASSUME NEW op, NEW i \in Nat
    PROVE  /\ op[i] = "put" => WasSet(op, i + 1)
           /\ WasSet(op, i) /\ op[i] # "delete" => WasSet(op, i + 1)
<1>1. ASSUME op[i] = "put" PROVE WasSet(op, i + 1)
  <2>1. i < i + 1 /\ \A m \in i..((i + 1) - 1) : m = i  OBVIOUS
  <2> QED BY <1>1, <2>1 DEF WasSet
<1>2. ASSUME WasSet(op, i), op[i] # "delete" PROVE WasSet(op, i + 1)
  <2>1. PICK k \in Nat : k < i /\ op[k] = "put" /\ \A m \in k..(i - 1) : op[m] # "delete"
    BY <1>2 DEF WasSet
  <2>2. k < i + 1 /\ \A m \in k..((i + 1) - 1) : m = i \/ m \in k..(i - 1)  BY <2>1
  <2>3. \A m \in k..((i + 1) - 1) : op[m] # "delete"  BY <1>2, <2>1, <2>2
  <2> QED BY <2>1, <2>2, <2>3 DEF WasSet
<1> QED BY <1>1, <1>2

\* However the variables of messages are added, set, sorted and deleted, there is
\* memory for every entry, as long as none is added to a table into which one was
\* set: tmp_variable_add() goes by a maximum that tmp_variable_put() does not know.
THEOREM TableFits ==
    ASSUME NEW N, Ordered(N), NEW C, NEW L, NEW tmp, NEW op, tmp[0] = NoTmp,
           \A i \in Nat : Works(N, C, L, tmp[i], tmp[i + 1], op[i]),
           \A i, j \in Nat : i < j /\ op[i] = "put" /\ op[j] = "add" =>
                                \E k \in i..j : op[k] = "delete"
    PROVE  \A i \in Nat : Len(tmp[i].root) <= tmp[i].alloc
<1> DEFINE S == {i \in Nat : Fits(N, C, L, tmp[i]) /\ (WasSet(op, i) \/ Added(tmp[i]))}
<1>1. Fits(N, C, L, NoTmp) /\ Added(NoTmp)
  <2> DEFINE none == <<>>
  <2>1. none \in Seq(TmpEntries(N, C, L)) /\ Len(none) = 0  OBVIOUS
  <2>2. NoTmp = [root |-> none, alloc |-> 0, max |-> 0]  BY DEF NoTmp
  <2> HIDE DEF none
  <2> QED BY <2>1, <2>2 DEF TmpTables, Fits, Added
<1>2. ASSUME NEW i \in S PROVE i + 1 \in S
  <2>1. /\ i \in Nat /\ i + 1 \in Nat
        /\ Fits(N, C, L, tmp[i]) /\ (WasSet(op, i) \/ Added(tmp[i]))
    OBVIOUS
  <2> HIDE DEF S
  <2>2. Works(N, C, L, tmp[i], tmp[i + 1], op[i])  BY <2>1
  <2>3. op[i] = "add" => ~WasSet(op, i)
    <3> SUFFICES ASSUME op[i] = "add", WasSet(op, i) PROVE FALSE  OBVIOUS
    <3>1. PICK k \in Nat : k < i /\ op[k] = "put" /\ \A m \in k..(i - 1) : op[m] # "delete"
      BY DEF WasSet
    <3>2. PICK m \in k..i : op[m] = "delete"  BY <2>1, <3>1
    <3>3. m # i  BY <3>2
    <3>4. m \in k..(i - 1)  BY <2>1, <3>2, <3>3
    <3> QED BY <3>1, <3>2, <3>4
  <2>4. /\ Fits(N, C, L, tmp[i + 1])
        /\ op[i] = "add" \/ op[i] = "delete" \/ (op[i] = "sort" /\ Added(tmp[i]))
             => Added(tmp[i + 1])
    BY <2>1, <2>2, <2>3, WorkFits
  <2>5. op[i] \in {"add", "put", "sort", "delete"}  BY <2>2 DEF Works
  <2>6. WasSet(op, i + 1) \/ Added(tmp[i + 1])  BY <2>1, <2>4, <2>5, WasSetNext
  <2> QED BY <2>1, <2>4, <2>6 DEF S
<1>3. \A i \in Nat : i \in S
  <2>1. S \in SUBSET Nat /\ 0 \in S  BY <1>1
  <2> HIDE DEF S
  <2> QED BY <1>2, <2>1, AllNumbers
<1> QED BY <1>3 DEF Fits

\* In a table in order every name that is there is found, with its text
LEMMA TmpGetIs ==
    ASSUME NEW N, Ordered(N), NEW C, NEW L, NEW s \in TmpTables(N, C, L), Sorted(s.root),
           NEW n \in N
    PROVE  /\ \A k \in 1..Len(s.root) : s.root[k].name = n =>
                /\ bsearch(s.root, n) = k
                /\ tmp_variable_get(s, n) = <<Text(s.root[k].content, s.root[k].length)>>
           /\ ~Has(s.root, n) => bsearch(s.root, n) = 0 /\ tmp_variable_get(s, n) = NoText
<1>1. s.root \in Seq(TmpEntries(N, C, L)) /\ Len(s.root) \in Nat  BY DEF TmpTables
<1>2. /\ \A k \in 1..Len(s.root) : s.root[k].name = n => bsearch(s.root, n) = k
      /\ ~Has(s.root, n) => bsearch(s.root, n) = 0
  BY <1>1, TmpNamed, Searched
<1>3. \A k \in 1..Len(s.root) : k # 0  BY <1>1
<1> QED BY <1>2, <1>3 DEF tmp_variable_get

LEMMA AddNext ==
    ASSUME NEW N, Ordered(N), NEW C, NEW L, NEW s, Fits(N, C, L, s), Added(s), NEW n \in N,
           NEW x \in Texts(C, L), NEW t, t = tmp_variable_add(s, n, x)
    PROVE  /\ Fits(N, C, L, t) /\ Added(t) /\ Len(t.root) = Len(s.root) + 1
           /\ \A j \in 1..Len(s.root) : t.root[j] = s.root[j]
           /\ t.root[Len(s.root) + 1] = Entry(n, x)
<1> DEFINE E == TmpEntries(N, C, L)
           e == Entry(n, x)
           r == s.root
<1>1. Works(N, C, L, s, t, "add")  BY DEF Works
<1>2. Fits(N, C, L, t) /\ Added(t)  BY <1>1, WorkFits
<1>3. s \in TmpTables(N, C, L) /\ r \in Seq(E)  BY DEF Fits, TmpTables
<1>4. t.root = Append(r, e) /\ e \in E  BY <1>3, AddIs
<1> HIDE DEF E, e, r
<1>5. /\ Len(Append(r, e)) = Len(r) + 1 /\ Append(r, e)[Len(r) + 1] = e
      /\ \A j \in 1..Len(r) : Append(r, e)[j] = r[j]
  BY <1>3, <1>4
<1> QED BY <1>2, <1>4, <1>5 DEF r, e

\* What is in s and nothing else is found in t
FoundIn(N, s, t) ==
    /\ \A i \in 1..Len(s.root) :
         tmp_variable_get(t, s.root[i].name) = <<Text(s.root[i].content, s.root[i].length)>>
    /\ \A n \in N : ~Has(s.root, n) => tmp_variable_get(t, n) = NoText

\* After the sort every name is found that was there once
LEMMA SortedFound ==
    ASSUME NEW N, Ordered(N), NEW C, NEW L, NEW s \in TmpTables(N, C, L),
           Distinct(s.root),
           NEW t, t = tmp_variable_sort(s)
    PROVE  /\ Len(t.root) = Len(s.root) /\ t.alloc = s.alloc /\ Sorted(t.root)
           /\ FoundIn(N, s, t)
<1> DEFINE E == TmpEntries(N, C, L)
           r == s.root
           q == t.root
<1>1. r \in Seq(E) /\ Len(r) \in Nat /\ Named(E, N)  BY TmpNamed DEF TmpTables
<1>2. t \in TmpTables(N, C, L) /\ q = qsort(r) /\ t.alloc = s.alloc  BY SortIs
<1>3. Distinct(r)  OBVIOUS
<1> HIDE DEF E, r, q
<1>4. Len(q) = Len(r) /\ Sorted(q) /\ SameEntries(r, q)
  BY <1>1, <1>2, <1>3, QsortIs
<1>5. ASSUME NEW i \in 1..Len(r)
      PROVE  tmp_variable_get(t, r[i].name) = <<Text(r[i].content, r[i].length)>>
  <2>1. PICK m \in 1..Len(r) : q[m] = r[i]  BY <1>4 DEF SameEntries
  <2>2. r[i].name \in N /\ m \in 1..Len(q)  BY <1>1, <1>4, NameType
  <2> DEFINE n == r[i].name
  <2>3. n \in N /\ q[m].name = n  BY <2>1, <2>2
  <2> HIDE DEF n
  <2>4. tmp_variable_get(t, n) = <<Text(q[m].content, q[m].length)>>
    BY <1>2, <1>4, <2>2, <2>3, TmpGetIs DEF q
  <2> QED BY <2>1, <2>4 DEF n
<1>6. ASSUME NEW n \in N, ~Has(r, n) PROVE tmp_variable_get(t, n) = NoText
  <2>1. ~Has(q, n)
    <3> SUFFICES ASSUME NEW m \in 1..Len(q), q[m].name = n PROVE FALSE  BY DEF Has
    <3>1. PICK i \in 1..Len(r) : q[m] = r[i]  BY <1>4 DEF SameEntries
    <3> QED BY <1>6, <3>1 DEF Has
  <2> QED BY <1>2, <1>4, <2>1, TmpGetIs DEF q
<1>7. FoundIn(N, s, t)  BY <1>5, <1>6 DEF FoundIn, r
<1> QED BY <1>2, <1>4, <1>7 DEF r, q

\* A message of any number of variables with names of their own, added to the
\* emptied table one by one and sorted at the end, has one entry for each, in
\* memory, and tmp_variable_get() finds each with its text and no other, whatever
\* their order, however the hashes collide and however large the table was before.
THEOREM MessageVariables ==
    ASSUME NEW N, Ordered(N), NEW C, NEW L, NEW old \in TmpTables(N, C, L), NEW k \in Nat,
           NEW name \in [1..k -> N], IsInjective(name),
           NEW text \in [1..k -> Texts(C, L)],
           NEW tmp, tmp[0] = tmp_variable_delete_all(old),
           \A i \in 1..k : tmp[i] = tmp_variable_add(tmp[i - 1], name[i], text[i]),
           NEW s, s = tmp_variable_sort(tmp[k])
    PROVE  /\ Len(s.root) = k /\ k <= s.alloc /\ Sorted(s.root)
           /\ \A i \in 1..k : tmp_variable_get(s, name[i]) = <<text[i]>>
           /\ \A n \in N : (\A i \in 1..k : name[i] # n) => tmp_variable_get(s, n) = NoText
<1> DEFINE Made(i) == /\ Fits(N, C, L, tmp[i]) /\ Added(tmp[i]) /\ Len(tmp[i].root) = i
                      /\ \A j \in 1..i : tmp[i].root[j] = Entry(name[j], text[j])
           S == {i \in Nat : i <= k => Made(i)}
<1>1. Made(0)
  <2>1. tmp[0] \in TmpTables(N, C, L) /\ tmp[0].root = <<>> /\ tmp[0].alloc = 0
    BY DeleteIs
  <2>2. Len(tmp[0].root) = 0 /\ 1..0 = {}  BY <2>1
  <2> QED BY <2>1, <2>2 DEF Fits, Added
<1>2. ASSUME NEW i \in Nat, i + 1 <= k, Made(i) PROVE Made(i + 1)
  <2>1. /\ i + 1 \in 1..k /\ (i + 1) - 1 = i
        /\ name[i + 1] \in N /\ text[i + 1] \in Texts(C, L)
    BY <1>2
  <2>2. tmp[i + 1] = tmp_variable_add(tmp[i], name[i + 1], text[i + 1])  BY <2>1
  <2>3. /\ Fits(N, C, L, tmp[i + 1]) /\ Added(tmp[i + 1]) /\ Len(tmp[i + 1].root) = i + 1
        /\ \A j \in 1..i : tmp[i + 1].root[j] = tmp[i].root[j]
        /\ tmp[i + 1].root[i + 1] = Entry(name[i + 1], text[i + 1])
    <3> DEFINE a == tmp[i]
               b == tmp[i + 1]
    <3>1. Fits(N, C, L, a) /\ Added(a) /\ Len(a.root) = i  BY <1>2
    <3>2. b = tmp_variable_add(a, name[i + 1], text[i + 1])  BY <2>2
    <3> HIDE DEF a, b
    <3>3. /\ Fits(N, C, L, b) /\ Added(b) /\ Len(b.root) = Len(a.root) + 1
          /\ \A j \in 1..Len(a.root) : b.root[j] = a.root[j]
          /\ b.root[Len(a.root) + 1] = Entry(name[i + 1], text[i + 1])
      BY <2>1, <3>1, <3>2, AddNext
    <3> QED BY <3>1, <3>3 DEF a, b
  <2>4. \A j \in 1..(i + 1) : j = i + 1 \/ j \in 1..i  BY <1>2
  <2> QED BY <1>2, <2>3, <2>4
<1>3. Made(k)
  <2>1. S \in SUBSET Nat  OBVIOUS
  <2> HIDE DEF Made
  <2>2. 0 \in S  BY <1>1
  <2>3. ASSUME NEW i \in S PROVE i + 1 \in S
    <3>1. i \in Nat /\ i + 1 \in Nat /\ (i <= k => Made(i))  OBVIOUS
    <3>2. i + 1 <= k => i <= k  BY <3>1
    <3>3. i + 1 <= k => Made(i + 1)  BY <1>2, <3>1, <3>2
    <3> QED BY <3>1, <3>3
  <2>4. \A i \in Nat : i \in S
    <3> HIDE DEF S
    <3> QED BY <2>1, <2>2, <2>3, AllNumbers
  <2> QED BY <2>4
<1> DEFINE r == tmp[k].root
<1>4. /\ tmp[k] \in TmpTables(N, C, L) /\ Len(r) <= tmp[k].alloc
      /\ Len(r) = k /\ \A j \in 1..k : r[j] = Entry(name[j], text[j])
  BY <1>3 DEF Fits
<1>5. \A j \in 1..k : r[j].name = name[j] /\ r[j].content = text[j].content
                      /\ r[j].length = text[j].size
  <2>1. \A n, x : /\ Entry(n, x).name = n /\ Entry(n, x).content = x.content
                  /\ Entry(n, x).length = x.size
    BY DEF Entry
  <2> QED BY <1>4, <2>1
<1>6. Distinct(r)
  <2>1. \A i, j \in 1..k : name[i] = name[j] => i = j  BY DEF IsInjective
  <2> QED BY <1>4, <1>5, <2>1 DEF Distinct
<1>7. /\ Len(s.root) = Len(r) /\ s.alloc = tmp[k].alloc /\ Sorted(s.root)
      /\ FoundIn(N, tmp[k], s)
  BY <1>4, <1>6, SortedFound
<1> HIDE DEF r
<1>8. \A i \in 1..k : <<Text(r[i].content, r[i].length)>> = <<text[i]>>
  <2> TAKE i \in 1..k
  <2>1. text[i] = [content |-> text[i].content, size |-> text[i].size]  BY DEF Texts
  <2> QED BY <1>5, <2>1 DEF Text
<1>9. \A n \in N : (\A i \in 1..k : name[i] # n) => ~Has(r, n)  BY <1>4, <1>5 DEF Has
<1>10. \A i \in 1..k : tmp_variable_get(s, name[i]) = <<text[i]>>
  <2> TAKE i \in 1..k
  <2>1. tmp_variable_get(s, r[i].name) = <<Text(r[i].content, r[i].length)>>
    BY <1>4, <1>7 DEF FoundIn, r
  <2>2. r[i].name = name[i]  BY <1>5
  <2> QED BY <1>8, <2>1, <2>2
<1>11. \A n \in N : (\A i \in 1..k : name[i] # n) => tmp_variable_get(s, n) = NoText
  BY <1>7, <1>9 DEF FoundIn, r
<1>12. Len(s.root) = k /\ k <= s.alloc  BY <1>4, <1>7
<1> QED BY <1>7, <1>10, <1>11, <1>12

\* Setting a variable in a table in order keeps it in order and in memory, is read
\* back, and leaves every other variable alone; a variable that exists keeps the
\* length it had.
THEOREM SetReadsBack ==
    ASSUME NEW N, Ordered(N), NEW C, NEW L, NEW s \in TmpTables(N, C, L), Sorted(s.root),
           Len(s.root) <= s.alloc, NEW n \in N, NEW x \in Texts(C, L),
           NEW t, t = tmp_variable_put(s, n, x)
    PROVE  /\ t \in TmpTables(N, C, L) /\ Sorted(t.root) /\ Len(t.root) <= t.alloc
           /\ tmp_variable_get(s, n) = NoText => tmp_variable_get(t, n) = <<x>>
           /\ tmp_variable_get(s, n) # NoText =>
                tmp_variable_get(t, n) = <<Text(x.content, tmp_variable_get(s, n)[1].size)>>
           /\ \A m \in N \ {n} : tmp_variable_get(t, m) = tmp_variable_get(s, m)
<1> DEFINE E == TmpEntries(N, C, L)
           e == Entry(n, x)
           r == s.root
           q == t.root
<1>0. r \in Seq(E) /\ Len(r) \in Nat /\ Sorted(r) /\ Named(E, N)  BY TmpNamed DEF TmpTables
<1>1. /\ t \in TmpTables(N, C, L) /\ Len(q) <= t.alloc
      /\ r = <<>> => q = <<e>>
      /\ r # <<>> /\ bsearch(r, n) # 0 => q = [r EXCEPT ![bsearch(r, n)].content = x.content]
      /\ r # <<>> /\ bsearch(r, n) = 0 => q = Insert(r, e)
  <2>1. /\ t \in TmpTables(N, C, L) /\ PutRoot(s, t, n, x)
        /\ Len(s.root) <= s.alloc => Len(t.root) <= t.alloc
    BY TmpPutIs
  <2> QED BY <2>1 DEF PutRoot
<1>2. /\ e \in E /\ e.name = n /\ e.content = x.content /\ e.length = x.size
      /\ x = [content |-> x.content, size |-> x.size] /\ x.content \in C
  BY DEF Entry, Texts, TmpEntries
<1>3. q \in Seq(E)  BY <1>1 DEF TmpTables
<1> HIDE DEF E, e, r, q
<1>4. CASE Has(r, n)
  <2>1. PICK k \in 1..Len(r) : r[k].name = n  BY <1>4 DEF Has
  <2>2. r # <<>> /\ bsearch(r, n) = k /\ k # 0
        /\ tmp_variable_get(s, n) = <<Text(r[k].content, r[k].length)>>
    BY <1>0, <2>1, TmpGetIs DEF r
  <2>3. q = [r EXCEPT ![k].content = x.content]  BY <1>1, <2>2
  <2>4. /\ Len(q) = Len(r)
        /\ \A i \in 1..Len(r) : q[i] = IF i = k THEN [r[i] EXCEPT !.content = x.content]
                                       ELSE r[i]
    BY <1>0, <2>1, <2>3
  <2>5. r[k] \in E  BY <1>0, <2>1
  <2>6. q[k].name = n /\ q[k].content = x.content /\ q[k].length = r[k].length
    BY <2>1, <2>4, <2>5 DEF E, TmpEntries
  <2>7. \A i \in 1..Len(r) : q[i].name = r[i].name  BY <2>1, <2>4, <2>6
  <2>8. Sorted(q)  BY <1>0, <2>4, <2>7 DEF Sorted
  <2>9. tmp_variable_get(t, n) = <<Text(x.content, r[k].length)>>
    BY <1>1, <2>1, <2>4, <2>6, <2>8, TmpGetIs DEF q
  <2>10. ASSUME NEW m \in N \ {n}
         PROVE  tmp_variable_get(t, m) = tmp_variable_get(s, m)
    <3>1. CASE Has(r, m)
      <4>1. PICK i \in 1..Len(r) : r[i].name = m  BY <3>1 DEF Has
      <4>2. i # k /\ q[i] = r[i]  BY <2>1, <2>4, <4>1
      <4>3. tmp_variable_get(s, m) = <<Text(r[i].content, r[i].length)>>
        BY <1>0, <4>1, TmpGetIs DEF r
      <4>4. tmp_variable_get(t, m) = <<Text(q[i].content, q[i].length)>>
        BY <1>1, <2>4, <2>8, <4>1, <4>2, TmpGetIs DEF q
      <4> QED BY <4>2, <4>3, <4>4
    <3>2. CASE ~Has(r, m)
      <4>1. ~Has(q, m)  BY <2>4, <2>7, <3>2 DEF Has
      <4>2. tmp_variable_get(s, m) = NoText  BY <1>0, <3>2, TmpGetIs DEF r
      <4>3. tmp_variable_get(t, m) = NoText  BY <1>1, <2>8, <4>1, TmpGetIs DEF q
      <4> QED BY <4>2, <4>3
    <3> QED BY <3>1, <3>2
  <2>11. tmp_variable_get(s, n) # NoText /\ tmp_variable_get(s, n)[1].size = r[k].length
    BY <2>2 DEF NoText, Text
  <2> QED BY <1>1, <2>8, <2>9, <2>10, <2>11 DEF q
<1>5. CASE ~Has(r, n)
  <2>1. bsearch(r, n) = 0 /\ tmp_variable_get(s, n) = NoText
    BY <1>0, <1>5, TmpGetIs DEF r
  <2>2. /\ Sorted(q)
        /\ \A k \in 1..Len(r) : \E j \in 1..Len(q) : q[j] = r[k]
        /\ \A j \in 1..Len(q) : q[j] = e \/ \E k \in 1..Len(r) : q[j] = r[k]
        /\ \E j \in 1..Len(q) : q[j] = e
    <3>1. CASE r = <<>>
      <4>1. q = <<e>> /\ Len(q) = 1 /\ q[1] = e /\ Len(r) = 0  BY <1>1, <3>1
      <4> QED BY <4>1 DEF Sorted
    <3>2. CASE r # <<>>
      <4>1. q = Insert(r, e)  BY <1>1, <2>1, <3>2
      <4> QED BY <1>0, <1>2, <1>5, <4>1, Grown
    <3> QED BY <3>1, <3>2
  <2>3. tmp_variable_get(t, n) = <<x>>
    <3>1. PICK j \in 1..Len(q) : q[j] = e  BY <2>2
    <3>2. tmp_variable_get(t, n) = <<Text(q[j].content, q[j].length)>>
      BY <1>1, <1>2, <2>2, <3>1, TmpGetIs DEF q
    <3> QED BY <1>2, <3>1, <3>2 DEF Text
  <2>4. ASSUME NEW m \in N \ {n}
        PROVE  tmp_variable_get(t, m) = tmp_variable_get(s, m)
    <3>1. CASE Has(r, m)
      <4>1. PICK i \in 1..Len(r) : r[i].name = m  BY <3>1 DEF Has
      <4>2. PICK j \in 1..Len(q) : q[j] = r[i]  BY <2>2
      <4>3. tmp_variable_get(s, m) = <<Text(r[i].content, r[i].length)>>
        BY <1>0, <4>1, TmpGetIs DEF r
      <4>4. tmp_variable_get(t, m) = <<Text(q[j].content, q[j].length)>>
        <5>1. t \in TmpTables(N, C, L) /\ Sorted(q) /\ q[j].name = m
          BY <1>1, <2>2, <4>1, <4>2
        <5> QED BY <5>1, TmpGetIs DEF q
      <4> QED BY <4>2, <4>3, <4>4
    <3>2. CASE ~Has(r, m)
      <4>1. ~Has(q, m)  BY <1>2, <2>2, <3>2 DEF Has
      <4>2. tmp_variable_get(s, m) = NoText  BY <1>0, <3>2, TmpGetIs DEF r
      <4>3. tmp_variable_get(t, m) = NoText  BY <1>1, <2>2, <4>1, TmpGetIs DEF q
      <4> QED BY <4>2, <4>3
    <3> QED BY <3>1, <3>2
  <2> QED BY <1>1, <2>1, <2>2, <2>3, <2>4 DEF q
<1> QED BY <1>4, <1>5
=============================================================================
