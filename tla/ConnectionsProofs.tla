------------------------- MODULE ConnectionsProofs -------------------------
(***************************************************************************)
(* TypeOK, Registered and Undisturbed, for every size of the tables, every *)
(* number of files, and every order of statements, connects, messages and  *)
(* hang-ups.                                                               *)
(***************************************************************************)
EXTENDS Connections, WellFoundedInduction, TLAPS

\* The types that the tables need
TableTypes ==
    /\ files \in [Fds -> {"closed", "listen", "stream"}]
    /\ my_fds \in [Slots -> [fd : Fds \cup {-1}, flag : BOOLEAN]]
    /\ client_fds \in [ClientSlots -> [client_fd : Fds \cup {0}, fd : Fds \cup {0}]]
    /\ allset \subseteq Fds
    /\ strayed \in BOOLEAN

RegisteredInv == TableTypes /\ Registered

registers == <<files, my_fds, client_fds, allset, strayed>>

\* A nonempty set of naturals has a least element, which Min returns
LEMMA MinNat ==
    ASSUME NEW S \in SUBSET Nat, S # {}
    PROVE  Min(S) \in S /\ \A y \in S : Min(S) <= y
<1> DEFINE R == {p \in Nat \X Nat : p[1] < p[2]}
<1>1. IsWellFoundedOn(R, Nat)
  BY NatLessThanWellFounded DEF OpToRel
<1> HIDE DEF R
<1>2. PICK x \in S : \A y \in S : ~(<<y, x>> \in R)
  BY <1>1, WFMin
<1>3. \A y \in S : x <= y
  <2> SUFFICES ASSUME NEW y \in S, y < x PROVE FALSE
    OBVIOUS
  <2>1. <<y, x>> \in R
    BY DEF R
  <2> QED BY <1>2, <2>1
<1> QED
  BY <1>3 DEF Min

\* A nonempty set of integers with a bound has a greatest element, which Max
\* returns
LEMMA MaxInt ==
    ASSUME NEW S \in SUBSET Int, S # {}, NEW b \in Int, \A x \in S : x <= b
    PROVE  Max(S) \in S /\ \A y \in S : y <= Max(S)
<1> DEFINE T == {b - x : x \in S}
<1>1. T \in SUBSET Nat /\ T # {}
  <2>1. \A x \in S : b - x \in Nat
    OBVIOUS
  <2> QED  BY <2>1
<1>2. PICK x \in S : Min(T) = b - x
  BY <1>1, MinNat
<1>3. \A y \in S : b - x <= b - y
  <2>1. \A z \in T : Min(T) <= z
    BY <1>1, MinNat
  <2> QED  BY <1>2, <2>1
<1>4. \A y \in S : x >= y
  BY <1>3
<1> QED  BY <1>4 DEF Max

\* Two integers have a bound
LEMMA TwoBounded == ASSUME NEW x \in Int, NEW y \in Int PROVE \E z \in Int : x <= z /\ y <= z
<1>1. CASE x <= y
  BY <1>1
<1>2. CASE ~(x <= y)
  <2>1. y <= x /\ x <= x
    BY <1>2
  <2> QED  BY <2>1
<1> QED  BY <1>1, <1>2

\* The numbers in a table have a bound: else there is a first entry up to which
\* they have none
LEMMA TableBounded ==
    ASSUME NEW N \in Nat, NEW f, \A k \in 1..N : f[k] \in Int
    PROVE  \E b \in Int : \A k \in 1..N : f[k] <= b
<1> DEFINE Upto(n) == \E b \in Int : \A k \in 1..n : f[k] <= b
           Bad == {n \in 0..N : ~Upto(n)}
<1>1. SUFFICES ASSUME ~Upto(N) PROVE FALSE
  OBVIOUS
<1>2. Upto(0)
  <2>1. \A k \in 1..0 : f[k] <= 0
    OBVIOUS
  <2> QED  BY <2>1
<1>3. ASSUME NEW m \in 1..N, Upto(m - 1) PROVE Upto(m)
  <2>1. PICK b \in Int : \A k \in 1..(m - 1) : f[k] <= b
    BY <1>3
  <2> DEFINE c == IF f[m] <= b THEN b ELSE f[m]
  <2>2. c \in Int /\ b <= c /\ f[m] <= c
    <3>1. f[m] \in Int
      OBVIOUS
    <3> QED  BY <3>1
  <2> HIDE DEF c
  <2>3. \A k \in 1..m : f[k] <= c
    <3> SUFFICES ASSUME NEW k \in 1..m PROVE f[k] <= c
      OBVIOUS
    <3>1. f[k] \in Int
      OBVIOUS
    <3>2. k = m \/ k \in 1..(m - 1)
      OBVIOUS
    <3> QED  BY <2>1, <2>2, <3>1, <3>2
  <2> QED  BY <2>2, <2>3
<1> HIDE DEF Upto
<1>4. Bad \in SUBSET Nat /\ N \in Bad
  BY <1>1
<1> DEFINE m == Min(Bad)
<1>5. m \in Bad /\ \A n \in Bad : m <= n
  BY <1>4, MinNat
<1> HIDE DEF m
<1>6. m \in 1..N /\ m - 1 \in 0..N /\ ~Upto(m)
  BY <1>2, <1>5
<1>7. m - 1 \notin Bad
  BY <1>5, <1>6
<1> QED  BY <1>3, <1>6, <1>7

\* Numbers of files are neither of the empty marks.
LEMMA FdsNatural == /\ Fds \subseteq Nat \ {0} /\ -1 \notin Fds /\ 0 \notin Fds
BY ConnectionsAssumption

\* The kernel's next number is free, the first slot of a search is one of those
\* searched for.
LEMMA NewFdFree == ASSUME FreeFds # {} PROVE NewFd \in Fds /\ files[NewFd] = "closed"
<1>1. FreeFds \in SUBSET Nat
    BY FdsNatural DEF FreeFds
<1>2. NewFd \in FreeFds
    BY <1>1, MinNat DEF NewFd
<1> QED  BY <1>2 DEF FreeFds

LEMMA FirstSlot == ASSUME NEW S \in SUBSET Slots, S # {} PROVE Min(S) \in S
<1>1. S \in SUBSET Nat
    BY ConnectionsAssumption DEF Slots
<1> QED  BY <1>1, MinNat

LEMMA FirstClient == ASSUME NEW S \in SUBSET ClientSlots, S # {} PROVE Min(S) \in S
<1>1. S \in SUBSET Nat
    BY ConnectionsAssumption DEF ClientSlots
<1> QED  BY <1>1, MinNat

-----------------------------------------------------------------------------
(* What the operations on the tables do to them. *)

\* A new file enters my_fds.
LEMMA ServerAdded ==
    ASSUME TableTypes, TableTypes', WatchedOpen, WatchedServed,
           NEW fd \in Fds, files[fd] = "closed", NEW j \in FreeSlots, NEW flag \in BOOLEAN,
           my_fds' = [my_fds EXCEPT ![j] = [fd |-> fd, flag |-> flag]],
           client_fds' = client_fds, allset' = allset \cup {fd}
    PROVE  WatchedServed'
<1>1. fd \notin Servers \cup Clients
    BY DEF WatchedOpen, WatchedServed
<1>2. j \in Slots /\ my_fds[j].fd = -1 /\ fd # -1
    BY FdsNatural DEF FreeSlots
<1>3. \A k \in Slots : my_fds'[k].fd = IF k = j THEN fd ELSE my_fds[k].fd
    BY <1>2 DEF TableTypes
<1>4. Servers' = Servers \cup {fd}
    BY <1>2, <1>3 DEF Servers
<1>5. Clients' = Clients
    BY DEF Clients
<1>6. SlotsOf(fd)' = {j}
    BY <1>1, <1>2, <1>3 DEF SlotsOf, Servers
<1>7. \A g \in Servers : SlotsOf(g)' = SlotsOf(g)
    BY <1>1, <1>2, <1>3 DEF SlotsOf, Servers
<1>8. \A g : ClientsOf(g)' = ClientsOf(g)
    BY DEF ClientsOf
<1> QED  BY <1>1, <1>4, <1>5, <1>6, <1>7, <1>8 DEF WatchedServed

\* A file that is no client leaves my_fds, if it is there, and is no longer
\* watched.
LEMMA ServerRemoved ==
    ASSUME TableTypes, WatchedServed, NEW fd \in Fds, fd \notin Clients,
           \A k \in Slots : my_fds'[k].fd = IF k \in SlotsOf(fd) THEN -1 ELSE my_fds[k].fd,
           client_fds' = client_fds, allset' = allset \ {fd}
    PROVE  WatchedServed'
<1>1. Servers' = Servers \ {fd}
    BY FdsNatural DEF Servers, SlotsOf, TableTypes
<1>2. Clients' = Clients
    BY DEF Clients
<1>3. \A g \in Servers' : SlotsOf(g)' \subseteq SlotsOf(g)
    BY FdsNatural DEF SlotsOf, Servers
<1>4. \A g : ClientsOf(g)' = ClientsOf(g)
    BY DEF ClientsOf
<1> QED  BY <1>1, <1>2, <1>3, <1>4 DEF WatchedServed

\* A new file enters client_fds.
LEMMA ClientAdded ==
    ASSUME TableTypes, WatchedOpen, WatchedServed,
           NEW fd \in Fds, files[fd] = "closed", NEW j \in FreeClients, NEW s,
           client_fds' = [client_fds EXCEPT ![j] = [client_fd |-> fd, fd |-> s]],
           my_fds' = my_fds, allset' = allset \cup {fd}
    PROVE  WatchedServed'
<1>1. fd \notin Servers \cup Clients
    BY DEF WatchedOpen, WatchedServed
<1>2. j \in ClientSlots /\ client_fds[j].client_fd = 0 /\ fd # 0
    BY FdsNatural DEF FreeClients
<1>3. \A k \in ClientSlots :
          client_fds'[k].client_fd = IF k = j THEN fd ELSE client_fds[k].client_fd
    BY <1>2 DEF TableTypes
<1>4. Clients' = Clients \cup {fd}
    BY <1>2, <1>3 DEF Clients
<1>5. Servers' = Servers
    BY DEF Servers
<1>6. ClientsOf(fd)' = {j}
    BY <1>1, <1>2, <1>3 DEF ClientsOf, Clients
<1>7. \A g \in Clients : ClientsOf(g)' = ClientsOf(g)
    BY <1>1, <1>2, <1>3 DEF ClientsOf, Clients
<1>8. \A g : SlotsOf(g)' = SlotsOf(g)
    BY DEF SlotsOf
<1> QED  BY <1>1, <1>4, <1>5, <1>6, <1>7, <1>8 DEF WatchedServed

\* A client leaves client_fds and is no longer watched.
LEMMA ClientRemoved ==
    ASSUME TableTypes, WatchedServed, NEW fd \in Fds, fd \in Clients,
           \A k \in ClientSlots : client_fds'[k].client_fd =
               IF k \in ClientsOf(fd) THEN 0 ELSE client_fds[k].client_fd,
           my_fds' = my_fds, allset' = allset \ {fd}
    PROVE  WatchedServed'
<1>1. Clients' = Clients \ {fd}
    BY FdsNatural DEF Clients, ClientsOf, TableTypes
<1>2. Servers' = Servers
    BY DEF Servers
<1>3. \A g \in Clients' : ClientsOf(g)' \subseteq ClientsOf(g)
    BY FdsNatural DEF ClientsOf, Clients
<1>4. \A g : SlotsOf(g)' = SlotsOf(g)
    BY DEF SlotsOf
<1> QED  BY <1>1, <1>2, <1>3, <1>4 DEF WatchedServed

\* client_disconnect() takes the connection out of the table it is in.
LEMMA Disconnected ==
    ASSUME TableTypes, WatchedOpen, strayed \/ WatchedServed, strayed' = strayed,
           NEW fd, client_disconnect(fd)
    PROVE  TableTypes' /\ WatchedOpen' /\ (strayed' \/ WatchedServed')
<1>1. /\ allset' = allset \ {fd}
      /\ files' = [files EXCEPT ![fd] = "closed"]
    BY DEF client_disconnect, Closes, Makes
<1>2. WatchedOpen'
    BY <1>1 DEF WatchedOpen, TableTypes
<1>3. CASE ClientsOf(fd) # {}
    <2> DEFINE j == Min(ClientsOf(fd))
    <2>1. j \in ClientsOf(fd)
        BY <1>3, FirstClient DEF ClientsOf
    <2>2. /\ client_fds' = [client_fds EXCEPT ![j].client_fd = 0]
          /\ my_fds' = my_fds
        BY <1>3 DEF client_disconnect
    <2> HIDE DEF j
    <2>3. TableTypes'
        BY <1>1, <2>2 DEF TableTypes
    <2>4. ASSUME ~strayed PROVE WatchedServed'
        <3>1. fd = client_fds[j].client_fd /\ j \in ClientSlots
            BY <2>1 DEF ClientsOf
        <3>2. CASE fd = 0
            <4>1. allset' = allset
                BY <1>1, <3>2, FdsNatural DEF TableTypes
            <4>2. \A k \in ClientSlots : client_fds'[k].client_fd = client_fds[k].client_fd
                BY <2>2, <3>1, <3>2 DEF TableTypes
            <4>3. Clients' = Clients /\ \A g : ClientsOf(g)' = ClientsOf(g)
                BY <4>2 DEF Clients, ClientsOf
            <4>4. Servers' = Servers /\ \A g : SlotsOf(g)' = SlotsOf(g)
                BY <2>2 DEF Servers, SlotsOf
            <4> QED  BY <4>1, <4>3, <4>4, <2>4 DEF WatchedServed
        <3>3. CASE fd # 0
            <4>1. fd \in Fds /\ fd \in Clients
                BY <3>1, <3>3 DEF TableTypes, Clients
            <4>2. \A k \in ClientsOf(fd) : k = j
                BY <2>1, <2>4, <4>1 DEF WatchedServed
            <4>3. \A k \in ClientSlots : client_fds'[k].client_fd =
                     IF k \in ClientsOf(fd) THEN 0 ELSE client_fds[k].client_fd
                BY <2>1, <2>2, <3>1, <4>2 DEF TableTypes
            <4> QED  BY <1>1, <2>2, <2>4, <4>1, <4>3, ClientRemoved
        <3> QED  BY <3>2, <3>3
    <2> QED  BY <1>2, <2>3, <2>4 DEF TableTypes
<1>4. CASE ClientsOf(fd) = {} /\ SlotsOf(fd) # {}
    <2> DEFINE j == Min(SlotsOf(fd))
    <2>1. j \in SlotsOf(fd)
        BY <1>4, FirstSlot DEF SlotsOf
    <2>2. /\ my_fds' = [my_fds EXCEPT ![j].fd = -1]
          /\ client_fds' = client_fds
        BY <1>4 DEF client_disconnect
    <2> HIDE DEF j
    <2>3. TableTypes'
        BY <1>1, <2>2 DEF TableTypes
    <2>4. ASSUME ~strayed PROVE WatchedServed'
        <3>1. fd = my_fds[j].fd /\ j \in Slots
            BY <2>1 DEF SlotsOf
        <3>2. CASE fd = -1
            <4>1. allset' = allset
                BY <1>1, <3>2, FdsNatural DEF TableTypes
            <4>2. \A k \in Slots : my_fds'[k].fd = my_fds[k].fd
                BY <2>2, <3>1, <3>2 DEF TableTypes
            <4>3. Servers' = Servers /\ \A g : SlotsOf(g)' = SlotsOf(g)
                BY <4>2 DEF Servers, SlotsOf
            <4>4. Clients' = Clients /\ \A g : ClientsOf(g)' = ClientsOf(g)
                BY <2>2 DEF Clients, ClientsOf
            <4> QED  BY <4>1, <4>3, <4>4, <2>4 DEF WatchedServed
        <3>3. CASE fd # -1
            <4>1. fd \in Fds /\ fd \in Servers /\ fd \notin Clients
                BY <1>4, <3>1, <3>3 DEF TableTypes, Servers, Clients, ClientsOf
            <4>2. \A k \in SlotsOf(fd) : k = j
                BY <2>1, <2>4, <4>1 DEF WatchedServed
            <4>3. \A k \in Slots : my_fds'[k].fd =
                     IF k \in SlotsOf(fd) THEN -1 ELSE my_fds[k].fd
                BY <2>1, <2>2, <3>1, <4>2 DEF TableTypes
            <4> QED  BY <1>1, <2>2, <2>4, <4>1, <4>3, ServerRemoved
        <3> QED  BY <3>2, <3>3
    <2> QED  BY <1>2, <2>3, <2>4 DEF TableTypes
<1> QED  BY <1>3, <1>4 DEF client_disconnect

-----------------------------------------------------------------------------
(* The steps. *)

\* A step that leaves the registers alone.
LEMMA RegistersSame ==
    ASSUME RegisteredInv, loc # "exit" \/ UNCHANGED loc, UNCHANGED registers
    PROVE  RegisteredInv'
<1>1. TableTypes' /\ (WatchedOpen => WatchedOpen')
    BY DEF RegisteredInv, TableTypes, WatchedOpen, registers
<1>2. Servers' = Servers /\ Clients' = Clients
    BY DEF Servers, Clients, registers
<1>3. \A fd : SlotsOf(fd)' = SlotsOf(fd) /\ ClientsOf(fd)' = ClientsOf(fd)
    BY DEF SlotsOf, ClientsOf, registers
<1>4. WatchedServed => WatchedServed'
    BY <1>2, <1>3 DEF WatchedServed, registers
<1> QED  BY <1>1, <1>4 DEF RegisteredInv, Registered, registers

LEMMA OpenStep ==
    ASSUME RegisteredInv, NEW name \in Names, NEW flag \in BOOLEAN, Open(name, flag)
    PROVE  RegisteredInv'
<1> DEFINE fd == NewFd
           j == Min(FreeSlots)
<1>1. fd \in Fds /\ files[fd] = "closed"
    BY NewFdFree DEF Open
<1>2. /\ files' = [files EXCEPT ![fd] = IF flag THEN "listen" ELSE "stream"]
      /\ allset' = allset \cup {fd}
      /\ client_fds' = client_fds /\ strayed' = strayed /\ loc # "exit"
    BY DEF Open, Makes, set_server, Running
<1>3. \/ FreeSlots = {} /\ my_fds' = my_fds
      \/ FreeSlots # {} /\ my_fds' = [my_fds EXCEPT ![j] = [fd |-> fd, flag |-> flag]]
    BY DEF Open, set_server
<1>4. FreeSlots # {} => j \in FreeSlots
    BY FirstSlot DEF FreeSlots
<1>5. FreeSlots = {} => loc' = "exit"
    BY DEF Open, TooManyFds
<1> HIDE DEF fd, j
<1>6. TableTypes'
    BY <1>1, <1>2, <1>3 DEF RegisteredInv, TableTypes
<1>7. WatchedOpen /\ (~strayed => WatchedServed)
    BY <1>2 DEF RegisteredInv, Registered
<1>8. WatchedOpen'
    BY <1>1, <1>2, <1>7 DEF WatchedOpen, RegisteredInv, TableTypes
<1>9. ASSUME ~strayed, FreeSlots # {} PROVE WatchedServed'
    BY <1>1, <1>2, <1>3, <1>4, <1>6, <1>7, <1>9, ServerAdded DEF RegisteredInv
<1> QED  BY <1>2, <1>5, <1>6, <1>8, <1>9 DEF RegisteredInv, Registered

LEMMA CloseStep ==
    ASSUME RegisteredInv, NEW name \in Names, Close(name)
    PROVE  RegisteredInv'
<1> DEFINE fd == get_fd(name)
<1>1. loc # "exit" /\ loc' = loc
    BY DEF Close, Running
<1>2. CASE fd \in {0} \cup FreeFds /\ UNCHANGED <<kernel, my_fds, allset, maxfd, strayed>>
    BY <1>1, <1>2, RegistersSame DEF Close, registers, kernel
<1>3. CASE /\ fd \in Fds \ FreeFds /\ Closes(fd) /\ unset_server(fd)
           /\ strayed' = (strayed \/ fd \in Clients)
    <2> DEFINE Gone(k) == SlotsOf(fd) # {} /\ k = Min(SlotsOf(fd))
    <2>1. /\ allset' = allset \ {fd} /\ client_fds' = client_fds
          /\ files' = [files EXCEPT ![fd] = "closed"]
          /\ my_fds' = [k \in Slots |-> IF Gone(k) THEN [fd |-> -1, flag |-> FALSE]
                                         ELSE my_fds[k]]
        BY <1>3 DEF Close, Closes, Makes, unset_server
    <2>2. SlotsOf(fd) # {} => Min(SlotsOf(fd)) \in SlotsOf(fd)
        BY FirstSlot DEF SlotsOf
    <2>3. WatchedOpen /\ (~strayed => WatchedServed)
        BY <1>1 DEF RegisteredInv, Registered
    <2>4. TableTypes'
        BY <1>3, <2>1 DEF RegisteredInv, TableTypes
    <2>5. WatchedOpen'
        BY <2>1, <2>3 DEF WatchedOpen, RegisteredInv, TableTypes
    <2>6. ASSUME ~strayed' PROVE WatchedServed'
        <3>1. ~strayed /\ fd \notin Clients /\ WatchedServed
            BY <1>3, <2>3, <2>6
        <3>2. \A k, m \in SlotsOf(fd) : k = m
            BY <1>3, <3>1, FdsNatural DEF WatchedServed, Servers, SlotsOf
        <3>3. \A k \in Slots : Gone(k) <=> k \in SlotsOf(fd)
            BY <2>2, <3>2
        <3>4. \A k \in Slots : my_fds'[k].fd = IF k \in SlotsOf(fd) THEN -1 ELSE my_fds[k].fd
            BY <2>1, <3>3
        <3> HIDE DEF fd
        <3> QED  BY <1>3, <2>1, <3>1, <3>4, ServerRemoved DEF RegisteredInv
    <2> QED  BY <2>4, <2>5, <2>6 DEF RegisteredInv, Registered
<1> QED  BY <1>2, <1>3 DEF Close

LEMMA AcceptStep ==
    ASSUME RegisteredInv, Accept
    PROVE  RegisteredInv'
<1> DEFINE fd == NewFd
           s == Entry.fd
           j == Min(FreeClients)
<1>1. fd \in Fds /\ files[fd] = "closed"
    BY NewFdFree DEF Accept
<1>2. /\ files' = [files EXCEPT ![fd] = "stream"] /\ my_fds' = my_fds
      /\ allset' = allset \cup {fd} /\ loc # "exit"
    BY DEF Accept, Accepted, Listening
<1>3. s \in Fds
    BY DEF Accept, Entry, EntryAt, Listening, RegisteredInv, TableTypes, NoEntry
<1>4. \/ /\ FreeClients # {} /\ strayed' = strayed
         /\ client_fds' = [client_fds EXCEPT ![j] = [client_fd |-> fd, fd |-> s]]
      \/ strayed' = TRUE /\ client_fds' = client_fds
    BY DEF Accept, Accepted
<1>5. FreeClients # {} => j \in FreeClients
    BY FirstClient DEF FreeClients
<1> HIDE DEF fd, j, s
<1>6. TableTypes'
    <2>1. client_fds' \in [ClientSlots -> [client_fd : Fds \cup {0}, fd : Fds \cup {0}]]
        BY <1>1, <1>3, <1>4 DEF RegisteredInv, TableTypes
    <2> QED  BY <1>1, <1>2, <1>4, <2>1 DEF RegisteredInv, TableTypes
<1>7. WatchedOpen /\ (~strayed => WatchedServed)
    BY <1>2 DEF RegisteredInv, Registered
<1>8. WatchedOpen'
    BY <1>1, <1>2, <1>7 DEF WatchedOpen, RegisteredInv, TableTypes
<1>9. ASSUME ~strayed' PROVE WatchedServed'
    BY <1>1, <1>2, <1>4, <1>5, <1>7, <1>9, ClientAdded DEF RegisteredInv
<1> QED  BY <1>6, <1>8, <1>9 DEF RegisteredInv, Registered

\* The handler, when it is called and when its read is no longer blocked.
LEMMA HandlesStep ==
    ASSUME RegisteredInv, loc # "exit", strayed' = strayed,
           NEW scan, NEW s_fd, NEW fd, NEW info, Handles(scan, s_fd, fd, info)
    PROVE  RegisteredInv'
<1>1. CASE client_disconnect(fd)
    <2>1. TableTypes /\ WatchedOpen /\ (strayed \/ WatchedServed)
        BY DEF RegisteredInv, Registered
    <2>2. TableTypes' /\ WatchedOpen' /\ (strayed' \/ WatchedServed')
        BY <1>1, <2>1, Disconnected
    <2> QED  BY <2>2 DEF RegisteredInv, Registered
<1>2. CASE UNCHANGED <<files, my_fds, client_fds, allset>>
    BY <1>2, RegistersSame DEF registers
<1> QED  BY <1>1, <1>2 DEF Handles, kernel

LEMMA RegisteredInit == Init => RegisteredInv
<1> SUFFICES ASSUME Init PROVE RegisteredInv
    OBVIOUS
<1>1. TableTypes
    BY DEF Init, TableTypes
<1>2. allset = {} /\ Servers = {} /\ Clients = {}
    BY DEF Init, Servers, Clients
<1> QED  BY <1>1, <1>2 DEF RegisteredInv, Registered, WatchedOpen, WatchedServed

LEMMA RegisteredStep == RegisteredInv /\ [Next]_vars => RegisteredInv'
<1> SUFFICES ASSUME RegisteredInv, [Next]_vars PROVE RegisteredInv'
    OBVIOUS
<1>1. CASE Stops \/ UNCHANGED vars
    <2>1. UNCHANGED <<registers, loc>>
        BY <1>1 DEF Stops, vars, registers, kernel, tables
    <2> QED  BY <2>1, RegistersSame
<1>2. CASE EndStart \/ Select \/ Skip \/ AcceptFails \/ AcceptBlocks \/ Unnamed \/ EndRun
    <2>1. loc # "exit" /\ UNCHANGED registers
        BY <1>2 DEF EndStart, Select, Skip, AcceptFails, AcceptBlocks, Unnamed, EndRun,
                    Scans, Listening, RunOf, registers, kernel, tables
    <2> QED  BY <2>1, RegistersSame
<1>3. ASSUME NEW name \in Names, NEW flag \in BOOLEAN, Open(name, flag) PROVE RegisteredInv'
    BY <1>3, OpenStep
<1>4. ASSUME NEW name \in Names, Close(name) PROVE RegisteredInv'
    BY <1>4, CloseStep
<1>5. CASE Accept
    BY <1>5, AcceptStep
<1>6. CASE Serve
    <2>1. /\ loc # "exit" /\ strayed' = strayed
          /\ Handles(loc, Entry.s_fd, Entry.fd, fd_info')
        BY <1>6 DEF Serve, Scans
    <2> QED  BY <2>1, HandlesStep
<1>7. CASE Unblock
    <2>1. PICK scan \in Scans :
              loc = ReadOf[scan] /\ Handles(scan, serving.s_fd, serving.fd, fd_info)
        BY <1>7 DEF Unblock
    <2>2. loc # "exit" /\ strayed' = strayed
        BY <1>7, <2>1 DEF Unblock, Scans, ReadOf
    <2> QED  BY <2>1, <2>2, HandlesStep
<1>8. ASSUME NEW fd \in Fds, Connect(fd) \/ Write(fd) \/ HangUp(fd) PROVE RegisteredInv'
    <2>1. loc # "exit" /\ UNCHANGED registers
        BY <1>8 DEF Connect, Write, HangUp, Arrives, Looks, registers, tables
    <2> QED  BY <2>1, RegistersSame
<1> QED  BY <1>1, <1>2, <1>3, <1>4, <1>5, <1>6, <1>7, <1>8 DEF Next, Server

\* The tables of server.c and what select() watches agree for every size of the
\* tables, every number of files and every order of statements and events, as
\* long as no close hits a client and no client is accepted into a full table.
THEOREM AlwaysRegistered == Spec => []Registered
<1>1. RegisteredInv => Registered
    BY DEF RegisteredInv
<1> QED  BY <1>1, RegisteredInit, RegisteredStep, PTL DEF Spec

-----------------------------------------------------------------------------
(* The types of the whole state, and where the scans are. *)

\* A handler runs, or blocks, at an entry of its table; a read that blocks is
\* of a file
Place ==
    /\ loc \in {"fdsrun", "fdsread"} => i \in Slots
    /\ loc \in {"clientsrun", "clientsread"} => i \in ClientSlots
    /\ loc \in {"fdsread", "clientsread"} => serving.fd \in Fds

TypesInv == TypeOK /\ Place

Infos == [Slots -> [name : Names \cup {NoName}, fd : Fds \cup {0}, client_fd : Fds \cup {0}]]

Indices == 1..(1 + IF MAX_FDS > MAX_CLIENTS THEN MAX_FDS ELSE MAX_CLIENTS)

\* The scans stay within the longer table, and one past it.
LEMMA IndexNext ==
    /\ 1 \in Indices /\ Slots \cup ClientSlots \subseteq Indices
    /\ \A k \in Slots \cup ClientSlots : k + 1 \in Indices
BY ConnectionsAssumption DEF Indices, Slots, ClientSlots

\* The highest of some numbers of the tables and of two others
LEMMA Highest ==
    ASSUME NEW m \in [Slots -> [fd : Fds \cup {-1}, flag : BOOLEAN]],
           NEW c \in [ClientSlots -> [client_fd : Fds \cup {0}, fd : Fds \cup {0}]],
           NEW a \in Int, NEW b \in Int, NEW S, S # {},
           \A x \in S : \/ x = a \/ x = b
                        \/ \E j \in Slots : x = m[j].fd
                        \/ \E j \in ClientSlots : x = c[j].client_fd
    PROVE  Max(S) \in S /\ \A y \in S : y <= Max(S)
<1> DEFINE f == [j \in Slots |-> m[j].fd]
           g == [j \in ClientSlots |-> c[j].client_fd]
<1>1. \A j \in Slots : m[j].fd \in Int /\ f[j] = m[j].fd
    <2>1. \A j \in Slots : m[j].fd \in Fds \cup {-1}
        OBVIOUS
    <2>2. Fds \cup {0, -1} \subseteq Int
        BY FdsNatural
    <2> HIDE DEF f, g
    <2>3. \A j \in Slots : f[j] = m[j].fd
        BY DEF f
    <2> QED  BY <2>1, <2>2, <2>3
<1>2. \A j \in ClientSlots : c[j].client_fd \in Int /\ g[j] = c[j].client_fd
    <2>1. \A j \in ClientSlots : c[j].client_fd \in Fds \cup {0}
        OBVIOUS
    <2>2. Fds \cup {0, -1} \subseteq Int
        BY FdsNatural
    <2> HIDE DEF f, g
    <2>3. \A j \in ClientSlots : g[j] = c[j].client_fd
        BY DEF g
    <2> QED  BY <2>1, <2>2, <2>3
<1> HIDE DEF f, g
<1>3. PICK p \in Int : \A j \in 1..MAX_FDS : f[j] <= p
    <2>1. MAX_FDS \in Nat /\ \A j \in 1..MAX_FDS : f[j] \in Int
        BY <1>1, ConnectionsAssumption DEF Slots
    <2> QED  BY <2>1, TableBounded
<1>4. PICK q \in Int : \A j \in 1..MAX_CLIENTS : g[j] <= q
    <2>1. MAX_CLIENTS \in Nat /\ \A j \in 1..MAX_CLIENTS : g[j] \in Int
        BY <1>2, ConnectionsAssumption DEF ClientSlots
    <2> QED  BY <2>1, TableBounded
<1>5. PICK d \in Int : a <= d /\ b <= d /\ p <= d /\ q <= d
    <2>1. PICK x \in Int : a <= x /\ b <= x
        BY TwoBounded
    <2>2. PICK y \in Int : p <= y /\ q <= y
        BY TwoBounded
    <2>3. PICK z \in Int : x <= z /\ y <= z
        BY TwoBounded
    <2>4. a <= z /\ b <= z
        BY <2>1, <2>3
    <2>5. p <= z /\ q <= z
        BY <2>2, <2>3
    <2> QED  BY <2>4, <2>5
<1>6. \A x \in S : x \in Int /\ x <= d
    <2> SUFFICES ASSUME NEW x \in S PROVE x \in Int /\ x <= d
        OBVIOUS
    <2>1. CASE x = a \/ x = b
        BY <2>1, <1>5
    <2>2. ASSUME NEW j \in Slots, x = m[j].fd PROVE x \in Int /\ x <= d
        BY <2>2, <1>1, <1>3, <1>5 DEF Slots
    <2>3. ASSUME NEW j \in ClientSlots, x = c[j].client_fd PROVE x \in Int /\ x <= d
        BY <2>3, <1>2, <1>4, <1>5 DEF ClientSlots
    <2> QED  BY <2>1, <2>2, <2>3
<1> QED  BY <1>6, MaxInt

\* get_name() returns a name or none.
LEMMA NameTypes == ASSUME NEW info \in Infos, NEW fd PROVE get_name(info, fd) \in Names \cup {NoName}
<1>1. NamesOf(info, fd) # {} => Min(NamesOf(info, fd)) \in Slots
    BY FirstSlot DEF NamesOf
<1> QED  BY <1>1 DEF get_name, Infos

\* What the scan serves is a file, under the number of a file.
LEMMA EntryTypes ==
    ASSUME TypeOK, Entry.fd # 0
    PROVE  /\ Entry.fd \in Fds /\ Entry.s_fd \in Fds \cup {0}
           /\ loc = "fds" => i \in Slots
           /\ loc = "clients" => i \in ClientSlots
BY FdsNatural DEF Entry, EntryAt, NoEntry, TypeOK

\* open keeps the types.
LEMMA OpenTypes ==
    ASSUME TypesInv, NEW name \in Names, NEW flag \in BOOLEAN, Open(name, flag)
    PROVE  TypesInv'
<1> USE DEF TypesInv
<1> DEFINE fd == NewFd
           j == Min(FreeSlots)
           k == Min(InfoSlots(name))
           top == {maxfd, fd} \cup Servers \cup Clients
<1>1. fd \in Fds
    BY NewFdFree DEF Open
<1>2. /\ files' = [files EXCEPT ![fd] = IF flag THEN "listen" ELSE "stream"]
      /\ input' = [input EXCEPT ![fd] = "none"] /\ owner' = [owner EXCEPT ![fd] = name]
      /\ allset' = allset \cup {fd}
      /\ UNCHANGED <<i, serving, client_fds, num_clients, rset, connects, strayed>>
      /\ maxfd' = Max(top)
      /\ loc \in {"start", "fdsrun", "clientsrun"} /\ loc' \in {loc, "exit"}
      /\ \/ late' = late
         \/ late < MaxStatements /\ late' = late + 1
    BY DEF Open, Makes, set_server, Running, Later
<1>3. \/ my_fds' = my_fds
      \/ my_fds' = [my_fds EXCEPT ![j] = [fd |-> fd, flag |-> flag]]
    BY DEF Open, set_server
<1>4. \/ fd_info' = fd_info
      \/ /\ fd_info' = [fd_info EXCEPT ![k].name = name, ![k].fd = fd]
    BY DEF Open, set_fd_info
<1>5. maxfd' \in top
    <2>1. \A x \in top : \/ x = maxfd \/ x = fd
                         \/ \E n \in Slots : x = my_fds[n].fd
                         \/ \E n \in ClientSlots : x = client_fds[n].client_fd
        BY DEF Servers, Clients
    <2>2. maxfd \in Int /\ fd \in Int /\ top # {}
        BY <1>1, FdsNatural DEF TypeOK
    <2>3. /\ my_fds \in [Slots -> [fd : Fds \cup {-1}, flag : BOOLEAN]]
          /\ client_fds \in [ClientSlots -> [client_fd : Fds \cup {0}, fd : Fds \cup {0}]]
        BY DEF TypeOK
    <2> HIDE DEF top, fd, TypesInv
    <2>4. Max(top) \in top
        BY <2>1, <2>2, <2>3, Highest
    <2> QED  BY <1>2, <2>4
<1>6. maxfd' \in Fds \cup {0}
    <2>1. Servers \subseteq Fds /\ Clients \subseteq Fds
        BY DEF Servers, Clients, TypeOK
    <2> QED  BY <1>1, <1>5, <2>1 DEF TypeOK
<1> HIDE DEF fd, j, k, top
<1>7. fd_info' \in Infos
    BY <1>1, <1>4 DEF TypeOK, Infos
<1>8. my_fds' \in [Slots -> [fd : Fds \cup {-1}, flag : BOOLEAN]]
    BY <1>1, <1>3 DEF TypeOK
<1>9. late' \in 0..MaxStatements
    BY <1>2, ConnectionsAssumption DEF TypeOK
<1>10. TypeOK'
    BY <1>1, <1>2, <1>6, <1>7, <1>8, <1>9 DEF TypeOK, Infos, Slots, ClientSlots, Locations
<1>11. Place'
    BY <1>2 DEF Place, Slots, ClientSlots
<1> QED  BY <1>10, <1>11

\* close keeps the types: the new maxfd is a number of the table or 0.
LEMMA CloseTypes ==
    ASSUME TypesInv, NEW name \in Names, Close(name)
    PROVE  TypesInv'
<1> USE DEF TypesInv
<1> DEFINE fd == get_fd(name)
           left == {0} \cup {my_fds'[n].fd : n \in Slots}
<1>1. /\ loc' = loc /\ late < MaxStatements /\ late' = late + 1
      /\ UNCHANGED <<i, serving, client_fds, num_clients, fd_info, rset, connects>>
    BY DEF Close, Later
<1>2. late' \in 0..MaxStatements
    BY <1>1, ConnectionsAssumption DEF TypeOK
<1>3. Place'
    BY <1>1 DEF Place, Slots, ClientSlots
<1>4. CASE UNCHANGED <<kernel, my_fds, allset, maxfd, strayed>>
    BY <1>1, <1>2, <1>3, <1>4 DEF TypeOK, Slots, ClientSlots, kernel
<1>5. CASE /\ fd \in Fds \ FreeFds /\ Closes(fd) /\ unset_server(fd)
           /\ strayed' = (strayed \/ fd \in Clients)
    <2>1. /\ files' = [files EXCEPT ![fd] = "closed"]
          /\ input' = [input EXCEPT ![fd] = "none"] /\ owner' = [owner EXCEPT ![fd] = NoName]
          /\ allset' = allset \ {fd} /\ maxfd' = Max(left)
        BY <1>5 DEF Closes, Makes, unset_server
    <2>2. my_fds' \in [Slots -> [fd : Fds \cup {-1}, flag : BOOLEAN]]
        BY <1>5 DEF unset_server, TypeOK
    <2>3. Max(left) \in left /\ \A y \in left : y <= Max(left)
        <3>1. /\ left # {}
              /\ \A x \in left : \/ x = 0 \/ x = 0
                                 \/ \E n \in Slots : x = my_fds'[n].fd
                                 \/ \E n \in ClientSlots : x = client_fds[n].client_fd
            OBVIOUS
        <3>2. client_fds \in [ClientSlots -> [client_fd : Fds \cup {0}, fd : Fds \cup {0}]]
            BY DEF TypeOK
        <3> HIDE DEF left, TypesInv
        <3> QED  BY <2>2, <3>1, <3>2, Highest
    <2>4. maxfd' \in Fds \cup {0}
        <3>1. \A x \in left : x \in Fds \cup {0, -1} /\ 0 \in left
            BY <2>2
        <3>2. Max(left) # -1
            BY <2>3, <3>1
        <3> QED  BY <2>1, <2>3, <3>1, <3>2
    <2>5. strayed' \in BOOLEAN
        BY <1>5 DEF TypeOK
    <2> HIDE DEF fd, left
    <2>6. TypeOK'
        BY <1>1, <1>2, <2>1, <2>2, <2>4, <2>5 DEF TypeOK, Slots, ClientSlots
    <2> QED  BY <1>3, <2>6
<1> QED  BY <1>4, <1>5 DEF Close

\* accept() keeps the types: the new maxfd is the number of an open connection.
LEMMA AcceptTypes ==
    ASSUME TypesInv, Accept
    PROVE  TypesInv'
<1> USE DEF TypesInv
<1> DEFINE fd == NewFd
           s == Entry.fd
           j == Min(FreeClients)
           top == {maxfd} \cup Servers \cup Clients'
<1>1. fd \in Fds
    BY NewFdFree DEF Accept
<1>2. s \in Fds
    BY EntryTypes DEF Accept
<1>3. /\ files' = [files EXCEPT ![fd] = "stream"]
      /\ input' = [input EXCEPT ![fd] = "none", ![s] = "none"]
      /\ owner' = [owner EXCEPT ![fd] = owner[s]]
      /\ allset' = allset \cup {fd} /\ maxfd' = Max(top)
      /\ UNCHANGED <<serving, my_fds, fd_info, connects, late>>
      /\ \/ loc' = "top" /\ i' = 1 /\ rset' = {}
         \/ loc' = "exit" /\ UNCHANGED <<i, rset>>
    BY DEF Accept, Accepted, AtTop
<1>4. \/ /\ FreeClients # {} /\ num_clients' = num_clients + j /\ strayed' = strayed
         /\ client_fds' = [client_fds EXCEPT ![j] = [client_fd |-> fd, fd |-> s]]
      \/ strayed' = TRUE /\ client_fds' = client_fds /\ num_clients' = num_clients + MAX_CLIENTS
    BY DEF Accept, Accepted
<1>5. FreeClients # {} => j \in ClientSlots
    BY FirstClient DEF FreeClients
<1> HIDE DEF fd, s, j
<1>6. client_fds' \in [ClientSlots -> [client_fd : Fds \cup {0}, fd : Fds \cup {0}]]
    BY <1>1, <1>2, <1>4 DEF TypeOK
<1>7. num_clients' \in Nat
    BY <1>4, <1>5, ConnectionsAssumption DEF TypeOK, ClientSlots
<1>8. maxfd' \in top
    <2>1. \A x \in top : \/ x = maxfd \/ x = maxfd
                         \/ \E n \in Slots : x = my_fds[n].fd
                         \/ \E n \in ClientSlots : x = client_fds'[n].client_fd
        BY DEF Servers, Clients
    <2>2. maxfd \in Int /\ top # {}
        BY FdsNatural DEF TypeOK
    <2>3. my_fds \in [Slots -> [fd : Fds \cup {-1}, flag : BOOLEAN]]
        BY DEF TypeOK
    <2> HIDE DEF top, TypesInv
    <2>4. Max(top) \in top
        BY <1>6, <2>1, <2>2, <2>3, Highest
    <2> QED  BY <1>3, <2>4
<1>9. maxfd' \in Fds \cup {0}
    <2>1. Servers \subseteq Fds
        BY DEF Servers, TypeOK
    <2>2. Clients' \subseteq Fds
        BY <1>6 DEF Clients
    <2> QED  BY <1>8, <2>1, <2>2 DEF TypeOK
<1> HIDE DEF top
<1>10. i' \in Indices
    BY <1>3, IndexNext DEF TypeOK, Indices
<1>11. TypeOK'
    BY <1>1, <1>2, <1>3, <1>4, <1>6, <1>7, <1>9, <1>10
       DEF TypeOK, Slots, ClientSlots, Locations, Indices
<1>12. Place'
    BY <1>3 DEF Place
<1> QED  BY <1>11, <1>12

\* client_disconnect() keeps the types of the tables and of the kernel.
LEMMA DisconnectTypes ==
    ASSUME TypeOK, NEW fd \in Fds, client_disconnect(fd)
    PROVE  /\ files' \in [Fds -> {"closed", "listen", "stream"}]
           /\ input' \in [Fds -> {"none", "data", "eof"}]
           /\ owner' \in [Fds -> Names \cup {NoName}]
           /\ my_fds' \in [Slots -> [fd : Fds \cup {-1}, flag : BOOLEAN]]
           /\ client_fds' \in [ClientSlots -> [client_fd : Fds \cup {0}, fd : Fds \cup {0}]]
           /\ allset' \subseteq Fds
<1>1. /\ files' = [files EXCEPT ![fd] = "closed"]
      /\ input' = [input EXCEPT ![fd] = "none"] /\ owner' = [owner EXCEPT ![fd] = NoName]
      /\ allset' = allset \ {fd}
    BY DEF client_disconnect, Closes, Makes
<1> DEFINE j == Min(ClientsOf(fd))
           k == Min(SlotsOf(fd))
<1>2. \/ client_fds' = [client_fds EXCEPT ![j].client_fd = 0] /\ my_fds' = my_fds
      \/ my_fds' = [my_fds EXCEPT ![k].fd = -1] /\ client_fds' = client_fds
    BY DEF client_disconnect
<1> HIDE DEF j, k
<1>3. my_fds' \in [Slots -> [fd : Fds \cup {-1}, flag : BOOLEAN]]
    BY <1>2 DEF TypeOK
<1>4. client_fds' \in [ClientSlots -> [client_fd : Fds \cup {0}, fd : Fds \cup {0}]]
    BY <1>2 DEF TypeOK
<1> QED  BY <1>1, <1>3, <1>4 DEF TypeOK

\* The handler keeps the types.
LEMMA HandlesTypes ==
    ASSUME TypesInv, NEW scan \in Scans, NEW s_fd \in Fds \cup {0}, NEW fd \in Fds,
           NEW info \in Infos, fd_info' \in Infos,
           scan = "fds" => i \in Slots, scan = "clients" => i \in ClientSlots,
           Handles(scan, s_fd, fd, info),
           UNCHANGED <<maxfd, num_clients, rset, connects, late, strayed>>
    PROVE  TypesInv'
<1> USE DEF TypesInv
<1>1. i \in Indices /\ i + 1 \in Indices
    BY IndexNext DEF Scans
<1>2. CASE /\ loc' = ReadOf[scan]
           /\ serving' = [Nobody EXCEPT !.fd = fd, !.s_fd = s_fd]
           /\ UNCHANGED <<i, kernel, my_fds, client_fds, allset>>
    <2>1. \/ scan = "fds" /\ loc' = "fdsread"
          \/ scan = "clients" /\ loc' = "clientsread"
        BY <1>2 DEF ReadOf, Scans
    <2>2. serving' = [fd |-> fd, s_fd |-> s_fd, name |-> NoName, sender |-> NoName]
        BY <1>2 DEF Nobody
    <2>3. TypeOK'
        BY <1>1, <1>2, <2>1, <2>2 DEF TypeOK, Slots, ClientSlots, Locations, Infos, Indices, kernel
    <2>4. Place'
        BY <1>2, <2>1, <2>2 DEF Place, Slots, ClientSlots
    <2> QED  BY <2>3, <2>4
<1>3. CASE /\ client_disconnect(fd) \/ UNCHANGED <<kernel, my_fds, client_fds, allset>>
           /\ loc' = scan /\ i' = i + 1 /\ serving' = Nobody
    <2>1. /\ files' \in [Fds -> {"closed", "listen", "stream"}]
          /\ input' \in [Fds -> {"none", "data", "eof"}]
          /\ owner' \in [Fds -> Names \cup {NoName}]
          /\ my_fds' \in [Slots -> [fd : Fds \cup {-1}, flag : BOOLEAN]]
          /\ client_fds' \in [ClientSlots -> [client_fd : Fds \cup {0}, fd : Fds \cup {0}]]
          /\ allset' \subseteq Fds
        <3>1. CASE client_disconnect(fd)
            BY <3>1, DisconnectTypes
        <3>2. CASE UNCHANGED <<kernel, my_fds, client_fds, allset>>
            BY <3>2 DEF TypeOK, kernel
        <3> QED  BY <1>3, <3>1, <3>2
    <2>2. serving' \in [fd : Fds \cup {0}, s_fd : Fds \cup {0},
                        name : Names \cup {NoName}, sender : Names \cup {NoName}]
        BY <1>3 DEF Nobody
    <2>3. TypeOK'
        BY <1>1, <1>3, <2>1, <2>2 DEF TypeOK, Slots, ClientSlots, Locations, Scans, Infos, Indices
    <2>4. Place'
        BY <1>3 DEF Place, Scans
    <2> QED  BY <2>3, <2>4
<1>4. CASE /\ input' = [input EXCEPT ![fd] = "none"]
           /\ loc' = IF get_name(info, s_fd) = NoName THEN "exit" ELSE RunOf[scan]
           /\ serving' = [fd |-> fd, s_fd |-> s_fd,
                          name |-> get_name(info, s_fd), sender |-> owner[fd]]
           /\ UNCHANGED <<i, files, owner, my_fds, client_fds, allset>>
    <2> DEFINE n == get_name(info, s_fd)
    <2>1. n \in Names \cup {NoName}
        BY NameTypes
    <2>2. \/ loc' = "exit"
          \/ scan = "fds" /\ loc' = "fdsrun"
          \/ scan = "clients" /\ loc' = "clientsrun"
        BY <1>4 DEF RunOf, Scans
    <2> HIDE DEF n
    <2>3. serving' \in [fd : Fds \cup {0}, s_fd : Fds \cup {0},
                        name : Names \cup {NoName}, sender : Names \cup {NoName}]
        BY <1>4, <2>1 DEF TypeOK, n
    <2>4. TypeOK'
        BY <1>1, <1>4, <2>2, <2>3 DEF TypeOK, Slots, ClientSlots, Locations, Infos, Indices
    <2>5. Place'
        BY <1>4, <2>2 DEF Place, Slots, ClientSlots
    <2> QED  BY <2>4, <2>5
<1> QED  BY <1>2, <1>3, <1>4 DEF Handles

LEMMA TypesInit == Init => TypesInv
<1> SUFFICES ASSUME Init PROVE TypesInv
    OBVIOUS
<1>1. 1 \in Indices
    BY IndexNext
<1>2. serving \in [fd : Fds \cup {0}, s_fd : Fds \cup {0},
                   name : Names \cup {NoName}, sender : Names \cup {NoName}]
    BY DEF Init, Nobody
<1>3. /\ my_fds \in [Slots -> [fd : Fds \cup {-1}, flag : BOOLEAN]]
      /\ client_fds \in [ClientSlots -> [client_fd : Fds \cup {0}, fd : Fds \cup {0}]]
      /\ fd_info \in Infos
    BY DEF Init, Infos
<1>4. connects \in 0..MaxConnects /\ late \in 0..MaxStatements
    BY ConnectionsAssumption DEF Init
<1>5. TypeOK
    BY <1>1, <1>2, <1>3, <1>4 DEF Init, TypeOK, Indices, Infos, Locations
<1> QED  BY <1>5 DEF Init, TypesInv, Place

LEMMA TypesStep == TypesInv /\ [Next]_vars => TypesInv'
<1> SUFFICES ASSUME TypesInv, [Next]_vars PROVE TypesInv'
    OBVIOUS
<1> USE DEF TypesInv
<1>1. CASE Stops \/ UNCHANGED vars
    <2>1. UNCHANGED vars
        BY <1>1 DEF Stops
    <2> QED  BY <2>1 DEF TypeOK, Place, Slots, ClientSlots, vars, kernel, tables
<1>2. ASSUME NEW name \in Names, NEW flag \in BOOLEAN, Open(name, flag) PROVE TypesInv'
    BY <1>2, OpenTypes
<1>3. ASSUME NEW name \in Names, Close(name) PROVE TypesInv'
    BY <1>3, CloseTypes
<1>4. CASE EndStart \/ AcceptFails \/ AcceptBlocks \/ Unnamed
    <2>1. /\ loc' \in {"top", "exit", "accept"}
          /\ UNCHANGED <<i, serving, kernel, tables, rset, connects, late, strayed>>
        BY <1>4 DEF EndStart, AcceptFails, AcceptBlocks, Unnamed
    <2> QED  BY <2>1 DEF TypeOK, Place, Locations, Slots, ClientSlots, kernel, tables
<1>5. CASE Select \/ Skip
    <2>1. /\ UNCHANGED <<serving, kernel, tables, connects, late, strayed>>
          /\ loc' \in {"fds", "clients", "top"} /\ rset' \subseteq rset \cup allset
        BY <1>5 DEF Select, Skip, Ready, AtTop, Scans
    <2>2. i' \in Indices
        <3>1. CASE Select
            BY <3>1, IndexNext DEF Select
        <3>2. CASE Skip
            <4> DEFINE next == {k \in Slots \cup ClientSlots : k > i /\ EntryAt(k) # NoEntry}
            <4>1. i' = 1 \/ (next # {} /\ i' = Min(next))
                BY <3>2 DEF Skip, AtTop
            <4>2. next \in SUBSET Nat
                BY ConnectionsAssumption DEF Slots, ClientSlots
            <4>3. next \subseteq Indices
                BY IndexNext
            <4> HIDE DEF next
            <4> QED  BY <4>1, <4>2, <4>3, MinNat, IndexNext
        <3> QED  BY <1>5, <3>1, <3>2
    <2> QED  BY <2>1, <2>2 DEF TypeOK, Place, Locations, Slots, ClientSlots, Indices, kernel, tables
<1>6. CASE Accept
    BY <1>6, AcceptTypes
<1>7. CASE Serve
    <2> DEFINE j == Min(InfoOf(get_name(fd_info, Entry.s_fd)))
               fd == Entry.fd
    <2>1. /\ fd \in Fds /\ Entry.s_fd \in Fds \cup {0} /\ loc \in Scans
          /\ loc = "fds" => i \in Slots
          /\ loc = "clients" => i \in ClientSlots
        BY <1>7, EntryTypes DEF Serve
    <2>2. /\ fd_info' = [fd_info EXCEPT ![j].client_fd = fd]
          /\ Handles(loc, Entry.s_fd, fd, fd_info')
          /\ UNCHANGED <<maxfd, num_clients, rset, connects, late, strayed>>
        BY <1>7 DEF Serve
    <2> HIDE DEF j, fd
    <2>3. fd_info' \in Infos
        <3>1. fd_info \in Infos
            BY DEF TypeOK, Infos
        <3> QED  BY <2>1, <2>2, <3>1 DEF Infos
    <2> QED  BY <2>1, <2>2, <2>3, HandlesTypes
<1>8. CASE Unblock
    <2>1. PICK scan \in Scans :
              loc = ReadOf[scan] /\ Handles(scan, serving.s_fd, serving.fd, fd_info)
        BY <1>8 DEF Unblock
    <2>2. UNCHANGED <<maxfd, num_clients, fd_info, rset, connects, late, strayed>>
        BY <1>8 DEF Unblock
    <2>3. /\ scan = "fds" => loc = "fdsread"
          /\ scan = "clients" => loc = "clientsread"
        BY <2>1 DEF ReadOf
    <2>4. /\ serving.fd \in Fds /\ serving.s_fd \in Fds \cup {0} /\ fd_info \in Infos
          /\ scan = "fds" => i \in Slots
          /\ scan = "clients" => i \in ClientSlots
        BY <2>3 DEF Place, TypeOK, Scans, Infos
    <2> QED  BY <2>1, <2>2, <2>4, HandlesTypes
<1>9. CASE EndRun
    <2>1. /\ UNCHANGED <<kernel, tables, rset, connects, late, strayed>>
          /\ i' = i + 1 /\ serving' = Nobody /\ loc' \in Scans
          /\ loc \in {"fdsrun", "clientsrun"}
        BY <1>9 DEF EndRun, Scans, RunOf
    <2>2. i' \in Indices
        BY <2>1, IndexNext DEF Place
    <2>3. serving' \in [fd : Fds \cup {0}, s_fd : Fds \cup {0},
                        name : Names \cup {NoName}, sender : Names \cup {NoName}]
        BY <2>1 DEF Nobody
    <2> QED  BY <2>1, <2>2, <2>3
             DEF TypeOK, Place, Locations, Scans, Slots, ClientSlots, Indices, kernel, tables
<1>10. ASSUME NEW fd \in Fds, Connect(fd) \/ Write(fd) \/ HangUp(fd) PROVE TypesInv'
    <2>1. /\ UNCHANGED <<loc, i, serving, files, owner, tables, rset, late, strayed>>
          /\ \E what \in {"data", "eof"} : input' = [input EXCEPT ![fd] = what]
          /\ \/ connects' = connects
             \/ connects < MaxConnects /\ connects' = connects + 1
        BY <1>10 DEF Connect, Write, HangUp, Arrives
    <2>2. connects' \in 0..MaxConnects
        BY <2>1, ConnectionsAssumption DEF TypeOK
    <2> QED  BY <2>1, <2>2 DEF TypeOK, Place, Slots, ClientSlots, tables
<1> QED  BY <1>1, <1>2, <1>3, <1>4, <1>5, <1>6, <1>7, <1>8, <1>9, <1>10 DEF Next, Server

\* The tables of server.c and handler.c hold files or their empty marks, and
\* maxfd is 0 or the number of a file, whatever is opened, closed or connected.
THEOREM ConnectionTypes == Spec => []TypeOK
<1>1. TypesInv => TypeOK
    BY DEF TypesInv
<1> QED  BY <1>1, TypesInit, TypesStep, PTL DEF Spec

-----------------------------------------------------------------------------
(* What holds while the connections are those opened at the start and every *)
(* client has an entry.                                                     *)

\* my_fds knows which files are servers, and clients are streams
Kinds ==
    /\ \A j \in Slots : my_fds[j].fd # -1 =>
          (my_fds[j].flag <=> files[my_fds[j].fd] = "listen")
    /\ \A fd \in Clients : files[fd] = "stream"

\* An entry of fd_info with one of these numbers has the name it was opened for
Labelled(info, own, opened) ==
    \A fd \in opened, j \in Slots :
        info[j].fd = fd \/ info[j].client_fd = fd => info[j].name = own[fd]

\* The server of a client is open, and the client is for the server's name
Parents ==
    \A k \in ClientSlots : client_fds[k].client_fd # 0 =>
        /\ client_fds[k].fd \in Servers /\ files[client_fds[k].fd] = "listen"
        /\ owner[client_fds[k].client_fd] = owner[client_fds[k].fd]

\* Before the server loop there are no clients, and fd_info has open files only
Starting ==
    loc = "start" =>
        /\ Clients = {}
        /\ \A j \in Slots : /\ fd_info[j].client_fd = 0
                            /\ fd_info[j].fd # 0 => files[fd_info[j].fd] # "closed"

\* What select() found and the scan has yet to come to can still be read
Ahead(k) == k > i \/ (k = i /\ loc \in Scans)
Pending ==
    /\ loc \in {"fds", "fdsrun"} =>
        /\ \A k \in Slots : my_fds[k].fd \in rset /\ Ahead(k) => input[my_fds[k].fd] # "none"
        /\ \A fd \in Clients \cap rset : input[fd] # "none"
    /\ loc \in {"clients", "clientsrun"} =>
        \A k \in ClientSlots : client_fds[k].client_fd \in rset /\ Ahead(k)
            => input[client_fds[k].client_fd] # "none"

Calm ==
    /\ OwnName
    /\ loc \notin {"fdsread", "clientsread", "accept"}
    /\ \A fd \in allset : fd <= maxfd

Steady ==
    /\ Kinds /\ Labelled(fd_info, owner, Servers) /\ Parents /\ Starting /\ Pending /\ Calm

SteadyInv == TypesInv /\ RegisteredInv /\ (~Disturbed => Steady)

\* The tables are regular: what RegisteredInv says where nothing strayed
Regular == TypesInv /\ WatchedOpen /\ WatchedServed

\* The numbers in the tables are numbers of open files.
LEMMA RegularFacts ==
    ASSUME Regular
    PROVE  /\ allset = Servers \cup Clients /\ allset \subseteq Fds
           /\ \A g \in allset : files[g] # "closed"
           /\ \A j \in Slots : my_fds[j].fd # -1 => my_fds[j].fd \in Servers
           /\ \A j \in ClientSlots : client_fds[j].client_fd # 0 => client_fds[j].client_fd \in Clients
           /\ \A j, k \in Slots : my_fds[j].fd = my_fds[k].fd /\ my_fds[j].fd # -1 => j = k
           /\ \A j, k \in ClientSlots :
                 client_fds[j].client_fd = client_fds[k].client_fd /\ client_fds[j].client_fd # 0
                     => j = k
<1>1. \A j \in Slots : my_fds[j].fd # -1 => my_fds[j].fd \in Servers
    BY DEF Servers
<1>2. \A j \in ClientSlots : client_fds[j].client_fd # 0 => client_fds[j].client_fd \in Clients
    BY DEF Clients
<1>3. \A j, k \in Slots : my_fds[j].fd = my_fds[k].fd /\ my_fds[j].fd # -1 => j = k
    BY <1>1 DEF Regular, WatchedServed, SlotsOf
<1>4. \A j, k \in ClientSlots :
          client_fds[j].client_fd = client_fds[k].client_fd /\ client_fds[j].client_fd # 0 => j = k
    BY <1>2 DEF Regular, WatchedServed, ClientsOf
<1> QED  BY <1>1, <1>2, <1>3, <1>4 DEF Regular, TypesInv, TypeOK, WatchedServed, WatchedOpen

\* get_name() finds the name that the number was opened for.
LEMMA NameIs ==
    ASSUME NEW info, NEW own, NEW opened, NEW s \in opened,
           Labelled(info, own, opened), get_name(info, s) # NoName
    PROVE  get_name(info, s) = own[s]
<1> DEFINE j == Min(NamesOf(info, s))
<1>1. NamesOf(info, s) # {} /\ get_name(info, s) = info[j].name
    BY DEF get_name
<1>2. j \in NamesOf(info, s)
    BY <1>1, FirstSlot DEF NamesOf
<1> HIDE DEF j
<1> QED  BY <1>1, <1>2 DEF NamesOf, Labelled

\* open at the start: the new server has its own entry and its own name.
LEMMA OpenSteady ==
    ASSUME Regular, Regular', ~Disturbed, ~Disturbed', Steady,
           NEW name \in Names, NEW flag \in BOOLEAN, Open(name, flag)
    PROVE  Steady'
<1> DEFINE fd == NewFd
           j == Min(FreeSlots)
           k == Min(InfoSlots(name))
<1>1. fd \in Fds /\ files[fd] = "closed"
    BY NewFdFree DEF Open
<1>2. /\ files' = [files EXCEPT ![fd] = IF flag THEN "listen" ELSE "stream"]
      /\ owner' = [owner EXCEPT ![fd] = name]
      /\ client_fds' = client_fds
    BY DEF Open, Makes
<1>3. loc = "start" /\ loc' = "start"
    BY DEF Open, Later, Disturbed, Regular, TypesInv, TypeOK
<1>4. FreeSlots # {} /\ InfoSlots(name) # {}
    BY <1>3 DEF Open, TooManyFds
<1>5. my_fds' = [my_fds EXCEPT ![j] = [fd |-> fd, flag |-> flag]]
    BY <1>4 DEF Open, set_server
<1>6. fd_info' = [fd_info EXCEPT ![k].name = name, ![k].fd = fd]
    BY <1>4 DEF Open, set_fd_info
<1>7. j \in Slots
    BY <1>4, FirstSlot DEF FreeSlots
<1>8. k \in Slots
    BY <1>4, FirstSlot DEF InfoSlots, InfoOf
<1>9. \A g \in allset' : g <= maxfd'
    <2> DEFINE top == {maxfd, fd} \cup Servers \cup Clients
    <2>1. \A x \in top : \/ x = maxfd \/ x = fd
                         \/ \E n \in Slots : x = my_fds[n].fd
                         \/ \E n \in ClientSlots : x = client_fds[n].client_fd
        BY DEF Servers, Clients
    <2>2. maxfd \in Int /\ fd \in Int /\ top # {}
        BY <1>1, FdsNatural DEF Regular, TypesInv, TypeOK
    <2>3. /\ my_fds \in [Slots -> [fd : Fds \cup {-1}, flag : BOOLEAN]]
          /\ client_fds \in [ClientSlots -> [client_fd : Fds \cup {0}, fd : Fds \cup {0}]]
        BY DEF Regular, TypesInv, TypeOK
    <2>4. maxfd' = Max(top) /\ allset' = allset \cup {fd}
        BY DEF Open, set_server
    <2>5. allset' \subseteq top
        BY <2>4, RegularFacts
    <2> HIDE DEF top, fd
    <2>6. \A y \in top : y <= Max(top)
        BY <2>1, <2>2, <2>3, Highest
    <2> QED  BY <2>4, <2>5, <2>6
<1> HIDE DEF fd, j, k
<1>10. /\ \A n \in Slots : my_fds'[n] = IF n = j THEN [fd |-> fd, flag |-> flag] ELSE my_fds[n]
       /\ \A n \in Slots : /\ fd_info'[n].name = IF n = k THEN name ELSE fd_info[n].name
                           /\ fd_info'[n].fd = IF n = k THEN fd ELSE fd_info[n].fd
                           /\ fd_info'[n].client_fd = fd_info[n].client_fd
    BY <1>5, <1>6, <1>7, <1>8 DEF Regular, TypesInv, TypeOK
<1>11. /\ \A g \in Servers' : g = fd \/ g \in Servers
       /\ fd \notin Servers /\ Clients = {} /\ Clients' = {}
       /\ 0 \notin Servers'
    <2>1. \A g \in Servers' : g = fd \/ g \in Servers
        BY <1>10 DEF Servers
    <2>2. Clients' = Clients
        BY <1>2 DEF Clients
    <2>3. 0 \notin Servers'
        BY RegularFacts, FdsNatural, <1>1, <2>1
    <2> QED  BY <1>1, <1>3, <2>1, <2>2, <2>3, RegularFacts DEF Steady, Starting
<1>12. \A g \in Fds \ {fd} : files'[g] = files[g] /\ owner'[g] = owner[g]
    BY <1>1, <1>2 DEF Regular, TypesInv, TypeOK
<1>13. files'[fd] = (IF flag THEN "listen" ELSE "stream") /\ owner'[fd] = name
    BY <1>1, <1>2 DEF Regular, TypesInv, TypeOK
<1>14. Kinds'
    <2>1. ASSUME NEW n \in Slots, my_fds'[n].fd # -1
          PROVE  my_fds'[n].flag <=> files'[my_fds'[n].fd] = "listen"
        <3>1. CASE n = j
            BY <3>1, <1>10, <1>13
        <3>2. CASE n # j
            <4>1. my_fds'[n] = my_fds[n] /\ my_fds[n].fd \in Fds \ {fd}
                BY <2>1, <3>2, <1>10, <1>11, RegularFacts
            <4> QED  BY <4>1, <2>1, <1>12 DEF Steady, Kinds
        <3> QED  BY <3>1, <3>2
    <2> QED  BY <2>1, <1>11 DEF Kinds
<1>15. Labelled(fd_info', owner', Servers')
    <2> SUFFICES ASSUME NEW g \in Servers', NEW n \in Slots,
                        fd_info'[n].fd = g \/ fd_info'[n].client_fd = g
                 PROVE  fd_info'[n].name = owner'[g]
        BY DEF Labelled
    <2>1. fd_info'[n].fd = g
        BY <1>3, <1>10, <1>11 DEF Steady, Starting
    <2>2. CASE g = fd
        <3>1. fd_info[n].fd # fd
            BY <1>1, <1>3, FdsNatural DEF Steady, Starting
        <3> QED  BY <2>1, <2>2, <3>1, <1>10, <1>13
    <2>3. CASE g # fd
        <3>1. g \in Servers /\ g \in Fds \ {fd}
            BY <2>3, <1>11, RegularFacts
        <3> QED  BY <2>1, <2>3, <3>1, <1>10, <1>12 DEF Steady, Labelled
    <2> QED  BY <2>2, <2>3
<1>16. Parents'
    BY <1>2, <1>11 DEF Parents, Clients
<1>17. Starting'
    <2> SUFFICES ASSUME NEW n \in Slots
                 PROVE  /\ fd_info'[n].client_fd = 0
                        /\ fd_info'[n].fd # 0 => files'[fd_info'[n].fd] # "closed"
        BY <1>11 DEF Starting
    <2>1. /\ fd_info[n].client_fd = 0
          /\ fd_info[n].fd # 0 => files[fd_info[n].fd] # "closed"
          /\ fd_info[n].fd \in Fds \cup {0}
        BY <1>3 DEF Steady, Starting, Regular, TypesInv, TypeOK
    <2> QED  BY <2>1, <1>1, <1>10, <1>12, <1>13
<1>18. Pending' /\ Calm'
    BY <1>3, <1>9 DEF Pending, Calm, OwnName
<1> QED  BY <1>14, <1>15, <1>16, <1>17, <1>18 DEF Steady

\* accept(): the new client has an entry, with its server and its name.
LEMMA AcceptSteady ==
    ASSUME Regular, Regular', ~Disturbed, ~Disturbed', Steady, Accept
    PROVE  Steady'
<1> DEFINE fd == NewFd
           s == Entry.fd
           j == Min(FreeClients)
<1>1. fd \in Fds /\ files[fd] = "closed"
    BY NewFdFree DEF Accept
<1>2. s \in Fds /\ s = my_fds[i].fd /\ i \in Slots /\ files[s] = "listen"
    <2>1. loc \in {"fds", "accept"} /\ s # 0 /\ files[s] = "listen"
        BY DEF Accept, Listening
    <2>2. s \in Fds
        BY <2>1, EntryTypes DEF Regular, TypesInv
    <2> QED  BY <2>1, <2>2 DEF Entry, EntryAt, NoEntry
<1>3. /\ files' = [files EXCEPT ![fd] = "stream"] /\ my_fds' = my_fds /\ fd_info' = fd_info
      /\ owner' = [owner EXCEPT ![fd] = owner[s]]
      /\ loc' = "top" /\ allset' = allset \cup {fd}
    BY DEF Accept, Accepted, AtTop, Disturbed
<1>4. FreeClients # {} /\ client_fds' = [client_fds EXCEPT ![j] = [client_fd |-> fd, fd |-> s]]
    BY DEF Accept, Accepted, Disturbed
<1>5. j \in ClientSlots
    BY <1>4, FirstClient DEF FreeClients
<1>6. \A g \in allset' : g <= maxfd'
    <2> DEFINE top == {maxfd} \cup Servers \cup Clients'
    <2>1. \A x \in top : \/ x = maxfd \/ x = maxfd
                         \/ \E n \in Slots : x = my_fds[n].fd
                         \/ \E n \in ClientSlots : x = client_fds'[n].client_fd
        BY DEF Servers, Clients
    <2>2. maxfd \in Int /\ top # {}
        BY FdsNatural DEF Regular, TypesInv, TypeOK
    <2>3. /\ my_fds \in [Slots -> [fd : Fds \cup {-1}, flag : BOOLEAN]]
          /\ client_fds' \in [ClientSlots -> [client_fd : Fds \cup {0}, fd : Fds \cup {0}]]
        BY DEF Regular, TypesInv, TypeOK
    <2>4. maxfd' = Max(top)
        BY DEF Accept, Accepted
    <2>5. allset' \subseteq top
        <3>1. allset' = Servers' \cup Clients' /\ Servers' = Servers
            BY <1>3 DEF Regular, WatchedServed, Servers
        <3> QED  BY <3>1
    <2> HIDE DEF top, fd, s, j
    <2>6. Max(top) \in top /\ \A y \in top : y <= Max(top)
        BY ONLY <2>1, <2>2, <2>3, Highest
    <2> QED  BY <2>4, <2>5, <2>6
<1> HIDE DEF fd, s, j
<1>7. \A n \in ClientSlots :
          client_fds'[n] = IF n = j THEN [client_fd |-> fd, fd |-> s] ELSE client_fds[n]
    BY <1>4, <1>5 DEF Regular, TypesInv, TypeOK
<1>8. /\ Servers' = Servers /\ fd \notin Servers /\ fd \notin Clients /\ s \in Servers /\ s # fd
      /\ \A g \in Clients' : g = fd \/ g \in Clients
    <2>1. Servers' = Servers
        BY <1>3 DEF Servers
    <2>2. \A g \in Clients' : g = fd \/ g \in Clients
        BY <1>7 DEF Clients
    <2>3. s \in Servers
        BY <1>2, FdsNatural DEF Servers
    <2> QED  BY <1>1, <1>2, <2>1, <2>2, <2>3, RegularFacts
<1>9. /\ \A g \in Fds \ {fd} : files'[g] = files[g] /\ owner'[g] = owner[g]
      /\ files'[fd] = "stream" /\ owner'[fd] = owner[s]
    BY <1>1, <1>3 DEF Regular, TypesInv, TypeOK
<1>10. \A g \in Servers \cup Clients : g \in Fds \ {fd}
    BY <1>8, RegularFacts
<1>11. Kinds'
    <2>1. \A n \in Slots : my_fds[n].fd # -1 => files'[my_fds[n].fd] = files[my_fds[n].fd]
        BY <1>9, <1>10, RegularFacts
    <2>2. \A g \in Clients' : files'[g] = "stream"
        BY <1>8, <1>9, <1>10 DEF Steady, Kinds
    <2> QED  BY <1>3, <2>1, <2>2 DEF Steady, Kinds
<1>12. Labelled(fd_info', owner', Servers')
    BY <1>3, <1>8, <1>9, <1>10 DEF Steady, Labelled
<1>13. Parents'
    <2> SUFFICES ASSUME NEW n \in ClientSlots, client_fds'[n].client_fd # 0
                 PROVE  /\ client_fds'[n].fd \in Servers'
                        /\ files'[client_fds'[n].fd] = "listen"
                        /\ owner'[client_fds'[n].client_fd] = owner'[client_fds'[n].fd]
        BY DEF Parents
    <2>1. CASE n = j
        <3>1. client_fds'[n].client_fd = fd /\ client_fds'[n].fd = s
            BY <2>1, <1>7
        <3> QED  BY <3>1, <1>2, <1>8, <1>9
    <2>2. CASE n # j
        <3>1. client_fds'[n] = client_fds[n] /\ client_fds[n].client_fd # 0
            BY <2>2, <1>7
        <3>2. /\ client_fds[n].fd \in Servers /\ files[client_fds[n].fd] = "listen"
              /\ owner[client_fds[n].client_fd] = owner[client_fds[n].fd]
            BY <3>1 DEF Steady, Parents
        <3>3. client_fds[n].fd \in Fds \ {fd} /\ client_fds[n].client_fd \in Fds \ {fd}
            BY <3>1, <3>2, <1>10, RegularFacts
        <3> QED  BY <3>1, <3>2, <3>3, <1>8, <1>9
    <2> QED  BY <2>1, <2>2
<1>14. Starting' /\ Pending' /\ Calm'
    BY <1>3, <1>6 DEF Starting, Pending, Calm, OwnName
<1> QED  BY <1>11, <1>12, <1>13, <1>14 DEF Steady

-----------------------------------------------------------------------------
(* The handler. *)

\* What the handler serves: a stream with input, under the number of the server
\* that is open for the same name.
Sound(fd, s) ==
    /\ fd \in Fds /\ s \in Servers /\ owner[s] = owner[fd]
    /\ files[fd] = "stream" /\ input[fd] # "none"
    /\ loc = "fds" => i \in Slots /\ my_fds[i].fd = fd /\ s = fd /\ fd \in Servers
    /\ loc = "clients" => i \in ClientSlots /\ client_fds[i].client_fd = fd /\ fd \in Clients

LEMMA EntrySound ==
    ASSUME Regular, ~Disturbed, Steady, loc \in Scans, ~Listening, Entry.fd # 0
    PROVE  Sound(Entry.fd, Entry.s_fd)
<1> DEFINE fd == Entry.fd
           s == Entry.s_fd
<1>1. CASE loc = "fds"
    <2>1. i \in Slots /\ my_fds[i].fd = fd /\ s = fd /\ fd \in rset /\ fd # -1
        BY <1>1 DEF Entry, EntryAt, NoEntry
    <2>2. fd \in Servers
        BY <2>1, RegularFacts
    <2>3. files[fd] = "stream"
        <3>1. files[fd] # "closed" /\ fd \in Fds
            BY <2>2, RegularFacts
        <3>2. ~my_fds[i].flag
            BY <1>1, <2>1 DEF Listening
        <3>3. files[fd] # "listen"
            BY <2>1, <3>2 DEF Steady, Kinds
        <3>4. files[fd] \in {"closed", "listen", "stream"}
            BY <3>1 DEF Regular, TypesInv, TypeOK
        <3> QED  BY <3>1, <3>3, <3>4
    <2>4. input[fd] # "none"
        BY <1>1, <2>1 DEF Steady, Pending, Ahead, Scans
    <2> HIDE DEF fd, s
    <2>5. Sound(fd, s)
        BY <1>1, <2>1, <2>2, <2>3, <2>4, RegularFacts DEF Sound
    <2> QED  BY <2>5 DEF fd, s
<1>2. CASE loc = "clients"
    <2>1. /\ i \in ClientSlots /\ client_fds[i].client_fd = fd /\ fd \in rset /\ fd # 0
          /\ s = client_fds[i].fd
        BY <1>2 DEF Entry, EntryAt, NoEntry
    <2>2. fd \in Clients
        BY <2>1, RegularFacts
    <2>3. files[fd] = "stream"
        BY <2>2 DEF Steady, Kinds
    <2>4. input[fd] # "none"
        BY <1>2, <2>1 DEF Steady, Pending, Ahead, Scans
    <2>5. s \in Servers /\ owner[s] = owner[fd]
        BY <2>1 DEF Steady, Parents
    <2> HIDE DEF fd, s
    <2>6. Sound(fd, s)
        BY <1>2, <2>1, <2>2, <2>3, <2>4, <2>5, RegularFacts DEF Sound
    <2> QED  BY <2>6 DEF fd, s
<1> QED  BY <1>1, <1>2 DEF Scans

\* The handler notes its client under the name it found: the entries stay right.
LEMMA NotedRight ==
    ASSUME Regular, ~Disturbed, Steady, Serve
    PROVE  Labelled(fd_info', owner, Servers)
<1> DEFINE fd == Entry.fd
           s == Entry.s_fd
           n == get_name(fd_info, s)
           j == Min(InfoOf(n))
<1>1. Sound(fd, s)
    BY EntrySound DEF Serve
<1>2. n # NoName /\ fd_info' = [fd_info EXCEPT ![j].client_fd = fd]
    BY DEF Serve
<1>3. n = owner[s]
    BY <1>1, <1>2, NameIs DEF Steady, Sound
<1>4. j \in Slots /\ fd_info[j].name = n
    <2>1. Min(NamesOf(fd_info, s)) \in InfoOf(n)
        <3>1. NamesOf(fd_info, s) # {} /\ n = fd_info[Min(NamesOf(fd_info, s))].name
            BY <1>2 DEF get_name
        <3>2. Min(NamesOf(fd_info, s)) \in Slots
            BY <3>1, FirstSlot DEF NamesOf
        <3> QED  BY <3>1, <3>2 DEF InfoOf
    <2>2. j \in InfoOf(n)
        BY <2>1, FirstSlot DEF InfoOf
    <2> QED  BY <2>2 DEF InfoOf
<1> HIDE DEF fd, s, n, j
<1>5. \A k \in Slots : /\ fd_info'[k].name = fd_info[k].name /\ fd_info'[k].fd = fd_info[k].fd
                      /\ fd_info'[k].client_fd = IF k = j THEN fd ELSE fd_info[k].client_fd
    BY <1>2, <1>4 DEF Regular, TypesInv, TypeOK
<1>6. fd \in Servers => s = fd
    BY <1>1, RegularFacts DEF Sound, Serve, Scans, Regular, WatchedServed
<1> SUFFICES ASSUME NEW g \in Servers, NEW k \in Slots,
                    fd_info'[k].fd = g \/ fd_info'[k].client_fd = g
             PROVE  fd_info'[k].name = owner[g]
    BY DEF Labelled
<1>7. CASE k = j /\ g = fd
    BY <1>3, <1>4, <1>5, <1>6, <1>7
<1>8. CASE ~(k = j /\ g = fd)
    <2>1. fd_info[k].fd = g \/ fd_info[k].client_fd = g
        BY <1>5, <1>8
    <2> QED  BY <1>5, <2>1 DEF Steady, Labelled
<1> QED  BY <1>7, <1>8

\* A message is read: it runs the program at the name its connection is for.
LEMMA ReadSteady ==
    ASSUME Regular, ~Disturbed, ~Disturbed', Steady, loc \in Scans, NEW fd, NEW s, Sound(fd, s),
           Labelled(fd_info', owner, Servers),
           input' = [input EXCEPT ![fd] = "none"],
           loc' = IF get_name(fd_info', s) = NoName THEN "exit" ELSE RunOf[loc],
           serving' = [fd |-> fd, s_fd |-> s,
                       name |-> get_name(fd_info', s), sender |-> owner[fd]],
           UNCHANGED <<i, files, owner, my_fds, client_fds, allset, rset, maxfd>>
    PROVE  Steady'
<1>1. Servers' = Servers /\ Clients' = Clients
    BY DEF Servers, Clients
<1>2. Kinds' /\ Parents'
    BY <1>1 DEF Steady, Kinds, Parents
<1>3. /\ get_name(fd_info', s) # NoName
      /\ \/ loc = "fds" /\ loc' = "fdsrun"
         \/ loc = "clients" /\ loc' = "clientsrun"
    BY DEF Disturbed, RunOf, Scans
<1>4. OwnName'
    <2>1. get_name(fd_info', s) = owner[s]
        BY <1>3, NameIs DEF Sound
    <2> QED  BY <2>1 DEF OwnName, Sound
<1>5. Calm' /\ Starting'
    BY <1>3, <1>4 DEF Steady, Calm, Starting
<1>6. \A g \in Fds \ {fd} : input'[g] = input[g]
    BY DEF Regular, TypesInv, TypeOK
<1>7. rset \subseteq Fds /\ i \in Int /\ Slots \subseteq Int /\ ClientSlots \subseteq Int
    BY ConnectionsAssumption DEF Regular, TypesInv, TypeOK, Slots, ClientSlots
<1>8. CASE loc = "fds" /\ loc' = "fdsrun"
    <2>1. i \in Slots /\ my_fds[i].fd = fd /\ fd \in Servers /\ fd # -1
        BY <1>8, RegularFacts, FdsNatural DEF Sound
    <2>2. ASSUME NEW k \in Slots, my_fds[k].fd \in rset, k > i PROVE input'[my_fds[k].fd] # "none"
        <3>1. input[my_fds[k].fd] # "none"
            BY <1>8, <2>2 DEF Steady, Pending, Ahead
        <3>2. my_fds[k].fd # fd
            BY <1>7, <2>1, <2>2, RegularFacts
        <3> QED  BY <3>1, <3>2, <2>2, <1>6, <1>7
    <2>3. \A g \in Clients \cap rset : input'[g] # "none"
        <3>1. fd \notin Clients
            BY <2>1 DEF Regular, WatchedServed
        <3> QED  BY <3>1, <1>6, <1>7, <1>8 DEF Steady, Pending
    <2>4. Pending'
        BY <1>1, <1>8, <2>2, <2>3 DEF Pending, Ahead, Scans
    <2> QED  BY <1>1, <1>2, <1>5, <2>4 DEF Steady
<1>9. CASE loc = "clients" /\ loc' = "clientsrun"
    <2>1. i \in ClientSlots /\ client_fds[i].client_fd = fd /\ fd # 0
        BY <1>9, FdsNatural DEF Sound
    <2>2. ASSUME NEW k \in ClientSlots, client_fds[k].client_fd \in rset, k > i
          PROVE  input'[client_fds[k].client_fd] # "none"
        <3>1. input[client_fds[k].client_fd] # "none"
            BY <1>9, <2>2 DEF Steady, Pending, Ahead
        <3>2. client_fds[k].client_fd # fd
            BY <1>7, <2>1, <2>2, RegularFacts
        <3> QED  BY <3>1, <3>2, <2>2, <1>6, <1>7
    <2>3. Pending'
        BY <1>9, <2>2 DEF Pending, Ahead, Scans
    <2> QED  BY <1>1, <1>2, <1>5, <2>3 DEF Steady
<1> QED  BY <1>3, <1>8, <1>9

\* A connection is closed by its other end: it leaves the table it is in.
LEMMA GoneSteady ==
    ASSUME Regular, Regular', ~Disturbed, ~Disturbed', Steady, loc \in Scans,
           NEW fd, NEW s, Sound(fd, s), Labelled(fd_info', owner, Servers),
           client_disconnect(fd), loc' = loc, i' = i + 1, UNCHANGED <<rset, maxfd>>
    PROVE  Steady'
<1> DEFINE j == Min(ClientsOf(fd))
           k == Min(SlotsOf(fd))
<1>1. /\ files' = [files EXCEPT ![fd] = "closed"] /\ allset' = allset \ {fd}
      /\ input' = [input EXCEPT ![fd] = "none"] /\ owner' = [owner EXCEPT ![fd] = NoName]
    BY DEF client_disconnect, Closes, Makes
<1>2. fd \in Fds /\ fd # -1 /\ fd # 0 /\ files[fd] = "stream"
    BY FdsNatural DEF Sound
<1>3. \A g \in Fds \ {fd} : files'[g] = files[g] /\ input'[g] = input[g] /\ owner'[g] = owner[g]
    BY <1>1 DEF Regular, TypesInv, TypeOK
<1>4. rset \subseteq Fds /\ i \in Int /\ Slots \subseteq Int /\ ClientSlots \subseteq Int
    BY ConnectionsAssumption DEF Regular, TypesInv, TypeOK, Slots, ClientSlots
<1>5. CASE loc = "fds"
    <2>1. i \in Slots /\ my_fds[i].fd = fd /\ fd \in Servers /\ fd \notin Clients
        BY <1>5 DEF Sound, Regular, WatchedServed
    <2>2. ClientsOf(fd) = {}
        BY <1>2, <2>1, RegularFacts DEF ClientsOf
    <2>3. client_fds' = client_fds /\ my_fds' = [my_fds EXCEPT ![k].fd = -1]
        BY <2>2 DEF client_disconnect
    <2>4. k = i
        <3>1. i \in SlotsOf(fd)
            BY <2>1 DEF SlotsOf
        <3>2. k \in SlotsOf(fd)
            BY <3>1, FirstSlot DEF SlotsOf
        <3> QED  BY <1>2, <3>1, <3>2, RegularFacts DEF SlotsOf
    <2>5. \A n \in Slots : /\ my_fds'[n].fd = IF n = i THEN -1 ELSE my_fds[n].fd
                          /\ my_fds'[n].flag = my_fds[n].flag
        BY <2>1, <2>3, <2>4 DEF Regular, TypesInv, TypeOK
    <2>6. Clients' = Clients /\ Servers' = Servers \ {fd}
        <3>1. Clients' = Clients
            BY <2>3 DEF Clients
        <3>2. \A n \in Slots : n # i => my_fds[n].fd # fd
            BY <1>2, <2>1, RegularFacts
        <3>3. Servers' = Servers \ {fd}
            BY <2>1, <2>5, <3>2 DEF Servers
        <3> QED  BY <3>1, <3>3
    <2>7. Kinds'
        <3>1. \A g \in Clients' : files'[g] = "stream"
            BY <1>3, <2>1, <2>6, RegularFacts DEF Steady, Kinds
        <3>2. ASSUME NEW n \in Slots, my_fds'[n].fd # -1
              PROVE  my_fds'[n].flag <=> files'[my_fds'[n].fd] = "listen"
            <4>1. n # i /\ my_fds'[n].fd = my_fds[n].fd /\ my_fds'[n].flag = my_fds[n].flag
                BY <2>5, <3>2
            <4>2. my_fds[n].fd \in Fds \ {fd}
                BY <3>2, <4>1, <1>2, <2>1, RegularFacts
            <4> QED  BY <3>2, <4>1, <4>2, <1>3 DEF Steady, Kinds
        <3> QED  BY <3>1, <3>2 DEF Kinds
    <2>8. Parents'
        <3> SUFFICES ASSUME NEW n \in ClientSlots, client_fds[n].client_fd # 0
                     PROVE  /\ client_fds[n].fd \in Servers'
                            /\ files'[client_fds[n].fd] = "listen"
                            /\ owner'[client_fds[n].client_fd] = owner'[client_fds[n].fd]
            BY <2>3 DEF Parents
        <3>1. /\ client_fds[n].fd \in Servers /\ files[client_fds[n].fd] = "listen"
              /\ owner[client_fds[n].client_fd] = owner[client_fds[n].fd]
            BY DEF Steady, Parents
        <3>2. client_fds[n].fd \in Fds \ {fd} /\ client_fds[n].client_fd \in Fds \ {fd}
            BY <1>2, <2>1, <3>1, RegularFacts
        <3> QED  BY <1>3, <2>6, <3>1, <3>2
    <2>9. Pending'
        <3>1. ASSUME NEW n \in Slots, my_fds'[n].fd \in rset, n >= i + 1
              PROVE  input'[my_fds'[n].fd] # "none"
            <4>1. n # i /\ n > i /\ my_fds'[n].fd = my_fds[n].fd
                BY <1>4, <2>1, <2>5, <3>1
            <4>2. my_fds[n].fd # fd
                BY <1>2, <2>1, <4>1, RegularFacts
            <4>3. input[my_fds[n].fd] # "none"
                BY <1>5, <3>1, <4>1 DEF Steady, Pending, Ahead
            <4> QED  BY <1>3, <1>4, <3>1, <4>1, <4>2, <4>3
        <3>2. \A g \in Clients' \cap rset : input'[g] # "none"
            BY <1>3, <1>4, <1>5, <2>1, <2>6 DEF Steady, Pending
        <3> QED  BY <1>4, <1>5, <3>1, <3>2 DEF Pending, Ahead
    <2>10. Labelled(fd_info', owner', Servers')
        BY <1>3, <2>6, RegularFacts DEF Labelled
    <2>11. Calm' /\ Starting'
        BY <1>1, <1>5 DEF Steady, Calm, OwnName, Starting
    <2> QED  BY <2>7, <2>8, <2>9, <2>10, <2>11 DEF Steady
<1>6. CASE loc = "clients"
    <2>1. i \in ClientSlots /\ client_fds[i].client_fd = fd /\ fd \in Clients /\ fd \notin Servers
        BY <1>6 DEF Sound, Regular, WatchedServed
    <2>2. i \in ClientsOf(fd)
        BY <2>1 DEF ClientsOf
    <2>3. my_fds' = my_fds /\ client_fds' = [client_fds EXCEPT ![j].client_fd = 0]
        BY <2>2 DEF client_disconnect
    <2>4. j = i
        <3>1. j \in ClientsOf(fd)
            BY <2>2, FirstClient DEF ClientsOf
        <3> QED  BY <1>2, <2>2, <3>1, RegularFacts DEF ClientsOf
    <2>5. \A n \in ClientSlots :
              /\ client_fds'[n].client_fd = IF n = i THEN 0 ELSE client_fds[n].client_fd
              /\ client_fds'[n].fd = client_fds[n].fd
        BY <2>1, <2>3, <2>4 DEF Regular, TypesInv, TypeOK
    <2>6. Servers' = Servers /\ Clients' = Clients \ {fd}
        <3>1. Servers' = Servers
            BY <2>3 DEF Servers
        <3>2. \A n \in ClientSlots : n # i => client_fds[n].client_fd # fd
            BY <1>2, <2>1, RegularFacts
        <3>3. Clients' = Clients \ {fd}
            BY <2>1, <2>5, <3>2 DEF Clients
        <3> QED  BY <3>1, <3>3
    <2>7. \A g \in Servers : g \in Fds \ {fd}
        BY <2>1, RegularFacts
    <2>8. Kinds'
        <3>1. \A g \in Clients' : files'[g] = "stream"
            BY <1>3, <2>6, RegularFacts DEF Steady, Kinds
        <3>2. \A n \in Slots : my_fds[n].fd # -1 => files'[my_fds[n].fd] = files[my_fds[n].fd]
            BY <1>3, <2>7, RegularFacts
        <3> QED  BY <2>3, <3>1, <3>2 DEF Steady, Kinds
    <2>9. Parents'
        <3> SUFFICES ASSUME NEW n \in ClientSlots, client_fds'[n].client_fd # 0
                     PROVE  /\ client_fds'[n].fd \in Servers'
                            /\ files'[client_fds'[n].fd] = "listen"
                            /\ owner'[client_fds'[n].client_fd] = owner'[client_fds'[n].fd]
            BY DEF Parents
        <3>1. /\ n # i /\ client_fds'[n].client_fd = client_fds[n].client_fd
              /\ client_fds'[n].fd = client_fds[n].fd
            BY <2>5
        <3>2. /\ client_fds[n].fd \in Servers /\ files[client_fds[n].fd] = "listen"
              /\ owner[client_fds[n].client_fd] = owner[client_fds[n].fd]
            BY <3>1 DEF Steady, Parents
        <3>3. client_fds[n].client_fd \in Fds \ {fd}
            BY <1>2, <2>1, <3>1, RegularFacts
        <3> QED  BY <1>3, <2>6, <2>7, <3>1, <3>2, <3>3
    <2>10. Pending'
        <3>1. ASSUME NEW n \in ClientSlots, client_fds'[n].client_fd \in rset, n >= i + 1
              PROVE  input'[client_fds'[n].client_fd] # "none"
            <4>1. n # i /\ n > i /\ client_fds'[n].client_fd = client_fds[n].client_fd
                BY <1>4, <2>1, <2>5, <3>1
            <4>2. client_fds[n].client_fd # fd
                BY <1>2, <2>1, <4>1, RegularFacts
            <4>3. input[client_fds[n].client_fd] # "none"
                BY <1>6, <3>1, <4>1 DEF Steady, Pending, Ahead
            <4> QED  BY <1>3, <1>4, <3>1, <4>1, <4>2, <4>3
        <3>2. \A n \in ClientSlots : Ahead(n)' => n >= i + 1
            BY <1>4 DEF Ahead
        <3>3. loc' = "clients" /\ rset' = rset
            BY <1>6
        <3> QED  BY <3>1, <3>2, <3>3 DEF Pending
    <2>11. Labelled(fd_info', owner', Servers')
        BY <1>3, <2>6, <2>7 DEF Labelled
    <2>12. Calm' /\ Starting'
        BY <1>1, <1>6 DEF Steady, Calm, OwnName, Starting
    <2> QED  BY <2>8, <2>9, <2>10, <2>11, <2>12 DEF Steady
<1> QED  BY <1>5, <1>6 DEF Scans

\* The handler never blocks, and never finds a file that cannot be read.
LEMMA ServeSteady ==
    ASSUME Regular, Regular', ~Disturbed, ~Disturbed', Steady, Serve
    PROVE  Steady'
<1> DEFINE fd == Entry.fd
           s == Entry.s_fd
<1>1. Sound(fd, s) /\ loc \in Scans
    BY EntrySound DEF Serve
<1>2. Labelled(fd_info', owner, Servers)
    BY NotedRight
<1>3. Handles(loc, s, fd, fd_info') /\ UNCHANGED <<maxfd, rset>>
    BY DEF Serve
<1> HIDE DEF fd, s
<1>4. files[fd] = "stream" /\ input[fd] # "none"
    BY <1>1 DEF Sound
<1>5. \/ client_disconnect(fd) /\ loc' = loc /\ i' = i + 1
      \/ /\ input' = [input EXCEPT ![fd] = "none"]
         /\ loc' = IF get_name(fd_info', s) = NoName THEN "exit" ELSE RunOf[loc]
         /\ serving' = [fd |-> fd, s_fd |-> s,
                        name |-> get_name(fd_info', s), sender |-> owner[fd]]
         /\ UNCHANGED <<i, files, owner, my_fds, client_fds, allset>>
    BY <1>3, <1>4 DEF Handles
<1>6. CASE client_disconnect(fd) /\ loc' = loc /\ i' = i + 1
    BY <1>1, <1>2, <1>3, <1>6, GoneSteady
<1>7. CASE /\ input' = [input EXCEPT ![fd] = "none"]
           /\ loc' = IF get_name(fd_info', s) = NoName THEN "exit" ELSE RunOf[loc]
           /\ serving' = [fd |-> fd, s_fd |-> s,
                          name |-> get_name(fd_info', s), sender |-> owner[fd]]
           /\ UNCHANGED <<i, files, owner, my_fds, client_fds, allset>>
    BY <1>1, <1>2, <1>3, <1>7, ReadSteady
<1> QED  BY <1>5, <1>6, <1>7

-----------------------------------------------------------------------------
(* All steps. *)

\* A step that leaves the tables alone keeps what does not depend on the scan.
LEMMA TablesSame ==
    ASSUME Steady, UNCHANGED <<files, owner, tables>>
    PROVE  /\ Servers' = Servers /\ Clients' = Clients
           /\ Kinds' /\ Labelled(fd_info', owner', Servers') /\ Parents'
           /\ \A g \in allset' : g <= maxfd'
<1>1. Servers' = Servers /\ Clients' = Clients
    BY DEF Servers, Clients, tables
<1> QED  BY <1>1 DEF Steady, Kinds, Labelled, Parents, Calm, tables

LEMMA SteadyNext ==
    ASSUME Regular, Regular', ~Disturbed, ~Disturbed', Steady, Next
    PROVE  Steady'
<1>1. CASE Stops
    BY <1>1 DEF Stops, Steady, Kinds, Labelled, Parents, Starting, Pending, Ahead, Calm, OwnName,
                Servers, Clients, vars, kernel, tables
<1>2. ASSUME NEW name \in Names, NEW flag \in BOOLEAN, Open(name, flag) PROVE Steady'
    BY <1>2, OpenSteady
<1>3. ASSUME NEW name \in Names, Close(name) PROVE Steady'
    BY <1>3 DEF Close, Later, Disturbed, Regular, TypesInv, TypeOK
<1>4. CASE AcceptFails \/ Unnamed
    BY <1>4 DEF AcceptFails, Unnamed, Disturbed
<1>5. CASE Accept
    BY <1>5, AcceptSteady
<1>6. CASE Serve
    BY <1>6, ServeSteady
<1>7. CASE Unblock
    BY <1>7 DEF Unblock, ReadOf, Scans, Steady, Calm
<1>8. CASE AcceptBlocks
    <2>1. loc = "fds" /\ Entry.fd # 0 /\ input[Entry.fd] = "none"
        BY <1>8 DEF AcceptBlocks
    <2>2. i \in Slots /\ my_fds[i].fd = Entry.fd /\ my_fds[i].fd \in rset
        BY <2>1 DEF Entry, EntryAt, NoEntry
    <2>3. Ahead(i)
        BY <2>1 DEF Ahead, Scans
    <2> QED  BY <2>1, <2>2, <2>3 DEF Steady, Pending
<1>9. CASE EndStart
    <2>1. loc' = "top" /\ UNCHANGED <<files, owner, tables>>
        BY <1>9 DEF EndStart, kernel
    <2> QED  BY <2>1, TablesSame DEF Steady, Starting, Pending, Calm, OwnName
<1>10. CASE Select
    <2>1. /\ loc' = "fds" /\ rset' = Ready
          /\ UNCHANGED <<files, owner, tables>> /\ UNCHANGED <<input, my_fds>>
        BY <1>10 DEF Select, kernel, tables
    <2>2. \A g \in rset' : input'[g] # "none"
        BY <2>1 DEF Ready
    <2>3. Pending'
        BY <2>1, <2>2 DEF Pending
    <2> QED  BY <2>1, <2>3, TablesSame DEF Steady, Starting, Calm, OwnName
<1>11. CASE Skip
    <2> DEFINE next == {k \in Slots \cup ClientSlots : k > i /\ EntryAt(k) # NoEntry}
    <2>1. /\ loc \in Scans
          /\ UNCHANGED <<files, owner, tables>> /\ UNCHANGED <<input, my_fds, client_fds>>
          /\ \/ next # {} /\ i' = Min(next) /\ UNCHANGED <<loc, rset>>
             \/ loc = "fds" /\ loc' = "clients" /\ UNCHANGED rset
             \/ loc' = "top"
        BY <1>11 DEF Skip, AtTop, kernel, tables
    <2>2. next # {} => Min(next) \in Int /\ Min(next) > i
        <3>1. next \in SUBSET Nat /\ \A k \in next : k \in Int /\ k > i
            BY ConnectionsAssumption DEF Slots, ClientSlots
        <3> HIDE DEF next
        <3>2. next # {} => Min(next) \in next
            BY <3>1, MinNat
        <3> QED  BY ONLY <3>1, <3>2
    <2> HIDE DEF next
    <2>3. /\ Servers' = Servers /\ Clients' = Clients
          /\ Kinds' /\ Labelled(fd_info', owner', Servers') /\ Parents'
          /\ \A g \in allset' : g <= maxfd'
        BY <2>1, TablesSame
    <2>4. i \in Int /\ Slots \subseteq Int /\ ClientSlots \subseteq Int
        BY ConnectionsAssumption DEF Regular, TypesInv, TypeOK, Slots, ClientSlots
    <2>5. Calm' /\ Starting'
        BY <2>1, <2>3 DEF Steady, Calm, OwnName, Starting, Scans
    <2>6. CASE next # {} /\ i' = Min(next) /\ UNCHANGED <<loc, rset>>
        <3>1. \A k \in Slots \cup ClientSlots : Ahead(k)' => Ahead(k)
            BY <2>2, <2>4, <2>6 DEF Ahead
        <3>2. Pending'
            BY <2>1, <2>3, <2>6, <3>1 DEF Steady, Pending
        <3> QED  BY <2>3, <2>5, <3>2 DEF Steady
    <2>7. CASE loc = "fds" /\ loc' = "clients" /\ UNCHANGED rset
        <3>1. ASSUME NEW k \in ClientSlots, client_fds[k].client_fd \in rset
              PROVE  input[client_fds[k].client_fd] # "none"
            <4>1. client_fds[k].client_fd # 0
                BY <3>1, FdsNatural DEF Regular, TypesInv, TypeOK
            <4>2. client_fds[k].client_fd \in Clients \cap rset
                BY <3>1, <4>1, RegularFacts
            <4> QED  BY <2>7, <4>2 DEF Steady, Pending
        <3>2. Pending'
            BY <2>1, <2>7, <3>1 DEF Pending
        <3> QED  BY <2>3, <2>5, <3>2 DEF Steady
    <2>8. CASE loc' = "top"
        <3>1. Pending'
            BY <2>8 DEF Pending
        <3> QED  BY <2>3, <2>5, <3>1 DEF Steady
    <2> QED  BY <2>1, <2>6, <2>7, <2>8
<1>12. CASE EndRun
    <2>1. /\ \/ loc = "fdsrun" /\ loc' = "fds"
             \/ loc = "clientsrun" /\ loc' = "clients"
          /\ i' = i + 1 /\ UNCHANGED <<files, owner, tables>>
          /\ UNCHANGED <<input, my_fds, client_fds, rset>>
        BY <1>12 DEF EndRun, RunOf, Scans, kernel, tables
    <2>2. i \in Int /\ Slots \subseteq Int /\ ClientSlots \subseteq Int
        BY ConnectionsAssumption DEF Regular, TypesInv, TypeOK, Slots, ClientSlots
    <2>3. \A k \in Slots \cup ClientSlots : Ahead(k)' => Ahead(k)
        BY <2>1, <2>2 DEF Ahead
    <2>4. Clients' = Clients
        BY <2>1, TablesSame
    <2>5. Pending'
        BY <2>1, <2>3, <2>4 DEF Steady, Pending
    <2> QED  BY <2>1, <2>5, TablesSame DEF Steady, Starting, Calm, OwnName
<1>13. ASSUME NEW fd \in Fds, Connect(fd) \/ Write(fd) \/ HangUp(fd) PROVE Steady'
    <2>1. /\ loc' = loc /\ loc = "top" /\ UNCHANGED <<files, owner, tables>>
        BY <1>13 DEF Connect, Write, HangUp, Arrives, Looks, Steady, Calm
    <2> QED  BY <2>1, TablesSame DEF Steady, Starting, Pending, Calm, OwnName
<1> QED  BY <1>1, <1>2, <1>3, <1>4, <1>5, <1>6, <1>7, <1>8, <1>9, <1>10, <1>11, <1>12, <1>13
         DEF Next, Server

\* No step undoes a disturbance: sc does not come back from its exit.
LEMMA DisturbedStays == ASSUME TypeOK, Next, Disturbed PROVE Disturbed'
<1>0. \/ \E name \in Names : Close(name) \/ \E flag \in BOOLEAN : Open(name, flag)
      \/ Accept
      \/ UNCHANGED <<late, strayed>>
    BY DEF Next, Server, Stops, EndStart, Select, Skip, AcceptFails, AcceptBlocks, Serve, Unnamed,
           Unblock, EndRun, Connect, Write, HangUp, Arrives, vars
<1>1. strayed => strayed'
    <2>1. \A name \in Names : Close(name) => (strayed => strayed')
        BY DEF Close
    <2>2. Accept => (strayed => strayed')
        BY DEF Accept, Accepted
    <2>3. \A name \in Names, flag \in BOOLEAN : Open(name, flag) => strayed' = strayed
        BY DEF Open
    <2>4. CASE UNCHANGED <<late, strayed>>
        BY <2>4
    <2> QED  BY <1>0, <2>1, <2>2, <2>3, <2>4
<1>2. late > 0 => late' > 0
    <2>1. ASSUME NEW name \in Names, Close(name) \/ \E flag \in BOOLEAN : Open(name, flag)
          PROVE  late' = late \/ late' = late + 1
        BY <2>1 DEF Open, Close, Later
    <2>2. Accept => late' = late
        BY DEF Accept
    <2> QED  BY <1>0, <2>1, <2>2 DEF TypeOK
<1>3. loc = "exit" => loc' = "exit"
    BY DEF Next, Server, Stops, Open, Close, Running, EndStart, Select, Skip, Scans, Accept, Listening,
           AcceptFails, AcceptBlocks, Serve, Unnamed, Unblock, ReadOf, EndRun, RunOf,
           Connect, Write, HangUp, Arrives, Looks, vars
<1> QED  BY <1>1, <1>2, <1>3 DEF Disturbed

LEMMA SteadyInit == Init => SteadyInv
<1> SUFFICES ASSUME Init PROVE Steady
    BY TypesInit, RegisteredInit DEF SteadyInv
<1>1. Servers = {} /\ Clients = {}
    BY DEF Init, Servers, Clients
<1>2. Kinds /\ Labelled(fd_info, owner, Servers) /\ Parents
    BY <1>1 DEF Init, Kinds, Labelled, Parents
<1>3. Starting /\ Pending /\ Calm
    BY <1>1 DEF Init, Starting, Pending, Calm, OwnName
<1> QED  BY <1>2, <1>3 DEF Steady

LEMMA SteadyStep == SteadyInv /\ [Next]_vars => SteadyInv'
<1> SUFFICES ASSUME SteadyInv, [Next]_vars PROVE SteadyInv'
    OBVIOUS
<1>1. TypesInv' /\ RegisteredInv'
    BY TypesStep, RegisteredStep DEF SteadyInv
<1>2. ASSUME ~Disturbed, ~Disturbed', Next PROVE Steady'
    <2>1. Regular
        BY <1>2 DEF SteadyInv, RegisteredInv, Registered, Disturbed, Regular
    <2>2. Regular'
        BY <1>1, <1>2 DEF RegisteredInv, Registered, Disturbed, Regular
    <2> QED  BY <1>2, <2>1, <2>2, SteadyNext DEF SteadyInv
<1>3. ASSUME UNCHANGED vars, ~Disturbed PROVE Steady'
    BY <1>3 DEF SteadyInv, Steady, Kinds, Labelled, Parents, Starting, Pending, Ahead, Calm, OwnName,
                Servers, Clients, vars, kernel, tables
<1>4. UNCHANGED vars => Disturbed' = Disturbed
    BY DEF Disturbed, vars
<1>5. ~Disturbed' => Steady'
    BY <1>2, <1>3, <1>4, DisturbedStays DEF SteadyInv, TypesInv
<1> QED  BY <1>1, <1>5 DEF SteadyInv

\* With the connections opened at the start, and an entry for every client, a
\* message runs the program at its own label, the handler never blocks on a
\* connection that is not ready, and select() looks at every fd it has to watch:
\* for every size of the tables and every order of connects, messages and hang-ups.
THEOREM UndisturbedService == Spec => []Undisturbed
<1>1. SteadyInv => Undisturbed
    BY DEF SteadyInv, Undisturbed, Steady, Calm
<1> QED  BY <1>1, SteadyInit, SteadyStep, PTL DEF Spec
=============================================================================
