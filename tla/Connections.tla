---------------------------- MODULE Connections ----------------------------
(***************************************************************************)
(* The connections of sc: the tables of server.c (my_fds, client_fds,      *)
(* allset, maxfd) and of handler.c (fd_info), the statements open and      *)
(* close, and the scan of the server loop that serves the fds select()     *)
(* found ready.  The kernel gives a new connection the lowest free number, *)
(* so a number comes back as soon as it is closed, while the tables still  *)
(* remember it.                                                            *)
(*                                                                         *)
(* Protocols and options are left out: a message is one unit of input that *)
(* a handler reads whole, then runs the program.                           *)
(***************************************************************************)
EXTENDS Integers, FiniteSetsExt

CONSTANTS
    Names, NoName,  \* names of connections (name=), and the empty name
    Fds,            \* numbers the kernel gives to files: the limit of the process
    MAX_FDS,        \* server.h:32
    MAX_CLIENTS,    \* server.h:31
    MaxPending,     \* bound: fds with input at once
    MaxConnects,    \* bound: clients that ever connect
    MaxStatements   \* bound: open and close statements after the start

ASSUME ConnectionsAssumption ==
    /\ NoName \notin Names
    /\ Fds \subseteq Nat \ {0}
    /\ {MAX_FDS, MAX_CLIENTS} \subseteq Nat \ {0}
    /\ {MaxPending, MaxConnects, MaxStatements} \subseteq Nat

VARIABLES
    loc,         \* where sc is: see Locations
    i,           \* index of the scan
    serving,     \* what the handler serves, under which name, and for whom it came
    files,       \* kernel: what each number is
    input,       \* kernel: what can be read from it
    owner,       \* history: the name a file was opened, or accepted, for
    my_fds,      \* server.c:53
    client_fds,  \* server.c:57
    allset, rset, maxfd, num_clients,
    fd_info,     \* handler.c:36
    connects,    \* clients that connected
    late,        \* close statements, and open statements after the start
    strayed      \* history: a close hit a client, or a client found no entry

kernel == <<files, input, owner>>
tables == <<my_fds, client_fds, allset, maxfd, num_clients, fd_info>>
vars == <<loc, i, serving, kernel, tables, rset, connects, late, strayed>>

Nobody == [fd |-> 0, s_fd |-> 0, name |-> NoName, sender |-> NoName]

(***************************************************************************)
(* start     the program runs for the first time                           *)
(* top       the top of the server loop                                    *)
(* fds       in the scan of my_fds, at i   fdsrun      running the program *)
(* clients   in the scan of client_fds     clientsrun  from there          *)
(* fdsread   blocked in a read             clientsread                     *)
(* accept    blocked in accept()           exit                            *)
(***************************************************************************)
Scans == {"fds", "clients"}
Locations == {"start", "top", "accept", "exit", "fds", "clients",
              "fdsrun", "clientsrun", "fdsread", "clientsread"}

RunOf == [fds |-> "fdsrun", clients |-> "clientsrun"]
ReadOf == [fds |-> "fdsread", clients |-> "clientsread"]

Slots == 1..MAX_FDS
ClientSlots == 1..MAX_CLIENTS

\* TypeOK: the tables hold fds or their empty marks.
TypeOK ==
    /\ loc \in Locations
    /\ i \in 1..(1 + IF MAX_FDS > MAX_CLIENTS THEN MAX_FDS ELSE MAX_CLIENTS)
    /\ serving \in [fd : Fds \cup {0}, s_fd : Fds \cup {0},
                    name : Names \cup {NoName}, sender : Names \cup {NoName}]
    /\ files \in [Fds -> {"closed", "listen", "stream"}]
    /\ input \in [Fds -> {"none", "data", "eof"}]
    /\ owner \in [Fds -> Names \cup {NoName}]
    /\ my_fds \in [Slots -> [fd : Fds \cup {-1}, flag : BOOLEAN]]
    /\ client_fds \in [ClientSlots -> [client_fd : Fds \cup {0}, fd : Fds \cup {0}]]
    /\ allset \subseteq Fds /\ rset \subseteq Fds /\ maxfd \in Fds \cup {0}
    /\ num_clients \in Nat
    /\ fd_info \in [Slots -> [name : Names \cup {NoName}, fd : Fds \cup {0},
                              client_fd : Fds \cup {0}]]
    /\ connects \in 0..MaxConnects /\ late \in 0..MaxStatements /\ strayed \in BOOLEAN

-----------------------------------------------------------------------------
(* Searches: every table is searched from its first entry. *)

FreeSlots == {j \in Slots : my_fds[j].fd = -1}
SlotsOf(fd) == {j \in Slots : my_fds[j].fd = fd}
FreeClients == {j \in ClientSlots : client_fds[j].client_fd = 0}
ClientsOf(fd) == {j \in ClientSlots : client_fds[j].client_fd = fd}
InfoOf(name) == {j \in Slots : fd_info[j].name = name}

\* The fds that are registered in the tables
Servers == {my_fds[j].fd : j \in Slots} \ {-1}
Clients == {client_fds[j].client_fd : j \in ClientSlots} \ {0}

\* get_name(): the first entry with this number as its fd or as the client
\* that sent last; FATAL (NoName) without one
NamesOf(info, fd) == {j \in Slots : info[j].fd = fd \/ info[j].client_fd = fd}
get_name(info, fd) ==
    IF NamesOf(info, fd) = {} THEN NoName ELSE info[Min(NamesOf(info, fd))].name

FreeFds == {fd \in Fds : files[fd] = "closed"}
NewFd == Min(FreeFds)

-----------------------------------------------------------------------------

Init ==
    /\ loc = "start" /\ i = 1 /\ serving = Nobody
    /\ files = [fd \in Fds |-> "closed"]
    /\ input = [fd \in Fds |-> "none"]
    /\ owner = [fd \in Fds |-> NoName]
    /\ my_fds = [j \in Slots |-> [fd |-> -1, flag |-> FALSE]]
    /\ client_fds = [j \in ClientSlots |-> [client_fd |-> 0, fd |-> 0]]
    /\ allset = {} /\ rset = {} /\ maxfd = 0 /\ num_clients = 0
    /\ fd_info = [j \in Slots |-> [name |-> NoName, fd |-> 0, client_fd |-> 0]]
    /\ connects = 0 /\ late = 0 /\ strayed = FALSE

\* The kernel makes or closes a file
Makes(fd, kind, name) ==
    /\ files' = [files EXCEPT ![fd] = kind]
    /\ input' = [input EXCEPT ![fd] = "none"]
    /\ owner' = [owner EXCEPT ![fd] = name]

Closes(fd) == Makes(fd, "closed", NoName)

-----------------------------------------------------------------------------
(* The statements open and close. *)

\* set_server(); calc_maxfd() only ever raises maxfd
set_server(fd, flag) ==
    /\ allset' = allset \cup {fd}
    /\ \/ FreeSlots = {} /\ UNCHANGED my_fds
       \/ FreeSlots # {} /\ my_fds' =
             [my_fds EXCEPT ![Min(FreeSlots)] = [fd |-> fd, flag |-> flag]]
    /\ maxfd' = Max({maxfd, fd} \cup Servers \cup Clients)

\* set_server() exits when it searched all entries, also when the last was free
TooManyFds == FreeSlots \subseteq {MAX_FDS}

\* set_fd_info(): the entry of the name, or the first without a name; the
\* client that sent last is kept
InfoSlots(name) == IF InfoOf(name) # {} THEN InfoOf(name) ELSE InfoOf(NoName)

set_fd_info(name, fd) ==
    \/ /\ InfoSlots(name) # {}
       /\ fd_info' = [fd_info EXCEPT ![Min(InfoSlots(name))].name = name,
                                     ![Min(InfoSlots(name))].fd = fd]
    \/ InfoSlots(name) = {} /\ UNCHANGED fd_info

Running == loc \in {"start", "fdsrun", "clientsrun"}

Later == late < MaxStatements /\ late' = late + 1

\* open, as a server (flag) or as a client.  sc exits when one of the tables is
\* full.
Open(name, flag) ==
    /\ Running /\ FreeFds # {}
    /\ Makes(NewFd, IF flag THEN "listen" ELSE "stream", name)
    /\ set_server(NewFd, flag)
    /\ set_fd_info(name, NewFd)
    /\ loc' = IF TooManyFds \/ InfoSlots(name) = {} THEN "exit" ELSE loc
    /\ (loc = "start" /\ UNCHANGED late) \/ (loc # "start" /\ Later)
    /\ UNCHANGED <<i, serving, client_fds, num_clients, rset, connects, strayed>>

\* Mutant of unset_server: maxfd is not set to 0 first
unset_server_NoZero(fd) ==
    /\ allset' = allset \ {fd}
    /\ my_fds' = [j \in Slots |-> IF SlotsOf(fd) # {} /\ j = Min(SlotsOf(fd))
                                  THEN [fd |-> -1, flag |-> FALSE] ELSE my_fds[j]]
    /\ maxfd' = Max({my_fds'[j].fd : j \in Slots})

\* unset_server(); the new maxfd does not look at the clients
unset_server(fd) ==
    /\ allset' = allset \ {fd}
    /\ my_fds' = [j \in Slots |-> IF SlotsOf(fd) # {} /\ j = Min(SlotsOf(fd))
                                  THEN [fd |-> -1, flag |-> FALSE] ELSE my_fds[j]]
    /\ maxfd' = Max({0} \cup {my_fds'[j].fd : j \in Slots})

\* The number last opened under this name, also when it is no longer open
get_fd(name) == IF InfoOf(name) = {} THEN 0 ELSE fd_info[Min(InfoOf(name))].fd

\* close: whatever has the number now is closed.  The clients of a server stay
\* connected and fd_info keeps the number.
Close(name) ==
    /\ Running /\ Later
    /\ \E fd \in {get_fd(name)} :
          \/ /\ fd \in Fds \ FreeFds
             /\ Closes(fd) /\ unset_server(fd)
             /\ strayed' = (strayed \/ fd \in Clients)
          \/ /\ fd \in {0} \cup FreeFds
             /\ UNCHANGED <<kernel, my_fds, allset, maxfd, strayed>>
    /\ UNCHANGED <<loc, i, serving, client_fds, num_clients, fd_info, rset, connects>>

EndStart ==
    /\ loc = "start" /\ loc' = "top"
    /\ UNCHANGED <<i, serving, kernel, tables, rset, connects, late, strayed>>

-----------------------------------------------------------------------------
(* The server loop. *)

\* Mutant of Ready: select(maxfd, allset)
Ready_OffByOne == {fd \in allset : fd < maxfd /\ input[fd] # "none"}

\* What select(maxfd + 1, allset) reports
Ready == {fd \in allset : fd <= maxfd /\ input[fd] # "none"}

\* select() returns
Select ==
    /\ loc = "top" /\ loc' = "fds" /\ i' = 1
    /\ Ready # {} /\ rset' = Ready
    /\ UNCHANGED <<serving, kernel, tables, connects, late, strayed>>

\* Back to the top, where i and rset are set anew
AtTop == loc' = "top" /\ i' = 1 /\ rset' = {}

\* Entry k of the table that is scanned: what to serve, 0 for nothing
NoEntry == [fd |-> 0, s_fd |-> 0]
EntryAt(k) ==
    IF loc \in {"fds", "accept"}
    THEN IF k \in Slots /\ my_fds[k].fd \in rset \ {-1}
         THEN [fd |-> my_fds[k].fd, s_fd |-> my_fds[k].fd] ELSE NoEntry
    ELSE IF k \in ClientSlots /\ client_fds[k].client_fd \in rset \ {0}
         THEN [fd |-> client_fds[k].client_fd, s_fd |-> client_fds[k].fd] ELSE NoEntry

Entry == EntryAt(i)

Listening == loc \in {"fds", "accept"} /\ i \in Slots /\ my_fds[i].flag

\* Entries that are free or not ready are passed over, up to the next that is
\* served or the end of the table
Skip ==
    /\ loc \in Scans /\ Entry = NoEntry
    /\ \E next \in {{k \in Slots \cup ClientSlots : k > i /\ EntryAt(k) # NoEntry}} :
          \/ next # {} /\ i' = Min(next) /\ UNCHANGED <<loc, rset>>
          \/ next = {} /\ loc = "fds" /\ i' = 1 /\ loc' = "clients" /\ UNCHANGED rset
          \/ next = {} /\ loc = "clients" /\ AtTop
    /\ UNCHANGED <<serving, kernel, tables, connects, late, strayed>>

\* Mutant of Accepted: maxfd is not computed again
Accepted_Unseen(s_fd, client_fd) ==
    /\ \/ /\ FreeClients # {}
          /\ client_fds' = [client_fds EXCEPT ![Min(FreeClients)] =
                [client_fd |-> client_fd, fd |-> s_fd]]
          /\ num_clients' = num_clients + Min(FreeClients)
          /\ UNCHANGED strayed
       \/ /\ FreeClients = {}
          /\ num_clients' = num_clients + MAX_CLIENTS
          /\ strayed' = TRUE /\ UNCHANGED client_fds
    /\ allset' = allset \cup {client_fd}
    /\ maxfd' = maxfd

\* The new client gets the first free entry, or none; every entry looked at
\* counts
Accepted(s_fd, client_fd) ==
    /\ \/ /\ FreeClients # {}
          /\ client_fds' = [client_fds EXCEPT ![Min(FreeClients)] =
                [client_fd |-> client_fd, fd |-> s_fd]]
          /\ num_clients' = num_clients + Min(FreeClients)
          /\ UNCHANGED strayed
       \/ /\ FreeClients = {}
          /\ num_clients' = num_clients + MAX_CLIENTS
          /\ strayed' = TRUE /\ UNCHANGED client_fds
    /\ allset' = allset \cup {client_fd}
    /\ maxfd' = Max({maxfd} \cup Servers \cup Clients')

\* accept(), after which the loop starts again from its top; sc exits when
\* num_clients happens to be MAX_CLIENTS
Accept ==
    /\ Listening /\ Entry.fd # 0 /\ FreeFds # {}
    /\ files[Entry.fd] = "listen" /\ input[Entry.fd] = "data"
    /\ Accepted(Entry.fd, NewFd)
    /\ files' = [files EXCEPT ![NewFd] = "stream"]
    /\ input' = [input EXCEPT ![NewFd] = "none", ![Entry.fd] = "none"]
    /\ owner' = [owner EXCEPT ![NewFd] = owner[Entry.fd]]
    /\ \/ num_clients' # MAX_CLIENTS /\ AtTop
       \/ num_clients' = MAX_CLIENTS /\ loc' = "exit" /\ UNCHANGED <<i, rset>>
    /\ UNCHANGED <<serving, my_fds, fd_info, connects, late>>

\* accept() fails on a number that is no longer a server, or when the process
\* has no fd left: server() returns and sc ends
AcceptFails ==
    /\ Listening /\ Entry.fd # 0
    /\ files[Entry.fd] # "listen" \/ (input[Entry.fd] = "data" /\ FreeFds = {})
    /\ loc' = "exit"
    /\ UNCHANGED <<i, serving, kernel, tables, rset, connects, late, strayed>>

\* The bit in rset is of an earlier file with the same number
AcceptBlocks ==
    /\ loc = "fds" /\ Listening /\ Entry.fd # 0
    /\ files[Entry.fd] = "listen" /\ input[Entry.fd] = "none"
    /\ loc' = "accept"
    /\ UNCHANGED <<i, serving, kernel, tables, rset, connects, late, strayed>>

\* Mutant of client_disconnect: the entry of a client is kept
client_disconnect_Kept(fd) ==
    /\ allset' = allset \ {fd}
    /\ Closes(fd)
    /\ UNCHANGED client_fds
    /\ \/ ClientsOf(fd) # {} /\ UNCHANGED my_fds
       \/ /\ ClientsOf(fd) = {} /\ SlotsOf(fd) # {}
          /\ my_fds' = [my_fds EXCEPT ![Min(SlotsOf(fd))].fd = -1]

\* client_disconnect(): a client, else a connection opened by the program.
\* maxfd stays.
client_disconnect(fd) ==
    /\ allset' = allset \ {fd}
    /\ Closes(fd)
    /\ \/ /\ ClientsOf(fd) # {}
          /\ client_fds' = [client_fds EXCEPT ![Min(ClientsOf(fd))].client_fd = 0]
          /\ UNCHANGED my_fds
       \/ /\ ClientsOf(fd) = {} /\ SlotsOf(fd) # {}
          /\ my_fds' = [my_fds EXCEPT ![Min(SlotsOf(fd))].fd = -1]
          /\ UNCHANGED client_fds

\* handler() of this scan reads from fd: it blocks, finds the connection closed
\* (or not readable, which my_read() leaves alone), or gets a message and runs
\* the program at the label named by s_fd
Handles(scan, s_fd, fd, info) ==
    \/ /\ files[fd] = "stream" /\ input[fd] = "none"
       /\ loc' = ReadOf[scan]
       /\ serving' = [Nobody EXCEPT !.fd = fd, !.s_fd = s_fd]
       /\ UNCHANGED <<i, kernel, my_fds, client_fds, allset>>
    \/ /\ files[fd] # "stream" \/ input[fd] = "eof"
       /\ client_disconnect(fd)
       /\ loc' = scan /\ i' = i + 1 /\ serving' = Nobody
    \/ /\ files[fd] # "stream"
       /\ loc' = scan /\ i' = i + 1 /\ serving' = Nobody
       /\ UNCHANGED <<kernel, my_fds, client_fds, allset>>
    \/ /\ files[fd] = "stream" /\ input[fd] = "data"
       /\ input' = [input EXCEPT ![fd] = "none"]
       /\ loc' = IF get_name(info, s_fd) = NoName THEN "exit" ELSE RunOf[scan]
       /\ serving' = [fd |-> fd, s_fd |-> s_fd,
                      name |-> get_name(info, s_fd), sender |-> owner[fd]]
       /\ UNCHANGED <<i, files, owner, my_fds, client_fds, allset>>

\* handler(): the name is looked up by number and its last client set
Serve ==
    /\ loc \in Scans /\ ~Listening /\ Entry.fd # 0
    /\ get_name(fd_info, Entry.s_fd) # NoName
    /\ \E j \in {Min(InfoOf(get_name(fd_info, Entry.s_fd)))} :
          fd_info' = [fd_info EXCEPT ![j].client_fd = Entry.fd]
    /\ Handles(loc, Entry.s_fd, Entry.fd, fd_info')
    /\ UNCHANGED <<maxfd, num_clients, rset, connects, late, strayed>>

\* FATAL in get_name()
Unnamed ==
    /\ loc \in Scans /\ Entry.fd # 0 /\ ~Listening
    /\ get_name(fd_info, Entry.s_fd) = NoName
    /\ loc' = "exit"
    /\ UNCHANGED <<i, serving, kernel, tables, rset, connects, late, strayed>>

\* Something comes for a read that blocked
Unblock ==
    /\ \E scan \in Scans :
          /\ loc = ReadOf[scan] /\ input[serving.fd] # "none"
          /\ Handles(scan, serving.s_fd, serving.fd, fd_info)
    /\ UNCHANGED <<maxfd, num_clients, fd_info, rset, connects, late, strayed>>

\* The program is done and the scan goes on
EndRun ==
    /\ \E scan \in Scans : loc = RunOf[scan] /\ loc' = scan
    /\ i' = i + 1 /\ serving' = Nobody
    /\ UNCHANGED <<kernel, tables, rset, connects, late, strayed>>

-----------------------------------------------------------------------------
(* The other ends. *)

\* sc looks at its input in select(), and where it blocks; what arrives in
\* between is the same as if it arrived there
Looks == loc \in {"top", "accept", "fdsread", "clientsread"}

Arrives(fd, what) ==
    /\ Looks /\ input[fd] = "none"
    /\ Cardinality({f \in Fds : input[f] # "none"}) < MaxPending
    /\ input' = [input EXCEPT ![fd] = what]
    /\ UNCHANGED <<loc, i, serving, files, owner, tables, rset, late, strayed>>

Connect(fd) ==
    /\ files[fd] = "listen" /\ connects < MaxConnects
    /\ Arrives(fd, "data")
    /\ connects' = connects + 1

Write(fd) == files[fd] = "stream" /\ Arrives(fd, "data") /\ UNCHANGED connects

HangUp(fd) == files[fd] = "stream" /\ Arrives(fd, "eof") /\ UNCHANGED connects

\* Exited, or asleep in select(), accept() or read()
Stops ==
    /\ loc \in {"exit", "accept", "fdsread", "clientsread"} \/ (loc = "top" /\ Ready = {})
    /\ UNCHANGED vars

Server == Select \/ Skip \/ Accept \/ AcceptFails \/ AcceptBlocks \/ Serve \/ Unnamed \/ Unblock \/ EndRun

Next ==
    \/ \E name \in Names : Close(name) \/ \E flag \in BOOLEAN : Open(name, flag)
    \/ EndStart
    \/ Server
    \/ \E fd \in Fds : Connect(fd) \/ Write(fd) \/ HangUp(fd)
    \/ Stops

Spec == Init /\ [][Next]_vars

FairSpec == Spec /\ WF_vars(EndStart) /\ WF_vars(Server)

-----------------------------------------------------------------------------

\* What select() watches is open
WatchedOpen == \A fd \in allset : files[fd] # "closed"

\* What select() watches is what the tables serve, and no file has two entries
WatchedServed ==
    /\ allset = Servers \cup Clients
    /\ Servers \cap Clients = {}
    /\ \A fd \in Servers : \A j, k \in SlotsOf(fd) : j = k
    /\ \A fd \in Clients : \A j, k \in ClientsOf(fd) : j = k

\* Registered: whatever the program opens and closes, no fd that select()
\* watches is closed; and until a close hits a client or a client finds no
\* entry, no connection is leaked, served twice or watched in vain.
Registered ==
    loc # "exit" => WatchedOpen /\ (~strayed => WatchedServed)

\* OwnName: a message runs the program at the label of the connection it came on.
OwnName ==
    loc \in {"fdsrun", "clientsrun"} => serving.name = serving.sender

Disturbed == late > 0 \/ strayed \/ loc = "exit"

\* Undisturbed: while all connections are those opened at the start, and every
\* client has an entry, a message runs the program at its own label, no fd is
\* read that is not ready, and no watched fd is beyond what select() looks at.
Undisturbed ==
    ~Disturbed =>
        /\ OwnName
        /\ loc \notin {"fdsread", "clientsread", "accept"}
        /\ \A fd \in allset : fd <= maxfd

\* Served: with the connections opened at the start, what arrives on a
\* connection is read, whatever arrives on others.
Served ==
    \A fd \in Fds :
        (loc = "top" /\ input[fd] # "none") ~> (input[fd] = "none" \/ Disturbed)
=============================================================================
