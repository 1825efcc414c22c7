------------------------------ MODULE DmnProofs ------------------------------
(***************************************************************************)
(* Proofs about Dmn, for any number of clients, managers, calls and        *)
(* faults.  As long as no client leaves between its marker and its answer  *)
(* a client is given only what answers its own request.  While no backend  *)
(* fails and no server is replaced a call returns with a marker, and as    *)
(* long as no client leaves so, with its whole answer.  Between the calls  *)
(* of managers that come one after the other the files name the one server *)
(* that runs, those aside whose pid file could not be written.             *)
(***************************************************************************)
EXTENDS Dmn, SequenceTheorems, FiniteSetTheorems, TLAPS

Places == {"forked", "bind", "failed", "start", "note", "accept", "bridge", "over", "stop",
           "dead"}
Pieces == [of : Clients, last : BOOLEAN]
ServerState == [at : Places, doomed : BOOLEAN, backend : Nat, cli : SUBSET Clients,
                backlog : Seq(Clients), open : BOOLEAN, input : BOOLEAN]
BackendState == [alive : BOOLEAN, by : Nat, input : BOOLEAN, asked : Seq(Clients),
                 out : Seq(Pieces)]
ClientPlaces == {"idle", "linked", "asked", "done", "failed", "refused"}
Calls == [op : {"none", "create", "delete", "undo"},
          step : {"idle", "kill", "unlink", "kill_backend", "forget_backend", "forget", "fork",
                  "ready", "register", "config", "unconfig"},
          new : Nat, found : BOOLEAN]

FileType ==
    /\ sock \in 0..Len(server) /\ pid \in 0..Len(server) /\ bpid \in 0..Len(backend)
    /\ config \in BOOLEAN

ServerType ==
    /\ server \in Seq(ServerState)
    /\ \A s \in Servers : server[s].backend \in 0..Len(backend)

BackendType ==
    /\ backend \in Seq(BackendState)
    /\ \A b \in Backends : backend[b].by \in Servers

\* What a client has got is left to the invariant that says what it is.
ClientState(r) == r \in [at : ClientPlaces, srv : {r.srv}, gone : BOOLEAN, hung : BOOLEAN,
                         got : {r.got}]

ClientType ==
    /\ client = [c \in Clients |-> client[c]]
    /\ \A c \in Clients : ClientState(client[c])

\* A manager that waits for its server, or registers it, has one.
ManagerType ==
    /\ mgr \in [Managers -> Calls]
    /\ \A m \in Managers :
         /\ mgr[m].step = "idle" => mgr[m] = Idle
         /\ mgr[m].step \in {"ready", "register", "config"} => mgr[m].new \in Servers

FlagType ==
    /\ raced \in BOOLEAN /\ orphaned \in BOOLEAN /\ broken \in BOOLEAN /\ deserted \in BOOLEAN
    /\ last \in {"none", "create", "delete"} /\ budget \in Load

TInv == FileType /\ ServerType /\ BackendType /\ ClientType /\ ManagerType /\ FlagType

-----------------------------------------------------------------------------
(* How the processes change: one of them at a time. *)

LEMMA ServerIs == ASSUME ServerType, NEW s \in Servers PROVE server[s] \in ServerState
  BY ElementOfSeq DEF ServerType, Servers

LEMMA BackendIs == ASSUME BackendType, NEW b \in Backends PROVE backend[b] \in BackendState
  BY ElementOfSeq DEF BackendType, Backends

LEMMA ServerPut ==
    ASSUME ServerType, NEW s \in Servers, NEW r \in ServerState,
           server' = [server EXCEPT ![s] = r]
    PROVE  /\ server' \in Seq(ServerState) /\ Len(server') = Len(server) /\ server'[s] = r
           /\ \A t \in Servers \ {s} : server'[t] = server[t]
  BY ExceptSeq DEF ServerType, Servers

LEMMA BackendPut ==
    ASSUME BackendType, NEW b \in Backends, NEW r \in BackendState,
           backend' = [backend EXCEPT ![b] = r]
    PROVE  /\ backend' \in Seq(BackendState) /\ Len(backend') = Len(backend) /\ backend'[b] = r
           /\ \A d \in Backends \ {b} : backend'[d] = backend[d]
  BY ExceptSeq DEF BackendType, Backends

\* One server changes: the others, and which it is, stay.
OneServer(s) ==
    /\ server' \in Seq(ServerState) /\ Len(server') = Len(server)
    /\ \A t \in Servers \ {s} : server'[t] = server[t]

\* One backend changes, and still has its server.
OneBackend(b) ==
    /\ backend' \in Seq(BackendState) /\ Len(backend') = Len(backend)
    /\ \A d \in Backends \ {b} : backend'[d] = backend[d]
    /\ backend'[b].by = backend[b].by

\* The parts of a server that only some steps change.
SameCli(s) == server'[s].cli = server[s].cli
SameBacklog(s) == server'[s].backlog = server[s].backlog
SameBackend(s) == server'[s].backend = server[s].backend
SameInput(s) == server'[s].input = server[s].input
SameOpen(s) == server'[s].open = server[s].open
SameDoom(s) == server'[s].doomed = server[s].doomed
SameAt(s) == server'[s].at = server[s].at

LEMMA MoveStep ==
    ASSUME ServerType, NEW s \in Servers, NEW place \in Places, Move(s, place)
    PROVE  /\ OneServer(s) /\ server'[s].at = place
           /\ SameCli(s) /\ SameBacklog(s) /\ SameBackend(s) /\ SameInput(s) /\ SameOpen(s)
           /\ SameDoom(s)
  <1> DEFINE r == [server[s] EXCEPT !.at = place]
  <1>1. server[s] \in ServerState
    BY ServerIs
  <1>2. /\ r \in ServerState /\ r.at = place /\ r.cli = server[s].cli
        /\ r.backlog = server[s].backlog /\ r.backend = server[s].backend
        /\ r.input = server[s].input /\ r.open = server[s].open /\ r.doomed = server[s].doomed
    BY <1>1 DEF ServerState
  <1> HIDE DEF r
  <1>3. server' = [server EXCEPT ![s] = r]
    BY DEF r, Move
  <1>4. OneServer(s) /\ server'[s] = r
    BY <1>2, <1>3, ServerPut DEF OneServer
  <1> QED
    BY <1>2, <1>4
       DEF SameCli, SameBacklog, SameBackend, SameInput, SameOpen, SameDoom

LEMMA KillStep ==
    ASSUME ServerType, NEW s \in Servers, server' = [server EXCEPT ![s].doomed = TRUE]
    PROVE  /\ OneServer(s) /\ server'[s].doomed = TRUE
           /\ SameCli(s) /\ SameBacklog(s) /\ SameBackend(s) /\ SameInput(s) /\ SameOpen(s)
           /\ SameAt(s)
  <1> DEFINE r == [server[s] EXCEPT !.doomed = TRUE]
  <1>1. server[s] \in ServerState
    BY ServerIs
  <1>2. /\ r \in ServerState /\ r.at = server[s].at /\ r.cli = server[s].cli
        /\ r.backlog = server[s].backlog /\ r.backend = server[s].backend
        /\ r.input = server[s].input /\ r.open = server[s].open /\ r.doomed = TRUE
    BY <1>1 DEF ServerState
  <1> HIDE DEF r
  <1>3. server' = [server EXCEPT ![s] = r]
    BY DEF r
  <1>4. OneServer(s) /\ server'[s] = r
    BY <1>2, <1>3, ServerPut DEF OneServer
  <1> QED
    BY <1>2, <1>4
       DEF SameCli, SameBacklog, SameBackend, SameInput, SameOpen, SameAt

LEMMA BacklogStep ==
    ASSUME ServerType, NEW s \in Servers, NEW q \in Seq(Clients),
           server' = [server EXCEPT ![s].backlog = q]
    PROVE  /\ OneServer(s) /\ server'[s].backlog = q
           /\ SameCli(s) /\ SameBackend(s) /\ SameInput(s) /\ SameOpen(s)
           /\ SameAt(s) /\ SameDoom(s)
  <1> DEFINE r == [server[s] EXCEPT !.backlog = q]
  <1>1. server[s] \in ServerState
    BY ServerIs
  <1>2. /\ r \in ServerState /\ r.at = server[s].at /\ r.cli = server[s].cli
        /\ r.backlog = q /\ r.backend = server[s].backend
        /\ r.input = server[s].input /\ r.open = server[s].open /\ r.doomed = server[s].doomed
    BY <1>1 DEF ServerState
  <1> HIDE DEF r
  <1>3. server' = [server EXCEPT ![s] = r]
    BY DEF r
  <1>4. OneServer(s) /\ server'[s] = r
    BY <1>2, <1>3, ServerPut DEF OneServer
  <1> QED
    BY <1>2, <1>4
       DEF SameCli, SameDoom, SameBackend, SameInput, SameOpen, SameAt

-----------------------------------------------------------------------------
(* How the clients change. *)

\* All but one part of the clients stays, or all but one client.
SamePlace(c) == client'[c].at = client[c].at /\ client'[c].srv = client[c].srv
SameGone(c) == client'[c].gone = client[c].gone
SameHung(c) == client'[c].hung = client[c].hung
SameGot(c) == client'[c].got = client[c].got

LEMMA ClientIs ==
    ASSUME ClientType, NEW c \in Clients
    PROVE  /\ client[c].at \in ClientPlaces /\ client[c].gone \in BOOLEAN
           /\ client[c].hung \in BOOLEAN
           /\ client[c] = [at |-> client[c].at, srv |-> client[c].srv, gone |-> client[c].gone,
                           hung |-> client[c].hung, got |-> client[c].got]
  BY DEF ClientType, ClientState

\* One client is what it becomes.
OneClient(c) ==
    /\ ClientType'
    /\ \A d \in Clients \ {c} : client'[d] = client[d]

LEMMA ClientPut ==
    ASSUME ClientType, NEW c \in Clients, NEW e, ClientState(e),
           client' = [client EXCEPT ![c] = e]
    PROVE  OneClient(c) /\ client'[c] = e
  BY DEF ClientType, OneClient

LEMMA HangStep ==
    ASSUME ClientType, NEW C, Hang(C)
    PROVE  /\ ClientType'
           /\ \A c \in Clients : /\ SamePlace(c) /\ SameGone(c) /\ SameGot(c)
                                 /\ client'[c].hung = (client[c].hung \/ c \in C)
  <1>1. ASSUME NEW c \in Clients
        PROVE  /\ ClientState(client'[c]) /\ SamePlace(c) /\ SameGone(c) /\ SameGot(c)
               /\ client'[c].hung = (client[c].hung \/ c \in C)
    <2> DEFINE h == client[c].hung \/ c \in C
               e == [client[c] EXCEPT !.hung = h]
    <2>1. h \in BOOLEAN
      BY ClientIs
    <2>2. client'[c] = [client[c] EXCEPT !.hung = h]
      BY DEF Hang
    <2> HIDE DEF h
    <2>3. client'[c] = e
      BY <2>2
    <2>4. /\ ClientState(e) /\ e.at = client[c].at /\ e.srv = client[c].srv
          /\ e.gone = client[c].gone /\ e.hung = h /\ e.got = client[c].got
      BY <2>1 DEF ClientState, ClientType
    <2> QED  BY <2>3, <2>4 DEF SamePlace, SameGone, SameGot, h
  <1>2. client' = [c \in Clients |-> client'[c]]
    BY DEF Hang
  <1> QED  BY <1>1, <1>2 DEF ClientType

\* One client goes on.
LEMMA PlaceStep ==
    ASSUME ClientType, NEW c \in Clients, NEW at \in ClientPlaces,
           client' = [client EXCEPT ![c].at = at]
    PROVE  /\ OneClient(c) /\ client'[c].at = at /\ client'[c].srv = client[c].srv
           /\ SameGone(c) /\ SameGot(c) /\ SameHung(c)
  <1> DEFINE e == [client[c] EXCEPT !.at = at]
  <1>2. client' = [client EXCEPT ![c] = e]
    OBVIOUS
  <1>3. /\ ClientState(e) /\ e.at = at /\ e.srv = client[c].srv
        /\ e.gone = client[c].gone /\ e.hung = client[c].hung /\ e.got = client[c].got
    BY DEF ClientState, ClientType
  <1> HIDE DEF e
  <1>4. OneClient(c) /\ client'[c] = e
    BY <1>2, <1>3, ClientPut
  <1> QED  BY <1>3, <1>4 DEF SameGone, SameGot, SameHung

LEMMA LinkStep ==
    ASSUME ClientType, NEW c \in Clients, NEW s,
           client' = [client EXCEPT ![c].at = "linked", ![c].srv = s]
    PROVE  /\ OneClient(c) /\ client'[c].at = "linked" /\ client'[c].srv = s
           /\ SameGone(c) /\ SameGot(c) /\ SameHung(c)
  <1> DEFINE e == [client[c] EXCEPT !.at = "linked", !.srv = s]
  <1>2. client' = [client EXCEPT ![c] = e]
    BY DEF ClientType, ClientState
  <1>3. /\ ClientState(e) /\ e.at = "linked" /\ e.srv = s
        /\ e.gone = client[c].gone /\ e.hung = client[c].hung /\ e.got = client[c].got
    BY DEF ClientState, ClientType, ClientPlaces
  <1> HIDE DEF e
  <1>4. OneClient(c) /\ client'[c] = e
    BY <1>2, <1>3, ClientPut
  <1> QED  BY <1>3, <1>4 DEF SameGone, SameGot, SameHung

LEMMA GoneStep ==
    ASSUME ClientType, NEW c \in Clients, client' = [client EXCEPT ![c].gone = TRUE]
    PROVE  /\ OneClient(c) /\ client'[c].gone = TRUE
           /\ SamePlace(c) /\ SameGot(c) /\ SameHung(c)
  <1> DEFINE e == [client[c] EXCEPT !.gone = TRUE]
  <1>2. client' = [client EXCEPT ![c] = e]
    OBVIOUS
  <1>3. /\ ClientState(e) /\ e.at = client[c].at /\ e.srv = client[c].srv
        /\ e.gone = TRUE /\ e.hung = client[c].hung /\ e.got = client[c].got
    BY DEF ClientState, ClientType
  <1> HIDE DEF e
  <1>4. OneClient(c) /\ client'[c] = e
    BY <1>2, <1>3, ClientPut
  <1> QED  BY <1>3, <1>4 DEF SamePlace, SameGot, SameHung

LEMMA DeliverStep ==
    ASSUME ClientType, NEW c \in Clients, NEW pieces, Deliver(c, pieces)
    PROVE  /\ OneClient(c) /\ SamePlace(c) /\ SameGone(c) /\ SameHung(c)
           /\ client'[c].got = IF client[c].gone THEN client[c].got ELSE client[c].got \o pieces
  <1> DEFINE g == IF client[c].gone THEN client[c].got ELSE client[c].got \o pieces
             e == [client[c] EXCEPT !.got = g]
  <1>1. client' = [client EXCEPT ![c].got = g]
    BY DEF Deliver
  <1> HIDE DEF g
  <1>3. client' = [client EXCEPT ![c] = e]
    BY <1>1
  <1>4. /\ ClientState(e) /\ e.at = client[c].at /\ e.srv = client[c].srv
        /\ e.gone = client[c].gone /\ e.hung = client[c].hung /\ e.got = g
    BY DEF ClientState, ClientType
  <1> HIDE DEF e
  <1>5. OneClient(c) /\ client'[c] = e
    BY <1>3, <1>4, ClientPut
  <1> QED  BY <1>4, <1>5 DEF SamePlace, SameGone, SameHung, g

\* Clients no one touches.
LEMMA SameClients == ASSUME ClientType, UNCHANGED client PROVE ClientType'
  BY DEF ClientType

-----------------------------------------------------------------------------
(* What the steps of the servers do. *)

\* A backend goes on but for its life, or altogether.
LEMMA ShutStep ==
    ASSUME BackendType, NEW b \in Backends, backend' = [backend EXCEPT ![b].alive = FALSE]
    PROVE  /\ OneBackend(b) /\ backend'[b].alive = FALSE
           /\ backend'[b].input = backend[b].input /\ backend'[b].asked = backend[b].asked
           /\ backend'[b].out = backend[b].out
  <1> DEFINE r == [backend[b] EXCEPT !.alive = FALSE]
  <1>1. backend[b] \in BackendState
    BY BackendIs
  <1>2. /\ r \in BackendState /\ r.alive = FALSE /\ r.input = backend[b].input
        /\ r.asked = backend[b].asked /\ r.out = backend[b].out /\ r.by = backend[b].by
    BY <1>1 DEF BackendState
  <1> HIDE DEF r
  <1>3. backend' = [backend EXCEPT ![b] = r]
    BY DEF r
  <1>4. OneBackend(b) /\ backend'[b] = r
    BY <1>2, <1>3, BackendPut DEF OneBackend
  <1> QED  BY <1>2, <1>4

NewBackend(s) == [alive |-> TRUE, by |-> s, input |-> TRUE, asked |-> <<>>, out |-> <<>>]

LEMMA StartStep ==
    ASSUME ServerType, BackendType, NEW s \in Servers, Start(s)
    PROVE  /\ OneServer(s) /\ server'[s].at = "note" /\ server'[s].backend = Len(backend) + 1
           /\ server'[s].input = TRUE
           /\ SameCli(s) /\ SameBacklog(s) /\ SameOpen(s) /\ SameDoom(s)
           /\ backend' \in Seq(BackendState) /\ Len(backend') = Len(backend) + 1
           /\ \A b \in Backends : backend'[b] = backend[b]
           /\ backend'[Len(backend) + 1] = NewBackend(s)
  <1> DEFINE r == [server[s] EXCEPT !.at = "note", !.backend = Len(backend) + 1, !.input = TRUE]
  <1>1. server[s] \in ServerState /\ Len(backend) + 1 \in Nat /\ "note" \in Places
    BY ServerIs DEF BackendType, Places
  <1>2. /\ r \in ServerState /\ r.at = "note" /\ r.cli = server[s].cli
        /\ r.backlog = server[s].backlog /\ r.backend = Len(backend) + 1
        /\ r.input = TRUE /\ r.open = server[s].open /\ r.doomed = server[s].doomed
    BY <1>1 DEF ServerState
  <1>3. server' = [server EXCEPT ![s] = r]
    BY <1>1 DEF Start, ServerState, ServerType, Servers
  <1> HIDE DEF r
  <1>4. OneServer(s) /\ server'[s] = r
    BY <1>2, <1>3, ServerPut DEF OneServer
  <1>5. NewBackend(s) \in BackendState
    BY EmptySeq DEF NewBackend, BackendState, Servers, ServerType
  <1>6. backend' = Append(backend, NewBackend(s))
    BY DEF Start, NewBackend
  <1>7. /\ backend' \in Seq(BackendState) /\ Len(backend') = Len(backend) + 1
        /\ \A b \in Backends : backend'[b] = backend[b]
        /\ backend'[Len(backend) + 1] = NewBackend(s)
    BY <1>5, <1>6, AppendProperties DEF BackendType, Backends
  <1> QED
    BY <1>2, <1>4, <1>7 DEF SameCli, SameBacklog, SameOpen, SameDoom

LEMMA AcceptStep ==
    ASSUME ServerType, NEW s \in Servers, Accept(s)
    PROVE  /\ server[s].backlog \in Seq(Clients) /\ server[s].backlog # <<>>
           /\ Head(server[s].backlog) \in Clients
           /\ OneServer(s) /\ server'[s].at = "bridge"
           /\ server'[s].cli = {Head(server[s].backlog)}
           /\ server'[s].backlog = Tail(server[s].backlog) /\ server'[s].open = TRUE
           /\ SameBackend(s) /\ SameInput(s) /\ SameDoom(s)
  <1> DEFINE q == server[s].backlog
             c == Head(q)
             tail == Tail(q)
             r == [server[s] EXCEPT !.at = "bridge", !.cli = {c}, !.backlog = tail,
                                    !.open = TRUE]
  <1>1. server[s] \in ServerState /\ "bridge" \in Places
    BY ServerIs DEF Places
  <1>2. q \in Seq(Clients) /\ q # <<>> /\ c \in Clients /\ tail \in Seq(Clients)
    BY <1>1, HeadTailProperties DEF ServerState, Accept
  <1>4. server' = [server EXCEPT ![s] = r]
    BY DEF Accept
  <1> HIDE DEF c, tail
  <1>3. /\ r \in ServerState /\ r.at = "bridge" /\ r.cli = {c}
        /\ r.backlog = tail /\ r.backend = server[s].backend
        /\ r.input = server[s].input /\ r.open = TRUE /\ r.doomed = server[s].doomed
    BY <1>1, <1>2 DEF ServerState
  <1> HIDE DEF r
  <1>5. OneServer(s) /\ server'[s] = r
    BY <1>3, <1>4, ServerPut DEF OneServer
  <1> QED  BY <1>2, <1>3, <1>5 DEF SameInput, SameBackend, SameDoom, c, tail

\* The request is read.
LEMMA OpenStep ==
    ASSUME ServerType, NEW s \in Servers,
           server' = [server EXCEPT ![s].open = FALSE]
    PROVE  /\ OneServer(s) /\ server'[s].open = FALSE
           /\ SameAt(s) /\ SameDoom(s) /\ SameBackend(s) /\ SameCli(s) /\ SameBacklog(s) /\ SameInput(s)
  <1> DEFINE r == [server[s] EXCEPT !.open = FALSE]
  <1>1. server[s] \in ServerState
    BY ServerIs
  <1>2. /\ r \in ServerState
        /\ r.open = FALSE
        /\ r.at = server[s].at /\ r.doomed = server[s].doomed /\ r.backend = server[s].backend
        /\ r.cli = server[s].cli /\ r.backlog = server[s].backlog /\ r.input = server[s].input
    BY <1>1 DEF ServerState
  <1>3. server' = [server EXCEPT ![s] = r]
    BY <1>1 DEF ServerState, ServerType, Servers
  <1> HIDE DEF r
  <1>4. OneServer(s) /\ server'[s] = r
    BY <1>2, <1>3, ServerPut DEF OneServer
  <1> QED
    BY <1>2, <1>4 DEF SameAt, SameDoom, SameBackend, SameCli, SameBacklog, SameInput

\* The request ends without its marker.
LEMMA ShutInputStep ==
    ASSUME ServerType, NEW s \in Servers,
           server' = [server EXCEPT ![s].open = FALSE, ![s].input = FALSE]
    PROVE  /\ OneServer(s) /\ server'[s].open = FALSE /\ server'[s].input = FALSE
           /\ SameAt(s) /\ SameDoom(s) /\ SameBackend(s) /\ SameCli(s) /\ SameBacklog(s)
  <1> DEFINE r == [server[s] EXCEPT !.open = FALSE, !.input = FALSE]
  <1>1. server[s] \in ServerState
    BY ServerIs
  <1>2. /\ r \in ServerState
        /\ r.open = FALSE /\ r.input = FALSE
        /\ r.at = server[s].at /\ r.doomed = server[s].doomed /\ r.backend = server[s].backend
        /\ r.cli = server[s].cli /\ r.backlog = server[s].backlog
    BY <1>1 DEF ServerState
  <1>3. server' = [server EXCEPT ![s] = r]
    BY <1>1 DEF ServerState, ServerType, Servers
  <1> HIDE DEF r
  <1>4. OneServer(s) /\ server'[s] = r
    BY <1>2, <1>3, ServerPut DEF OneServer
  <1> QED
    BY <1>2, <1>4 DEF SameAt, SameDoom, SameBackend, SameCli, SameBacklog

\* The connection of the client is closed.
LEMMA HangUpStep ==
    ASSUME ServerType, NEW s \in Servers, NEW place \in Places,
           server' = [server EXCEPT ![s].cli = {}, ![s].at = place]
    PROVE  /\ OneServer(s) /\ server'[s].cli = {} /\ server'[s].at = place
           /\ SameDoom(s) /\ SameBackend(s) /\ SameBacklog(s) /\ SameOpen(s) /\ SameInput(s)
  <1> DEFINE r == [server[s] EXCEPT !.cli = {}, !.at = place]
  <1>1. server[s] \in ServerState
    BY ServerIs
  <1>2. /\ r \in ServerState
        /\ r.cli = {} /\ r.at = place
        /\ r.doomed = server[s].doomed /\ r.backend = server[s].backend /\ r.backlog = server[s].backlog
        /\ r.open = server[s].open /\ r.input = server[s].input
    BY <1>1 DEF ServerState
  <1>3. server' = [server EXCEPT ![s] = r]
    BY <1>1 DEF ServerState, ServerType, Servers
  <1> HIDE DEF r
  <1>4. OneServer(s) /\ server'[s] = r
    BY <1>2, <1>3, ServerPut DEF OneServer
  <1> QED
    BY <1>2, <1>4 DEF SameDoom, SameBackend, SameBacklog, SameOpen, SameInput

\* A backend is asked.
LEMMA AskStep ==
    ASSUME BackendType, NEW b \in Backends, NEW q \in Seq(Clients),
           backend' = [backend EXCEPT ![b].asked = q]
    PROVE  /\ OneBackend(b) /\ backend'[b].asked = q
           /\ backend'[b].alive = backend[b].alive /\ backend'[b].input = backend[b].input /\ backend'[b].out = backend[b].out
  <1> DEFINE r == [backend[b] EXCEPT !.asked = q]
  <1>1. backend[b] \in BackendState
    BY BackendIs
  <1>2. /\ r \in BackendState /\ r.by = backend[b].by
        /\ r.asked = q
        /\ r.alive = backend[b].alive /\ r.input = backend[b].input /\ r.out = backend[b].out
    BY <1>1 DEF BackendState
  <1>3. backend' = [backend EXCEPT ![b] = r]
    BY <1>1 DEF BackendState, BackendType, Backends
  <1> HIDE DEF r
  <1>4. OneBackend(b) /\ backend'[b] = r
    BY <1>2, <1>3, BackendPut DEF OneBackend
  <1> QED  BY <1>2, <1>4

\* Its input ends.
LEMMA EndInputStep ==
    ASSUME BackendType, NEW b \in Backends, NEW q \in Seq(Clients),
           backend' = [backend EXCEPT ![b] = [@ EXCEPT !.input = FALSE, !.asked = q]]
    PROVE  /\ OneBackend(b) /\ backend'[b].input = FALSE /\ backend'[b].asked = q
           /\ backend'[b].alive = backend[b].alive /\ backend'[b].out = backend[b].out
  <1> DEFINE r == [backend[b] EXCEPT !.input = FALSE, !.asked = q]
  <1>1. backend[b] \in BackendState
    BY BackendIs
  <1>2. /\ r \in BackendState /\ r.by = backend[b].by
        /\ r.input = FALSE /\ r.asked = q
        /\ r.alive = backend[b].alive /\ r.out = backend[b].out
    BY <1>1 DEF BackendState
  <1>3. backend' = [backend EXCEPT ![b] = r]
    BY <1>1 DEF BackendState, BackendType, Backends
  <1> HIDE DEF r
  <1>4. OneBackend(b) /\ backend'[b] = r
    BY <1>2, <1>3, BackendPut DEF OneBackend
  <1> QED  BY <1>2, <1>4

\* What it has written is read.
LEMMA DropStep ==
    ASSUME BackendType, NEW b \in Backends, NEW q \in Seq(Pieces),
           backend' = [backend EXCEPT ![b].out = q]
    PROVE  /\ OneBackend(b) /\ backend'[b].out = q
           /\ backend'[b].alive = backend[b].alive /\ backend'[b].input = backend[b].input /\ backend'[b].asked = backend[b].asked
  <1> DEFINE r == [backend[b] EXCEPT !.out = q]
  <1>1. backend[b] \in BackendState
    BY BackendIs
  <1>2. /\ r \in BackendState /\ r.by = backend[b].by
        /\ r.out = q
        /\ r.alive = backend[b].alive /\ r.input = backend[b].input /\ r.asked = backend[b].asked
    BY <1>1 DEF BackendState
  <1>3. backend' = [backend EXCEPT ![b] = r]
    BY <1>1 DEF BackendState, BackendType, Backends
  <1> HIDE DEF r
  <1>4. OneBackend(b) /\ backend'[b] = r
    BY <1>2, <1>3, BackendPut DEF OneBackend
  <1> QED  BY <1>2, <1>4

\* It answers.
LEMMA AnswerStep ==
    ASSUME BackendType, NEW b \in Backends, NEW q \in Seq(Clients), NEW o \in Seq(Pieces),
           backend' = [backend EXCEPT ![b].asked = q, ![b].out = o]
    PROVE  /\ OneBackend(b) /\ backend'[b].asked = q /\ backend'[b].out = o
           /\ backend'[b].alive = backend[b].alive /\ backend'[b].input = backend[b].input
  <1> DEFINE r == [backend[b] EXCEPT !.asked = q, !.out = o]
  <1>1. backend[b] \in BackendState
    BY BackendIs
  <1>2. /\ r \in BackendState /\ r.by = backend[b].by
        /\ r.asked = q /\ r.out = o
        /\ r.alive = backend[b].alive /\ r.input = backend[b].input
    BY <1>1 DEF BackendState
  <1>3. backend' = [backend EXCEPT ![b] = r]
    BY <1>1 DEF BackendState, BackendType, Backends
  <1> HIDE DEF r
  <1>4. OneBackend(b) /\ backend'[b] = r
    BY <1>2, <1>3, BackendPut DEF OneBackend
  <1> QED  BY <1>2, <1>4

-----------------------------------------------------------------------------
(* Who is at whom. *)

Using   == {"note", "accept", "bridge", "over", "stop"}
Unbound == {"forked", "bind", "failed"}

\* The backend of a server is its own, and its input open or not as it takes it.
BackendOK(s) == server[s].at \in Using =>
    /\ server[s].backend \in Backends
    /\ backend[server[s].backend].by = s
    /\ backend[server[s].backend].input = server[s].input

\* One client at a time.
ClientOK(s) ==
    IF server[s].at \in {"bridge", "over"} THEN \E c \in Clients : server[s].cli = {c}
    ELSE server[s].cli = {}

\* A server takes its next client only with the input of its backend open.
InputOK(s) ==
    server[s].at \in {"note", "accept"} \/ (server[s].at = "bridge" /\ server[s].open) =>
        server[s].input

\* A client is in one queue, or at one server.
Linked(c, s) == client[c].srv = s /\ client[c].at \notin {"idle", "refused"}

QueueOK(s) ==
    /\ \A i \in 1..Len(server[s].backlog) :
         Linked(server[s].backlog[i], s) /\ server[s].backlog[i] \notin server[s].cli
    /\ \A i, j \in 1..Len(server[s].backlog) :
         server[s].backlog[i] = server[s].backlog[j] => i = j
    /\ \A c \in server[s].cli : Linked(c, s)

\* No one names a server that has not bound its socket, or could not.
UnboundOK(s) == server[s].at \in Unbound =>
    /\ server[s].backlog = <<>> /\ ~server[s].doomed /\ s # sock /\ s # pid
    /\ \A b \in Backends : backend[b].by # s

\* A server dies of a kill only.
DeadOK(s) ==
    /\ server[s].doomed => broken
    /\ server[s].at = "dead" => server[s].doomed

Wired(s) ==
    BackendOK(s) /\ ClientOK(s) /\ InputOK(s) /\ QueueOK(s) /\ UnboundOK(s) /\ DeadOK(s)

\* A server is registered once it listens.
ReadyOK == \A m \in Managers :
    mgr[m].step \in {"register", "config"} => server[mgr[m].new].at \notin Unbound

SInv == TInv /\ (\A s \in Servers : Wired(s)) /\ ReadyOK

LEMMA InitWired == Init => SInv
  <1> SUFFICES ASSUME Init PROVE SInv
    OBVIOUS
  <1>1. /\ server \in Seq(ServerState) /\ backend \in Seq(BackendState)
        /\ Len(server) = 0 /\ Len(backend) = 0
    BY EmptySeq DEF Init
  <1>2. Servers = 1..0 /\ Backends = 1..0
    BY <1>1 DEF Servers, Backends
  <1>3. FileType
    <2>1. sock = 0 /\ pid = 0 /\ bpid = 0
      BY DEF Init
    <2>2. config \in BOOLEAN
      BY DEF Init
    <2> QED  BY <1>1, <2>1, <2>2 DEF FileType
  <1>4. ServerType /\ BackendType
    BY <1>1, <1>2 DEF ServerType, BackendType
  <1>5. ClientType
    BY DEF ClientType, ClientState, ClientPlaces, Init
  <1>6. ManagerType
    BY DEF ManagerType, Calls, Idle, Init
  <1>7. FlagType
    BY LoadsAssumption DEF FlagType, Init
  <1>8. ReadyOK
    BY DEF ReadyOK, Idle, Init
  <1> QED  BY <1>2, <1>3, <1>4, <1>5, <1>6, <1>7, <1>8 DEF SInv, TInv

\* Clients that are linked stay so.
StillLinked == \A c \in Clients : client[c].at \notin {"idle", "refused"} =>
    client'[c].srv = client[c].srv /\ client'[c].at \notin {"idle", "refused"}

\* No one but server t itself changes what is said of it.
NotTo(t) ==
    /\ sock' = t => sock = t \/ server[t].at \notin Unbound
    /\ pid' = t => pid = t \/ server[t].at \notin Unbound
    /\ broken => broken'
    /\ Len(backend) <= Len(backend')
    /\ \A b \in Backends' : backend'[b].by = t => b \in Backends
    /\ \A b \in Backends : /\ backend'[b].by = backend[b].by
                           /\ backend[b].by = t => backend'[b].input = backend[b].input

LEMMA WiredElse ==
    ASSUME SInv, NEW t \in Servers, server'[t] = server[t], StillLinked, NotTo(t)
    PROVE  Wired(t)'
  <1>1. Wired(t) /\ server[t] \in ServerState
    BY ServerIs DEF SInv, TInv
  <1>2. /\ Len(backend) \in Nat /\ Len(backend') >= Len(backend)
        /\ Backends = 1..Len(backend) /\ Backends' = 1..Len(backend')
        /\ server[t].backend \in Int
    BY <1>1 DEF SInv, TInv, BackendType, Backends, NotTo, ServerState
  <1>3. BackendOK(t)'
    BY <1>1, <1>2 DEF Wired, BackendOK, NotTo
  <1>4. ClientOK(t)' /\ InputOK(t)'
    BY <1>1 DEF Wired, ClientOK, InputOK
  <1>5. QueueOK(t)'
    <2>1. \A i \in 1..Len(server[t].backlog) : server[t].backlog[i] \in Clients
      BY <1>1, ElementOfSeq DEF ServerState
    <2>2. server[t].cli \subseteq Clients
      BY <1>1 DEF ServerState
    <2>3. \A c \in Clients : Linked(c, t) => Linked(c, t)'
      BY DEF Linked, StillLinked
    <2> QED  BY <1>1, <2>1, <2>2, <2>3 DEF Wired, QueueOK
  <1>6. UnboundOK(t)'
    BY <1>1, <1>2 DEF Wired, UnboundOK, NotTo
  <1>7. DeadOK(t)'
    BY <1>1 DEF Wired, DeadOK, NotTo
  <1> QED  BY <1>3, <1>4, <1>5, <1>6, <1>7 DEF Wired

LEMMA SInvTypes ==
    ASSUME SInv
    PROVE  /\ ServerType /\ BackendType /\ ClientType /\ FileType /\ ManagerType /\ FlagType
           /\ ReadyOK /\ (\A s \in Servers : Wired(s))
  BY DEF SInv, TInv

LEMMA Sizes ==
    ASSUME SInv
    PROVE  /\ Len(server) \in Nat /\ Len(backend) \in Nat
           /\ Servers = 1..Len(server) /\ Backends = 1..Len(backend)
  BY DEF SInv, TInv, ServerType, BackendType, Servers, Backends

-----------------------------------------------------------------------------
(* The managers, one of whom does a step. *)

OneManager(m, step) ==
    /\ mgr' \in [Managers -> Calls] /\ mgr'[m].step = step
    /\ \A n \in Managers \ {m} : mgr'[n] = mgr[n]

LEMMA CallPut ==
    ASSUME ManagerType, NEW m \in Managers, NEW call \in Calls,
           mgr' = [mgr EXCEPT ![m] = call]
    PROVE  OneManager(m, call.step) /\ mgr'[m] = call
  BY DEF ManagerType, OneManager

CallSteps == {"kill", "unlink", "kill_backend", "forget_backend", "forget", "fork", "ready",
              "register", "config", "unconfig"}

LEMMA GotoStep ==
    ASSUME ManagerType, NEW m \in Managers, NEW step \in CallSteps, Goto(m, step)
    PROVE  /\ OneManager(m, step) /\ mgr'[m].new = mgr[m].new /\ mgr'[m].op = mgr[m].op
           /\ mgr'[m].found = mgr[m].found
  BY DEF ManagerType, OneManager, Calls, CallSteps, Goto

LEMMA FoundStep ==
    ASSUME ManagerType, NEW m \in Managers, NEW step \in CallSteps, NEW found \in BOOLEAN,
           mgr' = [mgr EXCEPT ![m].found = found, ![m].step = step]
    PROVE  /\ OneManager(m, step) /\ mgr'[m].new = mgr[m].new /\ mgr'[m].op = mgr[m].op
           /\ mgr'[m].found = found
  BY DEF ManagerType, OneManager, Calls, CallSteps

LEMMA BeginStep ==
    ASSUME ManagerType, NEW m \in Managers, NEW op \in {"create", "delete"},
           mgr' = [mgr EXCEPT ![m] = [Idle EXCEPT !.op = op, !.step = "kill"]]
    PROVE  OneManager(m, "kill") /\ mgr'[m].op = op
  BY DEF ManagerType, OneManager, Calls, Idle

LEMMA UndoStep ==
    ASSUME ManagerType, NEW m \in Managers,
           mgr' = [mgr EXCEPT ![m].op = "undo", ![m].step = "kill"]
    PROVE  OneManager(m, "kill") /\ mgr'[m].op = "undo"
  BY DEF ManagerType, OneManager, Calls

LEMMA NewStep ==
    ASSUME ManagerType, NEW m \in Managers, NEW new \in Nat,
           mgr' = [mgr EXCEPT ![m].step = "ready", ![m].new = new]
    PROVE  OneManager(m, "ready") /\ mgr'[m].new = new
  BY DEF ManagerType, OneManager, Calls

LEMMA ReturnStep ==
    ASSUME ManagerType, NEW m \in Managers, mgr' = [mgr EXCEPT ![m] = Idle]
    PROVE  OneManager(m, "idle") /\ mgr'[m] = Idle
  BY DEF ManagerType, OneManager, Calls, Idle

\* The servers that were there go on being bound or not.
StayBound == \A s \in Servers :
    s \in Servers' /\ (server[s].at \notin Unbound => server'[s].at \notin Unbound)

LEMMA ManagersGoOn ==
    ASSUME ManagerType, ReadyOK, StayBound, UNCHANGED mgr
    PROVE  ManagerType' /\ ReadyOK'
  BY DEF ManagerType, ReadyOK, StayBound

LEMMA ManagerGoesOn ==
    ASSUME ManagerType, ReadyOK, StayBound, NEW m \in Managers, NEW step, OneManager(m, step),
           step = "idle" => mgr'[m] = Idle,
           step \in {"ready", "register", "config"} => mgr'[m].new \in Servers',
           step \in {"register", "config"} => server'[mgr'[m].new].at \notin Unbound
    PROVE  ManagerType' /\ ReadyOK'
  <1>1. ASSUME NEW n \in Managers
        PROVE  /\ mgr'[n].step = "idle" => mgr'[n] = Idle
               /\ mgr'[n].step \in {"ready", "register", "config"} => mgr'[n].new \in Servers'
               /\ mgr'[n].step \in {"register", "config"} =>
                      server'[mgr'[n].new].at \notin Unbound
    <2>1. CASE n = m
      BY <2>1 DEF OneManager
    <2>2. CASE n # m
      BY <2>2 DEF OneManager, ManagerType, ReadyOK, StayBound
    <2> QED  BY <2>1, <2>2
  <1> QED  BY <1>1 DEF ManagerType, ReadyOK, OneManager

\* A step of a manager that leaves servers, backends and clients alone.
LEMMA FilesStep ==
    ASSUME SInv, NEW m \in Managers, NEW step, OneManager(m, step),
           step = "idle" => mgr'[m] = Idle,
           step \in {"ready", "register", "config"} => mgr'[m].new \in Servers,
           step \in {"register", "config"} => server[mgr'[m].new].at \notin Unbound,
           UNCHANGED <<server, backend, client>>, broken => broken',
           sock' \in {sock, 0}, bpid' \in {bpid, 0}, config' \in BOOLEAN,
           pid' \in {pid, 0} \/ (pid' \in Servers /\ server[pid'].at \notin Unbound),
           FlagType'
    PROVE  SInv'
  <1> USE SInvTypes
  <1>1. Servers' = Servers /\ Backends' = Backends
    BY DEF Servers, Backends
  <1>2. StayBound /\ StillLinked
    BY <1>1 DEF StayBound, StillLinked
  <1>3. ASSUME NEW t \in Servers PROVE Wired(t)'
    <2>1. NotTo(t)
      BY <1>1, Sizes DEF NotTo
    <2> QED  BY <1>2, <2>1, WiredElse
  <1>4. ManagerType' /\ ReadyOK'
    BY <1>1, <1>2, ManagerGoesOn
  <1>5. ServerType' /\ BackendType' /\ ClientType'
    BY <1>1 DEF ServerType, BackendType, ClientType
  <1>6. FileType'
    BY Sizes DEF FileType
  <1> QED  BY <1>1, <1>3, <1>4, <1>5, <1>6 DEF SInv, TInv

LEMMA SpendType ==
    ASSUME FlagType, NEW what \in {"creates", "deletes", "vanish", "backend", "manager", "config"},
           budget[what] > 0, Spend(what)
    PROVE  budget' \in Load
  BY DEF FlagType, Load, Spend

LEMMA BeginWired ==
    ASSUME SInv, NEW m \in Managers, NEW op \in {"create", "delete"}, Begin(m, op)
    PROVE  SInv'
  <1>1. OneManager(m, "kill")
    BY SInvTypes, BeginStep DEF Begin
  <1>2. budget' \in Load
    <2> DEFINE kind == IF op = "create" THEN "creates" ELSE "deletes"
    <2>1. kind \in {"creates", "deletes"} /\ budget[kind] > 0 /\ Spend(kind)
      BY DEF Begin
    <2> HIDE DEF kind
    <2> QED  BY <2>1, SpendType, SInvTypes
  <1>3. FlagType'
    BY <1>2, SInvTypes DEF FlagType, Begin
  <1> QED  BY <1>1, <1>3, FilesStep, SInvTypes DEF Begin, files, FileType

LEMMA UnlinkWired == ASSUME SInv, NEW m \in Managers, Unlink(m) PROVE SInv'
  <1> DEFINE found == mgr[m].found \/ sock # 0
  <1>1. mgr' = [mgr EXCEPT ![m].found = found, ![m].step = "kill_backend"] /\ found \in BOOLEAN
    BY DEF Unlink
  <1> HIDE DEF found
  <1>2. OneManager(m, "kill_backend")
    BY <1>1, SInvTypes, FoundStep DEF CallSteps
  <1>3. FlagType'
    BY SInvTypes DEF FlagType, Unlink, ByManager
  <1> QED  BY <1>2, <1>3, FilesStep, SInvTypes DEF Unlink, ByManager, FileType

LEMMA ForgetBackendWired == ASSUME SInv, NEW m \in Managers, ForgetBackend(m) PROVE SInv'
  <1>1. OneManager(m, "forget")
    BY SInvTypes, GotoStep DEF CallSteps, ForgetBackend
  <1>2. FlagType'
    BY SInvTypes DEF FlagType, ForgetBackend, ByManager
  <1> QED  BY <1>1, <1>2, FilesStep, SInvTypes DEF ForgetBackend, ByManager, FileType

LEMMA ForgetWired == ASSUME SInv, NEW m \in Managers, Forget(m) PROVE SInv'
  <1> DEFINE step == IF mgr[m].op = "create" THEN "fork" ELSE "unconfig"
  <1>1. step \in {"fork", "unconfig"} /\ Goto(m, step) /\ pid' \in {pid, 0}
    BY DEF Forget
  <1> HIDE DEF step
  <1>2. OneManager(m, step)
    BY <1>1, SInvTypes, GotoStep DEF CallSteps
  <1>3. FlagType'
    BY SInvTypes DEF FlagType, Forget, ByManager
  <1> QED  BY <1>1, <1>2, <1>3, FilesStep, SInvTypes DEF Forget, ByManager, FileType

LEMMA ReadyWired == ASSUME SInv, NEW m \in Managers, Ready(m) PROVE SInv'
  <1>1. mgr[m].new \in Servers
    BY SInvTypes DEF ManagerType, Ready, Managing
  <1>2. FlagType'
    BY SInvTypes DEF FlagType, Ready, ByManager
  <1>3. CASE server[mgr[m].new].at \notin Unbound /\ Goto(m, "register")
    <2>1. OneManager(m, "register") /\ mgr'[m].new = mgr[m].new
      BY <1>3, SInvTypes, GotoStep DEF CallSteps
    <2> QED
      BY <1>1, <1>2, <1>3, <2>1, FilesStep, SInvTypes DEF Ready, ByManager, FileType, files
  <1>4. CASE mgr' = [mgr EXCEPT ![m] = Idle]
    <2>1. OneManager(m, "idle") /\ mgr'[m] = Idle
      BY <1>4, SInvTypes, ReturnStep
    <2> QED
      BY <1>2, <2>1, FilesStep, SInvTypes DEF Ready, ByManager, FileType, files
  <1> QED  BY <1>3, <1>4 DEF Ready, Unbound

LEMMA RegisterWired == ASSUME SInv, NEW m \in Managers, Register(m) PROVE SInv'
  <1>1. mgr[m].new \in Servers /\ server[mgr[m].new].at \notin Unbound
    BY SInvTypes DEF ManagerType, ReadyOK, Register, Managing
  <1>2. /\ UNCHANGED <<sock, bpid, config, server, backend, client, broken>>
        /\ UNCHANGED <<raced, orphaned, deserted, last>>
        /\ UNCHANGED budget \/ (budget.config > 0 /\ Spend("config"))
    BY DEF Register
  <1>3. FlagType'
    <2>1. budget' \in Load
      BY <1>2, SpendType, SInvTypes DEF FlagType
    <2> QED  BY <1>2, <2>1, SInvTypes DEF FlagType
  <1>4. CASE pid' = mgr[m].new /\ Goto(m, "config")
    <2>1. OneManager(m, "config") /\ mgr'[m].new = mgr[m].new
      BY <1>4, SInvTypes, GotoStep DEF CallSteps
    <2> QED  BY <1>1, <1>2, <1>3, <1>4, <2>1, FilesStep, SInvTypes DEF FileType
  <1>5. CASE pid' \in {pid, 0} /\ mgr' = [mgr EXCEPT ![m] = Idle]
    <2>1. OneManager(m, "idle") /\ mgr'[m] = Idle
      BY <1>5, SInvTypes, ReturnStep
    <2> QED  BY <1>2, <1>3, <1>5, <2>1, FilesStep, SInvTypes DEF FileType
  <1> QED  BY <1>4, <1>5 DEF Register

LEMMA ConfigureWired == ASSUME SInv, NEW m \in Managers, Configure(m) PROVE SInv'
  <1>1. /\ UNCHANGED <<sock, pid, bpid, server, backend, broken, client, raced, orphaned, deserted>>
        /\ config' \in BOOLEAN /\ last' \in {"create", last}
        /\ UNCHANGED budget \/ (budget.config > 0 /\ Spend("config"))
        /\ \/ mgr' = [mgr EXCEPT ![m] = Idle]
           \/ mgr' = [mgr EXCEPT ![m].op = "undo", ![m].step = "kill"]
    BY SInvTypes DEF Configure, ByManager, FileType
  <1>2. budget' \in Load
    BY <1>1, SpendType, SInvTypes DEF FlagType
  <1>3. FlagType'
    BY <1>1, <1>2, SInvTypes DEF FlagType
  <1>4. CASE mgr' = [mgr EXCEPT ![m] = Idle]
    <2>1. OneManager(m, "idle") /\ mgr'[m] = Idle
      BY <1>4, SInvTypes, ReturnStep
    <2> QED  BY <1>1, <1>3, <2>1, FilesStep
  <1>5. CASE mgr' = [mgr EXCEPT ![m].op = "undo", ![m].step = "kill"]
    <2>1. OneManager(m, "kill")
      BY <1>5, SInvTypes, UndoStep
    <2> QED  BY <1>1, <1>3, <2>1, FilesStep
  <1> QED  BY <1>1, <1>4, <1>5

LEMMA UnconfigureWired == ASSUME SInv, NEW m \in Managers, Unconfigure(m) PROVE SInv'
  <1>1. OneManager(m, "idle") /\ mgr'[m] = Idle
    BY SInvTypes, ReturnStep DEF Unconfigure
  <1>2. FlagType'
    BY SInvTypes DEF FlagType, Unconfigure, ByManager
  <1> QED  BY <1>1, <1>2, FilesStep DEF Unconfigure, ByManager

LEMMA ManagerDiesWired == ASSUME SInv, NEW m \in Managers, ManagerDies(m) PROVE SInv'
  <1>1. OneManager(m, "idle") /\ mgr'[m] = Idle
    BY SInvTypes, ReturnStep DEF ManagerDies
  <1>2. budget' \in Load
    BY SpendType, SInvTypes DEF ManagerDies
  <1>3. FlagType'
    BY <1>2, SInvTypes DEF FlagType, ManagerDies
  <1> QED  BY <1>1, <1>3, FilesStep, SInvTypes DEF ManagerDies, files, FileType

\* The types, when one server and one backend change, or none.
LEMMA TypesGoOn ==
    ASSUME SInv, Len(server') = Len(server), Len(backend') = Len(backend),
           server' \in Seq(ServerState), backend' \in Seq(BackendState),
           \A s \in Servers : server'[s].backend = server[s].backend,
           \A b \in Backends : backend'[b].by = backend[b].by
    PROVE  ServerType' /\ BackendType' /\ Servers' = Servers /\ Backends' = Backends
  <1>1. Servers' = Servers /\ Backends' = Backends
    BY DEF Servers, Backends
  <1>2. ServerType /\ BackendType /\ Len(server') = Len(server) /\ Len(backend') = Len(backend)
    BY SInvTypes
  <1> QED  BY <1>1, <1>2 DEF ServerType, BackendType

LEMMA KillWired == ASSUME SInv, NEW m \in Managers, Kill(m) PROVE SInv'
  <1> USE SInvTypes
  <1> DEFINE step == IF pid = 0 /\ mgr[m].op = "create" THEN "fork" ELSE "unlink"
             found == pid # 0
  <1>1. /\ mgr' = [mgr EXCEPT ![m].found = found, ![m].step = step]
        /\ step \in {"fork", "unlink"} /\ found \in BOOLEAN
    BY DEF Kill
  <1> HIDE DEF step, found
  <1>2. OneManager(m, step)
    <2>1. ManagerType /\ step \in CallSteps
      BY <1>1 DEF CallSteps
    <2> QED  BY <1>1, <2>1, FoundStep
  <1>3. FlagType'
    BY DEF FlagType, Kill, ByManager
  <1>4. CASE pid = 0
    <2>1. UNCHANGED server
      BY <1>4 DEF Kill
    <2> QED  BY <1>1, <1>2, <1>3, <2>1, FilesStep DEF Kill, ByManager, FileType, files
  <1>5. CASE pid # 0
    <2>1. pid \in Servers /\ server' = [server EXCEPT ![pid].doomed = TRUE]
      BY <1>5, Sizes DEF FileType, Kill
    <2>2. /\ OneServer(pid) /\ server'[pid].doomed = TRUE
          /\ SameCli(pid) /\ SameBacklog(pid) /\ SameBackend(pid) /\ SameInput(pid)
          /\ SameOpen(pid) /\ SameAt(pid)
      BY <2>1, KillStep
    <2>3. UNCHANGED <<backend, client, sock, pid, bpid, config>> /\ broken' = TRUE
      BY <1>5 DEF Kill, ByManager, files
    <2>4. ServerType' /\ BackendType' /\ Servers' = Servers /\ Backends' = Backends
      <3>1. \A t \in Servers : server'[t].backend = server[t].backend
        BY <2>2 DEF OneServer, SameBackend
      <3> QED  BY <2>2, <2>3, <3>1, TypesGoOn DEF OneServer, BackendType
    <2>5. StayBound /\ StillLinked
      BY <2>2, <2>3, <2>4 DEF StayBound, StillLinked, OneServer, SameAt
    <2>6. Wired(pid) /\ server[pid].at \notin Unbound
      BY <2>1 DEF Wired, UnboundOK
    <2>7. Wired(pid)'
      <3>1. BackendOK(pid)' /\ ClientOK(pid)' /\ InputOK(pid)'
        BY <2>2, <2>3, <2>4, <2>6
           DEF Wired, BackendOK, ClientOK, InputOK, SameCli, SameBackend, SameInput, SameOpen,
               SameAt
      <3>2. QueueOK(pid)'
        <4>1. \A c : Linked(c, pid) => Linked(c, pid)'
          BY <2>3 DEF Linked
        <4> QED  BY <2>2, <2>3, <2>6, <4>1 DEF Wired, QueueOK, SameCli, SameBacklog
      <3>3. UnboundOK(pid)' /\ DeadOK(pid)'
        BY <2>2, <2>3, <2>6 DEF Wired, UnboundOK, DeadOK, SameAt
      <3> QED  BY <2>3, <3>1, <3>2, <3>3 DEF Wired
    <2>8. \A s \in Servers' : Wired(s)'
      <3>1. \A t \in Servers \ {pid} : server'[t] = server[t] /\ NotTo(t)
        BY <2>2, <2>3, <2>4, Sizes DEF NotTo, OneServer
      <3> QED
        <4>1. ASSUME NEW t \in Servers PROVE Wired(t)'
          <5>1. CASE t = pid
            BY <2>3, <2>7, <5>1
          <5>2. CASE t # pid
            BY <2>5, <3>1, <5>2, WiredElse
          <5> QED  BY <5>1, <5>2
        <4> QED  BY <2>4, <4>1
    <2>9. ManagerType' /\ ReadyOK'
      BY <1>1, <1>2, <2>5, ManagerGoesOn
    <2>10. FileType' /\ ClientType'
      BY <2>2, <2>3 DEF FileType, ClientType, OneServer
    <2> QED  BY <1>3, <2>4, <2>8, <2>9, <2>10 DEF SInv, TInv
  <1> QED  BY <1>4, <1>5

LEMMA KillBackendWired == ASSUME SInv, NEW m \in Managers, KillBackend(m) PROVE SInv'
  <1> USE SInvTypes
  <1>1. OneManager(m, "forget_backend")
    BY GotoStep DEF CallSteps, KillBackend
  <1>2. FlagType'
    BY DEF FlagType, KillBackend, ByManager
  <1>3. /\ UNCHANGED <<server, client, sock, pid, bpid, config>> /\ (broken => broken')
        /\ backend' = IF bpid = 0 THEN backend ELSE [backend EXCEPT ![bpid].alive = FALSE]
    BY DEF KillBackend, ByManager, files
  <1>4. /\ backend' \in Seq(BackendState) /\ Len(backend') = Len(backend)
        /\ \A b \in Backends : backend'[b].by = backend[b].by /\ backend'[b].input = backend[b].input
    <2>1. CASE bpid = 0
      BY <1>3, <2>1 DEF BackendType
    <2>2. CASE bpid # 0
      <3>1. bpid \in Backends /\ backend' = [backend EXCEPT ![bpid].alive = FALSE]
        BY <1>3, <2>2, Sizes DEF FileType
      <3> QED  BY <3>1, ShutStep DEF OneBackend
    <2> QED  BY <2>1, <2>2
  <1>5. ServerType' /\ BackendType' /\ Servers' = Servers /\ Backends' = Backends
    BY <1>3, <1>4, TypesGoOn DEF ServerType
  <1>6. StayBound /\ StillLinked
    BY <1>3, <1>5 DEF StayBound, StillLinked
  <1>7. \A t \in Servers : server'[t] = server[t] /\ NotTo(t)
    BY <1>3, <1>4, <1>5 DEF NotTo
  <1>8. \A s \in Servers' : Wired(s)'
    BY <1>5, <1>6, <1>7, WiredElse
  <1>9. ManagerType' /\ ReadyOK'
    BY <1>1, <1>6, ManagerGoesOn
  <1>10. FileType' /\ ClientType'
    BY <1>3, <1>4 DEF FileType, ClientType
  <1> QED  BY <1>2, <1>5, <1>8, <1>9, <1>10 DEF SInv, TInv

\* A server is forked.
Forks == server' = Append(server, NewServer)

\* A sequence is not the same with something appended.
LEMMA NoAppend == ASSUME SInv, UNCHANGED server PROVE ~Forks
  <1>1. NewServer \in ServerState
    BY EmptySeq DEF NewServer, ServerState, Places
  <1>2. Len(Append(server, NewServer)) = Len(server) + 1
    <2> HIDE DEF NewServer
    <2> QED  BY <1>1, AppendProperties, SInvTypes DEF ServerType
  <1> QED  BY <1>2, Sizes DEF Forks

LEMMA ForkedWired ==
    ASSUME SInv, NEW m \in Managers, Fork(m), Forks
    PROVE  SInv'
  <1> USE SInvTypes
  <1>0. PICK s : s = Len(server) + 1
    OBVIOUS
  <1>1. NewServer \in ServerState /\ NewServer.at = "forked" /\ NewServer.backend = 0
        /\ NewServer.cli = {} /\ NewServer.backlog = <<>> /\ NewServer.doomed = FALSE
    BY EmptySeq DEF NewServer, ServerState, Places
  <1>2. /\ server' \in Seq(ServerState) /\ Len(server') = Len(server) + 1
        /\ server'[s] = NewServer /\ \A t \in Servers : server'[t] = server[t]
    <2>1. server' = Append(server, NewServer) /\ server \in Seq(ServerState)
      BY DEF Forks, ServerType
    <2> HIDE DEF NewServer
    <2> QED  BY <1>0, <1>1, <2>1, AppendProperties, Sizes
  <1>3. UNCHANGED <<backend, client, sock, pid, bpid, config, broken>>
    BY DEF Fork, ByManager, files
  <1>4. Servers' = Servers \cup {s} /\ s \notin Servers /\ Backends' = Backends
    BY <1>0, <1>2, <1>3, Sizes DEF Servers, Backends
  <1>5. ServerType' /\ BackendType'
    <2>1. \A t \in Servers' : server'[t].backend \in 0..Len(backend')
      BY <1>1, <1>2, <1>3, <1>4, Sizes DEF ServerType
    <2> QED  BY <1>2, <1>3, <1>4, <2>1 DEF ServerType, BackendType
  <1>6. OneManager(m, "ready") /\ mgr'[m].new = s
    <2>1. mgr' = [mgr EXCEPT ![m].step = "ready", ![m].new = s] /\ s \in Nat
      BY <1>0, NoAppend, Sizes DEF Fork, Forks
    <2> QED  BY <2>1, NewStep
  <1>7. StayBound /\ StillLinked
    BY <1>2, <1>3, <1>4 DEF StayBound, StillLinked
  <1>8. ManagerType' /\ ReadyOK'
    BY <1>4, <1>6, <1>7, ManagerGoesOn
  <1>9. ASSUME NEW t \in Servers PROVE Wired(t)'
    <2>1. server'[t] = server[t] /\ NotTo(t)
      BY <1>2, <1>3, <1>4 DEF NotTo
    <2> QED  BY <1>7, <2>1, WiredElse
  <1>10. Wired(s)'
    <2>1. \A b \in Backends : backend[b].by # s
      BY <1>4 DEF BackendType
    <2>2. sock # s /\ pid # s
      BY <1>0, Sizes DEF FileType
    <2>3. BackendOK(s)' /\ ClientOK(s)' /\ InputOK(s)'
      BY <1>1, <1>2 DEF BackendOK, ClientOK, InputOK, Using
    <2>4. QueueOK(s)'
      BY <1>1, <1>2 DEF QueueOK
    <2>5. UnboundOK(s)' /\ DeadOK(s)'
      BY <1>1, <1>2, <1>3, <1>4, <2>1, <2>2 DEF UnboundOK, DeadOK
    <2> QED  BY <2>3, <2>4, <2>5 DEF Wired
  <1>11. FileType' /\ ClientType'
    BY <1>2, <1>3, Sizes DEF FileType, ClientType
  <1>12. FlagType'
    BY NoAppend DEF FlagType, Fork, Forks, ByManager
  <1> QED  BY <1>4, <1>5, <1>8, <1>9, <1>10, <1>11, <1>12 DEF SInv, TInv

\* The pipe or the fork may fail, and the call with it.
LEMMA ForkWired == ASSUME SInv, NEW m \in Managers, Fork(m) PROVE SInv'
  <1>1. CASE Forks
    BY <1>1, ForkedWired
  <1>2. CASE UNCHANGED server
    <2>1. /\ mgr' = [mgr EXCEPT ![m] = Idle] /\ budget.config > 0 /\ Spend("config")
      BY <1>2, NoAppend DEF Fork, Forks
    <2>2. OneManager(m, "idle") /\ mgr'[m] = Idle
      BY <2>1, SInvTypes, ReturnStep
    <2>3. budget' \in Load
      BY <2>1, SpendType, SInvTypes
    <2>4. FlagType'
      BY <2>3, SInvTypes DEF FlagType, Fork, ByManager
    <2> QED  BY <1>2, <2>2, <2>4, FilesStep, SInvTypes DEF Fork, ByManager, files, FileType
  <1> QED  BY <1>1, <1>2 DEF Fork, Forks

-----------------------------------------------------------------------------
(* The servers. *)

\* A step of one server, or of a client at it, that ends as it should for it.
LEMMA OneWired ==
    ASSUME SInv, NEW s \in Servers, OneServer(s), Wired(s)', StillLinked, UNCHANGED mgr,
           \A t \in Servers \ {s} : NotTo(t),
           server'[s].backend \in 0..Len(backend'), Len(backend') >= Len(backend),
           backend' \in Seq(BackendState), \A b \in Backends' : backend'[b].by \in Servers,
           server[s].at \notin Unbound => server'[s].at \notin Unbound,
           ClientType', FileType', FlagType'
    PROVE  SInv'
  <1>1. Servers' = Servers /\ server' \in Seq(ServerState)
    BY DEF Servers, OneServer
  <1>2. ASSUME NEW t \in Servers
        PROVE  /\ server'[t].backend \in 0..Len(backend') /\ Wired(t)'
               /\ server[t].at \notin Unbound => server'[t].at \notin Unbound
    <2>1. CASE t = s
      BY <2>1
    <2>2. CASE t # s
      <3>1. server'[t] = server[t] /\ NotTo(t)
        BY <2>2 DEF OneServer
      <3>2. Wired(t)'
        BY <3>1, WiredElse
      <3>3. server[t].backend \in 0..Len(backend) /\ Len(backend') \in Nat
        BY SInvTypes DEF ServerType
      <3> QED  BY <3>1, <3>2, <3>3, Sizes
    <2> QED  BY <2>1, <2>2
  <1>3. ServerType' /\ BackendType'
    BY <1>1, <1>2 DEF ServerType, BackendType
  <1>4. StayBound
    BY <1>1, <1>2 DEF StayBound
  <1>5. ManagerType' /\ ReadyOK'
    BY <1>4, SInvTypes, ManagersGoOn
  <1> QED  BY <1>1, <1>2, <1>3, <1>5 DEF SInv, TInv

\* No backend and no one's name changes.
LEMMA NotToOthers ==
    ASSUME SInv, NEW s \in Servers, UNCHANGED <<pid, backend>>, broken => broken',
           sock' \in {sock, 0, s}
    PROVE  \A t \in Servers \ {s} : NotTo(t)
  <1>1. Backends' = Backends /\ Len(backend') = Len(backend) /\ Len(backend) \in Nat /\ s # 0
    BY Sizes DEF Backends
  <1> QED  BY <1>1, Sizes DEF NotTo

LEMMA BackendsStay ==
    ASSUME SInv, UNCHANGED backend
    PROVE  /\ Backends' = Backends /\ Len(backend') >= Len(backend)
           /\ backend' \in Seq(BackendState) /\ \A b \in Backends' : backend'[b].by \in Servers
  <1>1. Backends' = Backends /\ Len(backend') = Len(backend)
    BY DEF Backends
  <1> QED  BY <1>1, SInvTypes, Sizes DEF BackendType

\* A server moves on, with its socket or without.
LEMMA MoveWired ==
    ASSUME SInv, NEW s \in Servers, NEW place \in Places, Move(s, place),
           UNCHANGED <<pid, config, backend, client, mgr>>, broken => broken',
           sock' \in {sock, 0} \/ (sock' = s /\ place \notin Unbound),
           bpid' \in 0..Len(backend), FlagType',
           server[s].at \notin Unbound => place \notin Unbound,
           BackendOK(s)', ClientOK(s)', InputOK(s)', UnboundOK(s)', place # "dead"
    PROVE  SInv'
  <1>1. /\ OneServer(s) /\ server'[s].at = place
        /\ SameCli(s) /\ SameBacklog(s) /\ SameBackend(s) /\ SameInput(s) /\ SameOpen(s)
        /\ SameDoom(s)
    BY SInvTypes, MoveStep
  <1>2. StillLinked
    BY DEF StillLinked
  <1>3. Wired(s)'
    <2>1. Wired(s)
      BY SInvTypes
    <2>2. QueueOK(s)'
      BY <1>1, <2>1 DEF Wired, QueueOK, SameCli, SameBacklog, Linked
    <2>3. DeadOK(s)'
      BY <1>1, <2>1 DEF Wired, DeadOK, SameDoom
    <2> QED  BY <2>2, <2>3 DEF Wired
  <1>4. \A t \in Servers \ {s} : NotTo(t)
    BY NotToOthers
  <1>5. ClientType'
    BY SInvTypes, SameClients
  <1>6. FileType'
    BY <1>1, SInvTypes, Sizes DEF FileType, OneServer
  <1>7. server'[s].backend \in 0..Len(backend')
    BY <1>1, SInvTypes DEF SameBackend, ServerType
  <1> QED  BY <1>1, <1>2, <1>3, <1>4, <1>5, <1>6, <1>7, BackendsStay, OneWired

LEMMA ClearWired == ASSUME SInv, NEW s \in Servers, Clear(s) PROVE SInv'
  <1>1. server[s].at = "forked" /\ Move(s, "bind") /\ Wired(s) /\ "bind" \in Places
    BY SInvTypes DEF Clear, At, Places
  <1>2. /\ server'[s].at = "bind" /\ SameCli(s) /\ SameBacklog(s) /\ SameDoom(s)
    BY <1>1, SInvTypes, MoveStep
  <1>3. FlagType'
    BY SInvTypes DEF FlagType, Clear, ByServer
  <1>4. BackendOK(s)' /\ ClientOK(s)' /\ InputOK(s)'
    BY <1>1, <1>2 DEF Wired, BackendOK, ClientOK, InputOK, Using, SameCli
  <1>5. UnboundOK(s)'
    <2>1. UNCHANGED <<backend, pid>> /\ sock' = 0 /\ s # 0
      BY Sizes DEF Clear, ByServer
    <2>2. Backends' = Backends
      BY <2>1 DEF Backends
    <2> QED
      BY <1>1, <1>2, <2>1, <2>2 DEF Wired, UnboundOK, SameBacklog, SameDoom, Unbound
  <1> QED
    BY <1>1, <1>3, <1>4, <1>5, MoveWired, SInvTypes DEF Clear, ByServer, FileType, Unbound

LEMMA BindWired == ASSUME SInv, NEW s \in Servers, Bind(s) PROVE SInv'
  <1>1. /\ server[s].at = "bind" /\ Wired(s)
        /\ UNCHANGED <<pid, bpid, config, backend, client, mgr, broken, raced, orphaned, deserted,
                       last>>
        /\ UNCHANGED budget \/ (budget.config > 0 /\ Spend("config"))
        /\ \/ sock' = s /\ Move(s, "start")
           \/ Move(s, "failed") /\ UNCHANGED sock
    BY SInvTypes DEF Bind, At, ByServer
  <1>2. budget' \in Load
    BY <1>1, SpendType, SInvTypes DEF FlagType
  <1>3. FlagType' /\ bpid' \in 0..Len(backend)
    BY <1>1, <1>2, SInvTypes DEF FlagType, FileType
  <1>4. CASE sock' = s /\ Move(s, "start")
    <2>1. server'[s].at = "start" /\ SameCli(s) /\ "start" \in Places
      BY <1>4, SInvTypes, MoveStep DEF Places
    <2>2. BackendOK(s)' /\ ClientOK(s)' /\ InputOK(s)' /\ UnboundOK(s)'
      BY <1>1, <2>1 DEF Wired, BackendOK, ClientOK, InputOK, UnboundOK, Using, Unbound, SameCli
    <2>3. "start" \notin Unbound
      BY DEF Unbound
    <2> QED  BY <1>1, <1>3, <1>4, <2>1, <2>2, <2>3, MoveWired
  <1>5. CASE Move(s, "failed") /\ UNCHANGED sock
    <2>1. /\ server'[s].at = "failed" /\ SameCli(s) /\ SameBacklog(s) /\ SameDoom(s)
          /\ "failed" \in Places
      BY <1>5, SInvTypes, MoveStep DEF Places
    <2>2. BackendOK(s)' /\ ClientOK(s)' /\ InputOK(s)'
      BY <1>1, <2>1 DEF Wired, BackendOK, ClientOK, InputOK, Using, SameCli
    <2>3. UnboundOK(s)'
      <3>1. Backends' = Backends
        BY <1>1 DEF Backends
      <3> QED
        BY <1>1, <1>5, <2>1, <3>1 DEF Wired, UnboundOK, SameBacklog, SameDoom, Unbound
    <2>4. server[s].at \in Unbound
      BY <1>1 DEF Unbound
    <2> QED  BY <1>1, <1>3, <1>5, <2>1, <2>2, <2>3, <2>4, MoveWired
  <1> QED  BY <1>1, <1>4, <1>5

\* The places a server with a backend goes to.
LEMMA UsingWired ==
    ASSUME SInv, NEW s \in Servers, NEW place \in Using, Move(s, place),
           server[s].at \in Using, UNCHANGED <<sock, pid, config, backend, client, mgr>>,
           broken => broken', bpid' \in 0..Len(backend), FlagType',
           server[s].at \in {"bridge", "over"} <=> place \in {"bridge", "over"},
           place \in {"note", "accept"} => server[s].input, place # "bridge"
    PROVE  SInv'
  <1>1. /\ server'[s].at = place
        /\ SameCli(s) /\ SameBackend(s) /\ SameInput(s) /\ place \in Places
    BY SInvTypes, MoveStep DEF Using, Places
  <1>2. Wired(s) /\ Backends' = Backends
    BY SInvTypes DEF Backends
  <1>3. BackendOK(s)' /\ ClientOK(s)' /\ InputOK(s)' /\ UnboundOK(s)'
    BY <1>1, <1>2
       DEF Wired, BackendOK, ClientOK, InputOK, UnboundOK, Using, Unbound, SameCli, SameBackend,
           SameInput
  <1>4. place \notin Unbound /\ place # "dead"
    BY DEF Using, Unbound
  <1> QED  BY <1>1, <1>3, <1>4, MoveWired

LEMMA NoteWired == ASSUME SInv, NEW s \in Servers, Note(s) PROVE SInv'
  <1>1. /\ server[s].at = "note" /\ Move(s, "accept") /\ Wired(s)
        /\ UNCHANGED budget \/ (budget.config > 0 /\ Spend("config"))
    BY SInvTypes DEF Note, At
  <1>2. FlagType'
    <2>1. budget' \in Load
      BY <1>1, SpendType, SInvTypes DEF FlagType
    <2> QED  BY <2>1, SInvTypes DEF FlagType, Note, ByServer
  <1>3. bpid' \in 0..Len(backend)
    BY SInvTypes, Sizes DEF Note, ServerType, FileType
  <1>4. server[s].input
    BY <1>1 DEF Wired, InputOK
  <1> QED  BY <1>1, <1>2, <1>3, <1>4, UsingWired DEF Note, ByServer, Using

LEMMA RelayEndWired == ASSUME SInv, NEW s \in Servers, RelayEnd(s) PROVE SInv'
  <1>1. server[s].at = "bridge" /\ Move(s, "over")
    BY DEF RelayEnd, Bridging, At, Over
  <1>2. FlagType' /\ bpid' \in 0..Len(backend)
    BY SInvTypes DEF FlagType, RelayEnd, ByServer, Files, FileType
  <1> QED  BY <1>1, <1>2, UsingWired DEF RelayEnd, ByServer, Files, Using

\* The client and the backend of a server that bridges.
LEMMA AtWork ==
    ASSUME SInv, NEW s \in Servers, server[s].at \in Using
    PROVE  /\ server[s].backend \in Backends /\ backend[server[s].backend].by = s
           /\ backend[server[s].backend] \in BackendState
           /\ Wired(s) /\ ClientOK(s) /\ BackendOK(s)
           /\ server[s].at = "bridge" => Cli(s) \in Clients /\ server[s].cli = {Cli(s)}
  <1>1. Wired(s)
    BY SInvTypes
  <1>2. server[s].backend \in Backends /\ backend[server[s].backend].by = s
    BY <1>1 DEF Wired, BackendOK
  <1>3. ASSUME server[s].at = "bridge" PROVE Cli(s) \in Clients /\ server[s].cli = {Cli(s)}
    <2>1. PICK c \in Clients : server[s].cli = {c}
      BY <1>1, <1>3 DEF Wired, ClientOK
    <2>2. Cli(s) \in server[s].cli
      BY <2>1 DEF Cli
    <2> QED  BY <2>1, <2>2
  <1> QED  BY <1>1, <1>2, <1>3, SInvTypes, BackendIs DEF Wired

\* A backend changes that no other server has.
LEMMA NotToOwner ==
    ASSUME SInv, NEW s \in Servers, NEW b \in Backends, backend[b].by = s, OneBackend(b),
           UNCHANGED <<sock, pid>>, broken => broken'
    PROVE  /\ \A t \in Servers \ {s} : NotTo(t)
           /\ Backends' = Backends /\ Len(backend') >= Len(backend)
           /\ backend' \in Seq(BackendState) /\ \A d \in Backends' : backend'[d].by \in Servers
           /\ \A d \in Backends : backend'[d].by = backend[d].by
  <1>1. Backends' = Backends /\ Len(backend') = Len(backend) /\ Len(backend) \in Nat
    BY Sizes DEF Backends, OneBackend
  <1>2. \A d \in Backends : /\ backend'[d].by = backend[d].by
                            /\ d # b => backend'[d].input = backend[d].input
    BY DEF OneBackend
  <1>3. \A t \in Servers \ {s} : NotTo(t)
    BY <1>1, <1>2 DEF NotTo
  <1> QED  BY <1>1, <1>2, <1>3, SInvTypes DEF OneBackend, BackendType

\* The places where no step of a server with a backend ends otherwise.
LEMMA UsingOK ==
    ASSUME NEW s, server'[s].at \in Using
    PROVE  UnboundOK(s)'
  BY DEF UnboundOK, Unbound, Using

LEMMA StartWired == ASSUME SInv, NEW s \in Servers, Start(s) PROVE SInv'
  <1>1. /\ OneServer(s) /\ server'[s].at = "note" /\ server'[s].backend = Len(backend) + 1
        /\ server'[s].input = TRUE
        /\ SameCli(s) /\ SameBacklog(s) /\ SameOpen(s) /\ SameDoom(s)
        /\ backend' \in Seq(BackendState) /\ Len(backend') = Len(backend) + 1
        /\ \A b \in Backends : backend'[b] = backend[b]
        /\ backend'[Len(backend) + 1] = NewBackend(s)
    BY SInvTypes, StartStep
  <1>2. server[s].at = "start" /\ Wired(s)
        /\ UNCHANGED <<pid, config, mgr, raced, orphaned, deserted, last, sock, bpid, client, broken,
                       budget>>
    BY SInvTypes DEF Start, At, ByServer, Files
  <1>3. /\ Backends' = Backends \cup {Len(backend) + 1} /\ Len(backend) + 1 \notin Backends
        /\ Len(backend) + 1 \in Backends' /\ Len(backend') >= Len(backend)
    BY <1>1, Sizes DEF Backends
  <1>4. NewBackend(s).by = s /\ NewBackend(s).input = TRUE
    BY DEF NewBackend
  <1>5. Wired(s)'
    <2>1. BackendOK(s)'
      BY <1>1, <1>3, <1>4 DEF BackendOK
    <2>2. ClientOK(s)' /\ InputOK(s)'
      BY <1>1, <1>2 DEF Wired, ClientOK, InputOK, SameCli
    <2>3. QueueOK(s)'
      BY <1>1, <1>2 DEF Wired, QueueOK, SameCli, SameBacklog, Linked
    <2>4. UnboundOK(s)'
      BY <1>1, UsingOK DEF Using
    <2>5. DeadOK(s)'
      BY <1>1, <1>2 DEF Wired, DeadOK, SameDoom
    <2> QED  BY <2>1, <2>2, <2>3, <2>4, <2>5 DEF Wired
  <1>6. StillLinked
    BY <1>2 DEF StillLinked
  <1>7. \A t \in Servers \ {s} : NotTo(t)
    <2>1. \A b \in Backends' : backend'[b].by # s => b \in Backends
      BY <1>1, <1>3, <1>4
    <2> QED  BY <1>1, <1>2, <1>3, <2>1 DEF NotTo
  <1>8. \A b \in Backends' : backend'[b].by \in Servers
    BY <1>1, <1>3, <1>4, SInvTypes DEF BackendType
  <1>9. ClientType' /\ FlagType'
    BY <1>2, SInvTypes, SameClients DEF FlagType
  <1>10. FileType'
    BY <1>1, <1>2, SInvTypes, Sizes DEF FileType, OneServer
  <1>11. server'[s].backend \in 0..Len(backend') /\ server'[s].at \notin Unbound
    BY <1>1, Sizes DEF Unbound
  <1> QED
    BY <1>1, <1>2, <1>3, <1>5, <1>6, <1>7, <1>8, <1>9, <1>10, <1>11, OneWired

LEMMA TailAt ==
    ASSUME NEW q \in Seq(Clients), q # <<>>
    PROVE  /\ Head(q) = q[1] /\ Tail(q) \in Seq(Clients) /\ Len(q) \in Nat /\ Len(q) > 0
           /\ Len(Tail(q)) = Len(q) - 1
           /\ \A i \in 1..Len(q) - 1 : Tail(q)[i] = q[i + 1]
  BY HeadTailProperties, EmptySeq

LEMMA AcceptWired == ASSUME SInv, NEW s \in Servers, Accept(s) PROVE SInv'
  <1>1. /\ server[s].backlog \in Seq(Clients) /\ server[s].backlog # <<>>
        /\ Head(server[s].backlog) \in Clients
        /\ OneServer(s) /\ server'[s].at = "bridge"
        /\ server'[s].cli = {Head(server[s].backlog)}
        /\ server'[s].backlog = Tail(server[s].backlog) /\ server'[s].open = TRUE
        /\ SameBackend(s) /\ SameInput(s) /\ SameDoom(s)
    BY SInvTypes, AcceptStep
  <1>2. server[s].at = "accept" /\ Wired(s)
        /\ UNCHANGED <<pid, config, mgr, raced, orphaned, deserted, last, sock, bpid, client, broken,
                       budget, backend>>
    BY SInvTypes DEF Accept, At, ByServer, Files
  <1>3. Wired(s)'
    <2>1. BackendOK(s)'
      BY <1>1, <1>2, BackendsStay DEF Wired, BackendOK, Using, SameBackend, SameInput
    <2>2. ClientOK(s)' /\ InputOK(s)'
      BY <1>1, <1>2 DEF Wired, ClientOK, InputOK, SameInput
    <2>3. QueueOK(s)'
      <3> DEFINE q == server[s].backlog
      <3>1. /\ \A i \in 1..Len(q) : Linked(q[i], s)
            /\ \A i, j \in 1..Len(q) : q[i] = q[j] => i = j
        BY <1>2 DEF Wired, QueueOK
      <3>2. /\ Head(q) = q[1] /\ Len(q) \in Nat /\ Len(q) > 0 /\ Len(Tail(q)) = Len(q) - 1
            /\ \A i \in 1..Len(q) - 1 : Tail(q)[i] = q[i + 1]
        BY <1>1, TailAt
      <3> HIDE DEF q
      <3>3. /\ \A i \in 1..Len(Tail(q)) : Linked(Tail(q)[i], s) /\ Tail(q)[i] \notin {Head(q)}
            /\ \A i, j \in 1..Len(Tail(q)) : Tail(q)[i] = Tail(q)[j] => i = j
        BY <3>1, <3>2
      <3>4. Linked(Head(q), s)
        BY <3>1, <3>2
      <3>5. server'[s].backlog = Tail(q) /\ server'[s].cli = {Head(q)}
        BY <1>1 DEF q
      <3>6. \A c : Linked(c, s) => Linked(c, s)'
        BY <1>2 DEF Linked
      <3> QED  BY <3>3, <3>4, <3>5, <3>6 DEF QueueOK
    <2>4. UnboundOK(s)'
      BY <1>1, UsingOK DEF Using
    <2>5. DeadOK(s)'
      BY <1>1, <1>2 DEF Wired, DeadOK, SameDoom
    <2> QED  BY <2>1, <2>2, <2>3, <2>4, <2>5 DEF Wired
  <1>4. StillLinked
    BY <1>2 DEF StillLinked
  <1>5. \A t \in Servers \ {s} : NotTo(t)
    BY <1>2, NotToOthers
  <1>6. ClientType' /\ FlagType'
    BY <1>2, SInvTypes, SameClients DEF FlagType
  <1>7. FileType'
    BY <1>1, <1>2, SInvTypes, Sizes DEF FileType, OneServer
  <1>8. server'[s].backend \in 0..Len(backend') /\ server'[s].at \notin Unbound
    BY <1>1, <1>2, SInvTypes DEF Unbound, ServerType, SameBackend
  <1> QED
    BY <1>1, <1>2, <1>3, <1>4, <1>5, <1>6, <1>7, <1>8, BackendsStay, OneWired

\* A step of a server, its backend and its clients.
LEMMA OwnWired ==
    ASSUME SInv, NEW s \in Servers, OneServer(s), Wired(s)', SameBackend(s), StillLinked,
           server[s].at \notin Unbound => server'[s].at \notin Unbound,
           UNCHANGED <<sock, pid, bpid, config, mgr>>, broken => broken',
           \/ UNCHANGED backend
           \/ \E b \in Backends : backend[b].by = s /\ OneBackend(b),
           ClientType', FlagType'
    PROVE  SInv'
  <1>1. /\ \A t \in Servers \ {s} : NotTo(t)
        /\ Backends' = Backends /\ Len(backend') >= Len(backend)
        /\ backend' \in Seq(BackendState) /\ \A d \in Backends' : backend'[d].by \in Servers
    <2>1. CASE UNCHANGED backend
      BY <2>1, NotToOthers, BackendsStay
    <2>2. CASE \E b \in Backends : backend[b].by = s /\ OneBackend(b)
      BY <2>2, NotToOwner
    <2> QED  BY <2>1, <2>2
  <1>2. Len(backend') = Len(backend) /\ Len(server') = Len(server)
    BY DEF OneBackend, OneServer
  <1>3. FileType'
    BY <1>2, SInvTypes, Sizes DEF FileType
  <1>4. server'[s].backend \in 0..Len(backend')
    BY <1>2, SInvTypes DEF SameBackend, ServerType
  <1> QED  BY <1>1, <1>3, <1>4, OneWired

LEMMA ServerStays == ASSUME ServerType, NEW s \in Servers, UNCHANGED server
    PROVE  /\ OneServer(s) /\ SameBackend(s) /\ SameCli(s) /\ SameBacklog(s) /\ SameInput(s)
           /\ SameOpen(s) /\ SameDoom(s) /\ SameAt(s)
  BY DEF OneServer, SameBackend, SameCli, SameBacklog, SameInput, SameOpen, SameDoom, SameAt,
         ServerType

\* The queue of a server that takes no one new, and whose clients go on.
LEMMA QueueStays ==
    ASSUME SInv, NEW s \in Servers, StillLinked, SameBacklog(s),
           server'[s].cli \subseteq server[s].cli
    PROVE  QueueOK(s)'
  <1>1. Wired(s) /\ server[s] \in ServerState
    BY SInvTypes, ServerIs
  <1>2. server[s].cli \subseteq Clients
    BY <1>1 DEF ServerState
  <1>3. \A i \in 1..Len(server[s].backlog) : server[s].backlog[i] \in Clients
    BY <1>1, ElementOfSeq DEF ServerState
  <1>4. \A c \in Clients : Linked(c, s) => Linked(c, s)'
    BY DEF Linked, StillLinked
  <1> QED  BY <1>1, <1>2, <1>3, <1>4 DEF Wired, QueueOK, SameBacklog

LEMMA SameLinks == ASSUME UNCHANGED client PROVE StillLinked
  BY DEF StillLinked

LEMMA ReadRequestWired == ASSUME SInv, NEW s \in Servers, ReadRequest(s) PROVE SInv'
  <1> DEFINE b == server[s].backend
  <1>1. /\ server[s].at = "bridge" /\ server[s].open
        /\ UNCHANGED <<pid, config, mgr, raced, orphaned, deserted, last, sock, bpid, client, broken,
                       budget>>
    BY DEF ReadRequest, Bridging, At, ByServer, Files
  <1>2. /\ b \in Backends /\ backend[b].by = s /\ backend[b] \in BackendState
        /\ Wired(s) /\ Cli(s) \in Clients
    BY <1>1, AtWork DEF Using
  <1>3. FlagType' /\ ClientType' /\ StillLinked
    BY <1>1, SInvTypes, SameClients, SameLinks DEF FlagType
  <1>4. CASE backend[b].alive
    <2>1. /\ backend' = [backend EXCEPT ![b].asked = Append(backend[b].asked, Cli(s))]
          /\ server' = [server EXCEPT ![s].open = FALSE]
      BY <1>4 DEF ReadRequest
    <2>2. Append(backend[b].asked, Cli(s)) \in Seq(Clients)
      BY <1>2, AppendProperties DEF BackendState
    <2>3. OneBackend(b) /\ backend'[b].input = backend[b].input
      BY <1>2, <2>1, <2>2, AskStep, SInvTypes
    <2>4. /\ OneServer(s) /\ server'[s].open = FALSE /\ SameAt(s) /\ SameDoom(s)
          /\ SameBackend(s) /\ SameCli(s) /\ SameBacklog(s) /\ SameInput(s)
      BY <2>1, OpenStep, SInvTypes
    <2>5. Wired(s)'
      <3>1. BackendOK(s)'
        <4>1. Backends' = Backends /\ backend'[b].by = s
          BY <1>2, <2>3 DEF Backends, OneBackend
        <4> QED  BY <1>1, <1>2, <2>3, <2>4, <4>1
                    DEF Wired, BackendOK, SameBackend, SameInput, Using
      <3>2. ClientOK(s)' /\ InputOK(s)'
        BY <1>1, <1>2, <2>4 DEF Wired, ClientOK, InputOK, SameAt, SameCli
      <3>3. QueueOK(s)'
        BY <1>3, <2>4, QueueStays DEF SameCli
      <3>4. UnboundOK(s)' /\ DeadOK(s)'
        BY <1>1, <1>2, <2>4, UsingOK DEF Wired, DeadOK, SameAt, SameDoom, Using
      <3> QED  BY <3>1, <3>2, <3>3, <3>4 DEF Wired
    <2> QED  BY <1>1, <1>2, <1>3, <2>3, <2>4, <2>5, OwnWired DEF SameAt
  <1>5. CASE ~backend[b].alive
    <2>1. Move(s, "over") /\ UNCHANGED backend
      BY <1>5 DEF ReadRequest, Over
    <2>2. bpid' \in 0..Len(backend)
      BY <1>1, SInvTypes DEF FileType
    <2> QED  BY <1>1, <1>3, <2>1, <2>2, UsingWired DEF Using
  <1> QED  BY <1>4, <1>5

LEMMA ReadEndWired == ASSUME SInv, NEW s \in Servers, ReadEnd(s) PROVE SInv'
  <1> DEFINE b == server[s].backend
  <1>1. /\ server[s].at = "bridge" /\ server[s].open
        /\ server' = [server EXCEPT ![s].open = FALSE, ![s].input = FALSE]
        /\ UNCHANGED <<pid, config, mgr, raced, orphaned, deserted, last, sock, bpid, client, broken,
                       budget>>
    BY DEF ReadEnd, Bridging, At, ByServer, Files
  <1>2. /\ b \in Backends /\ backend[b].by = s /\ backend[b] \in BackendState
        /\ Wired(s) /\ Cli(s) \in Clients
    BY <1>1, AtWork DEF Using
  <1>3. FlagType' /\ ClientType' /\ StillLinked
    BY <1>1, SInvTypes, SameClients, SameLinks DEF FlagType
  <1>4. PICK q : /\ q \in {backend[b].asked, Append(backend[b].asked, Cli(s))}
                 /\ backend' = [backend EXCEPT ![b] = [@ EXCEPT !.input = FALSE, !.asked = q]]
    BY DEF ReadEnd
  <1>5. q \in Seq(Clients)
    <2>1. backend[b].asked \in Seq(Clients)
      BY <1>2 DEF BackendState
    <2>2. Append(backend[b].asked, Cli(s)) \in Seq(Clients)
      BY <1>2, <2>1, AppendProperties
    <2> QED  BY <1>4, <2>1, <2>2
  <1>6. OneBackend(b) /\ backend'[b].input = FALSE
    BY <1>2, <1>4, <1>5, EndInputStep, SInvTypes
  <1>7. /\ OneServer(s) /\ server'[s].open = FALSE /\ server'[s].input = FALSE /\ SameAt(s)
        /\ SameDoom(s) /\ SameBackend(s) /\ SameCli(s) /\ SameBacklog(s)
    BY <1>1, ShutInputStep, SInvTypes
  <1>8. Wired(s)'
    <2>1. BackendOK(s)'
      <3>1. Backends' = Backends /\ backend'[b].by = s
        BY <1>2, <1>6 DEF Backends, OneBackend
      <3>2. backend'[b].input = server'[s].input
        BY <1>6, <1>7, Zenon
      <3> QED  BY <1>2, <1>7, <3>1, <3>2 DEF BackendOK, SameBackend
    <2>2. ClientOK(s)' /\ InputOK(s)'
      BY <1>1, <1>2, <1>7 DEF Wired, ClientOK, InputOK, SameAt, SameCli
    <2>3. QueueOK(s)'
      BY <1>3, <1>7, QueueStays DEF SameCli
    <2>4. server'[s].at = "bridge" /\ server'[s].doomed = server[s].doomed
      BY <1>1, <1>7 DEF SameAt, SameDoom
    <2>5. UnboundOK(s)'
      BY <2>4, UsingOK DEF Using
    <2>6. DeadOK(s)'
      BY <1>1, <1>2, <2>4 DEF Wired, DeadOK
    <2> QED  BY <2>1, <2>2, <2>3, <2>5, <2>6 DEF Wired
  <1> QED  BY <1>1, <1>2, <1>3, <1>6, <1>7, <1>8, OwnWired DEF SameAt

\* What a backend has written, but for what is read.
LEMMA DropIs ==
    ASSUME SInv, NEW b \in Backends, NEW n \in 1..Len(backend[b].out), Drop(b, n)
    PROVE  /\ OneBackend(b) /\ backend'[b].alive = backend[b].alive
           /\ backend'[b].input = backend[b].input /\ backend'[b].asked = backend[b].asked
           /\ backend'[b].out = SubSeq(backend[b].out, n + 1, Len(backend[b].out))
  <1> DEFINE out == backend[b].out
             q == SubSeq(out, n + 1, Len(out))
  <1>1. out \in Seq(Pieces)
    BY SInvTypes, BackendIs DEF BackendState
  <1>2. q \in Seq(Pieces)
    <2> HIDE DEF out
    <2>1. Len(out) \in Nat
      BY <1>1
    <2>2. \A i \in n + 1..Len(out) : out[i] \in Pieces
      BY <1>1, ElementOfSeq DEF out
    <2> QED  BY <1>1, <2>1, <2>2, SubSeqProperties DEF out
  <1>3. backend' = [backend EXCEPT ![b].out = q]
    BY DEF Drop
  <1> HIDE DEF q
  <1>4. /\ OneBackend(b) /\ backend'[b].alive = backend[b].alive
        /\ backend'[b].input = backend[b].input /\ backend'[b].asked = backend[b].asked
        /\ backend'[b].out = q
    BY <1>2, <1>3, DropStep, SInvTypes
  <1> QED  BY <1>4 DEF q

LEMMA RelayWired == ASSUME SInv, NEW s \in Servers, Relay(s) PROVE SInv'
  <1> DEFINE b == server[s].backend
  <1>1. /\ server[s].at = "bridge"
        /\ UNCHANGED <<pid, config, mgr, raced, orphaned, deserted, last, sock, bpid, broken, budget>>
        /\ Move(s, "over") \/ UNCHANGED server
    BY DEF Relay, Bridging, At, ByServer, Files, Over
  <1>2. /\ b \in Backends /\ backend[b].by = s /\ backend[b] \in BackendState
        /\ Wired(s) /\ Cli(s) \in Clients /\ server[s].cli = {Cli(s)}
    BY <1>1, AtWork DEF Using
  <1>3. PICK n \in 1..Len(backend[b].out) : \E k \in 1..n :
             Drop(b, n) /\ Deliver(Cli(s), SubSeq(backend[b].out, 1, k))
    BY DEF Relay
  <1>4. OneBackend(b) /\ backend'[b].input = backend[b].input
    BY <1>2, <1>3, DropIs
  <1>5. ClientType' /\ StillLinked
    <2>1. /\ OneClient(Cli(s)) /\ SamePlace(Cli(s))
      BY <1>2, <1>3, DeliverStep, SInvTypes
    <2> QED  BY <2>1 DEF OneClient, SamePlace, StillLinked
  <1>6. FlagType'
    BY <1>1, SInvTypes DEF FlagType
  <1>7. /\ OneServer(s) /\ server'[s].at \in {"bridge", "over"} /\ SameBackend(s) /\ SameCli(s)
        /\ SameBacklog(s) /\ SameInput(s) /\ SameOpen(s) /\ SameDoom(s)
    <2>1. CASE Move(s, "over")
      BY <2>1, MoveStep, SInvTypes, "over" \in Places DEF Places
    <2>2. CASE UNCHANGED server
      BY <1>1, <2>2, ServerStays, SInvTypes DEF SameAt
    <2> QED  BY <1>1, <2>1, <2>2
  <1>8. Wired(s)'
    <2>1. BackendOK(s)'
      <3>1. Backends' = Backends /\ backend'[b].by = s
        BY <1>2, <1>4 DEF Backends, OneBackend
      <3>2. backend'[b].input = server'[s].input
        BY <1>1, <1>2, <1>4, <1>7 DEF Wired, BackendOK, Using, SameInput
      <3> QED  BY <1>2, <1>7, <3>1, <3>2 DEF BackendOK, SameBackend
    <2>2. ClientOK(s)' /\ InputOK(s)'
      BY <1>1, <1>2, <1>7 DEF Wired, ClientOK, InputOK, SameCli, SameInput, SameOpen
    <2>3. QueueOK(s)'
      BY <1>5, <1>7, QueueStays DEF SameCli
    <2>4. UnboundOK(s)'
      BY <1>7, UsingOK DEF Using
    <2>5. DeadOK(s)'
      BY <1>1, <1>2, <1>7 DEF Wired, DeadOK, SameDoom
    <2> QED  BY <2>1, <2>2, <2>3, <2>4, <2>5 DEF Wired
  <1>9. server'[s].at \notin Unbound
    BY <1>7 DEF Unbound
  <1> QED  BY <1>1, <1>2, <1>4, <1>5, <1>6, <1>7, <1>8, <1>9, OwnWired

\* A server that hangs up.
LEMMA HangUpWired ==
    ASSUME SInv, NEW s \in Servers, NEW place \in {"accept", "stop", "dead"},
           server' = [server EXCEPT ![s].cli = {}, ![s].at = place], Hang(server[s].cli),
           place # "dead" => server[s].at = "over",
           place = "accept" => server[s].input,
           place = "dead" => server[s].doomed,
           UNCHANGED <<pid, config, mgr, raced, orphaned, deserted, last, sock, bpid, broken, budget,
                       backend>>
    PROVE  SInv'
  <1>1. /\ OneServer(s) /\ server'[s].cli = {} /\ server'[s].at = place /\ SameBackend(s)
        /\ SameBacklog(s) /\ SameInput(s) /\ SameOpen(s) /\ SameDoom(s)
    BY HangUpStep, SInvTypes DEF Places
  <1>2. ClientType' /\ StillLinked
    <2>1. ClientType' /\ \A c \in Clients : SamePlace(c)
      BY HangStep, SInvTypes
    <2> QED  BY <2>1 DEF SamePlace, StillLinked
  <1>3. Wired(s) /\ Backends' = Backends
    BY SInvTypes DEF Backends
  <1>4. FlagType'
    BY SInvTypes DEF FlagType
  <1>5. Wired(s)'
    <2>1. BackendOK(s)'
      BY <1>1, <1>3 DEF Wired, BackendOK, Using, SameBackend, SameInput
    <2>2. ClientOK(s)' /\ InputOK(s)'
      BY <1>1 DEF ClientOK, InputOK, SameInput
    <2>3. QueueOK(s)'
      BY <1>1, <1>2, QueueStays
    <2>4. UnboundOK(s)' /\ DeadOK(s)'
      BY <1>1, <1>3 DEF Wired, UnboundOK, Unbound, DeadOK, SameDoom
    <2> QED  BY <2>1, <2>2, <2>3, <2>4 DEF Wired
  <1>6. server'[s].at \notin Unbound
    BY <1>1 DEF Unbound
  <1> QED  BY <1>1, <1>2, <1>4, <1>5, <1>6, OwnWired

LEMMA CloseClientWired == ASSUME SInv, NEW s \in Servers, CloseClient(s) PROVE SInv'
  <1>1. PICK alive : server' = [server EXCEPT ![s].cli = {},
                        ![s].at = IF server[s].input /\ alive THEN "accept" ELSE "stop"]
    BY DEF CloseClient
  <1> DEFINE place == IF server[s].input /\ alive THEN "accept" ELSE "stop"
  <1>2. place \in {"accept", "stop"} /\ (place = "accept" => server[s].input)
        /\ server' = [server EXCEPT ![s].cli = {}, ![s].at = place]
    BY <1>1
  <1> HIDE DEF place
  <1>3. place # "dead" /\ place \in {"accept", "stop", "dead"}
    BY <1>2
  <1>4. /\ server[s].at = "over" /\ Hang(server[s].cli)
        /\ UNCHANGED <<pid, config, mgr, raced, orphaned, deserted, last, sock, bpid, broken, budget,
                       backend>>
    BY DEF CloseClient, At, ByServer, Files
  <1> QED  BY <1>2, <1>3, <1>4, HangUpWired

LEMMA ServerDiesWired == ASSUME SInv, NEW s \in Servers, ServerDies(s) PROVE SInv'
  BY HangUpWired DEF ServerDies, Doomed, ByServer, Files

LEMMA ResetWired == ASSUME SInv, NEW s \in Servers, Reset(s) PROVE SInv'
  <1>1. /\ OneServer(s) /\ server'[s].backlog = <<>>
        /\ SameCli(s) /\ SameBackend(s) /\ SameInput(s) /\ SameOpen(s) /\ SameAt(s) /\ SameDoom(s)
    BY BacklogStep, SInvTypes, EmptySeq DEF Reset
  <1>2. ClientType' /\ StillLinked
    <2>1. ClientType' /\ \A c \in Clients : SamePlace(c)
      BY HangStep, SInvTypes DEF Reset
    <2> QED  BY <2>1 DEF SamePlace, StillLinked
  <1>3. UNCHANGED <<files, backend, mgr, raced, orphaned, broken, last, deserted, budget>>
    BY DEF Reset, ByClient
  <1>4. Wired(s) /\ Backends' = Backends
    BY <1>3, SInvTypes DEF Backends
  <1>5. FlagType'
    BY <1>3, SInvTypes DEF FlagType
  <1>6. Wired(s)'
    <2>1. BackendOK(s)'
      BY <1>1, <1>3, <1>4 DEF Wired, BackendOK, SameBackend, SameInput, SameAt
    <2>2. ClientOK(s)' /\ InputOK(s)'
      BY <1>1, <1>4 DEF Wired, ClientOK, InputOK, SameInput, SameAt, SameCli, SameOpen
    <2>3. QueueOK(s)'
      <3>1. server[s].cli \subseteq Clients /\ \A c \in server[s].cli : Linked(c, s)
        BY <1>4, ServerIs, SInvTypes DEF Wired, QueueOK, ServerState
      <3>2. \A c \in server[s].cli : Linked(c, s)'
        BY <1>2, <3>1 DEF StillLinked, Linked
      <3>3. Len(server'[s].backlog) = 0
        BY <1>1, EmptySeq
      <3> QED  BY <1>1, <3>2, <3>3 DEF QueueOK, SameCli
    <2>4. UnboundOK(s)' /\ DeadOK(s)'
      BY <1>1, <1>3, <1>4 DEF Wired, UnboundOK, DeadOK, SameAt, SameDoom, files
    <2> QED  BY <2>1, <2>2, <2>3, <2>4 DEF Wired
  <1> QED  BY <1>1, <1>2, <1>3, <1>5, <1>6, OwnWired DEF files, SameAt

LEMMA StopBackendWired == ASSUME SInv, NEW s \in Servers, StopBackend(s) PROVE SInv'
  <1> DEFINE b == server[s].backend
  <1>1. /\ server[s].at = "stop" /\ Move(s, "start")
        /\ backend' = [backend EXCEPT ![b].alive = FALSE]
        /\ UNCHANGED <<pid, config, mgr, raced, orphaned, deserted, last, sock, bpid, broken, budget,
                       client>>
    BY DEF StopBackend, At, ByServer, Files
  <1>2. b \in Backends /\ backend[b].by = s /\ Wired(s)
    BY <1>1, AtWork DEF Using
  <1>3. OneBackend(b)
    BY <1>1, <1>2, ShutStep, SInvTypes
  <1>4. /\ OneServer(s) /\ server'[s].at = "start" /\ SameBackend(s) /\ SameCli(s)
        /\ SameBacklog(s) /\ SameDoom(s)
    BY <1>1, MoveStep, SInvTypes DEF Places
  <1>5. FlagType' /\ ClientType' /\ StillLinked
    BY <1>1, SInvTypes, SameClients, SameLinks DEF FlagType
  <1>6. Wired(s)'
    <2>1. BackendOK(s)' /\ ClientOK(s)' /\ InputOK(s)' /\ UnboundOK(s)'
      BY <1>1, <1>2, <1>4
         DEF Wired, BackendOK, ClientOK, InputOK, UnboundOK, Using, Unbound, SameCli
    <2>2. QueueOK(s)'
      BY <1>4, <1>5, QueueStays DEF SameCli
    <2>3. DeadOK(s)'
      BY <1>1, <1>2, <1>4 DEF Wired, DeadOK, SameDoom
    <2> QED  BY <2>1, <2>2, <2>3 DEF Wired
  <1>7. server'[s].at \notin Unbound
    BY <1>4 DEF Unbound
  <1> QED  BY <1>1, <1>2, <1>3, <1>4, <1>5, <1>6, <1>7, OwnWired

-----------------------------------------------------------------------------
(* The backends and the clients. *)

LEMMA BackendWired ==
    ASSUME SInv, NEW b \in Backends, OneBackend(b), backend'[b].input = backend[b].input,
           UNCHANGED <<files, server, client, mgr>>, broken => broken', FlagType'
    PROVE  SInv'
  <1> DEFINE s == backend[b].by
  <1>1. s \in Servers
    BY SInvTypes DEF BackendType
  <1>2. ClientType' /\ StillLinked
    BY SInvTypes, SameClients, SameLinks
  <1>3. Backends' = Backends /\ Len(backend') = Len(backend)
    BY DEF Backends, OneBackend
  <1>4. \A t \in Servers : NotTo(t)
    BY <1>3, Sizes DEF NotTo, OneBackend, files
  <1>5. \A t \in Servers : Wired(t)'
    BY <1>2, <1>4, WiredElse
  <1>6. \A t \in Servers : OneServer(t) /\ SameBackend(t)
    BY ServerStays, SInvTypes
  <1> QED
    <2>1. PICK t \in Servers : t = backend[b].by
      BY <1>1
    <2>2. Wired(t)' /\ OneServer(t) /\ SameBackend(t)
      BY <1>5, <1>6
    <2>3. server[t].at \notin Unbound => server'[t].at \notin Unbound
      OBVIOUS
    <2>4. \E d \in Backends : backend[d].by = t /\ OneBackend(d)
      BY <2>1
    <2> QED  BY <1>2, <2>2, <2>3, <2>4, OwnWired DEF files

Whole(c) == <<Piece(c, FALSE), Piece(c, TRUE)>>

LEMMA WholeType == ASSUME NEW c \in Clients PROVE Whole(c) \in Seq(Pieces)
  BY DEF Whole, Piece, Pieces

\* What an answer makes of its backend.
LEMMA AnswerIs ==
    ASSUME SInv, NEW b \in Backends, Answer(b)
    PROVE  /\ backend[b].alive /\ backend[b].asked \in Seq(Clients) /\ backend[b].asked # <<>>
           /\ OneBackend(b) /\ backend'[b].alive = backend[b].alive
           /\ backend'[b].input = backend[b].input
           /\ backend'[b].asked = Tail(backend[b].asked)
           /\ backend'[b].out = backend[b].out \o Whole(Head(backend[b].asked))
  <1> DEFINE q == Tail(backend[b].asked)
             w == Whole(Head(backend[b].asked))
             o == backend[b].out \o w
  <1>1. /\ backend[b].alive /\ backend[b].asked # <<>>
        /\ backend' = [backend EXCEPT ![b].asked = q, ![b].out = o]
    BY DEF Answer, Whole
  <1>2. backend[b].asked \in Seq(Clients) /\ backend[b].out \in Seq(Pieces)
    BY BackendIs, SInvTypes DEF BackendState
  <1>3. q \in Seq(Clients) /\ Head(backend[b].asked) \in Clients
    BY <1>1, <1>2, HeadTailProperties
  <1>4. w \in Seq(Pieces)
    BY <1>3, WholeType
  <1> HIDE DEF q, w
  <1>5. o \in Seq(Pieces)
    BY <1>2, <1>4, ConcatProperties
  <1> HIDE DEF o
  <1>6. /\ OneBackend(b) /\ backend'[b].alive = backend[b].alive
        /\ backend'[b].input = backend[b].input /\ backend'[b].asked = q /\ backend'[b].out = o
    BY <1>1, <1>3, <1>5, AnswerStep, SInvTypes
  <1> QED  BY <1>1, <1>2, <1>6 DEF q, w, o

LEMMA AnswerWired == ASSUME SInv, NEW b \in Backends, Answer(b) PROVE SInv'
  <1>1. OneBackend(b) /\ backend'[b].input = backend[b].input
    BY AnswerIs
  <1>2. FlagType'
    BY SInvTypes DEF FlagType, Answer, ByBackend
  <1> QED  BY <1>1, <1>2, BackendWired DEF Answer, ByBackend

LEMMA EndOfInputWired == ASSUME SInv, NEW b \in Backends, EndOfInput(b) PROVE SInv'
  <1>1. OneBackend(b) /\ backend'[b].input = backend[b].input
    BY ShutStep, SInvTypes DEF EndOfInput
  <1>2. FlagType'
    BY SInvTypes DEF FlagType, EndOfInput, ByBackend
  <1> QED  BY <1>1, <1>2, BackendWired DEF EndOfInput, ByBackend

LEMMA BackendFailsWired == ASSUME SInv, NEW b \in Backends, BackendFails(b) PROVE SInv'
  <1>1. OneBackend(b) /\ backend'[b].input = backend[b].input
    BY ShutStep, SInvTypes DEF BackendFails
  <1>2. budget' \in Load
    BY SpendType, SInvTypes DEF BackendFails
  <1>3. FlagType'
    BY <1>2, SInvTypes DEF FlagType, BackendFails, ByBackend
  <1> QED  BY <1>1, <1>3, BackendWired DEF BackendFails, ByBackend

\* A client goes on by itself.
LEMMA ClientWired ==
    ASSUME SInv, UNCHANGED <<files, server, backend, mgr, broken>>, StillLinked, ClientType',
           FlagType'
    PROVE  SInv'
  <1>1. Servers' = Servers /\ Backends' = Backends /\ Len(backend') = Len(backend)
    BY DEF Servers, Backends
  <1>2. \A t \in Servers : NotTo(t)
    BY <1>1, Sizes DEF NotTo, files
  <1>3. \A t \in Servers : Wired(t)'
    BY <1>2, WiredElse
  <1>4. ServerType' /\ BackendType' /\ FileType'
    BY <1>1, SInvTypes DEF ServerType, BackendType, FileType, files
  <1>5. StayBound
    BY <1>1 DEF StayBound
  <1>6. ManagerType' /\ ReadyOK'
    BY <1>5, SInvTypes, ManagersGoOn
  <1> QED  BY <1>1, <1>3, <1>4, <1>6 DEF SInv, TInv

\* The one client that an action moves, to a place where it stays linked.
LEMMA PlaceLinks ==
    ASSUME ClientType, NEW c \in Clients, NEW at \in ClientPlaces \ {"idle", "refused"},
           client' = [client EXCEPT ![c].at = at]
    PROVE  ClientType' /\ StillLinked
  BY PlaceStep DEF OneClient, StillLinked

LEMMA AskWired == ASSUME SInv, NEW c \in Clients, Ask(c) PROVE SInv'
  <1> DEFINE at == IF client[c].hung THEN "failed" ELSE "asked"
  <1>1. client' = [client EXCEPT ![c].at = at] /\ at \in ClientPlaces \ {"idle", "refused"}
    BY DEF Ask, ClientPlaces
  <1> HIDE DEF at
  <1>2. ClientType' /\ StillLinked
    BY <1>1, PlaceLinks, SInvTypes
  <1>3. FlagType'
    BY SInvTypes DEF FlagType, Ask, ByClient
  <1> QED  BY <1>2, <1>3, ClientWired DEF Ask, ByClient

LEMMA FinishWired == ASSUME SInv, NEW c \in Clients, Finish(c) PROVE SInv'
  <1>1. PICK at \in {"done", "failed"} : client' = [client EXCEPT ![c].at = at]
    BY DEF Finish
  <1>2. at \in ClientPlaces \ {"idle", "refused"}
    BY DEF ClientPlaces
  <1>3. ClientType' /\ StillLinked
    BY <1>1, <1>2, PlaceLinks, SInvTypes
  <1>4. FlagType'
    BY SInvTypes DEF FlagType, Finish, ByClient
  <1> QED  BY <1>3, <1>4, ClientWired DEF Finish, ByClient

LEMMA VanishWired == ASSUME SInv, NEW c \in Clients, Vanish(c) PROVE SInv'
  <1>1. ClientType' /\ StillLinked
    BY GoneStep, SInvTypes DEF Vanish, OneClient, StillLinked, SamePlace
  <1>2. budget' \in Load
    BY SpendType, SInvTypes DEF Vanish
  <1>3. FlagType'
    BY <1>2, SInvTypes DEF FlagType, Vanish, ByClient
  <1> QED  BY <1>1, <1>3, ClientWired DEF Vanish, ByClient

\* A client that links is the last in the queue of its server.
LEMMA LinkIs ==
    ASSUME SInv, NEW c \in Clients, Connect(c), sock # 0 /\ Listening(sock)
    PROVE  /\ sock \in Servers /\ server[sock].backlog \in Seq(Clients)
           /\ OneServer(sock) /\ server'[sock].backlog = Append(server[sock].backlog, c)
           /\ SameCli(sock) /\ SameBackend(sock) /\ SameInput(sock) /\ SameOpen(sock)
           /\ SameAt(sock) /\ SameDoom(sock)
           /\ OneClient(c) /\ client'[c].at = "linked" /\ client'[c].srv = sock
           /\ SameGone(c) /\ SameGot(c) /\ SameHung(c)
  <1> DEFINE q == Append(server[sock].backlog, c)
  <1>1. /\ client' = [client EXCEPT ![c].at = "linked", ![c].srv = sock]
        /\ server' = [server EXCEPT ![sock].backlog = q]
    BY DEF Connect
  <1>2. sock \in Servers
    BY SInvTypes, Sizes DEF FileType
  <1>3. server[sock].backlog \in Seq(Clients)
    BY <1>2, ServerIs, SInvTypes DEF ServerState
  <1>4. q \in Seq(Clients)
    BY <1>3, AppendProperties
  <1> HIDE DEF q
  <1>5. /\ OneServer(sock) /\ server'[sock].backlog = q
        /\ SameCli(sock) /\ SameBackend(sock) /\ SameInput(sock) /\ SameOpen(sock)
        /\ SameAt(sock) /\ SameDoom(sock)
    BY <1>1, <1>2, <1>4, BacklogStep, SInvTypes
  <1>6. /\ OneClient(c) /\ client'[c].at = "linked" /\ client'[c].srv = sock
        /\ SameGone(c) /\ SameGot(c) /\ SameHung(c)
    BY <1>1, LinkStep, SInvTypes
  <1> QED  BY <1>2, <1>3, <1>5, <1>6 DEF q

LEMMA ConnectWired == ASSUME SInv, NEW c \in Clients, Connect(c) PROVE SInv'
  <1>1. client[c].at = "idle" /\ UNCHANGED <<files, backend, mgr, raced, orphaned, broken, last,
                                             deserted, budget>>
    BY DEF Connect, ByClient
  <1>2. FlagType'
    BY <1>1, SInvTypes DEF FlagType
  <1>3. CASE ~(sock # 0 /\ Listening(sock))
    <2>1. client' = [client EXCEPT ![c].at = "refused"] /\ UNCHANGED server
      BY <1>3 DEF Connect
    <2>2. OneClient(c)
      BY <2>1, PlaceStep, SInvTypes DEF ClientPlaces
    <2>3. ClientType' /\ StillLinked
      BY <1>1, <2>2 DEF OneClient, StillLinked
    <2> QED  BY <1>1, <1>2, <2>1, <2>3, ClientWired
  <1>4. CASE sock # 0 /\ Listening(sock)
    <2>1. PICK s \in Servers : s = sock
      BY <1>4, LinkIs
    <2>2. /\ server[s].backlog \in Seq(Clients)
          /\ OneServer(s) /\ server'[s].backlog = Append(server[s].backlog, c)
          /\ SameCli(s) /\ SameBackend(s) /\ SameInput(s) /\ SameOpen(s) /\ SameAt(s)
          /\ SameDoom(s)
          /\ OneClient(c) /\ client'[c].at = "linked" /\ client'[c].srv = s
      BY <1>4, <2>1, LinkIs
    <2>3. ClientType' /\ StillLinked
      BY <1>1, <2>2 DEF OneClient, StillLinked
    <2>4. Wired(s) /\ server[s].at \notin Unbound /\ Backends' = Backends
      BY <1>1, <2>1, SInvTypes DEF Wired, UnboundOK, Backends
    <2>5. Wired(s)'
      <3>1. BackendOK(s)' /\ ClientOK(s)' /\ InputOK(s)'
        BY <1>1, <2>2, <2>4
           DEF Wired, BackendOK, ClientOK, InputOK, SameBackend, SameInput, SameAt, SameCli,
               SameOpen
      <3>2. UnboundOK(s)' /\ DeadOK(s)'
        BY <1>1, <2>2, <2>4 DEF Wired, UnboundOK, DeadOK, SameAt, SameDoom
      <3>3. QueueOK(s)'
        <4> DEFINE q == server[s].backlog
                   r == Append(q, c)
        <4>1. /\ \A i \in 1..Len(q) : Linked(q[i], s) /\ q[i] \notin server[s].cli
              /\ \A i, j \in 1..Len(q) : q[i] = q[j] => i = j
              /\ \A d \in server[s].cli : Linked(d, s)
          BY <2>4 DEF Wired, QueueOK
        <4>2. ~Linked(c, s)
          BY <1>1 DEF Linked
        <4>3. /\ Len(q) \in Nat /\ Len(r) = Len(q) + 1 /\ r[Len(q) + 1] = c
              /\ \A i \in 1..Len(q) : r[i] = q[i]
          BY <2>2, AppendProperties
        <4> DEFINE Still(d) == client'[d].srv = s /\ client'[d].at \notin {"idle", "refused"}
        <4>4. \A d \in Clients : Linked(d, s) => Still(d)
          BY <2>3 DEF Linked, StillLinked
        <4>5. Still(c)
          BY <2>2
        <4>6. server'[s].backlog = r /\ server'[s].cli = server[s].cli
          BY <2>2 DEF SameCli
        <4>7. server[s].cli \subseteq Clients /\ \A i \in 1..Len(q) : q[i] \in Clients
          BY <2>2, ServerIs, SInvTypes, ElementOfSeq DEF ServerState
        <4> HIDE DEF q, r, Still
        <4>8. \A i \in 1..Len(r) : Still(r[i]) /\ r[i] \notin server[s].cli
          BY <4>1, <4>2, <4>3, <4>4, <4>5, <4>7
        <4>9. \A i, j \in 1..Len(r) : r[i] = r[j] => i = j
          BY <4>1, <4>2, <4>3
        <4>10. \A d \in server[s].cli : Still(d)
          BY <4>1, <4>4, <4>7
        <4> QED  BY <4>6, <4>8, <4>9, <4>10 DEF QueueOK, Linked, Still
      <3> QED  BY <3>1, <3>2, <3>3 DEF Wired
    <2> QED  BY <1>1, <1>2, <2>2, <2>3, <2>4, <2>5, OwnWired DEF files, SameAt
  <1> QED  BY <1>3, <1>4

-----------------------------------------------------------------------------
(* Every step keeps to it. *)

LEMMA StepWired == ASSUME SInv, [Next]_vars PROVE SInv'
  <1>1. ASSUME NEW m \in Managers, Manage(m) PROVE SInv'
    BY <1>1, BeginWired, KillWired, UnlinkWired, KillBackendWired, ForgetBackendWired,
       ForgetWired, ForkWired, ReadyWired, RegisterWired, ConfigureWired, UnconfigureWired,
       ManagerDiesWired DEF Manage
  <1>2. ASSUME NEW s \in Servers, Serve(s) \/ ServerDies(s) \/ Reset(s) PROVE SInv'
    BY <1>2, ClearWired, BindWired, StartWired, NoteWired, AcceptWired, ReadRequestWired,
       ReadEndWired, RelayWired, RelayEndWired, CloseClientWired, StopBackendWired,
       ServerDiesWired, ResetWired DEF Serve
  <1>3. ASSUME NEW b \in Backends, Answer(b) \/ EndOfInput(b) \/ BackendFails(b) PROVE SInv'
    BY <1>3, AnswerWired, EndOfInputWired, BackendFailsWired
  <1>4. ASSUME NEW c \in Clients, Connect(c) \/ Ask(c) \/ Finish(c) \/ Vanish(c) PROVE SInv'
    BY <1>4, ConnectWired, AskWired, FinishWired, VanishWired
  <1>5. CASE UNCHANGED vars
    <2>1. UNCHANGED <<files, server, backend, client, mgr, history, budget>>
      BY <1>5 DEF vars
    <2>2. ClientType' /\ StillLinked
      BY <2>1, SInvTypes, SameClients, SameLinks
    <2>3. FlagType'
      BY <2>1, SInvTypes DEF FlagType, history
    <2> QED  BY <2>1, <2>2, <2>3, ClientWired DEF history
  <1> QED  BY <1>1, <1>2, <1>3, <1>4, <1>5 DEF Next

\* Every server has at most one client and a backend of its own, every client
\* waits in one queue or is at one server, and no file names a server that has
\* not bound its socket (kc_dmn_serve_loop, kc_dmn_update_posix).
THEOREM Inductive == Spec => []SInv
  <1>1. Init => SInv
    BY InitWired
  <1>2. SInv /\ [Next]_vars => SInv'
    BY StepWired
  <1> QED  BY <1>1, <1>2, PTL DEF Spec

\* The types of Dmn, for any number of clients and managers.
THEOREM TypeCorrect == Spec => []TypeOK
  <1>1. SInv => TypeOK
    <2> SUFFICES ASSUME SInv PROVE TypeOK
      OBVIOUS
    <2>1. sock \in 0..Len(server) /\ pid \in 0..Len(server) /\ bpid \in 0..Len(backend)
      BY SInvTypes DEF FileType
    <2>2. ASSUME NEW s \in Servers
          PROVE  /\ server[s].at \in Places /\ server[s].backend \in 0..Len(backend)
                 /\ server[s].cli \subseteq Clients /\ Cardinality(server[s].cli) <= 1
                 /\ server[s].backlog \in Seq(Clients)
      <3>1. server[s] \in ServerState /\ server[s].backend \in 0..Len(backend) /\ Wired(s)
        BY ServerIs, SInvTypes DEF ServerType
      <3>2. server[s].cli = {} \/ \E c \in Clients : server[s].cli = {c}
        BY <3>1 DEF Wired, ClientOK
      <3>3. Cardinality(server[s].cli) <= 1
        <4>1. CASE server[s].cli = {}
          BY <4>1, FS_EmptySet
        <4>2. ASSUME NEW c \in Clients, server[s].cli = {c}
              PROVE  Cardinality(server[s].cli) <= 1
          <5>1. Cardinality({c}) = 1
            BY FS_Singleton
          <5> QED  BY <4>2, <5>1
        <4> QED  BY <3>2, <4>1, <4>2
      <3> QED  BY <3>1, <3>3 DEF ServerState
    <2>3. ASSUME NEW c \in Clients PROVE client[c].at \in ClientPlaces
      BY ClientIs, SInvTypes
    <2> QED  BY <2>1, <2>2, <2>3 DEF TypeOK, Places, ClientPlaces
  <1> QED  BY <1>1, Inductive, PTL

-----------------------------------------------------------------------------
(* What is read of an answer. *)

\* Sequences of one element and of two.
LEMMA OneIs ==
    ASSUME NEW S, NEW e \in S
    PROVE  <<e>> \in Seq(S) /\ Len(<<e>>) = 1 /\ <<e>>[1] = e /\ <<e>> # <<>>
  OBVIOUS

LEMMA TwoIs ==
    ASSUME NEW S, NEW e \in S, NEW f \in S
    PROVE  <<e, f>> \in Seq(S) /\ Len(<<e, f>>) = 2 /\ <<e, f>>[1] = e /\ <<e, f>>[2] = f /\ <<e, f>> # <<>>
  OBVIOUS

\* The cuts of a sequence: all of it, and none.
LEMMA AllCut ==
    ASSUME NEW S, NEW q \in Seq(S), NEW n, n = Len(q)
    PROVE  SubSeq(q, 1, n) = q /\ SubSeq(q, n + 1, n) = <<>>
  <1>1. n \in Nat /\ \A j \in 1..n : q[j] \in S
    BY ElementOfSeq
  <1>2. /\ SubSeq(q, 1, n) \in Seq(S) /\ Len(SubSeq(q, 1, n)) = n
        /\ \A j \in 1..n : SubSeq(q, 1, n)[j] = q[j]
    BY <1>1, SubSeqProperties
  <1>3. SubSeq(q, 1, n) = q
    BY <1>2, SeqEqual
  <1>4. n + 1 > n /\ n + 1 \in Int
    BY <1>1
  <1>5. SubSeq(q, n + 1, n) = <<>>
    BY <1>1, <1>4, SubSeqEmpty
  <1> QED  BY <1>3, <1>5

LEMMA OneCut ==
    ASSUME NEW S, NEW q \in Seq(S), NEW i \in 1..Len(q)
    PROVE  SubSeq(q, i, i) = <<q[i]>>
  <1>1. Len(q) \in Nat /\ \A j \in 1..Len(q) : q[j] \in S
    BY ElementOfSeq
  <1>2. i \in Int /\ (\A j \in i..i : q[j] \in S) /\ i - i + 1 = 1
    BY <1>1
  <1>3. /\ SubSeq(q, i, i) \in Seq(S)
        /\ Len(SubSeq(q, i, i)) = 1
        /\ SubSeq(q, i, i)[1] = q[i]
    BY <1>2, SubSeqProperties
  <1>4. <<q[i]>> \in Seq(S) /\ Len(<<q[i]>>) = 1 /\ <<q[i]>>[1] = q[i]
    BY <1>1, OneIs
  <1> HIDE <1>1, <1>2
  <1>5. \A j \in 1..1 : SubSeq(q, i, i)[j] = <<q[i]>>[j]
    <2>1. ASSUME NEW j \in 1..1 PROVE j = 1
      OBVIOUS
    <2> QED  BY <1>3, <1>4, <2>1
  <1>6. Len(SubSeq(q, i, i)) = Len(<<q[i]>>)
    BY <1>3, <1>4
  <1>7. \A j \in 1..Len(SubSeq(q, i, i)) : SubSeq(q, i, i)[j] = <<q[i]>>[j]
    BY <1>3, <1>5
  <1> QED  BY <1>3, <1>4, <1>6, <1>7, SeqEqual

LEMMA OneRead ==
    ASSUME NEW S, NEW e \in S, NEW n \in 1..1
    PROVE  n = 1 /\ SubSeq(<<e>>, 1, n) = <<e>> /\ SubSeq(<<e>>, n + 1, 1) = <<>>
  <1> DEFINE q == <<e>>
  <1>1. q \in Seq(S) /\ 1 = Len(q)
    BY OneIs
  <1> HIDE DEF q
  <1>2. SubSeq(q, 1, 1) = q /\ SubSeq(q, 1 + 1, 1) = <<>>
    BY <1>1, AllCut
  <1>3. n = 1
    OBVIOUS
  <1> QED  BY <1>2, <1>3 DEF q

LEMMA TwoRead ==
    ASSUME NEW S, NEW e \in S, NEW f \in S, NEW n \in 1..2
    PROVE  \/ n = 1 /\ SubSeq(<<e, f>>, 1, n) = <<e>> /\ SubSeq(<<e, f>>, n + 1, 2) = <<f>>
           \/ n = 2 /\ SubSeq(<<e, f>>, 1, n) = <<e, f>> /\ SubSeq(<<e, f>>, n + 1, 2) = <<>>
  <1> DEFINE q == <<e, f>>
  <1>1. q \in Seq(S) /\ 2 = Len(q) /\ q[1] = e /\ q[2] = f
    BY TwoIs
  <1>0. Len(q) = 2
    BY <1>1
  <1> HIDE DEF q
  <1>2. SubSeq(q, 1, 2) = q /\ SubSeq(q, 2 + 1, 2) = <<>>
    BY <1>1, AllCut
  <1>3. SubSeq(q, 1, 1) = <<e>>
    <2>1. 1 \in 1..Len(q)
      BY <1>0
    <2> QED  BY <1>1, <2>1, OneCut
  <1>4. SubSeq(q, 2, 2) = <<f>>
    <2>1. 2 \in 1..Len(q)
      BY <1>0
    <2> QED  BY <1>1, <2>1, OneCut
  <1>5. n = 1 \/ n = 2
    OBVIOUS
  <1>6. 1 + 1 = 2
    OBVIOUS
  <1>7. CASE n = 1
    BY <1>3, <1>4, <1>6, <1>7 DEF q
  <1>8. CASE n = 2
    BY <1>2, <1>8 DEF q
  <1> QED  BY <1>5, <1>7, <1>8

LEMMA Joined ==
    ASSUME NEW S, NEW p \in Seq(S), NEW r \in Seq(S), NEW q \in Seq(S),
           Len(p) = 1, Len(r) = 1, Len(q) = 2, p[1] = q[1], r[1] = q[2]
    PROVE  p \o r = q
  <1>a. Len(p) + Len(r) = 2
    OBVIOUS
  <1>b. /\ p \o r \in Seq(S)
        /\ Len(p \o r) = Len(p) + Len(r)
        /\ \A i \in 1 .. Len(p) + Len(r) : (p \o r)[i] = IF i <= Len(p) THEN p[i] ELSE r[i - Len(p)]
    BY ConcatProperties
  <1>c. p \o r \in Seq(S) /\ Len(p \o r) = 2 /\ \A i \in 1..2 : (p \o r)[i] = IF i <= 1 THEN p[i] ELSE r[i - 1]
    BY <1>a, <1>b
  <1>d. 1 \in 1..2 /\ 2 \in 1..2 /\ 1 <= 1 /\ ~ (2 <= 1) /\ 2 - 1 = 1
    OBVIOUS
  <1>1. p \o r \in Seq(S) /\ Len(p \o r) = 2 /\ (p \o r)[1] = q[1] /\ (p \o r)[2] = q[2]
    BY <1>c, <1>d
  <1>2. ASSUME NEW i \in 1..2 PROVE (p \o r)[i] = q[i]
    <2>1. i = 1 \/ i = 2
      OBVIOUS
    <2> QED  BY <1>1, <2>1
  <1>3. Len(p \o r) = Len(q) /\ \A i \in 1..Len(p \o r) : (p \o r)[i] = q[i]
    BY <1>1, <1>2
  <1> QED  BY <1>1, <1>3, SeqEqual

First(c)  == <<Piece(c, FALSE)>>
Second(c) == <<Piece(c, TRUE)>>
Rests(c) == {<<>>, Whole(c), Second(c)}

PiecesOf(c) == [of : {c}, last : BOOLEAN]

LEMMA PieceIs ==
    ASSUME NEW c, NEW end \in BOOLEAN
    PROVE  Piece(c, end) \in PiecesOf(c) /\ Piece(c, end).last = end /\ Piece(c, end).of = c
  BY DEF Piece, PiecesOf

LEMMA FirstIs ==
    ASSUME NEW c
    PROVE  /\ First(c) \in Seq(PiecesOf(c)) /\ Len(First(c)) = 1
           /\ First(c)[1] = Piece(c, FALSE) /\ First(c) # <<>>
  <1>1. Piece(c, FALSE) \in PiecesOf(c)
    BY PieceIs
  <1> QED  BY <1>1, OneIs DEF First

LEMMA SecondIs ==
    ASSUME NEW c
    PROVE  /\ Second(c) \in Seq(PiecesOf(c)) /\ Len(Second(c)) = 1
           /\ Second(c)[1] = Piece(c, TRUE) /\ Second(c) # <<>>
  <1>1. Piece(c, TRUE) \in PiecesOf(c)
    BY PieceIs
  <1> QED  BY <1>1, OneIs DEF Second

LEMMA WholeIs ==
    ASSUME NEW c
    PROVE  /\ Whole(c) \in Seq(PiecesOf(c)) /\ Len(Whole(c)) = 2
           /\ Whole(c)[1] = Piece(c, FALSE) /\ Whole(c)[2] = Piece(c, TRUE)
           /\ Whole(c) # <<>>
  <1>1. Piece(c, TRUE) \in PiecesOf(c) /\ Piece(c, FALSE) \in PiecesOf(c)
    BY PieceIs
  <1> QED  BY <1>1, TwoIs DEF Whole

\* A read that holds one end, at its end, or none, is passed on as a whole.
\* A read of an answer takes one piece or both, and the last is the last.
LEMMA ReadIs ==
    ASSUME NEW c, NEW out \in Rests(c), NEW n \in 1..Len(out), NEW k \in 1..n,
           Through(out, n, k)
    PROVE  LET p    == SubSeq(out, 1, k)
               rest == SubSeq(out, n + 1, Len(out))
           IN  \/ out = Whole(c) /\ p = First(c) /\ rest = Second(c) /\ ~out[k].last
               \/ out = Whole(c) /\ p = Whole(c) /\ rest = <<>> /\ out[k].last
               \/ out = Second(c) /\ p = Second(c) /\ rest = <<>> /\ out[k].last
  <1> DEFINE p    == SubSeq(out, 1, k)
             rest == SubSeq(out, n + 1, Len(out))
             goal == \/ out = Whole(c) /\ p = First(c) /\ rest = Second(c) /\ ~out[k].last
                     \/ out = Whole(c) /\ p = Whole(c) /\ rest = <<>> /\ out[k].last
                     \/ out = Second(c) /\ p = Second(c) /\ rest = <<>> /\ out[k].last
  <1>0. Piece(c, TRUE) \in PiecesOf(c) /\ Piece(c, FALSE) \in PiecesOf(c)
    BY PieceIs
  <1> SUFFICES goal
    OBVIOUS
  <1>1. CASE out = <<>>
    <2>1. Len(out) = 0
      BY <1>1
    <2> QED  BY <2>1
  <1>2. CASE out = Second(c)
    <2>1. Len(out) = 1 /\ out[1].last
      BY <1>2, SecondIs, PieceIs
    <2>2. n \in 1..1 /\ k = n
      BY <2>1
    <2>3. k = 1 /\ SubSeq(Second(c), 1, n) = Second(c) /\ SubSeq(Second(c), n + 1, 1) = <<>>
      BY <1>0, <2>2, OneRead DEF Second
    <2>4. p = Second(c) /\ rest = <<>> /\ out[k].last
      BY <1>2, <2>1, <2>2, <2>3
    <2> HIDE DEF p, rest
    <2> QED  BY <1>2, <2>4
  <1>3. CASE out = Whole(c)
    <2>1. Len(out) = 2 /\ ~out[1].last /\ out[2].last
      <3>1. Piece(c, FALSE).last = FALSE /\ Piece(c, TRUE).last = TRUE
        BY PieceIs
      <3> QED  BY <1>3, <3>1, WholeIs
    <2>2. n \in 1..2 /\ k = n
      <3>1. (k = 1 \/ k = 2) /\ (n = 1 \/ n = 2) /\ k <= n /\ k \in Int /\ n \in Int
        BY <2>1
      <3>2. ~(k = 1 /\ n = 2)
        BY <2>1 DEF Through
      <3> QED  BY <3>1, <3>2
    <2>3. \/ n = 1 /\ SubSeq(Whole(c), 1, n) = First(c) /\ SubSeq(Whole(c), n + 1, 2) = Second(c)
          \/ n = 2 /\ SubSeq(Whole(c), 1, n) = Whole(c) /\ SubSeq(Whole(c), n + 1, 2) = <<>>
      BY <1>0, <2>2, TwoRead DEF Whole, First, Second
    <2>4. \/ p = First(c) /\ rest = Second(c) /\ ~out[k].last
          \/ p = Whole(c) /\ rest = <<>> /\ out[k].last
      BY <1>3, <2>1, <2>2, <2>3
    <2> HIDE DEF p, rest
    <2> QED  BY <1>3, <2>4
  <1> HIDE DEF p, rest, goal
  <1> QED  BY <1>1, <1>2, <1>3 DEF Rests

\* The halves of an answer make it whole.
LEMMA Halves ==
    ASSUME NEW c
    PROVE  /\ <<>> \o Whole(c) = Whole(c) /\ <<>> \o First(c) = First(c)
           /\ First(c) \o Second(c) = Whole(c)
  <1>1. <<>> \o Whole(c) = Whole(c) /\ <<>> \o First(c) = First(c)
    BY FirstIs, WholeIs, ConcatEmptySeq
  <1>2. First(c) \o Second(c) = Whole(c)
    <2>1. /\ First(c) \in Seq(PiecesOf(c)) /\ Second(c) \in Seq(PiecesOf(c)) /\ Whole(c) \in Seq(PiecesOf(c))
          /\ Len(First(c)) = 1 /\ Len(Second(c)) = 1 /\ Len(Whole(c)) = 2
          /\ First(c)[1] = Whole(c)[1] /\ Second(c)[1] = Whole(c)[2]
      <3>1. First(c) \in Seq(PiecesOf(c)) /\ Len(First(c)) = 1 /\ First(c)[1] = Piece(c, FALSE)
        BY FirstIs
      <3>2. Second(c) \in Seq(PiecesOf(c)) /\ Len(Second(c)) = 1 /\ Second(c)[1] = Piece(c, TRUE)
        BY SecondIs
      <3>3. /\ Whole(c) \in Seq(PiecesOf(c)) /\ Len(Whole(c)) = 2
            /\ Whole(c)[1] = Piece(c, FALSE) /\ Whole(c)[2] = Piece(c, TRUE)
        BY WholeIs
      <3> QED  BY <3>1, <3>2, <3>3
    <2> QED  BY <2>1, Joined
  <1> QED  BY <1>1, <1>2

\* The first, the second and the whole of an answer differ.
LEMMA Differ ==
    ASSUME NEW c
    PROVE  First(c) # Second(c) /\ First(c) # Whole(c) /\ Second(c) # Whole(c)
  <1>1. ~First(c)[1].last /\ Second(c)[1].last
    <2>1. First(c)[1] = Piece(c, FALSE) /\ Piece(c, FALSE).last = FALSE
      BY FirstIs, PieceIs
    <2>2. Second(c)[1] = Piece(c, TRUE) /\ Piece(c, TRUE).last = TRUE
      BY SecondIs, PieceIs
    <2> QED  BY <2>1, <2>2
  <1>2. Len(First(c)) = 1 /\ Len(Second(c)) = 1 /\ Len(Whole(c)) = 2
    BY FirstIs, SecondIs, WholeIs
  <1> QED  BY <1>1, <1>2

-----------------------------------------------------------------------------
(* Whose answer is in the pipe. *)

Early == {"idle", "refused", "linked"}

\* Nothing is in the pipes of the backend of server s, nor to come.
Clean(s) ==
    /\ backend[server[s].backend].out = <<>>
    /\ backend[server[s].backend].alive => backend[server[s].backend].asked = <<>>

\* The next client finds the pipes clean, once the one before it is over.
Fresh(s) ==
    \/ server[s].at \in {"note", "accept"}
    \/ server[s].at = "bridge" /\ server[s].open
    \/ server[s].at = "over" /\ server[s].input
    => Clean(s)

\* Once the request of c is read what is in the pipes is its own, and the client
\* waits for it or has left before its marker, at which the input was closed.
TurnOf(s, c) ==
    /\ backend[server[s].backend].out \in Rests(c)
    /\ backend[server[s].backend].alive =>
         \/ backend[server[s].backend].asked = <<>>
         \/ /\ backend[server[s].backend].asked = <<c>>
            /\ backend[server[s].backend].out = <<>>
    /\ server[s].input => client[c].at \notin Early
    /\ ~server[s].input => client[c].gone

Turn(s) == server[s].at = "bridge" /\ ~server[s].open => \A c \in server[s].cli : TurnOf(s, c)

\* A client has got its own pieces; no one has left between marker and answer.
ClientOwn(c) ==
    /\ client[c].gone => client[c].at = "linked"
    /\ client[c].got \in Seq(PiecesOf(c))

Own == /\ \A s \in Servers : Fresh(s) /\ Turn(s)
       /\ \A c \in Clients : ClientOwn(c)

AInv == ~deserted => Own

\* The backend has ended at most, and the clients have gone on at most.
Kept(b) ==
    /\ backend'[b].out = backend[b].out /\ backend'[b].asked = backend[b].asked
    /\ backend'[b].alive => backend[b].alive

ClientsOn == \A c \in Clients : /\ client[c].at \notin Early => client'[c].at \notin Early
                                /\ client[c].gone => client'[c].gone

LEMMA SameOwn ==
    ASSUME Own, \A c \in Clients : SamePlace(c) /\ SameGone(c) /\ SameGot(c)
    PROVE  ClientsOn /\ \A c \in Clients : ClientOwn(c)'
  BY DEF Own, ClientsOn, ClientOwn, SamePlace, SameGone, SameGot

LEMMA StillOwn ==
    ASSUME Own, UNCHANGED client
    PROVE  ClientsOn /\ \A c \in Clients : ClientOwn(c)'
  BY DEF Own, ClientsOn, ClientOwn

LEMMA CleanElse ==
    ASSUME NEW t, Clean(t), SameBackend(t), Kept(server[t].backend)
    PROVE  Clean(t)'
  BY DEF Clean, SameBackend, Kept

LEMMA OwnElse ==
    ASSUME SInv, NEW t \in Servers, Fresh(t), Turn(t), SameAt(t), SameOpen(t), SameInput(t),
           SameBackend(t), SameCli(t), server[t].at \in Using => Kept(server[t].backend),
           ClientsOn
    PROVE  Fresh(t)' /\ Turn(t)'
  <1>1. Fresh(t)'
    BY CleanElse DEF Fresh, SameAt, SameOpen, SameInput, Using
  <1>2. Turn(t)'
    <2>1. SUFFICES ASSUME server[t].at = "bridge", ~server[t].open, NEW c \in server[t].cli,
                          TurnOf(t, c)
                   PROVE  TurnOf(t, c)'
      BY DEF Turn, SameAt, SameOpen, SameCli
    <2>2. Kept(server[t].backend) /\ c \in Clients
      BY <2>1, SInvTypes, ServerIs DEF Using, ServerState
    <2> QED  BY <2>1, <2>2 DEF TurnOf, SameBackend, SameInput, Kept, ClientsOn
  <1> QED  BY <1>1, <1>2

\* No server moves, and no backend does but end.
LEMMA QuietOwn ==
    ASSUME SInv, Own, Servers' = Servers,
           \A t \in Servers : /\ SameAt(t) /\ SameOpen(t) /\ SameInput(t)
                              /\ SameBackend(t) /\ SameCli(t),
           \A b \in Backends : Kept(b), ClientsOn, \A c \in Clients : ClientOwn(c)'
    PROVE  Own'
  <1>1. ASSUME NEW t \in Servers PROVE Fresh(t)' /\ Turn(t)'
    <2>1. server[t].at \in Using => Kept(server[t].backend)
      BY AtWork
    <2>2. Fresh(t) /\ Turn(t)
      BY DEF Own
    <2> QED  BY <2>1, <2>2, OwnElse
  <1> QED  BY <1>1 DEF Own

LEMMA StillServers ==
    ASSUME UNCHANGED server
    PROVE  /\ Servers' = Servers
           /\ \A t \in Servers : /\ SameAt(t) /\ SameOpen(t) /\ SameInput(t)
                                 /\ SameBackend(t) /\ SameCli(t)
  BY DEF Servers, SameAt, SameOpen, SameInput, SameBackend, SameCli

LEMMA StillBackends == ASSUME UNCHANGED backend PROVE \A b \in Backends : Kept(b)
  BY DEF Kept

LEMMA ShutKeeps ==
    ASSUME SInv, NEW b \in Backends, backend' = [backend EXCEPT ![b].alive = FALSE]
    PROVE  \A d \in Backends : Kept(d)
  <1>1. /\ OneBackend(b) /\ backend'[b].alive = FALSE
        /\ backend'[b].asked = backend[b].asked /\ backend'[b].out = backend[b].out
    BY ShutStep, SInvTypes
  <1> QED  BY <1>1 DEF Kept, OneBackend

\* One server moves, and its backend may.
LEMMA OneOwn ==
    ASSUME SInv, Own, NEW s \in Servers, OneServer(s), Fresh(s)', Turn(s)',
           \A b \in Backends : backend[b].by # s => Kept(b),
           ClientsOn, \A c \in Clients : ClientOwn(c)'
    PROVE  Own'
  <1>1. Servers' = Servers
    BY DEF OneServer, Servers
  <1>2. ASSUME NEW t \in Servers, t # s PROVE Fresh(t)' /\ Turn(t)'
    <2>1. SameAt(t) /\ SameOpen(t) /\ SameInput(t) /\ SameBackend(t) /\ SameCli(t)
      BY <1>2 DEF OneServer, SameAt, SameOpen, SameInput, SameBackend, SameCli
    <2>2. server[t].at \in Using => Kept(server[t].backend)
      BY <1>2, AtWork
    <2>3. Fresh(t) /\ Turn(t)
      BY DEF Own
    <2> QED  BY <2>1, <2>2, <2>3, OwnElse
  <1> QED  BY <1>1, <1>2 DEF Own

\* The managers.
LEMMA FilesOwn ==
    ASSUME SInv, Own, UNCHANGED <<server, backend, client>>
    PROVE  Own'
  BY StillServers, StillBackends, StillOwn, QuietOwn

LEMMA KillOwn == ASSUME SInv, Own, NEW m \in Managers, Kill(m) PROVE Own'
  <1>1. UNCHANGED <<backend, client>>
    BY DEF Kill, ByManager
  <1>2. CASE pid = 0
    BY <1>1, <1>2, FilesOwn DEF Kill
  <1>3. CASE pid # 0
    <2>1. pid \in Servers /\ server' = [server EXCEPT ![pid].doomed = TRUE]
      BY <1>3, SInvTypes, Sizes DEF Kill, FileType
    <2>2. /\ OneServer(pid) /\ SameCli(pid) /\ SameBackend(pid) /\ SameInput(pid)
          /\ SameOpen(pid) /\ SameAt(pid)
      BY <2>1, SInvTypes, KillStep
    <2>3. /\ Servers' = Servers
          /\ \A t \in Servers : /\ SameAt(t) /\ SameOpen(t) /\ SameInput(t)
                                /\ SameBackend(t) /\ SameCli(t)
      BY <2>2 DEF OneServer, Servers, SameAt, SameOpen, SameInput, SameBackend, SameCli
    <2> QED  BY <1>1, <2>3, StillBackends, StillOwn, QuietOwn
  <1> QED  BY <1>2, <1>3

LEMMA KillBackendOwn == ASSUME SInv, Own, NEW m \in Managers, KillBackend(m) PROVE Own'
  <1>1. UNCHANGED <<server, client>>
    BY DEF KillBackend, ByManager
  <1>2. \A b \in Backends : Kept(b)
    <2>1. CASE bpid = 0
      BY <2>1, StillBackends DEF KillBackend
    <2>2. CASE bpid # 0
      <3>1. bpid \in Backends /\ backend' = [backend EXCEPT ![bpid].alive = FALSE]
        BY <2>2, SInvTypes, Sizes DEF KillBackend, FileType
      <3> QED  BY <3>1, ShutKeeps
    <2> QED  BY <2>1, <2>2
  <1> QED  BY <1>1, <1>2, StillServers, StillOwn, QuietOwn

\* What a fork adds.
\* A fork adds a server, or fails and adds none.
LEMMA ForkIs ==
    ASSUME SInv, NEW m \in Managers, Fork(m)
    PROVE  /\ Servers \subseteq Servers' /\ Servers' \subseteq Servers \cup {Len(server) + 1}
           /\ Len(server) + 1 \in Servers' => server'[Len(server) + 1] = NewServer
           /\ \A t \in Servers : server'[t] = server[t]
           /\ Len(server) + 1 \notin Servers /\ Len(server) + 1 # 0
  <1>1. NewServer \in ServerState
    BY EmptySeq DEF NewServer, ServerState, Places
  <1>2. server \in Seq(ServerState)
    BY SInvTypes DEF ServerType
  <1>3. CASE UNCHANGED server
    BY <1>3, Sizes DEF Servers
  <1>4. CASE server' = Append(server, NewServer)
    <2>1. /\ Len(server') = Len(server) + 1 /\ server'[Len(server) + 1] = NewServer
          /\ \A t \in 1..Len(server) : server'[t] = server[t]
      BY <1>1, <1>2, <1>4, AppendProperties
    <2> QED  BY <2>1, Sizes DEF Servers
  <1> QED  BY <1>3, <1>4 DEF Fork

LEMMA ForkedIs ==
    ASSUME SInv, NEW m \in Managers, Fork(m), Forks
    PROVE  /\ Servers' = Servers \cup {Len(server) + 1}
           /\ server'[Len(server) + 1] = NewServer
           /\ \A t \in Servers : server'[t] = server[t]
           /\ Len(server) + 1 \notin Servers /\ Len(server) + 1 # 0
  <1>1. NewServer \in ServerState
    BY EmptySeq DEF NewServer, ServerState, Places
  <1>2. Len(server') = Len(server) + 1
    BY <1>1, AppendProperties, SInvTypes DEF ServerType, Forks
  <1>3. Len(server) + 1 \in Servers'
    BY <1>2, Sizes DEF Servers
  <1> QED  BY <1>3, ForkIs

LEMMA ForkOwn == ASSUME SInv, Own, NEW m \in Managers, Fork(m) PROVE Own'
  <1>1. UNCHANGED <<backend, client>>
    BY DEF Fork, ByManager
  <1>2. ClientsOn /\ \A c \in Clients : ClientOwn(c)'
    BY <1>1, StillOwn
  <1>3. ASSUME NEW t \in Servers PROVE Fresh(t)' /\ Turn(t)'
    <2>1. server'[t] = server[t]
      BY ForkIs
    <2>2. SameAt(t) /\ SameOpen(t) /\ SameInput(t) /\ SameBackend(t) /\ SameCli(t)
      BY <2>1 DEF SameAt, SameOpen, SameInput, SameBackend, SameCli
    <2>3. server[t].at \in Using => Kept(server[t].backend)
      BY <1>1, AtWork, StillBackends
    <2>4. Fresh(t) /\ Turn(t)
      BY DEF Own
    <2> QED  BY <1>2, <2>2, <2>3, <2>4, OwnElse
  <1>4. ASSUME NEW t \in Servers', t = Len(server) + 1 PROVE Fresh(t)' /\ Turn(t)'
    <2>1. server'[t].at = "forked"
      BY <1>4, ForkIs DEF NewServer
    <2> QED  BY <2>1 DEF Fresh, Turn
  <1> QED  BY <1>2, <1>3, <1>4, ForkIs DEF Own

\* The steps of a server that leave it where no client is served.
LEMMA AwayOwn ==
    ASSUME SInv, Own, NEW s \in Servers, OneServer(s),
           server'[s].at \notin {"note", "accept", "bridge", "over"},
           \A b \in Backends : backend[b].by # s => Kept(b),
           ClientsOn, \A c \in Clients : ClientOwn(c)'
    PROVE  Own'
  <1>1. Fresh(s)' /\ Turn(s)'
    BY DEF Fresh, Turn
  <1> QED  BY <1>1, OneOwn

LEMMA MoveAwayOwn ==
    ASSUME SInv, Own, NEW s \in Servers,
           NEW place \in {"bind", "start", "failed", "stop"}, Move(s, place),
           UNCHANGED <<backend, client>>
    PROVE  Own'
  <1>1. place \in Places
    BY DEF Places
  <1>2. OneServer(s) /\ server'[s].at = place
    BY <1>1, SInvTypes, MoveStep
  <1> QED  BY <1>2, StillBackends, StillOwn, AwayOwn

LEMMA ClearOwn == ASSUME SInv, Own, NEW s \in Servers, Clear(s) PROVE Own'
  BY MoveAwayOwn DEF Clear, ByServer

LEMMA BindOwn == ASSUME SInv, Own, NEW s \in Servers, Bind(s) PROVE Own'
  <1>1. Move(s, "start") \/ Move(s, "failed")
    BY DEF Bind
  <1> QED  BY <1>1, MoveAwayOwn DEF Bind, ByServer

LEMMA StopBackendOwn == ASSUME SInv, Own, NEW s \in Servers, StopBackend(s) PROVE Own'
  <1>1. server[s].backend \in Backends
    BY AtWork DEF StopBackend, At, Using
  <1>2. \A b \in Backends : Kept(b)
    BY <1>1, ShutKeeps DEF StopBackend
  <1>3. OneServer(s) /\ server'[s].at = "start"
    BY SInvTypes, MoveStep DEF StopBackend, Places
  <1>4. UNCHANGED client
    BY DEF StopBackend
  <1> QED  BY <1>2, <1>3, <1>4, StillOwn, AwayOwn

LEMMA HangOwn ==
    ASSUME SInv, Own, NEW C, Hang(C)
    PROVE  ClientsOn /\ \A c \in Clients : ClientOwn(c)'
  <1>1. \A c \in Clients : SamePlace(c) /\ SameGone(c) /\ SameGot(c)
    BY SInvTypes, HangStep
  <1> QED  BY <1>1, SameOwn

LEMMA ServerDiesOwn == ASSUME SInv, Own, NEW s \in Servers, ServerDies(s) PROVE Own'
  <1>1. OneServer(s) /\ server'[s].at = "dead"
    BY SInvTypes, HangUpStep DEF ServerDies, Places
  <1>2. UNCHANGED backend /\ Hang(server[s].cli)
    BY DEF ServerDies
  <1>3. ClientsOn /\ \A c \in Clients : ClientOwn(c)'
    BY <1>2, HangOwn
  <1> QED  BY <1>1, <1>2, <1>3, StillBackends, AwayOwn

LEMMA ResetOwn == ASSUME SInv, Own, NEW s \in Servers, Reset(s) PROVE Own'
  <1>1. /\ OneServer(s)
        /\ SameCli(s) /\ SameBackend(s) /\ SameInput(s) /\ SameOpen(s) /\ SameAt(s)
    BY BacklogStep, SInvTypes, EmptySeq DEF Reset
  <1>2. /\ Servers' = Servers
        /\ \A t \in Servers : /\ SameAt(t) /\ SameOpen(t) /\ SameInput(t)
                              /\ SameBackend(t) /\ SameCli(t)
    BY <1>1 DEF OneServer, Servers, SameAt, SameOpen, SameInput, SameBackend, SameCli
  <1>3. ClientsOn /\ \A c \in Clients : ClientOwn(c)'
    BY HangOwn DEF Reset
  <1>4. UNCHANGED backend
    BY DEF Reset, ByClient
  <1> QED  BY <1>2, <1>3, <1>4, StillBackends, QuietOwn

LEMMA StartOwn == ASSUME SInv, Own, NEW s \in Servers, Start(s) PROVE Own'
  <1>1. /\ OneServer(s) /\ server'[s].at = "note" /\ server'[s].backend = Len(backend) + 1
        /\ \A b \in Backends : backend'[b] = backend[b]
        /\ backend'[Len(backend) + 1] = NewBackend(s)
    BY SInvTypes, StartStep
  <1>2. UNCHANGED client
    BY DEF Start
  <1>3. Fresh(s)' /\ Turn(s)'
    BY <1>1 DEF Fresh, Turn, Clean, NewBackend
  <1>4. \A b \in Backends : Kept(b)
    BY <1>1 DEF Kept
  <1> QED  BY <1>1, <1>2, <1>3, <1>4, StillOwn, OneOwn

\* A server moves from one place where the pipes are clean to another.
LEMMA CleanMoves ==
    ASSUME SInv, Own, NEW s \in Servers, Clean(s), OneServer(s), SameBackend(s),
           server'[s].at = "bridge" => server'[s].open,
           UNCHANGED backend, ClientsOn, \A c \in Clients : ClientOwn(c)'
    PROVE  Own'
  <1>1. Fresh(s)' /\ Turn(s)'
    BY DEF Fresh, Turn, Clean, SameBackend
  <1> QED  BY <1>1, StillBackends, OneOwn

LEMMA NoteOwn == ASSUME SInv, Own, NEW s \in Servers, Note(s) PROVE Own'
  <1>1. OneServer(s) /\ SameBackend(s) /\ server'[s].at = "accept"
    BY SInvTypes, MoveStep DEF Note, Places
  <1>2. UNCHANGED <<backend, client>> /\ Clean(s)
    BY DEF Note, At, Own, Fresh
  <1> QED  BY <1>1, <1>2, StillOwn, CleanMoves

LEMMA AcceptOwn == ASSUME SInv, Own, NEW s \in Servers, Accept(s) PROVE Own'
  <1>1. OneServer(s) /\ SameBackend(s) /\ server'[s].open = TRUE
    BY SInvTypes, AcceptStep
  <1>2. UNCHANGED <<backend, client>> /\ Clean(s)
    BY DEF Accept, At, Own, Fresh
  <1> QED  BY <1>1, <1>2, StillOwn, CleanMoves

LEMMA RelayEndOwn == ASSUME SInv, Own, NEW s \in Servers, RelayEnd(s) PROVE Own'
  <1>1. OneServer(s) /\ SameBackend(s) /\ server'[s].at = "over"
    BY SInvTypes, MoveStep DEF RelayEnd, Over, Places
  <1>2. UNCHANGED <<backend, client>> /\ Clean(s)
    BY DEF RelayEnd, Clean
  <1> QED  BY <1>1, <1>2, StillOwn, CleanMoves

LEMMA CloseClientOwn == ASSUME SInv, Own, NEW s \in Servers, CloseClient(s) PROVE Own'
  <1>1. PICK alive : server' = [server EXCEPT ![s].cli = {},
                        ![s].at = IF server[s].input /\ alive THEN "accept" ELSE "stop"]
    BY DEF CloseClient
  <1> DEFINE place == IF server[s].input /\ alive THEN "accept" ELSE "stop"
  <1>2. place \in {"accept", "stop"} /\ (place = "accept" => server[s].input)
        /\ server' = [server EXCEPT ![s].cli = {}, ![s].at = place]
    BY <1>1
  <1> HIDE DEF place
  <1>3. place \in Places
    BY <1>2 DEF Places
  <1>4. OneServer(s) /\ server'[s].at = place /\ SameBackend(s)
    BY <1>2, <1>3, SInvTypes, HangUpStep
  <1>5. UNCHANGED backend /\ Hang(server[s].cli) /\ server[s].at = "over"
    BY DEF CloseClient, At
  <1>6. ClientsOn /\ \A c \in Clients : ClientOwn(c)'
    BY <1>5, HangOwn
  <1>7. CASE place = "stop"
    BY <1>4, <1>5, <1>6, <1>7, StillBackends, AwayOwn
  <1>8. CASE place = "accept"
    <2>1. Clean(s)
      BY <1>2, <1>5, <1>8 DEF Own, Fresh
    <2> QED  BY <1>4, <1>5, <1>6, <1>8, <2>1, CleanMoves
  <1> QED  BY <1>2, <1>7, <1>8

LEMMA AppendOne == ASSUME NEW c PROVE Append(<<>>, c) = <<c>>
  OBVIOUS

\* The client and the backend of a server that bridges, and what is between them.
LEMMA BridgeIs ==
    ASSUME SInv, Own, NEW s \in Servers, server[s].at = "bridge"
    PROVE  /\ server[s].backend \in Backends /\ Cli(s) \in Clients /\ server[s].cli = {Cli(s)}
           /\ server[s].open => server[s].input /\ Clean(s)
           /\ ~server[s].open => TurnOf(s, Cli(s))
           /\ \A b \in Backends : backend[b].by # s => b # server[s].backend
  <1>1. /\ server[s].backend \in Backends /\ backend[server[s].backend].by = s
        /\ Cli(s) \in Clients /\ server[s].cli = {Cli(s)} /\ Wired(s)
    BY AtWork DEF Using
  <1>2. Fresh(s) /\ Turn(s)
    BY DEF Own
  <1>3. server[s].open => server[s].input /\ Clean(s)
    BY <1>1, <1>2 DEF Fresh, Wired, InputOK
  <1>4. ~server[s].open => TurnOf(s, Cli(s))
    BY <1>1, <1>2 DEF Turn
  <1> QED  BY <1>1, <1>3, <1>4

LEMMA ReadRequestOwn == ASSUME SInv, Own, NEW s \in Servers, ReadRequest(s) PROVE Own'
  <1> DEFINE b == server[s].backend
             c == Cli(s)
             q == Append(backend[b].asked, c)
  <1>1. /\ server[s].at = "bridge" /\ server[s].open /\ client[c].at = "asked"
        /\ UNCHANGED client
    BY DEF ReadRequest, Bridging, At
  <1>2. /\ b \in Backends /\ c \in Clients /\ server[s].cli = {c}
        /\ server[s].input /\ Clean(s)
        /\ \A d \in Backends : backend[d].by # s => d # b
    BY <1>1, BridgeIs
  <1>3. CASE backend[b].alive
    <2>1. backend' = [backend EXCEPT ![b].asked = q] /\ server' = [server EXCEPT ![s].open = FALSE]
      BY <1>3 DEF ReadRequest
    <2>2. q = <<c>> /\ q \in Seq(Clients)
      <3>1. backend[b].asked = <<>>
        BY <1>2, <1>3 DEF Clean
      <3>2. <<c>> \in Seq(Clients)
        BY <1>2, OneIs
      <3> QED  BY <3>1, <3>2, AppendOne
    <2> HIDE DEF q
    <2>3. /\ OneBackend(b) /\ backend'[b].asked = q /\ backend'[b].out = backend[b].out
      BY <1>2, <2>1, <2>2, SInvTypes, AskStep
    <2>4. /\ OneServer(s) /\ server'[s].open = FALSE
          /\ SameAt(s) /\ SameBackend(s) /\ SameCli(s) /\ SameInput(s)
      BY <2>1, SInvTypes, OpenStep
    <2>5. \A d \in Backends : backend[d].by # s => Kept(d)
      BY <1>2, <2>3 DEF OneBackend, Kept
    <2>6. Fresh(s)'
      BY <1>1, <2>4 DEF Fresh, SameAt
    <2>7. Turn(s)'
      <3>1. backend'[b].out = <<>> /\ <<>> \in Rests(c)
        BY <1>2, <2>3 DEF Clean, Rests
      <3>2. server'[s].backend = b /\ server'[s].cli = {c} /\ server'[s].input
        BY <1>2, <2>4 DEF SameBackend, SameCli, SameInput
      <3>3. ASSUME NEW d \in server'[s].cli PROVE TurnOf(s, d)'
        <4>1. d = c
          BY <3>2
        <4>2. client'[c].at \notin Early
          BY <1>1 DEF Early
        <4> HIDE DEF b, c
        <4> QED  BY <2>2, <2>3, <3>1, <3>2, <4>1, <4>2 DEF TurnOf
      <3> QED  BY <3>3 DEF Turn
    <2> QED  BY <1>1, <2>4, <2>5, <2>6, <2>7, StillOwn, OneOwn
  <1>4. CASE ~backend[b].alive
    <2>1. Move(s, "over") /\ UNCHANGED backend
      BY <1>4 DEF ReadRequest, Over
    <2>2. OneServer(s) /\ SameBackend(s) /\ server'[s].at = "over"
      BY <2>1, SInvTypes, MoveStep DEF Places
    <2> QED  BY <1>1, <1>2, <2>1, <2>2, StillOwn, CleanMoves
  <1> QED  BY <1>3, <1>4

LEMMA ReadEndOwn == ASSUME SInv, Own, NEW s \in Servers, ReadEnd(s) PROVE Own'
  <1> DEFINE b == server[s].backend
             c == Cli(s)
  <1>1. /\ server[s].at = "bridge" /\ server[s].open /\ client[c].gone
        /\ UNCHANGED client
        /\ server' = [server EXCEPT ![s].open = FALSE, ![s].input = FALSE]
    BY DEF ReadEnd, Bridging, At
  <1>2. /\ b \in Backends /\ c \in Clients /\ server[s].cli = {c} /\ Clean(s)
        /\ \A d \in Backends : backend[d].by # s => d # b
    BY <1>1, BridgeIs
  <1>3. PICK q \in {backend[b].asked, Append(backend[b].asked, c)} :
            backend' = [backend EXCEPT ![b] = [@ EXCEPT !.input = FALSE, !.asked = q]]
    BY DEF ReadEnd
  <1>4. backend[b].asked \in Seq(Clients)
    BY <1>2, SInvTypes, BackendIs DEF BackendState
  <1>5. q \in Seq(Clients)
    <2>1. Append(backend[b].asked, c) \in Seq(Clients)
      BY <1>2, <1>4, AppendProperties
    <2> QED  BY <1>3, <1>4, <2>1
  <1>6. backend[b].alive => q = <<>> \/ q = <<c>>
    BY <1>2, <1>3, AppendOne DEF Clean
  <1>7. /\ OneBackend(b) /\ backend'[b].asked = q
        /\ backend'[b].alive = backend[b].alive /\ backend'[b].out = backend[b].out
    BY <1>2, <1>3, <1>5, SInvTypes, EndInputStep
  <1>8. /\ OneServer(s) /\ server'[s].open = FALSE /\ server'[s].input = FALSE
        /\ SameAt(s) /\ SameBackend(s) /\ SameCli(s)
    BY <1>1, SInvTypes, ShutInputStep
  <1>9. \A d \in Backends : backend[d].by # s => Kept(d)
    BY <1>2, <1>7 DEF OneBackend, Kept
  <1>10. Fresh(s)'
    BY <1>1, <1>8 DEF Fresh, SameAt
  <1>11. Turn(s)'
    <2>1. backend'[b].out = <<>> /\ <<>> \in Rests(c)
      BY <1>2, <1>7 DEF Clean, Rests
    <2>2. server'[s].backend = b /\ server'[s].cli = {c} /\ server'[s].input = FALSE
      BY <1>2, <1>8 DEF SameBackend, SameCli
    <2>3. ASSUME NEW d \in server'[s].cli PROVE TurnOf(s, d)'
      <3>1. d = c /\ client'[c].gone
        BY <1>1, <2>2
      <3> HIDE DEF b, c
      <3> QED  BY <1>6, <1>7, <2>1, <2>2, <3>1 DEF TurnOf
    <2> QED  BY <2>3 DEF Turn
  <1> QED  BY <1>1, <1>8, <1>9, <1>10, <1>11, StillOwn, OneOwn

LEMMA RelayOwn == ASSUME SInv, Own, NEW s \in Servers, Relay(s) PROVE Own'
  <1> DEFINE b == server[s].backend
             out == backend[b].out
  <1>1. server[s].at = "bridge"
    BY DEF Relay, Bridging, At
  <1>0. PICK c \in Clients : c = Cli(s)
    BY <1>1, BridgeIs
  <1>2. /\ b \in Backends /\ c \in Clients /\ server[s].cli = {c}
        /\ server[s].open => Clean(s)
        /\ ~server[s].open => TurnOf(s, c)
        /\ \A d \in Backends : backend[d].by # s => d # b
    BY <1>0, <1>1, BridgeIs
  <1>3. PICK n \in 1..Len(out) : \E k \in 1..n :
          /\ Through(out, n, k) /\ Drop(b, n) /\ Deliver(c, SubSeq(out, 1, k))
          /\ IF client[c].gone \/ out[k].last THEN Over(s) ELSE UNCHANGED server
    BY <1>0 DEF Relay
  <1>a. PICK k \in 1..n :
          /\ Through(out, n, k) /\ Drop(b, n) /\ Deliver(c, SubSeq(out, 1, k))
          /\ IF client[c].gone \/ out[k].last THEN Over(s) ELSE UNCHANGED server
    BY <1>3
  <1> DEFINE p == SubSeq(out, 1, k)
             rest == SubSeq(out, n + 1, Len(out))
  <1>4. /\ Drop(b, n) /\ Deliver(c, p)
        /\ IF client[c].gone \/ out[k].last THEN Over(s) ELSE UNCHANGED server
    BY <1>a
  <1>5. /\ OneBackend(b) /\ backend'[b].alive = backend[b].alive
        /\ backend'[b].asked = backend[b].asked /\ backend'[b].out = rest
    BY <1>2, <1>3, <1>4, DropIs
  <1>6. out # <<>>
    BY <1>3, EmptySeq
  <1>7. ~server[s].open /\ TurnOf(s, c)
    BY <1>2, <1>6 DEF Clean
  <1>8. \/ out = Whole(c) /\ p = First(c) /\ rest = Second(c) /\ ~out[k].last
        \/ out = Whole(c) /\ p = Whole(c) /\ rest = <<>> /\ out[k].last
        \/ out = Second(c) /\ p = Second(c) /\ rest = <<>> /\ out[k].last
    <2>1. out \in Rests(c)
      BY <1>7 DEF TurnOf
    <2> QED  BY <1>3, <1>a, <2>1, ReadIs
  <1>9. backend[b].alive => backend[b].asked = <<>>
    BY <1>6, <1>7 DEF TurnOf
  <1>10. /\ OneClient(c) /\ SamePlace(c) /\ SameGone(c)
         /\ client'[c].got = IF client[c].gone THEN client[c].got ELSE client[c].got \o p
    BY <1>2, <1>4, SInvTypes, DeliverStep
  <1> HIDE DEF p, rest, b, out
  <1>11. ClientOwn(c)'
    <2>1. ClientOwn(c)
      BY <1>2 DEF Own
    <2>2. p \in Seq(PiecesOf(c))
      BY <1>8, FirstIs, SecondIs, WholeIs
    <2>3. client[c].got \o p \in Seq(PiecesOf(c))
      BY <2>1, <2>2, ConcatProperties DEF ClientOwn
    <2>4. client'[c].got \in Seq(PiecesOf(c))
      BY <1>10, <2>1, <2>3 DEF ClientOwn
    <2> QED  BY <1>10, <2>1, <2>4 DEF ClientOwn, SameGone, SamePlace
  <1>12. ClientsOn /\ \A d \in Clients : ClientOwn(d)'
    <2>1. \A d \in Clients \ {c} : client'[d] = client[d]
      BY <1>10 DEF OneClient
    <2>2. \A d \in Clients : ClientOwn(d)'
      BY <1>11, <2>1 DEF Own, ClientOwn
    <2>3. ClientsOn
      BY <1>10, <2>1 DEF ClientsOn, SamePlace, SameGone
    <2> QED  BY <2>2, <2>3
  <1>13. \A d \in Backends : backend[d].by # s => Kept(d)
    BY <1>2, <1>5 DEF OneBackend, Kept
  <1>14. CASE client[c].gone \/ out[k].last
    <2>1. OneServer(s) /\ server'[s].at = "over" /\ SameBackend(s) /\ SameInput(s)
      BY <1>4, <1>14, SInvTypes, MoveStep DEF Over, Places
    <2>2. Turn(s)'
      BY <2>1 DEF Turn
    <2>3. Fresh(s)'
      <3>1. SUFFICES ASSUME server[s].input PROVE Clean(s)'
        BY <2>1 DEF Fresh, SameInput
      <3>2. ~client[c].gone
        BY <1>2, <1>7, <3>1 DEF TurnOf, Own, ClientOwn, Early
      <3>3. rest = <<>>
        BY <1>8, <1>14, <3>2
      <3>4. server'[s].backend = b
        BY <2>1 DEF SameBackend, b
      <3> QED  BY <1>5, <1>9, <3>3, <3>4 DEF Clean
    <2> QED  BY <1>12, <1>13, <2>1, <2>2, <2>3, OneOwn
  <1>15. CASE ~(client[c].gone \/ out[k].last)
    <2>1. UNCHANGED server
      BY <1>4, <1>15
    <2>2. OneServer(s) /\ SameBackend(s) /\ SameCli(s) /\ SameInput(s) /\ SameOpen(s) /\ SameAt(s)
      BY <2>1, SInvTypes, ServerStays
    <2>3. Fresh(s)'
      BY <1>1, <1>7, <2>2 DEF Fresh, SameOpen, SameAt
    <2>4. Turn(s)'
      <3>1. rest \in Rests(c) /\ server'[s].backend = b /\ server'[s].cli = {c}
        BY <1>2, <1>8, <2>2 DEF Rests, SameBackend, SameCli, b
      <3>2. TurnOf(s, c)'
        <4>1. /\ backend'[b].out \in Rests(c)
              /\ backend'[b].alive => backend'[b].asked = <<>>
          BY <1>5, <1>9, <3>1
        <4>2. /\ server'[s].input => client'[c].at \notin Early
              /\ ~server'[s].input => client'[c].gone
          BY <1>2, <1>7, <1>12, <2>2 DEF TurnOf, ClientsOn, SameInput
        <4> QED  BY <3>1, <4>1, <4>2 DEF TurnOf
      <3>3. ASSUME NEW d \in server'[s].cli PROVE TurnOf(s, d)'
        <4>1. d = c
          BY <3>1
        <4> QED  BY <3>2, <4>1 DEF TurnOf
      <3> QED  BY <3>3 DEF Turn
    <2> QED  BY <1>12, <1>13, <2>2, <2>3, <2>4, OneOwn
  <1> QED  BY <1>14, <1>15

\* The backend.
LEMMA AnswerOwn == ASSUME SInv, Own, NEW b \in Backends, Answer(b) PROVE Own'
  <1>1. /\ backend[b].alive /\ backend[b].asked # <<>> /\ OneBackend(b)
        /\ backend'[b].alive = backend[b].alive
        /\ backend'[b].asked = Tail(backend[b].asked)
        /\ backend'[b].out = backend[b].out \o Whole(Head(backend[b].asked))
    BY AnswerIs
  <1>2. UNCHANGED <<server, client>>
    BY DEF Answer, ByBackend
  <1>3. ClientsOn /\ \A c \in Clients : ClientOwn(c)'
    BY <1>2, StillOwn
  <1>4. ASSUME NEW t \in Servers PROVE Fresh(t)' /\ Turn(t)'
    <2>1. SameAt(t) /\ SameOpen(t) /\ SameInput(t) /\ SameBackend(t) /\ SameCli(t) /\ Fresh(t) /\ Turn(t)
      BY <1>2, StillServers DEF Own
    <2>2. CASE server[t].at \notin Using \/ server[t].backend # b
      <3>1. server[t].at \in Using => Kept(server[t].backend)
        BY <1>1, <2>2, AtWork DEF Kept, OneBackend
      <3> QED  BY <1>3, <2>1, <3>1, OwnElse
    <2>3. CASE server[t].backend = b
      <3>1. Fresh(t)'
        <4>1. ~Clean(t)
          BY <1>1, <2>3 DEF Clean
        <4> QED  BY <2>1, <4>1 DEF Fresh, SameAt, SameOpen, SameInput
      <3>2. Turn(t)'
        <4>1. SUFFICES ASSUME server[t].at = "bridge", ~server[t].open, NEW c \in server[t].cli,
                              TurnOf(t, c)
                       PROVE  TurnOf(t, c)'
          BY <2>1 DEF Turn, SameAt, SameOpen, SameCli
        <4>2. backend[b].asked = <<c>> /\ backend[b].out = <<>>
          BY <1>1, <2>3, <4>1 DEF TurnOf
        <4>3. Head(<<c>>) = c /\ Tail(<<c>>) = <<>> /\ <<>> \o Whole(c) = Whole(c)
          <5>1. Head(<<c>>) = c /\ Tail(<<c>>) = <<>>
            OBVIOUS
          <5> QED  BY <5>1, Halves
        <4>4. backend'[b].asked = <<>> /\ backend'[b].out = Whole(c)
          BY <1>1, <4>2, <4>3
        <4>5. Whole(c) \in Rests(c)
          BY DEF Rests
        <4>6. server'[t].backend = b
          BY <2>1, <2>3 DEF SameBackend
        <4> QED  BY <1>2, <4>1, <4>4, <4>5, <4>6 DEF TurnOf
      <3> QED  BY <3>1, <3>2
    <2> QED  BY <2>2, <2>3
  <1>5. Servers' = Servers
    BY <1>2, StillServers
  <1> QED  BY <1>3, <1>4, <1>5 DEF Own

LEMMA EndOwn ==
    ASSUME SInv, Own, NEW b \in Backends, EndOfInput(b) \/ BackendFails(b)
    PROVE  Own'
  <1>1. /\ backend' = [backend EXCEPT ![b].alive = FALSE]
        /\ UNCHANGED <<server, client>>
    BY DEF EndOfInput, BackendFails, ByBackend
  <1> QED  BY <1>1, ShutKeeps, StillServers, StillOwn, QuietOwn

\* The clients.
LEMMA ClientMoves ==
    ASSUME SInv, Own, NEW c \in Clients, OneClient(c), SameGot(c),
           client[c].at \notin Early => client'[c].at \notin Early,
           client[c].gone => client'[c].gone,
           client'[c].gone => client'[c].at = "linked"
    PROVE  ClientsOn /\ \A d \in Clients : ClientOwn(d)'
  BY DEF Own, ClientsOn, ClientOwn, OneClient, SameGot

LEMMA ConnectOwn == ASSUME SInv, Own, NEW c \in Clients, Connect(c) PROVE Own'
  <1>1. client[c].at = "idle" /\ UNCHANGED backend
    BY DEF Connect, ByClient
  <1>2. ~client[c].gone /\ client[c].at \in Early
    BY <1>1 DEF Own, ClientOwn, Early
  <1>3. CASE sock # 0 /\ Listening(sock)
    <2>1. /\ sock \in Servers /\ OneServer(sock)
          /\ SameCli(sock) /\ SameBackend(sock) /\ SameInput(sock) /\ SameOpen(sock) /\ SameAt(sock)
          /\ OneClient(c) /\ SameGone(c) /\ SameGot(c)
      BY <1>3, LinkIs
    <2>2. /\ Servers' = Servers
          /\ \A t \in Servers : /\ SameAt(t) /\ SameOpen(t) /\ SameInput(t)
                                /\ SameBackend(t) /\ SameCli(t)
      BY <2>1 DEF OneServer, Servers, SameAt, SameOpen, SameInput, SameBackend, SameCli
    <2>3. ClientsOn /\ \A d \in Clients : ClientOwn(d)'
      BY <1>2, <2>1, ClientMoves DEF SameGone
    <2> QED  BY <1>1, <2>2, <2>3, StillBackends, QuietOwn
  <1>4. CASE ~(sock # 0 /\ Listening(sock))
    <2>1. client' = [client EXCEPT ![c].at = "refused"] /\ UNCHANGED server
      BY <1>4 DEF Connect
    <2>2. OneClient(c) /\ SameGone(c) /\ SameGot(c)
      BY <2>1, SInvTypes, PlaceStep DEF ClientPlaces
    <2>3. ClientsOn /\ \A d \in Clients : ClientOwn(d)'
      BY <1>2, <2>2, ClientMoves DEF SameGone
    <2> QED  BY <1>1, <2>1, <2>3, StillServers, StillBackends, QuietOwn
  <1> QED  BY <1>3, <1>4

LEMMA PlaceOwn ==
    ASSUME SInv, Own, NEW c \in Clients, NEW at \in ClientPlaces \ Early, ~client[c].gone,
           client' = [client EXCEPT ![c].at = at], UNCHANGED <<server, backend>>
    PROVE  Own'
  <1>1. OneClient(c) /\ client'[c].at = at /\ SameGone(c) /\ SameGot(c)
    BY SInvTypes, PlaceStep
  <1>2. ClientsOn /\ \A d \in Clients : ClientOwn(d)'
    BY <1>1, ClientMoves DEF SameGone
  <1> QED  BY <1>2, StillServers, StillBackends, QuietOwn

LEMMA AskOwn == ASSUME SInv, Own, NEW c \in Clients, Ask(c) PROVE Own'
  <1> DEFINE at == IF client[c].hung THEN "failed" ELSE "asked"
  <1>1. client' = [client EXCEPT ![c].at = at] /\ at \in ClientPlaces \ Early
    BY DEF Ask, ClientPlaces, Early
  <1> HIDE DEF at
  <1> QED  BY <1>1, PlaceOwn DEF Ask, ByClient

LEMMA FinishOwn == ASSUME SInv, Own, NEW c \in Clients, Finish(c) PROVE Own'
  <1>1. PICK at \in {"done", "failed"} : client' = [client EXCEPT ![c].at = at]
    BY DEF Finish
  <1>2. at \in ClientPlaces \ Early
    BY DEF ClientPlaces, Early
  <1> QED  BY <1>1, <1>2, PlaceOwn DEF Finish, ByClient

LEMMA VanishOwn == ASSUME SInv, Own, NEW c \in Clients, Vanish(c), ~deserted' PROVE Own'
  <1>1. client[c].at = "linked" /\ client' = [client EXCEPT ![c].gone = TRUE]
        /\ UNCHANGED <<server, backend>>
    BY DEF Vanish, ByClient
  <1>2. OneClient(c) /\ client'[c].gone = TRUE /\ SamePlace(c) /\ SameGot(c)
    BY <1>1, SInvTypes, GoneStep
  <1>3. ClientsOn /\ \A d \in Clients : ClientOwn(d)'
    BY <1>1, <1>2, ClientMoves DEF SamePlace
  <1> QED  BY <1>1, <1>3, StillServers, StillBackends, QuietOwn

LEMMA ManageOwn == ASSUME SInv, Own, NEW m \in Managers, Manage(m) PROVE Own'
  <1>1. CASE Kill(m) \/ KillBackend(m) \/ Fork(m)
    BY <1>1, KillOwn, KillBackendOwn, ForkOwn
  <1>2. CASE ~(Kill(m) \/ KillBackend(m) \/ Fork(m))
    <2>1. UNCHANGED <<server, backend, client>>
      BY <1>2 DEF Manage, Begin, Unlink, ForgetBackend, Forget, Ready, Register, Configure,
                  Unconfigure, ManagerDies, ByManager, files
    <2> QED  BY <2>1, FilesOwn
  <1> QED  BY <1>1, <1>2

\* A client that has deserted has.
LEMMA DesertedStays == ASSUME SInv, [Next]_vars, ~deserted' PROVE ~deserted
  BY DEF Next, Manage, Begin, Kill, Unlink, KillBackend, ForgetBackend, Forget, Fork, Ready,
         Register, Configure, Unconfigure, ManagerDies, ByManager, Serve, ByServer, Clear, Bind,
         Start, Note, Accept, ReadRequest, ReadEnd, Relay, RelayEnd, CloseClient, StopBackend,
         ServerDies, Reset, ByClient, Answer, EndOfInput, BackendFails, ByBackend, Connect, Ask,
         Finish, Vanish, vars, history

LEMMA StepOwn == ASSUME SInv, AInv, [Next]_vars PROVE AInv'
  <1> SUFFICES ASSUME ~deserted', Own PROVE Own'
    BY DesertedStays DEF AInv
  <1>1. ASSUME NEW s \in Servers, Serve(s) \/ ServerDies(s) \/ Reset(s) PROVE Own'
    BY <1>1, ClearOwn, BindOwn, StartOwn, NoteOwn, AcceptOwn, ReadRequestOwn, ReadEndOwn, RelayOwn,
       RelayEndOwn, CloseClientOwn, StopBackendOwn, ServerDiesOwn, ResetOwn DEF Serve
  <1>2. ASSUME NEW b \in Backends, Answer(b) \/ EndOfInput(b) \/ BackendFails(b) PROVE Own'
    BY <1>2, AnswerOwn, EndOwn
  <1>3. ASSUME NEW c \in Clients, Connect(c) \/ Ask(c) \/ Finish(c) \/ Vanish(c) PROVE Own'
    BY <1>3, ConnectOwn, AskOwn, FinishOwn, VanishOwn
  <1>4. CASE UNCHANGED vars
    BY <1>4, FilesOwn DEF vars
  <1> QED  BY <1>1, <1>2, <1>3, <1>4, ManageOwn DEF Next

\* The answers in the pipes and at the clients belong together, for any clients,
\* calls, faults and deaths, unless a client leaves between its marker and its
\* answer.
THEOREM OwnInductive == Spec => []AInv
  <1>1. Init => AInv
    <2> SUFFICES ASSUME Init PROVE Own
      BY DEF AInv
    <2>1. Len(server) = 0
      BY EmptySeq DEF Init
    <2>2. \A c \in Clients : ClientOwn(c)
      BY EmptySeq DEF Init, ClientOwn
    <2> QED  BY <2>1, <2>2 DEF Own, Servers
  <1>2. SInv /\ AInv /\ [Next]_vars => AInv'
    BY StepOwn
  <1> QED  BY <1>1, <1>2, Inductive, PTL DEF Spec

\* OwnAnswer: as long as no client has left between its marker and its answer, no
\* client is given a byte of another's answer, whoever dies before its marker,
\* whichever backend fails or server is replaced (libdmn.c, the bridge and
\* kc_dmn_backend_start).
THEOREM OwnAnswers == Spec => []OwnAnswer
  <1>1. SInv /\ AInv => OwnAnswer
    <2> SUFFICES ASSUME Own, NEW c \in Clients, NEW i \in DOMAIN client[c].got
                 PROVE  client[c].got[i].of = c
      BY DEF AInv, OwnAnswer
    <2>1. client[c].got \in Seq(PiecesOf(c))
      BY DEF Own, ClientOwn
    <2>2. client[c].got[i] \in PiecesOf(c)
      BY <2>1, ElementOfSeq, LenProperties
    <2> QED  BY <2>2 DEF PiecesOf
  <1> QED  BY <1>1, Inductive, OwnInductive, PTL

-----------------------------------------------------------------------------
(* How much of an answer a client has got. *)

Serving == {"note", "accept", "bridge", "over"}

\* A backend whose input is open lives.
Lives(s) == server[s].at \in Serving /\ server[s].input => backend[server[s].backend].alive

\* What client c has got and what is on its way to it are its answer.
TakenOf(s, c) ==
    \/ backend[server[s].backend].asked = <<c>> /\ client[c].got = <<>>
    \/ /\ backend[server[s].backend].asked = <<>>
       /\ backend[server[s].backend].out = Whole(c) /\ client[c].got = <<>>
    \/ /\ backend[server[s].backend].asked = <<>>
       /\ backend[server[s].backend].out = Second(c) /\ client[c].got = First(c)

Taken(s) == server[s].at = "bridge" /\ ~server[s].open /\ server[s].input =>
                \A c \in server[s].cli : TakenOf(s, c)

\* Nobody is given anything before it is asked for.
Unasked(s) ==
    /\ server[s].at = "bridge" /\ server[s].open => \A c \in server[s].cli : client[c].got = <<>>
    /\ \A i \in 1..Len(server[s].backlog) : client[server[s].backlog[i]].got = <<>>

\* An exchange is over once the client has its answer, or has gone.
Satisfied(c) == client[c].gone \/ client[c].got = Whole(c)
Concluded(s) == server[s].at = "over" => \A c \in server[s].cli : Satisfied(c)

ServesWhole(s) == Lives(s) /\ Taken(s) /\ Unasked(s) /\ Concluded(s)

ClientWhole(c) ==
    /\ client[c].at \in {"idle", "refused"} => client[c].got = <<>>
    /\ client[c].got \in {<<>>, First(c), Whole(c)}
    /\ client[c].hung => Satisfied(c)
    /\ client[c].at \in {"done", "failed"} => client[c].got = Whole(c)

Complete == /\ \A s \in Servers : ServesWhole(s)
            /\ \A c \in Clients : ClientWhole(c)

WInv == ~broken /\ ~deserted => Complete

\* What a step leaves to server t: its own state, its backend, its clients.
Unmoved(t) == /\ SameAt(t) /\ SameOpen(t) /\ SameInput(t) /\ SameBackend(t) /\ SameCli(t)
              /\ SameBacklog(t)

Held(t) == server[t].at \in Serving =>
    /\ backend'[server[t].backend].out = backend[server[t].backend].out
    /\ backend'[server[t].backend].asked = backend[server[t].backend].asked
    /\ server[t].input /\ backend[server[t].backend].alive => backend'[server[t].backend].alive

GotOn(t) == \A c \in Clients : Linked(c, t) =>
    SameGot(c) /\ (client[c].gone => client'[c].gone)

LEMMA ServesElse ==
    ASSUME SInv, NEW t \in Servers, ServesWhole(t), Unmoved(t), Held(t), GotOn(t)
    PROVE  ServesWhole(t)'
  <1>0. Wired(t) /\ server[t] \in ServerState
    BY SInvTypes, ServerIs
  <1>1. Lives(t)'
    BY DEF ServesWhole, Lives, Unmoved, SameAt, SameInput, SameBackend, Held
  <1>2. \A c \in server[t].cli : c \in Clients /\ SameGot(c) /\ (client[c].gone => client'[c].gone)
    BY <1>0 DEF Wired, QueueOK, ServerState, GotOn
  <1>3. Taken(t)'
    <2>1. SUFFICES ASSUME server[t].at = "bridge", ~server[t].open, server[t].input,
                          NEW c \in server[t].cli, TakenOf(t, c)
                   PROVE  TakenOf(t, c)'
      BY DEF ServesWhole, Taken, Unmoved, SameAt, SameOpen, SameInput, SameCli
    <2> QED  BY <1>2, <2>1 DEF TakenOf, Unmoved, SameBackend, Held, Serving, SameGot
  <1>4. Unasked(t)'
    <2>1. server[t].at = "bridge" /\ server[t].open =>
              \A c \in server[t].cli : client'[c].got = <<>>
      BY <1>2 DEF ServesWhole, Unasked, SameGot
    <2>2. ASSUME NEW i \in 1..Len(server[t].backlog)
          PROVE  client'[server[t].backlog[i]].got = <<>>
      <3>1. server[t].backlog[i] \in Clients /\ Linked(server[t].backlog[i], t)
        BY <1>0, ElementOfSeq DEF Wired, QueueOK, ServerState
      <3> QED  BY <3>1 DEF ServesWhole, Unasked, GotOn, SameGot
    <2> QED  BY <2>1, <2>2 DEF Unasked, Unmoved, SameAt, SameOpen, SameCli, SameBacklog
  <1>5. Concluded(t)'
    BY <1>2 DEF ServesWhole, Concluded, Unmoved, SameAt, SameCli, Satisfied, SameGot
  <1> QED  BY <1>1, <1>3, <1>4, <1>5 DEF ServesWhole

\* No server moves.
LEMMA QuietWhole ==
    ASSUME SInv, Complete, Servers' = Servers,
           \A t \in Servers : Unmoved(t) /\ Held(t) /\ GotOn(t),
           \A c \in Clients : ClientWhole(c)'
    PROVE  Complete'
  BY ServesElse DEF Complete

\* One server moves.
LEMMA OneWhole ==
    ASSUME SInv, Complete, NEW s \in Servers, OneServer(s), ServesWhole(s)',
           \A t \in Servers \ {s} : Held(t) /\ GotOn(t),
           \A c \in Clients : ClientWhole(c)'
    PROVE  Complete'
  <1>1. Servers' = Servers
    BY DEF OneServer, Servers
  <1>2. ASSUME NEW t \in Servers \ {s} PROVE ServesWhole(t)'
    <2>1. Unmoved(t)
      BY DEF OneServer, Unmoved, SameAt, SameOpen, SameInput, SameBackend, SameCli, SameBacklog
    <2> QED  BY <2>1, ServesElse DEF Complete
  <1> QED  BY <1>1, <1>2 DEF Complete

LEMMA StillUnmoved ==
    ASSUME UNCHANGED server
    PROVE  Servers' = Servers /\ \A t \in Servers : Unmoved(t)
  BY DEF Servers, Unmoved, SameAt, SameOpen, SameInput, SameBackend, SameCli, SameBacklog

LEMMA StillHeld == ASSUME UNCHANGED backend PROVE \A t \in Servers : Held(t)
  BY DEF Held

\* The backend of server s is not another's.
LEMMA HeldElse ==
    ASSUME SInv, NEW s \in Servers, NEW b \in Backends, backend[b].by = s, OneBackend(b)
    PROVE  \A t \in Servers \ {s} : Held(t)
  <1>1. ASSUME NEW t \in Servers \ {s}, server[t].at \in Serving
        PROVE  backend'[server[t].backend] = backend[server[t].backend]
    <2>1. server[t].backend \in Backends /\ backend[server[t].backend].by = t
      BY <1>1, AtWork DEF Serving, Using
    <2> QED  BY <2>1 DEF OneBackend
  <1> QED  BY <1>1 DEF Held

LEMMA StillWhole ==
    ASSUME Complete, UNCHANGED client
    PROVE  (\A t : GotOn(t)) /\ \A c \in Clients : ClientWhole(c)'
  BY DEF Complete, GotOn, SameGot, ClientWhole, Satisfied

LEMMA HangWhole ==
    ASSUME SInv, Complete, NEW C, Hang(C), \A c \in C : Satisfied(c)
    PROVE  (\A t : GotOn(t)) /\ \A c \in Clients : ClientWhole(c)'
  <1>1. \A c \in Clients : /\ SamePlace(c) /\ SameGone(c) /\ SameGot(c)
                           /\ client'[c].hung = (client[c].hung \/ c \in C)
    BY SInvTypes, HangStep
  <1> QED  BY <1>1 DEF Complete, GotOn, SamePlace, SameGone, SameGot, ClientWhole, Satisfied

\* A client goes on by itself.
LEMMA GoesWhole ==
    ASSUME Complete, NEW c \in Clients, OneClient(c), SameGot(c),
           client[c].gone => client'[c].gone, client'[c].hung => client[c].hung,
           client'[c].at \in {"idle", "refused"} => client[c].at \in {"idle", "refused"},
           client'[c].at \in {"done", "failed"} => client[c].got = Whole(c)
    PROVE  (\A t : GotOn(t)) /\ \A d \in Clients : ClientWhole(d)'
  <1>1. \A t : GotOn(t)
    BY DEF GotOn, SameGot, OneClient
  <1>2. ClientWhole(c)'
    BY DEF Complete, ClientWhole, Satisfied, SameGot
  <1>3. ASSUME NEW d \in Clients, d # c PROVE ClientWhole(d)'
    BY <1>3 DEF Complete, ClientWhole, Satisfied, OneClient
  <1> QED  BY <1>1, <1>2, <1>3

LEMMA FilesWhole ==
    ASSUME SInv, Complete, UNCHANGED <<server, backend, client>>
    PROVE  Complete'
  BY StillUnmoved, StillHeld, StillWhole, QuietWhole

\* A kill that finds nobody breaks nothing.
LEMMA KillWhole ==
    ASSUME SInv, Complete, NEW m \in Managers, Kill(m) \/ KillBackend(m), ~broken'
    PROVE  Complete'
  <1>1. CASE Kill(m)
    <2>1. UNCHANGED <<server, backend, client>>
      BY <1>1 DEF Kill, ByManager
    <2> QED  BY <2>1, FilesWhole
  <1>2. CASE KillBackend(m)
    <2>1. UNCHANGED <<server, backend, client>>
      BY <1>2 DEF KillBackend, ByManager
    <2> QED  BY <2>1, FilesWhole
  <1> QED  BY <1>1, <1>2

LEMMA ForkWhole == ASSUME SInv, Complete, NEW m \in Managers, Fork(m) PROVE Complete'
  <1>1. UNCHANGED <<backend, client>>
    BY DEF Fork, ByManager
  <1>2. ASSUME NEW t \in Servers PROVE ServesWhole(t)'
    <2>1. server'[t] = server[t]
      BY ForkIs
    <2>2. Unmoved(t)
      BY <2>1 DEF Unmoved, SameAt, SameOpen, SameInput, SameBackend, SameCli, SameBacklog
    <2>3. ServesWhole(t)
      BY DEF Complete
    <2> QED  BY <1>1, <2>2, <2>3, StillHeld, StillWhole, ServesElse
  <1>3. ASSUME NEW t \in Servers', t = Len(server) + 1 PROVE ServesWhole(t)'
    <2>1. server'[t].at = "forked" /\ server'[t].backlog = <<>>
      BY <1>3, ForkIs DEF NewServer
    <2>2. Len(server'[t].backlog) = 0
      BY <2>1, EmptySeq
    <2> QED
      BY <2>1, <2>2 DEF ServesWhole, Lives, Taken, Unasked, Concluded, Serving
  <1> QED  BY <1>1, <1>2, <1>3, ForkIs, StillWhole DEF Complete

\* The queue of a server that takes none and gives none.
LEMMA QueueWhole ==
    ASSUME SInv, Complete, NEW s \in Servers, SameBacklog(s), UNCHANGED client,
           ~(server'[s].at = "bridge" /\ server'[s].open)
    PROVE  Unasked(s)'
  BY DEF Complete, ServesWhole, Unasked, SameBacklog

LEMMA MoveWhole ==
    ASSUME SInv, Complete, NEW s \in Servers,
           NEW place \in {"bind", "start", "failed", "accept"}, Move(s, place),
           place = "accept" => server[s].at = "note",
           UNCHANGED <<backend, client>>
    PROVE  Complete'
  <1>1. place \in Places
    BY DEF Places
  <1>2. OneServer(s) /\ server'[s].at = place /\ SameBacklog(s) /\ SameInput(s) /\ SameBackend(s)
    BY <1>1, SInvTypes, MoveStep
  <1>3. Unasked(s)'
    BY <1>2, QueueWhole
  <1>4. Lives(s)'
    <2>1. Lives(s)
      BY DEF Complete, ServesWhole
    <2> QED  BY <1>2, <2>1 DEF Lives, Serving, SameInput, SameBackend
  <1>5. ServesWhole(s)'
    BY <1>2, <1>3, <1>4 DEF ServesWhole, Taken, Concluded
  <1> QED  BY <1>2, <1>5, StillHeld, StillWhole, OneWhole

LEMMA ClearWhole == ASSUME SInv, Complete, NEW s \in Servers, Clear(s) PROVE Complete'
  BY MoveWhole DEF Clear, ByServer

LEMMA BindWhole == ASSUME SInv, Complete, NEW s \in Servers, Bind(s) PROVE Complete'
  <1>1. Move(s, "start") \/ Move(s, "failed")
    BY DEF Bind
  <1> QED  BY <1>1, MoveWhole DEF Bind, ByServer

LEMMA NoteWhole == ASSUME SInv, Complete, NEW s \in Servers, Note(s) PROVE Complete'
  BY MoveWhole DEF Note, At, ByServer

LEMMA StartWhole == ASSUME SInv, Complete, NEW s \in Servers, Start(s) PROVE Complete'
  <1>1. /\ OneServer(s) /\ server'[s].at = "note" /\ server'[s].backend = Len(backend) + 1
        /\ SameBacklog(s)
        /\ \A b \in Backends : backend'[b] = backend[b]
        /\ backend'[Len(backend) + 1] = NewBackend(s)
    BY SInvTypes, StartStep
  <1>2. UNCHANGED client
    BY DEF Start
  <1>3. ServesWhole(s)'
    <2>1. Unasked(s)'
      BY <1>1, <1>2, QueueWhole
    <2>2. Lives(s)'
      BY <1>1 DEF Lives, NewBackend
    <2> QED  BY <1>1, <2>1, <2>2 DEF ServesWhole, Taken, Concluded
  <1>4. \A t \in Servers : Held(t)
    <2>1. ASSUME NEW t \in Servers, server[t].at \in Serving
          PROVE  backend'[server[t].backend] = backend[server[t].backend]
      BY <1>1, <2>1, AtWork DEF Serving, Using
    <2> QED  BY <2>1 DEF Held
  <1> QED  BY <1>1, <1>2, <1>3, <1>4, StillWhole, OneWhole

LEMMA AcceptWhole == ASSUME SInv, Complete, NEW s \in Servers, Accept(s) PROVE Complete'
  <1> DEFINE q == server[s].backlog
  <1>1. /\ q \in Seq(Clients) /\ q # <<>>
        /\ OneServer(s) /\ server'[s].at = "bridge" /\ server'[s].cli = {Head(q)}
        /\ server'[s].backlog = Tail(q) /\ server'[s].open = TRUE
        /\ SameBackend(s) /\ SameInput(s)
    BY SInvTypes, AcceptStep
  <1>2. UNCHANGED <<backend, client>> /\ server[s].at = "accept"
    BY DEF Accept, At
  <1>3. /\ Head(q) = q[1] /\ Len(q) \in Nat /\ Len(q) > 0 /\ Len(Tail(q)) = Len(q) - 1
        /\ \A i \in 1..Len(q) - 1 : Tail(q)[i] = q[i + 1]
    BY <1>1, TailAt
  <1>4. \A i \in 1..Len(q) : client[q[i]].got = <<>>
    BY DEF Complete, ServesWhole, Unasked
  <1> HIDE DEF q
  <1>5. Unasked(s)'
    <2>1. client[Head(q)].got = <<>>
      <3>1. 1 \in 1..Len(q)
        BY <1>3
      <3> QED  BY <1>3, <1>4, <3>1
    <2>2. ASSUME NEW i \in 1..Len(Tail(q)) PROVE client[Tail(q)[i]].got = <<>>
      <3>1. i + 1 \in 1..Len(q) /\ i \in 1..Len(q) - 1
        BY <1>3
      <3> QED  BY <1>3, <1>4, <3>1
    <2> QED  BY <1>1, <1>2, <2>1, <2>2 DEF Unasked
  <1>6. Lives(s)'
    <2>1. Lives(s)
      BY DEF Complete, ServesWhole
    <2> QED  BY <1>1, <1>2, <2>1 DEF Lives, Serving, SameInput, SameBackend
  <1>7. ServesWhole(s)'
    BY <1>1, <1>5, <1>6 DEF ServesWhole, Taken, Concluded
  <1> QED  BY <1>1, <1>2, <1>7, StillHeld, StillWhole, OneWhole

LEMMA ReadRequestWhole == ASSUME SInv, Own, Complete, NEW s \in Servers, ReadRequest(s) PROVE Complete'
  <1>0. /\ server[s].at = "bridge" /\ server[s].open /\ UNCHANGED client
    BY DEF ReadRequest, Bridging, At
  <1> DEFINE b == server[s].backend
  <1>1. PICK c \in Clients : c = Cli(s)
    BY <1>0, BridgeIs
  <1> DEFINE q == Append(backend[b].asked, c)
  <1>2. /\ b \in Backends /\ backend[b].by = s /\ server[s].cli = {c}
        /\ server[s].input /\ Clean(s)
    BY <1>0, <1>1, BridgeIs, AtWork DEF Using
  <1>3. backend[b].alive /\ client[c].got = <<>> /\ Lives(s)
    BY <1>0, <1>2 DEF Complete, ServesWhole, Lives, Unasked, Serving
  <1>4. backend' = [backend EXCEPT ![b].asked = q] /\ server' = [server EXCEPT ![s].open = FALSE]
    BY <1>1, <1>3 DEF ReadRequest
  <1>5. q = <<c>> /\ q \in Seq(Clients)
    <2>1. backend[b].asked = <<>>
      BY <1>2, <1>3 DEF Clean
    <2>2. <<c>> \in Seq(Clients)
      BY <1>2, OneIs
    <2> QED  BY <2>1, <2>2, AppendOne
  <1> HIDE DEF q
  <1>6. OneBackend(b) /\ backend'[b].asked = q /\ backend'[b].alive = backend[b].alive
    BY <1>2, <1>4, <1>5, SInvTypes, AskStep
  <1>7. /\ OneServer(s) /\ server'[s].open = FALSE
        /\ SameAt(s) /\ SameBackend(s) /\ SameCli(s) /\ SameInput(s) /\ SameBacklog(s)
    BY <1>4, SInvTypes, OpenStep
  <1>8. ServesWhole(s)'
    <2>1. Unasked(s)'
      BY <1>0, <1>7, QueueWhole
    <2>2. server'[s].backend = b /\ server'[s].cli = {c} /\ server'[s].at = "bridge"
      BY <1>0, <1>2, <1>7 DEF SameBackend, SameCli, SameAt
    <2>3. Lives(s)'
      BY <1>3, <1>6, <2>2 DEF Lives
    <2>4. TakenOf(s, c)'
      BY <1>0, <1>3, <1>5, <1>6, <2>2 DEF TakenOf
    <2>5. ASSUME NEW d \in server'[s].cli PROVE TakenOf(s, d)'
      <3>1. d = c
        BY <2>2
      <3> QED  BY <2>4, <3>1 DEF TakenOf
    <2> QED  BY <2>1, <2>2, <2>3, <2>5 DEF ServesWhole, Taken, Concluded
  <1>9. \A t \in Servers \ {s} : Held(t)
    BY <1>2, <1>6, HeldElse
  <1> QED  BY <1>0, <1>7, <1>8, <1>9, StillWhole, OneWhole

LEMMA ReadEndWhole == ASSUME SInv, Own, Complete, NEW s \in Servers, ReadEnd(s) PROVE Complete'
  <1> DEFINE b == server[s].backend
             c == Cli(s)
  <1>1. /\ server[s].at = "bridge" /\ server[s].open /\ UNCHANGED client
        /\ server' = [server EXCEPT ![s].open = FALSE, ![s].input = FALSE]
    BY DEF ReadEnd, Bridging, At
  <1>2. b \in Backends /\ backend[b].by = s /\ c \in Clients
    BY <1>1, AtWork DEF Using
  <1>3. PICK q \in {backend[b].asked, Append(backend[b].asked, c)} :
            backend' = [backend EXCEPT ![b] = [@ EXCEPT !.input = FALSE, !.asked = q]]
    BY DEF ReadEnd
  <1>4. backend[b].asked \in Seq(Clients)
    BY <1>2, SInvTypes, BackendIs DEF BackendState
  <1>5. q \in Seq(Clients)
    <2>1. Append(backend[b].asked, c) \in Seq(Clients)
      BY <1>2, <1>4, AppendProperties
    <2> QED  BY <1>3, <1>4, <2>1
  <1>6. OneBackend(b)
    BY <1>2, <1>3, <1>5, SInvTypes, EndInputStep
  <1>7. /\ OneServer(s) /\ server'[s].open = FALSE /\ server'[s].input = FALSE
        /\ SameAt(s) /\ SameBacklog(s)
    BY <1>1, SInvTypes, ShutInputStep
  <1>8. ServesWhole(s)'
    <2>1. Unasked(s)'
      BY <1>1, <1>7, QueueWhole
    <2> QED
      BY <1>1, <1>7, <2>1 DEF ServesWhole, Lives, Taken, Concluded, SameAt
  <1>9. \A t \in Servers \ {s} : Held(t)
    BY <1>2, <1>6, HeldElse
  <1> QED  BY <1>1, <1>7, <1>8, <1>9, StillWhole, OneWhole

\* The connections of other servers' clients are theirs.
LEMMA GotElse ==
    ASSUME SInv, NEW s \in Servers, NEW c \in Clients, Linked(c, s), OneClient(c),
           NEW t \in Servers \ {s}
    PROVE  GotOn(t)
  BY DEF GotOn, Linked, OneClient, SameGot

LEMMA RelayWhole == ASSUME SInv, Own, Complete, NEW s \in Servers, Relay(s) PROVE Complete'
  <1> DEFINE b == server[s].backend
             out == backend[b].out
  <1>1. server[s].at = "bridge"
    BY DEF Relay, Bridging, At
  <1>0. PICK c \in Clients : c = Cli(s)
    BY <1>1, BridgeIs
  <1>2. /\ b \in Backends /\ server[s].cli = {c} /\ backend[b].by = s
        /\ server[s].open => Clean(s)
        /\ ~server[s].open => TurnOf(s, c)
    BY <1>0, <1>1, BridgeIs, AtWork DEF Using
  <1>3. PICK n \in 1..Len(out) : \E k \in 1..n :
          /\ Through(out, n, k) /\ Drop(b, n) /\ Deliver(c, SubSeq(out, 1, k))
          /\ IF client[c].gone \/ out[k].last THEN Over(s) ELSE UNCHANGED server
    BY <1>0 DEF Relay
  <1>a. PICK k \in 1..n :
          /\ Through(out, n, k) /\ Drop(b, n) /\ Deliver(c, SubSeq(out, 1, k))
          /\ IF client[c].gone \/ out[k].last THEN Over(s) ELSE UNCHANGED server
    BY <1>3
  <1> DEFINE p == SubSeq(out, 1, k)
             rest == SubSeq(out, n + 1, Len(out))
  <1>4. /\ Drop(b, n) /\ Deliver(c, p)
        /\ IF client[c].gone \/ out[k].last THEN Over(s) ELSE UNCHANGED server
    BY <1>a
  <1>5. /\ OneBackend(b) /\ backend'[b].alive = backend[b].alive
        /\ backend'[b].asked = backend[b].asked /\ backend'[b].out = rest
    BY <1>2, <1>3, <1>4, DropIs
  <1>6. out # <<>>
    BY <1>3, EmptySeq
  <1>7. ~server[s].open /\ TurnOf(s, c)
    BY <1>2, <1>6 DEF Clean
  <1>8. \/ out = Whole(c) /\ p = First(c) /\ rest = Second(c) /\ ~out[k].last
        \/ out = Whole(c) /\ p = Whole(c) /\ rest = <<>> /\ out[k].last
        \/ out = Second(c) /\ p = Second(c) /\ rest = <<>> /\ out[k].last
    <2>1. out \in Rests(c)
      BY <1>7 DEF TurnOf
    <2> QED  BY <1>3, <1>a, <2>1, ReadIs
  <1>10. /\ OneClient(c) /\ SamePlace(c) /\ SameGone(c) /\ SameHung(c)
         /\ client'[c].got = IF client[c].gone THEN client[c].got ELSE client[c].got \o p
    BY <1>2, <1>4, SInvTypes, DeliverStep
  <1>20. Lives(s) /\ Taken(s) /\ Wired(s) /\ ClientWhole(c) /\ ClientOwn(c)
    BY SInvTypes DEF Complete, ServesWhole, Own
  <1> HIDE DEF p, rest, out
  \* What the client has got before and after.
  <1>11. ASSUME ~client[c].gone
         PROVE  /\ server[s].input /\ backend[b].asked = <<>>
                /\ \/ /\ client[c].got = <<>> /\ rest = Second(c) /\ client'[c].got = First(c)
                      /\ ~out[k].last
                   \/ /\ client[c].got \in {<<>>, First(c)} /\ client'[c].got = Whole(c)
                      /\ out[k].last
    <2>1. server[s].input /\ backend[b].alive
      BY <1>1, <1>7, <1>11, <1>20 DEF TurnOf, Lives, Serving
    <2>2. backend[b].asked = <<>>
      BY <1>6, <1>7, <2>1 DEF TurnOf, out
    <2>3. <<c>> # <<>>
      BY OneIs
    <2>4. \/ out = Whole(c) /\ client[c].got = <<>>
          \/ out = Second(c) /\ client[c].got = First(c)
      BY <1>1, <1>2, <1>7, <1>20, <2>1, <2>2, <2>3 DEF Taken, TakenOf, out
    <2>5. client'[c].got = client[c].got \o p
      BY <1>10, <1>11
    <2> QED  BY <1>8, <2>1, <2>2, <2>4, <2>5, Halves, Differ
  <1>12. \A d \in Clients : ClientWhole(d)'
    <2>1. ASSUME NEW d \in Clients, d # c PROVE ClientWhole(d)'
      BY <1>10, <2>1 DEF Complete, ClientWhole, Satisfied, OneClient
    <2>2. CASE client[c].gone
      <3>1. ClientWhole(c)'
        BY <1>10, <1>20, <2>2 DEF ClientWhole, Satisfied, SamePlace, SameGone, SameHung
      <3> QED  BY <2>1, <3>1
    <2>3. CASE ~client[c].gone
      <3>1. client[c].got # Whole(c)
        BY <1>11, <2>3, WholeIs, Differ
      <3>2. ~client[c].hung /\ client[c].at \notin {"done", "failed"}
        BY <1>20, <2>3, <3>1 DEF ClientWhole, Satisfied
      <3>3. client[c].at \notin {"idle", "refused"}
        BY <1>2, <1>20 DEF Wired, QueueOK, Linked
      <3>4. client'[c].got \in {First(c), Whole(c)}
        BY <1>11, <2>3
      <3>5. ClientWhole(c)'
        BY <1>10, <3>2, <3>3, <3>4 DEF ClientWhole, SamePlace, SameHung
      <3> QED  BY <2>1, <3>5
    <2> QED  BY <2>2, <2>3
  <1>13. \A t \in Servers \ {s} : Held(t) /\ GotOn(t)
    <2>1. Linked(c, s)
      BY <1>2, <1>20 DEF Wired, QueueOK
    <2> QED  BY <1>2, <1>5, <1>10, <2>1, HeldElse, GotElse
  <1>14. /\ OneServer(s) /\ SameBackend(s) /\ SameInput(s) /\ SameOpen(s) /\ SameBacklog(s)
         /\ SameCli(s)
         /\ IF client[c].gone \/ out[k].last THEN server'[s].at = "over"
            ELSE server'[s].at = "bridge"
    BY <1>1, <1>4, SInvTypes, MoveStep, ServerStays DEF Over, Places, SameAt
  <1>15. Unasked(s)'
    <2>1. \A i \in 1..Len(server[s].backlog) :
            server[s].backlog[i] \in Clients \ {c} /\ client[server[s].backlog[i]].got = <<>>
      <3>1. server[s] \in ServerState
        BY SInvTypes, ServerIs
      <3> QED
        BY <1>2, <1>20, <3>1, ElementOfSeq
           DEF Wired, QueueOK, ServerState, Complete, ServesWhole, Unasked
    <2>2. \A i \in 1..Len(server[s].backlog) : client'[server[s].backlog[i]].got = <<>>
      BY <1>10, <2>1 DEF OneClient
    <2> QED  BY <1>7, <1>14, <2>2 DEF Unasked, SameOpen, SameBacklog
  <1>16. Lives(s)'
    BY <1>1, <1>5, <1>14, <1>20 DEF Lives, Serving, SameInput, SameBackend
  <1>17. server'[s].cli = {c} /\ server'[s].backend = b
    BY <1>2, <1>14 DEF SameCli, SameBackend
  <1>18. CASE client[c].gone \/ out[k].last
    <2>1. Satisfied(c)'
      BY <1>10, <1>11, <1>18 DEF Satisfied, SameGone
    <2>2. ASSUME NEW d \in server'[s].cli PROVE Satisfied(d)'
      <3>1. d = c
        BY <1>17
      <3> QED  BY <2>1, <3>1 DEF Satisfied
    <2>3. ServesWhole(s)'
      BY <1>14, <1>15, <1>16, <1>18, <2>2 DEF ServesWhole, Taken, Concluded
    <2> QED  BY <1>12, <1>13, <1>14, <2>3, OneWhole
  <1>19. CASE ~(client[c].gone \/ out[k].last)
    <2>1. TakenOf(s, c)'
      BY <1>5, <1>11, <1>17, <1>19 DEF TakenOf
    <2>2. ASSUME NEW d \in server'[s].cli PROVE TakenOf(s, d)'
      <3>1. d = c
        BY <1>17
      <3> QED  BY <2>1, <3>1 DEF TakenOf
    <2>3. ServesWhole(s)'
      BY <1>14, <1>15, <1>16, <1>19, <2>2 DEF ServesWhole, Taken, Concluded
    <2> QED  BY <1>12, <1>13, <1>14, <2>3, OneWhole
  <1> QED  BY <1>18, <1>19

LEMMA RelayEndWhole == ASSUME SInv, Own, Complete, NEW s \in Servers, RelayEnd(s) PROVE Complete'
  <1>1. /\ server[s].at = "bridge" /\ ~backend[server[s].backend].alive
        /\ UNCHANGED <<backend, client>> /\ Move(s, "over")
    BY DEF RelayEnd, Bridging, At, Over
  <1>2. /\ OneServer(s) /\ server'[s].at = "over" /\ SameBackend(s) /\ SameInput(s)
        /\ SameBacklog(s) /\ SameCli(s)
    BY <1>1, SInvTypes, MoveStep DEF Places
  <1>3. PICK c \in Clients : c = Cli(s) /\ server[s].cli = {c}
    BY <1>1, BridgeIs
  <1>4. ~server[s].input
    BY <1>1 DEF Complete, ServesWhole, Lives, Serving
  <1>5. client[c].gone
    BY <1>1, <1>3, <1>4, BridgeIs DEF TurnOf
  <1>6. Unasked(s)'
    BY <1>1, <1>2, QueueWhole
  <1>7. Concluded(s)'
    BY <1>1, <1>2, <1>3, <1>5 DEF Concluded, Satisfied, SameCli
  <1>8. ServesWhole(s)'
    BY <1>2, <1>4, <1>6, <1>7 DEF ServesWhole, Lives, Taken, SameInput
  <1> QED  BY <1>1, <1>2, <1>8, StillHeld, StillWhole, OneWhole

LEMMA CloseClientWhole ==
    ASSUME SInv, Complete, NEW s \in Servers, CloseClient(s)
    PROVE  Complete'
  <1>1. PICK alive : server' = [server EXCEPT ![s].cli = {},
                        ![s].at = IF server[s].input /\ alive THEN "accept" ELSE "stop"]
    BY DEF CloseClient
  <1> DEFINE place == IF server[s].input /\ alive THEN "accept" ELSE "stop"
  <1>2. place \in {"accept", "stop"}
        /\ server' = [server EXCEPT ![s].cli = {}, ![s].at = place]
    BY <1>1
  <1> HIDE DEF place
  <1>3. place \in Places
    BY <1>2 DEF Places
  <1>4. OneServer(s) /\ server'[s].at = place /\ SameBackend(s) /\ SameInput(s) /\ SameBacklog(s)
    BY <1>2, <1>3, SInvTypes, HangUpStep
  <1>5. UNCHANGED backend /\ Hang(server[s].cli) /\ server[s].at = "over"
    BY DEF CloseClient, At
  <1>6. (\A t : GotOn(t)) /\ \A c \in Clients : ClientWhole(c)'
    <2>1. \A c \in server[s].cli : Satisfied(c)
      BY <1>5 DEF Complete, ServesWhole, Concluded
    <2> QED  BY <1>5, <2>1, HangWhole
  <1>7. Unasked(s)'
    <2>1. GotOn(s) /\ Wired(s) /\ server[s] \in ServerState
      BY <1>6, SInvTypes, ServerIs
    <2>2. ASSUME NEW i \in 1..Len(server[s].backlog)
          PROVE  client'[server[s].backlog[i]].got = <<>>
      <3>1. server[s].backlog[i] \in Clients /\ Linked(server[s].backlog[i], s)
        BY <2>1, ElementOfSeq DEF Wired, QueueOK, ServerState
      <3> QED  BY <2>1, <3>1 DEF Complete, ServesWhole, Unasked, GotOn, SameGot
    <2> QED  BY <1>2, <1>4, <2>2 DEF Unasked, SameBacklog
  <1>8. Lives(s)'
    BY <1>4, <1>5 DEF Complete, ServesWhole, Lives, Serving, SameInput, SameBackend
  <1>9. ServesWhole(s)'
    BY <1>2, <1>4, <1>7, <1>8 DEF ServesWhole, Taken, Concluded
  <1> QED  BY <1>4, <1>5, <1>6, <1>9, StillHeld, OneWhole

LEMMA StopBackendWhole ==
    ASSUME SInv, Complete, NEW s \in Servers, StopBackend(s)
    PROVE  Complete'
  <1> DEFINE b == server[s].backend
  <1>1. b \in Backends /\ backend[b].by = s
    BY AtWork DEF StopBackend, At, Using
  <1>2. OneBackend(b)
    BY <1>1, SInvTypes, ShutStep DEF StopBackend
  <1>3. OneServer(s) /\ server'[s].at = "start" /\ SameBacklog(s)
    BY SInvTypes, MoveStep DEF StopBackend, Places
  <1>4. UNCHANGED client
    BY DEF StopBackend
  <1>5. ServesWhole(s)'
    BY <1>3, <1>4, QueueWhole DEF ServesWhole, Lives, Taken, Concluded, Serving
  <1>6. \A t \in Servers \ {s} : Held(t)
    BY <1>1, <1>2, HeldElse
  <1> QED  BY <1>3, <1>4, <1>5, <1>6, StillWhole, OneWhole

\* No server dies before something is broken.
LEMMA NoDeath == ASSUME SInv, ~broken, NEW s \in Servers PROVE ~ServerDies(s)
  BY SInvTypes DEF Wired, DeadOK, ServerDies, Doomed

\* A server that has a queue listens.
LEMMA NoReset == ASSUME SInv, ~broken, NEW s \in Servers PROVE ~Reset(s)
  BY SInvTypes DEF Wired, DeadOK, UnboundOK, Unbound, Reset, Listening, Live

LEMMA AnswerWholly == ASSUME SInv, Own, Complete, NEW b \in Backends, Answer(b) PROVE Complete'
  <1>1. /\ backend[b].alive /\ backend[b].asked # <<>> /\ OneBackend(b)
        /\ backend'[b].alive = backend[b].alive
        /\ backend'[b].asked = Tail(backend[b].asked)
        /\ backend'[b].out = backend[b].out \o Whole(Head(backend[b].asked))
    BY AnswerIs
  <1>2. UNCHANGED <<server, client>>
    BY DEF Answer, ByBackend
  <1>3. (\A t : GotOn(t)) /\ \A c \in Clients : ClientWhole(c)'
    BY <1>2, StillWhole
  <1>4. Servers' = Servers /\ \A t \in Servers : Unmoved(t)
    BY <1>2, StillUnmoved
  <1>5. ASSUME NEW t \in Servers PROVE ServesWhole(t)'
    <2>1. Unmoved(t) /\ GotOn(t) /\ ServesWhole(t) /\ Turn(t)
      BY <1>3, <1>4 DEF Complete, Own
    <2>2. CASE server[t].at \notin Using \/ server[t].backend # b
      <3>1. ASSUME server[t].at \in Serving
            PROVE  backend'[server[t].backend] = backend[server[t].backend]
        BY <1>1, <2>2, <3>1, AtWork DEF OneBackend, Serving, Using
      <3>2. Held(t)
        BY <3>1 DEF Held
      <3> QED  BY <2>1, <3>2, ServesElse
    <2>3. CASE server[t].backend = b
      <3>1. server'[t].backend = b
        BY <2>1, <2>3 DEF Unmoved, SameBackend
      <3>2. Lives(t)' /\ Unasked(t)' /\ Concluded(t)'
        BY <1>1, <1>2, <2>1, <2>3 DEF ServesWhole, Lives, Unasked, Concluded, Satisfied
      <3>3. Taken(t)'
        <4>1. SUFFICES ASSUME server[t].at = "bridge", ~server[t].open, server[t].input,
                              NEW c \in server[t].cli, TakenOf(t, c), TurnOf(t, c)
                       PROVE  TakenOf(t, c)'
          BY <2>1 DEF ServesWhole, Taken, Turn, Unmoved, SameAt, SameOpen, SameInput, SameCli
        <4>2. backend[b].asked = <<c>> /\ backend[b].out = <<>> /\ client[c].got = <<>>
          BY <1>1, <2>3, <4>1 DEF TurnOf, TakenOf
        <4>3. Head(<<c>>) = c /\ Tail(<<c>>) = <<>> /\ <<>> \o Whole(c) = Whole(c)
          <5>1. Head(<<c>>) = c /\ Tail(<<c>>) = <<>>
            OBVIOUS
          <5> QED  BY <5>1, Halves
        <4>4. backend'[b].asked = <<>> /\ backend'[b].out = Whole(c)
          BY <1>1, <4>2, <4>3
        <4> QED  BY <1>2, <3>1, <4>2, <4>4 DEF TakenOf
      <3> QED  BY <3>2, <3>3 DEF ServesWhole
    <2> QED  BY <2>2, <2>3
  <1> QED  BY <1>3, <1>4, <1>5 DEF Complete

\* A backend ends of itself only once its input is closed.
LEMMA EndOfInputWhole ==
    ASSUME SInv, Complete, NEW b \in Backends, EndOfInput(b)
    PROVE  Complete'
  <1>1. /\ backend' = [backend EXCEPT ![b].alive = FALSE] /\ ~HasInput(b)
        /\ UNCHANGED <<server, client>>
    BY DEF EndOfInput, ByBackend
  <1>2. /\ OneBackend(b) /\ backend'[b].alive = FALSE
        /\ backend'[b].asked = backend[b].asked /\ backend'[b].out = backend[b].out
    BY <1>1, SInvTypes, ShutStep
  <1>3. ASSUME NEW t \in Servers PROVE Held(t)
    <2>1. SUFFICES ASSUME server[t].at \in Serving PROVE Held(t)
      BY DEF Held
    <2>2. /\ server[t].backend \in Backends /\ backend[server[t].backend].by = t
          /\ backend[server[t].backend].input = server[t].input
      BY <2>1, AtWork DEF BackendOK, Serving, Using
    <2>3. CASE server[t].backend # b
      BY <1>2, <2>2, <2>3 DEF Held, OneBackend
    <2>4. CASE server[t].backend = b
      <3>1. Live(t)
        BY <2>1 DEF Live, Serving
      <3>2. ~server[t].input
        BY <1>1, <2>2, <2>4, <3>1 DEF HasInput
      <3> QED  BY <1>2, <2>4, <3>2 DEF Held
    <2> QED  BY <2>3, <2>4
  <1> QED  BY <1>1, <1>3, StillUnmoved, StillWhole, QuietWhole

LEMMA ConnectWhole == ASSUME SInv, Complete, NEW c \in Clients, Connect(c) PROVE Complete'
  <1>1. client[c].at = "idle" /\ UNCHANGED backend
    BY DEF Connect, ByClient
  <1>2. client[c].got = <<>> /\ ~Linked(c, sock)
    BY <1>1 DEF Complete, ClientWhole, Linked
  <1>3. CASE sock # 0 /\ Listening(sock)
    <2> DEFINE q == server[sock].backlog
    <2>1. /\ sock \in Servers /\ q \in Seq(Clients) /\ OneServer(sock)
          /\ server'[sock].backlog = Append(q, c)
          /\ SameCli(sock) /\ SameBackend(sock) /\ SameInput(sock) /\ SameOpen(sock) /\ SameAt(sock)
          /\ OneClient(c) /\ client'[c].at = "linked" /\ SameGone(c) /\ SameGot(c) /\ SameHung(c)
      BY <1>3, LinkIs
    <2>2. (\A t : GotOn(t)) /\ \A d \in Clients : ClientWhole(d)'
      BY <1>1, <2>1, GoesWhole DEF SameGone, SameHung
    <2>3. \A t \in Servers : Held(t)
      BY <1>1, StillHeld
    <2>4. PICK s \in Servers : s = sock
      BY <2>1
    <2>5. /\ Wired(s) /\ ServesWhole(s) /\ server[s] \in ServerState
          /\ \A d \in Clients : client'[d].got = client[d].got
          /\ \A d \in Clients : client[d].gone => client'[d].gone
      BY <2>1, SInvTypes, ServerIs DEF Complete, OneClient, SameGot, SameGone
    <2>6. ServesWhole(s)'
      <3>1. \A d \in server[s].cli : d \in Clients
        BY <2>5 DEF ServerState
      <3>2. Lives(s)'
        BY <1>1, <2>1, <2>4, <2>5 DEF ServesWhole, Lives, SameAt, SameInput, SameBackend
      <3>3. Taken(s)'
        BY <1>1, <2>1, <2>4, <2>5, <3>1
           DEF ServesWhole, Taken, TakenOf, SameAt, SameOpen, SameInput, SameCli, SameBackend
      <3>4. Concluded(s)'
        BY <2>1, <2>4, <2>5, <3>1 DEF ServesWhole, Concluded, Satisfied, SameAt, SameCli
      <3>5. Unasked(s)'
        <4>1. ASSUME NEW i \in 1..Len(Append(q, c)) PROVE client'[Append(q, c)[i]].got = <<>>
          <5>1. /\ Len(q) \in Nat /\ Len(Append(q, c)) = Len(q) + 1
                /\ \A j \in 1..Len(q) : Append(q, c)[j] = q[j]
                /\ Append(q, c)[Len(q) + 1] = c
            BY <2>1, AppendProperties
          <5>2. CASE i \in 1..Len(q)
            <6>1. q[i] \in Clients /\ client[q[i]].got = <<>>
              BY <2>1, <2>4, <2>5, <5>2, ElementOfSeq DEF ServesWhole, Unasked
            <6> QED  BY <2>5, <5>1, <5>2, <6>1
          <5>3. CASE i = Len(q) + 1
            BY <1>2, <2>5, <5>1, <5>3
          <5> QED  BY <5>1, <5>2, <5>3
        <4>2. server'[s].at = "bridge" /\ server'[s].open =>
                  \A d \in server'[s].cli : client'[d].got = <<>>
          BY <2>1, <2>4, <2>5, <3>1 DEF ServesWhole, Unasked, SameAt, SameOpen, SameCli
        <4> QED  BY <2>1, <2>4, <4>1, <4>2 DEF Unasked
      <3> QED  BY <3>2, <3>3, <3>4, <3>5 DEF ServesWhole
    <2> QED  BY <2>1, <2>2, <2>3, <2>4, <2>6, OneWhole
  <1>4. CASE ~(sock # 0 /\ Listening(sock))
    <2>1. client' = [client EXCEPT ![c].at = "refused"] /\ UNCHANGED server
      BY <1>4 DEF Connect
    <2>2. OneClient(c) /\ client'[c].at = "refused" /\ SameGone(c) /\ SameGot(c) /\ SameHung(c)
      BY <2>1, SInvTypes, PlaceStep DEF ClientPlaces
    <2>3. (\A t : GotOn(t)) /\ \A d \in Clients : ClientWhole(d)'
      BY <1>1, <2>2, GoesWhole DEF SameGone, SameHung
    <2> QED  BY <1>1, <2>1, <2>3, StillUnmoved, StillHeld, QuietWhole
  <1> QED  BY <1>3, <1>4

LEMMA PlaceWhole ==
    ASSUME SInv, Complete, NEW c \in Clients, NEW at \in ClientPlaces \ {"idle", "refused"},
           client' = [client EXCEPT ![c].at = at], UNCHANGED <<server, backend>>,
           at \in {"done", "failed"} => client[c].got = Whole(c)
    PROVE  Complete'
  <1>1. OneClient(c) /\ client'[c].at = at /\ SameGone(c) /\ SameGot(c) /\ SameHung(c)
    BY SInvTypes, PlaceStep
  <1>2. (\A t : GotOn(t)) /\ \A d \in Clients : ClientWhole(d)'
    BY <1>1, GoesWhole DEF SameGone, SameHung
  <1> QED  BY <1>2, StillUnmoved, StillHeld, QuietWhole

LEMMA AskWhole == ASSUME SInv, Complete, NEW c \in Clients, Ask(c) PROVE Complete'
  <1> DEFINE at == IF client[c].hung THEN "failed" ELSE "asked"
  <1>1. client' = [client EXCEPT ![c].at = at] /\ at \in ClientPlaces \ {"idle", "refused"}
    BY DEF Ask, ClientPlaces
  <1>2. at \in {"done", "failed"} => client[c].got = Whole(c)
    BY DEF Ask, Complete, ClientWhole, Satisfied
  <1> HIDE DEF at
  <1> QED  BY <1>1, <1>2, PlaceWhole DEF Ask, ByClient

LEMMA FinishWhole == ASSUME SInv, Complete, NEW c \in Clients, Finish(c) PROVE Complete'
  <1>1. PICK at \in {"done", "failed"} : client' = [client EXCEPT ![c].at = at]
    BY DEF Finish
  <1>2. at \in ClientPlaces \ {"idle", "refused"}
    BY DEF ClientPlaces
  <1>3. client[c].got = Whole(c)
    <2>1. client[c].hung => client[c].got = Whole(c)
      BY DEF Finish, Complete, ClientWhole, Satisfied
    <2>2. Ended(c) => client[c].got \notin {<<>>, First(c)}
      <3>1. ~ \E i \in DOMAIN <<>> : <<>>[i].last
        OBVIOUS
      <3>2. ~ \E i \in DOMAIN First(c) : First(c)[i].last
        <4>1. /\ First(c) \in Seq(PiecesOf(c)) /\ Len(First(c)) = 1
              /\ First(c)[1] = Piece(c, FALSE) /\ Piece(c, FALSE).last = FALSE
          BY FirstIs, PieceIs
        <4>2. DOMAIN First(c) = 1..1
          BY <4>1, LenProperties
        <4>3. \A i \in 1..1 : i = 1
          OBVIOUS
        <4> QED  BY <4>1, <4>2, <4>3
      <3> QED  BY <3>1, <3>2 DEF Ended
    <2> QED  BY <2>1, <2>2 DEF Finish, Complete, ClientWhole
  <1> QED  BY <1>1, <1>2, <1>3, PlaceWhole DEF Finish, ByClient

LEMMA VanishWhole == ASSUME SInv, Complete, NEW c \in Clients, Vanish(c) PROVE Complete'
  <1>1. client' = [client EXCEPT ![c].gone = TRUE] /\ UNCHANGED <<server, backend>>
        /\ client[c].at \in {"linked", "asked"}
    BY DEF Vanish, ByClient
  <1>2. OneClient(c) /\ client'[c].gone = TRUE /\ SamePlace(c) /\ SameGot(c) /\ SameHung(c)
    BY <1>1, SInvTypes, GoneStep
  <1>3. (\A t : GotOn(t)) /\ \A d \in Clients : ClientWhole(d)'
    BY <1>1, <1>2, GoesWhole DEF SamePlace, SameHung
  <1> QED  BY <1>1, <1>3, StillUnmoved, StillHeld, QuietWhole

LEMMA ManageWhole ==
    ASSUME SInv, Complete, NEW m \in Managers, Manage(m), ~broken'
    PROVE  Complete'
  <1>1. CASE Kill(m) \/ KillBackend(m) \/ Fork(m)
    BY <1>1, KillWhole, ForkWhole
  <1>2. CASE ~(Kill(m) \/ KillBackend(m) \/ Fork(m))
    <2>1. UNCHANGED <<server, backend, client>>
      BY <1>2 DEF Manage, Begin, Unlink, ForgetBackend, Forget, Ready, Register, Configure,
                  Unconfigure, ManagerDies, ByManager, files
    <2> QED  BY <2>1, FilesWhole
  <1> QED  BY <1>1, <1>2

\* What is broken stays so.
LEMMA BrokenStays == ASSUME SInv, [Next]_vars, ~broken' PROVE ~broken
  BY DEF Next, Manage, Begin, Kill, Unlink, KillBackend, ForgetBackend, Forget, Fork, Ready,
         Register, Configure, Unconfigure, ManagerDies, ByManager, Serve, ByServer, Clear, Bind,
         Start, Note, Accept, ReadRequest, ReadEnd, Relay, RelayEnd, CloseClient, StopBackend,
         ServerDies, Reset, ByClient, Answer, EndOfInput, BackendFails, ByBackend, Connect, Ask,
         Finish, Vanish, vars, history

LEMMA StepWhole == ASSUME SInv, AInv, WInv, [Next]_vars PROVE WInv'
  <1> SUFFICES ASSUME ~broken', ~broken, ~deserted, Own, Complete PROVE Complete'
    BY BrokenStays, DesertedStays DEF WInv, AInv
  <1>1. ASSUME NEW s \in Servers, Serve(s) \/ ServerDies(s) \/ Reset(s) PROVE Complete'
    BY <1>1, ClearWhole, BindWhole, StartWhole, NoteWhole, AcceptWhole, ReadRequestWhole,
       ReadEndWhole, RelayWhole, RelayEndWhole, CloseClientWhole, StopBackendWhole, NoDeath,
       NoReset DEF Serve
  <1>2. ASSUME NEW b \in Backends, Answer(b) \/ EndOfInput(b) \/ BackendFails(b) PROVE Complete'
    BY <1>2, AnswerWholly, EndOfInputWhole DEF BackendFails
  <1>3. ASSUME NEW c \in Clients, Connect(c) \/ Ask(c) \/ Finish(c) \/ Vanish(c) PROVE Complete'
    BY <1>3, ConnectWhole, AskWhole, FinishWhole, VanishWhole
  <1>4. CASE UNCHANGED vars
    BY <1>4, FilesWhole DEF vars
  <1> QED  BY <1>1, <1>2, <1>3, <1>4, ManageWhole DEF Next

\* What a client has got and what is on its way to it make its answer whole,
\* while no backend has failed or was killed and no client has left between its
\* marker and its answer.
THEOREM WholeInductive == Spec => []WInv
  <1>1. Init => WInv
    <2> SUFFICES ASSUME Init PROVE Complete
      BY DEF WInv
    <2>1. Len(server) = 0
      BY EmptySeq DEF Init
    <2>2. \A c \in Clients : ClientWhole(c)
      BY DEF Init, ClientWhole
    <2> QED  BY <2>1, <2>2 DEF Complete, Servers
  <1>2. SInv /\ AInv /\ WInv /\ [Next]_vars => WInv'
    BY StepWhole
  <1> QED  BY <1>1, <1>2, Inductive, OwnInductive, PTL DEF Spec

-----------------------------------------------------------------------------
(* What ends an exchange, whatever the client before has done. *)

\* An exchange is over once its client has seen a marker, or has gone.
Closed(c) == client[c].gone \/ Ended(c)

Heard(s) ==
    /\ Lives(s)
    /\ server[s].at = "bridge" /\ ~server[s].input => \A c \in server[s].cli : client[c].gone
    /\ server[s].at = "over" => \A c \in server[s].cli : Closed(c)

Told(c) ==
    /\ client[c].got \in Seq(Pieces)
    /\ client[c].hung => Closed(c)
    /\ client[c].at \in {"done", "failed"} => Ended(c)

Hears == (\A s \in Servers : Heard(s)) /\ (\A c \in Clients : Told(c))

EInv == ~broken => Hears

\* What a step leaves to everybody: a backend in use, and what clients have seen.
StaysUp(t) ==
    server[t].at \in Serving /\ server[t].input /\ backend[server[t].backend].alive =>
        backend'[server[t].backend].alive

GoesOn == \A c \in Clients :
    (client[c].gone => client'[c].gone) /\ (Ended(c) => Ended(c)')

LEMMA HeardElse ==
    ASSUME SInv, NEW t \in Servers, Heard(t), SameAt(t), SameInput(t), SameBackend(t), SameCli(t),
           StaysUp(t), GoesOn
    PROVE  Heard(t)'
  <1>1. server[t].cli \subseteq Clients
    BY SInvTypes, ServerIs DEF ServerState
  <1>2. Lives(t)'
    BY DEF Heard, Lives, SameAt, SameInput, SameBackend, StaysUp
  <1>3. \A c \in server[t].cli : Closed(c) => Closed(c)'
    BY <1>1 DEF Closed, GoesOn
  <1> QED  BY <1>1, <1>2, <1>3 DEF Heard, SameAt, SameInput, SameCli, GoesOn

\* No server moves.
LEMMA QuietHears ==
    ASSUME SInv, Hears, UNCHANGED server, \A t \in Servers : StaysUp(t), GoesOn,
           \A c \in Clients : Told(c)'
    PROVE  Hears'
  <1>1. Servers' = Servers
    BY DEF Servers
  <1>2. ASSUME NEW t \in Servers PROVE Heard(t)'
    <2>1. SameAt(t) /\ SameInput(t) /\ SameBackend(t) /\ SameCli(t)
      BY DEF SameAt, SameInput, SameBackend, SameCli
    <2> QED  BY <2>1, HeardElse DEF Hears
  <1> QED  BY <1>1, <1>2 DEF Hears

\* One server moves.
LEMMA OneHears ==
    ASSUME SInv, Hears, NEW s \in Servers, OneServer(s), Heard(s)',
           \A t \in Servers \ {s} : StaysUp(t), GoesOn, \A c \in Clients : Told(c)'
    PROVE  Hears'
  <1>1. Servers' = Servers
    BY DEF OneServer, Servers
  <1>2. ASSUME NEW t \in Servers \ {s} PROVE Heard(t)'
    <2>1. SameAt(t) /\ SameInput(t) /\ SameBackend(t) /\ SameCli(t)
      BY DEF OneServer, SameAt, SameInput, SameBackend, SameCli
    <2> QED  BY <2>1, HeardElse DEF Hears
  <1> QED  BY <1>1, <1>2 DEF Hears

LEMMA StillUp == ASSUME UNCHANGED backend PROVE \A t \in Servers : StaysUp(t)
  BY DEF StaysUp

LEMMA StillTold ==
    ASSUME Hears, UNCHANGED client
    PROVE  GoesOn /\ \A c \in Clients : Told(c)'
  BY DEF Hears, GoesOn, Ended, Told, Closed

LEMMA FilesHears ==
    ASSUME SInv, Hears, UNCHANGED <<server, backend, client>>
    PROVE  Hears'
  BY StillUp, StillTold, QuietHears

\* A backend goes on as it was, and no other server's is touched.
LEMMA AliveUp ==
    ASSUME SInv, NEW b \in Backends, OneBackend(b),
           backend[b].alive => backend'[b].alive
    PROVE  \A t \in Servers : StaysUp(t)
  <1>1. ASSUME NEW t \in Servers, server[t].at \in Serving
        PROVE  server[t].backend \in Backends
    BY <1>1, AtWork DEF Serving, Using
  <1> QED  BY <1>1 DEF StaysUp, OneBackend

LEMMA HeldUp == ASSUME NEW t \in Servers, Held(t) PROVE StaysUp(t)
  BY DEF Held, StaysUp

\* A client goes on by itself.
LEMMA GoesTold ==
    ASSUME Hears, NEW c \in Clients, OneClient(c), SameGot(c),
           client[c].gone => client'[c].gone, client'[c].hung => client[c].hung,
           client'[c].at \in {"done", "failed"} => Ended(c)
    PROVE  GoesOn /\ \A d \in Clients : Told(d)'
  <1>1. \A d \in Clients : client'[d].got = client[d].got
    BY DEF OneClient, SameGot
  <1>2. ASSUME NEW d \in Clients PROVE Ended(d)' <=> Ended(d)
    BY <1>1 DEF Ended
  <1>3. GoesOn
    BY <1>2 DEF GoesOn, OneClient
  <1>4. Told(c)'
    <2>1. Told(c)
      BY DEF Hears
    <2>2. client'[c].hung => client'[c].gone \/ Ended(c)'
      BY <1>2, <2>1 DEF Told, Closed
    <2> QED  BY <1>1, <1>2, <2>1, <2>2 DEF Told, Closed
  <1>5. ASSUME NEW d \in Clients, d # c PROVE Told(d)'
    <2>1. Told(d) /\ client'[d] = client[d]
      BY <1>5 DEF Hears, OneClient
    <2> QED  BY <1>2, <2>1 DEF Told, Closed
  <1> QED  BY <1>3, <1>4, <1>5

LEMMA HangTold ==
    ASSUME SInv, Hears, NEW C, Hang(C), \A c \in C : Closed(c)
    PROVE  GoesOn /\ \A c \in Clients : Told(c)'
  <1>1. \A c \in Clients : /\ SamePlace(c) /\ SameGone(c) /\ SameGot(c)
                           /\ client'[c].hung = (client[c].hung \/ c \in C)
    BY SInvTypes, HangStep
  <1>2. \A c \in Clients : Ended(c)' <=> Ended(c)
    BY <1>1 DEF SameGot, Ended
  <1>3. GoesOn
    BY <1>1, <1>2 DEF GoesOn, SameGone
  <1>4. ASSUME NEW c \in Clients PROVE Told(c)'
    <2>1. Told(c)
      BY DEF Hears
    <2> QED  BY <1>1, <1>2, <2>1 DEF Told, Closed, SamePlace, SameGone, SameGot
  <1> QED  BY <1>3, <1>4

LEMMA ManageHears ==
    ASSUME SInv, Hears, NEW m \in Managers, Manage(m), ~broken'
    PROVE  Hears'
  <1>1. CASE Kill(m) \/ KillBackend(m)
    <2>1. UNCHANGED <<server, backend, client>>
      BY <1>1 DEF Kill, KillBackend, ByManager
    <2> QED  BY <2>1, FilesHears
  <1>2. CASE Fork(m)
    <2>1. UNCHANGED <<backend, client>>
      BY <1>2 DEF Fork, ByManager
    <2>2. ASSUME NEW t \in Servers PROVE Heard(t)'
      <3>1. server'[t] = server[t]
        BY <1>2, ForkIs
      <3>2. SameAt(t) /\ SameInput(t) /\ SameBackend(t) /\ SameCli(t)
        BY <3>1 DEF SameAt, SameInput, SameBackend, SameCli
      <3> QED  BY <2>1, <3>2, StillUp, StillTold, HeardElse DEF Hears
    <2>3. ASSUME NEW t \in Servers', t = Len(server) + 1 PROVE Heard(t)'
      <3>1. server'[t].at = "forked"
        BY <1>2, <2>3, ForkIs DEF NewServer
      <3> QED  BY <3>1 DEF Heard, Lives, Serving
    <2> QED  BY <1>2, <2>1, <2>2, <2>3, ForkIs, StillTold DEF Hears
  <1>3. CASE ~(Kill(m) \/ KillBackend(m) \/ Fork(m))
    <2>1. UNCHANGED <<server, backend, client>>
      BY <1>3 DEF Manage, Begin, Unlink, ForgetBackend, Forget, Ready, Register, Configure,
                  Unconfigure, ManagerDies, ByManager, files
    <2> QED  BY <2>1, FilesHears
  <1> QED  BY <1>1, <1>2, <1>3

LEMMA MoveHears ==
    ASSUME SInv, Hears, NEW s \in Servers,
           NEW place \in {"bind", "start", "failed", "accept"}, Move(s, place),
           place = "accept" => server[s].at = "note",
           UNCHANGED <<backend, client>>
    PROVE  Hears'
  <1>1. place \in Places
    BY DEF Places
  <1>2. OneServer(s) /\ server'[s].at = place /\ SameInput(s) /\ SameBackend(s)
    BY <1>1, SInvTypes, MoveStep
  <1>3. Lives(s)'
    <2>1. Lives(s)
      BY DEF Hears, Heard
    <2> QED  BY <1>2, <2>1 DEF Lives, Serving, SameInput, SameBackend
  <1>4. Heard(s)'
    BY <1>2, <1>3 DEF Heard
  <1> QED  BY <1>2, <1>4, StillUp, StillTold, OneHears

LEMMA StartHears == ASSUME SInv, Hears, NEW s \in Servers, Start(s) PROVE Hears'
  <1>1. /\ OneServer(s) /\ server'[s].at = "note" /\ server'[s].backend = Len(backend) + 1
        /\ \A b \in Backends : backend'[b] = backend[b]
        /\ backend'[Len(backend) + 1] = NewBackend(s)
    BY SInvTypes, StartStep
  <1>2. UNCHANGED client
    BY DEF Start
  <1>3. Heard(s)'
    BY <1>1 DEF Heard, Lives, NewBackend
  <1>4. \A t \in Servers : StaysUp(t)
    <2>1. ASSUME NEW t \in Servers, server[t].at \in Serving
          PROVE  backend'[server[t].backend] = backend[server[t].backend]
      BY <1>1, <2>1, AtWork DEF Serving, Using
    <2> QED  BY <2>1 DEF StaysUp
  <1> QED  BY <1>1, <1>2, <1>3, <1>4, StillTold, OneHears

LEMMA AcceptHears == ASSUME SInv, Hears, NEW s \in Servers, Accept(s) PROVE Hears'
  <1>1. /\ OneServer(s) /\ server'[s].at = "bridge" /\ SameBackend(s) /\ SameInput(s)
    BY SInvTypes, AcceptStep DEF Accept
  <1>2. UNCHANGED <<backend, client>> /\ server[s].at = "accept"
    BY DEF Accept, At
  <1>3. server[s].input
    BY <1>2, SInvTypes DEF Wired, InputOK
  <1>4. Lives(s)'
    BY <1>1, <1>2 DEF Hears, Heard, Lives, Serving, SameInput, SameBackend
  <1>5. Heard(s)'
    BY <1>1, <1>3, <1>4 DEF Heard, SameInput
  <1> QED  BY <1>1, <1>2, <1>5, StillUp, StillTold, OneHears

LEMMA ReadRequestHears == ASSUME SInv, Hears, NEW s \in Servers, ReadRequest(s) PROVE Hears'
  <1> DEFINE b == server[s].backend
  <1>0. /\ server[s].at = "bridge" /\ server[s].open /\ UNCHANGED client
    BY DEF ReadRequest, Bridging, At
  <1>1. /\ b \in Backends /\ Cli(s) \in Clients /\ server[s].input
    BY <1>0, AtWork DEF Using, Wired, InputOK
  <1>2. backend[b].alive /\ Lives(s)
    BY <1>0, <1>1 DEF Hears, Heard, Lives, Serving
  <1>3. PICK q : q = Append(backend[b].asked, Cli(s))
    OBVIOUS
  <1>4. backend' = [backend EXCEPT ![b].asked = q] /\ server' = [server EXCEPT ![s].open = FALSE]
    BY <1>2, <1>3 DEF ReadRequest
  <1>5. q \in Seq(Clients)
    <2>1. backend[b].asked \in Seq(Clients)
      BY <1>1, SInvTypes, BackendIs DEF BackendState
    <2> QED  BY <1>1, <1>3, <2>1, AppendProperties
  <1> HIDE DEF b
  <1>6. OneBackend(b) /\ backend'[b].alive = backend[b].alive
    BY <1>1, <1>4, <1>5, SInvTypes, AskStep
  <1>7. OneServer(s) /\ SameAt(s) /\ SameBackend(s) /\ SameInput(s)
    BY <1>4, SInvTypes, OpenStep
  <1>8. Heard(s)'
    BY <1>0, <1>1, <1>2, <1>6, <1>7 DEF Heard, Lives, SameAt, SameBackend, SameInput, b
  <1> QED  BY <1>0, <1>1, <1>6, <1>7, <1>8, AliveUp, StillTold, OneHears

LEMMA ReadEndHears == ASSUME SInv, Hears, NEW s \in Servers, ReadEnd(s) PROVE Hears'
  <1> DEFINE b == server[s].backend
             c == Cli(s)
  <1>1. /\ server[s].at = "bridge" /\ UNCHANGED client /\ client[c].gone
        /\ server' = [server EXCEPT ![s].open = FALSE, ![s].input = FALSE]
    BY DEF ReadEnd, Bridging, At
  <1>2. b \in Backends /\ backend[b].by = s /\ c \in Clients /\ server[s].cli = {c}
    BY <1>1, AtWork DEF Using
  <1>3. PICK q \in {backend[b].asked, Append(backend[b].asked, c)} :
            backend' = [backend EXCEPT ![b] = [@ EXCEPT !.input = FALSE, !.asked = q]]
    BY DEF ReadEnd
  <1>4. backend[b].asked \in Seq(Clients)
    BY <1>2, SInvTypes, BackendIs DEF BackendState
  <1>5. q \in Seq(Clients)
    <2>1. Append(backend[b].asked, c) \in Seq(Clients)
      BY <1>2, <1>4, AppendProperties
    <2> QED  BY <1>3, <1>4, <2>1
  <1>6. OneBackend(b)
    BY <1>2, <1>3, <1>5, SInvTypes, EndInputStep
  <1>7. /\ OneServer(s) /\ server'[s].input = FALSE /\ SameAt(s) /\ SameCli(s)
    BY <1>1, SInvTypes, ShutInputStep
  <1>8. Heard(s)'
    BY <1>1, <1>2, <1>7 DEF Heard, Lives, SameAt, SameCli
  <1>9. \A t \in Servers \ {s} : StaysUp(t)
    BY <1>2, <1>6, HeldElse, HeldUp
  <1> QED  BY <1>1, <1>7, <1>8, <1>9, StillTold, OneHears

\* What a client has seen it keeps, whatever comes after it.
LEMMA SeenOn ==
    ASSUME NEW S, NEW p \in Seq(S), NEW q \in Seq(S)
    PROVE  /\ p \o q \in Seq(S)
           /\ \A i \in DOMAIN p : i \in DOMAIN (p \o q) /\ (p \o q)[i] = p[i]
           /\ \A i \in 1..Len(q) : Len(p) + i \in DOMAIN (p \o q) /\ (p \o q)[Len(p) + i] = q[i]
  <1>1. Len(p) \in Nat /\ Len(q) \in Nat /\ DOMAIN p = 1..Len(p)
    BY LenProperties
  <1>2. /\ p \o q \in Seq(S) /\ Len(p \o q) = Len(p) + Len(q)
        /\ \A i \in 1..Len(p) + Len(q) : (p \o q)[i] = IF i <= Len(p) THEN p[i] ELSE q[i - Len(p)]
    BY ConcatProperties
  <1>3. DOMAIN (p \o q) = 1..Len(p) + Len(q)
    BY <1>2, LenProperties
  <1>4. ASSUME NEW i \in DOMAIN p PROVE i \in DOMAIN (p \o q) /\ (p \o q)[i] = p[i]
    <2>1. i \in 1..Len(p) + Len(q) /\ i <= Len(p)
      BY <1>1
    <2> QED  BY <1>2, <1>3, <2>1
  <1>5. ASSUME NEW i \in 1..Len(q)
        PROVE  Len(p) + i \in DOMAIN (p \o q) /\ (p \o q)[Len(p) + i] = q[i]
    <2>1. Len(p) + i \in 1..Len(p) + Len(q) /\ ~(Len(p) + i <= Len(p)) /\ Len(p) + i - Len(p) = i
      BY <1>1
    <2> QED  BY <1>2, <1>3, <2>1
  <1> QED  BY <1>2, <1>4, <1>5

LEMMA RelayHears == ASSUME SInv, Hears, NEW s \in Servers, Relay(s) PROVE Hears'
  <1> DEFINE b == server[s].backend
             out == backend[b].out
  <1>1. server[s].at = "bridge"
    BY DEF Relay, Bridging, At
  <1>2. /\ b \in Backends /\ Cli(s) \in Clients /\ server[s].cli = {Cli(s)}
        /\ backend[b] \in BackendState
    BY <1>1, AtWork DEF Using
  <1>3. PICK c \in Clients : c = Cli(s)
    BY <1>2
  <1>4. PICK n \in 1..Len(out) : \E k \in 1..n :
          /\ Drop(b, n) /\ Deliver(c, SubSeq(out, 1, k))
          /\ IF client[c].gone \/ out[k].last THEN Over(s) ELSE UNCHANGED server
    BY <1>3 DEF Relay
  <1>5. PICK k \in 1..n :
          /\ Drop(b, n) /\ Deliver(c, SubSeq(out, 1, k))
          /\ IF client[c].gone \/ out[k].last THEN Over(s) ELSE UNCHANGED server
    BY <1>4
  <1>6. OneBackend(b) /\ backend'[b].alive = backend[b].alive
    BY <1>2, <1>4, <1>5, DropIs
  <1>7. out \in Seq(Pieces)
    BY <1>2 DEF BackendState
  <1> HIDE DEF b, out
  <1>8. PICK p : p = SubSeq(out, 1, k)
    OBVIOUS
  <1>9. p \in Seq(Pieces) /\ k \in 1..Len(p) /\ p[k] = out[k]
    <2>1. /\ 1 \in Int /\ k \in Int /\ k >= 1 /\ k <= Len(out) /\ Len(out) \in Nat
          /\ k - 1 + 1 = k
      BY <1>7, LenProperties
    <2>2. \A i \in 1..k : out[i] \in Pieces
      BY <1>7, <2>1, ElementOfSeq
    <2>3. /\ SubSeq(out, 1, k) \in Seq(Pieces) /\ Len(SubSeq(out, 1, k)) = k
          /\ \A i \in 1..k : SubSeq(out, 1, k)[i] = out[i]
      BY <2>1, <2>2, SubSeqProperties
    <2> QED  BY <1>8, <2>1, <2>3
  <1>10. /\ OneClient(c) /\ SamePlace(c) /\ SameGone(c) /\ SameHung(c)
         /\ client'[c].got = IF client[c].gone THEN client[c].got ELSE client[c].got \o p
    BY <1>5, <1>8, SInvTypes, DeliverStep
  <1>11. client[c].got \in Seq(Pieces)
    BY DEF Hears, Told
  <1>a. PICK g : g = client[c].got
    OBVIOUS
  <1>12. PICK q : q = g \o p
    OBVIOUS
  <1>13. /\ q \in Seq(Pieces)
         /\ \A i \in DOMAIN g : i \in DOMAIN q /\ q[i] = g[i]
         /\ Len(g) + k \in DOMAIN q /\ q[Len(g) + k] = out[k]
    <2>1. g \in Seq(Pieces)
      BY <1>11, <1>a
    <2>2. /\ g \o p \in Seq(Pieces)
          /\ \A i \in DOMAIN g : i \in DOMAIN (g \o p) /\ (g \o p)[i] = g[i]
          /\ \A i \in 1..Len(p) : Len(g) + i \in DOMAIN (g \o p) /\ (g \o p)[Len(g) + i] = p[i]
      BY ONLY <1>9, <2>1, SeenOn
    <2> QED  BY ONLY <1>9, <1>12, <2>2
  <1>14. /\ client'[c].got \in Seq(Pieces)
         /\ Ended(c) => Ended(c)'
         /\ ~client[c].gone /\ out[k].last => Ended(c)'
    BY <1>10, <1>11, <1>a, <1>12, <1>13 DEF Ended
  <1>15. GoesOn
    <2>1. ASSUME NEW d \in Clients, d # c PROVE client'[d] = client[d]
      BY <1>10, <2>1 DEF OneClient
    <2>2. ASSUME NEW d \in Clients, d # c PROVE Ended(d) => Ended(d)'
      BY <2>1, <2>2 DEF Ended
    <2> QED  BY <1>10, <1>14, <2>1, <2>2 DEF GoesOn, SameGone
  <1>16. ASSUME NEW d \in Clients PROVE Told(d)'
    <2>1. Told(d)
      BY DEF Hears
    <2>2. CASE d = c
      BY <1>10, <1>14, <1>15, <2>1, <2>2 DEF Told, Closed, GoesOn, SamePlace, SameHung
    <2>3. CASE d # c
      <3>1. client'[d] = client[d]
        BY <1>10, <2>3 DEF OneClient
      <3> QED  BY <1>15, <2>1, <3>1 DEF Told, Closed, GoesOn
    <2> QED  BY <2>2, <2>3
  <1>17. \A t \in Servers : StaysUp(t)
    BY <1>2, <1>6, AliveUp
  <1>18. CASE client[c].gone \/ out[k].last
    <2>1. /\ OneServer(s) /\ server'[s].at = "over" /\ SameBackend(s) /\ SameInput(s) /\ SameCli(s)
      BY <1>5, <1>18, SInvTypes, MoveStep DEF Over, Places
    <2>2. Lives(s)'
      BY <1>1, <1>17, <2>1
         DEF Hears, Heard, Lives, StaysUp, Serving, SameBackend, SameInput
    <2>3. Closed(c)'
      BY <1>14, <1>15, <1>18 DEF Closed, GoesOn
    <2>4. ASSUME NEW d \in server'[s].cli PROVE Closed(d)'
      <3>1. d = c
        BY <1>2, <1>3, <2>1 DEF SameCli
      <3> QED  BY <2>3, <3>1
    <2>5. Heard(s)'
      BY <2>1, <2>2, <2>4 DEF Heard
    <2> QED  BY <1>15, <1>16, <1>17, <2>1, <2>5, OneHears
  <1>19. CASE ~(client[c].gone \/ out[k].last)
    <2>1. UNCHANGED server
      BY <1>5, <1>19
    <2> QED  BY <1>15, <1>16, <1>17, <2>1, QuietHears
  <1> QED  BY <1>18, <1>19

\* The end of a backend ends an exchange whose client has gone.
LEMMA RelayEndHears == ASSUME SInv, Hears, NEW s \in Servers, RelayEnd(s) PROVE Hears'
  <1>1. /\ server[s].at = "bridge" /\ ~backend[server[s].backend].alive
        /\ UNCHANGED <<backend, client>> /\ Move(s, "over")
    BY DEF RelayEnd, Bridging, At, Over
  <1>2. /\ OneServer(s) /\ server'[s].at = "over" /\ SameInput(s) /\ SameCli(s)
    BY <1>1, SInvTypes, MoveStep DEF Places
  <1>3. ~server[s].input /\ \A c \in server[s].cli : client[c].gone
    BY <1>1 DEF Hears, Heard, Lives, Serving
  <1>4. Heard(s)'
    BY <1>1, <1>2, <1>3 DEF Heard, Lives, Closed, SameInput, SameCli
  <1> QED  BY <1>1, <1>2, <1>4, StillUp, StillTold, OneHears

LEMMA CloseClientHears ==
    ASSUME SInv, Hears, NEW s \in Servers, CloseClient(s)
    PROVE  Hears'
  <1>1. PICK alive : server' = [server EXCEPT ![s].cli = {},
                        ![s].at = IF server[s].input /\ alive THEN "accept" ELSE "stop"]
    BY DEF CloseClient
  <1> DEFINE place == IF server[s].input /\ alive THEN "accept" ELSE "stop"
  <1>2. place \in {"accept", "stop"}
        /\ server' = [server EXCEPT ![s].cli = {}, ![s].at = place]
    BY <1>1
  <1> HIDE DEF place
  <1>3. place \in Places
    BY <1>2 DEF Places
  <1>4. OneServer(s) /\ server'[s].at = place /\ SameBackend(s) /\ SameInput(s)
    BY <1>2, <1>3, SInvTypes, HangUpStep
  <1>5. UNCHANGED backend /\ Hang(server[s].cli) /\ server[s].at = "over"
    BY DEF CloseClient, At
  <1>6. GoesOn /\ \A c \in Clients : Told(c)'
    <2>1. \A c \in server[s].cli : Closed(c)
      BY <1>5 DEF Hears, Heard
    <2> QED  BY <1>5, <2>1, HangTold
  <1>7. Lives(s)'
    BY <1>4, <1>5 DEF Hears, Heard, Lives, Serving, SameInput, SameBackend
  <1>8. Heard(s)'
    BY <1>2, <1>4, <1>7 DEF Heard
  <1> QED  BY <1>4, <1>5, <1>6, <1>8, StillUp, OneHears

LEMMA StopBackendHears ==
    ASSUME SInv, Hears, NEW s \in Servers, StopBackend(s)
    PROVE  Hears'
  <1> DEFINE b == server[s].backend
  <1>1. b \in Backends /\ backend[b].by = s
    BY AtWork DEF StopBackend, At, Using
  <1>2. OneBackend(b)
    BY <1>1, SInvTypes, ShutStep DEF StopBackend
  <1>3. OneServer(s) /\ server'[s].at = "start"
    BY SInvTypes, MoveStep DEF StopBackend, Places
  <1>4. UNCHANGED client
    BY DEF StopBackend
  <1>5. Heard(s)'
    BY <1>3 DEF Heard, Lives, Serving
  <1>6. \A t \in Servers \ {s} : StaysUp(t)
    BY <1>1, <1>2, HeldElse, HeldUp
  <1> QED  BY <1>3, <1>4, <1>5, <1>6, StillTold, OneHears

LEMMA BackendHears ==
    ASSUME SInv, Hears, NEW b \in Backends, Answer(b) \/ EndOfInput(b)
    PROVE  Hears'
  <1>1. UNCHANGED <<server, client>>
    BY DEF Answer, EndOfInput, ByBackend
  <1>2. \A t \in Servers : StaysUp(t)
    <2>1. CASE Answer(b)
      BY <2>1, AnswerIs, AliveUp
    <2>2. CASE EndOfInput(b)
      <3>1. backend' = [backend EXCEPT ![b].alive = FALSE] /\ ~HasInput(b)
        BY <2>2 DEF EndOfInput
      <3>2. OneBackend(b)
        BY <3>1, SInvTypes, ShutStep
      <3>3. ASSUME NEW t \in Servers, server[t].at \in Serving, server[t].input
            PROVE  server[t].backend \in Backends \ {b}
        <4>1. /\ server[t].backend \in Backends /\ backend[server[t].backend].by = t
              /\ backend[server[t].backend].input = server[t].input
          BY <3>3, AtWork DEF BackendOK, Serving, Using
        <4>2. Live(t)
          BY <3>3 DEF Live, Serving
        <4> QED  BY <3>1, <3>3, <4>1, <4>2 DEF HasInput
      <3> QED  BY <3>2, <3>3 DEF StaysUp, OneBackend
    <2> QED  BY <2>1, <2>2
  <1> QED  BY <1>1, <1>2, StillTold, QuietHears

LEMMA ConnectHears == ASSUME SInv, Hears, NEW c \in Clients, Connect(c) PROVE Hears'
  <1>1. client[c].at = "idle" /\ UNCHANGED backend
    BY DEF Connect, ByClient
  <1>2. CASE sock # 0 /\ Listening(sock)
    <2>1. /\ sock \in Servers /\ OneServer(sock)
          /\ SameCli(sock) /\ SameBackend(sock) /\ SameInput(sock) /\ SameAt(sock)
          /\ OneClient(c) /\ client'[c].at = "linked" /\ SameGone(c) /\ SameGot(c) /\ SameHung(c)
      BY <1>2, LinkIs
    <2>2. GoesOn /\ \A d \in Clients : Told(d)'
      BY <2>1, GoesTold DEF SameGone, SameHung
    <2>3. PICK s \in Servers : s = sock
      BY <2>1
    <2>4. /\ OneServer(s) /\ SameCli(s) /\ SameBackend(s) /\ SameInput(s) /\ SameAt(s)
          /\ Heard(s) /\ \A t \in Servers : StaysUp(t)
      BY <1>1, <2>1, <2>3, StillUp DEF Hears
    <2>5. Heard(s)'
      BY <2>2, <2>4, HeardElse
    <2> QED  BY <2>2, <2>4, <2>5, OneHears
  <1>3. CASE ~(sock # 0 /\ Listening(sock))
    <2>1. client' = [client EXCEPT ![c].at = "refused"] /\ UNCHANGED server
      BY <1>3 DEF Connect
    <2>2. OneClient(c) /\ client'[c].at = "refused" /\ SameGone(c) /\ SameGot(c) /\ SameHung(c)
      BY <2>1, SInvTypes, PlaceStep DEF ClientPlaces
    <2>3. GoesOn /\ \A d \in Clients : Told(d)'
      BY <2>2, GoesTold DEF SameGone, SameHung
    <2> QED  BY <1>1, <2>1, <2>3, StillUp, QuietHears
  <1> QED  BY <1>2, <1>3

LEMMA PlaceHears ==
    ASSUME SInv, Hears, NEW c \in Clients, NEW at \in ClientPlaces,
           client' = [client EXCEPT ![c].at = at], UNCHANGED <<server, backend>>,
           at \in {"done", "failed"} => Ended(c)
    PROVE  Hears'
  <1>1. OneClient(c) /\ client'[c].at = at /\ SameGone(c) /\ SameGot(c) /\ SameHung(c)
    BY SInvTypes, PlaceStep
  <1>2. GoesOn /\ \A d \in Clients : Told(d)'
    BY <1>1, GoesTold DEF SameGone, SameHung
  <1> QED  BY <1>2, StillUp, QuietHears

\* A call that has been hung up on has seen a marker.
LEMMA AskHears == ASSUME SInv, Hears, NEW c \in Clients, Ask(c) PROVE Hears'
  <1>1. PICK at \in ClientPlaces : /\ client' = [client EXCEPT ![c].at = at]
                                   /\ at \in {"done", "failed"} => client[c].hung
    BY DEF Ask, ClientPlaces
  <1>2. at \in {"done", "failed"} => Ended(c)
    BY <1>1 DEF Ask, Hears, Told, Closed
  <1> QED  BY <1>1, <1>2, PlaceHears DEF Ask, ByClient

LEMMA FinishHears == ASSUME SInv, Hears, NEW c \in Clients, Finish(c) PROVE Hears'
  <1>1. PICK at \in {"done", "failed"} : client' = [client EXCEPT ![c].at = at]
    BY DEF Finish
  <1>2. at \in ClientPlaces
    BY DEF ClientPlaces
  <1>3. Ended(c)
    BY DEF Finish, Hears, Told, Closed
  <1> QED  BY <1>1, <1>2, <1>3, PlaceHears DEF Finish, ByClient

LEMMA VanishHears == ASSUME SInv, Hears, NEW c \in Clients, Vanish(c) PROVE Hears'
  <1>1. client' = [client EXCEPT ![c].gone = TRUE] /\ UNCHANGED <<server, backend>>
        /\ client[c].at \in {"linked", "asked"}
    BY DEF Vanish, ByClient
  <1>2. OneClient(c) /\ client'[c].gone = TRUE /\ SamePlace(c) /\ SameGot(c) /\ SameHung(c)
    BY <1>1, SInvTypes, GoneStep
  <1>3. GoesOn /\ \A d \in Clients : Told(d)'
    BY <1>1, <1>2, GoesTold DEF SamePlace, SameHung
  <1> QED  BY <1>1, <1>3, StillUp, QuietHears

LEMMA ServeHears ==
    ASSUME SInv, Hears, ~broken, NEW s \in Servers, Serve(s) \/ ServerDies(s) \/ Reset(s)
    PROVE  Hears'
  <1>1. CASE Clear(s) \/ Bind(s) \/ Note(s)
    <2>1. PICK place \in {"bind", "start", "failed", "accept"} :
               /\ Move(s, place)
               /\ place = "accept" => server[s].at = "note"
      BY <1>1 DEF Clear, Bind, Note, At
    <2>2. UNCHANGED <<backend, client>>
      BY <1>1 DEF Clear, Bind, Note
    <2> QED  BY <2>1, <2>2, MoveHears
  <1> QED
    BY <1>1, StartHears, AcceptHears, ReadRequestHears, ReadEndHears, RelayHears, RelayEndHears,
       CloseClientHears, StopBackendHears, NoDeath, NoReset DEF Serve

LEMMA StepHears == ASSUME SInv, EInv, [Next]_vars PROVE EInv'
  <1> SUFFICES ASSUME ~broken', ~broken, Hears PROVE Hears'
    BY BrokenStays DEF EInv
  <1>1. ASSUME NEW b \in Backends, Answer(b) \/ EndOfInput(b) \/ BackendFails(b) PROVE Hears'
    BY <1>1, BackendHears DEF BackendFails
  <1>2. ASSUME NEW c \in Clients, Connect(c) \/ Ask(c) \/ Finish(c) \/ Vanish(c) PROVE Hears'
    BY <1>2, ConnectHears, AskHears, FinishHears, VanishHears
  <1>3. CASE UNCHANGED vars
    BY <1>3, FilesHears DEF vars
  <1> QED  BY <1>1, <1>2, <1>3, ManageHears, ServeHears DEF Next

\* A call returns without a marker, or is hung up on, only after a backend failed
\* or was killed.
THEOREM EndsInductive == Spec => []EInv
  <1>1. Init => EInv
    <2> SUFFICES ASSUME Init PROVE Hears
      BY DEF EInv
    <2>1. Len(server) = 0
      BY EmptySeq DEF Init
    <2>2. \A c \in Clients : Told(c)
      BY EmptySeq DEF Init, Told
    <2> QED  BY <2>1, <2>2 DEF Hears, Servers
  <1>2. SInv /\ EInv /\ [Next]_vars => EInv'
    BY StepHears
  <1> QED  BY <1>1, <1>2, Inductive, PTL DEF Spec

\* AnswerWhole: kc_dmn_send_data returns a marker, whatever other clients do,
\* unless a backend failed or the daemon was replaced or deleted meanwhile; and as
\* long as no client has left between its marker and its answer what it returns is
\* the answer to its own request, all of it.
THEOREM AnswersWhole == Spec => []AnswerWhole
  <1>1. WInv /\ EInv => AnswerWhole
    BY DEF WInv, EInv, AnswerWhole, Complete, ClientWhole, Whole, Hears, Told
  <1> QED  BY <1>1, WholeInductive, EndsInductive, PTL

-----------------------------------------------------------------------------
(* What the files name. *)

\* One call at a time.
Alone == \A m, n \in Managers : m # n => mgr[m] = Idle \/ mgr[n] = Idle

\* The path names a server that nobody has killed, unless one is still binding
\* it or has failed to.
SockHeld == (sock # 0 /\ ~server[sock].doomed) \/ ~Settled

Waiting(m) == mgr[m].step \in {"ready", "register", "config"}

Orderly ==
    /\ Alone
    /\ last # "none" => AtRest
    /\ last = "create" => config
    /\ (\E m \in Managers : Waiting(m)) \/ last = "create" => SockHeld

OrderInv == ~raced => Orderly

\* Of the servers whose pid file could be written none runs, or only n.
NoneUp == \A t \in Servers \ stray : ~Up(t)
OnlyUp(n) == n \notin stray /\ \A t \in Servers \ stray : Up(t) <=> t = n

\* The path names no server, or one whose pid file could not be written.
NoName == sock = 0 \/ sock \in stray

Named == OnlyUp(pid) /\ (sock = pid \/ (pid = 0 /\ sock \in stray))

\* The server that a manager waits for.
Awaited(n) ==
    /\ n \notin stray
    /\ \A t \in Servers \ stray : Up(t) <=> t = n /\ server[n].at # "failed"
    /\ server[n].at = "forked" => NoName
    /\ server[n].at \in {"bind", "failed"} => sock = 0
    /\ server[n].at \notin Unbound => sock = n
    /\ ~server[n].doomed

\* What is true of the files and the servers at each step of a call.
Stage(m) ==
    /\ mgr[m].step = "kill" => Named
    /\ mgr[m].step \in {"unlink", "kill_backend", "forget_backend", "forget", "unconfig", "fork"} =>
           NoneUp
    /\ mgr[m].step \in {"kill_backend", "forget_backend", "forget", "unconfig"} => sock = 0
    /\ mgr[m].step = "fork" => NoName
    /\ mgr[m].step \in {"unlink", "kill_backend", "forget_backend", "forget"} /\ ~mgr[m].found =>
           pid = 0
    /\ mgr[m].step \in {"unconfig", "fork", "ready", "register"} => pid = 0
    /\ mgr[m].step = "ready" => Awaited(mgr[m].new)
    /\ mgr[m].step \in {"register", "config"} => sock = mgr[m].new /\ OnlyUp(mgr[m].new)
    /\ mgr[m].step = "config" => pid = mgr[m].new

Starting == {"forked", "bind"}

Peace ==
    /\ Named /\ (last = "create" => pid # 0)
    /\ last = "delete" => sock = 0 /\ pid = 0 /\ ~config

Registry ==
    /\ \A m \in Managers : Stage(m)
    /\ \A s \in Servers : server[s].at \in Starting =>
           \E m \in Managers : mgr[m].step = "ready" /\ mgr[m].new = s
    /\ AtRest => Peace
    /\ stray \subseteq Servers

RegistryInv == ~raced /\ ~orphaned => Registry

\* Server t goes on, or dies of a kill: it is up if it was.
Steady(t) ==
    /\ server'[t].doomed = server[t].doomed
    /\ \/ server'[t].at = server[t].at
       \/ /\ server[t].at \notin Unbound \cup {"dead"} /\ server'[t].at \notin Unbound
          /\ server'[t].at = "dead" => server[t].doomed

SteadyStep ==
    /\ Servers' = Servers /\ \A t \in Servers : Steady(t)
    /\ UNCHANGED <<sock, pid, config, mgr, last, stray>>

LEMMA SteadyUp ==
    ASSUME SInv, NEW t \in Servers, Steady(t)
    PROVE  /\ Up(t)' <=> Up(t)
           /\ server'[t].at \in Unbound <=> server[t].at \in Unbound
           /\ server'[t].at = "failed" <=> server[t].at = "failed"
           /\ server'[t].at \in Starting <=> server[t].at \in Starting
  BY DEF Steady, Up, Live, Doomed, Unbound, Starting

LEMMA SteadyOrderly == ASSUME SInv, Orderly, SteadyStep PROVE Orderly'
  <1>1. Alone' /\ (last' # "none" => AtRest') /\ (last' = "create" => config')
    BY DEF Orderly, Alone, AtRest, SteadyStep
  <1>2. SockHeld => SockHeld'
    <2>1. CASE ~Settled
      BY <2>1, SteadyUp DEF Settled, SockHeld, Unbound, SteadyStep
    <2>2. CASE sock # 0 /\ ~server[sock].doomed
      <3>1. sock \in Servers
        BY <2>2, SInvTypes, Sizes DEF FileType
      <3> QED  BY <2>2, <3>1 DEF SockHeld, SteadyStep, Steady
    <2> QED  BY <2>1, <2>2 DEF SockHeld
  <1>3. (\E m \in Managers : Waiting(m)') => \E m \in Managers : Waiting(m)
    BY DEF Waiting, SteadyStep
  <1> QED  BY <1>1, <1>2, <1>3 DEF Orderly, SteadyStep

LEMMA SteadyRegistry == ASSUME SInv, Registry, SteadyStep PROVE Registry'
  <1>1. /\ Servers' = Servers /\ UNCHANGED <<sock, pid, config, mgr, last, stray>>
        /\ \A t \in Servers :
             /\ Up(t)' <=> Up(t)
             /\ server'[t].at \in Unbound <=> server[t].at \in Unbound
             /\ server'[t].at = "failed" <=> server[t].at = "failed"
             /\ server'[t].at \in Starting <=> server[t].at \in Starting
             /\ server'[t].doomed = server[t].doomed
    BY SteadyUp DEF SteadyStep, Steady
  <1>2. NoneUp' <=> NoneUp
    BY <1>1 DEF NoneUp, Registry
  <1>3. \A n : OnlyUp(n)' <=> OnlyUp(n)
    BY <1>1 DEF OnlyUp
  <1>4. (Named' <=> Named) /\ (NoName' <=> NoName)
    BY <1>1 DEF Named, NoName, OnlyUp
  <1>5. ASSUME NEW n \in Servers, Awaited(n) PROVE Awaited(n)'
    <2>1. server[n].at = "forked" <=> server'[n].at = "forked"
      BY <1>5 DEF SteadyStep, Steady, Unbound
    <2>2. server[n].at \in {"bind", "failed"} <=> server'[n].at \in {"bind", "failed"}
      BY <1>1, <2>1 DEF Unbound
    <2> QED  BY <1>1, <1>4, <1>5, <2>1, <2>2 DEF Awaited
  <1>6. ASSUME NEW m \in Managers PROVE Stage(m)'
    <2>1. mgr'[m] = mgr[m] /\ Stage(m)
      BY <1>1 DEF Registry
    <2>2. mgr[m].step = "ready" => Awaited(mgr[m].new)'
      BY <1>5, <2>1, SInvTypes DEF Stage, ManagerType
    <2>3. mgr[m].step \in {"register", "config"} => OnlyUp(mgr[m].new)'
      BY <1>1, <2>1 DEF Stage, OnlyUp
    <2>4. mgr[m].step = "ready" => (Awaited(mgr[m].new))'
      BY <1>1, <2>2 DEF Awaited, NoName
    <2>5. mgr[m].step \in {"register", "config"} => (OnlyUp(mgr[m].new))'
      BY <1>1, <2>3 DEF OnlyUp
    <2> QED  BY <1>1, <1>2, <1>4, <2>1, <2>4, <2>5 DEF Stage
  <1>7. AtRest' => Peace'
    BY <1>1, <1>4 DEF Registry, AtRest, Peace
  <1>8. stray' \subseteq Servers'
    BY <1>1 DEF Registry
  <1> QED  BY <1>1, <1>6, <1>7, <1>8 DEF Registry

LEMMA MoveSteady ==
    ASSUME SInv, NEW s \in Servers, OneServer(s), SameDoom(s),
           server[s].at \notin Unbound \cup {"dead"}, server'[s].at \notin Unbound,
           server'[s].at = "dead" => server[s].doomed,
           UNCHANGED <<sock, pid, config, mgr, last, stray>>
    PROVE  SteadyStep
  BY DEF SteadyStep, Steady, OneServer, SameDoom, Servers

LEMMA StaySteady ==
    ASSUME SInv, NEW s \in Servers, OneServer(s), SameDoom(s), SameAt(s),
           UNCHANGED <<sock, pid, config, mgr, last, stray>>
    PROVE  SteadyStep
  BY DEF SteadyStep, Steady, OneServer, SameDoom, SameAt, Servers

LEMMA StillSteady ==
    ASSUME UNCHANGED <<server, sock, pid, config, mgr, last, stray>>
    PROVE  SteadyStep
  BY DEF SteadyStep, Steady, Servers

LEMMA ServeSteady ==
    ASSUME SInv, NEW s \in Servers,
           \/ Start(s) \/ Note(s) \/ Accept(s) \/ ReadRequest(s) \/ ReadEnd(s) \/ Relay(s)
           \/ RelayEnd(s) \/ CloseClient(s) \/ StopBackend(s) \/ ServerDies(s) \/ Reset(s)
    PROVE  SteadyStep
  <1>1. UNCHANGED <<sock, pid, config, mgr, last, stray>>
    BY DEF Start, Note, Accept, ReadRequest, ReadEnd, Relay, RelayEnd, CloseClient, StopBackend,
           ServerDies, Reset, ByServer, Files, ByClient, files
  <1>2. ASSUME NEW place \in Places \ Unbound, Move(s, place), place # "dead",
               server[s].at \notin Unbound \cup {"dead"}
        PROVE  SteadyStep
    <2>1. OneServer(s) /\ SameDoom(s) /\ server'[s].at = place
      BY <1>2, SInvTypes, MoveStep
    <2> QED  BY <1>1, <1>2, <2>1, MoveSteady
  <1>3. CASE UNCHANGED server
    BY <1>1, <1>3, StillSteady
  <1>4. CASE Start(s)
    <2>1. OneServer(s) /\ SameDoom(s) /\ server'[s].at = "note" /\ server[s].at = "start"
      BY <1>4, SInvTypes, StartStep DEF Start, At
    <2> QED  BY <1>1, <2>1, MoveSteady DEF Unbound
  <1>5. CASE Note(s) \/ RelayEnd(s) \/ StopBackend(s)
    <2>1. /\ Move(s, "accept") \/ Move(s, "over") \/ Move(s, "start")
          /\ server[s].at \in {"note", "bridge", "stop"}
      BY <1>5 DEF Note, RelayEnd, StopBackend, At, Bridging, Over
    <2>2. {"accept", "over", "start"} \subseteq Places \ Unbound
      BY DEF Places, Unbound
    <2> QED  BY <1>2, <2>1, <2>2 DEF Unbound
  <1>6. CASE Accept(s)
    <2>1. OneServer(s) /\ SameDoom(s) /\ server'[s].at = "bridge" /\ server[s].at = "accept"
      BY <1>6, SInvTypes, AcceptStep DEF Accept, At
    <2> QED  BY <1>1, <2>1, MoveSteady DEF Unbound
  <1>7. CASE ReadRequest(s) \/ Relay(s)
    <2>1. \/ server' = [server EXCEPT ![s].open = FALSE]
          \/ Move(s, "over") \/ UNCHANGED server
      BY <1>7 DEF ReadRequest, Relay, Over
    <2>2. server[s].at = "bridge"
      BY <1>7 DEF ReadRequest, Relay, Bridging, At
    <2>3. CASE server' = [server EXCEPT ![s].open = FALSE]
      <3>1. OneServer(s) /\ SameAt(s) /\ SameDoom(s)
        BY <2>3, SInvTypes, OpenStep
      <3> QED  BY <1>1, <3>1, StaySteady
    <2>4. CASE Move(s, "over")
      <3>1. "over" \in Places \ Unbound
        BY DEF Places, Unbound
      <3> QED  BY <1>2, <2>2, <2>4, <3>1 DEF Unbound
    <2> QED  BY <1>3, <2>1, <2>3, <2>4
  <1>8. CASE ReadEnd(s)
    <2>1. OneServer(s) /\ SameAt(s) /\ SameDoom(s)
      BY <1>8, SInvTypes, ShutInputStep DEF ReadEnd
    <2> QED  BY <1>1, <2>1, StaySteady
  <1>9. CASE CloseClient(s)
    <2>1. PICK alive : server' = [server EXCEPT ![s].cli = {},
                          ![s].at = IF server[s].input /\ alive THEN "accept" ELSE "stop"]
      BY <1>9 DEF CloseClient
    <2> DEFINE place == IF server[s].input /\ alive THEN "accept" ELSE "stop"
    <2>2. place \in {"accept", "stop"}
          /\ server' = [server EXCEPT ![s].cli = {}, ![s].at = place]
      BY <2>1
    <2> HIDE DEF place
    <2>3. place \in Places /\ server[s].at = "over"
      BY <1>9, <2>2 DEF Places, CloseClient, At
    <2>4. OneServer(s) /\ SameDoom(s) /\ server'[s].at = place
      BY <2>2, <2>3, SInvTypes, HangUpStep
    <2> QED  BY <1>1, <2>2, <2>3, <2>4, MoveSteady DEF Unbound
  <1>10. CASE ServerDies(s)
    <2>1. OneServer(s) /\ SameDoom(s) /\ server'[s].at = "dead"
      BY <1>10, SInvTypes, HangUpStep DEF ServerDies, Places
    <2>2. server[s].doomed /\ server[s].at \notin {"failed", "dead"}
      BY <1>10 DEF ServerDies, Live, Doomed
    <2>3. server[s].at \notin Unbound
      BY <2>2, SInvTypes DEF Wired, UnboundOK
    <2> QED  BY <1>1, <2>1, <2>2, <2>3, MoveSteady DEF Unbound
  <1>11. CASE Reset(s)
    <2>1. OneServer(s) /\ SameAt(s) /\ SameDoom(s)
      BY <1>11, BacklogStep, SInvTypes, EmptySeq DEF Reset
    <2> QED  BY <1>1, <2>1, StaySteady
  <1> QED  BY <1>4, <1>5, <1>6, <1>7, <1>8, <1>9, <1>10, <1>11

LEMMA ConnectSteady == ASSUME SInv, NEW c \in Clients, Connect(c) PROVE SteadyStep
  <1>1. UNCHANGED <<sock, pid, config, mgr, last, stray>>
    BY DEF Connect, ByClient, files
  <1>2. CASE sock # 0 /\ Listening(sock)
    <2>1. sock \in Servers /\ OneServer(sock) /\ SameAt(sock) /\ SameDoom(sock)
      BY <1>2, LinkIs
    <2> QED  BY <1>1, <2>1, StaySteady
  <1>3. CASE ~(sock # 0 /\ Listening(sock))
    BY <1>1, <1>3, StillSteady DEF Connect
  <1> QED  BY <1>2, <1>3

\* A server that starts has a manager that waits for it, and is at peace with
\* nobody else.
LEMMA StartingIs ==
    ASSUME SInv, Alone, Registry, NEW s \in Servers, server[s].at \in Starting
    PROVE  \E m \in Managers : /\ mgr[m].step = "ready" /\ mgr[m].new = s /\ Awaited(s)
                               /\ \A n \in Managers \ {m} : mgr[n] = Idle
  <1>1. PICK m \in Managers : mgr[m].step = "ready" /\ mgr[m].new = s
    BY DEF Registry
  <1>2. Awaited(s) /\ mgr[m] # Idle
    BY <1>1 DEF Registry, Stage, Idle
  <1> QED  BY <1>1, <1>2 DEF Alone

\* The server that is awaited gets on.
LEMMA AwaitedOn ==
    ASSUME SInv, Alone, Registry, NEW s \in Servers, server[s].at \in Starting, OneServer(s),
           Awaited(s) => Awaited(s)', UNCHANGED <<mgr, pid, stray>>
    PROVE  Registry'
  <1>1. PICK m \in Managers : /\ mgr[m].step = "ready" /\ mgr[m].new = s /\ Awaited(s)
                              /\ \A n \in Managers \ {m} : mgr[n] = Idle
    BY StartingIs
  <1>2. Servers' = Servers /\ Awaited(s)' /\ mgr' = mgr
    BY <1>1 DEF OneServer, Servers
  <1>3. pid = 0
    BY <1>1 DEF Registry, Stage
  <1>4. ASSUME NEW n \in Managers PROVE Stage(n)'
    <2>1. CASE n = m
      <3>1. mgr'[n].step = "ready" /\ mgr'[n].new = s
        BY <1>1, <1>2, <2>1
      <3>2. (Awaited(mgr[n].new))'
        BY <1>2, <3>1 DEF Awaited, NoName
      <3> QED  BY <1>3, <3>1, <3>2 DEF Stage
    <2>2. CASE n # m
      BY <1>1, <1>2, <2>2 DEF Stage, Idle
    <2> QED  BY <2>1, <2>2
  <1>5. ASSUME NEW t \in Servers, server'[t].at \in Starting PROVE t = s
    <2>1. CASE t # s
      <3>1. server[t].at \in Starting
        BY <1>5, <2>1 DEF OneServer
      <3>2. \E n \in Managers : mgr[n].step = "ready" /\ mgr[n].new = t
        BY <3>1 DEF Registry
      <3> QED  BY <1>1, <2>1, <3>2 DEF Idle
    <2> QED  BY <2>1
  <1>6. ~AtRest'
    BY <1>1, <1>2 DEF AtRest, Idle
  <1>7. \A t \in Servers : server'[t].at \in Starting =>
            \E n \in Managers : mgr'[n].step = "ready" /\ mgr'[n].new = t
    BY <1>1, <1>2, <1>5
  <1>8. stray' \subseteq Servers'
    BY <1>2 DEF Registry
  <1> QED  BY <1>2, <1>4, <1>6, <1>7, <1>8 DEF Registry

LEMMA ClearRegistry == ASSUME SInv, Alone, Registry, NEW s \in Servers, Clear(s) PROVE Registry'
  <1>1. /\ OneServer(s) /\ server'[s].at = "bind" /\ SameDoom(s) /\ server[s].at = "forked"
        /\ sock' = 0 /\ UNCHANGED <<mgr, pid, stray>>
    BY SInvTypes, MoveStep DEF Clear, At, Places, ByServer
  <1>2. Up(s)' <=> Up(s)
    BY <1>1 DEF Up, Live, Doomed, SameDoom
  <1>3. \A t \in Servers \ {s} : Up(t)' <=> Up(t)
    BY <1>1 DEF OneServer, Up, Live, Doomed
  <1>4. Awaited(s) => Awaited(s)'
    BY <1>1, <1>2, <1>3 DEF Awaited, OneServer, Servers, SameDoom, Unbound
  <1> QED  BY <1>1, <1>4, AwaitedOn DEF Starting

LEMMA BindRegistry == ASSUME SInv, Alone, Registry, NEW s \in Servers, Bind(s) PROVE Registry'
  <1>1. /\ server[s].at = "bind" /\ UNCHANGED <<mgr, pid, stray>>
        /\ \/ sock = 0 /\ sock' = s /\ Move(s, "start")
           \/ UNCHANGED sock /\ Move(s, "failed")
    BY DEF Bind, At, ByServer
  <1>2. "start" \in Places /\ "failed" \in Places
    BY DEF Places
  <1>3. /\ OneServer(s) /\ SameDoom(s)
        /\ \/ sock = 0 /\ sock' = s /\ server'[s].at = "start"
           \/ UNCHANGED sock /\ server'[s].at = "failed"
    BY <1>1, <1>2, SInvTypes, MoveStep
  <1>4. \A t \in Servers \ {s} : Up(t)' <=> Up(t)
    BY <1>3 DEF OneServer, Up, Live, Doomed
  <1>5. Awaited(s) => Awaited(s)'
    <2> SUFFICES ASSUME Awaited(s) PROVE Awaited(s)'
      OBVIOUS
    <2>1. /\ ~server[s].doomed /\ sock = 0 /\ s \notin stray
          /\ \A t \in Servers \ stray : Up(t) => t = s
      BY <1>1 DEF Awaited, Unbound
    <2>2. /\ ~server'[s].doomed /\ server'[s].at \in {"start", "failed"}
          /\ sock' = IF server'[s].at = "failed" THEN 0 ELSE s
      BY <1>3, <2>1 DEF SameDoom
    <2>3. Up(s)' <=> server'[s].at # "failed"
      BY <1>3, <2>2 DEF Up, Live, Doomed
    <2>4. Servers' = Servers
      BY <1>3 DEF OneServer, Servers
    <2> QED  BY <1>1, <1>4, <2>1, <2>2, <2>3, <2>4 DEF Awaited, Unbound
  <1> QED  BY <1>1, <1>3, <1>5, AwaitedOn DEF Starting

\* A server that binds, or cannot.
LEMMA BindOrderly ==
    ASSUME SInv, Orderly, NEW s \in Servers, Clear(s) \/ Bind(s)
    PROVE  Orderly'
  <1>1. UNCHANGED <<mgr, last, config>>
    BY DEF Clear, Bind, ByServer
  <1>2. SockHeld'
    <2>1. PICK place \in {"bind", "start", "failed"} :
               /\ Move(s, place)
               /\ place = "start" => sock' = s
      BY DEF Clear, Bind
    <2>2. OneServer(s) /\ SameDoom(s) /\ server'[s].at = place
      BY <2>1, SInvTypes, MoveStep DEF Places
    <2>3. s \in Servers' /\ s # 0
      BY <2>2, Sizes DEF OneServer, Servers
    <2>4. server[s].at \in Unbound
      BY DEF Clear, Bind, At, Unbound
    <2>5. ~server[s].doomed
      BY <2>4, SInvTypes DEF Wired, UnboundOK
    <2>6. CASE place = "start"
      BY <2>1, <2>2, <2>3, <2>5, <2>6 DEF SockHeld, SameDoom
    <2>7. CASE place \in {"bind", "failed"}
      BY <2>2, <2>3, <2>7 DEF SockHeld, Settled
    <2> QED  BY <2>1, <2>6, <2>7
  <1> QED  BY <1>1, <1>2 DEF Orderly, Alone, AtRest, Waiting

-----------------------------------------------------------------------------
(* One manager is in a call. *)

Sole(m) == \A n \in Managers \ {m} : mgr[n] = Idle

LEMMA InCall ==
    ASSUME Orderly, NEW m \in Managers, mgr[m] # Idle
    PROVE  Sole(m) /\ last = "none"
  BY DEF Orderly, Alone, Sole, AtRest

LEMMA CallOrderly ==
    ASSUME NEW m \in Managers, NEW step, Sole(m), OneManager(m, step),
           last' # "none" => mgr'[m] = Idle, last' = "create" => config' /\ SockHeld',
           Waiting(m)' => SockHeld'
    PROVE  Orderly'
  <1>1. \A n \in Managers \ {m} : mgr'[n] = Idle
    BY DEF OneManager, Sole
  <1>2. Alone' /\ (last' # "none" => AtRest')
    BY <1>1 DEF Alone, AtRest
  <1>3. ASSUME NEW n \in Managers, Waiting(n)' PROVE SockHeld'
    <2>1. n = m
      BY <1>1, <1>3 DEF Waiting, Idle
    <2> QED  BY <1>3, <2>1
  <1> QED  BY <1>2, <1>3 DEF Orderly

LEMMA CallRegistry ==
    ASSUME NEW m \in Managers, NEW step, Sole(m), OneManager(m, step), Stage(m)',
           \A s \in Servers' : server'[s].at \in Starting => step = "ready" /\ mgr'[m].new = s,
           mgr'[m] = Idle => Peace', stray' \subseteq Servers'
    PROVE  Registry'
  <1>1. \A n \in Managers \ {m} : mgr'[n] = Idle
    BY DEF OneManager, Sole
  <1>2. ASSUME NEW n \in Managers PROVE Stage(n)'
    <2>1. CASE n # m
      BY <1>1, <2>1 DEF Stage, Idle
    <2> QED  BY <2>1
  <1>3. \A s \in Servers' : server'[s].at \in Starting =>
            \E n \in Managers : mgr'[n].step = "ready" /\ mgr'[n].new = s
    BY DEF OneManager
  <1>4. AtRest' => Peace'
    BY DEF AtRest
  <1> QED  BY <1>2, <1>3, <1>4 DEF Registry

\* Only a manager that waits for it has a server that starts.
LEMMA NoneStarting ==
    ASSUME Registry, NEW m \in Managers, Sole(m), NEW s \in Servers, server[s].at \in Starting
    PROVE  mgr[m].step = "ready" /\ mgr[m].new = s
  <1>1. PICK n \in Managers : mgr[n].step = "ready" /\ mgr[n].new = s
    BY DEF Registry
  <1>2. n = m
    BY <1>1 DEF Sole, Idle
  <1> QED  BY <1>1, <1>2

\* A step of a call that leaves the servers alone.
LEMMA StillRegistry ==
    ASSUME Registry, NEW m \in Managers, NEW step, Sole(m), OneManager(m, step),
           mgr[m].step # "ready", UNCHANGED server, Stage(m)', mgr'[m] = Idle => Peace',
           stray' \subseteq Servers
    PROVE  Registry'
  <1>1. Servers' = Servers /\ \A s \in Servers' : server'[s].at \notin Starting
    BY NoneStarting DEF Servers
  <1> QED  BY <1>1, CallRegistry

\* Begin: nobody is in a call.
LEMMA BeginSole ==
    ASSUME NEW m \in Managers, NEW op, Begin(m, op), ~raced'
    PROVE  Sole(m) /\ AtRest /\ ~raced
  BY DEF Begin, Sole, AtRest

LEMMA BeginOrderly ==
    ASSUME SInv, NEW m \in Managers, NEW op \in {"create", "delete"}, Begin(m, op), ~raced'
    PROVE  Orderly'
  <1>1. OneManager(m, "kill") /\ Sole(m) /\ last' = "none"
    BY SInvTypes, BeginStep, BeginSole DEF Begin
  <1>2. ~Waiting(m)'
    BY <1>1 DEF Waiting, OneManager
  <1> QED  BY <1>1, <1>2, CallOrderly

LEMMA BeginRegistry ==
    ASSUME SInv, Registry, NEW m \in Managers, NEW op \in {"create", "delete"}, Begin(m, op),
           ~raced'
    PROVE  Registry'
  <1>1. OneManager(m, "kill") /\ Sole(m) /\ AtRest
    BY SInvTypes, BeginStep, BeginSole DEF Begin
  <1>2. UNCHANGED <<server, sock, pid, stray>> /\ stray \subseteq Servers
    BY DEF Begin, files, Registry
  <1>3. Named'
    BY <1>1, <1>2 DEF Registry, Peace, Named, OnlyUp, Servers, Up, Live, Doomed
  <1>4. Stage(m)'
    BY <1>1, <1>3 DEF Stage, OneManager
  <1>5. mgr[m].step # "ready" /\ mgr'[m] # Idle
    BY <1>1 DEF AtRest, Idle, OneManager
  <1> QED  BY <1>1, <1>2, <1>4, <1>5, StillRegistry

\* The steps at which nothing has to be held.
LEMMA QuietOrderly ==
    ASSUME Orderly, NEW m \in Managers, NEW step, mgr[m] # Idle, OneManager(m, step),
           step \notin {"ready", "register", "config"}, UNCHANGED last
    PROVE  Orderly'
  <1>1. Sole(m) /\ last' = "none"
    BY InCall
  <1>2. ~Waiting(m)'
    BY DEF Waiting, OneManager
  <1> QED  BY <1>1, <1>2, CallOrderly

\* A server is still held as nobody touches the servers and the path.
LEMMA StillHeldSock == ASSUME UNCHANGED <<server, sock>> PROVE SockHeld' <=> SockHeld
  BY DEF SockHeld, Settled, Servers

LEMMA InStep ==
    ASSUME NEW m \in Managers, mgr[m].step # "idle"
    PROVE  mgr[m] # Idle
  BY DEF Idle

LEMMA CallsOrderly ==
    ASSUME SInv, Orderly, NEW m \in Managers,
           \/ Kill(m) \/ Unlink(m) \/ KillBackend(m) \/ ForgetBackend(m) \/ Forget(m)
    PROVE  Orderly'
  <1>1. mgr[m] # Idle /\ UNCHANGED last
    BY InStep DEF Kill, Unlink, KillBackend, ForgetBackend, Forget, Managing
  <1>2. CASE Kill(m) \/ Unlink(m)
    <2>1. PICK step \in {"fork", "unlink", "kill_backend"}, found \in BOOLEAN :
               mgr' = [mgr EXCEPT ![m].found = found, ![m].step = step]
      BY <1>2, SInvTypes DEF Kill, Unlink, ManagerType, Calls
    <2>2. ManagerType /\ step \in CallSteps
      BY SInvTypes DEF CallSteps
    <2>3. OneManager(m, step)
      BY <2>1, <2>2, FoundStep
    <2> QED  BY <1>1, <2>3, QuietOrderly
  <1>3. CASE KillBackend(m) \/ ForgetBackend(m) \/ Forget(m)
    <2>1. PICK step \in {"forget_backend", "forget", "fork", "unconfig"} : Goto(m, step)
      BY <1>3 DEF KillBackend, ForgetBackend, Forget
    <2>2. OneManager(m, step)
      BY <2>1, SInvTypes, GotoStep DEF CallSteps
    <2> QED  BY <1>1, <2>1, <2>2, QuietOrderly
  <1> QED  BY <1>2, <1>3

LEMMA ForkOrderly == ASSUME SInv, Orderly, NEW m \in Managers, Fork(m) PROVE Orderly'
  <1>1. Sole(m) /\ last' = "none"
    BY InStep, InCall DEF Fork, Managing
  <1>2. CASE Forks
    <2>1. ManagerType /\ Len(server) + 1 \in Nat
          /\ mgr' = [mgr EXCEPT ![m].step = "ready", ![m].new = Len(server) + 1]
      BY <1>2, NoAppend, SInvTypes, Sizes DEF Fork, Forks
    <2>2. OneManager(m, "ready")
      BY <2>1, NewStep
    <2>3. SockHeld'
      BY <1>2, ForkedIs DEF SockHeld, Settled, NewServer
    <2> QED  BY <1>1, <2>2, <2>3, CallOrderly
  <1>3. CASE mgr' = [mgr EXCEPT ![m] = Idle]
    <2>1. OneManager(m, "idle")
      BY <1>3, SInvTypes, ReturnStep
    <2>2. mgr[m] # Idle /\ UNCHANGED last
      BY InStep DEF Fork, Managing
    <2> QED  BY <2>1, <2>2, QuietOrderly
  <1> QED  BY <1>2, <1>3 DEF Fork, Forks

LEMMA ReadyOrderly == ASSUME SInv, Orderly, NEW m \in Managers, Ready(m) PROVE Orderly'
  <1>1. Sole(m) /\ last' = "none" /\ UNCHANGED <<server, sock>>
    BY InStep, InCall DEF Ready, Managing, files
  <1>2. SockHeld'
    BY <1>1, StillHeldSock DEF Orderly, Waiting, Ready, Managing
  <1>3. CASE Goto(m, "register")
    <2>1. OneManager(m, "register")
      BY <1>3, SInvTypes, GotoStep DEF CallSteps
    <2> QED  BY <1>1, <1>2, <2>1, CallOrderly
  <1>4. CASE mgr' = [mgr EXCEPT ![m] = Idle]
    <2>1. OneManager(m, "idle")
      BY <1>4, SInvTypes, ReturnStep
    <2> QED  BY <1>1, <1>2, <2>1, CallOrderly
  <1> QED  BY <1>3, <1>4 DEF Ready

LEMMA RegisterOrderly == ASSUME SInv, Orderly, NEW m \in Managers, Register(m) PROVE Orderly'
  <1>1. Sole(m) /\ last' = "none" /\ UNCHANGED <<server, sock>>
    BY InStep, InCall DEF Register, Managing
  <1>2. SockHeld'
    BY <1>1, StillHeldSock DEF Orderly, Waiting, Register, Managing
  <1>3. CASE Goto(m, "config")
    <2>1. OneManager(m, "config")
      BY <1>3, SInvTypes, GotoStep DEF CallSteps
    <2> QED  BY <1>1, <1>2, <2>1, CallOrderly
  <1>4. CASE mgr' = [mgr EXCEPT ![m] = Idle]
    <2>1. OneManager(m, "idle")
      BY <1>4, SInvTypes, ReturnStep
    <2> QED  BY <1>1, <1>2, <2>1, CallOrderly
  <1> QED  BY <1>3, <1>4 DEF Register

LEMMA ConfigureOrderly == ASSUME SInv, Orderly, NEW m \in Managers, Configure(m) PROVE Orderly'
  <1>1. Sole(m) /\ last = "none" /\ UNCHANGED <<server, sock>>
    BY InStep, InCall DEF Configure, Managing
  <1>2. SockHeld'
    BY <1>1, StillHeldSock DEF Orderly, Waiting, Configure, Managing
  <1>3. CASE mgr' = [mgr EXCEPT ![m] = Idle]
    <2>1. OneManager(m, "idle") /\ mgr'[m] = Idle
      BY <1>3, SInvTypes, ReturnStep
    <2>2. last' = "create" => config'
      BY <1>1 DEF Configure
    <2> QED  BY <1>1, <1>2, <2>1, <2>2, CallOrderly
  <1>4. CASE mgr' = [mgr EXCEPT ![m].op = "undo", ![m].step = "kill"]
    <2>1. OneManager(m, "kill") /\ mgr'[m].op = "undo"
      BY <1>4, SInvTypes, UndoStep
    <2>3. mgr' # [mgr EXCEPT ![m] = Idle]
      BY <2>1, SInvTypes, ReturnStep DEF Idle
    <2>2. UNCHANGED last
      BY <2>3 DEF Configure
    <2> QED  BY <1>1, <1>2, <2>1, <2>2, CallOrderly
  <1> QED  BY <1>3, <1>4 DEF Configure

LEMMA UnconfigureOrderly ==
    ASSUME SInv, Orderly, NEW m \in Managers, Unconfigure(m)
    PROVE  Orderly'
  <1>1. Sole(m) /\ last = "none"
    BY InStep, InCall DEF Unconfigure, Managing
  <1>2. OneManager(m, "idle") /\ mgr'[m] = Idle
    BY SInvTypes, ReturnStep DEF Unconfigure
  <1>3. last' # "create" /\ ~Waiting(m)'
    BY <1>1, <1>2 DEF Unconfigure, Waiting, OneManager
  <1> QED  BY <1>1, <1>2, <1>3, CallOrderly

LEMMA DiesOrderly == ASSUME SInv, Orderly, NEW m \in Managers, ManagerDies(m) PROVE Orderly'
  <1>1. OneManager(m, "idle")
    BY SInvTypes, ReturnStep DEF ManagerDies
  <1> QED  BY <1>1, QuietOrderly DEF ManagerDies

LEMMA ManageOrderly ==
    ASSUME SInv, Orderly, NEW m \in Managers, Manage(m), ~raced'
    PROVE  Orderly'
  BY BeginOrderly, CallsOrderly, ForkOrderly, ReadyOrderly, RegisterOrderly, ConfigureOrderly,
     UnconfigureOrderly, DiesOrderly DEF Manage

\* Calls that have met have, and a manager that has died has.
LEMMA RacedStays == ASSUME SInv, [Next]_vars, ~raced' PROVE ~raced
  BY DEF Next, Manage, Begin, Kill, Unlink, KillBackend, ForgetBackend, Forget, Fork, Ready,
         Register, Configure, Unconfigure, ManagerDies, ByManager, Serve, ByServer, Clear, Bind,
         Start, Note, Accept, ReadRequest, ReadEnd, Relay, RelayEnd, CloseClient, StopBackend,
         ServerDies, Reset, ByClient, Answer, EndOfInput, BackendFails, ByBackend, Connect, Ask,
         Finish, Vanish, vars, history

LEMMA OrphanedStays == ASSUME SInv, [Next]_vars, ~orphaned' PROVE ~orphaned
  BY DEF Next, Manage, Begin, Kill, Unlink, KillBackend, ForgetBackend, Forget, Fork, Ready,
         Register, Configure, Unconfigure, ManagerDies, ByManager, Serve, ByServer, Clear, Bind,
         Start, Note, Accept, ReadRequest, ReadEnd, Relay, RelayEnd, CloseClient, StopBackend,
         ServerDies, Reset, ByClient, Answer, EndOfInput, BackendFails, ByBackend, Connect, Ask,
         Finish, Vanish, vars, history

\* Every step is that of a manager, that of a server that binds, or a steady one.
LEMMA NextSteady ==
    ASSUME SInv, [Next]_vars
    PROVE  \/ \E m \in Managers : Manage(m)
           \/ \E s \in Servers : Clear(s) \/ Bind(s)
           \/ SteadyStep
  <1>1. ASSUME NEW s \in Servers, Serve(s) \/ ServerDies(s) \/ Reset(s), ~(Clear(s) \/ Bind(s))
        PROVE  SteadyStep
    BY <1>1, ServeSteady DEF Serve
  <1>2. ASSUME NEW b \in Backends, Answer(b) \/ EndOfInput(b) \/ BackendFails(b)
        PROVE  SteadyStep
    BY <1>2, StillSteady DEF Answer, EndOfInput, BackendFails, ByBackend, files
  <1>3. ASSUME NEW c \in Clients, Connect(c) \/ Ask(c) \/ Finish(c) \/ Vanish(c)
        PROVE  SteadyStep
    BY <1>3, ConnectSteady, StillSteady DEF Ask, Finish, Vanish, ByClient, files
  <1>4. CASE UNCHANGED vars
    BY <1>4, StillSteady DEF vars, files, history
  <1> QED  BY <1>1, <1>2, <1>3, <1>4 DEF Next

LEMMA StepOrderly == ASSUME SInv, OrderInv, [Next]_vars PROVE OrderInv'
  <1> SUFFICES ASSUME ~raced', Orderly PROVE Orderly'
    BY RacedStays DEF OrderInv
  <1> QED  BY NextSteady, ManageOrderly, BindOrderly, SteadyOrderly

\* What a step that leaves the servers alone leaves true of them.
LEMMA SameUp ==
    ASSUME UNCHANGED <<server, stray>>
    PROVE  /\ NoneUp' <=> NoneUp
           /\ \A n : OnlyUp(n)' <=> OnlyUp(n)
           /\ Servers' = Servers
  BY DEF NoneUp, OnlyUp, Up, Live, Doomed, Servers

LEMMA KillRegistry ==
    ASSUME SInv, Orderly, Registry, NEW m \in Managers, Kill(m)
    PROVE  Registry'
  <1>1. /\ Sole(m) /\ mgr[m].step = "kill" /\ UNCHANGED <<sock, pid, stray>>
        /\ stray \subseteq Servers
    BY InStep, InCall DEF Kill, Managing, files, ByManager, Registry
  <1>2. Named /\ (\A s \in Servers : server[s].at \notin Starting)
    BY <1>1, NoneStarting DEF Registry, Stage
  <1> DEFINE step == IF pid = 0 /\ mgr[m].op = "create" THEN "fork" ELSE "unlink"
             found == pid # 0
  <1>3. mgr' = [mgr EXCEPT ![m].found = found, ![m].step = step]
    BY DEF Kill
  <1>4. step \in CallSteps /\ found \in BOOLEAN /\ step \in {"fork", "unlink"}
    BY DEF CallSteps
  <1>5. (pid # 0 => step = "unlink") /\ (found <=> pid # 0)
    OBVIOUS
  <1> HIDE DEF step, found
  <1>6. OneManager(m, step) /\ mgr'[m].found = found
    BY <1>3, <1>4, SInvTypes, FoundStep
  <1>7. mgr'[m].step = step /\ mgr'[m] # Idle
    BY <1>4, <1>6 DEF OneManager, Idle
  <1>8. CASE pid = 0
    <2>1. UNCHANGED server
      BY <1>8 DEF Kill
    <2>2. NoneUp /\ NoName
      BY <1>2, <1>8, Sizes DEF Named, OnlyUp, NoneUp, NoName
    <2>3. NoneUp' /\ NoName' /\ pid' = 0
      BY <1>1, <1>8, <2>1, <2>2, SameUp DEF NoName
    <2>4. Stage(m)'
      BY <1>4, <1>7, <2>3 DEF Stage
    <2> QED  BY <1>1, <1>6, <1>7, <2>1, <2>4, StillRegistry
  <1>9. CASE pid # 0
    <2>1. pid \in Servers /\ server' = [server EXCEPT ![pid].doomed = TRUE]
      BY <1>9, SInvTypes, Sizes DEF FileType, Kill
    <2>2. PICK s \in Servers : s = pid
      BY <2>1
    <2>3. OneServer(s) /\ server'[s].doomed = TRUE /\ SameAt(s)
      BY <2>1, <2>2, SInvTypes, KillStep
    <2>4. Servers' = Servers /\ \A t \in Servers : server'[t].at = server[t].at
      BY <2>3 DEF OneServer, Servers, SameAt
    <2>5. ASSUME NEW t \in Servers \ stray PROVE ~Up(t)'
      <3>1. CASE t = s
        BY <2>3, <3>1 DEF Up, Doomed
      <3>2. CASE t # s
        <4>1. ~Up(t) /\ server'[t] = server[t]
          BY <1>2, <2>2, <2>3, <3>2 DEF Named, OnlyUp, OneServer
        <4> QED  BY <4>1 DEF Up, Live, Doomed
      <3> QED  BY <3>1, <3>2
    <2>6. NoneUp' /\ stray' \subseteq Servers'
      BY <1>1, <2>4, <2>5 DEF NoneUp
    <2>7. Stage(m)'
      BY <1>5, <1>6, <1>7, <1>9, <2>6 DEF Stage
    <2> QED  BY <1>1, <1>2, <1>6, <1>7, <2>4, <2>6, <2>7, CallRegistry
  <1> QED  BY <1>8, <1>9

LEMMA UnlinkRegistry ==
    ASSUME SInv, Orderly, Registry, NEW m \in Managers, Unlink(m)
    PROVE  Registry'
  <1>1. /\ Sole(m) /\ mgr[m].step = "unlink" /\ UNCHANGED <<server, pid, stray>> /\ sock' = 0
        /\ stray \subseteq Servers
    BY InStep, InCall DEF Unlink, Managing, ByManager, Registry
  <1> DEFINE found == mgr[m].found \/ sock # 0
  <1>2. /\ mgr' = [mgr EXCEPT ![m].found = found, ![m].step = "kill_backend"]
        /\ found \in BOOLEAN /\ "kill_backend" \in CallSteps
    BY DEF Unlink, CallSteps
  <1>3. mgr[m].found => found
    OBVIOUS
  <1> HIDE DEF found
  <1>4. OneManager(m, "kill_backend") /\ mgr'[m].found = found
    BY <1>2, SInvTypes, FoundStep
  <1>5. NoneUp /\ (~mgr[m].found => pid = 0)
    BY <1>1 DEF Registry, Stage
  <1>6. Stage(m)'
    BY <1>1, <1>3, <1>4, <1>5, SameUp DEF Stage, OneManager
  <1> QED  BY <1>1, <1>4, <1>6, StillRegistry DEF OneManager, Idle

LEMMA BackendGoneRegistry ==
    ASSUME SInv, Orderly, Registry, NEW m \in Managers, KillBackend(m) \/ ForgetBackend(m)
    PROVE  Registry'
  <1>1. /\ Sole(m) /\ mgr[m].step \in {"kill_backend", "forget_backend"}
        /\ UNCHANGED <<server, sock, pid, stray>> /\ stray \subseteq Servers
    BY InStep, InCall DEF KillBackend, ForgetBackend, Managing, files, ByManager, Registry
  <1>2. PICK step \in {"forget_backend", "forget"} : Goto(m, step)
    BY DEF KillBackend, ForgetBackend
  <1>3. step \in CallSteps
    BY DEF CallSteps
  <1>4. OneManager(m, step) /\ mgr'[m].found = mgr[m].found
    BY <1>2, <1>3, SInvTypes, GotoStep
  <1>5. NoneUp /\ sock = 0 /\ (~mgr[m].found => pid = 0)
    BY <1>1 DEF Registry, Stage
  <1>6. Stage(m)'
    BY <1>1, <1>4, <1>5, SameUp DEF Stage, OneManager
  <1> QED  BY <1>1, <1>4, <1>6, StillRegistry DEF OneManager, Idle

LEMMA ForgetRegistry ==
    ASSUME SInv, Orderly, Registry, NEW m \in Managers, Forget(m)
    PROVE  Registry'
  <1>1. /\ Sole(m) /\ mgr[m].step = "forget" /\ UNCHANGED <<server, sock, stray>>
        /\ stray \subseteq Servers
    BY InStep, InCall DEF Forget, Managing, ByManager, Registry
  <1>2. PICK step \in {"fork", "unconfig"} : Goto(m, step)
    BY DEF Forget
  <1>3. step \in CallSteps
    BY DEF CallSteps
  <1>4. OneManager(m, step)
    BY <1>2, <1>3, SInvTypes, GotoStep
  <1>5. NoneUp /\ sock = 0 /\ (~mgr[m].found => pid = 0)
    BY <1>1 DEF Registry, Stage
  <1>6. pid' = 0
    BY <1>5 DEF Forget
  <1>7. Stage(m)'
    BY <1>1, <1>4, <1>5, <1>6, SameUp DEF Stage, NoName, OneManager
  <1> QED  BY <1>1, <1>4, <1>7, StillRegistry DEF OneManager, Idle

LEMMA ForkedRegistry ==
    ASSUME SInv, Orderly, Registry, NEW m \in Managers, Fork(m), Forks
    PROVE  Registry'
  <1> DEFINE new == Len(server) + 1
  <1>1. /\ Sole(m) /\ mgr[m].step = "fork" /\ UNCHANGED <<sock, pid, stray>>
        /\ stray \subseteq Servers
    BY InStep, InCall DEF Fork, Managing, files, ByManager, Registry
  <1>2. OneManager(m, "ready") /\ mgr'[m].new = new
    <2>1. ManagerType /\ new \in Nat
          /\ mgr' = [mgr EXCEPT ![m].step = "ready", ![m].new = new]
      BY NoAppend, SInvTypes, Sizes DEF Fork, Forks
    <2> HIDE DEF new
    <2> QED  BY <2>1, NewStep
  <1>3. NoneUp /\ NoName /\ pid = 0
    BY <1>1 DEF Registry, Stage
  <1>4. /\ Servers' = Servers \cup {new} /\ server'[new] = NewServer
        /\ \A t \in Servers : server'[t] = server[t]
        /\ new \notin Servers /\ new # 0
    BY ForkedIs
  <1> HIDE DEF new
  <1>5. server'[new].at = "forked" /\ ~server'[new].doomed
    BY <1>4 DEF NewServer
  <1>6. ASSUME NEW t \in Servers' \ stray' PROVE Up(t)' <=> t = new
    BY <1>1, <1>3, <1>4, <1>5 DEF NoneUp, Up, Live, Doomed
  <1>7. (Awaited(mgr[m].new))'
    BY <1>1, <1>2, <1>3, <1>4, <1>5, <1>6 DEF Awaited, NoName, Unbound
  <1>8. Stage(m)'
    BY <1>1, <1>2, <1>3, <1>7 DEF Stage, OneManager
  <1>9. ASSUME NEW s \in Servers', server'[s].at \in Starting PROVE s = new
    BY <1>1, <1>4, <1>9, NoneStarting
  <1>10. mgr'[m] # Idle
    BY <1>2 DEF OneManager, Idle
  <1>11. stray' \subseteq Servers'
    BY <1>1, <1>4
  <1> QED  BY <1>1, <1>2, <1>8, <1>9, <1>10, <1>11, CallRegistry

LEMMA ForkRegistry ==
    ASSUME SInv, Orderly, Registry, NEW m \in Managers, Fork(m)
    PROVE  Registry'
  <1>1. CASE UNCHANGED server /\ mgr' = [mgr EXCEPT ![m] = Idle]
    <2>1. /\ Sole(m) /\ last = "none" /\ mgr[m].step = "fork"
          /\ UNCHANGED <<server, sock, pid, stray, last>> /\ stray \subseteq Servers
      BY <1>1, InStep, InCall DEF Fork, Managing, files, ByManager, Registry
    <2>2. NoneUp /\ NoName /\ pid = 0
      BY <2>1 DEF Registry, Stage
    <2>3. OnlyUp(0)
      BY <2>1, <2>2, Sizes DEF NoneUp, OnlyUp
    <2>4. Named'
      BY <2>1, <2>2, <2>3 DEF Named, NoName, OnlyUp, Up, Live, Doomed, Servers
    <2>5. OneManager(m, "idle")
      BY <1>1, SInvTypes, ReturnStep
    <2>6. Stage(m)' /\ Peace'
      BY <2>1, <2>4, <2>5 DEF Stage, Peace, OneManager
    <2> QED  BY <2>1, <2>5, <2>6, StillRegistry
  <1> QED  BY <1>1, ForkedRegistry DEF Fork, Forks

LEMMA ReadyRegistry ==
    ASSUME SInv, Orderly, Registry, NEW m \in Managers, Ready(m)
    PROVE  Registry'
  <1>1. /\ Sole(m) /\ last = "none" /\ mgr[m].step = "ready"
        /\ UNCHANGED <<server, sock, pid, last, stray>> /\ stray \subseteq Servers
    BY InStep, InCall DEF Ready, Managing, files, ByManager, Registry
  <1>2. PICK n \in Servers : n = mgr[m].new
    BY <1>1, SInvTypes DEF ManagerType
  <1>3. Awaited(n) /\ pid = 0
    BY <1>1, <1>2 DEF Registry, Stage
  <1>4. CASE server[n].at \notin Unbound /\ Goto(m, "register")
    <2>1. "register" \in CallSteps
      BY DEF CallSteps
    <2>2. OneManager(m, "register") /\ mgr'[m].new = n
      BY <1>2, <1>4, <2>1, SInvTypes, GotoStep
    <2>3. sock = n /\ OnlyUp(n)
      BY <1>3, <1>4 DEF Awaited, OnlyUp, Unbound
    <2>4. Servers' = Servers /\ OnlyUp(n)' /\ sock' = n /\ pid' = 0 /\ stray' \subseteq Servers'
      BY <1>1, <1>3, <2>3, SameUp
    <2>5. (OnlyUp(mgr[m].new))'
      BY <2>2, <2>4 DEF OnlyUp
    <2>6. Stage(m)'
      BY <2>2, <2>4, <2>5 DEF Stage, OneManager
    <2>7. \A s \in Servers' : server'[s].at \notin Starting
      BY <1>1, <1>2, <1>4, <2>4, NoneStarting DEF Starting, Unbound
    <2>8. mgr'[m] # Idle
      BY <2>2 DEF OneManager, Idle
    <2> QED  BY <1>1, <2>2, <2>4, <2>6, <2>7, <2>8, CallRegistry
  <1>5. CASE server[n].at = "failed" /\ mgr' = [mgr EXCEPT ![m] = Idle]
    <2>1. OneManager(m, "idle")
      BY <1>5, SInvTypes, ReturnStep
    <2>2. sock = 0 /\ \A t \in Servers \ stray : ~Up(t)
      BY <1>3, <1>5 DEF Awaited, Unbound
    <2>3. OnlyUp(0)
      BY <1>1, <2>2, Sizes DEF OnlyUp
    <2>4. Named'
      BY <1>1, <1>3, <2>2, <2>3 DEF Named, OnlyUp, Up, Live, Doomed, Servers
    <2>5. Stage(m)' /\ Peace'
      BY <1>1, <2>1, <2>4 DEF Stage, Peace, OneManager
    <2>6. \A s \in Servers' : server'[s].at \notin Starting
      <3>1. Servers' = Servers
        BY <1>1, SameUp
      <3> QED  BY <1>1, <1>2, <1>5, <3>1, NoneStarting DEF Starting
    <2>7. stray' \subseteq Servers'
      BY <1>1, SameUp
    <2> QED  BY <1>1, <2>1, <2>5, <2>6, <2>7, CallRegistry
  <1> QED  BY <1>2, <1>4, <1>5 DEF Ready, Unbound

\* A server whose pid file could not be written is left with the socket.
LEMMA RegisterRegistry ==
    ASSUME SInv, Orderly, Registry, NEW m \in Managers, Register(m)
    PROVE  Registry'
  <1>1. /\ Sole(m) /\ mgr[m].step = "register" /\ last' = "none" /\ UNCHANGED <<server, sock>>
        /\ stray \subseteq Servers
    BY InStep, InCall DEF Register, Managing, Registry
  <1>2. PICK n \in Servers : n = mgr[m].new
    BY <1>1, SInvTypes DEF ManagerType
  <1>3. "config" \in CallSteps
    BY DEF CallSteps
  <1>5. sock = n /\ OnlyUp(n) /\ pid = 0
    BY <1>1, <1>2 DEF Registry, Stage
  <1>6. CASE pid' = mgr[m].new /\ Goto(m, "config") /\ UNCHANGED stray
    <2>1. OneManager(m, "config") /\ mgr'[m].new = n
      BY <1>2, <1>3, <1>6, SInvTypes, GotoStep
    <2>2. Servers' = Servers /\ OnlyUp(n)' /\ sock' = n /\ pid' = n
      BY <1>1, <1>2, <1>5, <1>6, SameUp
    <2>3. (OnlyUp(mgr[m].new))'
      BY <2>1, <2>2 DEF OnlyUp
    <2>4. Stage(m)'
      BY <2>1, <2>2, <2>3 DEF Stage, OneManager
    <2> QED  BY <1>1, <1>6, <2>1, <2>4, StillRegistry DEF OneManager, Idle
  <1>7. CASE /\ pid' \in {pid, 0} /\ mgr' = [mgr EXCEPT ![m] = Idle]
             /\ stray' = stray \cup {mgr[m].new}
    <2>1. OneManager(m, "idle")
      BY <1>7, SInvTypes, ReturnStep
    <2>2. Servers' = Servers /\ stray' = stray \cup {n} /\ pid' = 0 /\ sock' = n
      BY <1>1, <1>2, <1>5, <1>7 DEF Servers
    <2>3. ASSUME NEW t \in Servers \ stray' PROVE ~Up(t)'
      <3>1. ~Up(t)
        BY <1>5, <2>2, <2>3 DEF OnlyUp
      <3> QED  BY <1>1, <3>1 DEF Up, Live, Doomed
    <2>4. 0 \notin Servers
      BY Sizes
    <2>5. Named'
      BY <1>1, <1>2, <2>2, <2>3, <2>4 DEF Named, OnlyUp
    <2>6. Stage(m)' /\ Peace'
      BY <1>1, <2>1, <2>5 DEF Stage, Peace, OneManager
    <2>7. stray' \subseteq Servers
      BY <1>1, <1>2, <2>2
    <2> QED  BY <1>1, <2>1, <2>6, <2>7, StillRegistry
  <1> QED  BY <1>6, <1>7 DEF Register

LEMMA ConfigureRegistry ==
    ASSUME SInv, Orderly, Registry, NEW m \in Managers, Configure(m)
    PROVE  Registry'
  <1>1. /\ Sole(m) /\ last = "none" /\ mgr[m].step = "config"
        /\ UNCHANGED <<server, sock, pid, stray>> /\ stray \subseteq Servers
    BY InStep, InCall DEF Configure, Managing, ByManager, Registry
  <1>2. PICK n \in Servers : n = mgr[m].new
    BY <1>1, SInvTypes DEF ManagerType
  <1>3. sock = n /\ OnlyUp(n) /\ pid = n /\ n # 0
    BY <1>1, <1>2, Sizes DEF Registry, Stage
  <1>4. Named' /\ pid' # 0
    BY <1>1, <1>3 DEF Named, OnlyUp, Up, Live, Doomed, Servers
  <1>5. CASE mgr' = [mgr EXCEPT ![m] = Idle]
    <2>1. OneManager(m, "idle")
      BY <1>5, SInvTypes, ReturnStep
    <2>2. last' # "delete"
      BY <1>1 DEF Configure
    <2>3. Stage(m)' /\ Peace'
      BY <1>4, <2>1, <2>2 DEF Stage, Peace, OneManager
    <2> QED  BY <1>1, <2>1, <2>3, StillRegistry
  <1>6. CASE mgr' = [mgr EXCEPT ![m].op = "undo", ![m].step = "kill"]
    <2>1. OneManager(m, "kill")
      BY <1>6, SInvTypes, UndoStep
    <2>2. Stage(m)' /\ mgr'[m] # Idle
      BY <1>4, <2>1 DEF Stage, OneManager, Idle
    <2> QED  BY <1>1, <2>1, <2>2, StillRegistry
  <1> QED  BY <1>5, <1>6 DEF Configure

LEMMA UnconfigureRegistry ==
    ASSUME SInv, Orderly, Registry, NEW m \in Managers, Unconfigure(m)
    PROVE  Registry'
  <1>1. /\ Sole(m) /\ last = "none" /\ mgr[m].step = "unconfig"
        /\ UNCHANGED <<server, sock, pid, stray>> /\ stray \subseteq Servers
    BY InStep, InCall DEF Unconfigure, Managing, ByManager, Registry
  <1>2. NoneUp /\ sock = 0 /\ pid = 0
    BY <1>1 DEF Registry, Stage
  <1>3. OnlyUp(0)
    BY <1>1, <1>2, Sizes DEF NoneUp, OnlyUp
  <1>4. Named' /\ pid' = 0 /\ sock' = 0
    BY <1>1, <1>2, <1>3 DEF Named, OnlyUp, Up, Live, Doomed, Servers
  <1>5. OneManager(m, "idle")
    BY SInvTypes, ReturnStep DEF Unconfigure
  <1>6. last' # "create" /\ ~config'
    BY <1>1 DEF Unconfigure
  <1>7. Stage(m)' /\ Peace'
    BY <1>4, <1>5, <1>6 DEF Stage, Peace, OneManager
  <1> QED  BY <1>1, <1>5, <1>7, StillRegistry

LEMMA ManageRegistry ==
    ASSUME SInv, Orderly, Registry, NEW m \in Managers, Manage(m), ~raced', ~orphaned'
    PROVE  Registry'
  <1>1. ~ManagerDies(m)
    BY DEF ManagerDies
  <1> QED
    BY <1>1, BeginRegistry, KillRegistry, UnlinkRegistry, BackendGoneRegistry, ForgetRegistry,
       ForkRegistry, ReadyRegistry, RegisterRegistry, ConfigureRegistry, UnconfigureRegistry
       DEF Manage

LEMMA StepRegistry == ASSUME SInv, OrderInv, RegistryInv, [Next]_vars PROVE RegistryInv'
  <1> SUFFICES ASSUME ~raced', ~orphaned', Orderly, Registry PROVE Registry'
    BY RacedStays, OrphanedStays DEF OrderInv, RegistryInv
  <1>1. Alone
    BY DEF Orderly
  <1> QED
    BY <1>1, NextSteady, ManageRegistry, ClearRegistry, BindRegistry, SteadyRegistry

\* Calls that come one after the other leave a path that names a server nobody
\* has killed, or one is still binding it or has failed to: even after managers
\* have died within their calls.
THEOREM OrderInductive == Spec => []OrderInv
  <1>1. Init => OrderInv
    BY DEF Init, OrderInv, Orderly, Alone, AtRest, Waiting, Idle
  <1>2. SInv /\ OrderInv /\ [Next]_vars => OrderInv'
    BY StepOrderly
  <1> QED  BY <1>1, <1>2, Inductive, PTL DEF Spec

\* At each step of a call what the files name is what the call has left of the
\* servers whose pid file could be written, while no manager has died within a
\* call; a create that could not write it leaves its server with the socket, for
\* the next call to unlink.
THEOREM RegistryInductive == Spec => []RegistryInv
  <1>1. Init => RegistryInv
    <2> SUFFICES ASSUME Init PROVE Registry
      BY DEF RegistryInv
    <2>1. Servers = {}
      BY EmptySeq DEF Init, Servers
    <2> QED  BY <2>1 DEF Init, Registry, Stage, Peace, Named, OnlyUp, Idle
  <1>2. SInv /\ OrderInv /\ RegistryInv /\ [Next]_vars => RegistryInv'
    BY StepRegistry
  <1> QED  BY <1>1, <1>2, Inductive, OrderInductive, PTL DEF Spec

\* Registered: after a create the path names a server that runs, and unless a
\* manager died within a call the pid file names it too and it is the only one;
\* after a delete none runs (kc_dmn_run_update, kc_dmn_run_delete).  Left out are
\* the servers whose pid file could not be written: they go on, and no call stops
\* them.
THEOREM RegisteredAlways == Spec => []Registered
  <1>1. SInv /\ OrderInv /\ RegistryInv => Registered
    <2> SUFFICES ASSUME SInv, AtRest, Orderly, ~orphaned => Registry
                 PROVE  /\ last = "create" /\ (orphaned => Settled) =>
                               sock # 0 /\ Up(sock) /\ config
                        /\ ~orphaned => /\ {s \in Servers : Up(s)} \ stray = {pid} \ {0}
                                        /\ pid # 0 => pid = sock
                                        /\ last = "create" => pid # 0
                                        /\ last = "delete" => sock = 0 /\ pid = 0 /\ ~config
      BY DEF Registered, OrderInv, RegistryInv
    <2>1. pid # 0 => pid \in Servers
      BY SInvTypes, Sizes DEF FileType
    <2>2. sock # 0 => sock \in Servers
      BY SInvTypes, Sizes DEF FileType
    <2>3. 0 \notin Servers
      BY Sizes
    <2>4. ASSUME ~orphaned PROVE Named /\ Peace
      BY <2>4 DEF Registry, Peace
    <2>5. ASSUME ~orphaned PROVE {s \in Servers : Up(s)} \ stray = {pid} \ {0}
      <3>1. pid \notin stray /\ \A s \in Servers \ stray : Up(s) <=> s = pid
        BY <2>4, <2>5 DEF Named, OnlyUp
      <3> QED  BY <2>1, <2>3, <3>1
    <2>6. ASSUME last = "create", Settled PROVE sock # 0 /\ Up(sock)
      <3>1. sock # 0 /\ ~server[sock].doomed
        BY <2>6 DEF Orderly, SockHeld
      <3>2. sock \in Servers
        BY <2>2, <3>1
      <3>3. server[sock].at \notin {"failed", "dead"}
        BY <2>6, <3>1, <3>2, SInvTypes DEF Settled, Wired, DeadOK
      <3> QED  BY <3>1, <3>3 DEF Up, Live, Doomed
    <2>7. ASSUME last = "create", ~orphaned PROVE sock # 0 /\ Up(sock)
      <3>1. sock # 0 /\ sock = pid /\ sock \notin stray
        BY <2>4, <2>7 DEF Named, OnlyUp, Peace
      <3> QED  BY <2>2, <2>4, <2>7, <3>1 DEF Named, OnlyUp
    <2>8. last = "create" => config
      BY DEF Orderly
    <2> QED  BY <2>4, <2>5, <2>6, <2>7, <2>8 DEF Named, Peace
  <1> QED  BY <1>1, Inductive, OrderInductive, RegistryInductive, PTL

=============================================================================
