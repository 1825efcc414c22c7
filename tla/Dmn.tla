-------------------------------- MODULE Dmn --------------------------------
(***************************************************************************)
(* libdmn: one named daemon.  A server process listens on a socket and     *)
(* lends its one backend, a resident command behind two pipes, to one      *)
(* client after the other.  Managers (the processes that call              *)
(* kc_dmn_create, kc_dmn_set_cmd, kc_dmn_set_eot or kc_dmn_delete) start   *)
(* and replace the server by way of three files that name its socket, its  *)
(* process and its backend; nothing locks them.                            *)
(*                                                                         *)
(* An action is one system call of one process, or the stretch between two *)
(* that others can see.  A request is asked for as a whole once its EOT    *)
(* marker is written; its answer is two pieces, the second of which ends   *)
(* with the marker, and a read may return one or both.  SIGTERM takes      *)
(* effect later than the kill that sends it.  Backends do not ignore it,   *)
(* and end at the end of their input.                                      *)
(***************************************************************************)
EXTENDS Integers, Sequences, FiniteSets

CONSTANTS
    Clients,   \* processes that call kc_dmn_send_data, once each
    Managers,  \* processes that manage the daemon
    Loads      \* bound: the calls and the faults of a behaviour

\* creates, deletes: calls left; clients: who calls; vanish: clients that die
\* within their call; backend: backends that fail; manager: managers that die
\* within a call; config: forks, binds and writes of a file that fail.
Load == [creates : Nat, deletes : Nat, clients : SUBSET Clients, vanish : Nat,
         backend : Nat, manager : Nat, config : Nat]

ASSUME LoadsAssumption == \A load \in Loads : load \in Load

Piece(c, last) == [of |-> c, last |-> last]

VARIABLES
    sock,      \* the server whose socket the path names, or 0
    pid,       \* the server the pid file names, or 0
    bpid,      \* the backend the second pid file names, or 0
    config,    \* whether the configuration is there
    server,    \* the servers forked so far
    backend,   \* the backends forked so far
    client,    \* what each client is at
    mgr,       \* the call each manager is at
    raced,     \* history: two managers were in a call at once
    orphaned,  \* history: a manager has died in a call
    broken,    \* history: a backend has failed, or was killed or replaced
    deserted,  \* history: a client has gone between its request and its answer
    stray,     \* history: the servers whose pid file could not be written
    last,      \* history: the last call that succeeded, "none" within a call
    budget     \* bounds: calls and faults left

files   == <<sock, pid, bpid, config>>
history == <<raced, orphaned, broken, deserted, stray, last>>
vars == <<files, server, backend, client, mgr, history, budget>>

Servers  == 1..Len(server)
Backends == 1..Len(backend)

Live(s)   == server[s].at \notin {"failed", "dead"}
Doomed(s) == server[s].doomed
Spend(what) == budget' = [budget EXCEPT ![what] = @ - 1]

\* A server's listening socket is inherited by its backends.
Listening(s) ==
    \/ Live(s) /\ server[s].at \notin {"forked", "bind"}
    \/ \E b \in Backends : backend[b].by = s /\ backend[b].alive

\* The backend's input is open as long as its server holds it.
HasInput(b) == backend[b].input /\ Live(backend[b].by)

Idle == [op |-> "none", step |-> "idle", new |-> 0, found |-> FALSE]

-----------------------------------------------------------------------------
Init ==
    /\ sock = 0 /\ pid = 0 /\ bpid = 0 /\ config = FALSE
    /\ server = <<>> /\ backend = <<>>
    /\ client = [c \in Clients |-> [at |-> "idle", srv |-> 0, gone |-> FALSE,
                                    hung |-> FALSE, got |-> <<>>]]
    /\ mgr = [m \in Managers |-> Idle]
    /\ raced = FALSE /\ orphaned = FALSE /\ broken = FALSE /\ deserted = FALSE
    /\ stray = {} /\ last = "none"
    /\ budget \in Loads

-----------------------------------------------------------------------------
(* The managers: kc_dmn_run_update, kc_dmn_update_posix, kc_dmn_run_delete. *)

Managing(m, step) == mgr[m].step = step
Goto(m, step) == mgr' = [mgr EXCEPT ![m].step = step]

ByManager == UNCHANGED <<client, raced, orphaned, deserted, stray>>

Begin(m, op) ==
    /\ mgr[m] = Idle
    /\ LET kind == IF op = "create" THEN "creates" ELSE "deletes"
       IN  budget[kind] > 0 /\ Spend(kind)
    /\ mgr' = [mgr EXCEPT ![m] = [Idle EXCEPT !.op = op, !.step = "kill"]]
    /\ raced' = (raced \/ \E n \in Managers : n # m /\ mgr[n] # Idle)
    /\ last' = "none"
    /\ UNCHANGED <<files, server, backend, client, orphaned, broken, deserted, stray>>

\* Mutant: an update leaves the old server alone.
KillSkipped(m) ==
    /\ Managing(m, "kill")
    /\ mgr' = [mgr EXCEPT ![m].found = pid # 0, ![m].step =
                   IF pid = 0 /\ mgr[m].op = "create" THEN "fork" ELSE "unlink"]
    /\ ByManager /\ UNCHANGED <<files, server, backend, broken, last, budget>>

\* The pid file is read and its process killed.  Without one an update goes
\* straight to the fork.
Kill(m) ==
    /\ Managing(m, "kill")
    /\ mgr' = [mgr EXCEPT ![m].found = pid # 0, ![m].step =
                   IF pid = 0 /\ mgr[m].op = "create" THEN "fork" ELSE "unlink"]
    /\ server' = IF pid = 0 THEN server ELSE [server EXCEPT ![pid].doomed = TRUE]
    /\ broken' = (broken \/ pid # 0)
    /\ ByManager /\ UNCHANGED <<files, backend, last, budget>>

Unlink(m) ==
    /\ Managing(m, "unlink")
    /\ mgr' = [mgr EXCEPT ![m].found = @ \/ sock # 0, ![m].step = "kill_backend"]
    /\ sock' = 0
    /\ ByManager
    /\ UNCHANGED <<pid, bpid, config, server, backend, broken, last, budget>>

KillBackend(m) ==
    /\ Managing(m, "kill_backend") /\ Goto(m, "forget_backend")
    /\ backend' = IF bpid = 0 THEN backend ELSE [backend EXCEPT ![bpid].alive = FALSE]
    /\ broken' = (broken \/ bpid # 0)
    /\ ByManager /\ UNCHANGED <<files, server, last, budget>>

ForgetBackend(m) ==
    /\ Managing(m, "forget_backend") /\ Goto(m, "forget")
    /\ bpid' = 0
    /\ ByManager
    /\ UNCHANGED <<sock, pid, config, server, backend, broken, last, budget>>

Forget(m) ==
    /\ Managing(m, "forget")
    /\ Goto(m, IF mgr[m].op = "create" THEN "fork" ELSE "unconfig")
    /\ pid' = IF mgr[m].op = "create" \/ mgr[m].found THEN 0 ELSE pid
    /\ ByManager
    /\ UNCHANGED <<sock, bpid, config, server, backend, broken, last, budget>>

NewServer == [at |-> "forked", doomed |-> FALSE, backend |-> 0, cli |-> {},
              backlog |-> <<>>, open |-> FALSE, input |-> TRUE]

\* The pipe and the fork of the server, either of which may fail.
Fork(m) ==
    /\ Managing(m, "fork")
    /\ \/ /\ server' = Append(server, NewServer)
          /\ mgr' = [mgr EXCEPT ![m].step = "ready", ![m].new = Len(server) + 1]
          /\ UNCHANGED budget
       \/ /\ budget.config > 0 /\ Spend("config")
          /\ mgr' = [mgr EXCEPT ![m] = Idle] /\ UNCHANGED server
    /\ ByManager /\ UNCHANGED <<files, backend, broken, last>>

\* The parent hears from its server: it listens, or it could not.
Ready(m) ==
    /\ Managing(m, "ready")
    /\ LET s == server[mgr[m].new] IN
         \/ s.at \notin {"forked", "bind", "failed"} /\ Goto(m, "register")
         \/ s.at = "failed" /\ mgr' = [mgr EXCEPT ![m] = Idle]
    /\ ByManager /\ UNCHANGED <<files, server, backend, broken, last, budget>>

\* kc_dmn_write_pid.  When the file cannot be opened or, emptied, not written,
\* the call fails at once and leaves the server it has started, unnamed.
Register(m) ==
    /\ Managing(m, "register")
    /\ \/ /\ pid' = mgr[m].new /\ Goto(m, "config")
          /\ UNCHANGED <<stray, budget>>
       \/ /\ budget.config > 0 /\ Spend("config")
          /\ pid' \in {pid, 0} /\ mgr' = [mgr EXCEPT ![m] = Idle]
          /\ stray' = stray \cup {mgr[m].new}
    /\ UNCHANGED <<sock, bpid, config, server, backend, client, raced, orphaned, broken,
                   deserted, last>>

\* kc_dmn_write_config, which may lose what it cannot rewrite; a create that
\* fails here deletes what it has made, kc_dmn_set_cmd and kc_dmn_set_eot leave
\* it.
Configure(m) ==
    /\ Managing(m, "config")
    /\ \/ /\ config' = TRUE /\ last' = "create"
          /\ mgr' = [mgr EXCEPT ![m] = Idle] /\ UNCHANGED budget
       \/ /\ budget.config > 0 /\ Spend("config")
          /\ \/ mgr' = [mgr EXCEPT ![m].op = "undo", ![m].step = "kill"]
             \/ mgr' = [mgr EXCEPT ![m] = Idle]
          /\ config' \in {config, FALSE} /\ UNCHANGED last
    /\ ByManager /\ UNCHANGED <<sock, pid, bpid, server, backend, broken>>

\* kc_dmn_remove_config, at the end of a delete.
Unconfigure(m) ==
    /\ Managing(m, "unconfig")
    /\ config' = FALSE
    /\ last' = IF mgr[m].op = "delete" THEN "delete" ELSE last
    /\ mgr' = [mgr EXCEPT ![m] = Idle]
    /\ ByManager /\ UNCHANGED <<sock, pid, bpid, server, backend, broken, budget>>

\* The manager dies within its call.
ManagerDies(m) ==
    /\ mgr[m] # Idle
    /\ budget.manager > 0 /\ Spend("manager")
    /\ mgr' = [mgr EXCEPT ![m] = Idle] /\ orphaned' = TRUE
    /\ UNCHANGED <<files, server, backend, client, raced, broken, deserted, stray, last>>

-----------------------------------------------------------------------------
(* The server: kc_dmn_serve_loop and kc_dmn_bridge_client. *)

At(s, place) == server[s].at = place
Move(s, place) == server' = [server EXCEPT ![s].at = place]

ByServer == UNCHANGED <<pid, config, mgr, raced, orphaned, deserted, stray, last>>
Files    == UNCHANGED <<sock, bpid>>

\* The path is unlinked, whosever socket it names, and bound, which fails on a
\* path that another server has bound meanwhile.
Clear(s) ==
    /\ At(s, "forked") /\ Move(s, "bind")
    /\ sock' = 0
    /\ ByServer /\ UNCHANGED <<bpid, backend, client, broken, budget>>

Bind(s) ==
    /\ At(s, "bind")
    /\ \/ /\ sock = 0 /\ sock' = s
          /\ Move(s, "start") /\ UNCHANGED budget
       \/ /\ sock # 0 /\ Move(s, "failed") /\ UNCHANGED <<sock, budget>>
       \/ /\ budget.config > 0 /\ Spend("config")
          /\ Move(s, "failed") /\ UNCHANGED sock
    /\ ByServer /\ UNCHANGED <<bpid, backend, client, broken>>

\* kc_dmn_backend_start.
Start(s) ==
    /\ At(s, "start")
    /\ backend' = Append(backend, [alive |-> TRUE, by |-> s, input |-> TRUE,
                                   asked |-> <<>>, out |-> <<>>])
    /\ server' = [server EXCEPT ![s].at = "note", ![s].backend = Len(backend) + 1,
                                ![s].input = TRUE]
    /\ ByServer /\ Files /\ UNCHANGED <<client, broken, budget>>

\* The backend's pid file is written, or not: the server goes on without it.
Note(s) ==
    /\ At(s, "note") /\ Move(s, "accept")
    /\ \/ bpid' = server[s].backend /\ UNCHANGED budget
       \/ budget.config > 0 /\ Spend("config") /\ bpid' \in {bpid, 0}
    /\ ByServer /\ UNCHANGED <<sock, backend, client, broken>>

Accept(s) ==
    /\ At(s, "accept") /\ server[s].backlog # <<>>
    /\ server' = [server EXCEPT ![s] =
          [@ EXCEPT !.at = "bridge", !.cli = {Head(server[s].backlog)},
                    !.backlog = Tail(server[s].backlog), !.open = TRUE]]
    /\ ByServer /\ Files /\ UNCHANGED <<backend, client, broken, budget>>

Cli(s) == CHOOSE c \in server[s].cli : TRUE
Bridging(s) == At(s, "bridge")
Over(s) == Move(s, "over")

\* The request goes to the backend, up to its marker; a broken pipe ends the
\* exchange.
ReadRequest(s) ==
    /\ Bridging(s) /\ server[s].open /\ client[Cli(s)].at = "asked"
    /\ LET b == server[s].backend IN
         IF backend[b].alive
         THEN /\ backend' = [backend EXCEPT ![b].asked = Append(@, Cli(s))]
              /\ server' = [server EXCEPT ![s].open = FALSE]
         ELSE Over(s) /\ UNCHANGED backend
    /\ ByServer /\ Files /\ UNCHANGED <<client, broken, budget>>

\* The client has gone before its marker: the backend's input is closed, at
\* which it may still answer what it has read.
ReadEnd(s) ==
    /\ Bridging(s) /\ server[s].open
    /\ client[Cli(s)].gone /\ client[Cli(s)].at = "linked"
    /\ server' = [server EXCEPT ![s].open = FALSE, ![s].input = FALSE]
    /\ LET b == server[s].backend IN
         \E asked \in {backend[b].asked, Append(backend[b].asked, Cli(s))} :
           backend' = [backend EXCEPT ![b] = [@ EXCEPT !.input = FALSE, !.asked = asked]]
    /\ ByServer /\ Files /\ UNCHANGED <<client, broken, budget>>

\* Of the n pieces that were read the first k go on: all, or those up to the
\* first marker.
Through(pieces, n, k) ==
    /\ \A i \in 1..k - 1 : ~pieces[i].last
    /\ k < n => pieces[k].last

Drop(b, n) == backend' = [backend EXCEPT ![b].out = SubSeq(@, n + 1, Len(@))]

Deliver(c, pieces) ==
    client' = [client EXCEPT ![c].got = IF client[c].gone THEN @ ELSE @ \o pieces]

\* Mutant: whatever a read returns ends the exchange.
RelayOnce(s) ==
    /\ Bridging(s)
    /\ LET b   == server[s].backend
           out == backend[b].out
       IN  \E n \in 1..Len(out) : \E k \in 1..n :
             /\ Through(out, n, k)
             /\ Drop(b, n) /\ Deliver(Cli(s), SubSeq(out, 1, k)) /\ Over(s)
    /\ ByServer /\ Files /\ UNCHANGED <<broken, budget>>

\* What the backend has written goes to the client: to one that is there as far
\* as the marker, which ends the exchange; what was read past it is lost.
Relay(s) ==
    /\ Bridging(s)
    /\ LET b   == server[s].backend
           out == backend[b].out
       IN  \E n \in 1..Len(out) : \E k \in 1..n :
             /\ Through(out, n, k)
             /\ Drop(b, n) /\ Deliver(Cli(s), SubSeq(out, 1, k))
             /\ IF client[Cli(s)].gone \/ out[k].last THEN Over(s) ELSE UNCHANGED server
    /\ ByServer /\ Files /\ UNCHANGED <<broken, budget>>

\* Mutant: the end of the backend's output goes unnoticed.
RelayEndNever(s) == FALSE

\* The backend has ended: so does the exchange.
RelayEnd(s) ==
    /\ Bridging(s)
    /\ LET b == server[s].backend IN backend[b].out = <<>> /\ ~backend[b].alive
    /\ Over(s)
    /\ ByServer /\ Files /\ UNCHANGED <<backend, client, broken, budget>>

Hang(C) == client' = [c \in Clients |-> [client[c] EXCEPT !.hung = @ \/ c \in C]]

\* Mutant: a backend that lives is kept, its input open or not.
CloseUnlessDead(s) ==
    /\ At(s, "over") /\ Hang(server[s].cli)
    /\ server' = [server EXCEPT ![s].cli = {}, ![s].at =
          IF backend[server[s].backend].alive THEN "accept" ELSE "stop"]
    /\ ByServer /\ Files /\ UNCHANGED <<backend, broken, budget>>

\* The client's connection is closed, and the backend replaced if its input is
\* closed or it has ended; one that has just ended may still be taken for alive.
CloseClient(s) ==
    /\ At(s, "over") /\ Hang(server[s].cli)
    /\ \E alive \in {backend[server[s].backend].alive, TRUE} :
         server' = [server EXCEPT ![s].cli = {},
                        ![s].at = IF server[s].input /\ alive THEN "accept" ELSE "stop"]
    /\ ByServer /\ Files /\ UNCHANGED <<backend, broken, budget>>

StopBackend(s) ==
    /\ At(s, "stop") /\ Move(s, "start")
    /\ backend' = [backend EXCEPT ![server[s].backend].alive = FALSE]
    /\ ByServer /\ Files /\ UNCHANGED <<client, broken, budget>>

\* The kill takes effect.
ServerDies(s) ==
    /\ Live(s) /\ Doomed(s)
    /\ Hang(server[s].cli)
    /\ server' = [server EXCEPT ![s].cli = {}, ![s].at = "dead"]
    /\ ByServer /\ Files /\ UNCHANGED <<backend, broken, budget>>

Serve(s) ==
    \/ Clear(s) \/ Bind(s) \/ Start(s) \/ Note(s) \/ Accept(s)
    \/ ReadRequest(s) \/ ReadEnd(s) \/ Relay(s) \/ RelayEnd(s)
    \/ CloseClient(s) \/ StopBackend(s)

-----------------------------------------------------------------------------
(* The backend, a command that is external to the library. *)

ByBackend ==
    UNCHANGED <<files, server, client, mgr, raced, orphaned, deserted, stray, last>>

Answer(b) ==
    /\ backend[b].alive /\ backend[b].asked # <<>>
    /\ LET c == Head(backend[b].asked) IN
         backend' = [backend EXCEPT ![b].asked = Tail(@),
                                    ![b].out = @ \o <<Piece(c, FALSE), Piece(c, TRUE)>>]
    /\ ByBackend /\ UNCHANGED <<broken, budget>>

EndOfInput(b) ==
    /\ backend[b].alive /\ ~HasInput(b) /\ backend[b].asked = <<>>
    /\ backend' = [backend EXCEPT ![b].alive = FALSE]
    /\ ByBackend /\ UNCHANGED <<broken, budget>>

BackendFails(b) ==
    /\ backend[b].alive
    /\ budget.backend > 0 /\ Spend("backend")
    /\ backend' = [backend EXCEPT ![b].alive = FALSE]
    /\ broken' = TRUE
    /\ ByBackend

-----------------------------------------------------------------------------
(* The clients: kc_dmn_send_data. *)

ByClient == UNCHANGED <<files, backend, mgr, raced, orphaned, broken, stray, last>>

Connect(c) ==
    /\ client[c].at = "idle" /\ c \in budget.clients
    /\ IF sock # 0 /\ Listening(sock)
       THEN /\ client' = [client EXCEPT ![c].at = "linked", ![c].srv = sock]
            /\ server' = [server EXCEPT ![sock].backlog = Append(@, c)]
       ELSE /\ client' = [client EXCEPT ![c].at = "refused"]
            /\ UNCHANGED server
    /\ ByClient /\ UNCHANGED <<deserted, budget>>

\* The request and its marker are written, which fails on a closed connection.
Ask(c) ==
    /\ client[c].at = "linked" /\ ~client[c].gone
    /\ client' = [client EXCEPT ![c].at = IF client[c].hung THEN "failed" ELSE "asked"]
    /\ ByClient /\ UNCHANGED <<server, deserted, budget>>

Ended(c) == \E i \in DOMAIN client[c].got : client[c].got[i].last

\* kc_dmn_send_data returns KC_DMN_OK with the answer up to its marker or to the
\* end of the connection; a connection that is reset is an error.
Finish(c) ==
    /\ client[c].at = "asked" /\ ~client[c].gone
    /\ client[c].hung \/ Ended(c)
    /\ \E at \in IF Ended(c) THEN {"done"} ELSE {"done", "failed"} :
           client' = [client EXCEPT ![c].at = at]
    /\ ByClient /\ UNCHANGED <<server, deserted, budget>>

\* The client's process ends within the call.
Vanish(c) ==
    /\ client[c].at \in {"linked", "asked"} /\ ~client[c].gone
    /\ budget.vanish > 0 /\ Spend("vanish")
    /\ client' = [client EXCEPT ![c].gone = TRUE]
    /\ deserted' = (deserted \/ client[c].at = "asked")
    /\ ByClient /\ UNCHANGED server

\* The connections that nobody has accepted end with the last process that
\* holds the listening socket.
Reset(s) ==
    /\ ~Listening(s) /\ server[s].backlog # <<>>
    /\ Hang({server[s].backlog[i] : i \in DOMAIN server[s].backlog})
    /\ server' = [server EXCEPT ![s].backlog = <<>>]
    /\ ByClient /\ UNCHANGED <<deserted, budget>>

-----------------------------------------------------------------------------
Manage(m) ==
    \/ \E op \in {"create", "delete"} : Begin(m, op)
    \/ Kill(m) \/ Unlink(m) \/ KillBackend(m) \/ ForgetBackend(m) \/ Forget(m)
    \/ Fork(m) \/ Ready(m) \/ Register(m) \/ Configure(m) \/ Unconfigure(m)
    \/ ManagerDies(m)

Next ==
    \/ \E m \in Managers : Manage(m)
    \/ \E s \in Servers : Serve(s) \/ ServerDies(s) \/ Reset(s)
    \/ \E b \in Backends : Answer(b) \/ EndOfInput(b) \/ BackendFails(b)
    \/ \E c \in Clients : Connect(c) \/ Ask(c) \/ Finish(c) \/ Vanish(c)

Spec == Init /\ [][Next]_vars

\* Processes run: a server goes on with a client and a backend, and dies of a
\* signal; a backend answers, and ends with its input; a client that has
\* connected writes its request and reads.  Nobody has to call, and managers
\* may stop where they are.
Fairness ==
    /\ WF_vars(\E s \in Servers : Serve(s) \/ ServerDies(s) \/ Reset(s))
    /\ WF_vars(\E b \in Backends : Answer(b) \/ EndOfInput(b))
    /\ WF_vars(\E c \in Clients : Ask(c) \/ Finish(c))

FairSpec == Spec /\ Fairness

-----------------------------------------------------------------------------
(* Properties. *)

TypeOK ==
    /\ sock \in 0..Len(server) /\ pid \in 0..Len(server) /\ bpid \in 0..Len(backend)
    /\ \A s \in Servers :
         /\ server[s].at \in {"forked", "bind", "failed", "start", "note", "accept", "bridge",
                             "over", "stop", "dead"}
         /\ server[s].backend \in 0..Len(backend)
         /\ server[s].cli \subseteq Clients /\ Cardinality(server[s].cli) <= 1
         /\ server[s].backlog \in Seq(Clients)
    /\ \A c \in Clients :
         client[c].at \in {"idle", "linked", "asked", "done", "failed", "refused"}

\* A client is given only what answers its own request, as long as no client has
\* gone between its marker and its answer: one that goes before its marker, a
\* backend that fails or a server that is replaced leaves nothing to the next.
\* (After one that goes with its answer under way the next may be given it.)
OwnAnswer ==
    ~deserted =>
        \A c \in Clients : \A i \in DOMAIN client[c].got : client[c].got[i].of = c

\* "reads until the same EOT marker terminates the response": whatever other
\* clients do, a call returns without the end of an answer only if a backend has
\* failed or the daemon was replaced or deleted.  As long as no client has gone
\* between its marker and its answer, it is the caller's own answer, and whole.
AnswerWhole ==
    ~broken =>
        \A c \in Clients :
            client[c].at \in {"done", "failed"} =>
                /\ Ended(c)
                /\ ~deserted => client[c].got = <<Piece(c, FALSE), Piece(c, TRUE)>>

AtRest == \A m \in Managers : mgr[m] = Idle
Up(s)  == Live(s) /\ ~Doomed(s)
Settled == \A s \in Servers : server[s].at \notin {"forked", "bind", "failed"}

\* Between the calls of managers that come one after the other the files tell
\* the truth.  After a create, even one that follows another's death, the socket
\* is that of a server that runs, unless a server that a dead manager has left
\* behind is still at binding it, or has failed to.  Unless a manager died it is
\* also the one the pid file names, and after a delete nothing is named.  Then a
\* server runs that the pid file does not name only if the create that started
\* it failed to write the file: no later call stops that one.
Registered ==
    AtRest /\ ~raced =>
        /\ last = "create" /\ (orphaned => Settled) => sock # 0 /\ Up(sock) /\ config
        /\ ~orphaned => /\ {s \in Servers : Up(s)} \ stray = {pid} \ {0}
                        /\ pid # 0 => pid = sock
                        /\ last = "create" => pid # 0
                        /\ last = "delete" => sock = 0 /\ pid = 0 /\ ~config

\* A client that has asked is answered, or told that it will not be, unless it
\* dies: no other client, no backend that fails and no manager keeps it waiting.
Served ==
    \A c \in Clients :
        client[c].at = "asked" ~> client[c].at \in {"done", "failed"} \/ client[c].gone

=============================================================================
