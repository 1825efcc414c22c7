-------------------------------- MODULE Netl --------------------------------
(***************************************************************************)
(* libnetl: one TCP interface.  It owns a listening socket, whose peers    *)
(* are the accepted connections, and at most one outgoing socket at a      *)
(* time, made by kc_netl_send when there is no connection and replaced     *)
(* when it was lost.  Every socket has a worker thread of its own and a    *)
(* mutex.  An action is a region between a lock and the unlock, a system   *)
(* call, or the beginning or end of a callback.                            *)
(*                                                                         *)
(* The application calls kc_netl_send and kc_netl_close from a thread of   *)
(* its own or from a callback, one call at a time; the two use the fields  *)
(* of the interface without a lock, as do the workers.  It uses a peer     *)
(* until the disconnect callback of that peer.                             *)
(*                                                                         *)
(* Bytes are counted by chunks.  The peers that a poll found ready are     *)
(* served in any order, where the code takes the list's.                   *)
(***************************************************************************)
EXTENDS Integers, Sequences, FiniteSets

CONSTANTS
    MaxAccepts,  \* bound: connections accepted
    MaxConnects, \* bound: connections made by kc_netl_send
    MaxData,     \* bound: chunks that come in
    MaxChunks,   \* bound: calls of kc_netl_send and kc_netl_peer_send
    MaxHangups,  \* bound: connections that the remote side ends
    MaxFails,    \* bound: polls, accepts or allocations that fail
    CloseInside  \* bound: whether a callback may call kc_netl_close

ASSUME BoundsAssumption ==
    /\ MaxAccepts \in Nat /\ MaxConnects \in Nat /\ MaxData \in Nat
    /\ MaxChunks \in Nat /\ MaxHangups \in Nat /\ MaxFails \in Nat
    /\ CloseInside \in BOOLEAN

Listening == 0
Outgoing  == 1..MaxConnects
Socks     == {Listening} \cup Outgoing
App       == -1             \* the application's thread

Home(p) == p[1]             \* peer->listener
Peers   == ({Listening} \X (1..MaxAccepts)) \cup (Outgoing \X {1})
NoPeer  == <<-1, 0>>
NoSock  == -1

Idle == [op |-> "none", by |-> App, pc |-> "idle", peer |-> NoPeer]
Call == [op : {"none", "send", "close"}, by : Socks \cup {App},
         pc : {"idle", "look", "stop_out", "join_out", "connect", "store", "use",
               "queue", "stop_lis", "join_lis", "free"},
         peer : Peers \cup {NoPeer}]

VARIABLES
    ipeer,    \* interface->peer
    iout,     \* interface->outgoing
    open,     \* the interface is not freed yet
    call,     \* the call of kc_netl_send or kc_netl_close under way
    sock,     \* per socket: "none", "running" or "destroyed"
    stop,     \* per socket: stop
    self,     \* per socket: self_close
    peer,     \* per peer: "none", "open", "closed" or "freed"
    closing,  \* per peer: closing
    taken,    \* history: chunks queued for the peer
    sent,     \* history: chunks handed to the system, the rest is out_head
    line,     \* per peer: the connection is "up", at "eof", or "broken"
    incoming, \* per peer: chunks that wait in the system
    pc,       \* per socket: where its worker is
    batch,    \* per socket: the peers a poll found ready, with the event
    cur,      \* per socket: the peer of the callback
    then,     \* per socket: where a finished peer leads back to
    got,      \* history, per peer: callbacks made
    errors,   \* history, per socket: error callbacks made
    budget    \* bounds: what is left

ifaceVars  == <<ipeer, iout, open, call>>
sockVars   == <<sock, stop, self>>
peerVars   == <<peer, closing, taken, sent>>
lineVars   == <<line, incoming>>
workerVars == <<pc, batch, cur, then>>
history    == <<got, errors>>
vars == <<ifaceVars, sockVars, peerVars, lineVars, workerVars, history, budget>>

Spend(what) == budget' = [budget EXCEPT ![what] = @ - 1]
Empty == [p \in {} |-> "in"]

Queued(p)  == taken[p] - sent[p]
PeersOf(s) == {p \in Peers : Home(p) = s /\ peer[p] = "open"}

-----------------------------------------------------------------------------
\* kc_netl_open of a TCP interface: the listening socket and its worker run.
Init ==
    /\ ipeer    = NoPeer
    /\ iout     = NoSock
    /\ open     = TRUE
    /\ call     = Idle
    /\ sock     = [s \in Socks |-> IF s = Listening THEN "running" ELSE "none"]
    /\ stop     = [s \in Socks |-> FALSE]
    /\ self     = [s \in Socks |-> FALSE]
    /\ peer     = [p \in Peers |-> "none"]
    /\ closing  = [p \in Peers |-> FALSE]
    /\ taken    = [p \in Peers |-> 0]
    /\ sent     = [p \in Peers |-> 0]
    /\ line     = [p \in Peers |-> "up"]
    /\ incoming = [p \in Peers |-> 0]
    /\ pc       = [s \in Socks |-> "top"]
    /\ batch    = [s \in Socks |-> Empty]
    /\ cur      = [s \in Socks |-> NoPeer]
    /\ then     = [s \in Socks |-> "reap"]
    /\ got      = [p \in Peers |-> <<>>]
    /\ errors   = [s \in Socks |-> 0]
    /\ budget   = [data |-> MaxData, chunk |-> MaxChunks, hangup |-> MaxHangups,
                   fail |-> MaxFails]

-----------------------------------------------------------------------------
(* The remote ends. *)

\* A chunk comes in, the remote end stops sending, or the connection breaks.
Remote(p) ==
    /\ peer[p] = "open" /\ line[p] = "up"
    /\ \/ /\ budget.data > 0 /\ Spend("data")
          /\ incoming' = [incoming EXCEPT ![p] = @ + 1]
          /\ UNCHANGED line
       \/ /\ budget.hangup > 0 /\ Spend("hangup")
          /\ \E end \in {"eof", "broken"} : line' = [line EXCEPT ![p] = end]
          /\ UNCHANGED incoming
    /\ UNCHANGED <<ifaceVars, sockVars, peerVars, workerVars, history>>

-----------------------------------------------------------------------------
(* The calls on a peer, from any thread. *)

\* The application knows a peer by its callbacks, up to the disconnect; once it
\* closes the interface it uses none.
Known(p) ==
    /\ got[p] # <<>> /\ \A i \in 1..Len(got[p]) : got[p][i] = "receive"
    /\ sock[Home(p)] = "running"
    /\ open /\ call.op # "close"

\* kc_netl_peer_send: queued at the tail, or KC_NETL_ECLOSED.
Queue(p) ==
    IF peer[p] = "closed" \/ closing[p] \/ stop[Home(p)]
    THEN UNCHANGED taken
    ELSE taken' = [taken EXCEPT ![p] = @ + 1]

PeerSend(p) ==
    /\ Known(p) /\ budget.chunk > 0 /\ Spend("chunk")
    /\ Queue(p)
    /\ UNCHANGED <<ifaceVars, sockVars, peer, closing, sent, lineVars, workerVars,
                   history>>

\* Mutant: the peer is closed on the spot.
PeerCloseNow(p) ==
    /\ Known(p) /\ peer[p] = "open"
    /\ peer' = [peer EXCEPT ![p] = "freed"]
    /\ closing' = [closing EXCEPT ![p] = TRUE]
    /\ UNCHANGED <<ifaceVars, sockVars, taken, sent, lineVars, workerVars, history,
                   budget>>

\* kc_netl_peer_close: the worker closes it once nothing is queued.
PeerClose(p) ==
    /\ Known(p) /\ peer[p] = "open"
    /\ closing' = [closing EXCEPT ![p] = TRUE]
    /\ UNCHANGED <<ifaceVars, sockVars, peer, taken, sent, lineVars, workerVars,
                   history, budget>>

-----------------------------------------------------------------------------
(* kc_netl_send and kc_netl_close. *)

Goto(step)  == call' = [call EXCEPT !.pc = step]
EndCall     == call' = Idle
InCallback == {s \in Socks : pc[s] \in {"receive", "disconnect", "error"}}

\* A thread begins a call: the application's, or a worker in a callback.
SendCall(t) ==
    /\ call = Idle /\ open
    /\ budget.chunk > 0 /\ Spend("chunk")
    /\ call' = [op |-> "send", by |-> t, pc |-> "look", peer |-> NoPeer]
    /\ UNCHANGED <<ipeer, iout, open, sockVars, peerVars, lineVars, workerVars, history>>

CloseCall(t) ==
    /\ call = Idle /\ open
    /\ t # App => CloseInside
    /\ call' = [op |-> "close", by |-> t, pc |-> "stop_out", peer |-> NoPeer]
    /\ UNCHANGED <<ipeer, iout, open, sockVars, peerVars, lineVars, workerVars, history,
                   budget>>

\* Is there a connection?
Look ==
    /\ call.pc = "look"
    /\ Goto(IF ipeer = NoPeer THEN "stop_out" ELSE "use")
    /\ UNCHANGED <<ipeer, iout, open, sockVars, peerVars, lineVars, workerVars, history,
                   budget>>

\* Where a call goes on after the outgoing socket.
PastOutgoing == IF call.op = "send" THEN "connect" ELSE "stop_lis"

\* Mutant: a worker that closes its own socket waits for itself.
StoppingAlike(s, join, past) ==
    /\ stop' = [stop EXCEPT ![s] = TRUE]
    /\ self' = [self EXCEPT ![s] = @ \/ call.by = s]
    /\ Goto(join)
    /\ UNCHANGED sock

\* Mutant: the release is left to nobody.
StoppingOnly(s, join, past) ==
    /\ stop' = [stop EXCEPT ![s] = TRUE]
    /\ Goto(IF call.by = s THEN past ELSE join)
    /\ UNCHANGED <<sock, self>>

\* kc_netl_socket_close up to the join: a worker that closes its own socket
\* does not wait for itself, and leaves the release to the end of its thread.
Stopping(s, join, past) ==
    /\ stop' = [stop EXCEPT ![s] = TRUE]
    /\ self' = [self EXCEPT ![s] = @ \/ call.by = s]
    /\ Goto(IF call.by = s THEN past ELSE join)
    /\ UNCHANGED sock

\* kc_netl_destroy: the peers go without a callback.
Destroy(s) ==
    /\ sock' = [sock EXCEPT ![s] = "destroyed"]
    /\ peer' = [p \in Peers |-> IF Home(p) = s /\ peer[p] # "none" THEN "freed"
                                ELSE peer[p]]

\* The outgoing socket, if there is one, is closed and forgotten.
StopOutgoing ==
    /\ call.pc = "stop_out"
    /\ IF iout = NoSock
       THEN Goto(PastOutgoing) /\ UNCHANGED <<iout, sockVars>>
       ELSE /\ Stopping(iout, "join_out", PastOutgoing)
            /\ iout' = IF call'.pc = "join_out" THEN iout ELSE NoSock
    /\ UNCHANGED <<ipeer, open, peerVars, lineVars, workerVars, history, budget>>

\* Mutant: nobody waits for the worker.
JoinOutgoingNever ==
    /\ call.pc = "join_out"
    /\ Destroy(iout)
    /\ iout' = NoSock
    /\ Goto(PastOutgoing)
    /\ UNCHANGED <<ipeer, open, stop, self, closing, taken, sent, lineVars, workerVars,
                   history, budget>>

JoinOutgoing ==
    /\ call.pc = "join_out" /\ pc[iout] = "ended"
    /\ Destroy(iout)
    /\ iout' = NoSock
    /\ Goto(PastOutgoing)
    /\ UNCHANGED <<ipeer, open, stop, self, closing, taken, sent, lineVars, workerVars,
                   history, budget>>

\* Mutant: the call returns while the worker still runs.
StopListeningOnly ==
    /\ call.pc = "stop_lis"
    /\ Stopping(Listening, "free", "free")
    /\ UNCHANGED <<ipeer, iout, open, peerVars, lineVars, workerVars, history, budget>>

StopListening ==
    /\ call.pc = "stop_lis"
    /\ Stopping(Listening, "join_lis", "free")
    /\ UNCHANGED <<ipeer, iout, open, peerVars, lineVars, workerVars, history, budget>>

JoinListening ==
    /\ call.pc = "join_lis" /\ pc[Listening] = "ended"
    /\ Destroy(Listening)
    /\ Goto("free")
    /\ UNCHANGED <<ipeer, iout, open, stop, self, closing, taken, sent, lineVars,
                   workerVars, history, budget>>

\* The interface is freed and kc_netl_close returns.
Free ==
    /\ call.pc = "free"
    /\ open' = FALSE
    /\ EndCall
    /\ UNCHANGED <<ipeer, iout, sockVars, peerVars, lineVars, workerVars, history, budget>>

\* kc_netl_socket_connect: a connection is made and its worker started, or not.
Connect ==
    /\ call.pc = "connect"
    /\ \/ /\ EndCall
          /\ UNCHANGED <<sock, peer>>
       \/ \E s \in Outgoing :
            /\ sock[s] = "none" /\ \A r \in Outgoing : r < s => sock[r] # "none"
            /\ sock' = [sock EXCEPT ![s] = "running"]
            /\ peer' = [peer EXCEPT ![<<s, 1>>] = "open"]
            /\ call' = [call EXCEPT !.pc = "store", !.peer = <<s, 1>>]
    /\ ipeer' = NoPeer
    /\ UNCHANGED <<iout, open, stop, self, closing, taken, sent, lineVars, workerVars,
                   history, budget>>

\* The worker runs already when the interface learns of its peer.
Store ==
    /\ call.pc = "store"
    /\ ipeer' = call.peer
    /\ iout' = Home(call.peer)
    /\ Goto("use")
    /\ UNCHANGED <<open, sockVars, peerVars, lineVars, workerVars, history, budget>>

\* interface->peer is read again, and given to kc_netl_peer_send.
Use ==
    /\ call.pc = "use"
    /\ IF ipeer = NoPeer THEN EndCall
       ELSE call' = [call EXCEPT !.pc = "queue", !.peer = ipeer]
    /\ UNCHANGED <<ipeer, iout, open, sockVars, peerVars, lineVars, workerVars, history,
                   budget>>

\* kc_netl_peer_send.  Of a peer freed meanwhile nothing is assumed: here the
\* chunk is lost.
UseQueue ==
    /\ call.pc = "queue"
    /\ IF peer[call.peer] = "freed" THEN UNCHANGED taken ELSE Queue(call.peer)
    /\ EndCall
    /\ UNCHANGED <<ipeer, iout, open, sockVars, peer, closing, sent, lineVars,
                   workerVars, history, budget>>

-----------------------------------------------------------------------------
(* The worker of a socket. *)

Only(f, S) == [p \in DOMAIN f \cap S |-> f[p]]
Moves(s, step) == pc' = [pc EXCEPT ![s] = step]

\* kc_netl_worker_entry, past the loop: a socket closed by its own worker is
\* released here.
Ends(s) ==
    /\ Moves(s, "ended")
    /\ batch' = [batch EXCEPT ![s] = Empty]
    /\ IF self[s] THEN Destroy(s) ELSE UNCHANGED <<sock, peer>>

\* kc_netl_should_stop, at the head of the loop and before the poll.
ShouldStop(s) ==
    /\ pc[s] \in {"top", "again"}
    /\ IF stop[s] THEN Ends(s)
       ELSE /\ Moves(s, IF pc[s] = "top" THEN "reap" ELSE "build")
            /\ UNCHANGED <<batch, sock, peer>>
    /\ UNCHANGED <<ifaceVars, stop, self, closing, taken, sent, lineVars, cur, then,
                   history, budget>>

\* kc_netl_peer_finish under the lock: closed and out of the list.
Finish(s, p, back) ==
    /\ peer' = [peer EXCEPT ![p] = "closed"]
    /\ cur' = [cur EXCEPT ![s] = p]
    /\ then' = [then EXCEPT ![s] = back]
    /\ Moves(s, "notify")

\* Mutant: what is queued is not waited for.
DueUnsent(s) == {p \in PeersOf(s) : closing[p]}

\* kc_netl_close_requested_peers: closing, with nothing queued.
Due(s) == {p \in PeersOf(s) : closing[p] /\ Queued(p) = 0}

Reap(s) ==
    /\ pc[s] = "reap"
    /\ \/ \E p \in Due(s) : Finish(s, p, "reap")
       \/ /\ Due(s) = {}
          /\ Moves(s, "again")
          /\ UNCHANGED <<peer, cur, then>>
    /\ UNCHANGED <<ifaceVars, sockVars, closing, taken, sent, lineVars, batch, history,
                   budget>>

\* Mutant: nobody waits for room to write.
AskedInput(p) == IF closing[p] THEN {} ELSE {"in"}

\* What is asked of the poll: no input of a peer that is closing.
Asked(p) == (IF closing[p] THEN {} ELSE {"in"}) \cup (IF Queued(p) > 0 THEN {"out"} ELSE {})

\* The poll set; the worker of an outgoing socket ends with its connection.
Build(s) ==
    /\ pc[s] = "build"
    /\ IF s # Listening /\ PeersOf(s) = {} THEN Ends(s)
       ELSE /\ batch' = [batch EXCEPT ![s] = [p \in PeersOf(s) |-> Asked(p)]]
            /\ Moves(s, "poll")
            /\ UNCHANGED <<sock, peer>>
    /\ UNCHANGED <<ifaceVars, stop, self, closing, taken, sent, lineVars, cur, then,
                   history, budget>>

\* What the poll reports of p, for which `asked' was asked.
Ready(p, asked, room) ==
    {e \in asked : \/ e = "in" /\ (incoming[p] > 0 \/ line[p] # "up")
                   \/ e = "out" /\ (p \in room \/ line[p] = "broken")}
    \cup (IF line[p] = "broken" THEN {"hangup"} ELSE {})

Accepting(s) == {p \in Peers : s = Listening /\ Home(p) = s /\ peer[p] = "none"}

\* The poll returns: with the peers that can be read, with those of `room' that
\* can be written, and with a connection to accept or none.
Poll(s, room, accept) ==
    /\ pc[s] = "poll"
    /\ accept => Accepting(s) # {}
    /\ LET events == [p \in DOMAIN batch[s] |-> Ready(p, batch[s][p], room)]
       IN  batch' = [batch EXCEPT ![s] =
                         Only(events, {p \in DOMAIN events : events[p] # {}})]
    /\ Moves(s, IF accept THEN "accept"
                ELSE IF DOMAIN batch'[s] = {} THEN "top" ELSE "batch")
    /\ UNCHANGED <<ifaceVars, sockVars, peerVars, lineVars, cur, then, history, budget>>

\* kc_netl_fail: the error callback is made; the worker ends after it.
Fail(s) ==
    /\ budget.fail > 0 /\ Spend("fail")
    /\ stop' = [stop EXCEPT ![s] = TRUE]
    /\ errors' = [errors EXCEPT ![s] = @ + 1]
    /\ Moves(s, "error")

\* No memory for the poll set, or the poll fails.
PollFails(s) ==
    /\ pc[s] \in {"build", "poll"} /\ (s # Listening => PeersOf(s) # {})
    /\ Fail(s)
    /\ UNCHANGED <<ifaceVars, sock, self, peerVars, lineVars, batch, cur, then, got>>

\* kc_netl_accept_peer.
Accepted(s) ==
    \E p \in Accepting(s) :
        /\ \A r \in Accepting(s) : p[2] <= r[2]
        /\ peer' = [peer EXCEPT ![p] = "open"]

Accept(s) ==
    /\ pc[s] = "accept"
    /\ Accepted(s)
    /\ Moves(s, "batch")
    /\ UNCHANGED <<ifaceVars, sockVars, closing, taken, sent, lineVars, batch, cur, then,
                   history, budget>>

\* The accept fails, or the listening socket has an error.
AcceptFails(s) ==
    /\ pc[s] = "accept"
    /\ Accepted(s) \/ UNCHANGED peer
    /\ Fail(s)
    /\ UNCHANGED <<ifaceVars, sock, self, closing, taken, sent, lineVars, batch, cur,
                   then, got>>

\* Mutant: after the input of a peer its other events are served too.
ServesAll(s, p) ==
    /\ pc[s] = "batch" /\ p \in DOMAIN batch[s]
    /\ batch' = [batch EXCEPT ![s] = IF @[p] \subseteq {"in"} THEN Only(@, DOMAIN @ \ {p})
                                     ELSE [@ EXCEPT ![p] = @ \ {"in"}]]

\* The next peer of the batch, which is served once.
Serves(s, p) ==
    /\ pc[s] = "batch" /\ p \in DOMAIN batch[s]
    /\ batch' = [batch EXCEPT ![s] = Only(@, DOMAIN @ \ {p})]

\* kc_netl_receive_tcp: the receive callback, or the end of the peer.
Receive(s, p) ==
    /\ Serves(s, p) /\ "in" \in batch[s][p]
    /\ \/ /\ incoming[p] > 0
          /\ incoming' = [incoming EXCEPT ![p] = @ - 1]
          /\ got' = [got EXCEPT ![p] = Append(@, "receive")]
          /\ cur' = [cur EXCEPT ![s] = p]
          /\ Moves(s, "receive")
          /\ UNCHANGED <<peer, then>>
       \/ /\ line[p] = "broken" \/ (line[p] = "eof" /\ incoming[p] = 0)
          /\ Finish(s, p, "batch")
          /\ UNCHANGED <<incoming, got>>
    /\ UNCHANGED <<ifaceVars, sockVars, closing, taken, sent, line, errors, budget>>

\* kc_netl_flush_tcp: k chunks go out.
Flush(s, p, k) ==
    /\ Serves(s, p) /\ "in" \notin batch[s][p] /\ "out" \in batch[s][p]
    /\ line[p] # "broken"
    /\ sent' = [sent EXCEPT ![p] = @ + k]
    /\ UNCHANGED <<ifaceVars, sockVars, peer, closing, taken, lineVars, pc, cur, then,
                   history, budget>>

\* The connection turns out to be broken; the peer is finished under the next
\* lock.
FlushFails(s, p) ==
    /\ Serves(s, p) /\ "in" \notin batch[s][p] /\ "out" \in batch[s][p]
    /\ line[p] = "broken"
    /\ closing' = [closing EXCEPT ![p] = TRUE]
    /\ cur' = [cur EXCEPT ![s] = p]
    /\ Moves(s, "finish")
    /\ UNCHANGED <<ifaceVars, sockVars, peer, taken, sent, lineVars, then, history, budget>>

FinishFailed(s) ==
    /\ pc[s] = "finish"
    /\ Finish(s, cur[s], "batch")
    /\ UNCHANGED <<ifaceVars, sockVars, closing, taken, sent, lineVars, batch, history,
                   budget>>

HangUp(s, p) ==
    /\ Serves(s, p) /\ batch[s][p] = {"hangup"}
    /\ Finish(s, p, "batch")
    /\ UNCHANGED <<ifaceVars, sockVars, closing, taken, sent, lineVars, history, budget>>

BatchOver(s) ==
    /\ pc[s] = "batch" /\ DOMAIN batch[s] = {}
    /\ Moves(s, "top")
    /\ UNCHANGED <<ifaceVars, sockVars, peerVars, lineVars, batch, cur, then, history,
                   budget>>

\* kc_netl_interface_disconnect forgets the peer, and calls back.
Notify(s) ==
    /\ pc[s] = "notify"
    /\ ipeer' = IF ipeer = cur[s] THEN NoPeer ELSE ipeer
    /\ got' = [got EXCEPT ![cur[s]] = Append(@, "disconnect")]
    /\ Moves(s, "disconnect")
    /\ UNCHANGED <<iout, open, call, sockVars, peerVars, lineVars, batch, cur, then,
                   errors, budget>>

\* Mutant: after an error the worker goes on with its batch.
ReturnGoesOn(s) ==
    /\ pc[s] \in {"receive", "disconnect", "error"} /\ call.by # s
    /\ Moves(s, IF pc[s] = "disconnect" THEN then[s] ELSE "batch")
    /\ peer' = IF pc[s] = "disconnect" THEN [peer EXCEPT ![cur[s]] = "freed"] ELSE peer
    /\ UNCHANGED <<batch, sock, ifaceVars, stop, self, closing, taken, sent, lineVars, cur,
                   then, history, budget>>

\* The callback returns; a peer is freed after its disconnect.
Return(s) ==
    /\ pc[s] \in {"receive", "disconnect", "error"} /\ call.by # s
    /\ IF pc[s] = "error" THEN Ends(s)
       ELSE /\ Moves(s, IF pc[s] = "disconnect" THEN then[s] ELSE "batch")
            /\ peer' = IF pc[s] = "disconnect" THEN [peer EXCEPT ![cur[s]] = "freed"] ELSE peer
            /\ UNCHANGED <<batch, sock>>
    /\ UNCHANGED <<ifaceVars, stop, self, closing, taken, sent, lineVars, cur, then, history,
                   budget>>

Worker(s) ==
    /\ sock[s] = "running"
    /\ \/ ShouldStop(s) \/ Reap(s) \/ Build(s) \/ PollFails(s)
       \/ \E room \in SUBSET DOMAIN batch[s], accept \in BOOLEAN : Poll(s, room, accept)
       \/ Accept(s) \/ AcceptFails(s)
       \/ \E p \in DOMAIN batch[s] :
            \/ Receive(s, p) \/ FlushFails(s, p) \/ HangUp(s, p)
            \/ \E k \in 0..Queued(p) : Flush(s, p, k)
       \/ FinishFailed(s) \/ BatchOver(s) \/ Notify(s) \/ Return(s)

CallStep ==
    \/ Look \/ StopOutgoing \/ JoinOutgoing \/ Connect \/ Store \/ Use \/ UseQueue
    \/ StopListening \/ JoinListening \/ Free

Next ==
    \/ \E p \in Peers : Remote(p) \/ PeerSend(p) \/ PeerClose(p)
    \/ \E t \in InCallback \cup {App} : SendCall(t) \/ CloseCall(t)
    \/ CallStep
    \/ \E s \in Socks : Worker(s)

Spec == Init /\ [][Next]_vars

(***************************************************************************)
(* Fairness.  A worker never waits longer than KC_NETL_POLL_TIMEOUT_MS and *)
(* callbacks return; a call goes on.  A poll sooner or later finds room to *)
(* write, and what is queued goes out.                                     *)
(***************************************************************************)
FlushesAll(s) == \E p \in DOMAIN batch[s] : Flush(s, p, Queued(p))
PollsAll(s)   == Poll(s, DOMAIN batch[s], FALSE)

Fairness ==
    /\ WF_vars(CallStep)
    /\ \A s \in Socks : /\ WF_vars(Worker(s))
                        /\ SF_vars(PollsAll(s)) /\ SF_vars(FlushesAll(s))

FairSpec == Spec /\ Fairness

-----------------------------------------------------------------------------
(* Properties. *)

CallType ==
    /\ ipeer \in Peers \cup {NoPeer} /\ iout \in Socks \cup {NoSock}
    /\ open \in BOOLEAN /\ call \in Call

FlagType ==
    /\ stop \in [Socks -> BOOLEAN] /\ self \in [Socks -> BOOLEAN]
    /\ closing \in [Peers -> BOOLEAN]
    /\ line \in [Peers -> {"up", "eof", "broken"}] /\ incoming \in [Peers -> Nat]
    /\ errors \in [Socks -> Nat]

QueueType ==
    /\ taken \in [Peers -> Nat] /\ sent \in [Peers -> Nat]
    /\ \A p \in Peers : sent[p] <= taken[p]

WorkerType ==
    /\ sock \in [Socks -> {"none", "running", "destroyed"}]
    /\ peer \in [Peers -> {"none", "open", "closed", "freed"}]
    /\ pc \in [Socks -> {"top", "reap", "again", "build", "poll", "accept", "batch",
                         "receive", "finish", "notify", "disconnect", "error", "ended"}]
    /\ DOMAIN batch = Socks
    /\ \A s \in Socks : /\ DOMAIN batch[s] \subseteq Peers
                        /\ \A p \in DOMAIN batch[s] : batch[s][p] \subseteq {"in", "out", "hangup"}
    /\ cur \in [Socks -> Peers \cup {NoPeer}] /\ then \in [Socks -> {"reap", "batch"}]
    /\ got \in [Peers -> Seq({"receive", "disconnect"})]

\* Every field is of its type; nothing is sent that was not queued.
TypeOK == CallType /\ FlagType /\ QueueType /\ WorkerType

\* The disconnect of a peer is "the final callback in which that peer may be
\* observed", whoever closes it and however often it was ready.
FinalDisconnect ==
    \A p \in Peers : \A i \in 1..(Len(got[p]) - 1) : got[p][i] = "receive"

\* The pointers that a worker keeps from its poll, and the peer of a callback,
\* are of peers that still exist: no callback nor call frees them meanwhile.
BatchAlive ==
    \A s \in Socks :
        /\ \A p \in DOMAIN batch[s] : peer[p] = "open"
        /\ pc[s] \in {"receive", "finish"} => peer[cur[s]] = "open"
        /\ pc[s] \in {"notify", "disconnect"} => peer[cur[s]] = "closed"

\* "Queued responses are sent in order before the peer is closed": as long as
\* the remote side has not hung up, a peer goes only when all it was sent went.
GracefulClose ==
    \A p \in Peers : peer[p] = "closed" /\ line[p] = "up" => sent[p] = taken[p]

\* A socket is released after its worker's last step, with all its peers.
ReleasedAfterWorker ==
    \A s \in Socks : sock[s] = "destroyed" =>
        /\ pc[s] = "ended"
        /\ \A p \in Peers : Home(p) = s => peer[p] \in {"none", "freed"}

\* Nothing is forgotten: once the interface is closed and the workers have
\* ended every socket is released, those included that were replaced from
\* within their own callbacks.
AllReleased ==
    ~open /\ (\A s \in Socks : sock[s] = "running" => pc[s] = "ended")
        => \A s \in Socks : sock[s] # "running"

\* "After this notification no further input is delivered": of the socket
\* that failed, no callback is made after its error.
ErrorIsLast ==
    [][\A s \in Socks : errors[s] > 0 =>
          /\ errors'[s] = errors[s]
          /\ \A p \in Peers : Home(p) = s => got'[p] = got[p]]_vars

\* No callback begins after kc_netl_close, unless it was called from a callback
\* of the listening socket, whose batch goes on.
SilentAfterClose ==
    [][~open /\ ~self[Listening] => UNCHANGED <<got, errors>>]_vars

\* A call of kc_netl_close returns, from whatever thread.
CloseReturns == call.op = "close" ~> ~open

\* A peer that is to be closed is closed, unless its socket stops.
DisconnectComes ==
    \A p \in Peers :
        closing[p] /\ peer[p] = "open" ~> peer[p] = "freed" \/ stop[Home(p)]

\* "Forget disconnected outbound connections": after the disconnect of its
\* peer the interface does not keep it.
Forgotten ==
    \A p \in Peers :
        peer[p] = "freed" /\ (\E i \in 1..Len(got[p]) : got[p][i] = "disconnect")
            => ipeer # p

-----------------------------------------------------------------------------
(* The inductive invariant behind BatchAlive and FinalDisconnect. *)

\* A join is of a socket, and what is stored or used is a peer.
CallOK ==
    /\ call.pc = "join_out" => iout \in Socks
    /\ call.pc \in {"store", "queue"} => call.peer \in Peers

\* A worker's pointers are of its own peers: those of its batch are open, and
\* there are none at the head of its loop; the peer it is finishing is in no
\* batch.
WorkerOK(s) ==
    /\ \A p \in DOMAIN batch[s] : p \in PeersOf(s)
    /\ \/ pc[s] \in {"top", "reap", "again", "build", "ended"}
       \/ pc[s] \in {"notify", "disconnect"} /\ then[s] = "reap"
       => DOMAIN batch[s] = {}
    /\ pc[s] \in {"receive", "finish"} => cur[s] \in PeersOf(s)
    /\ pc[s] = "finish" => cur[s] \notin DOMAIN batch[s]
    /\ pc[s] \in {"notify", "disconnect"} =>
           cur[s] \in Peers /\ Home(cur[s]) = s /\ peer[cur[s]] = "closed"

\* A socket has peers only while its worker runs, or until it is released.
SocketOK(s) ==
    /\ sock[s] = "none" =>
           pc[s] = "top" /\ \A p \in Peers : Home(p) = s => peer[p] = "none"
    /\ sock[s] = "destroyed" =>
           /\ pc[s] = "ended"
           /\ \A p \in Peers : Home(p) = s => peer[p] \in {"none", "freed"}

\* A closed peer is the one its worker is finishing; a disconnect is the last
\* callback, and is made once.
LifeOK(p) ==
    /\ peer[p] = "closed" =>
           pc[Home(p)] \in {"notify", "disconnect"} /\ cur[Home(p)] = p
    /\ \A i \in 1..Len(got[p]) : got[p][i] = "disconnect" =>
           /\ i = Len(got[p])
           /\ \/ peer[p] = "freed"
              \/ peer[p] = "closed" /\ pc[Home(p)] = "disconnect"

IInv ==
    /\ TypeOK /\ CallOK
    /\ \A s \in Socks : WorkerOK(s) /\ SocketOK(s)
    /\ \A p \in Peers : LifeOK(p)

=============================================================================
