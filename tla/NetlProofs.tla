----------------------------- MODULE NetlProofs -----------------------------
(***************************************************************************)
(* Proofs about Netl, for any number of connections, chunks, hang-ups and  *)
(* failures: a worker never holds a freed peer, the disconnect of a peer   *)
(* is its last callback, and a socket is released after its worker's end;  *)
(* a peer is sent all that was queued before it is closed, an error ends   *)
(* the callbacks of a socket, and the close of the interface, from any     *)
(* thread, leaves no socket behind and no callback to come.                *)
(***************************************************************************)
EXTENDS Netl, TLAPS

\* What the proofs are about; the rest counts chunks or bounds the runs.
core == <<sock, peer, pc, batch, cur, then, got>>

\* Sockets have numbers, and a peer is of one of them.
LEMMA Shapes ==
    /\ Listening \in Socks /\ App \notin Socks /\ NoSock \notin Socks
    /\ Outgoing \subseteq Socks
    /\ \A p \in Peers : Home(p) \in Socks
    /\ NoPeer \notin Peers
    /\ \A s \in Outgoing : <<s, 1>> \in Peers /\ Home(<<s, 1>>) = s
  BY DEF Listening, App, NoSock, NoPeer, Socks, Outgoing, Peers, Home

-----------------------------------------------------------------------------
(* The initial state. *)

LEMMA InitInv == Init => IInv
  <1> SUFFICES ASSUME Init PROVE IInv
    OBVIOUS
  <1>1. CallType /\ FlagType /\ QueueType /\ WorkerType
    BY Shapes DEF Init, CallType, FlagType, QueueType, WorkerType, Idle, Call, Empty
  <1>2. CallOK
    BY DEF Init, CallOK, Idle
  <1>3. ASSUME NEW s \in Socks PROVE WorkerOK(s) /\ SocketOK(s)
    BY DEF Init, WorkerOK, SocketOK, Empty
  <1>4. ASSUME NEW p \in Peers PROVE LifeOK(p)
    BY DEF Init, LifeOK
  <1> QED  BY <1>1, <1>2, <1>3, <1>4 DEF IInv, TypeOK

-----------------------------------------------------------------------------
(* Steps that leave the workers alone. *)

\* Such a step keeps what the invariant says of workers and peers.
LEMMA Quiet ==
    ASSUME IInv, UNCHANGED core
    PROVE  /\ WorkerType'
           /\ \A s \in Socks : WorkerOK(s)' /\ SocketOK(s)'
           /\ \A p \in Peers : LifeOK(p)'
  BY DEF IInv, TypeOK, WorkerType, core, WorkerOK, SocketOK, LifeOK, PeersOf

\* Queueing a chunk, or none.
LEMMA QueueStep ==
    ASSUME QueueType, NEW p \in Peers, Queue(p), UNCHANGED sent
    PROVE  QueueType'
  <1>1. CASE UNCHANGED taken
    BY <1>1 DEF QueueType
  <1>2. CASE taken' = [taken EXCEPT ![p] = @ + 1]
    BY <1>2 DEF QueueType
  <1> QED  BY <1>1, <1>2 DEF Queue

\* The remote ends and the calls on a peer.
LEMMA OutsideStep ==
    ASSUME IInv, NEW p \in Peers, Remote(p) \/ PeerSend(p) \/ PeerClose(p)
    PROVE  IInv'
  <1> USE DEF IInv, TypeOK
  <1>1. UNCHANGED core /\ UNCHANGED ifaceVars
    BY DEF Remote, PeerSend, PeerClose, core, ifaceVars, sockVars, peerVars, workerVars,
           history
  <1>2. CallType' /\ CallOK'
    BY <1>1 DEF CallType, CallOK, ifaceVars
  <1>3. FlagType' /\ QueueType'
    <2>1. CASE Remote(p)
      BY <2>1 DEF Remote, FlagType, QueueType, sockVars, peerVars, history
    <2>2. CASE PeerSend(p)
      BY <2>2, QueueStep DEF PeerSend, FlagType, sockVars, lineVars, history
    <2>3. CASE PeerClose(p)
      BY <2>3 DEF PeerClose, FlagType, QueueType, sockVars, lineVars, history
    <2> QED  BY <2>1, <2>2, <2>3
  <1> QED  BY <1>1, <1>2, <1>3, Quiet

\* The steps of kc_netl_send and kc_netl_close that neither start nor release a
\* socket.
QuietCall == \/ \E t \in InCallback \cup {App} : SendCall(t) \/ CloseCall(t)
             \/ Look \/ StopOutgoing \/ Store \/ Use \/ UseQueue \/ StopListening \/ Free

LEMMA QuietCallStep == ASSUME IInv, QuietCall PROVE IInv'
  <1> USE DEF IInv, TypeOK
  <1>1. UNCHANGED core
    BY DEF QuietCall, SendCall, CloseCall, Look, StopOutgoing, Store, Use, UseQueue,
           StopListening, Free, Stopping, core, sockVars, peerVars, workerVars, history
  <1>2. CallType' /\ CallOK' /\ FlagType' /\ QueueType'
    <2> USE DEF CallType, CallOK, Call, FlagType, QueueType, sockVars, peerVars, lineVars,
                history, Goto, EndCall, Idle
    <2>1. ASSUME NEW t \in InCallback \cup {App}, SendCall(t) \/ CloseCall(t)
          PROVE  CallType' /\ CallOK' /\ FlagType' /\ QueueType'
      BY <2>1 DEF InCallback, SendCall, CloseCall
    <2>2. CASE Look
      BY <2>2 DEF Look
    <2>3. CASE StopOutgoing
      <3>1. CASE iout = NoSock
        BY <2>3, <3>1 DEF StopOutgoing, PastOutgoing
      <3>2. CASE iout # NoSock
        BY <2>3, <3>2 DEF StopOutgoing, Stopping, PastOutgoing
      <3> QED  BY <3>1, <3>2
    <2>4. CASE Store
      BY <2>4, Shapes DEF Store
    <2>5. CASE Use
      <3>1. CASE ipeer = NoPeer
        BY <2>5, <3>1 DEF Use
      <3>2. CASE ipeer # NoPeer
        BY <2>5, <3>2 DEF Use
      <3> QED  BY <3>1, <3>2
    <2>6. CASE UseQueue
      <3>1. QueueType'
        BY <2>6, QueueStep DEF UseQueue
      <3> QED  BY <2>6, <3>1 DEF UseQueue
    <2>7. CASE StopListening
      BY <2>7, Shapes DEF StopListening, Stopping
    <2>8. CASE Free
      BY <2>8 DEF Free
    <2> QED  BY <2>1, <2>2, <2>3, <2>4, <2>5, <2>6, <2>7, <2>8 DEF QuietCall
  <1> QED  BY <1>1, <1>2, Quiet

-----------------------------------------------------------------------------
(* Steps at one socket. *)

\* What such a step leaves alone: the other workers, and their peers.
Local(s) ==
    /\ \A r \in Socks \ {s} : /\ sock'[r] = sock[r] /\ pc'[r] = pc[r]
                              /\ batch'[r] = batch[r] /\ cur'[r] = cur[r]
                              /\ then'[r] = then[r]
    /\ \A p \in Peers : Home(p) # s => peer'[p] = peer[p] /\ got'[p] = got[p]

\* What has to be shown of the socket itself.
Here(s) == /\ WorkerOK(s)' /\ SocketOK(s)'
           /\ \A p \in Peers : Home(p) = s => LifeOK(p)'

LEMMA LocalStep ==
    ASSUME IInv, NEW s \in Socks, Local(s), Here(s)
    PROVE  /\ \A r \in Socks : WorkerOK(r)' /\ SocketOK(r)'
           /\ \A p \in Peers : LifeOK(p)'
  <1> USE DEF IInv, TypeOK, WorkerType
  <1>1. ASSUME NEW r \in Socks, r # s PROVE WorkerOK(r)' /\ SocketOK(r)'
    <2>1. PeersOf(r)' = PeersOf(r)
      BY <1>1 DEF Local, PeersOf
    <2>2. WorkerOK(r)'
      BY <1>1, <2>1 DEF Local, WorkerOK
    <2>3. SocketOK(r)'
      BY <1>1 DEF Local, SocketOK
    <2> QED  BY <2>2, <2>3
  <1>2. ASSUME NEW p \in Peers, Home(p) # s PROVE LifeOK(p)'
    BY <1>2, Shapes DEF Local, LifeOK
  <1> QED  BY <1>1, <1>2 DEF Here

\* A released socket has no peers left.
LEMMA DestroyStep ==
    ASSUME IInv, NEW s \in Socks, Destroy(s), UNCHANGED <<pc, batch, cur, then, got>>,
           pc[s] = "ended"
    PROVE  WorkerType' /\ Local(s) /\ Here(s)
  <1> USE DEF IInv, TypeOK, WorkerType, Destroy
  <1>1. WorkerType' /\ Local(s)
    BY DEF Local
  <1>2. WorkerOK(s)' /\ SocketOK(s)'
    BY DEF WorkerOK, SocketOK
  <1>3. ASSUME NEW p \in Peers, Home(p) = s PROVE LifeOK(p)'
    BY <1>3 DEF LifeOK
  <1> QED  BY <1>1, <1>2, <1>3 DEF Here

LEMMA JoinStep == ASSUME IInv, JoinOutgoing \/ JoinListening PROVE IInv'
  <1> USE DEF IInv, TypeOK
  <1>1. PICK s \in Socks : /\ pc[s] = "ended" /\ Destroy(s)
                           /\ UNCHANGED <<pc, batch, cur, then, got>>
    BY Shapes DEF CallOK, JoinOutgoing, JoinListening, workerVars, history
  <1>2. WorkerType' /\ Local(s) /\ Here(s)
    BY <1>1, DestroyStep
  <1>3. CallType' /\ CallOK' /\ FlagType' /\ QueueType'
    BY DEF JoinOutgoing, JoinListening, PastOutgoing, Goto, CallType, CallOK, Call, FlagType,
           QueueType, lineVars, history
  <1> QED  BY <1>2, <1>3, LocalStep

\* A new outgoing connection.
LEMMA ConnectStep == ASSUME IInv, Connect PROVE IInv'
  <1> USE DEF IInv, TypeOK
  <1>1. CASE UNCHANGED <<sock, peer>> /\ EndCall
    <2>1. UNCHANGED core
      BY <1>1 DEF Connect, core, workerVars, history
    <2>2. CallType' /\ CallOK' /\ FlagType' /\ QueueType'
      BY <1>1 DEF Connect, EndCall, Idle, CallType, CallOK, Call, FlagType, QueueType, lineVars,
                  history
    <2> QED  BY <2>1, <2>2, Quiet
  <1>2. ASSUME NEW s \in Outgoing, sock[s] = "none",
               sock' = [sock EXCEPT ![s] = "running"],
               peer' = [peer EXCEPT ![<<s, 1>>] = "open"],
               call' = [call EXCEPT !.pc = "store", !.peer = <<s, 1>>]
        PROVE  IInv'
    <2>1. s \in Socks /\ <<s, 1>> \in Peers /\ Home(<<s, 1>>) = s
      BY Shapes
    <2>2. CallType' /\ CallOK' /\ FlagType' /\ QueueType'
      BY <1>2, <2>1 DEF Connect, CallType, CallOK, Call, FlagType, QueueType, lineVars, history
    <2>3. UNCHANGED <<pc, batch, cur, then, got>>
      BY DEF Connect, workerVars, history
    <2>4. WorkerType' /\ Local(s)
      BY <1>2, <2>1, <2>3 DEF WorkerType, Local
    <2>5. WorkerOK(s)' /\ SocketOK(s)'
      BY <1>2, <2>1, <2>3 DEF WorkerOK, SocketOK, WorkerType
    <2>6. ASSUME NEW p \in Peers, Home(p) = s PROVE LifeOK(p)'
      BY <1>2, <2>1, <2>3, <2>6 DEF LifeOK, SocketOK, WorkerType
    <2> QED  BY <2>1, <2>2, <2>4, <2>5, <2>6, LocalStep DEF Here
  <1> QED  BY <1>1, <1>2 DEF Connect

-----------------------------------------------------------------------------
(* The worker of a socket. *)

\* The end of a thread, which may release its socket.
LEMMA EndsStep ==
    ASSUME IInv, NEW s \in Socks, pc[s] \in {"top", "again", "build", "error"},
           sock[s] = "running", Ends(s), UNCHANGED <<cur, then, got>>
    PROVE  WorkerType' /\ Local(s) /\ Here(s)
  <1> USE DEF IInv, TypeOK, WorkerType, Ends, Moves, Empty
  <1>1. \A p \in Peers : Home(p) = s => peer[p] # "closed"
    BY DEF LifeOK
  <1>2. CASE UNCHANGED <<sock, peer>>
    <2>1. WorkerType' /\ Local(s)
      BY <1>2 DEF Local
    <2>2. WorkerOK(s)' /\ SocketOK(s)'
      BY <1>2 DEF WorkerOK, SocketOK
    <2>3. ASSUME NEW p \in Peers, Home(p) = s PROVE LifeOK(p)'
      BY <1>1, <1>2, <2>3 DEF LifeOK
    <2> QED  BY <2>1, <2>2, <2>3 DEF Here
  <1>3. CASE Destroy(s)
    <2>1. WorkerType' /\ Local(s)
      BY <1>3 DEF Local, Destroy
    <2>2. WorkerOK(s)' /\ SocketOK(s)'
      BY <1>3 DEF WorkerOK, SocketOK, Destroy
    <2>3. ASSUME NEW p \in Peers, Home(p) = s PROVE LifeOK(p)'
      BY <1>1, <1>3, <2>3 DEF LifeOK, Destroy
    <2> QED  BY <2>1, <2>2, <2>3 DEF Here
  <1> QED  BY <1>2, <1>3

\* A peer that is in no batch is closed, and leaves the list.
LEMMA FinishStep ==
    ASSUME IInv, NEW s \in Socks, sock[s] = "running",
           pc[s] \in {"reap", "batch", "finish"},
           NEW p \in PeersOf(s), NEW back \in {"reap", "batch"}, Finish(s, p, back),
           DOMAIN batch' = Socks, UNCHANGED <<sock, got>>,
           \A r \in Socks \ {s} : batch'[r] = batch[r],
           DOMAIN batch'[s] \subseteq DOMAIN batch[s],
           \A q \in DOMAIN batch'[s] : batch'[s][q] = batch[s][q],
           p \notin DOMAIN batch'[s],
           back = "reap" => pc[s] = "reap"
    PROVE  WorkerType' /\ Local(s) /\ Here(s)
  <1> USE DEF IInv, TypeOK, WorkerType, Finish, Moves
  <1>1. p \in Peers /\ Home(p) = s /\ peer[p] = "open"
    BY DEF PeersOf
  <1>2. WorkerType' /\ Local(s)
    <2>1. \A r \in Socks : /\ DOMAIN batch'[r] \subseteq DOMAIN batch[r]
                           /\ \A q \in DOMAIN batch'[r] : batch'[r][q] = batch[r][q]
      OBVIOUS
    <2>2. \A r \in Socks : /\ DOMAIN batch'[r] \subseteq Peers
                           /\ \A q \in DOMAIN batch'[r] : batch'[r][q] \subseteq {"in", "out", "hangup"}
      BY <2>1
    <2>3. /\ peer' \in [Peers -> {"none", "open", "closed", "freed"}]
          /\ cur' \in [Socks -> Peers \cup {NoPeer}]
          /\ then' \in [Socks -> {"reap", "batch"}]
      BY <1>1
    <2>4. pc' \in [Socks -> {"top", "reap", "again", "build", "poll", "accept", "batch",
                            "receive", "finish", "notify", "disconnect", "error", "ended"}]
      OBVIOUS
    <2>5. WorkerType'
      BY <2>2, <2>3, <2>4
    <2>6. Local(s)
      BY <1>1 DEF Local
    <2> QED  BY <2>5, <2>6
  <1>3. WorkerOK(s)' /\ SocketOK(s)'
    BY <1>1 DEF WorkerOK, SocketOK, PeersOf
  <1>4. ASSUME NEW q \in Peers, Home(q) = s PROVE LifeOK(q)'
    BY <1>1, <1>4 DEF LifeOK
  <1> QED  BY <1>2, <1>3, <1>4 DEF Here

\* What most steps of a worker leave alone.
LEMMA Elsewhere ==
    ASSUME IInv, UNCHANGED <<iout, open, call>>, ipeer' \in {ipeer, NoPeer}
    PROVE  CallType' /\ CallOK'
  BY DEF IInv, TypeOK, CallType, CallOK

LEMMA HeadStep ==
    ASSUME IInv, NEW s \in Socks, sock[s] = "running", ShouldStop(s) \/ Build(s)
    PROVE  IInv'
  <1> USE DEF IInv, TypeOK
  <1>1. CallType' /\ CallOK' /\ FlagType' /\ QueueType'
    BY Elsewhere DEF ShouldStop, Build, Ends, Destroy, ifaceVars, lineVars, history, FlagType, QueueType
  <1>2. CASE Ends(s)
    BY <1>1, <1>2, EndsStep, LocalStep DEF ShouldStop, Build, history
  <1>3. CASE ShouldStop(s) /\ ~Ends(s)
    <2>1. /\ Moves(s, IF pc[s] = "top" THEN "reap" ELSE "build") /\ pc[s] \in {"top", "again"}
          /\ UNCHANGED <<sock, peer, batch, cur, then, got>>
      BY <1>3 DEF ShouldStop, history
    <2>2. WorkerType' /\ Local(s)
      BY <2>1 DEF WorkerType, Local, Moves
    <2>3. WorkerOK(s)' /\ SocketOK(s)'
      BY <2>1 DEF WorkerType, WorkerOK, SocketOK, Moves
    <2>4. ASSUME NEW p \in Peers, Home(p) = s PROVE LifeOK(p)'
      BY <2>1, <2>4 DEF WorkerType, LifeOK, Moves
    <2> QED  BY <1>1, <2>2, <2>3, <2>4, LocalStep DEF Here
  <1>4. CASE Build(s) /\ ~Ends(s)
    <2>1. /\ batch' = [batch EXCEPT ![s] = [p \in PeersOf(s) |-> Asked(p)]]
          /\ Moves(s, "poll") /\ pc[s] = "build"
          /\ UNCHANGED <<sock, peer, cur, then, got>>
      BY <1>4 DEF Build, history
    <2>2. PeersOf(s)' = PeersOf(s) /\ PeersOf(s) \subseteq Peers
      BY <2>1 DEF PeersOf
    <2>3. WorkerType' /\ Local(s)
      BY <2>1, <2>2 DEF WorkerType, Local, Moves, Asked
    <2>4. WorkerOK(s)' /\ SocketOK(s)'
      BY <2>1, <2>2 DEF WorkerType, WorkerOK, SocketOK, Moves
    <2>5. ASSUME NEW p \in Peers, Home(p) = s PROVE LifeOK(p)'
      BY <2>1, <2>5 DEF WorkerType, LifeOK, Moves
    <2> QED  BY <1>1, <2>3, <2>4, <2>5, LocalStep DEF Here
  <1> QED  BY <1>2, <1>3, <1>4

\* A step of a worker that changes no peer and makes no callback: it moves on,
\* and its batch shrinks.
LEMMA MoveStep ==
    ASSUME IInv, NEW s \in Socks, sock[s] = "running",
           pc[s] \notin {"notify", "disconnect"},
           NEW step \in {"top", "again", "batch", "accept", "error"}, Moves(s, step),
           DOMAIN batch' = Socks, UNCHANGED <<sock, peer, cur, then, got>>,
           \A r \in Socks \ {s} : batch'[r] = batch[r],
           DOMAIN batch'[s] \subseteq DOMAIN batch[s],
           \A q \in DOMAIN batch'[s] : batch'[s][q] \subseteq {"in", "out", "hangup"},
           step \in {"top", "again"} => DOMAIN batch'[s] = {}
    PROVE  WorkerType' /\ Local(s) /\ Here(s)
  <1> USE DEF IInv, TypeOK, WorkerType, Moves
  <1>1. \A r \in Socks : /\ DOMAIN batch'[r] \subseteq Peers
                         /\ \A q \in DOMAIN batch'[r] : batch'[r][q] \subseteq {"in", "out", "hangup"}
    OBVIOUS
  <1>2. WorkerType' /\ Local(s)
    BY <1>1 DEF Local
  <1>3. WorkerOK(s)' /\ SocketOK(s)'
    BY DEF WorkerOK, SocketOK, PeersOf
  <1>4. ASSUME NEW p \in Peers, Home(p) = s PROVE LifeOK(p)'
    BY <1>4 DEF LifeOK
  <1> QED  BY <1>2, <1>3, <1>4 DEF Here

LEMMA ReapStep ==
    ASSUME IInv, NEW s \in Socks, sock[s] = "running", Reap(s)
    PROVE  IInv'
  <1> USE DEF IInv, TypeOK
  <1>1. CallType' /\ CallOK' /\ FlagType' /\ QueueType'
    BY Elsewhere DEF Reap, Finish, ifaceVars, sockVars, lineVars, history, FlagType, QueueType
  <1>2. UNCHANGED <<sock, batch, got>> /\ pc[s] = "reap" /\ DOMAIN batch[s] = {}
    BY DEF Reap, sockVars, history, WorkerOK
  <1>3. CASE \E p \in Due(s) : Finish(s, p, "reap")
    <2>1. PICK p \in PeersOf(s) : Finish(s, p, "reap")
      BY <1>3 DEF Due
    <2> QED  BY <1>1, <1>2, <2>1, FinishStep, LocalStep DEF WorkerType
  <1>4. CASE Moves(s, "again") /\ UNCHANGED <<peer, cur, then>>
    BY <1>1, <1>2, <1>4, MoveStep, LocalStep DEF WorkerType
  <1> QED  BY <1>3, <1>4 DEF Reap

LEMMA PollStep ==
    ASSUME IInv, NEW s \in Socks, sock[s] = "running",
           NEW room \in SUBSET DOMAIN batch[s], NEW accept \in BOOLEAN, Poll(s, room, accept)
    PROVE  IInv'
  <1> USE DEF IInv, TypeOK
  <1>1. CallType' /\ CallOK' /\ FlagType' /\ QueueType'
    BY Elsewhere DEF Poll, ifaceVars, sockVars, peerVars, lineVars, history, FlagType, QueueType
  <1> DEFINE events == [p \in DOMAIN batch[s] |-> Ready(p, batch[s][p], room)]
             ready  == {p \in DOMAIN events : events[p] # {}}
             step   == IF accept THEN "accept" ELSE IF DOMAIN batch'[s] = {} THEN "top" ELSE "batch"
  <1>2. /\ batch' = [batch EXCEPT ![s] = Only(events, ready)]
        /\ UNCHANGED <<sock, peer, cur, then, got>> /\ pc[s] = "poll" /\ Moves(s, step)
    BY DEF Poll, sockVars, peerVars, history
  <1>3. DOMAIN events = DOMAIN batch[s]
    OBVIOUS
  <1>4. \A p \in DOMAIN events : events[p] \subseteq {"in", "out", "hangup"}
    BY DEF Ready, WorkerType
  <1>5. /\ DOMAIN Only(events, ready) \subseteq DOMAIN batch[s]
        /\ \A p \in DOMAIN Only(events, ready) : Only(events, ready)[p] \subseteq {"in", "out", "hangup"}
    BY <1>3, <1>4 DEF Only
  <1>6. /\ DOMAIN batch' = Socks /\ batch'[s] = Only(events, ready)
        /\ \A r \in Socks \ {s} : batch'[r] = batch[r]
    BY <1>2 DEF WorkerType
  <1>7. step \in {"top", "again", "batch", "accept", "error"}
        /\ (step \in {"top", "again"} => DOMAIN batch'[s] = {})
    OBVIOUS
  <1> HIDE DEF events, ready, step
  <1>8. WorkerType' /\ Local(s) /\ Here(s)
    BY <1>2, <1>5, <1>6, <1>7, MoveStep
  <1> QED  BY <1>1, <1>8, LocalStep

\* kc_netl_fail sets a flag and counts.
LEMMA FailType ==
    ASSUME FlagType, NEW s \in Socks, Fail(s), UNCHANGED <<self, closing, line, incoming>>
    PROVE  FlagType'
  BY DEF Fail, FlagType

LEMMA FailStep ==
    ASSUME IInv, NEW s \in Socks, sock[s] = "running", PollFails(s) \/ BatchOver(s)
    PROVE  IInv'
  <1> USE DEF IInv, TypeOK
  <1>1. CallType' /\ CallOK' /\ FlagType' /\ QueueType'
    <2>1. CallType' /\ CallOK' /\ QueueType'
      BY Elsewhere DEF PollFails, BatchOver, ifaceVars, peerVars, QueueType
    <2>2. FlagType'
      BY FailType DEF PollFails, BatchOver, sockVars, peerVars, lineVars, history, FlagType
    <2> QED  BY <2>1, <2>2
  <1>2. UNCHANGED <<sock, peer, batch, cur, then, got>>
    BY DEF PollFails, BatchOver, sockVars, peerVars, history
  <1>3. CASE PollFails(s)
    BY <1>1, <1>2, <1>3, MoveStep, LocalStep DEF PollFails, Fail, WorkerType
  <1>4. CASE BatchOver(s)
    BY <1>1, <1>2, <1>4, MoveStep, LocalStep DEF BatchOver, WorkerType
  <1> QED  BY <1>3, <1>4

\* A peer that is accepted joins the list of a socket whose worker runs.
LEMMA AcceptStep ==
    ASSUME IInv, NEW s \in Socks, sock[s] = "running", Accept(s) \/ AcceptFails(s)
    PROVE  IInv'
  <1> USE DEF IInv, TypeOK
  <1>1. CallType' /\ CallOK' /\ FlagType' /\ QueueType'
    <2>1. CallType' /\ CallOK' /\ QueueType'
      BY Elsewhere DEF Accept, AcceptFails, ifaceVars, QueueType
    <2>2. FlagType'
      BY FailType DEF Accept, AcceptFails, sockVars, lineVars, history, FlagType
    <2> QED  BY <2>1, <2>2
  <1>2. /\ UNCHANGED <<sock, batch, cur, then, got>> /\ pc[s] = "accept"
        /\ \E step \in {"batch", "error"} : Moves(s, step)
    BY DEF Accept, AcceptFails, Fail, sockVars, history
  <1>3. CASE UNCHANGED peer
    BY <1>1, <1>2, <1>3, MoveStep, LocalStep DEF WorkerType
  <1>4. CASE Accepted(s)
    <2>1. PICK p \in Peers : /\ Home(p) = s /\ peer[p] = "none"
                            /\ peer' = [peer EXCEPT ![p] = "open"]
      BY <1>4 DEF Accepted, Accepting
    <2>2. WorkerType' /\ Local(s)
      BY <1>2, <2>1 DEF WorkerType, Local, Moves
    <2>3. WorkerOK(s)' /\ SocketOK(s)'
      BY <1>2, <2>1 DEF WorkerType, WorkerOK, SocketOK, PeersOf, Moves
    <2>4. ASSUME NEW q \in Peers, Home(q) = s PROVE LifeOK(q)'
      BY <1>2, <2>1, <2>4 DEF WorkerType, LifeOK, Moves
    <2> QED  BY <1>1, <2>2, <2>3, <2>4, LocalStep DEF Here
  <1> QED  BY <1>3, <1>4 DEF Accept, AcceptFails

\* One peer of the batch is served and leaves it.
LEMMA ServesBatch ==
    ASSUME IInv, NEW s \in Socks, NEW p, Serves(s, p)
    PROVE  /\ pc[s] = "batch" /\ p \in PeersOf(s) /\ DOMAIN batch' = Socks
           /\ \A r \in Socks \ {s} : batch'[r] = batch[r]
           /\ DOMAIN batch'[s] = DOMAIN batch[s] \ {p}
           /\ \A q \in DOMAIN batch'[s] : batch'[s][q] = batch[s][q]
           /\ \A r \in Socks : /\ DOMAIN batch'[r] \subseteq Peers
                              /\ \A q \in DOMAIN batch'[r] : batch'[r][q] \subseteq {"in", "out", "hangup"}
  <1> USE DEF IInv, TypeOK, WorkerType, Serves, Only
  <1>1. /\ pc[s] = "batch" /\ p \in PeersOf(s) /\ DOMAIN batch' = Socks
        /\ \A r \in Socks \ {s} : batch'[r] = batch[r]
        /\ DOMAIN batch'[s] = DOMAIN batch[s] \ {p}
        /\ \A q \in DOMAIN batch'[s] : batch'[s][q] = batch[s][q]
    BY DEF WorkerOK
  <1>2. ASSUME NEW r \in Socks
        PROVE  /\ DOMAIN batch'[r] \subseteq Peers
               /\ \A q \in DOMAIN batch'[r] : batch'[r][q] \subseteq {"in", "out", "hangup"}
    <2>1. CASE r = s
      BY <1>1, <2>1
    <2>2. CASE r # s
      BY <1>1, <2>2
    <2> QED  BY <2>1, <2>2
  <1> QED  BY <1>1, <1>2

LEMMA ReceiveStep ==
    ASSUME IInv, NEW s \in Socks, sock[s] = "running", NEW p \in Peers, Receive(s, p)
    PROVE  IInv'
  <1> USE DEF IInv, TypeOK
  <1>1. CallType' /\ CallOK' /\ FlagType' /\ QueueType'
    <2>1. CallType' /\ CallOK' /\ QueueType'
      BY Elsewhere DEF Receive, ifaceVars, QueueType
    <2>2. UNCHANGED <<stop, self, closing, line, errors>>
      BY DEF Receive, sockVars
    <2>3. incoming' \in [Peers -> Nat]
      BY DEF Receive, FlagType
    <2>4. FlagType'
      BY <2>2, <2>3 DEF FlagType
    <2> QED  BY <2>1, <2>4
  <1>2. Serves(s, p) /\ UNCHANGED sock
    BY DEF Receive, sockVars
  <1>3. CASE Finish(s, p, "batch") /\ UNCHANGED got
    <2>1. WorkerType' /\ Local(s) /\ Here(s)
      BY <1>2, <1>3, ServesBatch, FinishStep
    <2> QED  BY <1>1, <2>1, LocalStep
  <1>4. CASE /\ got' = [got EXCEPT ![p] = Append(@, "receive")]
             /\ cur' = [cur EXCEPT ![s] = p]
             /\ Moves(s, "receive") /\ UNCHANGED <<peer, then>>
    <2>1. p \in PeersOf(s) /\ Home(p) = s /\ peer[p] = "open" /\ pc[s] = "batch"
      BY <1>2, ServesBatch DEF PeersOf
    <2>2. \A r \in Socks : /\ DOMAIN batch'[r] \subseteq Peers
                           /\ \A q \in DOMAIN batch'[r] : batch'[r][q] \subseteq {"in", "out", "hangup"}
      BY <1>2, ServesBatch
    <2>3. got' \in [Peers -> Seq({"receive", "disconnect"})]
      BY <1>4 DEF WorkerType
    <2>4. WorkerType'
      BY <1>2, <1>4, <2>2, <2>3, ServesBatch DEF WorkerType, Moves
    <2>5. Local(s)
      BY <1>2, <1>4, <2>1, ServesBatch DEF WorkerType, Local, Moves
    <2>6. WorkerOK(s)' /\ SocketOK(s)'
      BY <1>2, <1>4, <2>1, ServesBatch DEF WorkerType, WorkerOK, SocketOK, PeersOf, Moves
    <2>7. ASSUME NEW q \in Peers, Home(q) = s PROVE LifeOK(q)'
      <3>1. CASE q = p
        <4>1. got[p] \in Seq({"receive", "disconnect"})
          BY DEF WorkerType
        <4>2. got'[p] = Append(got[p], "receive")
          BY <1>4 DEF WorkerType
        <4>3. \A i \in 1..Len(got'[p]) : got'[p][i] # "disconnect"
          BY <2>1, <4>1, <4>2 DEF LifeOK
        <4> QED  BY <1>4, <2>1, <3>1, <4>3 DEF LifeOK
      <3>2. CASE q # p
        BY <1>4, <2>1, <2>7, <3>2 DEF LifeOK, WorkerType, Moves
      <3> QED  BY <3>1, <3>2
    <2> QED  BY <1>1, <2>4, <2>5, <2>6, <2>7, LocalStep DEF Here
  <1> QED  BY <1>3, <1>4 DEF Receive

LEMMA FlushStep ==
    ASSUME IInv, NEW s \in Socks, sock[s] = "running", NEW p \in Peers,
           NEW k \in 0..Queued(p), Flush(s, p, k)
    PROVE  IInv'
  <1> USE DEF IInv, TypeOK
  <1>1. CallType' /\ CallOK' /\ FlagType'
    BY Elsewhere DEF Flush, ifaceVars, sockVars, lineVars, history, FlagType
  <1>2. QueueType'
    BY DEF Flush, Queued, QueueType
  <1>3. /\ Serves(s, p) /\ UNCHANGED <<sock, peer, pc, cur, then, got>>
    BY DEF Flush, sockVars, history
  <1>4. Moves(s, "batch")
    BY <1>3, ServesBatch DEF Moves, WorkerType
  <1>5. WorkerType' /\ Local(s) /\ Here(s)
    BY <1>3, <1>4, ServesBatch, MoveStep
  <1> QED  BY <1>1, <1>2, <1>5, LocalStep

LEMMA FlushFailsStep ==
    ASSUME IInv, NEW s \in Socks, sock[s] = "running", NEW p \in Peers, FlushFails(s, p)
    PROVE  IInv'
  <1> USE DEF IInv, TypeOK
  <1>1. CallType' /\ CallOK' /\ FlagType' /\ QueueType'
    BY Elsewhere DEF FlushFails, ifaceVars, sockVars, lineVars, history, FlagType, QueueType
  <1>2. /\ Serves(s, p) /\ Moves(s, "finish") /\ cur' = [cur EXCEPT ![s] = p]
        /\ UNCHANGED <<sock, peer, then, got>>
    BY DEF FlushFails, sockVars, history
  <1>3. \A r \in Socks : /\ DOMAIN batch'[r] \subseteq Peers
                         /\ \A q \in DOMAIN batch'[r] : batch'[r][q] \subseteq {"in", "out", "hangup"}
    BY <1>2, ServesBatch
  <1>4. WorkerType' /\ Local(s)
    BY <1>2, <1>3, ServesBatch DEF WorkerType, Local, Moves
  <1>5. WorkerOK(s)' /\ SocketOK(s)'
    BY <1>2, ServesBatch DEF WorkerType, WorkerOK, SocketOK, PeersOf, Moves
  <1>6. ASSUME NEW q \in Peers, Home(q) = s PROVE LifeOK(q)'
    BY <1>2, <1>6, ServesBatch DEF WorkerType, LifeOK, Moves
  <1> QED  BY <1>1, <1>4, <1>5, <1>6, LocalStep DEF Here

LEMMA FinishesStep ==
    ASSUME IInv, NEW s \in Socks, sock[s] = "running",
           FinishFailed(s) \/ \E p \in Peers : HangUp(s, p)
    PROVE  IInv'
  <1> USE DEF IInv, TypeOK
  <1>1. CallType' /\ CallOK' /\ FlagType' /\ QueueType'
    BY Elsewhere DEF FinishFailed, HangUp, ifaceVars, sockVars, lineVars, history, FlagType, QueueType
  <1>2. UNCHANGED <<sock, got>>
    BY DEF FinishFailed, HangUp, sockVars, history
  <1>3. CASE FinishFailed(s)
    <2>1. /\ pc[s] = "finish" /\ Finish(s, cur[s], "batch") /\ UNCHANGED batch
          /\ cur[s] \in PeersOf(s) /\ cur[s] \notin DOMAIN batch[s]
      BY <1>3 DEF FinishFailed, WorkerOK
    <2>2. WorkerType' /\ Local(s) /\ Here(s)
      BY <1>2, <2>1, FinishStep DEF WorkerType
    <2> QED  BY <1>1, <2>2, LocalStep
  <1>4. ASSUME NEW p \in Peers, HangUp(s, p) PROVE IInv'
    <2>1. Serves(s, p) /\ Finish(s, p, "batch")
      BY <1>4 DEF HangUp
    <2>2. WorkerType' /\ Local(s) /\ Here(s)
      BY <1>2, <2>1, ServesBatch, FinishStep
    <2> QED  BY <1>1, <2>2, LocalStep
  <1> QED  BY <1>3, <1>4

\* The disconnect callback begins: the first and last one of a closed peer.
LEMMA NotifyStep ==
    ASSUME IInv, NEW s \in Socks, sock[s] = "running", Notify(s)
    PROVE  IInv'
  <1> USE DEF IInv, TypeOK
  <1>1. CallType' /\ CallOK' /\ FlagType' /\ QueueType'
    BY Elsewhere DEF Notify, sockVars, peerVars, lineVars, FlagType, QueueType
  <1>2. PICK p \in Peers : p = cur[s] /\ Home(p) = s /\ peer[p] = "closed" /\ pc[s] = "notify"
    BY DEF Notify, WorkerOK
  <1>3. /\ got' = [got EXCEPT ![p] = Append(@, "disconnect")] /\ Moves(s, "disconnect")
        /\ UNCHANGED <<sock, peer, batch, cur, then>>
    BY <1>2 DEF Notify, sockVars, peerVars
  <1>4. got[p] \in Seq({"receive", "disconnect"}) /\ got'[p] = Append(got[p], "disconnect")
    BY <1>3 DEF WorkerType
  <1>5. WorkerType' /\ Local(s)
    BY <1>2, <1>3, <1>4 DEF WorkerType, Local, Moves
  <1>6. WorkerOK(s)' /\ SocketOK(s)'
    BY <1>2, <1>3 DEF WorkerType, WorkerOK, SocketOK, PeersOf, Moves
  <1>7. ASSUME NEW q \in Peers, Home(q) = s PROVE LifeOK(q)'
    <2>1. CASE q = p
      <3>1. \A i \in 1..Len(got[p]) : got[p][i] # "disconnect"
        BY <1>2 DEF LifeOK
      <3>2. \A i \in 1..Len(got'[p]) : got'[p][i] = "disconnect" => i = Len(got'[p])
        BY <1>4, <3>1
      <3>3. peer'[p] = "closed" /\ pc'[s] = "disconnect" /\ cur'[s] = p
        BY <1>2, <1>3 DEF Moves, WorkerType
      <3> QED  BY <1>2, <2>1, <3>2, <3>3 DEF LifeOK
    <2>2. CASE q # p
      BY <1>2, <1>3, <1>7, <2>2 DEF WorkerType, LifeOK, Moves
    <2> QED  BY <2>1, <2>2
  <1> QED  BY <1>1, <1>5, <1>6, <1>7, LocalStep DEF Here

\* The callback returns, and a closed peer is freed.
LEMMA ReturnStep ==
    ASSUME IInv, NEW s \in Socks, sock[s] = "running", Return(s)
    PROVE  IInv'
  <1> USE DEF IInv, TypeOK
  <1>1. CallType' /\ CallOK' /\ FlagType' /\ QueueType'
    BY Elsewhere DEF Return, Ends, Destroy, ifaceVars, lineVars, history, FlagType, QueueType
  <1>2. UNCHANGED <<cur, then, got>>
    BY DEF Return, history
  <1>3. CASE pc[s] = "error"
    BY <1>1, <1>2, <1>3, EndsStep, LocalStep DEF Return
  <1>4. CASE pc[s] = "receive"
    BY <1>1, <1>2, <1>4, MoveStep, LocalStep DEF Return, WorkerType
  <1>5. CASE pc[s] = "disconnect"
    <2>1. /\ Moves(s, then[s]) /\ peer' = [peer EXCEPT ![cur[s]] = "freed"]
          /\ UNCHANGED <<batch, sock>>
      BY <1>5 DEF Return
    <2>2. cur[s] \in Peers /\ Home(cur[s]) = s /\ peer[cur[s]] = "closed"
      BY <1>5 DEF WorkerOK
    <2>3. WorkerType' /\ Local(s)
      BY <1>2, <2>1, <2>2 DEF WorkerType, Local, Moves
    <2>4. WorkerOK(s)' /\ SocketOK(s)'
      BY <1>2, <1>5, <2>1, <2>2 DEF WorkerType, WorkerOK, SocketOK, PeersOf, Moves
    <2>5. ASSUME NEW q \in Peers, Home(q) = s PROVE LifeOK(q)'
      BY <1>2, <1>5, <2>1, <2>2, <2>5 DEF WorkerType, LifeOK, Moves
    <2> QED  BY <1>1, <2>3, <2>4, <2>5, LocalStep DEF Here
  <1> QED  BY <1>3, <1>4, <1>5 DEF Return

LEMMA WorkerStep == ASSUME IInv, NEW s \in Socks, Worker(s) PROVE IInv'
  <1>1. sock[s] = "running" /\ DOMAIN batch[s] \subseteq Peers
    BY DEF Worker, IInv, TypeOK, WorkerType
  <1> QED  BY <1>1, HeadStep, ReapStep, PollStep, FailStep, AcceptStep, ReceiveStep, FlushStep,
              FlushFailsStep, FinishesStep, NotifyStep, ReturnStep DEF Worker

-----------------------------------------------------------------------------
(* The theorems. *)

LEMMA NextInv == IInv /\ [Next]_vars => IInv'
  <1> SUFFICES ASSUME IInv, [Next]_vars PROVE IInv'
    OBVIOUS
  <1>1. CASE UNCHANGED vars
    <2>1. CallType' /\ CallOK' /\ FlagType' /\ QueueType'
      BY <1>1 DEF IInv, TypeOK, vars, ifaceVars, sockVars, peerVars, lineVars, history, CallType,
                  CallOK, FlagType, QueueType
    <2>2. UNCHANGED core
      BY <1>1 DEF vars, core, sockVars, peerVars, workerVars, history
    <2> QED  BY <2>1, <2>2, Quiet DEF IInv, TypeOK
  <1>2. ASSUME NEW p \in Peers, Remote(p) \/ PeerSend(p) \/ PeerClose(p) PROVE IInv'
    BY <1>2, OutsideStep
  <1>3. ASSUME NEW t \in InCallback \cup {App}, SendCall(t) \/ CloseCall(t) PROVE IInv'
    BY <1>3, QuietCallStep DEF QuietCall
  <1>4. CASE CallStep
    BY <1>4, QuietCallStep, JoinStep, ConnectStep DEF CallStep, QuietCall
  <1>5. ASSUME NEW s \in Socks, Worker(s) PROVE IInv'
    BY <1>5, WorkerStep
  <1> QED  BY <1>1, <1>2, <1>3, <1>4, <1>5 DEF Next

\* Whatever the remote ends, the application and the threads do, the invariant
\* holds: libnetl's workers use only peers that are theirs and exist.
THEOREM Inductive == Spec => []IInv
  <1>1. Init => IInv
    BY InitInv
  <1>2. IInv /\ [Next]_vars => IInv'
    BY NextInv
  <1> QED  BY <1>1, <1>2, PTL DEF Spec

\* Every field of the interface, its sockets and peers is of its type, and
\* kc_netl_flush_tcp never sends more than was queued.
THEOREM TypeCorrect == Spec => []TypeOK
  <1>1. IInv => TypeOK
    BY DEF IInv
  <1> QED  BY <1>1, Inductive, PTL

\* The pointers that kc_netl_worker_run keeps across callbacks are of peers that
\* are not freed, for any number of connections.
THEOREM NoFreedPeer == Spec => []BatchAlive
  <1>1. IInv => BatchAlive
    BY DEF IInv, WorkerOK, PeersOf, BatchAlive
  <1> QED  BY <1>1, Inductive, PTL

\* kc_netl_peer_finish makes the disconnect callback once, and after it no
\* callback is made for that peer.
THEOREM DisconnectIsLast == Spec => []FinalDisconnect
  <1>1. IInv => FinalDisconnect
    <2> SUFFICES ASSUME IInv, NEW p \in Peers, NEW i \in 1..(Len(got[p]) - 1)
                 PROVE  got[p][i] = "receive"
      BY DEF FinalDisconnect
    <2>1. got[p] \in Seq({"receive", "disconnect"}) /\ LifeOK(p)
      BY DEF IInv, TypeOK, WorkerType
    <2>2. i \in 1..Len(got[p]) /\ i # Len(got[p])
      BY <2>1
    <2>3. got[p][i] \in {"receive", "disconnect"}
      BY <2>1, <2>2
    <2> QED  BY <2>1, <2>2, <2>3 DEF LifeOK
  <1> QED  BY <1>1, Inductive, PTL

\* kc_netl_destroy runs after the last step of the socket's worker, by whichever
\* thread, and leaves no peer.
THEOREM ReleasedLast == Spec => []ReleasedAfterWorker
  <1>1. IInv => ReleasedAfterWorker
    BY DEF IInv, SocketOK, ReleasedAfterWorker
  <1> QED  BY <1>1, Inductive, PTL

-----------------------------------------------------------------------------
(* What the step of a worker leaves alone. *)

\* The call under way, the flags of the other sockets and their errors.
Elsewise(s) ==
    /\ sock[s] = "running" /\ Local(s)
    /\ UNCHANGED <<iout, open, call, self, taken, line>>
    /\ \A r \in Socks \ {s} : stop'[r] = stop[r] /\ errors'[r] = errors[r]
    /\ stop[s] => stop'[s]

LEMMA LocalHead ==
    ASSUME IInv, NEW s \in Socks, sock[s] = "running", ShouldStop(s) \/ Build(s)
    PROVE  Elsewise(s)
  <1>1. CASE Ends(s)
    BY <1>1 DEF ShouldStop, Build, Ends, Destroy, Moves, Local, Elsewise, ifaceVars,
                lineVars, history, IInv, TypeOK, WorkerType, FlagType
  <1>2. CASE ~Ends(s)
    BY <1>2 DEF ShouldStop, Build, Moves, Local, Elsewise, ifaceVars,
                lineVars, history, IInv, TypeOK, WorkerType, FlagType
  <1> QED  BY <1>1, <1>2

LEMMA LocalFinish ==
    ASSUME IInv, NEW s \in Socks, NEW p \in PeersOf(s), NEW back, Finish(s, p, back),
           \A r \in Socks \ {s} : batch'[r] = batch[r], UNCHANGED <<sock, got>>
    PROVE  Local(s)
  BY DEF Finish, Moves, Local, PeersOf, IInv, TypeOK, WorkerType

LEMMA LocalReap ==
    ASSUME IInv, NEW s \in Socks, sock[s] = "running", Reap(s)
    PROVE  Elsewise(s)
  <1>1. UNCHANGED <<sock, got, batch, ifaceVars, stop, self, taken, line, errors>>
    BY DEF Reap, sockVars, lineVars, history
  <1>2. CASE \E p \in Due(s) : Finish(s, p, "reap")
    BY <1>1, <1>2, LocalFinish DEF Due, Elsewise, ifaceVars
  <1>3. CASE Moves(s, "again") /\ UNCHANGED <<peer, cur, then>>
    BY <1>1, <1>3 DEF Moves, Local, Elsewise, ifaceVars, IInv, TypeOK, WorkerType
  <1> QED  BY <1>2, <1>3 DEF Reap

LEMMA LocalPoll ==
    ASSUME IInv, NEW s \in Socks, sock[s] = "running",
           NEW room, NEW accept, Poll(s, room, accept)
    PROVE  Elsewise(s)
  BY DEF Poll, Moves, Local, Elsewise, ifaceVars, sockVars, peerVars, lineVars,
         history, IInv, TypeOK, WorkerType

LEMMA LocalFails ==
    ASSUME IInv, NEW s \in Socks, sock[s] = "running",
           PollFails(s) \/ AcceptFails(s) \/ Accept(s) \/ BatchOver(s)
    PROVE  Elsewise(s)
  <1> USE DEF Moves, Local, Elsewise, ifaceVars, sockVars, peerVars, lineVars,
              history, IInv, TypeOK, WorkerType, FlagType
  <1>1. CASE PollFails(s)
    BY <1>1 DEF PollFails, Fail
  <1>2. CASE AcceptFails(s)
    BY <1>2 DEF AcceptFails, Fail, Accepted, Accepting
  <1>3. CASE Accept(s)
    BY <1>3 DEF Accept, Accepted, Accepting
  <1>4. CASE BatchOver(s)
    BY <1>4 DEF BatchOver
  <1> QED  BY <1>1, <1>2, <1>3, <1>4

LEMMA LocalReceive ==
    ASSUME IInv, NEW s \in Socks, sock[s] = "running", NEW p \in Peers, Receive(s, p)
    PROVE  Elsewise(s)
  <1>1. /\ UNCHANGED <<sock, ifaceVars, stop, self, taken, line, errors>>
        /\ p \in PeersOf(s) /\ \A r \in Socks \ {s} : batch'[r] = batch[r]
    BY ServesBatch DEF Receive, sockVars
  <1>2. CASE Finish(s, p, "batch") /\ UNCHANGED got
    BY <1>1, <1>2, LocalFinish DEF Elsewise, ifaceVars
  <1>3. CASE /\ got' = [got EXCEPT ![p] = Append(@, "receive")]
             /\ cur' = [cur EXCEPT ![s] = p]
             /\ Moves(s, "receive") /\ UNCHANGED <<peer, then>>
    <2>1. Local(s)
      BY <1>1, <1>3 DEF Moves, Local, PeersOf, IInv, TypeOK, WorkerType
    <2> QED  BY <1>1, <2>1 DEF Elsewise, ifaceVars
  <1> QED  BY <1>2, <1>3 DEF Receive

LEMMA LocalFlush ==
    ASSUME IInv, NEW s \in Socks, sock[s] = "running", NEW p \in Peers,
           FlushFails(s, p) \/ HangUp(s, p) \/ \E k \in 0..Queued(p) : Flush(s, p, k)
    PROVE  Elsewise(s)
  <1>1. Serves(s, p)
    BY DEF FlushFails, HangUp, Flush
  <1>2. p \in PeersOf(s) /\ \A r \in Socks \ {s} : batch'[r] = batch[r]
    BY <1>1, ServesBatch
  <1>3. CASE FlushFails(s, p)
    BY <1>2, <1>3 DEF FlushFails, Moves, Local, Elsewise, ifaceVars, sockVars, lineVars,
                history, IInv, TypeOK, WorkerType
  <1>4. CASE HangUp(s, p)
    BY <1>2, <1>4, LocalFinish DEF HangUp, Elsewise, ifaceVars, sockVars, lineVars, history
  <1>5. CASE \E k \in 0..Queued(p) : Flush(s, p, k)
    BY <1>2, <1>5 DEF Flush, Local, Elsewise, ifaceVars, sockVars, lineVars, history
  <1> QED  BY <1>3, <1>4, <1>5

LEMMA LocalCallback ==
    ASSUME IInv, NEW s \in Socks, sock[s] = "running",
           FinishFailed(s) \/ Notify(s) \/ Return(s)
    PROVE  Elsewise(s)
  <1>1. CASE FinishFailed(s)
    <2>1. cur[s] \in PeersOf(s)
      BY <1>1 DEF FinishFailed, IInv, WorkerOK
    <2> QED  BY <1>1, <2>1, LocalFinish DEF FinishFailed, Elsewise, ifaceVars, sockVars, lineVars, history
  <1>2. CASE Notify(s)
    <2>1. cur[s] \in Peers /\ Home(cur[s]) = s
      BY <1>2 DEF Notify, IInv, WorkerOK
    <2> QED  BY <1>2, <2>1 DEF Notify, Moves, Local, Elsewise, sockVars, peerVars, lineVars, IInv, TypeOK, WorkerType
  <1>3. CASE Return(s)
    <2>1. UNCHANGED <<ifaceVars, stop, self, taken, line, cur, then, got, errors>>
      BY <1>3 DEF Return, lineVars, history
    <2>2. CASE pc[s] = "error"
      BY <1>3, <2>1, <2>2 DEF Return, Ends, Destroy, Moves, Local, Elsewise, ifaceVars,
                IInv, TypeOK, WorkerType
    <2>3. CASE pc[s] = "receive"
      BY <1>3, <2>1, <2>3 DEF Return, Moves, Local, Elsewise, ifaceVars,
                IInv, TypeOK, WorkerType
    <2>4. CASE pc[s] = "disconnect"
      <3>1. cur[s] \in Peers /\ Home(cur[s]) = s
        BY <2>4 DEF IInv, WorkerOK
      <3> QED  BY <1>3, <2>1, <2>4, <3>1 DEF Return, Moves, Local, Elsewise, ifaceVars,
                IInv, TypeOK, WorkerType
    <2> QED  BY <1>3, <2>2, <2>3, <2>4 DEF Return
  <1> QED  BY <1>1, <1>2, <1>3

LEMMA WorkerLocal == ASSUME IInv, NEW s \in Socks, Worker(s) PROVE Elsewise(s)
  <1>1. sock[s] = "running" /\ DOMAIN batch[s] \subseteq Peers
    BY DEF Worker, IInv, TypeOK, WorkerType
  <1> QED  BY <1>1, LocalHead, LocalReap, LocalPoll, LocalFails, LocalReceive, LocalFlush,
              LocalCallback DEF Worker

-----------------------------------------------------------------------------
(* Errors. *)

\* A socket that had an error is in the callback of it, or its worker ended.
ErrorOK(s) == errors[s] > 0 => pc[s] \in {"error", "ended"}

EInv == \A s \in Socks : ErrorOK(s)

\* Of a socket that failed the only step left is the end of its worker.
LEMMA AfterError ==
    ASSUME IInv, NEW s \in Socks, Worker(s), pc[s] \in {"error", "ended"}
    PROVE  pc'[s] = "ended" /\ UNCHANGED <<got, errors>>
  <1>1. Return(s) /\ pc[s] = "error"
    BY DEF Worker, ShouldStop, Reap, Build, PollFails, Poll, Accept, AcceptFails, Receive,
           FlushFails, HangUp, Flush, Serves, FinishFailed, BatchOver, Notify, Return
  <1> QED  BY <1>1 DEF Return, Ends, Moves, history, IInv, TypeOK, WorkerType

\* An error is reported by the step that goes into its callback.
LEMMA BeforeError ==
    ASSUME IInv, NEW s \in Socks, Worker(s)
    PROVE  UNCHANGED errors \/ pc'[s] = "error"
  <1>1. ASSUME Fail(s) PROVE pc'[s] = "error"
    BY <1>1 DEF Fail, Moves, IInv, TypeOK, WorkerType
  <1> QED  BY <1>1 DEF Worker, ShouldStop, Reap, Build, PollFails, Poll, Accept, AcceptFails, Receive,
           FlushFails, HangUp, Flush, FinishFailed, BatchOver, Notify, Return, history

\* The steps that are no worker's make no callback.
LEMMA OutsideCallbacks ==
    ASSUME IInv,
           \/ \E p \in Peers : Remote(p) \/ PeerSend(p) \/ PeerClose(p)
           \/ \E t \in InCallback \cup {App} : SendCall(t) \/ CloseCall(t)
           \/ CallStep
    PROVE  UNCHANGED <<pc, batch, cur, then, got, errors>>
  BY DEF Remote, PeerSend, PeerClose, SendCall, CloseCall, CallStep, Look, StopOutgoing,
         JoinOutgoing, Connect, Store, Use, UseQueue, StopListening, JoinListening, Free,
         workerVars, history

LEMMA ErrorStep == ASSUME IInv, EInv, [Next]_vars PROVE EInv'
  <1>1. CASE UNCHANGED <<pc, errors>>
    BY <1>1 DEF EInv, ErrorOK
  <1>2. ASSUME NEW s \in Socks, Worker(s) PROVE EInv'
    <2>1. Elsewise(s)
      BY <1>2, WorkerLocal
    <2>2. ASSUME NEW r \in Socks, r # s PROVE ErrorOK(r)'
      BY <2>1, <2>2 DEF Elsewise, Local, EInv, ErrorOK
    <2>3. ErrorOK(s)'
      BY <1>2, AfterError, BeforeError DEF EInv, ErrorOK
    <2> QED  BY <2>2, <2>3 DEF EInv
  <1> QED  BY <1>1, <1>2, OutsideCallbacks DEF Next, vars, workerVars, history

\* What a socket that failed reports: nothing more.
LEMMA LastErrorStep ==
    ASSUME IInv, EInv, [Next]_vars, NEW s \in Socks, errors[s] > 0
    PROVE  /\ errors'[s] = errors[s]
           /\ \A p \in Peers : Home(p) = s => got'[p] = got[p]
  <1>1. CASE UNCHANGED <<got, errors>>
    BY <1>1
  <1>2. ASSUME NEW r \in Socks, Worker(r)
        PROVE  /\ errors'[s] = errors[s]
               /\ \A p \in Peers : Home(p) = s => got'[p] = got[p]
    <2>1. CASE r = s
      BY <1>2, <2>1, AfterError DEF EInv, ErrorOK
    <2>2. CASE r # s
      BY <1>2, <2>2, WorkerLocal DEF Elsewise, Local
    <2> QED  BY <2>1, <2>2
  <1> QED  BY <1>1, <1>2, OutsideCallbacks DEF Next, vars, history

\* kc_netl_fail is the last thing a socket reports.
THEOREM ErrorEnds == Spec => ErrorIsLast
  <1>1. Init => EInv
    BY DEF Init, EInv, ErrorOK
  <1>2. IInv /\ EInv /\ [Next]_vars => EInv'
    BY ErrorStep
  <1>3. IInv /\ EInv /\ [Next]_vars =>
            [\A s \in Socks : errors[s] > 0 =>
                /\ errors'[s] = errors[s]
                /\ \A p \in Peers : Home(p) = s => got'[p] = got[p]]_vars
    BY LastErrorStep
  <1> QED  BY <1>1, <1>2, <1>3, Inductive, PTL DEF Spec, ErrorIsLast

-----------------------------------------------------------------------------
(* The close of a peer. *)

\* A hang-up is seen, and a flush fails, only of a broken connection, which stays
\* broken.
LineOK(s) ==
    /\ \A p \in DOMAIN batch[s] : "hangup" \in batch[s][p] => line[p] = "broken"
    /\ pc[s] = "finish" => line[cur[s]] = "broken"

\* What the close of a peer owes to the state of its connection.
Gone(p) == peer[p] = "closed" /\ line[p] = "up" => sent[p] = taken[p]

LInv == (\A p \in Peers : Gone(p)) /\ \A s \in Socks : LineOK(s)

\* Chunks are queued for a peer that is not closed.
LEMMA QueueOpen ==
    ASSUME IInv, NEW p \in Peers, (peer[p] = "freed" /\ UNCHANGED taken) \/ Queue(p)
    PROVE  \A q \in Peers : peer[q] = "closed" => taken'[q] = taken[q]
  BY DEF Queue, IInv, TypeOK, QueueType

\* The steps that are no worker's.
LEMMA LineOutside ==
    ASSUME IInv, LInv,
           \/ \E p \in Peers : Remote(p) \/ PeerSend(p) \/ PeerClose(p)
           \/ \E t \in InCallback \cup {App} : SendCall(t) \/ CloseCall(t)
           \/ CallStep
    PROVE  LInv'
  <1>1. UNCHANGED <<pc, batch, cur, sent>>
    BY DEF Remote, PeerSend, PeerClose, SendCall, CloseCall, CallStep, Look, StopOutgoing,
         JoinOutgoing, Connect, Store, Use, UseQueue, StopListening, JoinListening, Free,
         workerVars, peerVars
  <1>2. \A p \in Peers : line'[p] = line[p] \/ line[p] = "up"
    BY DEF Remote, PeerSend, PeerClose, SendCall, CloseCall, CallStep, Look, StopOutgoing,
         JoinOutgoing, Connect, Store, Use, UseQueue, StopListening, JoinListening, Free,
         lineVars, IInv, TypeOK, FlagType
  <1>3. \A p \in Peers : peer'[p] = "closed" => peer[p] = "closed"
    <2>1. CASE UNCHANGED peer
      BY <2>1
    <2>2. CASE JoinOutgoing \/ JoinListening
      BY <2>2 DEF JoinOutgoing, JoinListening, Destroy
    <2>3. CASE Connect
      BY <2>3, Shapes DEF Connect, IInv, TypeOK, WorkerType
    <2> QED  BY <2>1, <2>2, <2>3 DEF Remote, PeerSend, PeerClose, SendCall, CloseCall, CallStep, Look,
         StopOutgoing, Store, Use, UseQueue, StopListening, Free, peerVars
  <1>4. \A q \in Peers : peer[q] = "closed" => taken'[q] = taken[q]
    <2>1. CASE UNCHANGED taken
      BY <2>1
    <2>2. ASSUME NEW p \in Peers, PeerSend(p)
          PROVE  \A q \in Peers : peer[q] = "closed" => taken'[q] = taken[q]
      BY <2>2, QueueOpen DEF PeerSend
    <2>3. CASE UseQueue
      <3>1. call.peer \in Peers
        BY <2>3 DEF UseQueue, IInv, CallOK
      <3> QED  BY <2>3, <3>1, QueueOpen DEF UseQueue
    <2> QED  BY <2>1, <2>2, <2>3 DEF Remote, PeerClose, SendCall, CloseCall, CallStep, Look,
         StopOutgoing, JoinOutgoing, Connect, Store, Use, StopListening, JoinListening, Free,
         peerVars
  <1>5. ASSUME NEW p \in Peers PROVE Gone(p)'
    <2>1. CASE line'[p] = "up"
      <3>1. line[p] = "up"
        BY <1>2, <2>1
      <3> QED  BY <1>1, <1>3, <1>4, <3>1 DEF LInv, Gone
    <2>2. CASE line'[p] # "up"
      BY <2>2 DEF Gone
    <2> QED  BY <2>1, <2>2
  <1>6. ASSUME NEW s \in Socks PROVE LineOK(s)'
    <2>1. DOMAIN batch[s] \subseteq Peers
      BY DEF IInv, TypeOK, WorkerType
    <2>2. pc[s] = "finish" => cur[s] \in Peers
      BY DEF IInv, WorkerOK, PeersOf
    <2> QED  BY <1>1, <1>2, <2>1, <2>2 DEF LInv, LineOK
  <1> QED  BY <1>5, <1>6 DEF LInv

\* What is left to show of a worker's step: that no hang-up is made up, and that
\* the peer it closes was sent everything or has lost its connection.
LEMMA LineWorker ==
    ASSUME IInv, LInv, NEW s \in Socks, Elsewise(s), LineOK(s)',
           \A p \in Peers : Home(p) = s /\ peer'[p] = "closed" /\ line[p] = "up" =>
               \/ peer[p] = "closed" /\ sent'[p] = sent[p]
               \/ sent'[p] = taken[p],
           \A p \in Peers : Home(p) # s => sent'[p] = sent[p]
    PROVE  LInv'
  <1>1. ASSUME NEW r \in Socks, r # s PROVE LineOK(r)'
    BY <1>1 DEF Elsewise, Local, LInv, LineOK
  <1>2. ASSUME NEW p \in Peers PROVE Gone(p)'
    BY DEF Elsewise, Local, LInv, Gone
  <1> QED  BY <1>1, <1>2 DEF LInv

\* The peer that a worker closes had lost its connection, or got everything.
LEMMA LineFinish ==
    ASSUME IInv, LInv, NEW s \in Socks, Elsewise(s), NEW p \in PeersOf(s), NEW back,
           Finish(s, p, back), UNCHANGED sent,
           line[p] = "up" => sent[p] = taken[p],
           DOMAIN batch'[s] \subseteq DOMAIN batch[s],
           \A q \in DOMAIN batch'[s] : batch'[s][q] = batch[s][q]
    PROVE  LInv'
  <1>1. LineOK(s)'
    BY DEF LInv, LineOK, Elsewise, Finish, Moves, IInv, TypeOK, WorkerType
  <1>2. \A q \in Peers : q # p => peer'[q] = peer[q]
    BY DEF Finish, IInv, TypeOK, WorkerType
  <1> QED  BY <1>1, <1>2, LineWorker

LEMMA LineStep == ASSUME IInv, LInv, NEW s \in Socks, Worker(s) PROVE LInv'
  <1> USE DEF IInv, TypeOK, WorkerType
  <1>1. Elsewise(s)
    BY WorkerLocal
  <1>2. DOMAIN batch[s] \subseteq Peers /\ LineOK(s)
    BY DEF LInv
  <1>3. CASE ShouldStop(s) \/ Build(s)
    <2>1. /\ \A q \in DOMAIN batch'[s] :
                \/ q \in DOMAIN batch[s] /\ batch'[s][q] = batch[s][q]
                \/ "hangup" \notin batch'[s][q]
          /\ pc'[s] # "finish" /\ UNCHANGED sent
          /\ \A p \in Peers : peer'[p] = "closed" => peer[p] = "closed"
      <3>1. CASE Ends(s)
        <4>1. DOMAIN batch'[s] = {} /\ pc'[s] # "finish"
          BY <3>1 DEF Ends, Moves, Empty
        <4>2. UNCHANGED sent
          BY <1>3 DEF ShouldStop, Build
        <4>3. \A p \in Peers : peer'[p] = "closed" => peer[p] = "closed"
          BY <3>1 DEF Ends, Destroy
        <4> QED  BY <4>1, <4>2, <4>3
      <3>2. CASE ~Ends(s) /\ ShouldStop(s)
        BY <3>2 DEF ShouldStop, Moves
      <3>3. CASE ~Ends(s) /\ Build(s)
        <4>1. /\ batch'[s] = [p \in PeersOf(s) |-> Asked(p)]
              /\ pc'[s] = "poll" /\ UNCHANGED <<sent, peer>>
          BY <3>3 DEF Build, Moves
        <4>2. \A p : "hangup" \notin Asked(p)
          BY DEF Asked
        <4> QED  BY <4>1, <4>2
      <3> QED  BY <1>3, <3>1, <3>2, <3>3
    <2>2. \A q \in DOMAIN batch'[s] : "hangup" \in batch'[s][q] => line[q] = "broken"
      BY <1>2, <2>1 DEF LineOK
    <2>3. LineOK(s)'
      BY <1>1, <2>1, <2>2 DEF LineOK, Elsewise
    <2> QED  BY <1>1, <2>1, <2>3, LineWorker
  <1>4. CASE Reap(s)
    <2>1. UNCHANGED <<sent, batch>>
      BY <1>4 DEF Reap
    <2>2. CASE \E p \in Due(s) : Finish(s, p, "reap")
      <3>1. PICK p \in PeersOf(s) : Finish(s, p, "reap") /\ Queued(p) = 0
        BY <2>2 DEF Due
      <3>2. sent[p] = taken[p]
        BY <3>1 DEF Queued, PeersOf, QueueType
      <3> QED  BY <1>1, <2>1, <3>1, <3>2, LineFinish
    <2>3. CASE Moves(s, "again") /\ UNCHANGED <<peer, cur, then>>
      <3>1. LineOK(s)'
        BY <1>1, <1>2, <2>1, <2>3 DEF LineOK, Elsewise, Moves
      <3> QED  BY <1>1, <2>1, <2>3, <3>1, LineWorker
    <2> QED  BY <1>4, <2>2, <2>3 DEF Reap
  <1>5. ASSUME NEW room, NEW accept \in BOOLEAN, Poll(s, room, accept) PROVE LInv'
    <2>1. UNCHANGED <<sent, peer>> /\ pc'[s] # "finish"
      BY <1>5 DEF Poll, peerVars, Moves
    <2>2. pc[s] = "poll"
      BY <1>5 DEF Poll
    <2>3. \A q \in DOMAIN batch'[s] : q \in DOMAIN batch[s] /\ batch'[s][q] = Ready(q, batch[s][q], room)
      BY <1>5 DEF Poll, Only
    <2>4. LineOK(s)'
      BY <1>1, <1>2, <2>1, <2>3 DEF LineOK, Elsewise, Ready
    <2> QED  BY <1>1, <2>1, <2>4, LineWorker
  <1>6. CASE PollFails(s) \/ Accept(s) \/ AcceptFails(s) \/ BatchOver(s)
    <2>1. /\ UNCHANGED <<sent, batch>> /\ pc'[s] # "finish"
          /\ \A p \in Peers : peer'[p] = "closed" => peer[p] = "closed"
      BY <1>6 DEF PollFails, Accept, AcceptFails, BatchOver, Accepted, Fail, Moves, peerVars
    <2>2. LineOK(s)'
      BY <1>1, <1>2, <2>1 DEF LineOK, Elsewise
    <2> QED  BY <1>1, <2>1, <2>2, LineWorker
  <1>7. ASSUME NEW p \in Peers, Serves(s, p)
        PROVE  /\ p \in PeersOf(s) /\ DOMAIN batch'[s] \subseteq DOMAIN batch[s]
               /\ \A q \in DOMAIN batch'[s] : batch'[s][q] = batch[s][q]
    BY <1>7, ServesBatch
  <1>8. ASSUME NEW p \in Peers, Receive(s, p) PROVE LInv'
    <2>1. Serves(s, p) /\ UNCHANGED sent
      BY <1>8 DEF Receive
    <2>2. CASE line[p] # "up" /\ Finish(s, p, "batch")
      BY <1>1, <1>7, <2>1, <2>2, LineFinish
    <2>3. CASE Moves(s, "receive") /\ UNCHANGED peer
      <3>1. LineOK(s)'
        BY <1>1, <1>2, <1>7, <2>1, <2>3 DEF LineOK, Elsewise, Moves
      <3> QED  BY <1>1, <2>1, <2>3, <3>1, LineWorker
    <2> QED  BY <1>8, <2>2, <2>3 DEF Receive
  <1>9. ASSUME NEW p \in Peers, NEW k \in 0..Queued(p), Flush(s, p, k) PROVE LInv'
    <2>1. Serves(s, p) /\ UNCHANGED <<peer, pc, cur>> /\ pc[s] = "batch"
      BY <1>9 DEF Flush, Serves
    <2>2. peer[p] = "open" /\ \A q \in Peers : q # p => sent'[q] = sent[q]
      BY <1>7, <1>9, <2>1 DEF Flush, QueueType, PeersOf
    <2>3. LineOK(s)'
      BY <1>1, <1>2, <1>7, <2>1 DEF LineOK, Elsewise
    <2>4. Home(p) = s
      BY <1>7, <2>1 DEF PeersOf
    <2> QED  BY <1>1, <2>1, <2>2, <2>3, <2>4, LineWorker
  <1>10. ASSUME NEW p \in Peers, FlushFails(s, p) PROVE LInv'
    <2>1. /\ Serves(s, p) /\ UNCHANGED <<peer, sent>> /\ line[p] = "broken"
          /\ cur' = [cur EXCEPT ![s] = p]
      BY <1>10 DEF FlushFails
    <2>2. LineOK(s)'
      BY <1>1, <1>2, <1>7, <2>1 DEF LineOK, Elsewise
    <2> QED  BY <1>1, <2>1, <2>2, LineWorker
  <1>11. CASE FinishFailed(s)
    <2>1. cur[s] \in PeersOf(s) /\ line[cur[s]] = "broken"
      BY <1>2, <1>11 DEF FinishFailed, WorkerOK, LineOK
    <2> QED  BY <1>1, <1>11, <2>1, LineFinish DEF FinishFailed
  <1>12. ASSUME NEW p \in Peers, HangUp(s, p) PROVE LInv'
    <2>1. Serves(s, p) /\ UNCHANGED sent /\ Finish(s, p, "batch") /\ line[p] = "broken"
      BY <1>2, <1>12 DEF HangUp, Serves, LineOK
    <2> QED  BY <1>1, <1>7, <2>1, LineFinish
  <1>13. CASE Notify(s) \/ Return(s)
    <2>1. UNCHANGED <<sent, cur>>
      BY <1>13 DEF Notify, Return, peerVars
    <2>2. /\ pc'[s] # "finish"
          /\ DOMAIN batch'[s] \subseteq DOMAIN batch[s]
          /\ \A q \in DOMAIN batch'[s] : batch'[s][q] = batch[s][q]
          /\ \A p \in Peers : peer'[p] = "closed" => peer[p] = "closed"
      <3>1. CASE Notify(s)
        BY <3>1 DEF Notify, Moves, peerVars
      <3>2. CASE Return(s) /\ pc[s] = "error"
        BY <3>2 DEF Return, Ends, Destroy, Moves, Empty
      <3>3. CASE Return(s) /\ pc[s] # "error"
        <4>1. then[s] # "finish"
          OBVIOUS
        <4> QED  BY <3>3, <4>1 DEF Return, Moves
      <3> QED  BY <1>13, <3>1, <3>2, <3>3
    <2>3. LineOK(s)'
      BY <1>1, <1>2, <2>1, <2>2 DEF LineOK, Elsewise
    <2> QED  BY <1>1, <2>1, <2>2, <2>3, LineWorker
  <1> QED  BY <1>2, <1>3, <1>4, <1>5, <1>6, <1>8, <1>9, <1>10, <1>11, <1>12, <1>13 DEF Worker

LEMMA LineNext == ASSUME IInv, LInv, [Next]_vars PROVE LInv'
  <1>1. CASE UNCHANGED vars
    BY <1>1 DEF vars, peerVars, lineVars, workerVars, LInv, LineOK, Gone
  <1> QED  BY <1>1, LineOutside, LineStep DEF Next

\* kc_netl_close_requested_peers closes a peer once nothing is queued for it; the
\* other ways to kc_netl_peer_finish are of a connection that ended.
THEOREM ClosesGracefully == Spec => []GracefulClose
  <1>1. Init => LInv
    BY DEF Init, LInv, Gone, LineOK, Empty
  <1>2. IInv /\ LInv /\ [Next]_vars => LInv'
    BY LineNext
  <1>3. LInv => GracefulClose
    BY DEF LInv, Gone, GracefulClose
  <1> QED  BY <1>1, <1>2, <1>3, Inductive, PTL DEF Spec

-----------------------------------------------------------------------------
(* The close of the interface. *)

InCall == {"receive", "disconnect", "error"}

\* An outgoing socket that the interface forgot was closed from its own callback:
\* it reads no further and ends, without serving its peer.
Winding(s) ==
    /\ stop[s] /\ self[s]
    /\ pc[s] \in InCall \cup {"batch", "top", "reap", "again", "ended"}
    /\ pc[s] # "error" => DOMAIN batch[s] = {}
    /\ pc[s] = "reap" => PeersOf(s) = {}

\* A socket that its own worker closed is released by the end of that worker.
SelfOK(s) == self[s] /\ pc[s] = "ended" => sock[s] = "destroyed"

\* An outgoing socket has one peer, which is in no batch while it is served; the
\* interface has the socket, is about to have it, or left it to wind down.
OutgoingOK(s) ==
    /\ pc[s] \in {"receive", "finish", "notify", "disconnect"} => DOMAIN batch[s] = {}
    /\ sock[s] = "running" /\ s # iout /\ ~(call.pc = "store" /\ call.peer = <<s, 1>>)
           => Winding(s)

\* A worker that calls is in a callback.
CallerOK == call.by \in Socks => pc[call.by] \in InCall

\* What the steps of a close leave behind: no outgoing socket, then a listening one
\* that is released or is to be released by its worker.
ClosingOK ==
    /\ iout \in Outgoing \cup {NoSock}
    /\ call.pc = "join_out" => iout # NoSock
    /\ call.pc \in {"connect", "store", "stop_lis", "join_lis", "free"} => iout = NoSock
    /\ call.pc = "store" => \E s \in Outgoing : call.peer = <<s, 1>>
    /\ ~open => iout = NoSock /\ call = Idle
    /\ ~open \/ call.pc = "free" => self[Listening] \/ sock[Listening] = "destroyed"

CInv ==
    /\ CallerOK /\ ClosingOK
    /\ \A s \in Socks : SelfOK(s)
    /\ \A s \in Outgoing : OutgoingOK(s)

\* A step of the call keeps who makes it and its peer; its end forgets it.
LEMMA GotoStep ==
    ASSUME IInv, NEW step, Goto(step)
    PROVE  call'.pc = step /\ call'.by = call.by /\ call'.peer = call.peer
  BY DEF Goto, IInv, TypeOK, CallType, Call

LEMMA EndStep ==
    ASSUME EndCall PROVE call' = Idle /\ call'.pc = "idle" /\ call'.by = App
  BY DEF EndCall, Idle

\* The call goes on with the peer that the interface has.
LEMMA UsePeer ==
    ASSUME IInv, Use, ipeer # NoPeer
    PROVE  call'.pc = "queue" /\ call'.by = call.by
  BY DEF Use, IInv, TypeOK, CallType, Call

LEMMA OnePeer == ASSUME NEW s \in Outgoing, NEW p \in Peers, Home(p) = s PROVE p = <<s, 1>>
  BY DEF Outgoing, Peers, Home, Listening

\* The worker that closes its own socket is in a callback: its next steps lead to
\* its end.
LEMMA Unwinds ==
    ASSUME IInv, NEW s \in Outgoing, Worker(s), Winding(s), OutgoingOK(s), Elsewise(s),
           sock'[s] = "running"
    PROVE  Winding(s)'
  <1> USE DEF IInv, TypeOK, WorkerType, InCall
  <1>1. stop'[s] /\ self'[s] /\ s \in Socks
    BY Shapes DEF Winding, Elsewise
  <1>2. ~Ends(s)
    BY <1>1 DEF Ends, Destroy, Winding
  <1>3. \/ Return(s) \/ BatchOver(s) \/ Reap(s)
    <2>1. pc[s] \notin {"build", "poll", "accept", "finish", "notify"}
      BY DEF Winding
    <2>2. pc[s] = "batch" => DOMAIN batch[s] = {}
      BY DEF Winding
    <2> QED  BY <1>2, <2>1, <2>2 DEF Worker, Winding, ShouldStop, Build, PollFails, Poll, Accept,
                AcceptFails, Receive, Flush, FlushFails, HangUp, Serves, FinishFailed, Notify
  <1>4. CASE BatchOver(s)
    BY <1>1, <1>4 DEF BatchOver, Moves, Winding
  <1>5. CASE Reap(s)
    <2>1. Due(s) = {} /\ PeersOf(s) = {} /\ pc[s] = "reap"
      BY <1>5 DEF Reap, Winding, Due
    <2>2. UNCHANGED batch /\ Moves(s, "again")
      BY <1>5, <2>1 DEF Reap
    <2> QED  BY <1>1, <2>1, <2>2 DEF Moves, Winding
  <1>6. CASE Return(s)
    <2>1. UNCHANGED batch /\ pc[s] \in {"receive", "disconnect"}
      BY <1>2, <1>6 DEF Return
    <2>2. DOMAIN batch'[s] = {}
      BY <2>1 DEF OutgoingOK
    <2>3. CASE pc[s] = "receive"
      <3>1. pc'[s] = "batch"
        BY <1>1, <1>6, <2>3 DEF Return, Moves
      <3> QED  BY <1>1, <2>2, <3>1 DEF Winding
    <2>4. CASE pc[s] = "disconnect"
      <3>1. cur[s] \in Peers /\ Home(cur[s]) = s
        BY <1>1, <2>4 DEF WorkerOK
      <3>2. /\ pc'[s] \in {"reap", "batch"}
            /\ peer' = [peer EXCEPT ![cur[s]] = "freed"]
        BY <1>1, <1>6, <2>4 DEF Return, Moves
      <3>3. \A p \in Peers : Home(p) = s => peer'[p] = "freed"
        BY <3>1, <3>2, OnePeer
      <3>4. PeersOf(s)' = {}
        BY <3>3 DEF PeersOf
      <3> QED  BY <1>1, <2>2, <3>2, <3>4 DEF Winding
    <2> QED  BY <2>1, <2>3, <2>4
  <1> QED  BY <1>3, <1>4, <1>5, <1>6

\* The one peer of an outgoing socket leaves the batch when it is served.
LEMMA BatchOfOne ==
    ASSUME IInv, NEW s \in Outgoing, Worker(s), OutgoingOK(s)
    PROVE  pc'[s] \in {"receive", "finish", "notify", "disconnect"} => DOMAIN batch'[s] = {}
  <1> USE DEF IInv, TypeOK, WorkerType
  <1> DEFINE Served == pc'[s] \in {"receive", "finish", "notify", "disconnect"} => DOMAIN batch'[s] = {}
  <1> SUFFICES Served
    OBVIOUS
  <1>1. s \in Socks
    BY Shapes
  <1>2. ASSUME NEW p \in DOMAIN batch[s], Serves(s, p) PROVE DOMAIN batch'[s] = {}
    <2>1. /\ DOMAIN batch'[s] = DOMAIN batch[s] \ {p} /\ p \in Peers /\ p \in PeersOf(s)
      BY <1>1, <1>2, ServesBatch
    <2>2. \A q \in DOMAIN batch[s] : q = p
      BY <1>1, <2>1, OnePeer DEF WorkerOK, PeersOf
    <2> QED  BY <2>1, <2>2
  <1>3. ASSUME NEW p \in DOMAIN batch[s],
               Receive(s, p) \/ FlushFails(s, p) \/ HangUp(s, p) \/ \E k \in 0..Queued(p) : Flush(s, p, k)
        PROVE  Served
    BY <1>2, <1>3 DEF Receive, FlushFails, HangUp, Flush
  <1>4. ASSUME Reap(s) PROVE Served
    BY <1>1, <1>4 DEF Reap, WorkerOK
  <1>5. ASSUME FinishFailed(s) \/ Notify(s) PROVE Served
    BY <1>5 DEF FinishFailed, Notify, OutgoingOK
  <1>6. ASSUME Return(s) \/ ShouldStop(s) \/ Build(s) PROVE Served
    <2>1. pc'[s] \in {"ended", "batch", "reap", "build", "poll"}
      BY <1>1, <1>6 DEF Return, ShouldStop, Build, Ends, Moves
    <2> QED  BY <2>1
  <1>7. ASSUME PollFails(s) \/ Accept(s) \/ AcceptFails(s) \/ BatchOver(s) PROVE Served
    BY <1>1, <1>7 DEF PollFails, Accept, AcceptFails, BatchOver, Fail, Moves
  <1>8. ASSUME NEW room, NEW accept \in BOOLEAN, Poll(s, room, accept)
        PROVE  Served
    BY <1>1, <1>8 DEF Poll, Moves
  <1> HIDE DEF Served
  <1> QED  BY <1>3, <1>4, <1>5, <1>6, <1>7, <1>8 DEF Worker

\* The end of a worker releases the socket it closed itself.
LEMMA SelfReleased ==
    ASSUME IInv, NEW s \in Socks, Worker(s), Elsewise(s)
    PROVE  SelfOK(s)'
  <1> USE DEF IInv, TypeOK, WorkerType
  <1>1. CASE Ends(s)
    BY <1>1 DEF Ends, Destroy, SelfOK, Elsewise
  <1>2. CASE ~Ends(s)
    <2>1. pc'[s] # "ended"
      <3>1. CASE ShouldStop(s) \/ Build(s) \/ Return(s)
        BY <1>2, <3>1 DEF ShouldStop, Build, Return, Moves
      <3>2. CASE Reap(s) \/ PollFails(s) \/ Accept(s) \/ AcceptFails(s) \/ FinishFailed(s)
                 \/ BatchOver(s) \/ Notify(s)
        BY <3>2 DEF Reap, PollFails, Accept, AcceptFails, FinishFailed, BatchOver, Notify, Fail,
                    Finish, Moves
      <3>3. ASSUME NEW room, NEW accept \in BOOLEAN, Poll(s, room, accept) PROVE pc'[s] # "ended"
        BY <3>3 DEF Poll, Moves
      <3>4. ASSUME NEW p \in DOMAIN batch[s],
               Receive(s, p) \/ FlushFails(s, p) \/ HangUp(s, p) \/ \E k \in 0..Queued(p) : Flush(s, p, k)
            PROVE pc'[s] # "ended"
        BY <3>4 DEF Receive, FlushFails, HangUp, Flush, Serves, Finish, Moves
      <3> QED  BY <3>1, <3>2, <3>3, <3>4 DEF Worker
    <2> QED  BY <2>1 DEF SelfOK
  <1> QED  BY <1>1, <1>2

LEMMA CloseWorker == ASSUME IInv, CInv, NEW s \in Socks, Worker(s) PROVE CInv'
  <1>1. Elsewise(s)
    BY WorkerLocal
  <1>2. CallerOK'
    <2>1. pc[s] \in InCall => call.by # s
      <3>1. pc[s] \in InCall => Return(s)
        BY DEF InCall, Worker, ShouldStop, Reap, Build, PollFails, Poll, Accept, AcceptFails, Receive,
           FlushFails, HangUp, Flush, Serves, FinishFailed, BatchOver, Notify
      <3> QED  BY <3>1 DEF Return
    <2>2. call.by # s
      BY <2>1 DEF CInv, CallerOK
    <2> QED  BY <1>1, <2>2 DEF CInv, CallerOK, Elsewise, Local
  <1>3. ClosingOK'
    <2>1. sock[Listening] = "destroyed" => sock'[Listening] = "destroyed"
      BY <1>1, Shapes DEF Elsewise, Local
    <2> QED  BY <1>1, <2>1 DEF CInv, ClosingOK, Elsewise, Idle
  <1>4. ASSUME NEW r \in Socks PROVE SelfOK(r)'
    <2>1. CASE r = s
      BY <1>1, <2>1, SelfReleased
    <2>2. CASE r # s
      BY <1>1, <2>2 DEF CInv, SelfOK, Elsewise, Local
    <2> QED  BY <2>1, <2>2
  <1>5. ASSUME NEW r \in Outgoing PROVE OutgoingOK(r)'
    <2>0. r \in Socks /\ OutgoingOK(r)
      BY Shapes DEF CInv
    <2>1. CASE r = s
      <3>1. ASSUME sock'[r] = "running", r # iout', ~(call'.pc = "store" /\ call'.peer = <<r, 1>>)
            PROVE  Winding(r)'
        <4>1. Winding(r)
          BY <1>1, <2>0, <2>1, <3>1 DEF OutgoingOK, Elsewise
        <4> QED  BY <1>1, <2>0, <2>1, <3>1, <4>1, Unwinds
      <3> QED  BY <2>0, <2>1, <3>1, BatchOfOne DEF OutgoingOK
    <2>2. CASE r # s
      <3>1. PeersOf(r)' = PeersOf(r)
        BY <1>1, <2>2, <2>0 DEF PeersOf, Elsewise, Local
      <3> QED  BY <1>1, <2>0, <2>2, <3>1 DEF OutgoingOK, Winding, Elsewise, Local
    <2> QED  BY <2>1, <2>2
  <1> QED  BY <1>2, <1>3, <1>4, <1>5 DEF CInv

\* Steps that neither start nor stop a socket nor change the outgoing one.
LEMMA CloseQuiet ==
    ASSUME CInv, UNCHANGED <<iout, sock, stop, self, peer, pc, batch>>, CallerOK',
           ClosingOK', call.pc # "store"
    PROVE  CInv'
  BY DEF CInv, SelfOK, OutgoingOK, Winding, PeersOf

LEMMA CloseOutside ==
    ASSUME IInv, CInv,
           \/ \E p \in Peers : Remote(p) \/ PeerSend(p) \/ PeerClose(p)
           \/ UNCHANGED vars
    PROVE  CInv'
  BY DEF CInv, CallerOK, ClosingOK, SelfOK, OutgoingOK, Winding, PeersOf, Remote, PeerSend, PeerClose,
         vars, ifaceVars, sockVars, peerVars, workerVars, Idle

LEMMA CloseCalls ==
    ASSUME IInv, CInv,
           \/ \E t \in InCallback \cup {App} : SendCall(t) \/ CloseCall(t)
           \/ Look \/ Use \/ UseQueue \/ Free
    PROVE  CInv'
  <1> USE DEF IInv, TypeOK, CallType, Call
  <1>1. UNCHANGED <<iout, sock, stop, self, peer, pc, batch>>
    BY DEF SendCall, CloseCall, Look, Use, UseQueue, Free, sockVars, peerVars, workerVars
  <1>2. call.pc # "store"
    BY DEF SendCall, CloseCall, Look, Use, UseQueue, Free, Idle
  <1>3. CallerOK'
    <2>1. UNCHANGED pc /\ CallerOK
      BY <1>1 DEF CInv
    <2>2. ASSUME NEW t \in InCallback \cup {App}, SendCall(t) \/ CloseCall(t) PROVE CallerOK'
      <3>1. call'.by = t
        BY <2>2 DEF SendCall, CloseCall
      <3> QED  BY <2>1, <3>1, Shapes DEF CallerOK, InCallback, InCall
    <2>3. CASE Look \/ Use
      <3>1. call'.by \in {call.by, App}
        BY <2>3, GotoStep, EndStep, UsePeer DEF Look, Use
      <3> QED  BY <2>1, <3>1, Shapes DEF CallerOK
    <2>4. CASE UseQueue \/ Free
      <3>1. call'.by = App
        BY <2>4 DEF UseQueue, Free, EndCall, Idle
      <3> QED  BY <3>1, Shapes DEF CallerOK
    <2> QED  BY <2>2, <2>3, <2>4
  <1>4. ClosingOK'
    <2>1. ASSUME NEW t \in InCallback \cup {App}, SendCall(t) \/ CloseCall(t) PROVE ClosingOK'
      <3>1. call'.pc \in {"look", "stop_out"} /\ open /\ UNCHANGED open
        BY <2>1 DEF SendCall, CloseCall
      <3> QED  BY <1>1, <3>1 DEF CInv, ClosingOK
    <2>2. CASE Look \/ Use
      <3>1. call'.pc \in {"stop_out", "use", "queue", "idle"} /\ UNCHANGED open
        BY <2>2, GotoStep, EndStep, UsePeer DEF Look, Use
      <3>2. open
        BY <2>2 DEF CInv, ClosingOK, Idle, Look, Use
      <3> QED  BY <1>1, <3>1, <3>2 DEF CInv, ClosingOK
    <2>3. CASE UseQueue \/ Free
      BY <1>1, <2>3 DEF CInv, ClosingOK, UseQueue, Free, EndCall, Idle
    <2> QED  BY <2>1, <2>2, <2>3
  <1> QED  BY <1>1, <1>2, <1>3, <1>4, CloseQuiet

\* A socket is stopped: by its own worker, which is to release it, or by another
\* thread, which waits.
LEMMA CloseStops ==
    ASSUME IInv, CInv, StopOutgoing \/ StopListening
    PROVE  CInv'
  <1> USE DEF IInv, TypeOK, CallType, Call, FlagType
  <1>1. /\ UNCHANGED <<open, sock, peer, pc, batch>> /\ call.pc # "store"
        /\ call'.pc # "store" /\ call'.by = call.by /\ open
    BY DEF StopOutgoing, StopListening, Stopping, PastOutgoing, Goto, sockVars, peerVars, workerVars,
           CInv, ClosingOK, Idle
  <1>2. CallerOK'
    BY <1>1 DEF CInv, CallerOK
  <1>3. CASE iout = NoSock /\ StopOutgoing
    <2>1. UNCHANGED <<iout, stop, self>>
      BY <1>3 DEF StopOutgoing, sockVars
    <2>2. ClosingOK'
      BY <1>1, <1>3, <2>1 DEF CInv, ClosingOK, StopOutgoing, PastOutgoing, Goto
    <2> QED  BY <1>1, <1>2, <2>1, <2>2, CloseQuiet
  <1>4. ASSUME NEW s \in Socks, stop' = [stop EXCEPT ![s] = TRUE],
               self' = [self EXCEPT ![s] = @ \/ call.by = s]
        PROVE  /\ \A r \in Socks : SelfOK(r)'
               /\ \A r \in Outgoing : Winding(r) => Winding(r)'
               /\ s \in Outgoing /\ call.by = s => Winding(s)'
    <2>1. ASSUME NEW r \in Socks PROVE SelfOK(r)'
      <3>1. CASE self'[r] = self[r]
        BY <1>1, <3>1 DEF CInv, SelfOK
      <3>2. CASE self'[r] # self[r]
        <4>1. call.by = r
          BY <1>4, <3>2
        <4> QED  BY <1>1, <4>1 DEF CInv, CallerOK, InCall, SelfOK
      <3> QED  BY <3>1, <3>2
    <2>2. ASSUME NEW r \in Outgoing, Winding(r) PROVE Winding(r)'
      <3>1. r \in Socks
        BY Shapes
      <3> QED  BY <1>1, <1>4, <2>2, <3>1 DEF Winding, PeersOf
    <2>3. ASSUME s \in Outgoing, call.by = s PROVE Winding(s)'
      <3>1. pc[s] \in InCall
        BY <2>3 DEF CInv, CallerOK
      <3>2. pc[s] # "error" => DOMAIN batch[s] = {}
        BY <2>3, <3>1 DEF CInv, OutgoingOK, InCall
      <3>3. stop'[s] /\ self'[s]
        BY <1>4, <2>3
      <3> QED  BY <1>1, <3>1, <3>2, <3>3 DEF Winding, InCall
    <2> QED  BY <2>1, <2>2, <2>3
  <1>5. CASE iout # NoSock /\ StopOutgoing
    <2>1. iout \in Outgoing /\ iout \in Socks
      BY <1>5, Shapes DEF CInv, ClosingOK
    <2>2. /\ stop' = [stop EXCEPT ![iout] = TRUE]
          /\ self' = [self EXCEPT ![iout] = @ \/ call.by = iout]
          /\ call.by = iout => iout' = NoSock /\ call'.pc \in {"connect", "stop_lis"}
          /\ call.by # iout => iout' = iout /\ call'.pc = "join_out"
      BY <1>5 DEF StopOutgoing, Stopping, PastOutgoing, Goto
    <2>3. ClosingOK'
      BY <1>1, <1>5, <2>1, <2>2 DEF ClosingOK
    <2>4. ASSUME NEW r \in Outgoing PROVE OutgoingOK(r)'
      <3>1. OutgoingOK(r)
        BY DEF CInv
      <3>2. sock[r] = "running" /\ r # iout' => Winding(r)'
        BY <1>1, <1>4, <2>1, <2>2, <3>1 DEF OutgoingOK
      <3> QED  BY <1>1, <3>1, <3>2 DEF OutgoingOK
    <2> QED  BY <1>2, <1>4, <2>1, <2>2, <2>3, <2>4 DEF CInv
  <1>6. CASE StopListening
    <2>1. /\ stop' = [stop EXCEPT ![Listening] = TRUE]
          /\ self' = [self EXCEPT ![Listening] = @ \/ call.by = Listening]
          /\ call'.pc \in {"join_lis", "free"} /\ UNCHANGED iout
          /\ call'.pc = "free" => call.by = Listening
          /\ iout = NoSock
      BY <1>6 DEF StopListening, Stopping, Goto, CInv, ClosingOK
    <2>2. ClosingOK'
      BY <1>1, <2>1, Shapes DEF ClosingOK
    <2>3. ASSUME NEW r \in Outgoing PROVE OutgoingOK(r)'
      <3>1. OutgoingOK(r)
        BY DEF CInv
      <3>2. sock[r] = "running" /\ r # iout' => Winding(r)'
        BY <1>1, <1>4, <2>1, <3>1, Shapes DEF OutgoingOK
      <3> QED  BY <1>1, <3>1, <3>2 DEF OutgoingOK
    <2> QED  BY <1>2, <1>4, <2>1, <2>2, <2>3, Shapes DEF CInv
  <1> QED  BY <1>3, <1>5, <1>6

\* A socket is released after the wait, or a new one is made and stored.
LEMMA CloseMoves ==
    ASSUME IInv, CInv, JoinOutgoing \/ JoinListening \/ Connect \/ Store
    PROVE  CInv'
  <1> USE DEF IInv, TypeOK, CallType, Call, FlagType, WorkerType
  <1>1. UNCHANGED <<open, stop, self, pc, batch>>
    BY DEF JoinOutgoing, JoinListening, Connect, Store, sockVars, workerVars
  <1>2. CallerOK'
    <2>1. call'.by \in {call.by, App}
      <3>1. CASE JoinOutgoing \/ JoinListening
        BY <3>1, GotoStep DEF JoinOutgoing, JoinListening
      <3>2. CASE Connect
        <4>1. ASSUME NEW s \in Outgoing, call' = [call EXCEPT !.pc = "store", !.peer = <<s, 1>>]
              PROVE  call'.by = call.by
          BY <4>1
        <4> QED  BY <3>2, <4>1, EndStep DEF Connect
      <3>3. CASE Store
        BY <3>3, GotoStep DEF Store
      <3> QED  BY <3>1, <3>2, <3>3
    <2> QED  BY <1>1, <2>1, Shapes DEF CInv, CallerOK
  <1>3. ASSUME NEW s \in Socks, Destroy(s), pc[s] = "ended"
        PROVE  /\ \A r \in Socks : SelfOK(r)'
               /\ \A r \in Outgoing : sock'[r] = "running" =>
                      sock[r] = "running" /\ r # s /\ (Winding(r) => Winding(r)')
    <2>1. \A r \in Socks : SelfOK(r)'
      BY <1>1, <1>3 DEF CInv, SelfOK, Destroy
    <2>2. ASSUME NEW r \in Outgoing, sock'[r] = "running"
          PROVE  sock[r] = "running" /\ r # s /\ (Winding(r) => Winding(r)')
      <3>1. r \in Socks /\ r # s /\ sock[r] = "running"
        BY <1>3, <2>2, Shapes DEF Destroy
      <3>2. PeersOf(r)' = PeersOf(r)
        BY <1>3, <3>1 DEF Destroy, PeersOf
      <3> QED  BY <1>1, <3>1, <3>2 DEF Winding
    <2> QED  BY <2>1, <2>2
  <1>4. CASE JoinOutgoing
    <2>1. /\ iout \in Socks /\ Destroy(iout) /\ pc[iout] = "ended" /\ call.pc = "join_out"
          /\ iout' = NoSock /\ call'.pc \in {"connect", "stop_lis"} /\ open
      BY <1>4 DEF JoinOutgoing, PastOutgoing, Goto, CallOK, CInv, ClosingOK, Idle
    <2>2. ClosingOK'
      BY <1>1, <2>1 DEF ClosingOK
    <2>3. ASSUME NEW r \in Outgoing PROVE OutgoingOK(r)'
      BY <1>1, <1>3, <2>1 DEF CInv, OutgoingOK
    <2> QED  BY <1>2, <1>3, <2>1, <2>2, <2>3 DEF CInv
  <1>5. CASE JoinListening
    <2>1. /\ Listening \in Socks /\ Destroy(Listening) /\ pc[Listening] = "ended"
          /\ call.pc = "join_lis" /\ UNCHANGED iout /\ call'.pc = "free" /\ open /\ iout = NoSock
      BY <1>5, Shapes DEF JoinListening, Goto, CInv, ClosingOK, Idle
    <2>2. sock'[Listening] = "destroyed"
      BY <2>1 DEF Destroy
    <2>3. ClosingOK'
      BY <1>1, <2>1, <2>2 DEF ClosingOK
    <2>4. ASSUME NEW r \in Outgoing PROVE OutgoingOK(r)'
      BY <1>1, <1>3, <2>1 DEF CInv, OutgoingOK
    <2> QED  BY <1>2, <1>3, <2>1, <2>3, <2>4 DEF CInv
  <1>6. CASE Connect /\ EndCall /\ UNCHANGED <<sock, peer>>
    <2>1. UNCHANGED <<iout, sock, peer>> /\ call.pc = "connect" /\ call'.pc = "idle"
      BY <1>6, EndStep DEF Connect
    <2>2. ClosingOK'
      BY <1>1, <1>6, <2>1 DEF CInv, ClosingOK, EndCall, Idle
    <2> QED  BY <1>1, <1>2, <2>1, <2>2, CloseQuiet
  <1>7. ASSUME Connect, NEW s \in Outgoing, sock[s] = "none",
               sock' = [sock EXCEPT ![s] = "running"],
               peer' = [peer EXCEPT ![<<s, 1>>] = "open"],
               call' = [call EXCEPT !.pc = "store", !.peer = <<s, 1>>]
        PROVE  CInv'
    <2>1. /\ UNCHANGED iout /\ call.pc = "connect" /\ iout = NoSock /\ open
          /\ call'.pc = "store" /\ call'.peer = <<s, 1>>
      <3>1. UNCHANGED iout /\ call.pc = "connect"
        BY <1>7 DEF Connect
      <3>2. iout = NoSock /\ open
        BY <3>1 DEF CInv, ClosingOK, Idle
      <3>3. call'.pc = "store" /\ call'.peer = <<s, 1>>
        BY <1>7
      <3> QED  BY <3>1, <3>2, <3>3
    <2>2. s \in Socks /\ <<s, 1>> \in Peers /\ Home(<<s, 1>>) = s /\ pc[s] = "top" /\ s # Listening
      BY <1>7, Shapes DEF SocketOK, Outgoing, Listening
    <2>3. ClosingOK'
      BY <1>1, <1>7, <2>1, <2>2 DEF ClosingOK
    <2>4. \A r \in Socks : SelfOK(r)'
      BY <1>1, <1>7, <2>2 DEF CInv, SelfOK
    <2>5. ASSUME NEW r \in Outgoing PROVE OutgoingOK(r)'
      <3>1. r \in Socks /\ OutgoingOK(r)
        BY Shapes DEF CInv
      <3>2. CASE r = s
        BY <1>1, <2>1, <3>1, <3>2 DEF OutgoingOK
      <3>3. CASE r # s
        <4>1. sock'[r] = sock[r] /\ PeersOf(r)' = PeersOf(r)
          <5>1. \A p \in Peers : Home(p) = r => peer'[p] = peer[p]
            BY <1>7, <2>2, <3>3
          <5> QED  BY <1>7, <2>2, <3>1, <3>3, <5>1 DEF PeersOf
        <4>2. ASSUME sock[r] = "running", r # iout PROVE Winding(r)'
          <5>1. Winding(r)
            BY <2>1, <3>1, <4>2 DEF OutgoingOK
          <5> QED  BY <1>1, <4>1, <5>1 DEF Winding
        <4> QED  BY <1>1, <2>1, <3>1, <4>1, <4>2 DEF OutgoingOK
      <3> QED  BY <3>2, <3>3
    <2> QED  BY <1>2, <2>3, <2>4, <2>5 DEF CInv
  <1>8. CASE Store
    <2>1. PICK s \in Outgoing : call.peer = <<s, 1>>
      BY <1>8 DEF Store, CInv, ClosingOK
    <2>2. /\ iout' = s /\ call'.pc = "use" /\ UNCHANGED <<sock, peer>> /\ iout = NoSock /\ open
          /\ call.pc = "store"
      BY <1>8, <2>1 DEF Store, Home, Goto, sockVars, peerVars, CInv, ClosingOK, Idle
    <2>3. ClosingOK'
      BY <1>1, <2>2 DEF ClosingOK
    <2>4. \A r \in Socks : SelfOK(r)'
      BY <1>1, <2>2 DEF CInv, SelfOK
    <2>5. ASSUME NEW r \in Outgoing PROVE OutgoingOK(r)'
      <3>1. OutgoingOK(r)
        BY DEF CInv
      <3>2. CASE r = s
        BY <1>1, <2>2, <3>1, <3>2 DEF OutgoingOK
      <3>3. CASE r # s
        <4>1. r # iout /\ call.peer # <<r, 1>>
          BY <2>1, <2>2, <3>3, Shapes
        <4> QED  BY <1>1, <2>2, <3>1, <4>1 DEF OutgoingOK, Winding, PeersOf
      <3> QED  BY <3>2, <3>3
    <2> QED  BY <1>2, <2>3, <2>4, <2>5 DEF CInv
  <1> QED  BY <1>4, <1>5, <1>6, <1>7, <1>8 DEF Connect

LEMMA CloseNext == ASSUME IInv, CInv, [Next]_vars PROVE CInv'
  BY CloseWorker, CloseOutside, CloseCalls, CloseStops, CloseMoves DEF Next, CallStep

LEMMA CloseInit == Init => CInv
  <1> SUFFICES ASSUME Init PROVE CInv
    OBVIOUS
  <1>1. CallerOK /\ ClosingOK
    BY Shapes DEF Init, CallerOK, ClosingOK, Idle
  <1>2. ASSUME NEW s \in Socks PROVE SelfOK(s)
    BY <1>2 DEF Init, SelfOK
  <1>3. ASSUME NEW s \in Outgoing PROVE OutgoingOK(s)
    <2>1. s \in Socks /\ s # Listening
      BY Shapes DEF Outgoing, Listening
    <2> QED  BY <2>1 DEF Init, OutgoingOK
  <1> QED  BY <1>1, <1>2, <1>3 DEF CInv

\* Every close of an interface, from whatever thread, leaves each socket released or
\* to be released by a worker that is ending.
THEOREM ClosingInductive == Spec => []CInv
  <1>1. IInv /\ CInv /\ [Next]_vars => CInv'
    BY CloseNext
  <1> QED  BY <1>1, CloseInit, Inductive, PTL DEF Spec

\* kc_netl_close, with the workers that close their own socket, releases every
\* socket, those included that kc_netl_send replaced.
THEOREM EverythingReleased == Spec => []AllReleased
  <1>1. IInv /\ CInv => AllReleased
    <2> SUFFICES ASSUME IInv, CInv, ~open,
                        \A s \in Socks : sock[s] = "running" => pc[s] = "ended",
                        NEW s \in Socks, sock[s] = "running"
                 PROVE  FALSE
      BY DEF AllReleased
    <2>1. ~self[s] /\ pc[s] = "ended"
      BY DEF CInv, SelfOK, IInv, TypeOK, FlagType
    <2>2. s # Listening
      BY <2>1 DEF CInv, ClosingOK
    <2>3. s \in Outgoing /\ s # iout /\ call.pc # "store"
      BY <2>2, Shapes DEF Socks, CInv, ClosingOK, Idle
    <2> QED  BY <2>1, <2>3 DEF CInv, OutgoingOK, Winding
  <1> QED  BY <1>1, Inductive, ClosingInductive, PTL

\* Of a released interface whose listening socket was not closed from its own
\* callback, no worker is where it could make a callback.
LEMMA SilentStep ==
    ASSUME IInv, CInv, [Next]_vars, ~open, ~self[Listening]
    PROVE  UNCHANGED <<got, errors>>
  <1>1. CASE UNCHANGED <<got, errors>>
    BY <1>1
  <1>2. ASSUME NEW s \in Socks, Worker(s) PROVE UNCHANGED <<got, errors>>
    <2>1. sock[s] = "running" /\ sock[Listening] = "destroyed"
      BY <1>2 DEF Worker, CInv, ClosingOK
    <2>2. s \in Outgoing /\ s # iout /\ call.pc # "store"
      BY <2>1, Shapes DEF Socks, CInv, ClosingOK, Idle
    <2>3. Winding(s)
      BY <2>1, <2>2 DEF CInv, OutgoingOK
    <2> QED  BY <1>2, <2>3 DEF Winding, InCall, Worker, ShouldStop, Reap, Build, PollFails, Poll, Accept,
           AcceptFails, Receive, FlushFails, HangUp, Flush, Serves, FinishFailed, BatchOver, Notify,
           Return, history
  <1> QED  BY <1>1, <1>2, OutsideCallbacks DEF Next, vars, history

\* After kc_netl_close no callback begins, unless it was called from a callback of
\* the listening socket.
THEOREM SilentClosed == Spec => SilentAfterClose
  <1>1. IInv /\ CInv /\ [Next]_vars =>
            [~open /\ ~self[Listening] => UNCHANGED <<got, errors>>]_vars
    BY SilentStep
  <1> QED  BY <1>1, Inductive, ClosingInductive, PTL DEF Spec, SilentAfterClose

=============================================================================
