------------------------------- MODULE Rstrm -------------------------------
(***************************************************************************)
(* librstrm: a reliable byte stream at each of two ends, over the ARQ of   *)
(* module Kcp, of which only what Pipe promises is used: what ikcp_send    *)
(* takes at one end is read at the other in order, once it has been sent,  *)
(* and ikcp_waitsnd counts what is not acknowledged yet.                   *)
(*                                                                         *)
(* Each end has a worker thread and a mutex.  An action is one region      *)
(* between a lock and the next unlock, or one callback; the API calls of   *)
(* the application and the steps of the worker interleave.  Only the       *)
(* collecting of the received records, which the worker does in a loop     *)
(* under the lock, is one action per record: while it runs (pc "collect")  *)
(* no API call can enter.                                                  *)
(*                                                                         *)
(* The bytes of a send are numbered parts, each the payload of one record, *)
(* and a record is one segment.                                            *)
(***************************************************************************)
EXTENDS Integers, Sequences, FiniteSets

CONSTANTS
    Ends,        \* the two ends
    MaxPending,  \* RSTRM_MAX_PENDING_BYTES, in parts
    LowPending,  \* RSTRM_LOW_PENDING_BYTES, in parts
    High,        \* RSTRM_KCP_HIGH_SEGMENTS
    Low,         \* RSTRM_KCP_LOW_SEGMENTS
    Loads        \* bound: what may be called and may fail in a behaviour

ASSUME EndsAssumption == \E a, b \in Ends : a # b /\ Ends = {a, b}
\* send: calls of kc_rstrm_send left at each end, of parts records each;
\* shutters, closers: ends that may call kc_rstrm_shutdown, kc_rstrm_close;
\* bad: datagrams that are not of the session; refused: datagrams the transport
\* callback refuses; nomem: allocations that fail in a worker.  The last field
\* records whether a foreign datagram was given.
Load == [send : [Ends -> Nat], parts : SUBSET (Nat \ {0}),
         shutters : SUBSET Ends, closers : SUBSET Ends,
         bad : Nat, refused : Nat, nomem : Nat, foreign : BOOLEAN]

ASSUME LimitsAssumption ==
    /\ LowPending \in Nat /\ MaxPending \in Nat /\ LowPending <= MaxPending
    /\ Low \in Nat /\ High \in Nat /\ Low <= High
ASSUME LoadsAssumption == \A load \in Loads : load \in Load /\ ~load.foreign

Peer(e) == CHOOSE p \in Ends : p # e

Data(n) == [kind |-> "data", part |-> n]
Fin     == [kind |-> "fin", part |-> 0]
FinAck  == [kind |-> "fin_ack", part |-> 0]
Record  == [kind : {"data", "fin", "fin_ack"}, part : Nat]

Eof     == [kind |-> "eof", part |-> 0]
Drain   == [kind |-> "drain", part |-> 0]
Failure == [kind |-> "error", part |-> 0]
Event   == [kind : {"data", "eof", "drain", "error"}, part : Nat]

VARIABLES
    accepted,       \* history: parts kc_rstrm_send has taken
    sendq,          \* parts queued (send_head, pending_bytes)
    shutdown,       \* local_shutdown
    finSent,        \* local_fin_sent
    finAcked,       \* local_fin_acked
    remoteEof,      \* remote_eof
    full,           \* full_latched
    failed,         \* failed: a status, or "ok"
    errorDelivered, \* error_delivered
    closing,        \* closing
    selfRelease,    \* self_release
    inbox,          \* kinds of datagrams queued by kc_rstrm_input
    wire,           \* history: records handed to ikcp_send
    out,            \* how many of them have left in some datagram
    acked,          \* how many of them are acknowledged
    read,           \* how many of the peer's records ikcp_recv returned
    pc,             \* where the worker is
    emits,          \* <<n>>: a flush to emit, up to record n; or <<>>
    events,         \* callbacks to make
    got,            \* history: callbacks made
    closer,         \* where an outside call of kc_rstrm_close is
    released,       \* how often the stream was released
    budget          \* bounds: calls and faults left

sendVars  == <<accepted, sendq, shutdown, finSent, full>>
wireVars  == <<wire, out, acked, read>>
peerVars  == <<finAcked, remoteEof>>
failVars  == <<failed, errorDelivered>>
closeVars == <<closing, selfRelease, closer, released>>
workVars  == <<pc, emits, events, got>>
vars == <<sendVars, wireVars, peerVars, failVars, closeVars, workVars, inbox, budget>>

Waitsnd(e) == Len(wire[e]) - acked[e]

\* The stream exists and its mutex is free.
Usable(e) == released[e] = 0 /\ pc[e] # "collect"

Lesser(m, n) == IF m <= n THEN m ELSE n

\* One unit of a budget is used up.
Spend(what) == budget' = [budget EXCEPT ![what] = @ - 1]

\* rstrm_fail_locked: the first failure is kept.
Failing(e, status) == [failed EXCEPT ![e] = IF @ = "ok" THEN status ELSE @]

-----------------------------------------------------------------------------
Init ==
    /\ accepted       = [e \in Ends |-> 0]
    /\ sendq          = [e \in Ends |-> <<>>]
    /\ shutdown       = [e \in Ends |-> FALSE]
    /\ finSent        = [e \in Ends |-> FALSE]
    /\ finAcked       = [e \in Ends |-> FALSE]
    /\ remoteEof      = [e \in Ends |-> FALSE]
    /\ full           = [e \in Ends |-> FALSE]
    /\ failed         = [e \in Ends |-> "ok"]
    /\ errorDelivered = [e \in Ends |-> FALSE]
    /\ closing        = [e \in Ends |-> FALSE]
    /\ selfRelease    = [e \in Ends |-> FALSE]
    /\ inbox          = [e \in Ends |-> {}]
    /\ wire           = [e \in Ends |-> <<>>]
    /\ out            = [e \in Ends |-> 0]
    /\ acked          = [e \in Ends |-> 0]
    /\ read           = [e \in Ends |-> 0]
    /\ pc             = [e \in Ends |-> "loop"]
    /\ emits          = [e \in Ends |-> <<>>]
    /\ events         = [e \in Ends |-> <<>>]
    /\ got            = [e \in Ends |-> <<>>]
    /\ closer         = [e \in Ends |-> "none"]
    /\ released       = [e \in Ends |-> 0]
    /\ budget         \in Loads

-----------------------------------------------------------------------------
(* The API. *)

\* No room for k more parts.
Full(e, k) == k > MaxPending - Len(sendq[e]) \/ Waitsnd(e) >= High

\* kc_rstrm_send answers KC_RSTRM_EFULL.
SendFull(e, k) ==
    /\ Full(e, k)
    /\ full' = [full EXCEPT ![e] = TRUE]
    /\ UNCHANGED <<accepted, sendq>>

\* kc_rstrm_send queues k parts.
SendQueued(e, k) ==
    /\ ~Full(e, k)
    /\ sendq' = [sendq EXCEPT ![e] = @ \o [i \in 1..k |-> accepted[e] + i]]
    /\ accepted' = [accepted EXCEPT ![e] = @ + k]
    /\ UNCHANGED full

\* kc_rstrm_send, past the answer KC_RSTRM_ECLOSED.
Send(e, k) ==
    /\ Usable(e) /\ budget.send[e] > 0
    /\ ~closing[e] /\ failed[e] = "ok" /\ ~shutdown[e]
    /\ SendFull(e, k) \/ SendQueued(e, k)
    /\ budget' = [budget EXCEPT !.send[e] = @ - 1]
    /\ UNCHANGED <<shutdown, finSent, wireVars, peerVars, failVars, closeVars,
                   workVars, inbox>>

\* kc_rstrm_shutdown.
Shutdown(e) ==
    /\ Usable(e) /\ e \in budget.shutters
    /\ ~closing[e] /\ failed[e] = "ok"
    /\ shutdown' = [shutdown EXCEPT ![e] = TRUE]
    /\ UNCHANGED <<accepted, sendq, finSent, full, wireVars, peerVars, failVars,
                   closeVars, workVars, inbox, budget>>

\* kc_rstrm_input with a datagram of the session ("good"), with one that
\* ikcp_input refuses ("bad"), or with one that brings a record out of place
\* ("alien").
Input(e, kind) ==
    /\ Usable(e)
    /\ ~closing[e] /\ failed[e] = "ok"
    /\ \/ kind = "good" /\ out[e] + out[Peer(e)] > 0 /\ UNCHANGED budget
       \/ /\ kind # "good" /\ budget.bad > 0
          /\ budget' = [budget EXCEPT !.bad = @ - 1, !.foreign = TRUE]
    /\ inbox' = [inbox EXCEPT ![e] = @ \cup {kind}]
    /\ UNCHANGED <<sendVars, wireVars, peerVars, failVars, closeVars, workVars>>

\* kc_rstrm_close from a thread that is not the worker, up to the join.
CloseOutside(e) ==
    /\ Usable(e) /\ e \in budget.closers
    /\ ~closing[e]
    /\ closing' = [closing EXCEPT ![e] = TRUE]
    /\ closer' = [closer EXCEPT ![e] = "joining"]
    /\ UNCHANGED <<selfRelease, released, sendVars, wireVars, peerVars, failVars,
                   workVars, inbox, budget>>

\* The worker has ended: the stream is released and kc_rstrm_close returns.
CloseJoined(e) ==
    /\ closer[e] = "joining" /\ pc[e] = "done"
    /\ released' = [released EXCEPT ![e] = @ + 1]
    /\ closer' = [closer EXCEPT ![e] = "returned"]
    /\ UNCHANGED <<closing, selfRelease, sendVars, wireVars, peerVars, failVars,
                   workVars, inbox, budget>>

\* Mutant: a close from a callback does not look whether one is under way.
CloseInsideAlways(e) ==
    /\ pc[e] \in {"emit", "in"} /\ e \in budget.closers
    /\ closing' = [closing EXCEPT ![e] = TRUE]
    /\ selfRelease' = [selfRelease EXCEPT ![e] = TRUE]
    /\ UNCHANGED <<closer, released, sendVars, wireVars, peerVars, failVars,
                   workVars, inbox, budget>>

\* kc_rstrm_close from a callback of the worker: the release is left to it,
\* unless an outside call came first.
CloseInside(e) ==
    /\ pc[e] \in {"emit", "in"} /\ e \in budget.closers
    /\ ~closing[e]
    /\ closing' = [closing EXCEPT ![e] = TRUE]
    /\ selfRelease' = [selfRelease EXCEPT ![e] = TRUE]
    /\ UNCHANGED <<closer, released, sendVars, wireVars, peerVars, failVars,
                   workVars, inbox, budget>>

-----------------------------------------------------------------------------
(* The worker. *)

\* Where the worker goes once it has unlocked.
Unlocked(ems, evs) == IF ems # <<>> THEN "emit" ELSE IF evs # <<>> THEN "check" ELSE "loop"

\* Mutant: a failed worker waits before it looks whether it is closing.
ExitUnlessFailed(e) ==
    /\ pc[e] = "loop" /\ closing[e] /\ failed[e] = "ok"
    /\ pc' = [pc EXCEPT ![e] = "done"]
    /\ released' = [released EXCEPT ![e] = IF selfRelease[e] THEN @ + 1 ELSE @]
    /\ UNCHANGED <<closing, selfRelease, closer, sendVars, wireVars, peerVars,
                   failVars, emits, events, got, inbox, budget>>

\* Closing: the thread ends, and releases the stream if a callback closed it.
Exit(e) ==
    /\ pc[e] = "loop" /\ closing[e]
    /\ pc' = [pc EXCEPT ![e] = "done"]
    /\ released' = [released EXCEPT ![e] = IF selfRelease[e] THEN @ + 1 ELSE @]
    /\ UNCHANGED <<closing, selfRelease, closer, sendVars, wireVars, peerVars,
                   failVars, emits, events, got, inbox, budget>>

\* Mutant: the error is noted as told, and the event forgotten.
ReportErrorNever(e) ==
    /\ pc[e] = "loop" /\ ~closing[e]
    /\ failed[e] # "ok" /\ ~errorDelivered[e]
    /\ errorDelivered' = [errorDelivered EXCEPT ![e] = TRUE]
    /\ UNCHANGED <<emits, events, got, pc, failed, sendVars, wireVars, peerVars,
                   closeVars, inbox, budget>>

\* Failed: the error event is made, once, unless memory for it is short.
ReportError(e) ==
    /\ pc[e] = "loop" /\ ~closing[e]
    /\ failed[e] # "ok" /\ ~errorDelivered[e]
    /\ errorDelivered' = [errorDelivered EXCEPT ![e] = TRUE]
    /\ \/ events' = [events EXCEPT ![e] = <<Failure>>] /\ UNCHANGED budget
       \/ budget.nomem > 0 /\ Spend("nomem") /\ UNCHANGED events
    /\ pc' = [pc EXCEPT ![e] = Unlocked(<<>>, events'[e])]
    /\ UNCHANGED <<emits, got, failed, sendVars, wireVars, peerVars, closeVars, inbox>>

Working(e) == pc[e] = "loop" /\ ~closing[e] /\ failed[e] = "ok"

\* rstrm_feed_input_locked refuses a datagram.
RefuseInput(e) ==
    /\ Working(e) /\ "bad" \in inbox[e]
    /\ failed' = Failing(e, "EPROTO")
    /\ inbox' = [inbox EXCEPT ![e] = {}]
    /\ UNCHANGED <<errorDelivered, sendVars, wireVars, peerVars, closeVars,
                   workVars, budget>>

\* rstrm_feed_send_locked: the records that go to ikcp_send while it has fewer
\* than High segments to send, and the FIN once nothing is queued before it.
Moving(e, ack) ==
    LET room == High - (Len(wire[e]) - ack)
    IN  IF room <= 0 THEN 0 ELSE Lesser(room, Len(sendq[e]))

\* Mutant: the FIN is sent again.
FinDueAgain(e, ack, k) ==
    shutdown[e] /\ k = Len(sendq[e]) /\ Len(wire[e]) + k - ack < High

FinDue(e, ack, k) ==
    /\ shutdown[e] /\ ~finSent[e]
    /\ k = Len(sendq[e])
    /\ Len(wire[e]) + k - ack < High

\* rstrm_feed_input_locked, rstrm_feed_send_locked and ikcp_update, which may
\* flush what has been handed to it so far.
Feed(e) ==
    /\ Working(e) /\ "bad" \notin inbox[e]
    /\ \E ack \in acked[e]..out[e], flush \in BOOLEAN :
         LET k   == Moving(e, ack)
             fin == FinDue(e, ack, k)
         IN  /\ ack > acked[e] => "good" \in inbox[e]
             /\ acked' = [acked EXCEPT ![e] = ack]
             /\ sendq' = [sendq EXCEPT ![e] = SubSeq(@, k + 1, Len(@))]
             /\ wire' = [wire EXCEPT ![e] =
                    @ \o [i \in 1..k |-> Data(sendq[e][i])]
                      \o (IF fin THEN <<Fin>> ELSE <<>>)]
             /\ finSent' = [finSent EXCEPT ![e] = @ \/ fin]
             /\ flush => wire'[e] # <<>> \/ "good" \in inbox[e]
             /\ emits' = [emits EXCEPT ![e] =
                              IF flush THEN <<Len(wire'[e])>> ELSE <<>>]
    /\ pc' = [pc EXCEPT ![e] = "collect"]
    /\ UNCHANGED <<accepted, shutdown, full, out, read, events, got, peerVars,
                   failVars, closeVars, inbox, budget>>

\* ikcp_send, or the copy of a datagram, finds no memory.
FeedNoMem(e) ==
    /\ Working(e) /\ "bad" \notin inbox[e]
    /\ budget.nomem > 0 /\ Spend("nomem")
    /\ failed' = Failing(e, "ENOMEM")
    /\ inbox' = [inbox EXCEPT ![e] = {}]
    /\ UNCHANGED <<errorDelivered, sendVars, wireVars, peerVars, closeVars, workVars>>

\* The next record that ikcp_recv returns, and whether it is in place.
Incoming(e) == wire[Peer(e)][read[e] + 1]
Readable(e) == /\ pc[e] = "collect" /\ failed[e] = "ok" /\ "good" \in inbox[e]
               /\ read[e] < out[Peer(e)]
InPlace(e) == IF Incoming(e).kind = "fin_ack" THEN finSent[e] /\ ~finAcked[e]
              ELSE ~remoteEof[e]

\* rstrm_collect_receive_locked, one record.
CollectData(e) ==
    /\ Incoming(e).kind = "data"
    /\ events' = [events EXCEPT ![e] = Append(@, Incoming(e))]
    /\ UNCHANGED <<wire, remoteEof, finAcked>>

\* Mutant: a FIN is not answered.
CollectFinSilent(e) ==
    /\ Incoming(e).kind = "fin"
    /\ remoteEof' = [remoteEof EXCEPT ![e] = TRUE]
    /\ events' = [events EXCEPT ![e] = Append(@, Eof)]
    /\ UNCHANGED <<wire, finAcked>>

CollectFin(e) ==
    /\ Incoming(e).kind = "fin"
    /\ remoteEof' = [remoteEof EXCEPT ![e] = TRUE]
    /\ wire' = [wire EXCEPT ![e] = Append(@, FinAck)]
    /\ events' = [events EXCEPT ![e] = Append(@, Eof)]
    /\ UNCHANGED finAcked

\* Mutant: the peer's own FIN is taken for an answer.
CollectFinAckAny(e) ==
    /\ Incoming(e).kind \in {"fin", "fin_ack"}
    /\ finAcked' = [finAcked EXCEPT ![e] = finSent[e]]
    /\ UNCHANGED <<wire, events, remoteEof>>

CollectFinAck(e) ==
    /\ Incoming(e).kind = "fin_ack"
    /\ finAcked' = [finAcked EXCEPT ![e] = TRUE]
    /\ UNCHANGED <<wire, events, remoteEof>>

Collect(e) ==
    /\ Readable(e) /\ InPlace(e)
    /\ CollectData(e) \/ CollectFin(e) \/ CollectFinAck(e)
    /\ read' = [read EXCEPT ![e] = @ + 1]
    /\ UNCHANGED <<out, acked, pc, emits, got, failVars, sendVars, closeVars, inbox,
                   budget>>

\* A record out of place.
CollectUnexpected(e) ==
    /\ pc[e] = "collect" /\ failed[e] = "ok"
    /\ "alien" \in inbox[e] \/ (Readable(e) /\ ~InPlace(e))
    /\ failed' = Failing(e, "EPROTO")
    /\ UNCHANGED <<errorDelivered, sendVars, wireVars, peerVars, closeVars, workVars,
                   inbox, budget>>

\* No memory for a record, for its answer or for its event.
CollectNoMem(e) ==
    /\ Readable(e)
    /\ budget.nomem > 0 /\ Spend("nomem")
    /\ failed' = Failing(e, "ENOMEM")
    /\ \/ UNCHANGED <<read, wire, remoteEof>>
       \/ /\ read' = [read EXCEPT ![e] = @ + 1]
          /\ remoteEof' = [remoteEof EXCEPT ![e] = @ \/ Incoming(e).kind = "fin"]
          /\ \/ UNCHANGED wire
             \/ Incoming(e).kind = "fin" /\ wire' = [wire EXCEPT ![e] = Append(@, FinAck)]
    /\ UNCHANGED <<out, acked, finAcked, errorDelivered, sendVars, closeVars, workVars,
                   inbox>>

\* Mutant: the low marks have to be undercut.
DrainedBelow(e) == full[e] /\ Len(sendq[e]) < LowPending /\ Waitsnd(e) < Low

\* There is room again after a refused send.
Drained(e) == full[e] /\ Len(sendq[e]) <= LowPending /\ Waitsnd(e) <= Low

\* The end of the locked region: the drain event, then the unlock.
Unlock(e) ==
    /\ pc[e] = "collect"
    /\ \/ /\ Drained(e) /\ failed[e] = "ok"
          /\ full' = [full EXCEPT ![e] = FALSE]
          /\ \/ events' = [events EXCEPT ![e] = Append(@, Drain)] /\ UNCHANGED <<failed, budget>>
             \/ /\ budget.nomem > 0 /\ Spend("nomem")
                /\ failed' = Failing(e, "ENOMEM") /\ UNCHANGED events
       \/ /\ ~Drained(e) \/ failed[e] # "ok"
          /\ UNCHANGED <<full, events, failed, budget>>
    /\ inbox' = [inbox EXCEPT ![e] = {}]
    /\ pc' = [pc EXCEPT ![e] = Unlocked(emits[e], events'[e])]
    /\ UNCHANGED <<accepted, sendq, shutdown, finSent, emits, got, errorDelivered,
                   wireVars, peerVars, closeVars>>

\* rstrm_dispatch_emits hands the datagrams to the transport callback; a stream
\* closed meanwhile drops the rest of them.
Emit(e) ==
    /\ pc[e] = "emit"
    /\ \E up \in out[e]..Head(emits[e]) :
         /\ up < Head(emits[e]) => closing[e]
         /\ out' = [out EXCEPT ![e] = up]
    /\ emits' = [emits EXCEPT ![e] = <<>>]
    /\ pc' = [pc EXCEPT ![e] = Unlocked(<<>>, events[e])]
    /\ UNCHANGED <<wire, acked, read, events, got, sendVars, peerVars, failVars,
                   closeVars, inbox, budget>>

\* The transport callback refuses a datagram.
EmitRefused(e) ==
    /\ pc[e] = "emit"
    /\ budget.refused > 0 /\ Spend("refused")
    /\ \E up \in out[e]..Head(emits[e]) : out' = [out EXCEPT ![e] = up]
    /\ failed' = Failing(e, "ETRANSPORT")
    /\ emits' = [emits EXCEPT ![e] = <<>>]
    /\ pc' = [pc EXCEPT ![e] = Unlocked(<<>>, events[e])]
    /\ UNCHANGED <<wire, acked, read, events, got, errorDelivered, sendVars, peerVars,
                   closeVars, inbox>>

\* Mutant: nobody looks for a close between two callbacks.
CheckNothing(e) ==
    /\ pc[e] \in {"check", "in"}
    /\ IF events[e] = <<>>
       THEN pc' = [pc EXCEPT ![e] = "loop"]
       ELSE pc' = [pc EXCEPT ![e] = "call"]
    /\ UNCHANGED <<emits, events, got, sendVars, wireVars, peerVars, failVars, closeVars,
                   inbox, budget>>

\* Between two callbacks: what is left is dropped when the stream is closing.
Check(e) ==
    /\ pc[e] \in {"check", "in"}
    /\ IF closing[e] \/ events[e] = <<>>
       THEN /\ events' = [events EXCEPT ![e] = <<>>]
            /\ pc' = [pc EXCEPT ![e] = "loop"]
       ELSE /\ pc' = [pc EXCEPT ![e] = "call"]
            /\ UNCHANGED events
    /\ UNCHANGED <<emits, got, sendVars, wireVars, peerVars, failVars, closeVars,
                   inbox, budget>>

\* rstrm_dispatch_events calls back; the callback runs until the next check.
Call(e) ==
    /\ pc[e] = "call"
    /\ got' = [got EXCEPT ![e] = Append(@, Head(events[e]))]
    /\ events' = [events EXCEPT ![e] = Tail(@)]
    /\ pc' = [pc EXCEPT ![e] = "in"]
    /\ UNCHANGED <<emits, sendVars, wireVars, peerVars, failVars, closeVars,
                   inbox, budget>>

Api(e) ==
    \/ \E k \in budget.parts : Send(e, k)
    \/ Shutdown(e)
    \/ \E kind \in {"good", "bad", "alien"} : Input(e, kind)
    \/ CloseOutside(e) \/ CloseJoined(e) \/ CloseInside(e)

Worker(e) ==
    \/ Exit(e) \/ ReportError(e)
    \/ RefuseInput(e) \/ Feed(e) \/ FeedNoMem(e)
    \/ Collect(e) \/ CollectUnexpected(e) \/ CollectNoMem(e) \/ Unlock(e)
    \/ Emit(e) \/ EmitRefused(e) \/ Check(e) \/ Call(e)

Next == \E e \in Ends : Api(e) \/ Worker(e)

Spec == Init /\ [][Next]_vars

(***************************************************************************)
(* Fairness.  The worker never waits longer than RSTRM_INTERVAL_MS, so it  *)
(* keeps running; callbacks return.  That the ARQ makes progress while     *)
(* both streams run (Kcp!AllDelivered, Kcp!Drains) is strong fairness of   *)
(* the datagrams that come in and of the iterations that use them: strong, *)
(* because the mutex may be taken whenever they would go ahead.            *)
(***************************************************************************)
Running(e) == ~closing[e] /\ failed[e] = "ok"

Flushes(e)  == Feed(e) /\ emits'[e] # <<>>
Acks(e)     == Running(Peer(e)) /\ Feed(e) /\ acked'[e] = out[e]
Collects(e) == Running(Peer(e)) /\ Collect(e)

Fairness ==
    \A e \in Ends :
        /\ WF_vars(Worker(e)) /\ WF_vars(CloseJoined(e))
        /\ SF_vars(Input(e, "good")) /\ SF_vars(Flushes(e))
        /\ SF_vars(Acks(e)) /\ SF_vars(Collects(e))

FairSpec == Spec /\ Fairness

-----------------------------------------------------------------------------
(* Properties. *)

\* Types; the queue stays within its limit, and only what has left is
\* acknowledged.
TypeOK ==
    /\ accepted \in [Ends -> Nat] /\ read \in [Ends -> Nat]
    /\ out \in [Ends -> Nat] /\ acked \in [Ends -> Nat]
    /\ sendq \in [Ends -> Seq(Nat)] /\ wire \in [Ends -> Seq(Record)]
    /\ \A e \in Ends : /\ Len(sendq[e]) <= MaxPending
                       /\ acked[e] <= out[e] /\ out[e] <= Len(wire[e])
    /\ events \in [Ends -> Seq(Event)] /\ got \in [Ends -> Seq(Event)]
    /\ emits \in [Ends -> Seq(Nat)]
    /\ failed \in [Ends -> {"ok", "EPROTO", "ETRANSPORT", "ENOMEM"}]
    /\ pc \in [Ends -> {"loop", "collect", "emit", "check", "call", "in", "done"}]
    /\ closer \in [Ends -> {"none", "joining", "returned"}]
    /\ inbox \in [Ends -> SUBSET {"good", "bad", "alien"}]
    /\ released \in [Ends -> Nat]
    /\ \A flag \in {shutdown, finSent, finAcked, remoteEof, full, errorDelivered,
                    closing, selfRelease} : flag \in [Ends -> BOOLEAN]
    /\ budget \in Load

\* The callbacks of a stream, its sends and its closes are a behaviour of module
\* Stream: "All peer bytes sent before shutdown are delivered before this
\* callback", in order and once, an error is the last callback, and none
\* follows a close that has returned or the callback that closed.
Stream == INSTANCE Stream WITH
    Sizes <- UNION {load.parts : load \in Loads},
    taken <- accepted,
    shut  <- {e \in Ends : shutdown[e]},
    quiet <- {e \in Ends : closer[e] = "returned" \/ selfRelease[e]},
    told  <- got

ImplementsStream == Stream!StreamSpec

\* kc_rstrm_shutdown_complete tells the truth: the peer has collected the FIN,
\* and with it every byte sent before.
CompleteIsTrue ==
    \A e \in Ends :
        shutdown[e] /\ finAcked[e] =>
            /\ remoteEof[Peer(e)]
            /\ \A n \in 1..accepted[e] :
                  \E i \in 1..read[Peer(e)] : wire[e][i] = Data(n)

\* Two ends that follow the protocol never take each other for broken: a
\* stream fails with KC_RSTRM_EPROTO only when a foreign datagram was given.
NoFalseEproto ==
    (\E e \in Ends : failed[e] = "EPROTO") => budget.foreign

\* The stream is released at most once, and only when the worker is over.
ReleasedOnce ==
    \A e \in Ends : released[e] <= 1 /\ (released[e] = 1 => pc[e] = "done")

\* After KC_RSTRM_EFULL the drain callback comes, unless either stream fails or
\* closes: the caller who waits for it does not wait for ever.
DrainComes ==
    \A e \in Ends :
        full[e] ~> \/ ~Running(e) \/ ~Running(Peer(e))
                   \/ pc[e] = "in" /\ got[e][Len(got[e])] = Drain

\* After kc_rstrm_shutdown the peer is told eof and the shutdown becomes
\* complete, unless either stream fails or closes.
ShutdownCompletes ==
    \A e \in Ends :
        shutdown[e] ~> \/ ~Running(e) \/ ~Running(Peer(e))
                       \/ /\ finAcked[e]
                          /\ \E i \in 1..Len(got[Peer(e)]) : got[Peer(e)][i] = Eof

\* An outside kc_rstrm_close returns.
CloseReturns == \A e \in Ends : closer[e] = "joining" ~> closer[e] = "returned"

\* "Receives one asynchronous terminal stream failure": a failure is told, to
\* a stream that stays open.
FailureTold ==
    \A e \in Ends :
        failed[e] # "ok" ~> \/ closing[e]
                            \/ \E i \in 1..Len(got[e]) : got[e][i] = Failure

=============================================================================
