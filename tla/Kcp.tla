-------------------------------- MODULE Kcp --------------------------------
(***************************************************************************)
(* The selective-repeat ARQ that librstrm drives (lib/kcp/ikcp.c, in       *)
(* message mode, with the congestion window on and no pacing).  Two ends   *)
(* exchange segments over datagrams that may be lost, duplicated, delayed  *)
(* or reordered.  An action is one call of the ikcp API at one end, so the *)
(* callers of the two ends interleave in every order.                      *)
(*                                                                         *)
(* Time is abstracted.  ikcp_flush sends every segment that it has just    *)
(* moved into snd_buf, and repeats any of the older ones: the choice of    *)
(* `resend' stands for an expired retransmission timer and for the fast    *)
(* retransmit, the choice of `cw' for the congestion window, and the       *)
(* choice of `ask' for the window-probe timer.  A datagram carries one     *)
(* segment.  Segment numbers are unbounded here: ikcp.c keeps 32 bits.     *)
(***************************************************************************)
EXTENDS Integers, Sequences, FiniteSets

CONSTANTS
    Ends,        \* the two ends of a session
    SndWnd,      \* snd_wnd, in segments
    RcvWnd,      \* rcv_wnd and IKCP_WND_RCV, in segments
    FragCounts,  \* fragment counts of the messages a caller hands over
    MaxMsgs,     \* bound: messages handed over at each end
    MaxDups,     \* bound: datagrams the network duplicates
    MaxLosses,   \* bound: datagrams the network loses
    MaxNet       \* bound: datagrams in flight to an end when its peer flushes

ASSUME EndsAssumption == \E a, b \in Ends : a # b /\ Ends = {a, b}
ASSUME WndAssumption  == SndWnd \in Nat \ {0} /\ RcvWnd \in Nat \ {0}
ASSUME LoadAssumption ==
    /\ FragCounts \subseteq Nat \ {0}
    /\ MaxMsgs \in [Ends -> Nat]
    /\ MaxDups \in Nat /\ MaxLosses \in Nat
    /\ MaxNet \in Nat

Peer(e) == CHOOSE p \in Ends : p # e

Seg == [msg : Nat, frg : Nat]  \* payload of fragment `frg' (counted down to 0)

Message ==
         [cmd : {"push"}, to : Ends, wnd : 0..RcvWnd, una : Nat, sn : Nat, seg : Seg]
    \cup [cmd : {"ack"}, to : Ends, wnd : 0..RcvWnd, una : Nat, sn : Nat]
    \cup [cmd : {"wask", "wins"}, to : Ends, wnd : 0..RcvWnd, una : Nat]

VARIABLES
    stream,     \* history: the segments handed to ikcp_send, in order
    msgs,       \* history: number of messages handed to ikcp_send
    sndQueue,   \* segments without a number yet
    sndBuf,     \* number -> segment, sent and not acknowledged
    sndUna,     \* first unacknowledged number
    sndNxt,     \* next number
    rmtWnd,     \* last window the peer announced
    rcvBuf,     \* number -> segment, received out of order
    rcvQueue,   \* segments ready to be read
    rcvNxt,     \* next number expected
    acklist,    \* numbers to acknowledge in the next flush
    tell,       \* probe & IKCP_ASK_TELL
    delivered,  \* history: the segments ikcp_recv has returned
    net,        \* datagrams in flight
    dups,       \* duplications so far
    losses      \* losses so far

sndVars == <<stream, msgs, sndQueue, sndBuf, sndUna, sndNxt, rmtWnd>>
rcvVars == <<rcvBuf, rcvQueue, rcvNxt, acklist, tell, delivered>>
netVars == <<net, dups, losses>>
vars    == <<sndVars, rcvVars, netVars>>

Lesser(m, n) == IF m <= n THEN m ELSE n
Empty == [n \in {} |-> [msg |-> 0, frg |-> 0]]
Only(f, S) == [n \in DOMAIN f \cap S |-> f[n]]
From(f, n) == Only(f, {i \in DOMAIN f : n <= i})
Both(f, g) == [n \in DOMAIN f \cup DOMAIN g |-> IF n \in DOMAIN g THEN g[n] ELSE f[n]]

-----------------------------------------------------------------------------
Init ==
    /\ stream    = [e \in Ends |-> <<>>]
    /\ msgs      = [e \in Ends |-> 0]
    /\ sndQueue  = [e \in Ends |-> <<>>]
    /\ sndBuf    = [e \in Ends |-> Empty]
    /\ sndUna    = [e \in Ends |-> 0]
    /\ sndNxt    = [e \in Ends |-> 0]
    /\ rmtWnd    = [e \in Ends |-> RcvWnd]
    /\ rcvBuf    = [e \in Ends |-> Empty]
    /\ rcvQueue  = [e \in Ends |-> <<>>]
    /\ rcvNxt    = [e \in Ends |-> 0]
    /\ acklist   = [e \in Ends |-> {}]
    /\ tell      = [e \in Ends |-> FALSE]
    /\ delivered = [e \in Ends |-> <<>>]
    /\ net       = {}
    /\ dups      = 0
    /\ losses    = 0

-----------------------------------------------------------------------------
\* ikcp_send refuses a message that could never sit whole in a receive queue.
Fits(n) == n < RcvWnd

\* The n fragments of message k, numbered down to 0.
Fragments(k, n) == [i \in 1..n |-> [msg |-> k, frg |-> n - i]]

Send(e, n) ==
    /\ msgs[e] < MaxMsgs[e]
    /\ Fits(n)
    /\ msgs'     = [msgs EXCEPT ![e] = @ + 1]
    /\ stream'   = [stream EXCEPT ![e] = @ \o Fragments(msgs[e], n)]
    /\ sndQueue' = [sndQueue EXCEPT ![e] = @ \o Fragments(msgs[e], n)]
    /\ UNCHANGED <<sndBuf, sndUna, sndNxt, rmtWnd, rcvVars, netVars>>

-----------------------------------------------------------------------------
\* ikcp_wnd_unused: room left in the receive queue.
Unused(e) == IF Len(rcvQueue[e]) < RcvWnd THEN RcvWnd - Len(rcvQueue[e]) ELSE 0

Acks(e) ==
    {[cmd |-> "ack", to |-> Peer(e), wnd |-> Unused(e), una |-> rcvNxt[e],
      sn |-> n] : n \in acklist[e]}

Probe(e, c) ==
    {[cmd |-> c, to |-> Peer(e), wnd |-> Unused(e), una |-> rcvNxt[e]]}

Pushes(e, buf) ==
    {[cmd |-> "push", to |-> Peer(e), wnd |-> Unused(e), una |-> rcvNxt[e],
      sn |-> n, seg |-> buf[n]] : n \in DOMAIN buf}

\* Mutant: what is already in flight does not count.
MovableFromNxt(e, cw) ==
    Lesser(Lesser(Lesser(SndWnd, rmtWnd[e]), cw), Len(sndQueue[e]))

\* How many segments the window min(snd_wnd, rmt_wnd, cwnd) lets out.
Movable(e, cw) ==
    LET open == sndUna[e] + Lesser(Lesser(SndWnd, rmtWnd[e]), cw) - sndNxt[e]
    IN  IF open <= 0 THEN 0 ELSE Lesser(open, Len(sndQueue[e]))

Flush(e, cw, resend, ask) ==
    /\ Cardinality({m \in net : m.to = Peer(e)}) < MaxNet
    /\ ask => rmtWnd[e] = 0
    /\ resend \subseteq DOMAIN sndBuf[e]
    /\ LET k     == Movable(e, cw)
           moved == [n \in sndNxt[e]..(sndNxt[e] + k - 1) |->
                        sndQueue[e][n - sndNxt[e] + 1]]
       IN  /\ sndBuf' = [sndBuf EXCEPT ![e] = Both(@, moved)]
           /\ sndQueue' = [sndQueue EXCEPT ![e] = SubSeq(@, k + 1, Len(@))]
           /\ sndNxt' = [sndNxt EXCEPT ![e] = @ + k]
           /\ net' = net \cup Acks(e)
                         \cup Pushes(e, moved)
                         \cup Pushes(e, Only(sndBuf[e], resend))
                         \cup (IF ask THEN Probe(e, "wask") ELSE {})
                         \cup (IF tell[e] THEN Probe(e, "wins") ELSE {})
    /\ acklist' = [acklist EXCEPT ![e] = {}]
    /\ tell' = [tell EXCEPT ![e] = FALSE]
    /\ UNCHANGED <<stream, msgs, sndUna, rmtWnd, rcvBuf, rcvQueue, rcvNxt,
                   delivered, dups, losses>>

-----------------------------------------------------------------------------
\* ikcp_shrink_buf: the first number still in snd_buf, or snd_nxt.
Shrink(buf, nxt) ==
    IF DOMAIN buf = {} THEN nxt
    ELSE CHOOSE n \in DOMAIN buf : \A k \in DOMAIN buf : n <= k

\* ikcp_parse_una: the peer has everything before `una'.
AfterUna(buf, una) == From(buf, una)

\* Mutant: an acknowledgment taken for a cumulative one.
AfterAckCumulative(buf, sn) == Only(buf, {n \in DOMAIN buf : sn < n})

\* ikcp_parse_ack: the peer has `sn'.
AfterAck(buf, sn) == Only(buf, DOMAIN buf \ {sn})

\* Mutant: one segment moves at a time.
IsRunOfOne(buf, nxt, room, k) ==
    k = IF room > 0 /\ nxt \in DOMAIN buf THEN 1 ELSE 0

\* k segments move from rcv_buf to a rcv_queue that has room for `room'.
IsRun(buf, nxt, room, k) ==
    /\ k \in 0..room
    /\ \A i \in 0..(k - 1) : nxt + i \in DOMAIN buf
    /\ k = room \/ nxt + k \notin DOMAIN buf

Run(buf, nxt, k) == [i \in 1..k |-> buf[nxt + i - 1]]

\* Mutant: a new segment takes the place of those already kept.
StoreAlone(buf, m) == [n \in {m.sn} |-> m.seg]

\* ikcp_parse_data: the first copy of a number is kept, a repeat is dropped.
Store(buf, m) ==
    IF m.sn \in DOMAIN buf THEN buf
    ELSE [n \in DOMAIN buf \cup {m.sn} |-> IF n = m.sn THEN m.seg ELSE buf[n]]

\* The part of ikcp_input every command shares, then the acknowledgment.
Acknowledge(m) ==
    LET e    == m.to
        left == AfterUna(sndBuf[e], m.una)
        una  == Shrink(left, sndNxt[e])
        rest == IF m.cmd = "ack" /\ una <= m.sn /\ m.sn < sndNxt[e]
                THEN AfterAck(left, m.sn) ELSE left
    IN  /\ rmtWnd' = [rmtWnd EXCEPT ![e] = m.wnd]
        /\ sndBuf' = [sndBuf EXCEPT ![e] = rest]
        /\ sndUna' = [sndUna EXCEPT ![e] = Shrink(rest, sndNxt[e])]
        /\ UNCHANGED <<stream, msgs, sndQueue, sndNxt>>

\* IKCP_CMD_PUSH beyond the window: dropped without an acknowledgment.
RefusePush(m) ==
    /\ m.sn >= rcvNxt[m.to] + RcvWnd
    /\ UNCHANGED <<rcvBuf, rcvQueue, rcvNxt, acklist>>

\* Mutant: a repeat is queued again.
RepeatPushQueued(m) ==
    /\ m.sn < rcvNxt[m.to]
    /\ acklist' = [acklist EXCEPT ![m.to] = @ \cup {m.sn}]
    /\ rcvQueue' = [rcvQueue EXCEPT ![m.to] = Append(@, m.seg)]
    /\ UNCHANGED <<rcvBuf, rcvNxt>>

\* Mutant: a repeat is not acknowledged again.
RepeatPushSilent(m) ==
    /\ m.sn < rcvNxt[m.to]
    /\ UNCHANGED <<rcvBuf, rcvQueue, rcvNxt, acklist>>

\* IKCP_CMD_PUSH already moved to rcv_queue: acknowledged again.
RepeatPush(m) ==
    /\ m.sn < rcvNxt[m.to]
    /\ acklist' = [acklist EXCEPT ![m.to] = @ \cup {m.sn}]
    /\ UNCHANGED <<rcvBuf, rcvQueue, rcvNxt>>

\* IKCP_CMD_PUSH in the window: acknowledged, kept, and whatever has become
\* contiguous moves to rcv_queue as far as there is room.
AdmitPush(m) ==
    LET e   == m.to
        buf == Store(rcvBuf[e], m)
    IN  /\ rcvNxt[e] <= m.sn /\ m.sn < rcvNxt[e] + RcvWnd
        /\ acklist' = [acklist EXCEPT ![e] = @ \cup {m.sn}]
        /\ \E k \in 0..RcvWnd :
             /\ IsRun(buf, rcvNxt[e], Unused(e), k)
             /\ rcvQueue' = [rcvQueue EXCEPT ![e] = @ \o Run(buf, rcvNxt[e], k)]
             /\ rcvBuf' = [rcvBuf EXCEPT ![e] = From(buf, rcvNxt[e] + k)]
             /\ rcvNxt' = [rcvNxt EXCEPT ![e] = @ + k]

ReceivePush(m) ==
    /\ m.cmd = "push"
    /\ RefusePush(m) \/ RepeatPush(m) \/ AdmitPush(m)
    /\ UNCHANGED <<tell, delivered>>

\* Mutant: a window probe is not answered.
ReceiveOtherMute(m) ==
    /\ m.cmd # "push"
    /\ UNCHANGED <<tell, rcvBuf, rcvQueue, rcvNxt, acklist, delivered>>

ReceiveOther(m) ==
    /\ m.cmd # "push"
    /\ tell' = [tell EXCEPT ![m.to] = @ \/ m.cmd = "wask"]
    /\ UNCHANGED <<rcvBuf, rcvQueue, rcvNxt, acklist, delivered>>

\* ikcp_input at m.to.
Input(m) ==
    /\ Acknowledge(m)
    /\ ReceivePush(m) \/ ReceiveOther(m)

-----------------------------------------------------------------------------
\* ikcp_recv: the first complete message of rcv_queue, if there is one.
Recv(e) ==
    /\ rcvQueue[e] # <<>>
    /\ Len(rcvQueue[e]) > Head(rcvQueue[e]).frg
    /\ \E c \in 1..Len(rcvQueue[e]), k \in 0..RcvWnd :
         /\ rcvQueue[e][c].frg = 0
         /\ \A i \in 1..(c - 1) : rcvQueue[e][i].frg # 0
         /\ IsRun(rcvBuf[e], rcvNxt[e],
                  RcvWnd - (Len(rcvQueue[e]) - c), k)
         /\ delivered' = [delivered EXCEPT ![e] =
                             @ \o SubSeq(rcvQueue[e], 1, c)]
         /\ rcvQueue' = [rcvQueue EXCEPT ![e] =
                SubSeq(@, c + 1, Len(@)) \o Run(rcvBuf[e], rcvNxt[e], k)]
         /\ rcvBuf' = [rcvBuf EXCEPT ![e] = From(@, rcvNxt[e] + k)]
         /\ rcvNxt' = [rcvNxt EXCEPT ![e] = @ + k]
         /\ tell' = [tell EXCEPT ![e] =
                @ \/ (/\ Len(rcvQueue[e]) >= RcvWnd
                      /\ Len(rcvQueue[e]) - c + k < RcvWnd)]
    /\ UNCHANGED <<sndVars, acklist, netVars>>

-----------------------------------------------------------------------------
\* The datagram channel: one copy arrives, a copy arrives and another stays
\* in flight, or a copy is lost.
Arrive(m) ==
    /\ m \in net
    /\ Input(m)
    /\ net' = net \ {m}
    /\ UNCHANGED <<dups, losses>>

ArriveTwice(m) ==
    /\ m \in net
    /\ dups < MaxDups
    /\ Input(m)
    /\ dups' = dups + 1
    /\ UNCHANGED <<net, losses>>

Lose(m) ==
    /\ m \in net
    /\ losses < MaxLosses
    /\ net' = net \ {m}
    /\ losses' = losses + 1
    /\ UNCHANGED <<sndVars, rcvVars, dups>>

Next ==
    \/ \E e \in Ends, n \in FragCounts : Send(e, n)
    \/ \E e \in Ends, cw \in 0..SndWnd, ask \in BOOLEAN :
           \E resend \in SUBSET DOMAIN sndBuf[e] : Flush(e, cw, resend, ask)
    \/ \E e \in Ends : Recv(e)
    \/ \E m \in net : Arrive(m) \/ ArriveTwice(m) \/ Lose(m)

Spec == Init /\ [][Next]_vars

(***************************************************************************)
(* Fairness.  The worker of librstrm wakes at least every 20 ms and calls  *)
(* ikcp_update, so ikcp_flush runs for ever; the retransmission timer of   *)
(* the oldest segment expires while it stays unacknowledged, and so does   *)
(* the probe timer while the peer's window stays zero; the caller reads    *)
(* what is complete.  Strong fairness only because the bound MaxNet may    *)
(* disable a flush for a while.  A datagram that is not lost arrives.      *)
(***************************************************************************)
Numbers == UNION {0..(MaxMsgs[e] * n - 1) : e \in Ends, n \in FragCounts}

SomeFlush(e, Which(_, _)) ==
    \E cw \in 1..SndWnd, ask \in BOOLEAN :
        \E resend \in SUBSET DOMAIN sndBuf[e] :
            Which(resend, ask) /\ Flush(e, cw, resend, ask)

Flushes(e) == SomeFlush(e, LAMBDA resend, ask : TRUE)
Repeats(e) == SomeFlush(e, LAMBDA resend, ask : sndUna[e] \in resend)
Asks(e)    == SomeFlush(e, LAMBDA resend, ask : ask)

Arrivals(e, c) == \E m \in net : m.to = e /\ m.cmd = c /\ Arrive(m)

NumberArrivals(e, c, n) ==
    \E m \in net : m.to = e /\ m.cmd = c /\ m.sn = n /\ Arrive(m)

Fairness ==
    \A e \in Ends :
        /\ WF_vars(Recv(e))
        /\ SF_vars(Flushes(e)) /\ SF_vars(Repeats(e)) /\ SF_vars(Asks(e))
        /\ \A c \in {"wask", "wins"} : WF_vars(Arrivals(e, c))
        /\ \A n \in Numbers, c \in {"push", "ack"} :
               WF_vars(NumberArrivals(e, c, n))

FairSpec == Spec /\ Fairness

-----------------------------------------------------------------------------
(* Properties. *)

Prefix(s, t) == Len(s) <= Len(t) /\ \A i \in 1..Len(s) : s[i] = t[i]

\* The segments with number n that end e has in hand.
Received(e, n) == n < rcvNxt[e] \/ n \in DOMAIN rcvBuf[e]

\* A buffer maps numbers to segments.
IsBuf(f) == DOMAIN f \subseteq Nat /\ f \in [DOMAIN f -> Seg]

\* Queues hold segments, buffers map numbers to segments, counters are
\* natural, datagrams are well formed.
TypeOK ==
    /\ stream    \in [Ends -> Seq(Seg)]
    /\ delivered \in [Ends -> Seq(Seg)]
    /\ sndQueue  \in [Ends -> Seq(Seg)]
    /\ rcvQueue  \in [Ends -> Seq(Seg)]
    /\ DOMAIN sndBuf = Ends /\ DOMAIN rcvBuf = Ends
    /\ \A e \in Ends : IsBuf(sndBuf[e]) /\ IsBuf(rcvBuf[e])
    /\ acklist \in [Ends -> SUBSET Nat]
    /\ msgs   \in [Ends -> Nat]
    /\ sndUna \in [Ends -> Nat]
    /\ sndNxt \in [Ends -> Nat]
    /\ rcvNxt \in [Ends -> Nat]
    /\ rmtWnd \in [Ends -> 0..RcvWnd]
    /\ tell   \in [Ends -> BOOLEAN]
    /\ net \subseteq Message
    /\ dups \in 0..MaxDups
    /\ losses \in 0..MaxLosses

\* Whatever the network loses, repeats or reorders, what ikcp_recv has
\* returned at one end is a prefix of what ikcp_send took at the other.
InOrder == \A e \in Ends : Prefix(delivered[e], stream[Peer(e)])

\* A segment leaves snd_buf only once the peer has it: a stale or reordered
\* acknowledgment never makes the sender forget data still owed.
NoLossAfterAck ==
    \A e \in Ends : \A n \in 0..(sndNxt[e] - 1) :
        n \notin DOMAIN sndBuf[e] => Received(Peer(e), n)

\* What arrives in order is never left behind in rcv_buf while rcv_queue has
\* room: the moves of ikcp_recv and of ikcp_parse_data together miss nothing.
NoStall ==
    \A e \in Ends :
        rcvNxt[e] \in DOMAIN rcvBuf[e] => Len(rcvQueue[e]) = RcvWnd

\* The windows bound memory at both ends, however stale the advertised one:
\* snd_buf spans at most snd_wnd numbers from snd_una, which never passes a
\* segment that waits nor lags behind an emptied one, or the window would close
\* for good; rcv_queue and rcv_buf hold at most rcv_wnd segments each.
BoundedMemory ==
    \A e \in Ends :
        /\ DOMAIN sndBuf[e] \subseteq sndUna[e]..(sndUna[e] + SndWnd - 1)
        /\ sndUna[e] \in DOMAIN sndBuf[e] \/ sndUna[e] = sndNxt[e]
        /\ Len(rcvQueue[e]) <= RcvWnd
        /\ DOMAIN rcvBuf[e] \subseteq rcvNxt[e]..(rcvNxt[e] + RcvWnd - 1)

\* Over a network that keeps losing and reordering, but not every copy, what
\* was sent is delivered: the retransmissions and the window probes suffice,
\* a zero window that re-opened while its announcement was lost included.
AllDelivered ==
    \A e \in Ends : \A n \in Numbers :
        Len(stream[e]) > n ~> Len(delivered[Peer(e)]) > n

\* ikcp_waitsnd returns to zero, which is what the drain event of librstrm
\* waits for after a refused send.
Drains == \A e \in Ends : []<>(DOMAIN sndBuf[e] = {} /\ sndQueue[e] = <<>>)

-----------------------------------------------------------------------------
(* The abstract pipe that the two ends implement. *)

Held(e)    == {n \in 0..(Len(stream[Peer(e)]) - 1) : Received(e, n)}
Unacked(e) == DOMAIN sndBuf[e] \cup sndNxt[e]..(Len(stream[e]) - 1)

Pipe == INSTANCE Pipe WITH
            held    <- [e \in Ends |-> Held(e)],
            unacked <- [e \in Ends |-> Unacked(e)]

\* Every step of the two ends and of the network is a step of the pipe, or
\* none: a number once held stays held, a segment leaves the sender only when
\* it is held, and ikcp_recv returns one whole message, never two merged nor one
\* cut in two.  Nothing above the ARQ needs to know of timers or windows.
ImplementsPipe == Pipe!PipeSpec

-----------------------------------------------------------------------------
(* The inductive invariant behind the safety properties. *)

\* q is the part of s that follows its first k elements.
Follows(q, s, k) == k + Len(q) <= Len(s) /\ \A i \in 1..Len(q) : q[i] = s[k + i]

\* q is all of s but its first k elements.
Remains(q, s, k) == Follows(q, s, k) /\ k + Len(q) = Len(s)

\* Every segment of a buffer is the one of s with that number.
Copies(buf, s) == \A n \in DOMAIN buf : n < Len(s) /\ buf[n] = s[n + 1]

\* Numbers are given in the order of ikcp_send, and a kept copy is the original.
SenderOK(e) ==
    /\ Remains(sndQueue[e], stream[e], sndNxt[e])
    /\ Copies(sndBuf[e], stream[e])
    /\ \A n \in DOMAIN sndBuf[e] : n < sndNxt[e]

\* A queue, then a buffer of later segments: all from s, the queue starting
\* after its first d, the buffer between nxt and top.
Window(q, buf, s, d, nxt, top) ==
    /\ Follows(q, s, d)
    /\ Copies(buf, s)
    /\ nxt = d + Len(q) /\ nxt <= top
    /\ \A n \in DOMAIN buf : nxt <= n /\ n < top

\* The receiver holds only originals, each in its place.
ReceiverOK(e) ==
    LET s == stream[Peer(e)]
    IN  /\ Follows(delivered[e], s, 0)
        /\ Window(rcvQueue[e], rcvBuf[e], s, Len(delivered[e]), rcvNxt[e],
                  sndNxt[Peer(e)])

\* What a datagram in flight says was true when it left, and stays true.
DatagramOK(m) ==
    LET p == Peer(m.to)
    IN  /\ m.una <= rcvNxt[p]
        /\ m.cmd = "push" => m.sn < sndNxt[p] /\ m.seg = stream[p][m.sn + 1]
        /\ m.cmd = "ack" => Received(p, m.sn)

\* Only what was received is acknowledged.
AcksOK(e) == \A n \in acklist[e] : Received(e, n)

\* The inductive invariant: in-order delivery and no forgotten segment follow.
IInv ==
    /\ TypeOK
    /\ \A e \in Ends : SenderOK(e) /\ ReceiverOK(e) /\ AcksOK(e)
    /\ \A m \in net : DatagramOK(m)
    /\ NoLossAfterAck

=============================================================================
