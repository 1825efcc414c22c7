-------------------------------- MODULE Pipe --------------------------------
(***************************************************************************)
(* What an ARQ session promises to librstrm, whatever the datagrams do: in *)
(* each direction a FIFO of segments, read in whole messages, and a count  *)
(* of unacknowledged segments (ikcp_waitsnd) from which a segment is       *)
(* dropped only once the peer holds it.                                    *)
(***************************************************************************)
EXTENDS Integers, Sequences

CONSTANTS Ends, FragCounts

VARIABLES
    stream,     \* segments accepted at each end, in order
    msgs,       \* messages accepted at each end
    held,       \* numbers of the peer's segments each end holds or has read
    unacked,    \* numbers of its own segments each end still keeps
    delivered   \* segments read at each end

pipeVars == <<stream, msgs, held, unacked, delivered>>

Other(e) == CHOOSE p \in Ends : p # e

Pieces(k, n) == [i \in 1..n |-> [msg |-> k, frg |-> n - i]]

PipeInit ==
    /\ stream    = [e \in Ends |-> <<>>]
    /\ msgs      = [e \in Ends |-> 0]
    /\ held      = [e \in Ends |-> {}]
    /\ unacked   = [e \in Ends |-> {}]
    /\ delivered = [e \in Ends |-> <<>>]

\* A message of n segments is accepted whole.
Accept(e, n) ==
    /\ stream' = [stream EXCEPT ![e] = @ \o Pieces(msgs[e], n)]
    /\ msgs' = [msgs EXCEPT ![e] = @ + 1]
    /\ unacked' = [unacked EXCEPT ![e] =
                       @ \cup Len(stream[e])..(Len(stream[e]) + n - 1)]
    /\ UNCHANGED <<held, delivered>>

\* A datagram reaches e: e may hold one more segment of its peer, and drops
\* segments of its own, but only such as its peer holds.
Transfer(e) ==
    /\ \E new \in SUBSET (0..(Len(stream[Other(e)]) - 1)) :
           held' = [held EXCEPT ![e] = @ \cup new]
    /\ \E gone \in SUBSET held[Other(e)] :
           unacked' = [unacked EXCEPT ![e] = @ \ gone]
    /\ UNCHANGED <<stream, msgs, delivered>>

\* The next message is read once every segment of it is held.
Read(e) ==
    /\ \E last \in (Len(delivered[e]) + 1)..Len(stream[Other(e)]) :
         /\ \A i \in (Len(delivered[e]) + 1)..last :
               /\ i - 1 \in held[e]
               /\ stream[Other(e)][i].frg = 0 <=> i = last
         /\ delivered' = [delivered EXCEPT ![e] =
                              SubSeq(stream[Other(e)], 1, last)]
    /\ UNCHANGED <<stream, msgs, held, unacked>>

PipeNext ==
    \E e \in Ends : (\E n \in FragCounts : Accept(e, n)) \/ Transfer(e) \/ Read(e)

PipeSpec == PipeInit /\ [][PipeNext]_pipeVars

=============================================================================
