------------------------------ MODULE KcpProofs ------------------------------
(***************************************************************************)
(* Proofs about Kcp, for all windows, loads and networks: the type         *)
(* invariant, in-order delivery, that no segment is forgotten before the   *)
(* peer holds it, and that the two ends implement module Pipe.             *)
(***************************************************************************)
EXTENDS Kcp, SequenceTheorems, TLAPS

\* Each of the two ends is the other's peer.
LEMMA PeerProps ==
    ASSUME NEW e \in Ends
    PROVE  /\ Peer(e) \in Ends
           /\ Peer(e) # e
           /\ Peer(Peer(e)) = e
           /\ \A x \in Ends : x = e \/ x = Peer(e)
<1>1. PICK a \in Ends, b \in Ends : a # b /\ Ends = {a, b}
  BY EndsAssumption
<1>2. \A x \in Ends : Peer(x) = IF x = a THEN b ELSE a
  BY <1>1 DEF Peer
<1> QED
  BY <1>1, <1>2

-----------------------------------------------------------------------------
(* What the helpers compute. *)

\* The fragments of one message.
LEMMA FragmentsProps ==
    ASSUME NEW k \in Nat, NEW n \in Nat
    PROVE  Fragments(k, n) \in Seq(Seg) /\ Len(Fragments(k, n)) = n
<1>1. \A i \in 1..n : [msg |-> k, frg |-> n - i] \in Seg
  BY DEF Seg
<1> QED
  BY <1>1 DEF Fragments

\* A restricted buffer.
LEMMA OnlyProps ==
    ASSUME NEW f, NEW S
    PROVE  /\ DOMAIN Only(f, S) = DOMAIN f \cap S
           /\ \A n \in DOMAIN f \cap S : Only(f, S)[n] = f[n]
           /\ Only(f, S) \in [DOMAIN f \cap S -> {f[n] : n \in DOMAIN f}]
BY DEF Only

\* Two buffers put together.
LEMMA BothProps ==
    ASSUME NEW f, NEW g, IsBuf(f), IsBuf(g)
    PROVE  /\ DOMAIN Both(f, g) = DOMAIN f \cup DOMAIN g
           /\ IsBuf(Both(f, g))
           /\ \A s : Copies(f, s) /\ Copies(g, s) => Copies(Both(f, g), s)
BY DEF Both, Copies, IsBuf

\* A run taken from the front of a receive buffer.
LEMMA RunProps ==
    ASSUME NEW buf, NEW nxt \in Nat, NEW room \in Int, NEW k \in Nat,
           IsRun(buf, nxt, room, k), IsBuf(buf)
    PROVE  /\ k <= room
           /\ Run(buf, nxt, k) \in Seq(Seg)
           /\ Len(Run(buf, nxt, k)) = k
           /\ \A i \in 1..k : /\ nxt + i - 1 \in DOMAIN buf
                              /\ Run(buf, nxt, k)[i] = buf[nxt + i - 1]
<1>1. k <= room
  BY DEF IsRun
<1>2. \A i \in 1..k : nxt + i - 1 \in DOMAIN buf
  <2> TAKE i \in 1..k
  <2>1. i - 1 \in 0..(k - 1) /\ nxt + (i - 1) = nxt + i - 1
    BY <1>1
  <2> QED
    BY <2>1 DEF IsRun
<1>3. \A i \in 1..k : buf[nxt + i - 1] \in Seg
  BY <1>2 DEF IsBuf
<1> QED
  BY <1>1, <1>2, <1>3 DEF Run

\* The first number of a buffer.
LEMMA ShrinkProps ==
    ASSUME NEW buf, NEW nxt \in Nat, DOMAIN buf \subseteq Nat
    PROVE  Shrink(buf, nxt) \in Nat
BY DEF Shrink

-----------------------------------------------------------------------------
(* Sequences that follow one another. *)

\* What a longer stream adds does not disturb its earlier parts.
LEMMA FollowsGrow ==
    ASSUME NEW S, NEW q \in Seq(S), NEW s \in Seq(S), NEW new \in Seq(S),
           NEW k \in Nat, Follows(q, s, k)
    PROVE  Follows(q, s \o new, k)
<1>1. Len(q) \in Nat /\ Len(s) \in Nat /\ Len(new) \in Nat
  BY LenProperties
<1>2. /\ Len(s \o new) = Len(s) + Len(new)
      /\ \A i \in 1..Len(s) + Len(new) :
            (s \o new)[i] = IF i <= Len(s) THEN s[i] ELSE new[i - Len(s)]
  BY ConcatProperties
<1> QED
  BY <1>1, <1>2 DEF Follows

\* The same addition to a stream and to the end of it that is queued.
LEMMA RemainsAppend ==
    ASSUME NEW S, NEW q \in Seq(S), NEW s \in Seq(S), NEW new \in Seq(S),
           NEW k \in Nat, Remains(q, s, k)
    PROVE  Remains(q \o new, s \o new, k)
<1>1. Len(q) \in Nat /\ Len(s) \in Nat /\ Len(new) \in Nat
  BY LenProperties
<1>2. /\ Len(s \o new) = Len(s) + Len(new)
      /\ \A i \in 1..Len(s) + Len(new) :
            (s \o new)[i] = IF i <= Len(s) THEN s[i] ELSE new[i - Len(s)]
  BY ConcatProperties
<1>3. /\ Len(q \o new) = Len(q) + Len(new)
      /\ \A i \in 1..Len(q) + Len(new) :
            (q \o new)[i] = IF i <= Len(q) THEN q[i] ELSE new[i - Len(q)]
  BY ConcatProperties
<1>4. ASSUME NEW i \in 1..Len(q) + Len(new)
      PROVE  (q \o new)[i] = (s \o new)[k + i]
  <2>1. k + i \in 1..Len(s) + Len(new) /\ i - Len(q) = (k + i) - Len(s)
    BY <1>1 DEF Remains
  <2>2. CASE i <= Len(q)
    <3>1. i \in 1..Len(q) /\ k + i <= Len(s)
      BY <1>1, <2>2 DEF Follows, Remains
    <3> QED
      BY <1>2, <1>3, <2>1, <2>2, <3>1 DEF Follows, Remains
  <2>3. CASE i > Len(q)
    <3>1. ~(k + i <= Len(s))
      BY <1>1, <2>1, <2>3
    <3> QED
      BY <1>1, <1>2, <1>3, <2>1, <2>3, <3>1
  <2>4. i <= Len(q) \/ i > Len(q)
    BY <1>1
  <2> QED
    BY <2>2, <2>3, <2>4
<1>5. Len(q \o new) \in Nat /\ Len(s \o new) \in Nat
  BY <1>1, <1>2, <1>3
<1>6. k + Len(q \o new) = Len(s \o new)
  <2>1. /\ Len(q \o new) = Len(q) + Len(new)
        /\ Len(s \o new) = Len(s) + Len(new)
    BY <1>2, <1>3
  <2> QED
    BY <1>1, <1>5, <2>1, SMTT(20) DEF Remains
<1>7. k + Len(q \o new) <= Len(s \o new)
  BY <1>5, <1>6
<1> QED
  BY <1>3, <1>4, <1>6, <1>7 DEF Follows, Remains

\* Taking the first c elements off a queue.
LEMMA FollowsDrop ==
    ASSUME NEW S, NEW q \in Seq(S), NEW s \in Seq(S), NEW k \in Nat,
           Follows(q, s, k), NEW c \in 0..Len(q)
    PROVE  /\ SubSeq(q, c + 1, Len(q)) \in Seq(S)
           /\ Len(SubSeq(q, c + 1, Len(q))) = Len(q) - c
           /\ Follows(SubSeq(q, c + 1, Len(q)), s, k + c)
<1>1. Len(q) \in Nat /\ Len(s) \in Nat /\ c \in Nat
  BY LenProperties
<1>2. \A i \in c + 1..Len(q) : q[i] \in S
  BY <1>1, ElementOfSeq
<1>3. /\ SubSeq(q, c + 1, Len(q)) \in Seq(S)
      /\ Len(SubSeq(q, c + 1, Len(q))) = Len(q) - c
      /\ \A i \in 1..Len(q) - c : SubSeq(q, c + 1, Len(q))[i] = q[c + i]
  <2>1. /\ SubSeq(q, c + 1, Len(q)) \in Seq(S)
        /\ Len(SubSeq(q, c + 1, Len(q))) =
              IF c + 1 <= Len(q) THEN Len(q) - (c + 1) + 1 ELSE 0
        /\ \A i \in 1..Len(q) - (c + 1) + 1 :
              SubSeq(q, c + 1, Len(q))[i] = q[(c + 1) + i - 1]
    BY <1>1, <1>2, SubSeqProperties
  <2>2. Len(q) - (c + 1) + 1 = Len(q) - c
    BY <1>1
  <2>3. Len(SubSeq(q, c + 1, Len(q))) = Len(q) - c
    <3>1. CASE c + 1 <= Len(q)
      BY <2>1, <2>2, <3>1
    <3>2. CASE c = Len(q)
      BY <1>1, <2>1, <3>2
    <3> QED
      BY <1>1, <3>1, <3>2
  <2>4. ASSUME NEW i \in 1..Len(q) - c
        PROVE  SubSeq(q, c + 1, Len(q))[i] = q[c + i]
    <3>1. (c + 1) + i - 1 = c + i
      BY <1>1
    <3> QED
      BY <2>1, <2>2, <3>1
  <2> QED
    BY <2>1, <2>3, <2>4
<1>4. ASSUME NEW i \in 1..Len(q) - c
      PROVE  SubSeq(q, c + 1, Len(q))[i] = s[k + c + i]
  <2>1. c + i \in 1..Len(q) /\ k + (c + i) = k + c + i
    BY <1>1
  <2> QED
    BY <1>3, <2>1 DEF Follows
<1>5. (k + c) + (Len(q) - c) <= Len(s)
  BY <1>1 DEF Follows
<1> QED
  BY <1>3, <1>4, <1>5 DEF Follows

\* The first c elements of a queue.
LEMMA FollowsTake ==
    ASSUME NEW S, NEW q \in Seq(S), NEW s \in Seq(S), NEW k \in Nat,
           Follows(q, s, k), NEW c \in 0..Len(q)
    PROVE  /\ SubSeq(q, 1, c) \in Seq(S)
           /\ Len(SubSeq(q, 1, c)) = c
           /\ Follows(SubSeq(q, 1, c), s, k)
<1>1. Len(q) \in Nat /\ Len(s) \in Nat /\ c \in Nat
  BY LenProperties
<1>2. \A i \in 1..c : i \in 1..Len(q) /\ q[i] \in S
  BY <1>1, ElementOfSeq
<1>3. /\ SubSeq(q, 1, c) \in Seq(S)
      /\ Len(SubSeq(q, 1, c)) = IF 1 <= c THEN c - 1 + 1 ELSE 0
      /\ \A i \in 1..c - 1 + 1 : SubSeq(q, 1, c)[i] = q[1 + i - 1]
  BY <1>1, <1>2, SubSeqProperties
<1>4. Len(SubSeq(q, 1, c)) = c
  BY <1>1, <1>3
<1>5. ASSUME NEW i \in 1..c PROVE SubSeq(q, 1, c)[i] = s[k + i]
  <2>1. i \in 1..c - 1 + 1 /\ 1 + i - 1 = i
    BY <1>1
  <2> QED
    BY <1>2, <1>3, <2>1 DEF Follows
<1>6. k + c <= Len(s)
  BY <1>1 DEF Follows
<1> QED
  BY <1>3, <1>4, <1>5, <1>6 DEF Follows

\* The same when the queue is all that is left of the stream.
LEMMA RemainsDrop ==
    ASSUME NEW S, NEW q \in Seq(S), NEW s \in Seq(S), NEW k \in Nat,
           Remains(q, s, k), NEW c \in 0..Len(q)
    PROVE  Remains(SubSeq(q, c + 1, Len(q)), s, k + c)
<1>1. Len(q) \in Nat /\ Len(s) \in Nat /\ c \in Nat
  BY LenProperties
<1>2. /\ Len(SubSeq(q, c + 1, Len(q))) = Len(q) - c
      /\ Follows(SubSeq(q, c + 1, Len(q)), s, k + c)
  BY FollowsDrop DEF Remains
<1>3. (k + c) + (Len(q) - c) = Len(s)
  BY <1>1 DEF Remains
<1> QED
  BY <1>2, <1>3 DEF Remains

\* Appending the next elements of the stream.
LEMMA FollowsExtend ==
    ASSUME NEW S, NEW q \in Seq(S), NEW s \in Seq(S), NEW r \in Seq(S),
           NEW k \in Nat, Follows(q, s, k), Follows(r, s, k + Len(q))
    PROVE  /\ q \o r \in Seq(S)
           /\ Len(q \o r) = Len(q) + Len(r)
           /\ Follows(q \o r, s, k)
<1>1. Len(q) \in Nat /\ Len(s) \in Nat /\ Len(r) \in Nat
  BY LenProperties
<1>2. /\ q \o r \in Seq(S)
      /\ Len(q \o r) = Len(q) + Len(r)
      /\ \A i \in 1..Len(q) + Len(r) :
            (q \o r)[i] = IF i <= Len(q) THEN q[i] ELSE r[i - Len(q)]
  BY ConcatProperties
<1>3. ASSUME NEW i \in 1..Len(q) + Len(r) PROVE (q \o r)[i] = s[k + i]
  <2>1. CASE i <= Len(q)
    BY <1>1, <1>2, <2>1 DEF Follows
  <2>2. CASE i > Len(q)
    <3>1. i - Len(q) \in 1..Len(r) /\ k + Len(q) + (i - Len(q)) = k + i
      BY <1>1, <2>2
    <3> QED
      BY <1>1, <1>2, <2>2, <3>1 DEF Follows
  <2> QED
    BY <1>1, <2>1, <2>2
<1> QED
  BY <1>1, <1>2, <1>3 DEF Follows

\* A longer stream still has the copies.
LEMMA CopiesGrow ==
    ASSUME NEW S, NEW s \in Seq(S), NEW new \in Seq(S), NEW buf,
           DOMAIN buf \subseteq Nat, Copies(buf, s)
    PROVE  Copies(buf, s \o new)
<1>1. Len(s) \in Nat /\ Len(new) \in Nat
  BY LenProperties
<1>2. /\ Len(s \o new) = Len(s) + Len(new)
      /\ \A i \in 1..Len(s) + Len(new) :
            (s \o new)[i] = IF i <= Len(s) THEN s[i] ELSE new[i - Len(s)]
  BY ConcatProperties
<1>3. ASSUME NEW n \in DOMAIN buf
      PROVE  n < Len(s \o new) /\ buf[n] = (s \o new)[n + 1]
  <2>1. n \in Nat /\ n < Len(s) /\ buf[n] = s[n + 1]
    BY DEF Copies
  <2>2. n + 1 \in 1..Len(s) + Len(new) /\ n + 1 <= Len(s)
    BY <1>1, <2>1
  <2> QED
    BY <1>1, <1>2, <2>1, <2>2
<1> QED
  BY <1>3 DEF Copies

\* Moving a run from the buffer to the queue.
LEMMA RunMoves ==
    ASSUME NEW q \in Seq(Seg), NEW s \in Seq(Seg), NEW d \in Nat, NEW nxt \in Nat,
           NEW top \in Nat, NEW room \in Int, NEW k \in Nat,
           NEW buf, IsBuf(buf),
           Window(q, buf, s, d, nxt, top), IsRun(buf, nxt, room, k)
    PROVE  LET r    == Run(buf, nxt, k)
               left == From(buf, nxt + k)
           IN  /\ q \o r \in Seq(Seg)
               /\ IsBuf(left)
               /\ Window(q \o r, left, s, d, nxt + k, top)
               /\ \A n \in Nat : n < nxt \/ n \in DOMAIN buf =>
                                 n < nxt + k \/ n \in DOMAIN left
<1> DEFINE r    == Run(buf, nxt, k)
           left == From(buf, nxt + k)
<1>1. /\ r \in Seq(Seg) /\ Len(r) = k
      /\ \A i \in 1..k : nxt + i - 1 \in DOMAIN buf /\ r[i] = buf[nxt + i - 1]
  BY RunProps
<1>2. Len(q) \in Nat /\ Len(s) \in Nat /\ Len(r) \in Nat
  BY <1>1, LenProperties
<1>3. nxt = d + Len(q) /\ nxt <= Len(s) /\ nxt <= top
  BY <1>2 DEF Window, Follows
<1>4. nxt + k <= Len(s) /\ nxt + k <= top
  <2>1. CASE k = 0
    BY <1>2, <1>3, <2>1
  <2>2. CASE k # 0
    <3>1. nxt + k - 1 \in DOMAIN buf /\ nxt + k - 1 \in Nat
      BY <1>1, <2>2 DEF IsBuf
    <3>2. nxt + k - 1 < Len(s) /\ nxt + k - 1 < top
      BY <3>1 DEF Window, Copies
    <3> QED
      BY <1>1, <1>2, <3>1, <3>2
  <2> QED
    BY <2>1, <2>2
<1>5. Follows(r, s, d + Len(q))
  <2>1. ASSUME NEW i \in 1..k PROVE r[i] = s[nxt + i]
    <3>1. nxt + i - 1 \in DOMAIN buf /\ r[i] = buf[nxt + i - 1]
      BY <1>1
    <3>2. (nxt + i - 1) + 1 = nxt + i
      OBVIOUS
    <3>3. buf[nxt + i - 1] = s[(nxt + i - 1) + 1]
      BY <3>1 DEF Window, Copies
    <3> QED
      BY <3>1, <3>2, <3>3
  <2> QED
    BY <1>1, <1>2, <1>3, <1>4, <2>1 DEF Follows
<1>6. /\ q \o r \in Seq(Seg)
      /\ Len(q \o r) = Len(q) + Len(r)
      /\ Follows(q \o r, s, d)
  BY <1>1, <1>5, FollowsExtend DEF Window
<1>7. /\ DOMAIN left = {n \in DOMAIN buf : nxt + k <= n}
      /\ \A n \in DOMAIN left : left[n] = buf[n]
      /\ IsBuf(left)
  BY DEF From, Only, IsBuf
<1>8. Copies(left, s)
  BY <1>7 DEF Window, Copies
<1>9. nxt + k = d + Len(q \o r)
  BY <1>1, <1>2, <1>3, <1>6, SMTT(20)
<1>10. Window(q \o r, left, s, d, nxt + k, top)
  <2>1. \A n \in DOMAIN left : nxt + k <= n /\ n < top
    BY <1>7 DEF Window
  <2> QED
    BY <1>4, <1>6, <1>8, <1>9, <2>1 DEF Window
<1>11. \A n \in Nat : n < nxt \/ n \in DOMAIN buf => n < nxt + k \/ n \in DOMAIN left
  BY <1>1, <1>7
<1> QED
  BY <1>1, <1>6, <1>7, <1>10, <1>11

-----------------------------------------------------------------------------
\* The type invariant, one end at a time.
LEMMA Types ==
    ASSUME TypeOK, NEW e \in Ends
    PROVE  /\ stream[e] \in Seq(Seg)    /\ Len(stream[e]) \in Nat
           /\ delivered[e] \in Seq(Seg) /\ Len(delivered[e]) \in Nat
           /\ sndQueue[e] \in Seq(Seg)  /\ Len(sndQueue[e]) \in Nat
           /\ rcvQueue[e] \in Seq(Seg)  /\ Len(rcvQueue[e]) \in Nat
           /\ IsBuf(sndBuf[e]) /\ DOMAIN sndBuf[e] \subseteq Nat
           /\ IsBuf(rcvBuf[e]) /\ DOMAIN rcvBuf[e] \subseteq Nat
           /\ acklist[e] \subseteq Nat
           /\ sndUna[e] \in Nat /\ sndNxt[e] \in Nat /\ rcvNxt[e] \in Nat
           /\ msgs[e] \in Nat /\ rmtWnd[e] \in 0..RcvWnd /\ rmtWnd[e] \in Nat
<1>1. /\ stream[e] \in Seq(Seg) /\ delivered[e] \in Seq(Seg)
      /\ sndQueue[e] \in Seq(Seg) /\ rcvQueue[e] \in Seq(Seg)
  BY DEF TypeOK
<1>2. /\ Len(stream[e]) \in Nat /\ Len(delivered[e]) \in Nat
      /\ Len(sndQueue[e]) \in Nat /\ Len(rcvQueue[e]) \in Nat
  BY <1>1, LenProperties
<1> QED
  BY <1>1, <1>2, WndAssumption DEF TypeOK, IsBuf

-----------------------------------------------------------------------------
(* The invariant holds initially and every action preserves it. *)

LEMMA InitInv == Init => IInv
<1> SUFFICES ASSUME Init PROVE IInv
  OBVIOUS
<1> USE DEF Init, Empty
<1>1. TypeOK
  BY WndAssumption, LoadAssumption DEF TypeOK, IsBuf
<1>2. \A e \in Ends : SenderOK(e) /\ ReceiverOK(e) /\ AcksOK(e)
  BY PeerProps DEF SenderOK, ReceiverOK, AcksOK, Follows, Remains, Copies, Window
<1>3. NoLossAfterAck
  BY DEF NoLossAfterAck
<1> QED
  BY <1>1, <1>2, <1>3 DEF IInv

\* ikcp_send.
LEMMA SendInv ==
    ASSUME IInv, NEW e \in Ends, NEW n \in FragCounts, Send(e, n)
    PROVE  IInv'
<1> DEFINE new == Fragments(msgs[e], n)
<1>0. TypeOK
  BY DEF IInv
<1>1. new \in Seq(Seg)
  BY <1>0, LoadAssumption, FragmentsProps DEF TypeOK
<1>2. UNCHANGED <<sndBuf, sndUna, sndNxt, rmtWnd, rcvBuf, rcvQueue, rcvNxt,
                  acklist, tell, delivered, net, dups, losses>>
  BY DEF Send, rcvVars, netVars
<1>3. \A s \in Seq(Seg) : s \o new \in Seq(Seg)
  BY <1>1, ConcatProperties
<1>4. /\ stream' = [stream EXCEPT ![e] = @ \o new]
      /\ sndQueue' = [sndQueue EXCEPT ![e] = @ \o new]
      /\ msgs' = [msgs EXCEPT ![e] = @ + 1]
  BY DEF Send
<1> HIDE DEF new
<1>5. TypeOK'
  <2>1. /\ stream' \in [Ends -> Seq(Seg)] /\ sndQueue' \in [Ends -> Seq(Seg)]
        /\ msgs' \in [Ends -> Nat]
    BY <1>0, <1>3, <1>4 DEF TypeOK
  <2> QED
    BY <1>0, <1>2, <2>1 DEF TypeOK
<1>6. ASSUME NEW x \in Ends
      PROVE  /\ stream'[x] = IF x = e THEN stream[x] \o new ELSE stream[x]
             /\ sndQueue'[x] = IF x = e THEN sndQueue[x] \o new ELSE sndQueue[x]
  BY <1>0, <1>4 DEF TypeOK
<1>7. ASSUME NEW x \in Ends PROVE SenderOK(x)'
  <2>0. SenderOK(x)
    BY DEF IInv
  <2>1. CASE x # e
    BY <1>2, <1>6, <2>0, <2>1 DEF SenderOK
  <2>2. CASE x = e
    <3>1. /\ stream[x] \in Seq(Seg) /\ sndQueue[x] \in Seq(Seg)
          /\ sndNxt[x] \in Nat /\ DOMAIN sndBuf[x] \subseteq Nat
      BY <1>0, Types
    <3>2. Remains(sndQueue[x] \o new, stream[x] \o new, sndNxt[x])
      BY <1>1, <2>0, <3>1, RemainsAppend DEF SenderOK
    <3>3. Copies(sndBuf[x], stream[x] \o new)
      BY <1>1, <2>0, <3>1, CopiesGrow DEF SenderOK
    <3> QED
      BY <1>2, <1>6, <2>0, <2>2, <3>2, <3>3 DEF SenderOK
  <2> QED
    BY <2>1, <2>2
<1>8. ASSUME NEW x \in Ends PROVE ReceiverOK(x)'
  <2> DEFINE p == Peer(x)
  <2>0. ReceiverOK(x) /\ p \in Ends
    BY PeerProps DEF IInv
  <2>1. CASE p # e
    BY <1>2, <1>6, <2>0, <2>1 DEF ReceiverOK
  <2>2. CASE p = e
    <3>1. /\ stream[p] \in Seq(Seg) /\ delivered[x] \in Seq(Seg)
          /\ rcvQueue[x] \in Seq(Seg) /\ Len(delivered[x]) \in Nat
          /\ DOMAIN rcvBuf[x] \subseteq Nat
      BY <1>0, <2>0, Types
    <3>2. /\ Follows(delivered[x], stream[p] \o new, 0)
          /\ Follows(rcvQueue[x], stream[p] \o new, Len(delivered[x]))
      BY <1>1, <2>0, <3>1, FollowsGrow DEF ReceiverOK, Window
    <3>3. Copies(rcvBuf[x], stream[p] \o new)
      BY <1>1, <2>0, <3>1, CopiesGrow DEF ReceiverOK, Window
    <3> QED
      BY <1>2, <1>6, <2>0, <2>2, <3>2, <3>3 DEF ReceiverOK, Window
  <2> QED
    BY <2>1, <2>2
<1>9. ASSUME NEW m \in net PROVE DatagramOK(m)'
  <2> DEFINE p == Peer(m.to)
  <2>0. DatagramOK(m) /\ m \in Message
    BY <1>0 DEF IInv, TypeOK
  <2>1. p \in Ends /\ (m.cmd = "push" => m.sn \in Nat)
    BY <2>0, PeerProps DEF Message
  <2>2. ASSUME m.cmd = "push" PROVE m.seg = stream'[p][m.sn + 1]
    <3>1. CASE p # e
      BY <1>6, <2>0, <2>1, <2>2, <3>1 DEF DatagramOK
    <3>2. CASE p = e
      <4>1. /\ stream[p] \in Seq(Seg) /\ Len(stream[p]) \in Nat
            /\ Len(sndQueue[p]) \in Nat /\ sndNxt[p] \in Nat
        BY <1>0, <2>1, Types
      <4>2. m.sn < sndNxt[p] /\ sndNxt[p] + Len(sndQueue[p]) = Len(stream[p])
        BY <2>0, <2>1, <2>2 DEF IInv, DatagramOK, SenderOK, Remains
      <4>3. m.sn + 1 \in 1..Len(stream[p])
        BY <2>1, <2>2, <4>1, <4>2
      <4>4. stream'[p][m.sn + 1] = stream[p][m.sn + 1]
        <5>1. Len(new) \in Nat
          BY <1>1, LenProperties
        <5>2. m.sn + 1 \in 1..Len(stream[p]) + Len(new)
          BY <4>1, <4>3, <5>1
        <5>3. \A i \in 1..Len(stream[p]) + Len(new) :
                 (stream[p] \o new)[i] = IF i <= Len(stream[p]) THEN stream[p][i]
                                         ELSE new[i - Len(stream[p])]
          BY <1>1, <4>1, ConcatProperties
        <5>4. (stream[p] \o new)[m.sn + 1] = stream[p][m.sn + 1]
          BY <4>1, <4>3, <5>2, <5>3
        <5> QED
          BY <1>6, <2>1, <3>2, <5>4
      <4> QED
        BY <2>0, <2>2, <4>4 DEF DatagramOK
    <3> QED
      BY <3>1, <3>2
  <2> QED
    BY <1>2, <2>0, <2>2 DEF DatagramOK, Received
<1> QED
  BY <1>2, <1>5, <1>7, <1>8, <1>9 DEF IInv, AcksOK, Received, NoLossAfterAck

\* How many segments a flush may number.
LEMMA MovableProps ==
    ASSUME TypeOK, NEW e \in Ends, NEW cw \in Nat
    PROVE  Movable(e, cw) \in 0..Len(sndQueue[e])
<1>1. /\ sndUna[e] \in Nat /\ sndNxt[e] \in Nat /\ rmtWnd[e] \in Nat
      /\ Len(sndQueue[e]) \in Nat /\ SndWnd \in Nat
  BY Types, WndAssumption
<1> QED
  BY <1>1 DEF Movable, Lesser

\* The window an end announces.
LEMMA UnusedProps ==
    ASSUME TypeOK, NEW e \in Ends
    PROVE  Unused(e) \in 0..RcvWnd
BY Types, WndAssumption DEF Unused

\* The pushes of a buffer of originals are sound datagrams.
LEMMA PushesOK ==
    ASSUME TypeOK, NEW e \in Ends, NEW buf, NEW nxt,
           IsBuf(buf),
           Copies(buf, stream[e]), \A n \in DOMAIN buf : n < nxt,
           NEW m \in Pushes(e, buf)
    PROVE  /\ m \in Message /\ m.to = Peer(e) /\ m.una = rcvNxt[e]
           /\ m.cmd = "push"
           /\ m.sn < nxt /\ m.seg = stream[e][m.sn + 1]
<1>1. PICK n \in DOMAIN buf :
         m = [cmd |-> "push", to |-> Peer(e), wnd |-> Unused(e), una |-> rcvNxt[e],
              sn |-> n, seg |-> buf[n]]
  BY DEF Pushes
<1>2. /\ Peer(e) \in Ends /\ Unused(e) \in 0..RcvWnd /\ rcvNxt[e] \in Nat
      /\ n \in Nat /\ buf[n] \in Seg
  BY PeerProps, UnusedProps, Types, WndAssumption DEF IsBuf
<1> QED
  BY <1>1, <1>2 DEF Message, Copies

\* ikcp_flush.
LEMMA FlushInv ==
    ASSUME IInv, NEW e \in Ends, NEW cw \in 0..SndWnd, NEW ask \in BOOLEAN,
           NEW resend \in SUBSET DOMAIN sndBuf[e], Flush(e, cw, resend, ask)
    PROVE  IInv'
<1> DEFINE k     == Movable(e, cw)
           moved == [n \in sndNxt[e]..(sndNxt[e] + k - 1) |->
                        sndQueue[e][n - sndNxt[e] + 1]]
           again == Only(sndBuf[e], resend)
<1>0. TypeOK /\ SenderOK(e) /\ Peer(e) \in Ends
  BY PeerProps DEF IInv
<1>1. /\ stream[e] \in Seq(Seg) /\ sndQueue[e] \in Seq(Seg)
      /\ IsBuf(sndBuf[e])
  BY <1>0, Types
<1>2. sndNxt[e] \in Nat /\ Len(sndQueue[e]) \in Nat /\ Len(stream[e]) \in Nat
  BY <1>0, Types
<1>3. /\ k \in 0..Len(sndQueue[e]) /\ k \in Nat
      /\ sndNxt[e] + k \in Nat /\ sndNxt[e] + k <= Len(stream[e])
  <2>1. cw \in Nat
    BY WndAssumption
  <2>2. k \in 0..Len(sndQueue[e])
    BY <1>0, <2>1, MovableProps
  <2>3. sndNxt[e] + Len(sndQueue[e]) = Len(stream[e])
    BY <1>0 DEF SenderOK, Remains
  <2> HIDE DEF k
  <2> QED
    BY <1>2, <2>2, <2>3
<1>4. /\ sndBuf' = [sndBuf EXCEPT ![e] = Both(@, moved)]
      /\ sndQueue' = [sndQueue EXCEPT ![e] = SubSeq(@, k + 1, Len(@))]
      /\ sndNxt' = [sndNxt EXCEPT ![e] = @ + k]
      /\ net' = net \cup Acks(e) \cup Pushes(e, moved) \cup Pushes(e, again)
                    \cup (IF ask THEN Probe(e, "wask") ELSE {})
                    \cup (IF tell[e] THEN Probe(e, "wins") ELSE {})
      /\ acklist' = [acklist EXCEPT ![e] = {}]
      /\ tell' = [tell EXCEPT ![e] = FALSE]
      /\ UNCHANGED <<stream, msgs, sndUna, rmtWnd, rcvBuf, rcvQueue, rcvNxt,
                     delivered, dups, losses>>
  BY DEF Flush
<1> HIDE DEF k
<1>5. /\ IsBuf(moved)
      /\ \A n \in DOMAIN moved : sndNxt[e] <= n /\ n < sndNxt[e] + k
      /\ Copies(moved, stream[e])
  <2>1. ASSUME NEW n \in DOMAIN moved
        PROVE  /\ n \in Nat /\ sndNxt[e] <= n /\ n < sndNxt[e] + k
               /\ moved[n] \in Seg
               /\ n < Len(stream[e]) /\ moved[n] = stream[e][n + 1]
    <3>1. n \in sndNxt[e]..(sndNxt[e] + k - 1)
      OBVIOUS
    <3>2. /\ n \in Nat /\ sndNxt[e] <= n /\ n < sndNxt[e] + k
          /\ n - sndNxt[e] + 1 \in 1..Len(sndQueue[e])
          /\ sndNxt[e] + (n - sndNxt[e] + 1) = n + 1
      <4> DEFINE b == sndNxt[e]  l == Len(sndQueue[e])
      <4>1. b \in Nat /\ l \in Nat /\ k \in Nat /\ k \in 0..l /\ n \in b..(b + k - 1)
        BY <1>2, <1>3, <3>1
      <4> HIDE DEF b, l
      <4>2. n \in Nat /\ b <= n /\ n < b + k
        BY <4>1
      <4>3. n - b + 1 \in 1..l /\ b + (n - b + 1) = n + 1
        BY <4>1, <4>2
      <4> QED
        BY <4>2, <4>3 DEF b, l
    <3>4. sndQueue[e][n - sndNxt[e] + 1] = stream[e][sndNxt[e] + (n - sndNxt[e] + 1)]
      BY <1>0, <3>2 DEF SenderOK, Remains, Follows
    <3>5. sndQueue[e][n - sndNxt[e] + 1] \in Seg
      BY <1>1, <3>2, ElementOfSeq
    <3>6. moved[n] = sndQueue[e][n - sndNxt[e] + 1]
      BY <3>1
    <3>7. n < Len(stream[e])
      BY <1>2, <1>3, <3>2
    <3> QED
      BY <3>2, <3>4, <3>5, <3>6, <3>7
  <2> QED
    BY <2>1 DEF Copies, IsBuf
<1>6. /\ IsBuf(again)
      /\ \A n \in DOMAIN again : n < sndNxt[e] + k
      /\ Copies(again, stream[e])
  BY <1>0, <1>1, <1>2, <1>3 DEF Only, Copies, SenderOK, IsBuf
<1> HIDE DEF moved, again
<1>7. ASSUME NEW x \in Ends
      PROVE  /\ sndNxt'[x] = IF x = e THEN sndNxt[e] + k ELSE sndNxt[x]
             /\ sndNxt[x] <= sndNxt'[x] /\ sndNxt[x] \in Nat /\ sndNxt'[x] \in Nat
             /\ sndBuf'[x] = IF x = e THEN Both(sndBuf[e], moved) ELSE sndBuf[x]
             /\ sndQueue'[x] = IF x = e THEN SubSeq(sndQueue[e], k + 1, Len(sndQueue[e]))
                               ELSE sndQueue[x]
             /\ acklist'[x] = IF x = e THEN {} ELSE acklist[x]
  <2>1. sndNxt[x] \in Nat /\ sndNxt'[x] = IF x = e THEN sndNxt[e] + k ELSE sndNxt[x]
    BY <1>0, <1>4 DEF TypeOK
  <2>2. sndNxt[x] <= sndNxt'[x] /\ sndNxt'[x] \in Nat
    BY <1>3, <2>1
  <2>3. DOMAIN sndBuf = Ends /\ DOMAIN sndQueue = Ends /\ DOMAIN acklist = Ends
    BY <1>0 DEF TypeOK
  <2> QED
    BY <1>4, <2>1, <2>2, <2>3
<1>b. /\ DOMAIN Both(sndBuf[e], moved) = DOMAIN sndBuf[e] \cup DOMAIN moved
      /\ IsBuf(Both(sndBuf[e], moved))
  BY <1>1, <1>5, BothProps
<1>8. TypeOK'
  <2>1. DOMAIN sndBuf' = Ends /\ DOMAIN sndQueue = Ends
    BY <1>0, <1>4 DEF TypeOK
  <2>2. ASSUME NEW x \in Ends
        PROVE  /\ IsBuf(sndBuf'[x])
    <3>1. IsBuf(sndBuf[x])
      BY <1>0, Types
    <3>2. CASE x = e
      <4>1. sndBuf'[x] = Both(sndBuf[e], moved)
        BY <1>7, <3>2
      <4> QED
        BY <1>b, <4>1
    <3>3. CASE x # e
      BY <1>7, <3>1, <3>3
    <3> QED
      BY <3>2, <3>3
  <2>3. sndQueue' \in [Ends -> Seq(Seg)]
    <3>1. SubSeq(sndQueue[e], k + 1, Len(sndQueue[e])) \in Seq(Seg)
      BY <1>0, <1>1, <1>2, <1>3, FollowsDrop DEF SenderOK, Remains
    <3> QED
      BY <1>0, <1>4, <3>1 DEF TypeOK
  <2>4. sndNxt' \in [Ends -> Nat] /\ acklist' \in [Ends -> SUBSET Nat]
        /\ tell' \in [Ends -> BOOLEAN]
    BY <1>0, <1>3, <1>4 DEF TypeOK
  <2>5. net' \subseteq Message
    <3>1. /\ Unused(e) \in 0..RcvWnd /\ rcvNxt[e] \in Nat /\ acklist[e] \subseteq Nat
      BY <1>0, UnusedProps, Types, WndAssumption
    <3>2. Acks(e) \subseteq Message
      BY <1>0, <3>1 DEF Acks, Message
    <3>3. Probe(e, "wask") \subseteq Message /\ Probe(e, "wins") \subseteq Message
      BY <1>0, <3>1 DEF Probe, Message
    <3>4. Pushes(e, moved) \subseteq Message
      BY <1>0, <1>5, PushesOK
    <3>5. Pushes(e, again) \subseteq Message
      BY <1>0, <1>6, PushesOK
    <3>6. net \subseteq Message
      BY <1>0 DEF TypeOK
    <3> QED
      BY <1>4, <3>2, <3>3, <3>4, <3>5, <3>6
  <2> QED
    BY <1>0, <1>4, <2>1, <2>2, <2>3, <2>4, <2>5 DEF TypeOK
<1>9. ASSUME NEW x \in Ends PROVE SenderOK(x)'
  <2>0. SenderOK(x)
    BY DEF IInv
  <2>1. CASE x # e
    BY <1>4, <1>7, <2>0, <2>1 DEF SenderOK
  <2>2. CASE x = e
    <3>1. Remains(SubSeq(sndQueue[e], k + 1, Len(sndQueue[e])), stream[e], sndNxt[e] + k)
      BY <1>0, <1>1, <1>2, <1>3, RemainsDrop DEF SenderOK
    <3>2. /\ Copies(Both(sndBuf[e], moved), stream[e])
          /\ DOMAIN Both(sndBuf[e], moved) = DOMAIN sndBuf[e] \cup DOMAIN moved
      BY <1>0, <1>1, <1>5, BothProps DEF SenderOK
    <3>3. \A n \in DOMAIN sndBuf[e] : n < sndNxt[e] + k
      <4> TAKE n \in DOMAIN sndBuf[e]
      <4>1. n \in Nat /\ n < sndNxt[e]
        BY <1>0, <1>1 DEF SenderOK, IsBuf
      <4> QED
        BY <1>2, <1>3, <4>1
    <3> QED
      BY <1>4, <1>5, <1>7, <2>2, <3>1, <3>2, <3>3 DEF SenderOK
  <2> QED
    BY <2>1, <2>2
<1>10. ASSUME NEW x \in Ends PROVE ReceiverOK(x)' /\ AcksOK(x)'
  <2>0. ReceiverOK(x) /\ AcksOK(x) /\ Peer(x) \in Ends
    BY PeerProps DEF IInv
  <2>1. AcksOK(x)'
    BY <1>4, <1>7, <2>0 DEF AcksOK, Received
  <2>2. /\ sndNxt[Peer(x)] <= sndNxt'[Peer(x)]
        /\ sndNxt[Peer(x)] \in Nat /\ sndNxt'[Peer(x)] \in Nat /\ rcvNxt[x] \in Nat
        /\ DOMAIN rcvBuf[x] \subseteq Nat
    BY <1>0, <1>7, <2>0, Types
  <2>3. Window(rcvQueue[x], rcvBuf[x], stream[Peer(x)], Len(delivered[x]), rcvNxt[x],
               sndNxt'[Peer(x)])
    <3>1. Window(rcvQueue[x], rcvBuf[x], stream[Peer(x)], Len(delivered[x]), rcvNxt[x],
                 sndNxt[Peer(x)])
      BY <2>0 DEF ReceiverOK
    <3>2. /\ rcvNxt[x] <= sndNxt'[Peer(x)]
          /\ \A n \in DOMAIN rcvBuf[x] : n < sndNxt'[Peer(x)]
      <4>1. /\ rcvNxt[x] <= sndNxt[Peer(x)]
            /\ \A n \in DOMAIN rcvBuf[x] : n < sndNxt[Peer(x)]
        BY <3>1 DEF Window
      <4>2. rcvNxt[x] <= sndNxt'[Peer(x)]
        BY <2>2, <4>1
      <4>3. ASSUME NEW n \in DOMAIN rcvBuf[x] PROVE n < sndNxt'[Peer(x)]
        <5>1. n \in Nat /\ n < sndNxt[Peer(x)]
          BY <2>2, <4>1
        <5> QED
          BY <2>2, <5>1
      <4> QED
        BY <4>2, <4>3
    <3> QED
      BY <3>1, <3>2 DEF Window
  <2> QED
    BY <1>4, <2>0, <2>1, <2>3 DEF ReceiverOK
<1>11. ASSUME NEW m \in net' PROVE DatagramOK(m)'
  <2>1. CASE m \in net
    <3>1. m \in Message /\ DatagramOK(m)
      BY <1>0, <2>1 DEF IInv, TypeOK
    <3>2. Peer(m.to) \in Ends /\ (m.cmd = "push" => m.sn \in Nat)
      BY <3>1, PeerProps DEF Message
    <3>3. m.cmd = "push" => m.sn < sndNxt'[Peer(m.to)]
      <4> SUFFICES ASSUME m.cmd = "push" PROVE m.sn < sndNxt'[Peer(m.to)]
        OBVIOUS
      <4>1. m.sn < sndNxt[Peer(m.to)] /\ m.sn \in Nat
        BY <3>1, <3>2 DEF DatagramOK
      <4> QED
        BY <1>7, <3>2, <4>1
    <3> QED
      BY <1>4, <3>1, <3>3 DEF DatagramOK, Received
  <2>2. CASE m \in Acks(e)
    <3>1. PICK n \in acklist[e] : m = [cmd |-> "ack", to |-> Peer(e), wnd |-> Unused(e),
                                       una |-> rcvNxt[e], sn |-> n]
      BY <2>2 DEF Acks
    <3>2. Received(e, n) /\ rcvNxt[e] \in Nat
      BY <1>0, Types DEF IInv, AcksOK
    <3> QED
      BY <1>4, <3>1, <3>2, PeerProps DEF DatagramOK, Received
  <2>3. CASE m \in Pushes(e, moved) \cup Pushes(e, again)
    <3>1. /\ m.to = Peer(e) /\ m.una = rcvNxt[e] /\ m.cmd = "push"
          /\ m.sn < sndNxt[e] + k /\ m.seg = stream[e][m.sn + 1]
      <4>1. CASE m \in Pushes(e, moved)
        BY <1>0, <1>5, <4>1, PushesOK
      <4>2. CASE m \in Pushes(e, again)
        BY <1>0, <1>6, <4>2, PushesOK
      <4> QED
        BY <2>3, <4>1, <4>2
    <3>2. Peer(m.to) = e /\ rcvNxt[e] \in Nat
      BY <1>0, <3>1, PeerProps, Types
    <3>3. m.sn < sndNxt'[e] /\ m.seg = stream'[e][m.sn + 1] /\ rcvNxt' = rcvNxt
      BY <1>4, <1>7, <3>1
    <3>4. m.una <= rcvNxt'[e]
      BY <3>1, <3>2, <3>3
    <3> QED
      BY <3>1, <3>2, <3>3, <3>4 DEF DatagramOK
  <2>4. CASE m \in Probe(e, "wask") \cup Probe(e, "wins")
    <3>1. m.to = Peer(e) /\ m.una = rcvNxt[e] /\ m.cmd \in {"wask", "wins"}
      BY <2>4 DEF Probe
    <3>2. Peer(m.to) = e /\ rcvNxt[e] \in Nat
      BY <1>0, <3>1, PeerProps, Types
    <3> QED
      BY <1>4, <3>1, <3>2 DEF DatagramOK
  <2> QED
    BY <1>4, <2>1, <2>2, <2>3, <2>4
<1>12. NoLossAfterAck'
  <2> SUFFICES ASSUME NEW x \in Ends, NEW n \in 0..(sndNxt'[x] - 1),
                      n \notin DOMAIN sndBuf'[x]
               PROVE  Received(Peer(x), n)'
    BY DEF NoLossAfterAck
  <2>1. n \in 0..(sndNxt[x] - 1) /\ n \notin DOMAIN sndBuf[x]
    <3>1. CASE x # e
      BY <1>7, <3>1
    <3>2. CASE x = e
      <4>1. n \notin DOMAIN sndBuf[e] /\ n \notin DOMAIN moved
        <5>1. sndBuf'[x] = Both(sndBuf[e], moved)
          BY <1>7, <3>2
        <5> QED
          BY <1>b, <5>1
      <4>2. n \notin sndNxt[e]..(sndNxt[e] + k - 1)
        BY <4>1 DEF moved
      <4>3. sndNxt'[x] = sndNxt[x] + k
        BY <1>7, <3>2
      <4> QED
        BY <1>2, <1>3, <3>2, <4>1, <4>2, <4>3
    <3> QED
      BY <3>1, <3>2
  <2> QED
    BY <1>4, <2>1 DEF IInv, NoLossAfterAck, Received
<1> QED
  BY <1>8, <1>9, <1>10, <1>11, <1>12 DEF IInv

\* Keeping a segment that arrived in the window.
LEMMA StoreProps ==
    ASSUME NEW q, NEW buf, NEW s, NEW d, NEW nxt \in Nat, NEW top, NEW m,
           IsBuf(buf), Window(q, buf, s, d, nxt, top),
           m.sn \in Nat, m.seg \in Seg, nxt <= m.sn, m.sn < top,
           m.sn < Len(s), m.seg = s[m.sn + 1]
    PROVE  LET kept == Store(buf, m)
           IN  /\ DOMAIN kept = DOMAIN buf \cup {m.sn}
               /\ IsBuf(kept)
               /\ Window(q, kept, s, d, nxt, top)
<1>1. CASE m.sn \in DOMAIN buf
  BY <1>1 DEF Store
<1>2. CASE m.sn \notin DOMAIN buf
  <2> DEFINE kept == Store(buf, m)
  <2>1. /\ DOMAIN kept = DOMAIN buf \cup {m.sn}
        /\ \A n \in DOMAIN kept : kept[n] = IF n = m.sn THEN m.seg ELSE buf[n]
        /\ IsBuf(kept)
    BY <1>2 DEF Store, IsBuf
  <2>2. Copies(kept, s)
    BY <2>1 DEF Window, Copies
  <2> QED
    BY <2>1, <2>2 DEF Window
<1> QED
  BY <1>1, <1>2

\* What a datagram does to the receive side of the end it reaches.
LEMMA ReceiveStep ==
    ASSUME TypeOK, NEW m \in Message, DatagramOK(m),
           ReceiverOK(m.to), AcksOK(m.to), SenderOK(Peer(m.to)),
           ReceivePush(m) \/ ReceiveOther(m),
           UNCHANGED <<stream, sndNxt>>
    PROVE  /\ rcvQueue' \in [Ends -> Seq(Seg)] /\ DOMAIN rcvBuf' = Ends
           /\ rcvNxt' \in [Ends -> Nat] /\ acklist' \in [Ends -> SUBSET Nat]
           /\ tell' \in [Ends -> BOOLEAN] /\ delivered' = delivered
           /\ IsBuf(rcvBuf'[m.to])
           /\ ReceiverOK(m.to)' /\ AcksOK(m.to)'
           /\ \A x \in Ends : x # m.to => /\ rcvQueue'[x] = rcvQueue[x]
                                          /\ rcvBuf'[x] = rcvBuf[x]
                                          /\ rcvNxt'[x] = rcvNxt[x]
                                          /\ acklist'[x] = acklist[x]
           /\ rcvNxt[m.to] <= rcvNxt'[m.to]
           /\ \A n \in Nat : Received(m.to, n) => Received(m.to, n)'
<1> DEFINE e == m.to
           p == Peer(e)
<1>0. e \in Ends /\ p \in Ends
  BY PeerProps DEF Message
<1>1. /\ rcvQueue[e] \in Seq(Seg) /\ stream[p] \in Seq(Seg)
      /\ IsBuf(rcvBuf[e])
      /\ Len(delivered[e]) \in Nat /\ rcvNxt[e] \in Nat /\ sndNxt[p] \in Nat
      /\ acklist[e] \subseteq Nat
  BY <1>0, Types
<1>2. Window(rcvQueue[e], rcvBuf[e], stream[p], Len(delivered[e]), rcvNxt[e], sndNxt[p])
  BY DEF ReceiverOK
<1>3. CASE UNCHANGED <<rcvBuf, rcvQueue, rcvNxt, acklist, delivered>> /\ tell' \in [Ends -> BOOLEAN]
  <2>1. ReceiverOK(e)' /\ AcksOK(e)' /\ \A n \in Nat : Received(e, n) => Received(e, n)'
    BY <1>3 DEF ReceiverOK, AcksOK, Received
  <2>2. /\ rcvQueue' \in [Ends -> Seq(Seg)] /\ DOMAIN rcvBuf' = Ends
        /\ rcvNxt' \in [Ends -> Nat] /\ acklist' \in [Ends -> SUBSET Nat]
    BY <1>3 DEF TypeOK
  <2>3. rcvNxt[e] <= rcvNxt'[e]
    BY <1>1, <1>3
  <2> QED
    BY <1>1, <1>3, <2>1, <2>2, <2>3
<1>4. CASE ReceiveOther(m)
  BY <1>3, <1>4 DEF ReceiveOther, TypeOK
<1>5. CASE ReceivePush(m)
  <2>1. /\ m.sn \in Nat /\ m.seg \in Seg /\ m.cmd = "push"
        /\ UNCHANGED <<tell, delivered>> /\ tell' \in [Ends -> BOOLEAN]
    BY <1>5 DEF ReceivePush, Message, TypeOK
  <2>2. CASE RefusePush(m)
    BY <1>3, <2>1, <2>2 DEF RefusePush
  <2>3. CASE RepeatPush(m)
    <3>1. /\ m.sn < rcvNxt[e] /\ UNCHANGED <<rcvBuf, rcvQueue, rcvNxt>>
          /\ acklist' = [acklist EXCEPT ![e] = @ \cup {m.sn}]
      BY <2>3 DEF RepeatPush
    <3>2. acklist' \in [Ends -> SUBSET Nat]
      BY <1>0, <2>1, <3>1 DEF TypeOK
    <3>3. /\ acklist'[e] = acklist[e] \cup {m.sn}
          /\ \A x \in Ends : x # e => acklist'[x] = acklist[x]
      BY <1>0, <3>1 DEF TypeOK
    <3>4. AcksOK(e)'
      BY <3>1, <3>3 DEF AcksOK, Received
    <3>5. ReceiverOK(e)' /\ \A n \in Nat : Received(e, n) => Received(e, n)'
      BY <2>1, <3>1 DEF ReceiverOK, Received
    <3>6. /\ rcvQueue' \in [Ends -> Seq(Seg)] /\ DOMAIN rcvBuf' = Ends
          /\ rcvNxt' \in [Ends -> Nat]
      BY <3>1 DEF TypeOK
    <3>7. rcvNxt[e] <= rcvNxt'[e]
      BY <1>1, <3>1
    <3> QED
      BY <1>1, <2>1, <3>1, <3>2, <3>3, <3>4, <3>5, <3>6, <3>7
  <2>4. CASE AdmitPush(m)
    <3> DEFINE buf == Store(rcvBuf[e], m)
    <3>1. rcvNxt[e] <= m.sn /\ acklist' = [acklist EXCEPT ![e] = @ \cup {m.sn}]
      BY <2>4 DEF AdmitPush
    <3>2. PICK k \in 0..RcvWnd :
             /\ IsRun(buf, rcvNxt[e], Unused(e), k)
             /\ rcvQueue' = [rcvQueue EXCEPT ![e] = @ \o Run(buf, rcvNxt[e], k)]
             /\ rcvBuf' = [rcvBuf EXCEPT ![e] =
                             From(buf, rcvNxt[e] + k)]
             /\ rcvNxt' = [rcvNxt EXCEPT ![e] = @ + k]
      BY <2>4 DEF AdmitPush
    <3>3. m.sn < sndNxt[p] /\ m.seg = stream[p][m.sn + 1]
      BY <2>1 DEF DatagramOK
    <3>4. m.sn < Len(stream[p])
      <4>1. /\ Len(sndQueue[p]) \in Nat /\ Len(stream[p]) \in Nat
            /\ sndNxt[p] + Len(sndQueue[p]) = Len(stream[p])
        BY <1>0, Types DEF SenderOK, Remains
      <4> QED
        BY <1>1, <2>1, <3>3, <4>1
    <3>5. /\ DOMAIN buf = DOMAIN rcvBuf[e] \cup {m.sn}
          /\ IsBuf(buf)
          /\ Window(rcvQueue[e], buf, stream[p], Len(delivered[e]), rcvNxt[e], sndNxt[p])
      BY <1>1, <1>2, <2>1, <3>1, <3>3, <3>4, StoreProps
    <3> HIDE DEF buf
    <3> DEFINE r    == Run(buf, rcvNxt[e], k)
               left == From(buf, rcvNxt[e] + k)
    <3>6. Unused(e) \in Int /\ k \in Nat /\ IsRun(buf, rcvNxt[e], Unused(e), k)
      BY <1>0, <3>2, UnusedProps, WndAssumption
    <3>7. /\ rcvQueue[e] \o r \in Seq(Seg)
          /\ IsBuf(left)
          /\ Window(rcvQueue[e] \o r, left, stream[p], Len(delivered[e]),
                    rcvNxt[e] + k, sndNxt[p])
          /\ \A n \in Nat : n < rcvNxt[e] \/ n \in DOMAIN buf =>
                            n < rcvNxt[e] + k \/ n \in DOMAIN left
      BY <1>1, <3>5, <3>6, RunMoves DEF r, left
    <3> HIDE DEF r, left
    <3>8. /\ rcvQueue' = [rcvQueue EXCEPT ![e] = @ \o r]
          /\ rcvBuf' = [rcvBuf EXCEPT ![e] = left]
          /\ rcvNxt' = [rcvNxt EXCEPT ![e] = @ + k]
      BY <3>2 DEF r, left
    <3>9. /\ rcvQueue' \in [Ends -> Seq(Seg)] /\ DOMAIN rcvBuf' = Ends
          /\ rcvNxt' \in [Ends -> Nat] /\ acklist' \in [Ends -> SUBSET Nat]
      <4>1. /\ rcvQueue \in [Ends -> Seq(Seg)] /\ DOMAIN rcvBuf = Ends
            /\ rcvNxt \in [Ends -> Nat] /\ acklist \in [Ends -> SUBSET Nat]
        BY DEF TypeOK
      <4>2. rcvNxt[e] + k \in Nat /\ acklist[e] \cup {m.sn} \in SUBSET Nat
        BY <1>1, <2>1, <3>6
      <4> QED
        BY <1>0, <3>1, <3>7, <3>8, <4>1, <4>2
    <3>10. /\ rcvQueue'[e] = rcvQueue[e] \o r /\ rcvBuf'[e] = left
           /\ rcvNxt'[e] = rcvNxt[e] + k /\ acklist'[e] = acklist[e] \cup {m.sn}
           /\ \A x \in Ends : x # e => /\ rcvQueue'[x] = rcvQueue[x]
                                       /\ rcvBuf'[x] = rcvBuf[x]
                                       /\ rcvNxt'[x] = rcvNxt[x]
                                       /\ acklist'[x] = acklist[x]
      BY <1>0, <3>1, <3>8 DEF TypeOK
    <3>11. ReceiverOK(e)'
      BY <2>1, <3>7, <3>10 DEF ReceiverOK
    <3>12. \A n \in Nat : Received(e, n) \/ n = m.sn => Received(e, n)'
      BY <3>5, <3>7, <3>10 DEF Received
    <3>13. AcksOK(e)'
      BY <1>1, <2>1, <3>10, <3>12 DEF AcksOK
    <3> QED
      BY <1>1, <2>1, <3>7, <3>9, <3>10, <3>11, <3>12, <3>13
  <2> QED
    BY <1>5, <2>2, <2>3, <2>4 DEF ReceivePush
<1> QED
  BY <1>4, <1>5

\* What a datagram does to the send side of the end it reaches: only segments
\* that the peer holds leave snd_buf.
LEMMA AckStep ==
    ASSUME TypeOK, NEW m \in Message, DatagramOK(m), SenderOK(m.to),
           Acknowledge(m)
    PROVE  /\ UNCHANGED <<stream, msgs, sndQueue, sndNxt>>
           /\ DOMAIN sndBuf' = Ends /\ IsBuf(sndBuf'[m.to])
           /\ sndUna' \in [Ends -> Nat] /\ rmtWnd' \in [Ends -> 0..RcvWnd]
           /\ SenderOK(m.to)'
           /\ \A x \in Ends : x # m.to => sndBuf'[x] = sndBuf[x]
           /\ \A n \in Nat : n \in DOMAIN sndBuf[m.to] /\ n \notin DOMAIN sndBuf'[m.to]
                                => Received(Peer(m.to), n)
<1> DEFINE e == m.to
           p == Peer(e)
           left == AfterUna(sndBuf[e], m.una)
           una  == Shrink(left, sndNxt[e])
           rest == IF m.cmd = "ack" /\ una <= m.sn /\ m.sn < sndNxt[e]
                   THEN AfterAck(left, m.sn) ELSE left
<1>0. e \in Ends /\ p \in Ends /\ m.una \in Nat /\ m.wnd \in 0..RcvWnd
  BY PeerProps DEF Message
<1>1. /\ IsBuf(sndBuf[e]) /\ sndNxt[e] \in Nat /\ rcvNxt[p] \in Nat
      /\ DOMAIN sndBuf[e] \subseteq Nat
  BY <1>0, Types
<1>2. /\ rmtWnd' = [rmtWnd EXCEPT ![e] = m.wnd]
      /\ sndBuf' = [sndBuf EXCEPT ![e] = rest]
      /\ sndUna' = [sndUna EXCEPT ![e] = Shrink(rest, sndNxt[e])]
      /\ UNCHANGED <<stream, msgs, sndQueue, sndNxt>>
  BY DEF Acknowledge
<1> HIDE DEF una
<1>3. /\ DOMAIN left \subseteq DOMAIN sndBuf[e] /\ IsBuf(left)
      /\ \A n \in DOMAIN left : left[n] = sndBuf[e][n]
      /\ \A n \in DOMAIN sndBuf[e] : n \in DOMAIN left \/ n < m.una
  BY <1>0, <1>1 DEF AfterUna, From, Only, IsBuf
<1>4. /\ DOMAIN AfterAck(left, m.sn) = DOMAIN left \ {m.sn} /\ IsBuf(AfterAck(left, m.sn))
      /\ \A n \in DOMAIN left \ {m.sn} : AfterAck(left, m.sn)[n] = left[n]
  BY <1>3 DEF AfterAck, Only, IsBuf
<1> HIDE DEF left
<1>5. /\ DOMAIN rest \subseteq DOMAIN sndBuf[e] /\ IsBuf(rest)
      /\ \A n \in DOMAIN rest : rest[n] = sndBuf[e][n]
      /\ \A n \in DOMAIN sndBuf[e] :
            n \in DOMAIN rest \/ n < m.una \/ (m.cmd = "ack" /\ n = m.sn)
  BY <1>3, <1>4
<1> HIDE DEF rest
<1>6. \A n \in Nat : n \in DOMAIN sndBuf[e] /\ n \notin DOMAIN rest => Received(p, n)
  <2> TAKE n \in Nat
  <2> HAVE n \in DOMAIN sndBuf[e] /\ n \notin DOMAIN rest
  <2>1. CASE n < m.una
    BY <1>0, <1>1, <2>1 DEF DatagramOK, Received
  <2>2. CASE m.cmd = "ack" /\ n = m.sn
    BY <2>2 DEF DatagramOK
  <2> QED
    BY <1>5, <2>1, <2>2
<1>7. /\ sndBuf'[e] = rest /\ DOMAIN sndBuf' = Ends
      /\ \A x \in Ends : x # e => sndBuf'[x] = sndBuf[x]
  BY <1>0, <1>2 DEF TypeOK
<1>8. sndUna' \in [Ends -> Nat]
  <2>1. Shrink(rest, sndNxt[e]) \in Nat
    BY <1>1, <1>5, ShrinkProps DEF IsBuf
  <2> QED
    BY <1>2, <2>1 DEF TypeOK
<1>9. rmtWnd' \in [Ends -> 0..RcvWnd]
  BY <1>0, <1>2 DEF TypeOK
<1>10. SenderOK(e)'
  BY <1>2, <1>5, <1>7 DEF SenderOK, Copies
<1> QED
  BY <1>2, <1>5, <1>6, <1>7, <1>8, <1>9, <1>10

\* ikcp_input, whether or not a copy of the datagram stays in flight.
LEMMA InputInv ==
    ASSUME IInv, NEW m \in net, Input(m), net' \subseteq net,
           dups' \in 0..MaxDups, losses' \in 0..MaxLosses
    PROVE  IInv'
<1> DEFINE e == m.to
           p == Peer(e)
<1>0. TypeOK /\ m \in Message /\ DatagramOK(m)
  BY DEF IInv, TypeOK
<1>1. /\ e \in Ends /\ p \in Ends
      /\ SenderOK(e) /\ SenderOK(p) /\ ReceiverOK(e) /\ AcksOK(e)
  BY <1>0, PeerProps DEF IInv, Message
<1>2. Acknowledge(m) /\ (ReceivePush(m) \/ ReceiveOther(m))
  BY DEF Input
<1>3. /\ UNCHANGED <<stream, msgs, sndQueue, sndNxt>>
      /\ DOMAIN sndBuf' = Ends /\ IsBuf(sndBuf'[e])
      /\ sndUna' \in [Ends -> Nat] /\ rmtWnd' \in [Ends -> 0..RcvWnd]
      /\ SenderOK(e)'
      /\ \A x \in Ends : x # e => sndBuf'[x] = sndBuf[x]
      /\ \A n \in Nat : n \in DOMAIN sndBuf[e] /\ n \notin DOMAIN sndBuf'[e]
                           => Received(p, n)
  BY <1>0, <1>1, <1>2, AckStep
<1>4. /\ rcvQueue' \in [Ends -> Seq(Seg)] /\ DOMAIN rcvBuf' = Ends
      /\ rcvNxt' \in [Ends -> Nat] /\ acklist' \in [Ends -> SUBSET Nat]
      /\ tell' \in [Ends -> BOOLEAN] /\ delivered' = delivered
      /\ IsBuf(rcvBuf'[e])
      /\ ReceiverOK(e)' /\ AcksOK(e)'
      /\ \A x \in Ends : x # e => /\ rcvQueue'[x] = rcvQueue[x]
                                  /\ rcvBuf'[x] = rcvBuf[x]
                                  /\ rcvNxt'[x] = rcvNxt[x]
                                  /\ acklist'[x] = acklist[x]
      /\ rcvNxt[e] <= rcvNxt'[e]
      /\ \A n \in Nat : Received(e, n) => Received(e, n)'
  BY <1>0, <1>1, <1>2, <1>3, ReceiveStep
<1> HIDE DEF e, p
<1>5. ASSUME NEW x \in Ends
      PROVE  /\ rcvNxt[x] \in Nat /\ rcvNxt'[x] \in Nat /\ rcvNxt[x] <= rcvNxt'[x]
             /\ \A n \in Nat : Received(x, n) => Received(x, n)'
  <2>1. rcvNxt[x] \in Nat /\ rcvNxt'[x] \in Nat
    BY <1>0, <1>4, Types
  <2>2. CASE x = e
    BY <1>4, <2>1, <2>2
  <2>3. CASE x # e
    BY <1>4, <2>1, <2>3 DEF Received
  <2> QED
    BY <2>2, <2>3
<1>6. TypeOK'
  <2>1. ASSUME NEW x \in Ends PROVE IsBuf(sndBuf'[x]) /\ IsBuf(rcvBuf'[x])
    <3>1. IsBuf(sndBuf[x]) /\ IsBuf(rcvBuf[x])
      BY <1>0, Types
    <3> QED
      BY <1>3, <1>4, <3>1
  <2> QED
    BY <1>0, <1>3, <1>4, <2>1 DEF TypeOK
<1>7. ASSUME NEW x \in Ends PROVE SenderOK(x)'
  <2>1. CASE x = e
    BY <1>3, <2>1
  <2>2. CASE x # e
    BY <1>3, <2>2 DEF IInv, SenderOK
  <2> QED
    BY <2>1, <2>2
<1>8. ASSUME NEW x \in Ends PROVE ReceiverOK(x)' /\ AcksOK(x)'
  <2>1. CASE x = e
    BY <1>4, <2>1
  <2>2. CASE x # e
    <3>1. ReceiverOK(x) /\ AcksOK(x)
      BY DEF IInv
    <3>2. /\ rcvQueue'[x] = rcvQueue[x] /\ rcvBuf'[x] = rcvBuf[x]
          /\ rcvNxt'[x] = rcvNxt[x] /\ acklist'[x] = acklist[x]
          /\ delivered' = delivered /\ stream' = stream /\ sndNxt' = sndNxt
      BY <1>3, <1>4, <2>2
    <3> QED
      BY <3>1, <3>2 DEF ReceiverOK, AcksOK, Received
  <2> QED
    BY <2>1, <2>2
<1>9. ASSUME NEW d \in net' PROVE DatagramOK(d)'
  <2>1. d \in Message /\ DatagramOK(d)
    BY <1>0 DEF IInv, TypeOK
  <2>2. /\ Peer(d.to) \in Ends /\ d.una \in Nat
        /\ d.cmd \in {"push", "ack"} => d.sn \in Nat
    BY <2>1, PeerProps DEF Message
  <2>3. d.una <= rcvNxt'[Peer(d.to)]
    <3>1. d.una <= rcvNxt[Peer(d.to)]
      BY <2>1 DEF DatagramOK
    <3> QED
      BY <1>5, <2>2, <3>1
  <2>4. d.cmd = "ack" => Received(Peer(d.to), d.sn)'
    BY <1>5, <2>1, <2>2 DEF DatagramOK
  <2>5. d.cmd = "push" => d.sn < sndNxt'[Peer(d.to)]
                          /\ d.seg = stream'[Peer(d.to)][d.sn + 1]
    BY <1>3, <2>1 DEF DatagramOK
  <2> QED
    BY <2>3, <2>4, <2>5 DEF DatagramOK
<1>10. NoLossAfterAck'
  <2> SUFFICES ASSUME NEW x \in Ends, NEW n \in 0..(sndNxt'[x] - 1),
                      n \notin DOMAIN sndBuf'[x]
               PROVE  Received(Peer(x), n)'
    BY DEF NoLossAfterAck
  <2>1. n \in 0..(sndNxt[x] - 1) /\ n \in Nat /\ Peer(x) \in Ends
    <3>1. sndNxt[x] \in Nat /\ sndNxt'[x] = sndNxt[x]
      BY <1>0, <1>3, Types
    <3> QED
      BY <3>1, PeerProps
  <2>2. Received(Peer(x), n)
    <3>1. CASE n \notin DOMAIN sndBuf[x]
      BY <2>1, <3>1 DEF IInv, NoLossAfterAck
    <3>2. CASE n \in DOMAIN sndBuf[x]
      <4>1. x = e
        BY <1>3, <3>2
      <4> QED
        BY <1>3, <2>1, <3>2, <4>1 DEF p
    <3> QED
      BY <3>1, <3>2
  <2> QED
    BY <1>5, <2>1, <2>2
<1> QED
  BY <1>6, <1>7, <1>8, <1>9, <1>10 DEF IInv

\* ikcp_recv.
LEMMA RecvInv ==
    ASSUME IInv, NEW e \in Ends, Recv(e)
    PROVE  IInv'
<1> DEFINE p == Peer(e)
           q == rcvQueue[e]
           s == stream[p]
<1>0. TypeOK /\ p \in Ends /\ ReceiverOK(e)
  BY PeerProps DEF IInv
<1>1. /\ q \in Seq(Seg) /\ Len(q) \in Nat /\ s \in Seq(Seg)
      /\ delivered[e] \in Seq(Seg) /\ Len(delivered[e]) \in Nat
      /\ rcvNxt[e] \in Nat /\ sndNxt[p] \in Nat /\ IsBuf(rcvBuf[e])
  BY <1>0, Types
<1>2. /\ UNCHANGED <<stream, msgs, sndQueue, sndBuf, sndUna, sndNxt, rmtWnd,
                     acklist, net, dups, losses>>
      /\ tell' \in [Ends -> BOOLEAN]
  BY <1>0 DEF Recv, sndVars, netVars, TypeOK
<1>3. PICK c \in 1..Len(q), k \in 0..RcvWnd :
         /\ IsRun(rcvBuf[e], rcvNxt[e], RcvWnd - (Len(q) - c), k)
         /\ delivered' = [delivered EXCEPT ![e] = @ \o SubSeq(q, 1, c)]
         /\ rcvQueue' = [rcvQueue EXCEPT ![e] =
                SubSeq(@, c + 1, Len(@)) \o Run(rcvBuf[e], rcvNxt[e], k)]
         /\ rcvBuf' = [rcvBuf EXCEPT ![e] = From(@, rcvNxt[e] + k)]
         /\ rcvNxt' = [rcvNxt EXCEPT ![e] = @ + k]
  BY DEF Recv
<1> DEFINE taken == SubSeq(q, 1, c)
           kept  == SubSeq(q, c + 1, Len(q))
           r     == Run(rcvBuf[e], rcvNxt[e], k)
           left  == From(rcvBuf[e], rcvNxt[e] + k)
<1>4. c \in Nat /\ c \in 0..Len(q) /\ k \in Nat /\ RcvWnd - (Len(q) - c) \in Int
  BY <1>1, <1>3, WndAssumption
<1>5. /\ Follows(delivered[e], s, 0)
      /\ Window(q, rcvBuf[e], s, Len(delivered[e]), rcvNxt[e], sndNxt[p])
      /\ Follows(q, s, Len(delivered[e]))
  BY <1>0 DEF ReceiverOK, Window
<1>6. /\ taken \in Seq(Seg) /\ Len(taken) = c /\ Follows(taken, s, Len(delivered[e]))
      /\ kept \in Seq(Seg) /\ Len(kept) = Len(q) - c
      /\ Follows(kept, s, Len(delivered[e]) + c)
  <2> HIDE DEF q, s
  <2>1. taken \in Seq(Seg) /\ Len(taken) = c /\ Follows(taken, s, Len(delivered[e]))
    BY <1>1, <1>4, <1>5, FollowsTake
  <2>2. /\ kept \in Seq(Seg) /\ Len(kept) = Len(q) - c
        /\ Follows(kept, s, Len(delivered[e]) + c)
    BY <1>1, <1>4, <1>5, FollowsDrop
  <2> QED
    BY <2>1, <2>2
<1> HIDE DEF taken, kept
<1>7. /\ delivered[e] \o taken \in Seq(Seg)
      /\ Len(delivered[e] \o taken) = Len(delivered[e]) + c
      /\ Follows(delivered[e] \o taken, s, 0)
  <2> DEFINE d == delivered[e]
  <2>1. d \in Seq(Seg) /\ s \in Seq(Seg) /\ taken \in Seq(Seg) /\ Len(taken) = c
    BY <1>1, <1>6
  <2>2. Follows(d, s, 0) /\ Follows(taken, s, 0 + Len(d))
    BY <1>1, <1>5, <1>6
  <2> HIDE DEF s, d
  <2>3. /\ d \o taken \in Seq(Seg)
        /\ Len(d \o taken) = Len(d) + c
        /\ Follows(d \o taken, s, 0)
    BY <2>1, <2>2, FollowsExtend
  <2> QED
    BY <2>3 DEF d
<1>8. Window(kept, rcvBuf[e], s, Len(delivered[e]) + c, rcvNxt[e], sndNxt[p])
  <2>1. rcvNxt[e] = (Len(delivered[e]) + c) + Len(kept)
    <3>1. rcvNxt[e] = Len(delivered[e]) + Len(q)
      BY <1>5 DEF Window
    <3>2. /\ Len(q) \in Int /\ Len(delivered[e]) \in Int /\ c \in Int
          /\ Len(kept) = Len(q) - c
      BY <1>1, <1>4, <1>6
    <3> HIDE DEF q
    <3> QED
      BY <3>1, <3>2
  <2> QED
    BY <1>5, <1>6, <2>1 DEF Window
<1>9. /\ kept \o r \in Seq(Seg) /\ IsBuf(left)
      /\ Window(kept \o r, left, s, Len(delivered[e]) + c, rcvNxt[e] + k, sndNxt[p])
      /\ \A n \in Nat : n < rcvNxt[e] \/ n \in DOMAIN rcvBuf[e] =>
                        n < rcvNxt[e] + k \/ n \in DOMAIN left
  <2>1. Len(delivered[e]) + c \in Nat
    BY <1>1, <1>4
  <2> HIDE DEF s, q
  <2> QED
    BY <1>1, <1>3, <1>4, <1>6, <1>8, <2>1, RunMoves
<1> HIDE DEF r, left
<1>10. /\ delivered' = [delivered EXCEPT ![e] = @ \o taken]
       /\ rcvQueue' = [rcvQueue EXCEPT ![e] = kept \o r]
       /\ rcvBuf' = [rcvBuf EXCEPT ![e] = left]
       /\ rcvNxt' = [rcvNxt EXCEPT ![e] = @ + k]
  BY <1>0, <1>3 DEF taken, kept, r, left, TypeOK
<1>11. /\ delivered'[e] = delivered[e] \o taken /\ rcvQueue'[e] = kept \o r
       /\ rcvBuf'[e] = left /\ rcvNxt'[e] = rcvNxt[e] + k
       /\ \A x \in Ends : x # e => /\ delivered'[x] = delivered[x]
                                   /\ rcvQueue'[x] = rcvQueue[x]
                                   /\ rcvBuf'[x] = rcvBuf[x]
                                   /\ rcvNxt'[x] = rcvNxt[x]
  BY <1>0, <1>10 DEF TypeOK
<1>12. TypeOK'
  <2>1. /\ delivered' \in [Ends -> Seq(Seg)] /\ rcvQueue' \in [Ends -> Seq(Seg)]
        /\ rcvNxt' \in [Ends -> Nat] /\ DOMAIN rcvBuf' = Ends
    <3>1. /\ delivered \in [Ends -> Seq(Seg)] /\ rcvQueue \in [Ends -> Seq(Seg)]
          /\ rcvNxt \in [Ends -> Nat] /\ DOMAIN rcvBuf = Ends
      BY <1>0 DEF TypeOK
    <3>2. rcvNxt[e] + k \in Nat
      BY <1>1, <1>4
    <3> QED
      BY <1>7, <1>9, <1>10, <3>1, <3>2
  <2>2. ASSUME NEW x \in Ends PROVE IsBuf(rcvBuf'[x])
    <3>1. IsBuf(rcvBuf[x])
      BY <1>0, Types
    <3> QED
      BY <1>9, <1>11, <3>1
  <2> QED
    BY <1>0, <1>2, <2>1, <2>2 DEF TypeOK
<1>13. ASSUME NEW x \in Ends
       PROVE  /\ rcvNxt[x] \in Nat /\ rcvNxt'[x] \in Nat /\ rcvNxt[x] <= rcvNxt'[x]
              /\ \A n \in Nat : Received(x, n) => Received(x, n)'
  <2>1. rcvNxt[x] \in Nat /\ rcvNxt'[x] \in Nat
    BY <1>0, <1>12, Types DEF TypeOK
  <2>2. CASE x = e
    BY <1>4, <1>9, <1>11, <2>1, <2>2 DEF Received
  <2>3. CASE x # e
    BY <1>11, <2>1, <2>3 DEF Received
  <2> QED
    BY <2>2, <2>3
<1>14. ASSUME NEW x \in Ends PROVE ReceiverOK(x)'
  <2>1. CASE x = e
    <3>1. Len(delivered'[e]) = Len(delivered[e]) + c
      BY <1>7, <1>11
    <3> QED
      BY <1>2, <1>7, <1>9, <1>11, <2>1, <3>1 DEF ReceiverOK
  <2>2. CASE x # e
    BY <1>2, <1>11, <2>2 DEF IInv, ReceiverOK
  <2> QED
    BY <2>1, <2>2
<1>15. ASSUME NEW x \in Ends PROVE AcksOK(x)'
  <2>1. acklist[x] \subseteq Nat /\ AcksOK(x)
    BY <1>0, Types DEF IInv
  <2> QED
    BY <1>2, <1>13, <2>1 DEF AcksOK
<1>16. ASSUME NEW x \in Ends PROVE SenderOK(x)'
  BY <1>2 DEF IInv, SenderOK
<1>17. ASSUME NEW d \in net' PROVE DatagramOK(d)'
  <2>1. d \in Message /\ DatagramOK(d)
    BY <1>0, <1>2 DEF IInv, TypeOK
  <2>2. /\ Peer(d.to) \in Ends /\ d.una \in Nat
        /\ d.cmd = "ack" => d.sn \in Nat
    BY <2>1, PeerProps DEF Message
  <2>3. d.una <= rcvNxt'[Peer(d.to)]
    <3>1. d.una <= rcvNxt[Peer(d.to)]
      BY <2>1 DEF DatagramOK
    <3> QED
      BY <1>13, <2>2, <3>1
  <2>4. d.cmd = "ack" => Received(Peer(d.to), d.sn)'
    BY <1>13, <2>1, <2>2 DEF DatagramOK
  <2> QED
    BY <1>2, <2>1, <2>3, <2>4 DEF DatagramOK
<1>18. NoLossAfterAck'
  <2> SUFFICES ASSUME NEW x \in Ends, NEW n \in 0..(sndNxt[x] - 1),
                      n \notin DOMAIN sndBuf[x]
               PROVE  Received(Peer(x), n)'
    BY <1>2 DEF NoLossAfterAck
  <2>1. n \in Nat /\ Peer(x) \in Ends /\ Received(Peer(x), n)
    BY PeerProps DEF IInv, NoLossAfterAck
  <2> QED
    BY <1>13, <2>1
<1> QED
  BY <1>12, <1>14, <1>15, <1>16, <1>17, <1>18 DEF IInv

-----------------------------------------------------------------------------
(* The theorems. *)

\* Every step of the system preserves the invariant.
LEMMA NextInv == IInv /\ [Next]_vars => IInv'
<1> SUFFICES ASSUME IInv, [Next]_vars PROVE IInv'
  OBVIOUS
<1>0. TypeOK
  BY DEF IInv
<1>1. ASSUME NEW e \in Ends, NEW n \in FragCounts, Send(e, n) PROVE IInv'
  BY <1>1, SendInv
<1>2. ASSUME NEW e \in Ends, NEW cw \in 0..SndWnd, NEW ask \in BOOLEAN,
             NEW resend \in SUBSET DOMAIN sndBuf[e], Flush(e, cw, resend, ask)
      PROVE  IInv'
  BY <1>2, FlushInv
<1>3. ASSUME NEW e \in Ends, Recv(e) PROVE IInv'
  BY <1>3, RecvInv
<1>4. ASSUME NEW m \in net, Arrive(m) PROVE IInv'
  <2>1. Input(m) /\ net' \subseteq net /\ dups' \in 0..MaxDups /\ losses' \in 0..MaxLosses
    BY <1>0, <1>4 DEF Arrive, TypeOK
  <2> QED
    BY <2>1, InputInv
<1>5. ASSUME NEW m \in net, ArriveTwice(m) PROVE IInv'
  <2>1. Input(m) /\ net' \subseteq net /\ dups' \in 0..MaxDups /\ losses' \in 0..MaxLosses
    BY <1>0, <1>5, LoadAssumption DEF ArriveTwice, TypeOK
  <2> QED
    BY <2>1, InputInv
<1>6. ASSUME NEW m \in net, Lose(m) PROVE IInv'
  <2>1. /\ UNCHANGED <<stream, msgs, sndQueue, sndBuf, sndUna, sndNxt, rmtWnd, rcvBuf,
                       rcvQueue, rcvNxt, acklist, tell, delivered, dups>>
        /\ net' \subseteq net /\ losses' \in 0..MaxLosses
    BY <1>0, <1>6, LoadAssumption DEF Lose, TypeOK, sndVars, rcvVars
  <2>2. TypeOK'
    BY <1>0, <2>1 DEF TypeOK
  <2> QED
    BY <2>1, <2>2 DEF IInv, SenderOK, ReceiverOK, AcksOK, DatagramOK, Received,
                      NoLossAfterAck
<1>7. CASE UNCHANGED vars
  BY <1>0, <1>7 DEF vars, sndVars, rcvVars, netVars, IInv, TypeOK, SenderOK,
                    ReceiverOK, AcksOK, DatagramOK, Received, NoLossAfterAck
<1> QED
  BY <1>1, <1>2, <1>3, <1>4, <1>5, <1>6, <1>7 DEF Next

\* Whatever the windows and the network do, the inductive invariant holds.
THEOREM Inductive == Spec => []IInv
<1> QED
  BY InitInv, NextInv, PTL DEF Spec

\* Queues, buffers, counters and datagrams keep their types.
THEOREM TypeCorrect == Spec => []TypeOK
<1>1. IInv => TypeOK
  BY DEF IInv
<1> QED
  BY <1>1, Inductive, PTL

\* What ikcp_recv has returned is a prefix of what ikcp_send took, for every
\* window, load and number of losses and duplications.
THEOREM InOrderAlways == Spec => []InOrder
<1>1. IInv => InOrder
  <2> SUFFICES ASSUME IInv, NEW e \in Ends PROVE Prefix(delivered[e], stream[Peer(e)])
    BY DEF InOrder
  <2>1. /\ Len(delivered[e]) \in Nat /\ Len(stream[Peer(e)]) \in Nat
    BY PeerProps, Types DEF IInv
  <2>2. Follows(delivered[e], stream[Peer(e)], 0)
    BY DEF IInv, ReceiverOK
  <2>3. /\ 0 + Len(delivered[e]) <= Len(stream[Peer(e)])
        /\ \A i \in 1..Len(delivered[e]) : delivered[e][i] = stream[Peer(e)][0 + i]
    BY <2>2 DEF Follows
  <2> QED
    BY <2>1, <2>3 DEF Prefix
<1> QED
  BY <1>1, Inductive, PTL

\* A segment leaves snd_buf only once the peer holds it.
THEOREM NoLoss == Spec => []NoLossAfterAck
<1>1. IInv => NoLossAfterAck
  BY DEF IInv
<1> QED
  BY <1>1, Inductive, PTL

-----------------------------------------------------------------------------
(* The two ends and the network between them implement the pipe of module   *)
(* Pipe.                                                                     *)

LEMMA OtherIsPeer == \A e \in Ends : Pipe!Other(e) = Peer(e)
  BY DEF Pipe!Other, Peer

\* The numbers of an end, and what it holds of its peer's stream.
LEMMA Numbering ==
    ASSUME IInv, NEW e \in Ends
    PROVE  /\ sndNxt[e] \in Nat /\ Len(stream[e]) \in Nat /\ sndNxt[e] <= Len(stream[e])
           /\ DOMAIN sndBuf[e] \subseteq Nat /\ Peer(e) \in Ends /\ Peer(Peer(e)) = e
           /\ rcvNxt[e] \in Nat /\ DOMAIN rcvBuf[e] \subseteq Nat
           /\ \A n \in DOMAIN sndBuf[e] : n < sndNxt[e]
           /\ \A n \in Nat : Received(e, n) => n < Len(stream[Peer(e)])
  <1>1. TypeOK /\ SenderOK(e) /\ ReceiverOK(e) /\ Peer(e) \in Ends /\ SenderOK(Peer(e))
    BY PeerProps DEF IInv
  <1>2. ASSUME NEW x \in Ends, SenderOK(x)
        PROVE  /\ sndNxt[x] \in Nat /\ Len(stream[x]) \in Nat /\ sndNxt[x] <= Len(stream[x])
    <2>1. /\ sndNxt[x] \in Nat /\ Len(stream[x]) \in Nat /\ Len(sndQueue[x]) \in Nat
      BY <1>1, Types
    <2>2. sndNxt[x] + Len(sndQueue[x]) = Len(stream[x])
      BY <1>2 DEF SenderOK, Remains
    <2> QED  BY <2>1, <2>2
  <1>3. /\ DOMAIN sndBuf[e] \subseteq Nat /\ DOMAIN rcvBuf[e] \subseteq Nat /\ rcvNxt[e] \in Nat
    BY <1>1, Types
  <1>4. \A n \in DOMAIN sndBuf[e] : n < sndNxt[e]
    BY <1>1 DEF SenderOK
  <1>5. ASSUME NEW n \in Nat, Received(e, n)
        PROVE  n < Len(stream[Peer(e)])
    <2>1. /\ rcvNxt[e] <= sndNxt[Peer(e)]
          /\ \A k \in DOMAIN rcvBuf[e] : k < sndNxt[Peer(e)]
      BY <1>1 DEF ReceiverOK, Window
    <2>2. /\ sndNxt[Peer(e)] \in Nat /\ Len(stream[Peer(e)]) \in Nat
          /\ sndNxt[Peer(e)] <= Len(stream[Peer(e)])
      BY <1>1, <1>2
    <2>3. n < sndNxt[Peer(e)]
      BY <1>3, <1>5, <2>1, <2>2 DEF Received
    <2> QED  BY <2>2, <2>3
  <1> QED  BY <1>1, <1>2, <1>3, <1>4, <1>5, PeerProps

\* A step that the pipe does not see.
LEMMA Unseen ==
    ASSUME UNCHANGED <<stream, msgs, delivered>>,
           \A e \in Ends : Held(e)' = Held(e) /\ Unacked(e)' = Unacked(e)
    PROVE  UNCHANGED Pipe!pipeVars
  BY DEF Pipe!pipeVars

\* What an end holds depends on its peer's stream and on what it received.
LEMMA HeldSame ==
    ASSUME IInv, NEW e \in Ends, stream' = stream,
           \A n \in Nat : Received(e, n)' <=> Received(e, n)
    PROVE  Held(e)' = Held(e)
  <1>1. Len(stream[Peer(e)]) \in Nat
    BY Numbering
  <1> QED  BY <1>1 DEF Held

LEMMA UnackedSame ==
    ASSUME NEW e \in Ends, stream' = stream, sndNxt' = sndNxt, sndBuf'[e] = sndBuf[e]
    PROVE  Unacked(e)' = Unacked(e)
  BY DEF Unacked

-----------------------------------------------------------------------------
(* One step at a time. *)

\* ikcp_send is an acceptance.
LEMMA SendRefines ==
    ASSUME IInv, NEW e \in Ends, NEW n \in FragCounts, Send(e, n)
    PROVE  Pipe!Accept(e, n)
  <1>1. /\ UNCHANGED <<sndBuf, sndNxt, rcvBuf, rcvNxt, delivered>>
        /\ msgs' = [msgs EXCEPT ![e] = @ + 1]
        /\ stream' = [stream EXCEPT ![e] = @ \o Fragments(msgs[e], n)]
    BY DEF Send, rcvVars
  <1>2. n \in Nat \ {0} /\ msgs[e] \in Nat
    BY LoadAssumption, Types DEF IInv
  <1>3. Fragments(msgs[e], n) = Pipe!Pieces(msgs[e], n)
    BY DEF Fragments, Pipe!Pieces
  <1>4. /\ stream \in [Ends -> Seq(Seg)] /\ stream[e] \in Seq(Seg)
        /\ Fragments(msgs[e], n) \in Seq(Seg) /\ Len(Fragments(msgs[e], n)) = n
    BY <1>2, FragmentsProps DEF IInv, TypeOK
  <1>5. /\ stream'[e] = stream[e] \o Fragments(msgs[e], n)
        /\ \A x \in Ends : x # e => stream'[x] = stream[x]
    BY <1>1, <1>4
  <1>6. Len(stream'[e]) = Len(stream[e]) + n /\ Len(stream[e]) \in Nat
    <2> DEFINE a == stream[e]
               f == Fragments(msgs[e], n)
    <2>1. a \in Seq(Seg) /\ f \in Seq(Seg) /\ Len(f) = n
      BY <1>4
    <2> HIDE DEF a, f
    <2>2. Len(a \o f) = Len(a) + n /\ Len(a) \in Nat
      BY <2>1
    <2> QED  BY <1>5, <2>2 DEF a, f
  <1>7. ASSUME NEW x \in Ends PROVE Held(x)' = Held(x)
    <2>1. \A k \in Nat : Received(x, k)' <=> Received(x, k)
      BY <1>1 DEF Received
    <2>2. CASE Peer(x) = e
      <3>1. \A k \in Nat : Received(x, k) => k < Len(stream[e])
        BY <2>2, Numbering
      <3> QED  BY <1>2, <1>6, <2>1, <2>2, <3>1 DEF Held
    <2>3. CASE Peer(x) # e
      <3>1. stream'[Peer(x)] = stream[Peer(x)] /\ Len(stream[Peer(x)]) \in Nat
        BY <1>5, <2>3, Numbering
      <3> QED  BY <2>1, <3>1 DEF Held
    <2> QED  BY <2>2, <2>3
  <1>8. Unacked(e)' = Unacked(e) \cup Len(stream[e])..(Len(stream[e]) + n - 1)
    <2>1. sndNxt[e] \in Nat /\ sndNxt[e] <= Len(stream[e])
      BY Numbering
    <2> DEFINE l == Len(stream[e])
               s == sndNxt[e]
    <2>6. Len(stream'[e]) - 1 = l + n - 1
      <3>1. Len(stream'[e]) = l + n /\ l \in Nat /\ n \in Nat
        BY <1>2, <1>6
      <3> HIDE DEF l
      <3> QED  BY <3>1
    <2>2. /\ Unacked(e) = DOMAIN sndBuf[e] \cup s..(l - 1)
          /\ Unacked(e)' = DOMAIN sndBuf[e] \cup s..(l + n - 1)
      BY <1>1, <2>6 DEF Unacked
    <2>3. l \in Nat /\ s \in Nat /\ s <= l
      BY <1>6, <2>1
    <2> HIDE DEF l, s
    <2>4. s..(l + n - 1) = (s..(l - 1)) \cup (l..(l + n - 1))
      BY <1>2, <2>3
    <2>5. Unacked(e)' = Unacked(e) \cup l..(l + n - 1)
      BY <2>2, <2>4
    <2> QED  BY <2>5 DEF l
  <1>9. ASSUME NEW x \in Ends, x # e PROVE Unacked(x)' = Unacked(x)
    BY <1>1, <1>5, <1>9 DEF Unacked
  <1> QED
    <2>1. [x \in Ends |-> Held(x)]' = [x \in Ends |-> Held(x)]
      BY <1>7
    <2>2. [x \in Ends |-> Unacked(x)]'
          = [[x \in Ends |-> Unacked(x)] EXCEPT
                ![e] = @ \cup Len(stream[e])..(Len(stream[e]) + n - 1)]
      BY <1>8, <1>9
    <2> QED  BY <1>1, <1>3, <2>1, <2>2 DEF Pipe!Accept

\* ikcp_flush numbers segments and sends datagrams: the pipe sees nothing.
LEMMA FlushRefines ==
    ASSUME IInv, NEW e \in Ends, NEW cw \in 0..SndWnd, NEW ask \in BOOLEAN,
           NEW resend \in SUBSET DOMAIN sndBuf[e], Flush(e, cw, resend, ask)
    PROVE  UNCHANGED Pipe!pipeVars
  <1> DEFINE k == Movable(e, cw)
             moved == [n \in sndNxt[e]..(sndNxt[e] + k - 1) |->
                         sndQueue[e][n - sndNxt[e] + 1]]
  <1>1. /\ sndBuf' = [sndBuf EXCEPT ![e] = Both(@, moved)]
        /\ sndNxt' = [sndNxt EXCEPT ![e] = @ + k]
        /\ UNCHANGED <<stream, msgs, rcvBuf, rcvNxt, delivered>>
    BY DEF Flush
  <1>2. k \in 0..Len(sndQueue[e])
    BY WndAssumption, MovableProps DEF IInv
  <1>3. /\ sndNxt[e] \in Nat /\ Len(stream[e]) \in Nat /\ Len(sndQueue[e]) \in Nat
        /\ sndNxt[e] + Len(sndQueue[e]) = Len(stream[e])
    BY Types DEF IInv, SenderOK, Remains
  <1> HIDE DEF k
  <1>4. /\ DOMAIN moved = sndNxt[e]..(sndNxt[e] + k - 1)
        /\ DOMAIN Both(sndBuf[e], moved) = DOMAIN sndBuf[e] \cup DOMAIN moved
    BY DEF Both
  <1> HIDE DEF moved
  <1>5. /\ sndBuf'[e] = Both(sndBuf[e], moved) /\ sndNxt'[e] = sndNxt[e] + k
        /\ \A x \in Ends : x # e => sndBuf'[x] = sndBuf[x] /\ sndNxt'[x] = sndNxt[x]
    BY <1>1 DEF IInv, TypeOK
  <1>6. ASSUME NEW x \in Ends PROVE Held(x)' = Held(x)
    <2>1. \A n \in Nat : Received(x, n)' <=> Received(x, n)
      BY <1>1 DEF Received
    <2> QED  BY <1>1, <2>1, HeldSame
  <1>7. ASSUME NEW x \in Ends PROVE Unacked(x)' = Unacked(x)
    <2>1. CASE x = e
      <3> DEFINE l == Len(stream[e])
                 s == sndNxt[e]
      <3>1. /\ Unacked(e) = DOMAIN sndBuf[e] \cup s..(l - 1)
            /\ Unacked(e)' = (DOMAIN sndBuf[e] \cup s..(s + k - 1)) \cup (s + k)..(l - 1)
        BY <1>1, <1>4, <1>5 DEF Unacked
      <3>2. l \in Nat /\ s \in Nat /\ k \in Nat /\ s + k <= l
        BY <1>2, <1>3
      <3> HIDE DEF l, s
      <3>3. s..(l - 1) = (s..(s + k - 1)) \cup (s + k)..(l - 1)
        BY <3>2
      <3> QED  BY <2>1, <3>1, <3>3
    <2>2. CASE x # e
      BY <1>1, <1>5, <2>2 DEF Unacked
    <2> QED  BY <2>1, <2>2
  <1> QED  BY <1>1, <1>6, <1>7, Unseen

\* What a message's segments are in the stream, as ikcp_recv finds them.
LEMMA RecvRefines ==
    ASSUME IInv, NEW e \in Ends, Recv(e)
    PROVE  Pipe!Read(e)
  <1> DEFINE p == Peer(e)
             q == rcvQueue[e]
             s == stream[p]
             d == delivered[e]
  <1>0. TypeOK /\ p \in Ends /\ ReceiverOK(e)
    BY PeerProps DEF IInv
  <1>1. /\ q \in Seq(Seg) /\ Len(q) \in Nat /\ s \in Seq(Seg) /\ Len(s) \in Nat
        /\ d \in Seq(Seg) /\ Len(d) \in Nat /\ rcvNxt[e] \in Nat
        /\ DOMAIN rcvBuf[e] \subseteq Nat
    BY <1>0, Types
  <1>2. PICK c \in 1..Len(q), k \in 0..RcvWnd :
           /\ q[c].frg = 0
           /\ \A i \in 1..(c - 1) : q[i].frg # 0
           /\ IsRun(rcvBuf[e], rcvNxt[e], RcvWnd - (Len(q) - c), k)
           /\ delivered' = [delivered EXCEPT ![e] = @ \o SubSeq(q, 1, c)]
           /\ rcvBuf' = [rcvBuf EXCEPT ![e] = From(@, rcvNxt[e] + k)]
           /\ rcvNxt' = [rcvNxt EXCEPT ![e] = @ + k]
    BY DEF Recv
  <1>3. UNCHANGED <<stream, msgs, sndBuf, sndNxt>>
    BY DEF Recv, sndVars
  <1>4. /\ Follows(d, s, 0) /\ Follows(q, s, Len(d))
        /\ rcvNxt[e] = Len(d) + Len(q)
        /\ \A n \in DOMAIN rcvBuf[e] : rcvNxt[e] <= n
    BY <1>0 DEF ReceiverOK, Window
  <1> DEFINE last == Len(d) + c
  <1>5. c \in 1..Len(q) /\ c \in Nat /\ k \in Nat
    BY <1>1, <1>2, WndAssumption
  <1>6. last \in (Len(d) + 1)..Len(s)
    <2> HIDE DEF d, q, s
    <2>1. Len(d) + Len(q) <= Len(s)
      BY <1>4 DEF Follows
    <2> QED  BY <1>1, <1>5, <2>1
  <1>7. ASSUME NEW i \in (Len(d) + 1)..last
        PROVE  i - 1 \in Held(e) /\ (s[i].frg = 0 <=> i = last)
    <2> DEFINE j == i - Len(d)
    <2> HIDE DEF d, q, s
    <2>1. j \in 1..c /\ j \in 1..Len(q) /\ i = Len(d) + j /\ i \in Nat /\ i <= Len(s)
      BY <1>1, <1>5, <1>6, <1>7
    <2>2. q[j] = s[i]
      BY <1>4, <2>1 DEF Follows
    <2>3. i - 1 \in 0..(Len(s) - 1) /\ i - 1 < rcvNxt[e]
      BY <1>1, <1>4, <1>5, <2>1
    <2>4. i - 1 \in Held(e)
      BY <2>3 DEF Held, Received, s, p
    <2>5. j = c \/ j \in 1..(c - 1)
      BY <1>5, <2>1
    <2>6. i = last <=> j = c
      BY <1>1, <1>5, <2>1
    <2>7. q[j].frg = 0 <=> j = c
      <3>1. CASE j = c
        BY <1>2, <3>1 DEF q
      <3>2. CASE j # c
        BY <1>2, <2>5, <3>2 DEF q
      <3> QED  BY <3>1, <3>2
    <2> QED  BY <2>2, <2>4, <2>6, <2>7
  <1>8. delivered' = [delivered EXCEPT ![e] = SubSeq(s, 1, last)]
    <2>1. d \o SubSeq(q, 1, c) = SubSeq(s, 1, last)
      <3> HIDE DEF d, q, s
      <3> DEFINE t == SubSeq(q, 1, c)
      <3>1. t \in Seq(Seg) /\ Len(t) = c /\ \A i \in 1..c : t[i] = q[i]
        BY <1>1, <1>5
      <3> HIDE DEF t
      <3>2. Len(d \o t) = last /\ d \o t \in Seq(Seg)
        BY <1>1, <3>1, SMTT(20)
      <3>3. Len(SubSeq(s, 1, last)) = last /\ SubSeq(s, 1, last) \in Seq(Seg)
        BY <1>1, <1>6
      <3>4. ASSUME NEW i \in 1..last PROVE (d \o t)[i] = SubSeq(s, 1, last)[i]
        <4>1. SubSeq(s, 1, last)[i] = s[i]
          BY <1>1, <1>6
        <4>2. CASE i <= Len(d)
          <5>1. (d \o t)[i] = d[i]
            BY <1>1, <3>1, <4>2
          <5>2. d[i] = s[0 + i]
            BY <1>1, <1>4, <1>5, <4>2 DEF Follows
          <5> QED  BY <4>1, <5>1, <5>2
        <4>3. CASE ~(i <= Len(d))
          <5>1. i - Len(d) \in 1..c /\ i - Len(d) \in 1..Len(q) /\ Len(d) + (i - Len(d)) = i
            BY <1>1, <1>5, <4>3
          <5>2. (d \o t)[i] = t[i - Len(d)]
            BY <1>1, <3>1, <3>2, <4>3
          <5>3. q[i - Len(d)] = s[i]
            BY <1>4, <5>1 DEF Follows
          <5> QED  BY <3>1, <4>1, <5>1, <5>2, <5>3
        <4> QED  BY <4>2, <4>3
      <3> HIDE DEF last
      <3> QED  BY <3>2, <3>3, <3>4 DEF t
    <2> QED  BY <1>2, <2>1
  <1>9. ASSUME NEW x \in Ends PROVE Held(x)' = Held(x)
    <2>1. CASE x = e
      <3>1. /\ rcvNxt'[e] = rcvNxt[e] + k /\ rcvBuf'[e] = From(rcvBuf[e], rcvNxt[e] + k)
        BY <1>0, <1>2 DEF TypeOK
      <3>2. DOMAIN rcvBuf'[e] = {n \in DOMAIN rcvBuf[e] : rcvNxt[e] + k <= n}
        BY <3>1 DEF From, Only
      <3>3. ASSUME NEW n \in Nat, rcvNxt[e] <= n, n < rcvNxt[e] + k
            PROVE  n \in DOMAIN rcvBuf[e]
        <4>1. n - rcvNxt[e] \in 0..(k - 1) /\ rcvNxt[e] + (n - rcvNxt[e]) = n
          BY <1>1, <1>5, <3>3, SMTT(20)
        <4> QED  BY <1>2, <4>1 DEF IsRun
      <3>4. ASSUME NEW n \in Nat PROVE Received(e, n)' <=> Received(e, n)
        <4>1. Received(e, n)' <=> n < rcvNxt[e] + k
                                  \/ (n \in DOMAIN rcvBuf[e] /\ rcvNxt[e] + k <= n)
          BY <3>1, <3>2 DEF Received
        <4>2. n < rcvNxt[e] => n < rcvNxt[e] + k
          BY <1>1, <1>5
        <4>3. n < rcvNxt[e] + k => n < rcvNxt[e] \/ rcvNxt[e] <= n
          BY <1>1
        <4>4. n < rcvNxt[e] + k \/ rcvNxt[e] + k <= n
          BY <1>1, <1>5
        <4> QED  BY <3>3, <4>1, <4>2, <4>3, <4>4 DEF Received
      <3> QED  BY <1>3, <2>1, <3>4, HeldSame
    <2>2. CASE x # e
      <3>1. rcvNxt'[x] = rcvNxt[x] /\ rcvBuf'[x] = rcvBuf[x]
        BY <1>0, <1>2, <2>2 DEF TypeOK
      <3>2. \A n \in Nat : Received(x, n)' <=> Received(x, n)
        BY <3>1 DEF Received
      <3> QED  BY <1>3, <3>2, HeldSame
    <2> QED  BY <2>1, <2>2
  <1>10. ASSUME NEW x \in Ends PROVE Unacked(x)' = Unacked(x)
    BY <1>3, UnackedSame
  <1> QED
    <2>1. Pipe!Other(e) = p
      BY OtherIsPeer
    <2>2. [x \in Ends |-> Held(x)][e] = Held(e)
      OBVIOUS
    <2>3. /\ [x \in Ends |-> Held(x)]' = [x \in Ends |-> Held(x)]
          /\ [x \in Ends |-> Unacked(x)]' = [x \in Ends |-> Unacked(x)]
      BY <1>9, <1>10
    <2>4. \A i \in (Len(delivered[e]) + 1)..last :
             /\ i - 1 \in [x \in Ends |-> Held(x)][e]
             /\ stream[p][i].frg = 0 <=> i = last
      BY <1>7, <2>2
    <2>5. last \in (Len(delivered[e]) + 1)..Len(stream[p])
      BY <1>6
    <2> HIDE DEF last
    <2> QED  BY <1>3, <1>8, <2>1, <2>3, <2>4, <2>5 DEF Pipe!Read

\* Nothing enters snd_buf when a datagram arrives.
LEMMA AckDrops ==
    ASSUME TypeOK, NEW m \in Message, Acknowledge(m)
    PROVE  DOMAIN sndBuf'[m.to] \subseteq DOMAIN sndBuf[m.to]
  <1> DEFINE e == m.to
             left == AfterUna(sndBuf[e], m.una)
             una  == Shrink(left, sndNxt[e])
             rest == IF m.cmd = "ack" /\ una <= m.sn /\ m.sn < sndNxt[e]
                     THEN AfterAck(left, m.sn) ELSE left
  <1>1. sndBuf' = [sndBuf EXCEPT ![e] = rest]
    BY DEF Acknowledge
  <1> HIDE DEF una
  <1>2. DOMAIN left \subseteq DOMAIN sndBuf[e]
    BY DEF AfterUna, From, Only
  <1>3. DOMAIN AfterAck(left, m.sn) \subseteq DOMAIN left
    BY DEF AfterAck, Only
  <1> HIDE DEF left
  <1>4. DOMAIN rest \subseteq DOMAIN sndBuf[e]
    BY <1>2, <1>3
  <1> HIDE DEF rest
  <1>5. e \in Ends /\ DOMAIN sndBuf = Ends
    BY DEF Message, TypeOK
  <1> QED  BY <1>1, <1>4, <1>5

\* ikcp_input is a transfer: what it adds was sent, what it drops is held.
LEMMA InputRefines ==
    ASSUME IInv, NEW m \in net, Input(m)
    PROVE  m.to \in Ends /\ Pipe!Transfer(m.to)
  <1> DEFINE e == m.to
             p == Peer(e)
  <1>0. TypeOK /\ m \in Message /\ DatagramOK(m)
    BY DEF IInv, TypeOK
  <1>1. /\ e \in Ends /\ p \in Ends /\ p # e /\ Peer(p) = e
        /\ SenderOK(e) /\ SenderOK(p) /\ ReceiverOK(e) /\ AcksOK(e)
    BY <1>0, PeerProps DEF IInv, Message
  <1>2. Acknowledge(m) /\ (ReceivePush(m) \/ ReceiveOther(m))
    BY DEF Input
  <1>3. /\ UNCHANGED <<stream, msgs, sndQueue, sndNxt>>
        /\ \A x \in Ends : x # e => sndBuf'[x] = sndBuf[x]
        /\ \A n \in Nat : n \in DOMAIN sndBuf[e] /\ n \notin DOMAIN sndBuf'[e]
                             => Received(p, n)
    BY <1>0, <1>1, <1>2, AckStep
  <1>4. DOMAIN sndBuf'[e] \subseteq DOMAIN sndBuf[e]
    BY <1>0, <1>2, AckDrops
  <1>5. /\ delivered' = delivered
        /\ \A x \in Ends : x # e => rcvBuf'[x] = rcvBuf[x] /\ rcvNxt'[x] = rcvNxt[x]
        /\ \A n \in Nat : Received(e, n) => Received(e, n)'
    BY <1>0, <1>1, <1>2, <1>3, ReceiveStep
  <1> HIDE DEF e
  <1>6. /\ Len(stream[p]) \in Nat /\ Len(stream[e]) \in Nat
        /\ sndNxt[e] \in Nat /\ sndNxt[e] <= Len(stream[e])
        /\ DOMAIN sndBuf[e] \subseteq Nat /\ \A n \in DOMAIN sndBuf[e] : n < sndNxt[e]
    BY <1>1, Numbering
  <1> DEFINE new  == Held(e)'
             gone == Unacked(e) \ Unacked(e)'
  <1>7. Held(e) \subseteq new /\ new \subseteq 0..(Len(stream[p]) - 1)
    BY <1>3, <1>5, <1>6 DEF Held
  <1>8. ASSUME NEW x \in Ends, x # e
        PROVE  Held(x)' = Held(x) /\ Unacked(x)' = Unacked(x)
    <2>1. \A n \in Nat : Received(x, n)' <=> Received(x, n)
      BY <1>5, <1>8 DEF Received
    <2>2. Held(x)' = Held(x)
      BY <1>3, <2>1, HeldSame
    <2> QED  BY <1>3, <1>8, <2>2, UnackedSame
  <1>9. Unacked(e)' = Unacked(e) \ gone
    <2>1. Unacked(e)' \subseteq Unacked(e)
      BY <1>3, <1>4 DEF Unacked
    <2> QED  BY <2>1
  <1>10. gone \subseteq Held(p)
    <2> SUFFICES ASSUME NEW n \in Unacked(e), n \notin Unacked(e)' PROVE n \in Held(p)
      OBVIOUS
    <2>1. n \in DOMAIN sndBuf[e] /\ n \notin DOMAIN sndBuf'[e]
      BY <1>3 DEF Unacked
    <2>2. n \in Nat /\ n < sndNxt[e] /\ Received(p, n)
      BY <1>3, <1>6, <2>1
    <2>3. n \in 0..(Len(stream[e]) - 1)
      <3> DEFINE l == Len(stream[e])
      <3>1. l \in Nat /\ sndNxt[e] \in Nat /\ sndNxt[e] <= l
        BY <1>6
      <3> HIDE DEF l
      <3>2. n \in 0..(l - 1)
        BY <2>2, <3>1
      <3> QED  BY <3>2 DEF l
    <2> QED  BY <1>1, <2>2, <2>3 DEF Held
  <1> HIDE DEF new, gone
  <1>11. [x \in Ends |-> Held(x)]' = [[x \in Ends |-> Held(x)] EXCEPT ![e] = @ \cup new]
    <2>1. Held(e)' = Held(e) \cup new
      BY <1>7 DEF new
    <2> QED  BY <1>1, <1>8, <2>1
  <1>12. [x \in Ends |-> Unacked(x)]'
         = [[x \in Ends |-> Unacked(x)] EXCEPT ![e] = @ \ gone]
    BY <1>1, <1>8, <1>9
  <1> QED
    <2>1. Pipe!Other(e) = p /\ [x \in Ends |-> Held(x)][p] = Held(p)
      BY <1>1, OtherIsPeer
    <2>2. /\ \E add \in SUBSET (0..(Len(stream[Pipe!Other(e)]) - 1)) :
                [x \in Ends |-> Held(x)]'
                = [[x \in Ends |-> Held(x)] EXCEPT ![e] = @ \cup add]
          /\ \E drop \in SUBSET [x \in Ends |-> Held(x)][Pipe!Other(e)] :
                [x \in Ends |-> Unacked(x)]'
                = [[x \in Ends |-> Unacked(x)] EXCEPT ![e] = @ \ drop]
      <3>1. /\ new \in SUBSET (0..(Len(stream[Pipe!Other(e)]) - 1))
            /\ gone \in SUBSET [x \in Ends |-> Held(x)][Pipe!Other(e)]
        BY <1>7, <1>10, <2>1
      <3> QED  BY <1>11, <1>12, <3>1
    <2> QED  BY <1>1, <1>3, <1>5, <2>2 DEF Pipe!Transfer, e

-----------------------------------------------------------------------------
(* The refinement. *)

LEMMA InitRefines == Init => Pipe!PipeInit
  <1> SUFFICES ASSUME Init PROVE Pipe!PipeInit
    OBVIOUS
  <1>1. ASSUME NEW e \in Ends PROVE Held(e) = {} /\ Unacked(e) = {}
    <2>1. /\ stream[e] = <<>> /\ stream[Peer(e)] = <<>>
          /\ sndBuf[e] = Empty /\ sndNxt[e] = 0
      BY PeerProps DEF Init
    <2>2. Len(<<>>) = 0 /\ 0..(0 - 1) = {} /\ DOMAIN Empty = {}
      BY DEF Empty
    <2> QED  BY <2>1, <2>2 DEF Held, Unacked
  <1> QED  BY <1>1 DEF Init, Pipe!PipeInit

LEMMA StepRefines == IInv /\ [Next]_vars => [Pipe!PipeNext]_(Pipe!pipeVars)
  <1> SUFFICES ASSUME IInv, [Next]_vars
               PROVE  Pipe!PipeNext \/ UNCHANGED Pipe!pipeVars
    OBVIOUS
  <1>1. ASSUME NEW e \in Ends, NEW n \in FragCounts, Send(e, n)
        PROVE  Pipe!PipeNext
    BY <1>1, SendRefines DEF Pipe!PipeNext
  <1>2. ASSUME NEW e \in Ends, NEW cw \in 0..SndWnd, NEW ask \in BOOLEAN,
               NEW resend \in SUBSET DOMAIN sndBuf[e], Flush(e, cw, resend, ask)
        PROVE  UNCHANGED Pipe!pipeVars
    BY <1>2, FlushRefines
  <1>3. ASSUME NEW e \in Ends, Recv(e) PROVE Pipe!PipeNext
    BY <1>3, RecvRefines DEF Pipe!PipeNext
  <1>4. ASSUME NEW m \in net, Arrive(m) \/ ArriveTwice(m) PROVE Pipe!PipeNext
    <2>1. Input(m)
      BY <1>4 DEF Arrive, ArriveTwice
    <2> QED  BY <2>1, InputRefines DEF Pipe!PipeNext
  <1>5. ASSUME UNCHANGED <<sndVars, rcvVars>> PROVE UNCHANGED Pipe!pipeVars
    <2>1. UNCHANGED <<stream, msgs, sndBuf, sndNxt, rcvBuf, rcvNxt, delivered>>
      BY <1>5 DEF sndVars, rcvVars
    <2>2. ASSUME NEW e \in Ends PROVE Held(e)' = Held(e) /\ Unacked(e)' = Unacked(e)
      BY <2>1 DEF Held, Unacked, Received
    <2> QED  BY <2>1, <2>2, Unseen
  <1>6. ASSUME NEW m \in net, Lose(m) PROVE UNCHANGED Pipe!pipeVars
    BY <1>5, <1>6 DEF Lose
  <1>7. CASE UNCHANGED vars
    BY <1>5, <1>7 DEF vars
  <1> QED  BY <1>1, <1>2, <1>3, <1>4, <1>6, <1>7 DEF Next

\* Whatever the windows, the loads and the network, the two ends implement the
\* pipe that librstrm is built on.
THEOREM Refines == Spec => ImplementsPipe
  BY Inductive, InitRefines, StepRefines, PTL DEF Spec, ImplementsPipe, Pipe!PipeSpec

=============================================================================
