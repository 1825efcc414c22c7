------------------------------ MODULE KcpBounds ------------------------------
(***************************************************************************)
(* Proofs about Kcp, for all windows, loads and networks: the windows      *)
(* bound what both ends keep, nothing in order is left in rcv_buf while    *)
(* rcv_queue has room, and 32 bits suffice for the numbers.                *)
(***************************************************************************)
EXTENDS KcpProofs, KcpWidth, WellFoundedInduction

\* The send side of end e stays within its window, and snd_una is exact.
SentBound(e) ==
    /\ DOMAIN sndBuf[e] \subseteq sndUna[e]..(sndUna[e] + SndWnd - 1)
    /\ sndUna[e] <= sndNxt[e] /\ sndNxt[e] <= sndUna[e] + SndWnd
    /\ sndUna[e] \in DOMAIN sndBuf[e] \/ sndUna[e] = sndNxt[e]

\* n segments queued and those of buf behind them stay within the window, and
\* the queue is full when the next one waits.
KeptWithin(n, buf, nxt) ==
    /\ n <= RcvWnd
    /\ DOMAIN buf \subseteq nxt..(nxt + RcvWnd - 1)
    /\ nxt \in DOMAIN buf => n = RcvWnd

KeptBound(e) == KeptWithin(Len(rcvQueue[e]), rcvBuf[e], rcvNxt[e])

\* The windows, on top of the invariant of KcpProofs.
BInv == \A e \in Ends : SentBound(e) /\ KeptBound(e)

-----------------------------------------------------------------------------
(* Numbers and windows. *)

\* A set of numbers has a least one.
LEMMA Least ==
    ASSUME NEW T, T \subseteq Nat, T # {}
    PROVE  \E n \in T : \A k \in T : n <= k
  <1> DEFINE R == OpToRel(<, Nat)
  <1>1. IsWellFoundedOn(R, Nat)
    BY NatLessThanWellFounded
  <1> HIDE DEF R
  <1>2. PICK n \in T : \A k \in T : ~(<<k, n>> \in R)
    BY <1>1, WFMin
  <1>3. ASSUME NEW k \in T PROVE n <= k
    <2>1. n \in Nat /\ k \in Nat /\ ~(<<k, n>> \in R)
      BY <1>2
    <2>2. ~(k < n)
      BY <2>1 DEF R, OpToRel
    <2> QED  BY <2>1, <2>2
  <1> QED  BY <1>3

\* ikcp_shrink_buf finds the first number, if there is one.
LEMMA ShrinkLeast ==
    ASSUME NEW buf, NEW nxt \in Nat, DOMAIN buf \subseteq Nat
    PROVE  /\ DOMAIN buf = {} => Shrink(buf, nxt) = nxt
           /\ DOMAIN buf # {} => /\ Shrink(buf, nxt) \in DOMAIN buf
                                 /\ \A k \in DOMAIN buf : Shrink(buf, nxt) <= k
  <1>1. CASE DOMAIN buf # {}
    <2>1. \E n \in DOMAIN buf : \A k \in DOMAIN buf : n <= k
      BY <1>1, Least
    <2> QED  BY <1>1, <2>1 DEF Shrink
  <1> QED  BY <1>1 DEF Shrink

\* What leaves rcv_buf as far as there is room keeps the window.
LEMMA KeptMoves ==
    ASSUME NEW buf, DOMAIN buf \subseteq Nat, NEW nxt \in Nat, NEW k \in Nat,
           NEW n \in Nat, NEW room \in Nat, n + room = RcvWnd,
           IsRun(buf, nxt, room, k), DOMAIN buf \subseteq nxt..(nxt + RcvWnd - 1)
    PROVE  KeptWithin(n + k, From(buf, nxt + k), nxt + k)
  <1>1. k <= room /\ (k = room \/ nxt + k \notin DOMAIN buf)
    BY DEF IsRun
  <1>2. DOMAIN From(buf, nxt + k) = {i \in DOMAIN buf : nxt + k <= i}
    BY DEF From, Only
  <1>3. DOMAIN From(buf, nxt + k) \subseteq (nxt + k)..(nxt + k + RcvWnd - 1)
    BY <1>2, WndAssumption
  <1>4. nxt + k \in DOMAIN From(buf, nxt + k) => n + k = RcvWnd
    BY <1>1, <1>2
  <1>5. n + k <= RcvWnd
    BY <1>1
  <1> QED  BY <1>3, <1>4, <1>5 DEF KeptWithin

-----------------------------------------------------------------------------
(* The invariant holds initially and every action preserves it. *)

LEMMA InitBounds == Init => BInv
  <1> SUFFICES ASSUME Init, NEW e \in Ends PROVE SentBound(e) /\ KeptBound(e)
    BY DEF BInv
  <1>1. /\ sndBuf[e] = Empty /\ rcvBuf[e] = Empty /\ rcvQueue[e] = <<>>
        /\ sndUna[e] = 0 /\ sndNxt[e] = 0
    BY DEF Init
  <1>2. Len(<<>>) = 0 /\ DOMAIN Empty = {}
    BY DEF Empty
  <1> QED  BY <1>1, <1>2, WndAssumption DEF SentBound, KeptBound, KeptWithin

\* An end whose send or receive side a step leaves alone.
LEMMA SentSame ==
    ASSUME NEW x \in Ends, SentBound(x), sndBuf'[x] = sndBuf[x],
           sndUna'[x] = sndUna[x], sndNxt'[x] = sndNxt[x]
    PROVE  SentBound(x)'
  BY DEF SentBound

LEMMA KeptSame ==
    ASSUME NEW x \in Ends, KeptBound(x), rcvQueue'[x] = rcvQueue[x],
           rcvBuf'[x] = rcvBuf[x], rcvNxt'[x] = rcvNxt[x]
    PROVE  KeptBound(x)'
  BY DEF KeptBound

\* ikcp_flush gives out numbers only inside the window.
LEMMA FlushBounds ==
    ASSUME IInv, BInv, NEW e \in Ends, NEW cw \in 0..SndWnd, NEW ask \in BOOLEAN,
           NEW resend \in SUBSET DOMAIN sndBuf[e], Flush(e, cw, resend, ask)
    PROVE  BInv'
  <1> DEFINE k == Movable(e, cw)
             moved == [n \in sndNxt[e]..(sndNxt[e] + k - 1) |->
                         sndQueue[e][n - sndNxt[e] + 1]]
  <1>1. /\ sndBuf' = [sndBuf EXCEPT ![e] = Both(@, moved)]
        /\ sndNxt' = [sndNxt EXCEPT ![e] = @ + k]
        /\ UNCHANGED <<sndUna, rcvBuf, rcvQueue, rcvNxt>>
    BY DEF Flush
  <1>2. k \in 0..Len(sndQueue[e])
    BY WndAssumption, MovableProps DEF IInv
  <1>3. /\ sndNxt[e] \in Nat /\ sndUna[e] \in Nat /\ rmtWnd[e] \in Nat /\ cw \in Nat
        /\ Len(sndQueue[e]) \in Nat /\ SndWnd \in Nat /\ DOMAIN sndBuf[e] \subseteq Nat
    BY WndAssumption, Types DEF IInv
  <1>4. k = 0 \/ sndNxt[e] + k <= sndUna[e] + SndWnd
    <2> DEFINE q == Len(sndQueue[e])
    <2>1. q \in Nat
      BY <1>3
    <2> HIDE DEF q
    <2>2. k = IF sndUna[e] + Lesser(Lesser(SndWnd, rmtWnd[e]), cw) - sndNxt[e] <= 0 THEN 0
              ELSE Lesser(sndUna[e] + Lesser(Lesser(SndWnd, rmtWnd[e]), cw) - sndNxt[e], q)
      BY DEF Movable, q
    <2>3. Lesser(Lesser(SndWnd, rmtWnd[e]), cw) <= SndWnd
          /\ Lesser(Lesser(SndWnd, rmtWnd[e]), cw) \in Nat
      BY <1>3 DEF Lesser
    <2> QED  BY <1>3, <2>1, <2>2, <2>3, SMTT(20) DEF Lesser
  <1> HIDE DEF k
  <1>5. DOMAIN Both(sndBuf[e], moved) = DOMAIN sndBuf[e] \cup sndNxt[e]..(sndNxt[e] + k - 1)
    BY DEF Both
  <1> HIDE DEF moved
  <1>6. /\ sndBuf'[e] = Both(sndBuf[e], moved) /\ sndNxt'[e] = sndNxt[e] + k
        /\ \A x \in Ends : x # e => sndBuf'[x] = sndBuf[x] /\ sndNxt'[x] = sndNxt[x]
    BY <1>1 DEF IInv, TypeOK
  <1>7. SentBound(e)'
    <2>1. /\ DOMAIN sndBuf[e] \subseteq sndUna[e]..(sndUna[e] + SndWnd - 1)
          /\ sndUna[e] \in DOMAIN sndBuf[e] \/ sndUna[e] = sndNxt[e]
          /\ \A n \in DOMAIN sndBuf[e] : n < sndNxt[e]
      BY DEF BInv, SentBound, IInv, SenderOK
    <2>2. k \in Nat /\ sndUna[e] <= sndNxt[e]
      BY <1>2, <1>3, <2>1
    <2>3. sndNxt[e]..(sndNxt[e] + k - 1) \subseteq sndUna[e]..(sndUna[e] + SndWnd - 1)
      <3>1. ASSUME NEW i \in sndNxt[e]..(sndNxt[e] + k - 1)
            PROVE  i \in sndUna[e]..(sndUna[e] + SndWnd - 1)
        <4>1. /\ i \in Int /\ k # 0 /\ sndNxt[e] <= i
              /\ i <= sndNxt[e] + k - 1
          BY <1>3, <2>2
        <4>2. sndNxt[e] + k <= sndUna[e] + SndWnd
          BY <1>4, <4>1
        <4> QED  BY <1>3, <2>2, <4>1, <4>2
      <3> QED  BY <3>1
    <2>4. \/ sndUna[e] \in DOMAIN sndBuf[e] \cup sndNxt[e]..(sndNxt[e] + k - 1)
          \/ sndUna[e] = sndNxt[e] + k
      BY <1>3, <2>1, <2>2
    <2>5. /\ sndUna[e] <= sndNxt[e] + k
          /\ sndNxt[e] + k <= sndUna[e] + SndWnd
      <3>1. sndNxt[e] <= sndUna[e] + SndWnd
        BY DEF BInv, SentBound
      <3> QED  BY <1>3, <1>4, <2>2, <3>1
    <2> QED  BY <1>1, <1>5, <1>6, <2>1, <2>3, <2>4, <2>5 DEF SentBound
  <1> QED
    BY <1>1, <1>6, <1>7, SentSame, KeptSame DEF BInv

\* ikcp_parse_una, ikcp_parse_ack and ikcp_shrink_buf.
LEMMA AckBounds ==
    ASSUME TypeOK, NEW m \in Message, Acknowledge(m), SentBound(m.to),
           \A n \in DOMAIN sndBuf[m.to] : n < sndNxt[m.to]
    PROVE  /\ SentBound(m.to)' /\ sndNxt' = sndNxt
           /\ \A x \in Ends : x # m.to => sndBuf'[x] = sndBuf[x] /\ sndUna'[x] = sndUna[x]
  <1> DEFINE e == m.to
             left == AfterUna(sndBuf[e], m.una)
             una  == Shrink(left, sndNxt[e])
             rest == IF m.cmd = "ack" /\ una <= m.sn /\ m.sn < sndNxt[e]
                     THEN AfterAck(left, m.sn) ELSE left
  <1>1. /\ sndBuf' = [sndBuf EXCEPT ![e] = rest]
        /\ sndUna' = [sndUna EXCEPT ![e] = Shrink(rest, sndNxt[e])]
        /\ sndNxt' = sndNxt
    BY DEF Acknowledge
  <1> HIDE DEF una
  <1>2. DOMAIN left \subseteq DOMAIN sndBuf[e]
    BY DEF AfterUna, From, Only
  <1>3. DOMAIN AfterAck(left, m.sn) \subseteq DOMAIN left
    BY DEF AfterAck, Only
  <1> HIDE DEF left
  <1>4. DOMAIN rest \subseteq DOMAIN sndBuf[e]
    BY <1>2, <1>3
  <1> HIDE DEF rest
  <1>5. e \in Ends /\ DOMAIN sndBuf = Ends /\ DOMAIN sndUna = Ends
    BY DEF Message, TypeOK
  <1>6. /\ sndBuf'[e] = rest /\ sndUna'[e] = Shrink(rest, sndNxt[e])
        /\ \A x \in Ends : x # e => sndBuf'[x] = sndBuf[x] /\ sndUna'[x] = sndUna[x]
    BY <1>1, <1>5
  <1>7. /\ sndNxt[e] \in Nat /\ sndUna[e] \in Nat /\ SndWnd \in Nat
        /\ DOMAIN sndBuf[e] \subseteq Nat
        /\ DOMAIN sndBuf[e] \subseteq sndUna[e]..(sndUna[e] + SndWnd - 1)
        /\ sndUna[e] <= sndNxt[e] /\ sndNxt[e] <= sndUna[e] + SndWnd
        /\ \A n \in DOMAIN sndBuf[e] : n < sndNxt[e]
    BY <1>5, WndAssumption, Types DEF SentBound
  <1> HIDE DEF e
  <1> DEFINE u == Shrink(rest, sndNxt[e])
  <1>8. /\ DOMAIN rest = {} => u = sndNxt[e]
        /\ DOMAIN rest # {} => u \in DOMAIN rest /\ \A n \in DOMAIN rest : u <= n
    BY <1>4, <1>7, ShrinkLeast
  <1> HIDE DEF u
  <1>9. DOMAIN rest \subseteq u..(u + SndWnd - 1) /\ (u \in DOMAIN rest \/ u = sndNxt[e])
    <2>1. CASE DOMAIN rest = {}
      BY <1>8, <2>1
    <2>2. CASE DOMAIN rest # {}
      <3>1. u \in Nat /\ sndUna[e] <= u
        BY <1>4, <1>7, <1>8, <2>2
      <3>2. ASSUME NEW n \in DOMAIN rest PROVE n \in u..(u + SndWnd - 1)
        <4>1. n \in Nat /\ u <= n /\ n <= sndUna[e] + SndWnd - 1
          BY <1>4, <1>7, <1>8
        <4> QED  BY <1>7, <3>1, <4>1
      <3> QED  BY <1>8, <2>2, <3>2
    <2> QED  BY <2>1, <2>2
  <1>10. u <= sndNxt[e] /\ sndNxt[e] <= u + SndWnd
    <2>1. CASE DOMAIN rest = {}
      BY <1>7, <1>8, <2>1
    <2>2. CASE DOMAIN rest # {}
      <3>1. u \in DOMAIN sndBuf[e]
        BY <1>4, <1>8, <2>2
      <3>2. u \in Nat /\ sndUna[e] <= u /\ u < sndNxt[e]
        BY <1>7, <3>1
      <3> QED  BY <1>7, <3>2
    <2> QED  BY <2>1, <2>2
  <1>11. SentBound(e)'
    BY <1>1, <1>6, <1>9, <1>10 DEF SentBound, u
  <1> QED  BY <1>1, <1>6, <1>11 DEF e

\* ikcp_parse_data.
LEMMA ReceiveBounds ==
    ASSUME TypeOK, NEW m \in Message, KeptBound(m.to), ReceivePush(m) \/ ReceiveOther(m)
    PROVE  /\ KeptBound(m.to)'
           /\ \A x \in Ends : x # m.to => /\ rcvQueue'[x] = rcvQueue[x]
                                          /\ rcvBuf'[x] = rcvBuf[x]
                                          /\ rcvNxt'[x] = rcvNxt[x]
  <1> DEFINE e == m.to
  <1>1. CASE UNCHANGED <<rcvQueue, rcvBuf, rcvNxt>>
    BY <1>1 DEF KeptBound
  <1>2. CASE m.cmd = "push" /\ AdmitPush(m)
    <2>0. e \in Ends /\ m.sn \in Nat
      BY <1>2 DEF Message
    <2> DEFINE buf == Store(rcvBuf[e], m)
               n   == Len(rcvQueue[e])
    <2>1. rcvNxt[e] <= m.sn /\ m.sn < rcvNxt[e] + RcvWnd
      BY <1>2 DEF AdmitPush
    <2>2. PICK k \in 0..RcvWnd :
             /\ IsRun(buf, rcvNxt[e], Unused(e), k)
             /\ rcvQueue' = [rcvQueue EXCEPT ![e] = @ \o Run(buf, rcvNxt[e], k)]
             /\ rcvBuf' = [rcvBuf EXCEPT ![e] = From(buf, rcvNxt[e] + k)]
             /\ rcvNxt' = [rcvNxt EXCEPT ![e] = @ + k]
      BY <1>2 DEF AdmitPush
    <2>3. /\ rcvNxt[e] \in Nat /\ n \in Nat /\ RcvWnd \in Nat /\ k \in Nat
          /\ DOMAIN rcvBuf[e] \subseteq Nat /\ IsBuf(rcvBuf[e])
          /\ rcvQueue[e] \in Seq(Seg)
      BY <2>0, <2>2, WndAssumption, Types
    <2>4. /\ n <= RcvWnd
          /\ DOMAIN rcvBuf[e] \subseteq rcvNxt[e]..(rcvNxt[e] + RcvWnd - 1)
      BY DEF KeptBound, KeptWithin
    <2>5. Unused(e) \in Nat /\ n + Unused(e) = RcvWnd
      <3>1. Unused(e) = IF n < RcvWnd THEN RcvWnd - n ELSE 0
        BY DEF Unused
      <3> HIDE DEF n
      <3> QED  BY <2>3, <2>4, <3>1
    <2>6. DOMAIN buf = DOMAIN rcvBuf[e] \cup {m.sn}
      BY DEF Store
    <2>7. /\ IsBuf(buf) /\ DOMAIN buf \subseteq Nat
          /\ DOMAIN buf \subseteq rcvNxt[e]..(rcvNxt[e] + RcvWnd - 1)
      <3>1. IsBuf(buf)
        <4>1. m.seg \in Seg
          BY <1>2 DEF Message
        <4> QED  BY <2>0, <2>3, <4>1 DEF Store, IsBuf
      <3> HIDE DEF buf
      <3> QED  BY <2>0, <2>1, <2>3, <2>4, <2>6, <3>1
    <2> HIDE DEF buf
    <2> DEFINE r == Run(buf, rcvNxt[e], k)
    <2>8. r \in Seq(Seg) /\ Len(r) = k
      BY <2>2, <2>3, <2>5, <2>7, RunProps
    <2> HIDE DEF r
    <2>9. Len(rcvQueue[e] \o r) = n + k
      <3>1. rcvQueue[e] \in Seq(Seg) /\ r \in Seq(Seg) /\ Len(r) = k
        BY <2>3, <2>8
      <3>2. Len(rcvQueue[e] \o r) = Len(rcvQueue[e]) + Len(r)
        BY <3>1
      <3> QED  BY <3>1, <3>2
    <2> HIDE DEF n
    <2>10. KeptWithin(n + k, From(buf, rcvNxt[e] + k), rcvNxt[e] + k)
      BY <2>2, <2>3, <2>5, <2>7, KeptMoves
    <2>11. /\ rcvQueue'[e] = rcvQueue[e] \o r /\ rcvNxt'[e] = rcvNxt[e] + k
           /\ rcvBuf'[e] = From(buf, rcvNxt[e] + k)
           /\ \A x \in Ends : x # e => /\ rcvQueue'[x] = rcvQueue[x]
                                       /\ rcvBuf'[x] = rcvBuf[x]
                                       /\ rcvNxt'[x] = rcvNxt[x]
      BY <2>0, <2>2 DEF TypeOK, r
    <2> QED  BY <2>9, <2>10, <2>11 DEF KeptBound
  <1> QED
    BY <1>1, <1>2 DEF ReceivePush, ReceiveOther, RefusePush, RepeatPush

\* ikcp_input.
LEMMA InputBounds ==
    ASSUME IInv, BInv, NEW m \in net, Input(m)
    PROVE  BInv'
  <1>1. TypeOK /\ m \in Message /\ m.to \in Ends
    BY DEF IInv, TypeOK, Message
  <1>2. /\ SentBound(m.to) /\ KeptBound(m.to)
        /\ \A n \in DOMAIN sndBuf[m.to] : n < sndNxt[m.to]
    BY <1>1 DEF BInv, IInv, SenderOK
  <1>3. /\ SentBound(m.to)' /\ sndNxt' = sndNxt
        /\ \A x \in Ends : x # m.to => sndBuf'[x] = sndBuf[x] /\ sndUna'[x] = sndUna[x]
    BY <1>1, <1>2, AckBounds DEF Input
  <1>4. /\ KeptBound(m.to)'
        /\ \A x \in Ends : x # m.to => /\ rcvQueue'[x] = rcvQueue[x]
                                       /\ rcvBuf'[x] = rcvBuf[x]
                                       /\ rcvNxt'[x] = rcvNxt[x]
    BY <1>1, <1>2, ReceiveBounds DEF Input
  <1>5. ASSUME NEW x \in Ends, x # m.to PROVE SentBound(x)' /\ KeptBound(x)'
    <2>1. SentBound(x) /\ KeptBound(x)
      BY DEF BInv
    <2>2. SentBound(x)'
      BY <1>3, <1>5, <2>1, SentSame
    <2>3. KeptBound(x)'
      BY <1>4, <1>5, <2>1, KeptSame
    <2> QED  BY <2>2, <2>3
  <1> QED  BY <1>3, <1>4, <1>5 DEF BInv

\* ikcp_recv.
LEMMA RecvBounds ==
    ASSUME IInv, BInv, NEW e \in Ends, Recv(e)
    PROVE  BInv'
  <1> DEFINE q == rcvQueue[e]
  <1>0. TypeOK
    BY DEF IInv
  <1>1. /\ q \in Seq(Seg) /\ Len(q) \in Nat /\ rcvNxt[e] \in Nat /\ RcvWnd \in Nat
        /\ IsBuf(rcvBuf[e]) /\ DOMAIN rcvBuf[e] \subseteq Nat
    BY <1>0, Types, WndAssumption
  <1>2. PICK c \in 1..Len(q), k \in 0..RcvWnd :
           /\ IsRun(rcvBuf[e], rcvNxt[e], RcvWnd - (Len(q) - c), k)
           /\ rcvQueue' = [rcvQueue EXCEPT ![e] =
                  SubSeq(@, c + 1, Len(@)) \o Run(rcvBuf[e], rcvNxt[e], k)]
           /\ rcvBuf' = [rcvBuf EXCEPT ![e] = From(@, rcvNxt[e] + k)]
           /\ rcvNxt' = [rcvNxt EXCEPT ![e] = @ + k]
    BY DEF Recv
  <1>3. UNCHANGED <<sndBuf, sndUna, sndNxt>>
    BY DEF Recv, sndVars
  <1> DEFINE kept == SubSeq(q, c + 1, Len(q))
             r    == Run(rcvBuf[e], rcvNxt[e], k)
             n    == Len(q) - c
             room == RcvWnd - n
  <1>4. /\ Len(q) <= RcvWnd
        /\ DOMAIN rcvBuf[e] \subseteq rcvNxt[e]..(rcvNxt[e] + RcvWnd - 1)
    BY DEF BInv, KeptBound, KeptWithin
  <1>5. n \in Nat /\ room \in Nat /\ n + room = RcvWnd /\ k \in Nat /\ c \in Nat
    <2> DEFINE l == Len(q)
    <2>1. l \in Nat /\ l <= RcvWnd /\ c \in 1..l
      BY <1>1, <1>2, <1>4
    <2> HIDE DEF l
    <2>2. l - c \in Nat /\ RcvWnd - (l - c) \in Nat /\ (l - c) + (RcvWnd - (l - c)) = RcvWnd
      BY <1>1, <2>1
    <2>3. k \in Nat /\ c \in Nat
      BY <1>1, <1>2, <2>1
    <2> QED  BY <2>2, <2>3 DEF l
  <1>6. kept \in Seq(Seg) /\ Len(kept) = n
    <2> HIDE DEF q
    <2> QED  BY <1>1, <1>2
  <1>7. r \in Seq(Seg) /\ Len(r) = k
    <2>1. IsRun(rcvBuf[e], rcvNxt[e], room, k) /\ room \in Int
      BY <1>2, <1>5
    <2> HIDE DEF n, room, r
    <2>2. /\ Run(rcvBuf[e], rcvNxt[e], k) \in Seq(Seg)
          /\ Len(Run(rcvBuf[e], rcvNxt[e], k)) = k
      BY <1>1, <1>5, <2>1, RunProps
    <2> QED  BY <2>2 DEF r
  <1> HIDE DEF kept, r
  <1>8. Len(kept \o r) = n + k
    BY <1>6, <1>7
  <1>9. KeptWithin(n + k, From(rcvBuf[e], rcvNxt[e] + k), rcvNxt[e] + k)
    <2>1. IsRun(rcvBuf[e], rcvNxt[e], room, k)
      BY <1>2
    <2> HIDE DEF n, room
    <2> QED  BY <1>1, <1>4, <1>5, <2>1, KeptMoves
  <1>10. /\ rcvQueue'[e] = kept \o r /\ rcvNxt'[e] = rcvNxt[e] + k
         /\ rcvBuf'[e] = From(rcvBuf[e], rcvNxt[e] + k)
         /\ \A x \in Ends : x # e => /\ rcvQueue'[x] = rcvQueue[x]
                                     /\ rcvBuf'[x] = rcvBuf[x]
                                     /\ rcvNxt'[x] = rcvNxt[x]
    BY <1>0, <1>2 DEF TypeOK, kept, r
  <1> HIDE DEF n
  <1>11. KeptBound(e)'
    BY <1>8, <1>9, <1>10 DEF KeptBound
  <1> QED
    BY <1>3, <1>10, <1>11, SentSame, KeptSame DEF BInv

-----------------------------------------------------------------------------
(* The theorems. *)

LEMMA NextBounds == IInv /\ BInv /\ [Next]_vars => BInv'
  <1> SUFFICES ASSUME IInv, BInv, [Next]_vars PROVE BInv'
    OBVIOUS
  <1>1. ASSUME UNCHANGED <<sndBuf, sndUna, sndNxt, rcvBuf, rcvQueue, rcvNxt>>
        PROVE  BInv'
    BY <1>1 DEF BInv, SentBound, KeptBound
  <1>2. ASSUME NEW e \in Ends, NEW n \in FragCounts, Send(e, n) PROVE BInv'
    BY <1>1, <1>2 DEF Send, rcvVars
  <1>3. ASSUME NEW e \in Ends, NEW cw \in 0..SndWnd, NEW ask \in BOOLEAN,
               NEW resend \in SUBSET DOMAIN sndBuf[e], Flush(e, cw, resend, ask)
        PROVE  BInv'
    BY <1>3, FlushBounds
  <1>4. ASSUME NEW e \in Ends, Recv(e) PROVE BInv'
    BY <1>4, RecvBounds
  <1>5. ASSUME NEW m \in net, Arrive(m) \/ ArriveTwice(m) PROVE BInv'
    BY <1>5, InputBounds DEF Arrive, ArriveTwice
  <1>6. ASSUME NEW m \in net, Lose(m) PROVE BInv'
    BY <1>1, <1>6 DEF Lose, sndVars, rcvVars
  <1>7. CASE UNCHANGED vars
    BY <1>1, <1>7 DEF vars, sndVars, rcvVars
  <1> QED  BY <1>2, <1>3, <1>4, <1>5, <1>6, <1>7 DEF Next

\* The windows hold in every state.
THEOREM BoundsInductive == Spec => []BInv
  BY Inductive, InitBounds, NextBounds, PTL DEF Spec

\* However stale the advertised window, neither end keeps more than its own.
THEOREM MemoryBounded == Spec => []BoundedMemory
  <1>1. BInv => BoundedMemory
    BY DEF BInv, SentBound, KeptBound, KeptWithin, BoundedMemory
  <1> QED  BY <1>1, BoundsInductive, PTL

\* Nothing that arrived in order waits in rcv_buf while rcv_queue has room.
THEOREM NeverStalls == Spec => []NoStall
  <1>1. BInv => NoStall
    BY DEF BInv, KeptBound, KeptWithin, NoStall
  <1> QED  BY <1>1, BoundsInductive, PTL

-----------------------------------------------------------------------------
(* The width of the numbers. *)

\* A remainder, whatever it is the remainder of.
LEMMA Remainder ==
    ASSUME NEW x \in Int, NEW W \in Nat \ {0}
    PROVE  \E q \in Int : x = W * q + (x % W) /\ x % W \in 0..(W - 1)
  <1>1. x = W * (x \div W) + (x % W)
    OBVIOUS
  <1>5. 0 <= x % W /\ x % W < W
    OBVIOUS
  <1>2. x \div W \in Int
    OBVIOUS
  <1>3. x % W \in Int
    OBVIOUS
  <1>4. x % W \in 0..(W - 1)
    BY <1>3, <1>5
  <1> QED  BY <1>1, <1>2, <1>4

\* A multiple of W closer than 2 * W is one of three.
LEMMA NearMultiple ==
    ASSUME NEW q \in Int, NEW W \in Nat \ {0}, W * q < 2 * W, -(2 * W) < W * q
    PROVE  q \in {-1, 0, 1}
  <1>1. ASSUME q >= 2 PROVE FALSE
    <2>1. W * q >= W * 2
      BY <1>1
    <2> QED  BY <2>1
  <1>2. ASSUME q <= -2 PROVE FALSE
    <2>1. W * q <= W * (-2)
      BY <1>2
    <2> QED  BY <2>1
  <1> QED  BY <1>1, <1>2

\* Numbers closer than Half are told apart by what is kept of them.
LEMMA Near ==
    ASSUME NEW x \in Int, NEW y \in Int, Half \in Nat \ {0},
           -Half <= x - y, x - y < Half
    PROVE  Agree(x, y)
  <1> DEFINE W == 2 * Half
             r == x % W
             s == y % W
  <1>0. W \in Nat \ {0}
    OBVIOUS
  <1> HIDE DEF W
  <1>1. PICK i \in Int : x = W * i + r /\ r \in 0..(W - 1)
    BY <1>0, Remainder
  <1>2. PICK j \in Int : y = W * j + s /\ s \in 0..(W - 1)
    BY <1>0, Remainder
  <1> HIDE DEF r, s
  <1>3. PICK k \in Int : r - s = W * k + ((r - s) % W) /\ ((r - s) % W) \in 0..(W - 1)
    <2>1. r - s \in Int
      BY <1>0, <1>1, <1>2
    <2> QED  BY <1>0, <2>1, Remainder
  <1> DEFINE t == (r - s) % W
             q == i - j + k
  <1>4. t \in 0..(W - 1) /\ r - s = W * k + t
    BY <1>3
  <1> HIDE DEF t
  <1>5. x - y = W * q + t /\ q \in Int
    <2>1. W * (i - j + k) = W * i - W * j + W * k
      BY <1>0
    <2>2. W * i \in Int /\ W * j \in Int /\ W * k \in Int
      BY <1>0
    <2> QED  BY <1>1, <1>2, <1>4, <2>1, <2>2
  <1> HIDE DEF q
  <1>6. q \in {-1, 0}
    <2>1. W * q < 2 * W /\ -(2 * W) < W * q
      <3>1. W * q \in Int
        BY <1>0, <1>5
      <3> QED  BY <1>0, <1>4, <1>5, <3>1 DEF W
    <2>2. q \in {-1, 0, 1}
      BY <1>0, <1>5, <2>1, NearMultiple
    <2>3. q # 1
      <3>1. ASSUME q = 1 PROVE FALSE
        <4>1. x - y = W + t
          BY <1>0, <1>4, <1>5, <3>1
        <4> QED  BY <1>0, <1>4, <4>1 DEF W
      <3> QED  BY <3>1
    <2> QED  BY <2>2, <2>3
  <1>7. (IF t < Half THEN t ELSE t - W) = x - y
    <2>1. CASE q = 0
      <3>1. x - y = t
        BY <1>0, <1>4, <1>5, <2>1
      <3> QED  BY <3>1
    <2>2. CASE q = -1
      <3>1. x - y = t - W
        BY <1>0, <1>4, <1>5, <2>2
      <3> QED  BY <1>0, <1>4, <3>1 DEF W
    <2> QED  BY <1>6, <2>1, <2>2
  <1> QED  BY <1>7 DEF Agree, Diff, Number, W, r, s, t

\* The numbers in use: each sender is at most two windows ahead of its peer.
LEMMA NumbersInUse ==
    ASSUME IInv, BInv, NEW e \in Ends
    PROVE  /\ sndUna[e] \in Nat /\ sndNxt[e] \in Nat /\ rcvNxt[e] \in Nat
           /\ SndWnd \in Nat \ {0} /\ RcvWnd \in Nat \ {0}
           /\ Half \in Nat \ {0} /\ SndWnd + RcvWnd <= Half
           /\ sndUna[e] <= sndNxt[e] /\ sndNxt[e] <= sndUna[e] + SndWnd
           /\ sndUna[e] <= rcvNxt[Peer(e)] + RcvWnd
           /\ rcvNxt[Peer(e)] \in Nat /\ rcvNxt[Peer(e)] <= sndNxt[e]
  <1>1. Peer(e) \in Ends /\ Peer(Peer(e)) = e
    BY PeerProps
  <1>2. /\ sndUna[e] \in Nat /\ sndNxt[e] \in Nat /\ rcvNxt[e] \in Nat
        /\ rcvNxt[Peer(e)] \in Nat
    BY <1>1 DEF IInv, TypeOK
  <1>3. /\ SndWnd \in Nat \ {0} /\ RcvWnd \in Nat \ {0}
        /\ Half \in Nat \ {0} /\ SndWnd + RcvWnd <= Half
    BY WndAssumption, WidthAssumption
  <1>4. /\ sndUna[e] <= sndNxt[e] /\ sndNxt[e] <= sndUna[e] + SndWnd
        /\ DOMAIN sndBuf[e] \subseteq sndUna[e]..(sndUna[e] + SndWnd - 1)
    BY DEF BInv, SentBound
  <1>5. rcvNxt[Peer(e)] <= sndNxt[e]
    BY <1>1 DEF IInv, ReceiverOK, Window
  <1>6. sndUna[e] <= rcvNxt[Peer(e)] + RcvWnd
    <2>1. CASE sndUna[e] = 0
      BY <1>2, <1>3, <2>1
    <2>2. CASE sndUna[e] # 0
      <3> DEFINE n == sndUna[e] - 1
      <3>1. n \in 0..(sndNxt[e] - 1) /\ n \notin DOMAIN sndBuf[e]
        BY <1>2, <1>4, <2>2
      <3>2. Received(Peer(e), n)
        BY <3>1 DEF IInv, NoLossAfterAck
      <3>3. DOMAIN rcvBuf[Peer(e)]
              \subseteq rcvNxt[Peer(e)]..(rcvNxt[Peer(e)] + RcvWnd - 1)
        BY <1>1 DEF BInv, KeptBound, KeptWithin
      <3>4. n < rcvNxt[Peer(e)] + RcvWnd
        BY <1>2, <1>3, <3>1, <3>2, <3>3 DEF Received
      <3> QED  BY <1>2, <1>3, <3>4
    <2> QED  BY <2>1, <2>2
  <1> QED  BY <1>2, <1>3, <1>4, <1>5, <1>6

\* ikcp_flush compares numbers within a window.
LEMMA FlushNear ==
    ASSUME IInv, BInv, NEW e \in Ends
    PROVE  FlushDecides(e)
  <1>1. SUFFICES ASSUME NEW n \in sndUna[e]..(sndUna[e] + SndWnd)
                 PROVE  Agree(sndNxt[e], n)
    BY DEF FlushDecides
  <1>2. n \in Int /\ -Half <= sndNxt[e] - n /\ sndNxt[e] - n < Half
    BY NumbersInUse
  <1> QED  BY <1>2, NumbersInUse, Near

\* ikcp_input compares numbers within both windows, unless the datagram was
\* overtaken.
LEMMA InputNear ==
    ASSUME IInv, BInv, NEW m \in net, Recent(m)
    PROVE  InputDecides(m)
  <1> DEFINE e == m.to
             p == Peer(e)
  <1>1. /\ m \in Message /\ e \in Ends /\ m.una \in Nat
        /\ m.cmd \in {"ack", "push"} => m.sn \in Nat
    BY DEF IInv, TypeOK, Message
  <1>2. p \in Ends /\ Peer(p) = e
    BY <1>1, PeerProps
  <1>3. /\ m.una <= rcvNxt[p]
        /\ m.cmd = "push" => m.sn < sndNxt[p]
        /\ m.cmd = "ack" => Received(p, m.sn)
    BY DEF IInv, DatagramOK
  <1>4. /\ sndNxt[e] - Half <= m.una
        /\ m.cmd = "ack"  => sndNxt[e] - Half <= m.sn
        /\ m.cmd = "push" => rcvNxt[e] + RcvWnd - Half <= m.sn
    BY DEF Recent
  <1>5. m.cmd = "ack" => m.sn < sndNxt[e]
    <2> SUFFICES ASSUME m.cmd = "ack" PROVE m.sn < sndNxt[e]
      OBVIOUS
    <2>1. m.sn < rcvNxt[p] \/ m.sn \in DOMAIN rcvBuf[p]
      BY <1>3 DEF Received
    <2>2. /\ rcvNxt[p] <= sndNxt[e]
          /\ \A n \in DOMAIN rcvBuf[p] : n < sndNxt[e]
      BY <1>2 DEF IInv, ReceiverOK, Window
    <2>3. m.sn \in Nat /\ rcvNxt[p] \in Nat /\ sndNxt[e] \in Nat
      BY <1>1, NumbersInUse
    <2> QED  BY <2>1, <2>2, <2>3
  <1> HIDE DEF e, p
  <1>6. ASSUME NEW n \in sndUna[e]..sndNxt[e]
        PROVE  Agree(m.una, n) /\ (m.cmd = "ack" => Agree(m.sn, n))
    <2>1. /\ n \in Nat /\ sndUna[e] <= n /\ n <= sndNxt[e]
          /\ sndNxt[e] - n < Half
      BY <1>1, <1>6, NumbersInUse
    <2>2. -Half <= m.una - n /\ m.una - n < Half
      <3>1. m.una <= sndNxt[e]
        BY <1>1, <1>3, NumbersInUse DEF p
      <3> QED  BY <1>1, <1>4, <2>1, <3>1, NumbersInUse
    <2>3. Agree(m.una, n)
      BY <1>1, <2>1, <2>2, NumbersInUse, Near
    <2>4. ASSUME m.cmd = "ack" PROVE Agree(m.sn, n)
      <3>1. m.sn \in Nat /\ -Half <= m.sn - n /\ m.sn - n < Half
        BY <1>1, <1>4, <1>5, <2>1, <2>4, NumbersInUse
      <3> QED  BY <1>1, <2>1, <3>1, NumbersInUse, Near
    <2> QED  BY <2>3, <2>4
  <1>7. ASSUME m.cmd = "push", NEW n \in rcvNxt[e]..(rcvNxt[e] + RcvWnd)
        PROVE  Agree(m.sn, n)
    <2>1. n \in Nat /\ rcvNxt[e] <= n /\ n <= rcvNxt[e] + RcvWnd /\ m.sn \in Nat
      BY <1>1, <1>7, NumbersInUse
    <2>2. sndNxt[p] <= rcvNxt[e] + RcvWnd + SndWnd /\ sndNxt[p] \in Nat
      <3>1. /\ sndNxt[p] <= sndUna[p] + SndWnd
            /\ sndUna[p] <= rcvNxt[e] + RcvWnd
            /\ sndNxt[p] \in Nat /\ sndUna[p] \in Nat /\ rcvNxt[e] \in Nat
        BY <1>2, NumbersInUse
      <3> QED  BY <1>1, <3>1, NumbersInUse
    <2>3. -Half <= m.sn - n /\ m.sn - n < Half
      BY <1>1, <1>3, <1>4, <1>7, <2>1, <2>2, NumbersInUse
    <2> QED  BY <1>1, <2>1, <2>3, NumbersInUse, Near
  <1> QED  BY <1>6, <1>7 DEF InputDecides, e

\* Half of the numbers is enough for both windows: no comparison of ikcp_flush,
\* and none of ikcp_input on a datagram that was not overtaken by half of the
\* numbers, is mistaken about a wrap, however many segments went by.
THEOREM WidthAlways == Spec => []WidthSuffices
  <1>1. IInv /\ BInv => WidthSuffices
    BY FlushNear, InputNear DEF WidthSuffices
  <1> QED  BY <1>1, Inductive, BoundsInductive, PTL

=============================================================================
