----------------------------- MODULE RstrmProofs -----------------------------
(***************************************************************************)
(* Proofs about Rstrm, for all limits and loads: the type invariant, the   *)
(* one release of a stream, that its callbacks, sends and closes implement *)
(* module Stream, and that its shutdown tells the truth.                   *)
(***************************************************************************)
EXTENDS Rstrm, FiniteSetTheorems, SequenceTheorems, WellFoundedInduction, TLAPS

\* Data among the first i elements of s.
DataIn(s, i) == {j \in 1..i : s[j].kind = "data"}
Count(s, i)  == Cardinality(DataIn(s, i))

\* Where the worker is, who closes, and who releases the stream.
Control(e) ==
    /\ pc[e] = "emit" => emits[e] # <<>>
    /\ emits[e] # <<>> => Head(emits[e]) <= Len(wire[e])
    /\ pc[e] \in {"loop", "done"} => events[e] = <<>>
    /\ pc[e] = "call" => events[e] # <<>>
    /\ pc[e] = "done" => closing[e]
    /\ closer[e] # "none" => closing[e]
    /\ closer[e] = "returned" => pc[e] = "done"
    /\ selfRelease[e] => /\ closing[e] /\ closer[e] = "none"
                         /\ pc[e] \notin {"call", "collect"}
    /\ pc[e] = "collect" => ~closing[e]
    /\ released[e] = IF closer[e] = "returned" \/ (selfRelease[e] /\ pc[e] = "done")
                     THEN 1 ELSE 0

\* Every part that was taken is in the wire or in the queue, in its place, and a
\* FIN comes after all of them.
SentOK(e) ==
    /\ \A i \in 1..Len(sendq[e]) : sendq[e][i] = accepted[e] - Len(sendq[e]) + i
    /\ Count(wire[e], Len(wire[e])) + Len(sendq[e]) = accepted[e]
    /\ \A i \in 1..Len(wire[e]) :
         /\ wire[e][i].kind = "data" => wire[e][i].part = Count(wire[e], i)
         /\ wire[e][i].kind = "fin" => shutdown[e] /\ Count(wire[e], i) = accepted[e]

\* The callbacks made and to make.
Said(e) == got[e] \o events[e]

\* The callbacks a are those of what the peer has sent: no part is left out, eof
\* comes after all parts, and nothing after an error.
InTurn(a, all, told, over, ends) ==
    \A k \in 1..Len(a) :
        /\ a[k].kind = "data" => a[k].part = Count(a, k)
        /\ a[k].kind # "data" => a[k].part = 0
        /\ a[k].kind = "eof" => /\ over /\ ends /\ Count(a, k) = all
                                /\ \A l \in k + 1..Len(a) : a[l].kind \notin {"data", "eof"}
        /\ a[k].kind = "error" => told /\ k = Len(a)

ToldOK(e) ==
    /\ read[e] <= out[Peer(e)]
    /\ InTurn(Said(e), accepted[Peer(e)], errorDelivered[e], remoteEof[e], shutdown[Peer(e)])
    /\ Count(Said(e), Len(Said(e))) <= Count(wire[Peer(e)], read[e])
    /\ failed[e] = "ok" /\ ~closing[e] =>
           Count(Said(e), Len(Said(e))) = Count(wire[Peer(e)], read[e])
    /\ errorDelivered[e] => failed[e] # "ok" /\ pc[e] # "collect"

Loaded == \E load \in Loads : budget.parts = load.parts

IInv ==
    /\ TypeOK /\ Loaded
    /\ \A e \in Ends : Control(e) /\ SentOK(e) /\ ToldOK(e)

-----------------------------------------------------------------------------
(* The two ends, and what can be counted. *)

LEMMA PeerProps ==
    ASSUME NEW e \in Ends
    PROVE  /\ Peer(e) \in Ends /\ Peer(e) # e /\ Peer(Peer(e)) = e
           /\ \A x \in Ends : x = e \/ x = Peer(e)
<1>1. PICK a \in Ends, b \in Ends : a # b /\ Ends = {a, b}
  BY EndsAssumption
<1>2. \A x \in Ends : Peer(x) = IF x = a THEN b ELSE a
  BY <1>1 DEF Peer
<1> QED
  BY <1>1, <1>2

LEMMA CountNat ==
    ASSUME NEW s, NEW i \in Nat
    PROVE  IsFiniteSet(DataIn(s, i)) /\ Count(s, i) \in Nat
<1>1. IsFiniteSet(1..i)
  BY FS_Interval
<1>2. DataIn(s, i) \subseteq 1..i
  BY DEF DataIn
<1>3. IsFiniteSet(DataIn(s, i))
  BY <1>1, <1>2, FS_Subset
<1> QED
  BY <1>3, FS_CardinalityType DEF Count

LEMMA CountZero ==
    ASSUME NEW s
    PROVE  Count(s, 0) = 0
<1>1. DataIn(s, 0) = {}
  BY DEF DataIn
<1> QED
  BY <1>1, FS_EmptySet DEF Count

LEMMA CountNext ==
    ASSUME NEW s, NEW i \in Nat
    PROVE  /\ s[i + 1].kind = "data" => Count(s, i + 1) = Count(s, i) + 1
           /\ s[i + 1].kind # "data" => Count(s, i + 1) = Count(s, i)
<1>1. CASE s[i + 1].kind = "data"
  <2>1. DataIn(s, i + 1) = DataIn(s, i) \cup {i + 1}
    BY <1>1 DEF DataIn
  <2>2. i + 1 \notin DataIn(s, i)
    BY DEF DataIn
  <2> QED
    BY <1>1, <2>1, <2>2, CountNat, FS_AddElement DEF Count
<1>2. CASE s[i + 1].kind # "data"
  <2>1. DataIn(s, i + 1) = DataIn(s, i)
    BY <1>2 DEF DataIn
  <2> QED
    BY <1>2, <2>1 DEF Count
<1> QED
  BY <1>1, <1>2

\* The count of a prefix is that of the whole.
LEMMA CountSame ==
    ASSUME NEW s, NEW t, NEW i \in Nat, \A j \in 1..i : s[j] = t[j]
    PROVE  Count(s, i) = Count(t, i)
<1>1. DataIn(s, i) = DataIn(t, i)
  BY DEF DataIn
<1> QED
  BY <1>1 DEF Count

LEMMA CountMono ==
    ASSUME NEW s, NEW i \in Nat, NEW j \in Nat, i <= j
    PROVE  Count(s, i) <= Count(s, j)
<1>1. DataIn(s, i) \subseteq DataIn(s, j)
  BY DEF DataIn
<1> QED
  BY <1>1, CountNat, FS_Subset DEF Count

\* A run of data.
LEMMA CountRun ==
    ASSUME NEW s, NEW i \in Nat, NEW m \in Nat,
           \A j \in i + 1..i + m : s[j].kind = "data"
    PROVE  Count(s, i + m) = Count(s, i) + m
<1> DEFINE run == i + 1..i + m
<1>1. DataIn(s, i + m) = DataIn(s, i) \cup run
  BY DEF DataIn
<1>2. DataIn(s, i) \cap run = {}
  BY DEF DataIn
<1>3. IsFiniteSet(run) /\ Cardinality(run) = m
  <2>1. i + 1 \in Int /\ i + m \in Int
    OBVIOUS
  <2>2. Cardinality(run) = IF i + 1 > i + m THEN 0 ELSE (i + m) - (i + 1) + 1
    BY <2>1, FS_Interval
  <2> QED
    BY <2>1, <2>2, FS_Interval
<1>4. IsFiniteSet(DataIn(s, i))
  BY CountNat
<1> HIDE DEF run
<1>5. Cardinality(DataIn(s, i) \cup run)
        = Cardinality(DataIn(s, i)) + Cardinality(run) - Cardinality(DataIn(s, i) \cap run)
  BY <1>3, <1>4, FS_Union
<1>6. Cardinality(DataIn(s, i) \cap run) = 0
  BY <1>2, FS_EmptySet
<1>7. Count(s, i) \in Nat /\ Count(s, i) = Cardinality(DataIn(s, i))
  BY CountNat DEF Count
<1>8. Count(s, i + m) = Cardinality(DataIn(s, i) \cup run)
  BY <1>1 DEF Count
<1> QED
  BY <1>3, <1>5, <1>6, <1>7, <1>8

-----------------------------------------------------------------------------
(* The types. *)

\* The flags of TypeOK, one by one.
Flags ==
    /\ shutdown \in [Ends -> BOOLEAN] /\ finSent \in [Ends -> BOOLEAN]
    /\ finAcked \in [Ends -> BOOLEAN] /\ remoteEof \in [Ends -> BOOLEAN]
    /\ full \in [Ends -> BOOLEAN] /\ errorDelivered \in [Ends -> BOOLEAN]
    /\ closing \in [Ends -> BOOLEAN] /\ selfRelease \in [Ends -> BOOLEAN]

\* The rest.
Kinds ==
    /\ accepted \in [Ends -> Nat] /\ read \in [Ends -> Nat]
    /\ out \in [Ends -> Nat] /\ acked \in [Ends -> Nat]
    /\ sendq \in [Ends -> Seq(Nat)] /\ wire \in [Ends -> Seq(Record)]
    /\ \A e \in Ends : /\ Len(sendq[e]) <= MaxPending
                       /\ acked[e] <= out[e] /\ out[e] <= Len(wire[e])
    /\ events \in [Ends -> Seq(Event)] /\ got \in [Ends -> Seq(Event)]
    /\ emits \in [Ends -> Seq(Nat)]
    /\ failed \in [Ends -> {"ok", "EPROTO", "ETRANSPORT", "ENOMEM"}]
    /\ pc \in [Ends -> {"loop", "collect", "emit", "check", "call", "in", "done"}]
    /\ closer \in [Ends -> {"none", "joining", "returned"}]
    /\ inbox \in [Ends -> SUBSET {"good", "bad", "alien"}]
    /\ released \in [Ends -> Nat]
    /\ budget \in Load

LEMMA TypeParts == TypeOK <=> Kinds /\ Flags
<1>1. (\A flag \in {shutdown, finSent, finAcked, remoteEof, full, errorDelivered,
                    closing, selfRelease} : flag \in [Ends -> BOOLEAN]) <=> Flags
  BY DEF Flags
<1> QED
  BY <1>1 DEF TypeOK, Kinds

LEMMA FlagsStep ==
    ASSUME Flags, [Next]_vars
    PROVE  Flags'
<1> USE DEF Flags, sendVars, wireVars, peerVars, failVars, closeVars, workVars
<1>0. CASE UNCHANGED vars
  BY <1>0 DEF vars
<1> SUFFICES ASSUME NEW e \in Ends, Api(e) \/ Worker(e)
             PROVE  Flags'
  BY <1>0 DEF Next
<1>1. ASSUME NEW k \in budget.parts, Send(e, k)
      PROVE  Flags'
  BY <1>1 DEF Send, SendFull, SendQueued
<1>2. CASE Shutdown(e)
  BY <1>2 DEF Shutdown
<1>3. ASSUME NEW kind, Input(e, kind)
      PROVE  Flags'
  BY <1>3 DEF Input
<1>4. CASE CloseOutside(e) \/ CloseJoined(e) \/ CloseInside(e)
  BY <1>4 DEF CloseOutside, CloseJoined, CloseInside
<1>5. CASE Exit(e) \/ ReportError(e) \/ RefuseInput(e) \/ FeedNoMem(e)
  BY <1>5 DEF Exit, ReportError, RefuseInput, FeedNoMem
<1>6. CASE Feed(e)
  <2>1. PICK fin \in BOOLEAN : finSent' = [finSent EXCEPT ![e] = @ \/ fin]
    BY <1>6 DEF Feed, FinDue
  <2>2. finSent' \in [Ends -> BOOLEAN]
    BY <2>1
  <2> QED
    BY <1>6, <2>2 DEF Feed
<1>7. CASE Collect(e)
  BY <1>7 DEF Collect, CollectData, CollectFin, CollectFinAck
<1>8. CASE CollectNoMem(e)
  BY <1>8 DEF CollectNoMem
<1>9. CASE CollectUnexpected(e) \/ Unlock(e) \/ Emit(e) \/ EmitRefused(e) \/ Check(e) \/ Call(e)
  BY <1>9 DEF CollectUnexpected, Unlock, Emit, EmitRefused, Check, Call
<1> QED
  BY <1>1, <1>2, <1>3, <1>4, <1>5, <1>6, <1>7, <1>8, <1>9 DEF Api, Worker

\* A batch of records is appended at once or part by part.
LEMMA RecordsAssociative ==
    ASSUME NEW s \in Seq(Record), NEW t \in Seq(Record), NEW u \in Seq(Record)
    PROVE  (s \o t) \o u = s \o (t \o u)
OBVIOUS

\* One send less, and one fault less, is a load again.
LEMMA SpendProps ==
    ASSUME budget \in Load
    PROVE  /\ budget.nomem > 0 /\ Spend("nomem") => budget' \in Load
           /\ budget.refused > 0 /\ Spend("refused") => budget' \in Load
BY DEF Load, Spend

LEMMA FailingProps ==
    ASSUME failed \in [Ends -> {"ok", "EPROTO", "ETRANSPORT", "ENOMEM"}], NEW e,
           NEW status \in {"EPROTO", "ETRANSPORT", "ENOMEM"}
    PROVE  Failing(e, status) \in [Ends -> {"ok", "EPROTO", "ETRANSPORT", "ENOMEM"}]
BY DEF Failing

LEMMA SendKinds ==
    ASSUME Kinds, NEW e \in Ends, NEW k \in budget.parts, Send(e, k)
    PROVE  Kinds'
<1> USE DEF sendVars, wireVars, peerVars, failVars, closeVars, workVars
<1>1. k \in Nat /\ budget \in Load
  BY DEF Kinds, Load
<1>2. UNCHANGED <<read, out, acked, wire, events, got, emits, failed, pc, closer,
                  inbox, released>>
  BY DEF Send
<1>3. budget' \in Load
  <2>1. budget.send \in [Ends -> Nat] /\ budget.send[e] > 0
    BY <1>1 DEF Load, Send
  <2>2. [budget.send EXCEPT ![e] = @ - 1] \in [Ends -> Nat]
    BY <2>1
  <2>3. budget' = [budget EXCEPT !.send = [budget.send EXCEPT ![e] = @ - 1]]
    BY <1>1 DEF Send, Load
  <2> QED
    BY <1>1, <2>2, <2>3 DEF Load
<1>4. CASE SendFull(e, k)
  BY <1>2, <1>3, <1>4 DEF SendFull, Kinds
<1>5. CASE SendQueued(e, k)
  <2> DEFINE more == [i \in 1..k |-> accepted[e] + i]
  <2>1. accepted[e] \in Nat /\ sendq[e] \in Seq(Nat)
    BY DEF Kinds
  <2>2. more \in Seq(Nat) /\ Len(more) = k
    BY <1>1, <2>1
  <2>3. sendq' = [sendq EXCEPT ![e] = @ \o more] /\ accepted' = [accepted EXCEPT ![e] = @ + k]
    BY <1>5 DEF SendQueued
  <2> HIDE DEF more
  <2>4. sendq[e] \o more \in Seq(Nat) /\ Len(sendq[e] \o more) = Len(sendq[e]) + k
    BY <2>1, <2>2, ConcatProperties
  <2>5. k <= MaxPending - Len(sendq[e])
    BY <1>1, <1>5, <2>1, LimitsAssumption DEF SendQueued, Full
  <2>6. Len(sendq[e] \o more) <= MaxPending
    BY <1>1, <2>1, <2>4, <2>5, LimitsAssumption
  <2>7. sendq' \in [Ends -> Seq(Nat)] /\ accepted' \in [Ends -> Nat]
    BY <1>1, <2>3, <2>4 DEF Kinds
  <2>8. \A x \in Ends : Len(sendq'[x]) <= MaxPending
    BY <2>3, <2>6 DEF Kinds
  <2> QED
    BY <1>2, <1>3, <2>7, <2>8 DEF Kinds
<1> QED
  BY <1>4, <1>5 DEF Send

\* What a feed does to the queue and to the wire: the first k parts of the queue
\* are moved, and then perhaps a FIN.
Moved(e, ack, k, fin, more) ==
    /\ acked[e] <= ack /\ ack <= out[e] /\ acked' = [acked EXCEPT ![e] = ack]
    /\ k <= Len(sendq[e])
    /\ sendq' = [sendq EXCEPT ![e] = SubSeq(@, k + 1, Len(@))]
    /\ more \in Seq(Record) /\ Len(more) = k + (IF fin THEN 1 ELSE 0)
    /\ \A i \in 1..k : more[i] = Data(sendq[e][i])
    /\ fin => more[k + 1] = Fin /\ shutdown[e] /\ ~finSent[e] /\ k = Len(sendq[e])
    /\ finSent' = [finSent EXCEPT ![e] = @ \/ fin]
    /\ wire' = [wire EXCEPT ![e] = @ \o more]
    /\ \/ emits' = [emits EXCEPT ![e] = <<>>]
       \/ emits' = [emits EXCEPT ![e] = <<Len(wire'[e])>>]

LEMMA FeedProps ==
    ASSUME Kinds, NEW e \in Ends, Feed(e)
    PROVE  \E ack \in Nat, k \in Nat, fin \in BOOLEAN, more \in Seq(Record) :
               Moved(e, ack, k, fin, more)
<1>1. PICK ack \in acked[e]..out[e], flush \in BOOLEAN :
         LET k   == Moving(e, ack)
             fin == FinDue(e, ack, k)
         IN  /\ acked' = [acked EXCEPT ![e] = ack]
             /\ sendq' = [sendq EXCEPT ![e] = SubSeq(@, k + 1, Len(@))]
             /\ wire' = [wire EXCEPT ![e] =
                    @ \o [i \in 1..k |-> Data(sendq[e][i])]
                      \o (IF fin THEN <<Fin>> ELSE <<>>)]
             /\ finSent' = [finSent EXCEPT ![e] = @ \/ fin]
             /\ emits' = [emits EXCEPT ![e] =
                              IF flush THEN <<Len(wire'[e])>> ELSE <<>>]
  BY DEF Feed
<1> DEFINE k    == Moving(e, ack)
           fin  == FinDue(e, ack, k)
           run  == [i \in 1..k |-> Data(sendq[e][i])]
           last == IF fin THEN <<Fin>> ELSE <<>>
           more == run \o last
<1>2. /\ sendq[e] \in Seq(Nat) /\ wire[e] \in Seq(Record)
      /\ acked[e] \in Nat /\ out[e] \in Nat /\ wire \in [Ends -> Seq(Record)]
  BY DEF Kinds
<1>3. ack \in Nat /\ acked[e] <= ack /\ ack <= out[e]
  BY <1>2
<1>4. k \in Nat /\ k <= Len(sendq[e])
  BY <1>2, <1>3, LimitsAssumption DEF Moving, Lesser
<1>5. fin \in BOOLEAN /\ (fin => shutdown[e] /\ ~finSent[e] /\ k = Len(sendq[e]))
  BY DEF FinDue
<1>6. /\ acked' = [acked EXCEPT ![e] = ack]
      /\ sendq' = [sendq EXCEPT ![e] = SubSeq(@, k + 1, Len(@))]
      /\ wire' = [wire EXCEPT ![e] = wire[e] \o run \o last]
      /\ finSent' = [finSent EXCEPT ![e] = @ \/ fin]
      /\ \/ emits' = [emits EXCEPT ![e] = <<>>]
         \/ emits' = [emits EXCEPT ![e] = <<Len(wire'[e])>>]
  BY <1>1
<1> HIDE DEF k, fin
<1>7. /\ run \in Seq(Record) /\ Len(run) = k
      /\ \A i \in 1..k : run[i] = Data(sendq[e][i])
  BY <1>2, <1>4 DEF Data, Record
<1>8. /\ last \in Seq(Record) /\ Len(last) = IF fin THEN 1 ELSE 0
      /\ fin => last[1] = Fin
  <2>1. Fin \in Record
    BY DEF Fin, Record
  <2>2. CASE fin
    BY <2>1, <2>2
  <2>3. CASE ~fin
    BY <2>3
  <2> QED
    BY <1>5, <2>2, <2>3
<1> HIDE DEF run, last
<1>9. /\ more \in Seq(Record) /\ Len(more) = k + (IF fin THEN 1 ELSE 0)
      /\ \A i \in 1..k : more[i] = Data(sendq[e][i])
      /\ fin => more[k + 1] = Fin
  <2>1. /\ more \in Seq(Record) /\ Len(more) = Len(run) + Len(last)
        /\ \A i \in 1..Len(run) + Len(last) :
             more[i] = IF i <= Len(run) THEN run[i] ELSE last[i - Len(run)]
    BY <1>7, <1>8, ConcatProperties
  <2> HIDE DEF more
  <2>2. CASE fin
    <3>1. Len(last) = 1 /\ last[1] = Fin /\ k + 1 \in 1..k + 1
      BY <1>4, <1>8, <2>2
    <3>2. more[k + 1] = last[(k + 1) - k]
      BY <1>4, <1>7, <2>1, <3>1
    <3>3. more[k + 1] = Fin
      BY <1>4, <3>1, <3>2
    <3> QED
      BY <1>4, <1>7, <2>1, <2>2, <3>1, <3>3
  <2>3. CASE ~fin
    BY <1>4, <1>7, <1>8, <2>1, <2>3
  <2> QED
    BY <1>5, <2>2, <2>3
<1>10. wire[e] \o run \o last = wire[e] \o more
  <2>1. wire[e] \in Seq(Record) /\ run \in Seq(Record) /\ last \in Seq(Record)
    BY <1>2, <1>7, <1>8
  <2>2. (wire[e] \o run) \o last = wire[e] \o (run \o last)
    BY <2>1, RecordsAssociative
  <2> QED
    BY <2>2
<1> HIDE DEF more
<1>11. Moved(e, ack, k, fin, more)
  BY <1>3, <1>4, <1>5, <1>6, <1>9, <1>10 DEF Moved
<1>12. more \in Seq(Record)
  BY <1>9
<1> QED
  BY <1>3, <1>4, <1>5, <1>11, <1>12

LEMMA FeedKinds ==
    ASSUME Kinds, NEW e \in Ends, Feed(e)
    PROVE  Kinds'
<1> USE DEF sendVars, wireVars, peerVars, failVars, closeVars, workVars
<1>1. PICK ack \in Nat, k \in Nat, fin \in BOOLEAN, more \in Seq(Record) :
         Moved(e, ack, k, fin, more)
  BY FeedProps
<1>2. UNCHANGED <<accepted, read, out, events, got, failed, closer, inbox, released, budget>>
  BY DEF Feed
<1>3. pc' = [pc EXCEPT ![e] = "collect"]
  BY DEF Feed
<1>4. /\ sendq[e] \in Seq(Nat) /\ wire[e] \in Seq(Record)
      /\ sendq \in [Ends -> Seq(Nat)] /\ wire \in [Ends -> Seq(Record)]
      /\ acked \in [Ends -> Nat] /\ emits \in [Ends -> Seq(Nat)]
  BY DEF Kinds
<1>5. /\ SubSeq(sendq[e], k + 1, Len(sendq[e])) \in Seq(Nat)
      /\ Len(SubSeq(sendq[e], k + 1, Len(sendq[e]))) = Len(sendq[e]) - k
  BY <1>1, <1>4 DEF Moved
<1>6. wire[e] \o more \in Seq(Record) /\ Len(wire[e] \o more) >= Len(wire[e])
  BY <1>1, <1>4, ConcatProperties DEF Moved
<1>7. sendq' \in [Ends -> Seq(Nat)] /\ Len(sendq'[e]) = Len(sendq[e]) - k
  BY <1>1, <1>4, <1>5 DEF Moved
<1>8. wire' \in [Ends -> Seq(Record)] /\ Len(wire'[e]) >= Len(wire[e])
  BY <1>1, <1>4, <1>6 DEF Moved
<1>9. acked' \in [Ends -> Nat] /\ acked'[e] <= out[e]
  BY <1>1, <1>4 DEF Moved
<1>10. emits' \in [Ends -> Seq(Nat)]
  <2>1. Len(wire'[e]) \in Nat
    BY <1>8
  <2>2. \/ emits' = [emits EXCEPT ![e] = <<>>]
        \/ emits' = [emits EXCEPT ![e] = <<Len(wire'[e])>>]
    BY <1>1 DEF Moved
  <2>3. <<>> \in Seq(Nat) /\ <<Len(wire'[e])>> \in Seq(Nat)
    BY <2>1
  <2> QED
    BY <1>4, <2>2, <2>3
<1>11. \A x \in Ends : x # e => UNCHANGED <<sendq[x], wire[x], acked[x]>>
  BY <1>1, <1>4 DEF Moved
<1>12. \A x \in Ends : /\ Len(sendq'[x]) <= MaxPending
                       /\ acked'[x] <= out'[x] /\ out'[x] <= Len(wire'[x])
  <2>1. Len(sendq[e]) <= MaxPending /\ out[e] <= Len(wire[e]) /\ out[e] \in Nat
    BY DEF Kinds
  <2>2. Len(sendq'[e]) <= MaxPending
    BY <1>4, <1>7, <2>1, LimitsAssumption
  <2>3. out[e] <= Len(wire'[e])
    BY <1>4, <1>8, <2>1
  <2> QED
    BY <1>2, <1>9, <1>11, <2>2, <2>3 DEF Kinds
<1>13. pc' \in [Ends -> {"loop", "collect", "emit", "check", "call", "in", "done"}]
  BY <1>3 DEF Kinds
<1> HIDE DEF sendVars, wireVars, peerVars, failVars, closeVars, workVars
<1> QED
  BY <1>2, <1>7, <1>8, <1>9, <1>10, <1>12, <1>13 DEF Kinds

\* The record that is read next.
LEMMA IncomingProps ==
    ASSUME Kinds, NEW e \in Ends, Readable(e)
    PROVE  /\ read[e] \in Nat /\ read[e] + 1 <= out[Peer(e)]
           /\ read[e] + 1 \in 1..Len(wire[Peer(e)])
           /\ Incoming(e) = wire[Peer(e)][read[e] + 1] /\ Incoming(e) \in Record
<1>1. Peer(e) \in Ends
  BY PeerProps
<1>2. /\ read[e] \in Nat /\ out[Peer(e)] \in Nat /\ wire[Peer(e)] \in Seq(Record)
      /\ out[Peer(e)] <= Len(wire[Peer(e)]) /\ read[e] < out[Peer(e)]
  BY <1>1 DEF Kinds, Readable
<1>3. read[e] + 1 <= out[Peer(e)] /\ read[e] + 1 \in 1..Len(wire[Peer(e)])
  BY <1>2
<1> QED
  BY <1>2, <1>3 DEF Incoming

\* What reading does to the wire and to the events: perhaps an answer, and
\* perhaps an event.
Answered(e) == wire' = [wire EXCEPT ![e] = Append(@, FinAck)]

LEMMA AnsweredProps ==
    ASSUME Kinds, NEW e \in Ends, UNCHANGED wire \/ Answered(e)
    PROVE  /\ wire' \in [Ends -> Seq(Record)]
           /\ \A x \in Ends : /\ Len(wire'[x]) >= Len(wire[x])
                              /\ \A i \in 1..Len(wire[x]) : wire'[x][i] = wire[x][i]
                              /\ \A i \in Len(wire[x]) + 1..Len(wire'[x]) : wire'[x][i] = FinAck
<1>1. wire \in [Ends -> Seq(Record)] /\ FinAck \in Record
  BY DEF Kinds, FinAck, Record
<1>2. CASE UNCHANGED wire
  BY <1>1, <1>2
<1>3. CASE Answered(e)
  BY <1>1, <1>3 DEF Answered
<1> QED
  BY <1>2, <1>3

LEMMA CollectKinds ==
    ASSUME Kinds, NEW e \in Ends, Collect(e)
    PROVE  Kinds'
<1> USE DEF sendVars, wireVars, peerVars, failVars, closeVars, workVars
<1>1. UNCHANGED <<accepted, sendq, out, acked, got, emits, failed, pc, closer, inbox,
                  released, budget>>
  BY DEF Collect
<1>2. read' \in [Ends -> Nat]
  BY DEF Collect, Kinds
<1>3. UNCHANGED wire \/ Answered(e)
  BY DEF Collect, CollectData, CollectFin, CollectFinAck, Answered
<1>4. /\ wire' \in [Ends -> Seq(Record)]
      /\ \A x \in Ends : Len(wire'[x]) >= Len(wire[x])
  BY <1>3, AnsweredProps
<1>5. events' \in [Ends -> Seq(Event)]
  <2>1. events \in [Ends -> Seq(Event)] /\ Eof \in Event
    BY DEF Kinds, Eof, Event
  <2>2. CASE CollectData(e)
    <3>1. Readable(e)
      BY DEF Collect
    <3>2. Incoming(e) \in Event
      BY <2>2, <3>1, IncomingProps DEF CollectData, Record, Event
    <3> QED
      BY <2>1, <2>2, <3>2 DEF CollectData
  <2>3. CASE CollectFin(e)
    BY <2>1, <2>3 DEF CollectFin
  <2>4. CASE CollectFinAck(e)
    BY <2>1, <2>4 DEF CollectFinAck
  <2> QED
    BY <2>2, <2>3, <2>4 DEF Collect
<1>6. \A x \in Ends : /\ acked[x] <= out[x] /\ out[x] <= Len(wire'[x])
  <2> SUFFICES ASSUME NEW x \in Ends
               PROVE  acked[x] <= out[x] /\ out[x] <= Len(wire'[x])
    OBVIOUS
  <2>1. /\ acked[x] <= out[x] /\ out[x] <= Len(wire[x]) /\ out[x] \in Nat
        /\ wire[x] \in Seq(Record) /\ wire'[x] \in Seq(Record)
    BY <1>4 DEF Kinds
  <2>2. Len(wire[x]) \in Nat /\ Len(wire'[x]) \in Nat /\ Len(wire'[x]) >= Len(wire[x])
    BY <1>4, <2>1
  <2> QED
    BY <2>1, <2>2
<1> HIDE DEF sendVars, wireVars, peerVars, failVars, closeVars, workVars
<1> QED
  BY <1>1, <1>2, <1>4, <1>5, <1>6 DEF Kinds

LEMMA CollectNoMemKinds ==
    ASSUME Kinds, NEW e \in Ends, CollectNoMem(e)
    PROVE  Kinds'
<1> USE DEF sendVars, wireVars, peerVars, failVars, closeVars, workVars
<1>1. UNCHANGED <<accepted, sendq, out, acked, events, got, emits, pc, closer, inbox,
                  released>>
  BY DEF CollectNoMem
<1>2. read' \in [Ends -> Nat]
  <2>1. read \in [Ends -> Nat]
    BY DEF Kinds
  <2>2. UNCHANGED read \/ read' = [read EXCEPT ![e] = @ + 1]
    BY DEF CollectNoMem
  <2> QED
    BY <2>1, <2>2
<1>3. UNCHANGED wire \/ Answered(e)
  BY DEF CollectNoMem, Answered
<1>4. /\ wire' \in [Ends -> Seq(Record)]
      /\ \A x \in Ends : Len(wire'[x]) >= Len(wire[x])
  BY <1>3, AnsweredProps
<1>5. failed' \in [Ends -> {"ok", "EPROTO", "ETRANSPORT", "ENOMEM"}] /\ budget' \in Load
  BY FailingProps, SpendProps DEF CollectNoMem, Kinds
<1>6. \A x \in Ends : /\ acked[x] <= out[x] /\ out[x] <= Len(wire'[x])
  <2> SUFFICES ASSUME NEW x \in Ends
               PROVE  acked[x] <= out[x] /\ out[x] <= Len(wire'[x])
    OBVIOUS
  <2>1. /\ acked[x] <= out[x] /\ out[x] <= Len(wire[x]) /\ out[x] \in Nat
        /\ wire[x] \in Seq(Record) /\ wire'[x] \in Seq(Record)
    BY <1>4 DEF Kinds
  <2>2. Len(wire[x]) \in Nat /\ Len(wire'[x]) \in Nat /\ Len(wire'[x]) >= Len(wire[x])
    BY <1>4, <2>1
  <2> QED
    BY <2>1, <2>2
<1> HIDE DEF sendVars, wireVars, peerVars, failVars, closeVars, workVars
<1> QED
  BY <1>1, <1>2, <1>4, <1>5, <1>6 DEF Kinds

LEMMA EmitKinds ==
    ASSUME Kinds, NEW e \in Ends, Control(e), Emit(e) \/ EmitRefused(e)
    PROVE  Kinds'
<1> USE DEF sendVars, wireVars, peerVars, failVars, closeVars, workVars
<1>1. UNCHANGED <<accepted, sendq, acked, read, wire, events, got, closer, inbox, released>>
  BY DEF Emit, EmitRefused
<1>2. PICK up \in out[e]..Head(emits[e]) : out' = [out EXCEPT ![e] = up]
  BY DEF Emit, EmitRefused
<1>3. emits' \in [Ends -> Seq(Nat)]
  <2>1. emits \in [Ends -> Seq(Nat)] /\ emits' = [emits EXCEPT ![e] = <<>>]
    BY DEF Emit, EmitRefused, Kinds
  <2> QED
    BY <2>1
<1>4. pc' \in [Ends -> {"loop", "collect", "emit", "check", "call", "in", "done"}]
  <2>1. /\ pc \in [Ends -> {"loop", "collect", "emit", "check", "call", "in", "done"}]
        /\ pc' = [pc EXCEPT ![e] = Unlocked(<<>>, events[e])]
    BY DEF Emit, EmitRefused, Kinds
  <2>2. Unlocked(<<>>, events[e]) \in {"emit", "check", "loop"}
    BY DEF Unlocked
  <2> QED
    BY <2>1, <2>2
<1>5. failed' \in [Ends -> {"ok", "EPROTO", "ETRANSPORT", "ENOMEM"}] /\ budget' \in Load
  <2>1. failed \in [Ends -> {"ok", "EPROTO", "ETRANSPORT", "ENOMEM"}] /\ budget \in Load
    BY DEF Kinds
  <2>2. CASE Emit(e)
    BY <2>1, <2>2 DEF Emit
  <2>3. CASE EmitRefused(e)
    <3>1. /\ failed' = Failing(e, "ETRANSPORT")
          /\ budget.refused > 0 /\ Spend("refused")
      BY <2>3 DEF EmitRefused
    <3>2. failed' \in [Ends -> {"ok", "EPROTO", "ETRANSPORT", "ENOMEM"}]
      BY <2>1, <3>1, FailingProps
    <3>3. budget' \in Load
      BY <2>1, <3>1, SpendProps
    <3> QED
      BY <3>2, <3>3
  <2> QED
    BY <2>2, <2>3
<1>6. /\ out[e] \in Nat /\ acked[e] \in Nat /\ wire[e] \in Seq(Record)
      /\ emits[e] \in Seq(Nat) /\ emits[e] # <<>>
      /\ acked[e] <= out[e] /\ Head(emits[e]) <= Len(wire[e])
  BY DEF Kinds, Control, Emit, EmitRefused
<1>7. up \in Nat /\ acked[e] <= up /\ up <= Len(wire[e])
  BY <1>6
<1>8. out' \in [Ends -> Nat]
  BY <1>2, <1>7 DEF Kinds
<1>9. \A x \in Ends : acked[x] <= out'[x] /\ out'[x] <= Len(wire[x])
  BY <1>2, <1>7 DEF Kinds
<1> HIDE DEF sendVars, wireVars, peerVars, failVars, closeVars, workVars
<1> QED
  BY <1>1, <1>3, <1>4, <1>5, <1>8, <1>9 DEF Kinds

LEMMA KindsStep ==
    ASSUME Kinds, [Next]_vars, \A e \in Ends : Control(e)
    PROVE  Kinds'
<1> USE DEF sendVars, wireVars, peerVars, failVars, closeVars, workVars
<1>0. CASE UNCHANGED vars
  BY <1>0 DEF vars, Kinds
<1> SUFFICES ASSUME NEW e \in Ends, Api(e) \/ Worker(e)
             PROVE  Kinds'
  BY <1>0 DEF Next
<1>1. CASE Shutdown(e)
  BY <1>1 DEF Shutdown, Kinds
<1>2. ASSUME NEW kind \in {"good", "bad", "alien"}, Input(e, kind)
      PROVE  Kinds'
  <2>1. inbox' \in [Ends -> SUBSET {"good", "bad", "alien"}]
    BY <1>2 DEF Input, Kinds
  <2>2. budget' \in Load
    <3>1. budget \in Load
      BY DEF Kinds
    <3>2. \/ UNCHANGED budget
          \/ budget.bad > 0 /\ budget' = [budget EXCEPT !.bad = @ - 1, !.foreign = TRUE]
      BY <1>2 DEF Input
    <3>3. ASSUME budget.bad > 0, budget' = [budget EXCEPT !.bad = @ - 1, !.foreign = TRUE]
          PROVE  budget' \in Load
      <4>1. budget.bad - 1 \in Nat
        BY <3>1, <3>3 DEF Load
      <4>2. budget' = [budget EXCEPT !.bad = budget.bad - 1, !.foreign = TRUE]
        BY <3>3
      <4> QED
        BY <3>1, <4>1, <4>2 DEF Load
    <3> QED
      BY <3>1, <3>2, <3>3
  <2> QED
    BY <1>2, <2>1, <2>2 DEF Input, Kinds
<1>3. CASE CloseOutside(e) \/ CloseJoined(e) \/ CloseInside(e)
  <2>1. closer' \in [Ends -> {"none", "joining", "returned"}]
    BY <1>3 DEF CloseOutside, CloseJoined, CloseInside, Kinds
  <2>2. released' \in [Ends -> Nat]
    <3>1. released \in [Ends -> Nat]
      BY DEF Kinds
    <3>2. UNCHANGED released \/ released' = [released EXCEPT ![e] = @ + 1]
      BY <1>3 DEF CloseOutside, CloseJoined, CloseInside
    <3> QED
      BY <3>1, <3>2
  <2>3. UNCHANGED <<sendVars, wireVars, workVars, failed, inbox, budget>>
    BY <1>3 DEF CloseOutside, CloseJoined, CloseInside
  <2> QED
    BY <2>1, <2>2, <2>3 DEF Kinds
<1>4. CASE Exit(e)
  <2>1. pc' \in [Ends -> {"loop", "collect", "emit", "check", "call", "in", "done"}]
    BY <1>4 DEF Exit, Kinds
  <2>2. released' \in [Ends -> Nat]
    <3>1. released \in [Ends -> Nat]
      BY DEF Kinds
    <3>2. released' = [released EXCEPT
                         ![e] = IF selfRelease[e] THEN released[e] + 1 ELSE released[e]]
      BY <1>4 DEF Exit
    <3> QED
      BY <3>1, <3>2
  <2>3. UNCHANGED <<sendVars, wireVars, failed, emits, events, got, closer, inbox, budget>>
    BY <1>4 DEF Exit
  <2> QED
    BY <2>1, <2>2, <2>3 DEF Kinds
<1>5. CASE ReportError(e)
  <2>1. Failure \in Event
    BY DEF Failure, Event
  <2>2. events' \in [Ends -> Seq(Event)] /\ budget' \in Load
    <3>1. events \in [Ends -> Seq(Event)] /\ budget \in Load
      BY DEF Kinds
    <3>2. CASE events' = [events EXCEPT ![e] = <<Failure>>] /\ UNCHANGED budget
      <4>1. <<Failure>> \in Seq(Event)
        BY <2>1
      <4> QED
        BY <3>1, <3>2, <4>1
    <3>3. CASE budget.nomem > 0 /\ Spend("nomem") /\ UNCHANGED events
      BY <3>1, <3>3, SpendProps
    <3> QED
      BY <1>5, <3>2, <3>3 DEF ReportError
  <2>3. pc' \in [Ends -> {"loop", "collect", "emit", "check", "call", "in", "done"}]
    BY <1>5 DEF ReportError, Kinds, Unlocked
  <2> QED
    BY <1>5, <2>2, <2>3 DEF ReportError, Kinds
<1>6. CASE RefuseInput(e) \/ FeedNoMem(e)
  <2>1. failed' \in [Ends -> {"ok", "EPROTO", "ETRANSPORT", "ENOMEM"}] /\ budget' \in Load
    BY <1>6, FailingProps, SpendProps DEF RefuseInput, FeedNoMem, Kinds
  <2>2. inbox' \in [Ends -> SUBSET {"good", "bad", "alien"}]
    BY <1>6 DEF RefuseInput, FeedNoMem, Kinds
  <2> QED
    BY <1>6, <2>1, <2>2 DEF RefuseInput, FeedNoMem, Kinds
<1>7. CASE CollectUnexpected(e)
  <2>1. failed' \in [Ends -> {"ok", "EPROTO", "ETRANSPORT", "ENOMEM"}]
    BY <1>7, FailingProps DEF CollectUnexpected, Kinds
  <2> QED
    BY <1>7, <2>1 DEF CollectUnexpected, Kinds
<1>8. CASE Unlock(e)
  <2>1. events' \in [Ends -> Seq(Event)]
    <3>1. Drain \in Event
      BY DEF Drain, Event
    <3>2. events \in [Ends -> Seq(Event)]
      BY DEF Kinds
    <3>3. UNCHANGED events \/ events' = [events EXCEPT ![e] = Append(@, Drain)]
      BY <1>8 DEF Unlock
    <3>4. Append(events[e], Drain) \in Seq(Event)
      BY <3>1, <3>2
    <3> QED
      BY <3>2, <3>3, <3>4
  <2>2. failed' \in [Ends -> {"ok", "EPROTO", "ETRANSPORT", "ENOMEM"}] /\ budget' \in Load
    <3>1. failed \in [Ends -> {"ok", "EPROTO", "ETRANSPORT", "ENOMEM"}] /\ budget \in Load
      BY DEF Kinds
    <3>2. \/ UNCHANGED <<failed, budget>>
          \/ budget.nomem > 0 /\ Spend("nomem") /\ failed' = Failing(e, "ENOMEM")
      BY <1>8 DEF Unlock
    <3>3. failed' \in [Ends -> {"ok", "EPROTO", "ETRANSPORT", "ENOMEM"}]
      BY <3>1, <3>2, FailingProps
    <3>4. budget' \in Load
      BY <3>1, <3>2, SpendProps
    <3> QED
      BY <3>3, <3>4
  <2>3. pc' \in [Ends -> {"loop", "collect", "emit", "check", "call", "in", "done"}]
    BY <1>8 DEF Unlock, Kinds, Unlocked
  <2>4. inbox' \in [Ends -> SUBSET {"good", "bad", "alien"}]
    BY <1>8 DEF Unlock, Kinds
  <2> QED
    BY <1>8, <2>1, <2>2, <2>3, <2>4 DEF Unlock, Kinds
<1>9. CASE Check(e)
  <2>1. pc' \in [Ends -> {"loop", "collect", "emit", "check", "call", "in", "done"}]
    <3>1. pc' = [pc EXCEPT ![e] = "loop"] \/ pc' = [pc EXCEPT ![e] = "call"]
      BY <1>9 DEF Check
    <3> QED
      BY <3>1 DEF Kinds
  <2>2. events' \in [Ends -> Seq(Event)]
    <3>1. events \in [Ends -> Seq(Event)] /\ <<>> \in Seq(Event)
      BY DEF Kinds
    <3>2. UNCHANGED events \/ events' = [events EXCEPT ![e] = <<>>]
      BY <1>9 DEF Check
    <3> QED
      BY <3>1, <3>2
  <2>3. UNCHANGED <<emits, got, sendVars, wireVars, failed, closeVars, inbox, budget>>
    BY <1>9 DEF Check
  <2> QED
    BY <2>1, <2>2, <2>3 DEF Kinds
<1>10. CASE Call(e)
  <2>1. /\ events[e] \in Seq(Event) /\ events[e] # <<>> /\ got[e] \in Seq(Event)
    BY <1>10 DEF Call, Control, Kinds
  <2>2. Head(events[e]) \in Event /\ Tail(events[e]) \in Seq(Event)
    BY <2>1
  <2>3. got' \in [Ends -> Seq(Event)] /\ events' \in [Ends -> Seq(Event)]
    BY <1>10, <2>2 DEF Call, Kinds
  <2>4. pc' \in [Ends -> {"loop", "collect", "emit", "check", "call", "in", "done"}]
    BY <1>10 DEF Call, Kinds
  <2> QED
    BY <1>10, <2>3, <2>4 DEF Call, Kinds
<1> QED
  BY <1>1, <1>2, <1>3, <1>4, <1>5, <1>6, <1>7, <1>8, <1>9, <1>10, SendKinds, FeedKinds,
     CollectKinds, CollectNoMemKinds, EmitKinds DEF Api, Worker

-----------------------------------------------------------------------------
(* A step of one end leaves the state of the other alone. *)

Same(x) ==
    UNCHANGED <<accepted[x], sendq[x], shutdown[x], finSent[x], finAcked[x], remoteEof[x],
                full[x], failed[x], errorDelivered[x], closing[x], selfRelease[x],
                wire[x], out[x], acked[x], read[x], pc[x], emits[x], events[x],
                got[x], closer[x], released[x]>>

LEMMA Apart ==
    ASSUME Kinds, Flags, NEW e \in Ends, Api(e) \/ Worker(e), NEW x \in Ends, x # e
    PROVE  Same(x)
<1> USE DEF Same, sendVars, wireVars, peerVars, failVars, closeVars, workVars
<1>0. /\ accepted \in [Ends -> Nat] /\ read \in [Ends -> Nat]
      /\ out \in [Ends -> Nat] /\ acked \in [Ends -> Nat]
      /\ sendq \in [Ends -> Seq(Nat)] /\ wire \in [Ends -> Seq(Record)]
      /\ events \in [Ends -> Seq(Event)] /\ got \in [Ends -> Seq(Event)]
      /\ emits \in [Ends -> Seq(Nat)] /\ released \in [Ends -> Nat]
      /\ failed \in [Ends -> {"ok", "EPROTO", "ETRANSPORT", "ENOMEM"}]
      /\ pc \in [Ends -> {"loop", "collect", "emit", "check", "call", "in", "done"}]
      /\ closer \in [Ends -> {"none", "joining", "returned"}]
  BY DEF Kinds
<1>00. /\ shutdown \in [Ends -> BOOLEAN] /\ finSent \in [Ends -> BOOLEAN]
       /\ finAcked \in [Ends -> BOOLEAN] /\ remoteEof \in [Ends -> BOOLEAN]
       /\ full \in [Ends -> BOOLEAN] /\ errorDelivered \in [Ends -> BOOLEAN]
       /\ closing \in [Ends -> BOOLEAN] /\ selfRelease \in [Ends -> BOOLEAN]
  BY DEF Flags
<1>1. CASE Shutdown(e)
  BY <1>0, <1>00, <1>1 DEF Shutdown
<1>2. CASE CloseOutside(e)
  BY <1>0, <1>00, <1>2 DEF CloseOutside
<1>3. CASE CloseJoined(e)
  BY <1>0, <1>00, <1>3 DEF CloseJoined
<1>4. CASE CloseInside(e)
  BY <1>0, <1>00, <1>4 DEF CloseInside
<1>5. CASE Exit(e)
  BY <1>0, <1>00, <1>5 DEF Exit
<1>6. CASE ReportError(e)
  BY <1>0, <1>00, <1>6 DEF ReportError
<1>7. CASE RefuseInput(e)
  BY <1>0, <1>00, <1>7 DEF RefuseInput, Failing
<1>8. CASE FeedNoMem(e)
  BY <1>0, <1>00, <1>8 DEF FeedNoMem, Failing
<1>9. CASE CollectUnexpected(e)
  BY <1>0, <1>00, <1>9 DEF CollectUnexpected, Failing
<1>10. CASE Unlock(e)
  BY <1>0, <1>00, <1>10 DEF Unlock, Failing
<1>11. CASE Emit(e)
  BY <1>0, <1>00, <1>11 DEF Emit
<1>12. CASE EmitRefused(e)
  BY <1>0, <1>00, <1>12 DEF EmitRefused, Failing
<1>13. CASE Check(e)
  BY <1>0, <1>00, <1>13 DEF Check
<1>14. CASE Call(e)
  BY <1>0, <1>00, <1>14 DEF Call
<1>15. ASSUME NEW k \in budget.parts, Send(e, k)
      PROVE  Same(x)
  BY <1>0, <1>00, <1>15 DEF Send, SendFull, SendQueued
<1>16. ASSUME NEW kind, Input(e, kind)
      PROVE  Same(x)
  BY <1>16 DEF Input
<1>17. CASE Feed(e)
  <2>1. PICK ack \in Nat, k \in Nat, fin \in BOOLEAN, more \in Seq(Record) :
           Moved(e, ack, k, fin, more)
    BY <1>17, FeedProps
  <2>2. finSent'[x] = finSent[x] /\ pc'[x] = pc[x]
    BY <1>0, <1>00, <1>17 DEF Feed
  <2>3. UNCHANGED <<sendq[x], wire[x], acked[x], emits[x]>>
    BY <1>0, <2>1 DEF Moved
  <2> QED
    BY <1>17, <2>2, <2>3 DEF Feed
<1>18. CASE Collect(e)
  BY <1>0, <1>00, <1>18 DEF Collect, CollectData, CollectFin, CollectFinAck
<1>19. CASE CollectNoMem(e)
  BY <1>0, <1>00, <1>19 DEF CollectNoMem, Failing
<1> QED
  BY <1>1, <1>2, <1>3, <1>4, <1>5, <1>6, <1>7, <1>8, <1>9, <1>10,
     <1>11, <1>12, <1>13, <1>14, <1>15, <1>16, <1>17, <1>18, <1>19 DEF Api, Worker

-----------------------------------------------------------------------------
(* Where the worker is. *)

\* Where the worker goes once it has unlocked is where it has something to do.
LEMMA UnlockedProps ==
    ASSUME NEW ems, NEW evs
    PROVE  /\ Unlocked(ems, evs) \in {"emit", "check", "loop"}
           /\ Unlocked(ems, evs) = "emit" => ems # <<>>
           /\ Unlocked(ems, evs) = "loop" => evs = <<>>
           /\ ems = <<>> => Unlocked(ems, evs) # "emit"
BY DEF Unlocked

LEMMA ControlStep ==
    ASSUME Kinds, Flags, \A x \in Ends : Control(x), NEW e \in Ends, Api(e) \/ Worker(e)
    PROVE  Control(e)'
<1> USE DEF sendVars, wireVars, peerVars, failVars, closeVars, workVars, Control
<1>0. /\ events[e] \in Seq(Event) /\ emits[e] \in Seq(Nat) /\ released[e] \in Nat
      /\ wire[e] \in Seq(Record)
      /\ events \in [Ends -> Seq(Event)] /\ emits \in [Ends -> Seq(Nat)]
      /\ released \in [Ends -> Nat]
      /\ pc \in [Ends -> {"loop", "collect", "emit", "check", "call", "in", "done"}]
      /\ closer \in [Ends -> {"none", "joining", "returned"}]
      /\ closing \in [Ends -> BOOLEAN] /\ selfRelease \in [Ends -> BOOLEAN]
  BY DEF Kinds, Flags
<1>1. CASE Shutdown(e)
  BY <1>0, <1>1, UnlockedProps DEF Shutdown, Usable
<1>2. CASE CloseOutside(e)
  BY <1>0, <1>2, UnlockedProps DEF CloseOutside, Usable
<1>3. CASE CloseJoined(e)
  <2>1. pc[e] = "done" /\ closer[e] = "joining" /\ closer'[e] = "returned"
    BY <1>0, <1>3 DEF CloseJoined
  <2>2. released[e] = 0 /\ ~selfRelease[e] /\ closing[e]
    BY <1>0, <2>1
  <2>3. released'[e] = 1
    BY <1>0, <1>3, <2>2 DEF CloseJoined
  <2>4. UNCHANGED <<closing, selfRelease, pc, emits, events, wire>>
    BY <1>3 DEF CloseJoined
  <2> HIDE <1>3
  <2> QED
    BY <1>0, <2>1, <2>2, <2>3, <2>4
<1>4. CASE CloseInside(e)
  BY <1>0, <1>4, UnlockedProps DEF CloseInside
<1>5. CASE Exit(e)
  <2>1. pc'[e] = "done" /\ pc[e] = "loop" /\ closing[e] /\ events[e] = <<>>
    BY <1>0, <1>5 DEF Exit
  <2>2. released[e] = 0 /\ closer[e] # "returned"
    BY <2>1
  <2>3. released'[e] = IF selfRelease[e] THEN released[e] + 1 ELSE released[e]
    BY <1>0, <1>5 DEF Exit
  <2>4. released'[e] = IF selfRelease[e] THEN 1 ELSE 0
    BY <2>2, <2>3
  <2>5. UNCHANGED <<closing, selfRelease, closer, emits, events, wire>>
    BY <1>5 DEF Exit
  <2> HIDE <1>5
  <2> QED
    BY <1>0, <2>1, <2>2, <2>4, <2>5
<1>6. CASE ReportError(e)
  BY <1>0, <1>6, UnlockedProps DEF ReportError
<1>7. CASE RefuseInput(e)
  BY <1>0, <1>7, UnlockedProps DEF RefuseInput, Failing, Working
<1>8. CASE FeedNoMem(e)
  BY <1>0, <1>8, UnlockedProps DEF FeedNoMem, Failing, Working
<1>9. CASE CollectUnexpected(e)
  BY <1>0, <1>9, UnlockedProps DEF CollectUnexpected, Failing
<1>10. CASE Unlock(e)
  BY <1>0, <1>10, UnlockedProps DEF Unlock, Failing
<1>11. CASE Emit(e)
  BY <1>0, <1>11, UnlockedProps DEF Emit
<1>12. CASE EmitRefused(e)
  BY <1>0, <1>12, UnlockedProps DEF EmitRefused, Failing
<1>13. CASE Check(e)
  BY <1>0, <1>13, UnlockedProps DEF Check
<1>14. CASE Call(e)
  BY <1>0, <1>14, UnlockedProps DEF Call
<1>15. ASSUME NEW k \in budget.parts, Send(e, k)
      PROVE  Control(e)'
  BY <1>0, <1>15 DEF Send
<1>16. ASSUME NEW kind, Input(e, kind)
      PROVE  Control(e)'
  BY <1>16 DEF Input
<1>17. CASE Feed(e)
  <2>1. PICK ack \in Nat, k \in Nat, fin \in BOOLEAN, more \in Seq(Record) :
           Moved(e, ack, k, fin, more)
    BY <1>17, FeedProps
  <2>2. emits'[e] # <<>> => Head(emits'[e]) <= Len(wire'[e])
    <3>1. wire'[e] = wire[e] \o more /\ wire[e] \o more \in Seq(Record)
      <4>1. more \in Seq(Record) /\ wire' = [wire EXCEPT ![e] = wire[e] \o more]
        BY <2>1 DEF Moved
      <4>2. wire[e] \o more \in Seq(Record)
        BY <1>0, <4>1, ConcatProperties
      <4> QED
        BY <4>1, <4>2 DEF Kinds
    <3>2. Len(wire'[e]) \in Nat
      BY <3>1
    <3>3. emits'[e] = <<>> \/ emits'[e] = <<Len(wire'[e])>>
      BY <1>0, <2>1 DEF Moved
    <3> QED
      BY <3>2, <3>3
  <2>3. pc[e] = "loop" /\ pc'[e] = "collect" /\ ~closing[e]
    BY <1>0, <1>17 DEF Feed, Working
  <2> QED
    BY <1>0, <1>17, <2>2, <2>3 DEF Feed
<1>18. CASE Collect(e) \/ CollectNoMem(e)
  <2>1. UNCHANGED wire \/ Answered(e)
    BY <1>18 DEF Collect, CollectData, CollectFin, CollectFinAck, CollectNoMem, Answered
  <2>2. wire'[e] \in Seq(Record) /\ Len(wire'[e]) >= Len(wire[e])
    BY <2>1, AnsweredProps
  <2>3. pc[e] = "collect" /\ UNCHANGED <<pc, emits, closeVars>>
    BY <1>18 DEF Collect, CollectNoMem, Readable
  <2>4. emits[e] # <<>> => Head(emits[e]) \in Nat
    BY <1>0
  <2>5. emits[e] # <<>> => Head(emits[e]) <= Len(wire'[e])
    BY <1>0, <2>2, <2>4
  <2> QED
    BY <1>0, <2>3, <2>5
<1> QED
  BY <1>1, <1>2, <1>3, <1>4, <1>5, <1>6, <1>7, <1>8, <1>9, <1>10,
     <1>11, <1>12, <1>13, <1>14, <1>15, <1>16, <1>17, <1>18 DEF Api, Worker

-----------------------------------------------------------------------------
(* What is sent. *)

\* The wire only grows, and no part is taken after the shutdown.
Grows(e) ==
    /\ Len(wire[e]) <= Len(wire'[e])
    /\ \A i \in 1..Len(wire[e]) : wire'[e][i] = wire[e][i]
    /\ out[e] <= out'[e]
    /\ shutdown[e] => shutdown'[e] /\ accepted'[e] = accepted[e]

\* Answers alone are added to the wire.
Answering(e) ==
    /\ wire'[e] \in Seq(Record) /\ Len(wire'[e]) >= Len(wire[e])
    /\ \A i \in 1..Len(wire[e]) : wire'[e][i] = wire[e][i]
    /\ \A i \in Len(wire[e]) + 1..Len(wire'[e]) : wire'[e][i] = FinAck
    /\ Count(wire'[e], Len(wire'[e])) = Count(wire[e], Len(wire[e]))

LEMMA AnsweringProps ==
    ASSUME Kinds, NEW e \in Ends, UNCHANGED wire \/ Answered(e)
    PROVE  Answering(e)
<1>1. wire \in [Ends -> Seq(Record)] /\ wire[e] \in Seq(Record) /\ FinAck \in Record
  BY DEF Kinds, FinAck, Record
<1>2. CASE UNCHANGED wire
  BY <1>1, <1>2 DEF Answering
<1>3. CASE Answered(e)
  <2> DEFINE w == wire[e]
             v == wire'[e]
             n == Len(w)
  <2>1. /\ v \in Seq(Record) /\ Len(v) = n + 1 /\ n \in Nat
        /\ \A i \in 1..n : v[i] = w[i]
        /\ v[n + 1] = FinAck
    BY <1>1, <1>3 DEF Answered
  <2> HIDE DEF w, v, n
  <2>2. Count(v, n) = Count(w, n)
    BY <2>1, CountSame
  <2>3. Count(v, n + 1) = Count(v, n)
    BY <2>1, CountNext DEF FinAck
  <2>4. \A i \in n + 1..n + 1 : v[i] = FinAck
    BY <2>1
  <2>5. /\ v \in Seq(Record) /\ Len(v) >= n
        /\ \A i \in 1..n : v[i] = w[i]
        /\ \A i \in n + 1..Len(v) : v[i] = FinAck
        /\ Count(v, Len(v)) = Count(w, n)
    BY <2>1, <2>2, <2>3, <2>4
  <2> QED
    BY <2>5 DEF Answering, w, v, n
<1> QED
  BY <1>2, <1>3

\* Nothing but answers is sent.
LEMMA SentStays ==
    ASSUME Kinds, NEW e \in Ends, SentOK(e), Answering(e),
           UNCHANGED <<sendq[e], accepted[e]>>, shutdown[e] => shutdown'[e]
    PROVE  SentOK(e)'
<1> DEFINE w == wire[e]
           v == wire'[e]
           n == Len(w)
<1>1. /\ v \in Seq(Record) /\ w \in Seq(Record) /\ Len(v) >= n
      /\ \A i \in 1..n : v[i] = w[i]
      /\ \A i \in n + 1..Len(v) : v[i] = FinAck
      /\ Count(v, Len(v)) = Count(w, n)
  BY DEF Answering, Kinds
<1>2. \A i \in 1..n : /\ w[i].kind = "data" => w[i].part = Count(w, i)
                      /\ w[i].kind = "fin" => shutdown[e] /\ Count(w, i) = accepted[e]
  BY DEF SentOK
<1>3. /\ \A i \in 1..Len(sendq[e]) : sendq[e][i] = accepted[e] - Len(sendq[e]) + i
      /\ Count(w, n) + Len(sendq[e]) = accepted[e]
  BY DEF SentOK
<1>4. n \in Nat /\ Len(v) \in Nat
  BY <1>1
<1> HIDE DEF w, v, n
<1>5. ASSUME NEW i \in 1..Len(v)
      PROVE  /\ v[i].kind = "data" => v[i].part = Count(v, i)
             /\ v[i].kind = "fin" => shutdown'[e] /\ Count(v, i) = accepted[e]
  <2>1. CASE i <= n
    <3>1. i \in 1..n /\ i \in Nat /\ \A j \in 1..i : v[j] = w[j]
      BY <1>1, <1>4, <2>1
    <3>2. Count(v, i) = Count(w, i)
      BY <3>1, CountSame
    <3> QED
      BY <1>1, <1>2, <3>1, <3>2
  <2>2. CASE i > n
    <3>1. v[i] = FinAck
      BY <1>1, <1>4, <2>2
    <3> QED
      BY <3>1 DEF FinAck
  <2> QED
    BY <1>4, <2>1, <2>2
<1>6. /\ v = wire'[e]
      /\ Count(v, Len(v)) + Len(sendq[e]) = accepted[e]
  BY <1>1, <1>3 DEF v
<1> QED
  BY <1>3, <1>5, <1>6 DEF SentOK

\* kc_rstrm_send.
LEMMA SendSent ==
    ASSUME Kinds, NEW e \in Ends, SentOK(e), NEW k \in budget.parts, Send(e, k)
    PROVE  SentOK(e)'
<1>1. /\ accepted[e] \in Nat /\ sendq[e] \in Seq(Nat) /\ wire[e] \in Seq(Record)
      /\ accepted \in [Ends -> Nat] /\ sendq \in [Ends -> Seq(Nat)]
      /\ k \in Nat
  BY DEF Kinds, Load
<1>2. UNCHANGED <<wire, shutdown>> /\ ~shutdown[e]
  BY DEF Send, wireVars
<1>3. CASE SendFull(e, k)
  BY <1>2, <1>3 DEF SendFull, SentOK
<1>4. CASE SendQueued(e, k)
  <2> DEFINE q    == sendq[e]
             n    == Len(q)
             a    == accepted[e]
             more == [i \in 1..k |-> a + i]
             p    == q \o more
  <2>1. sendq'[e] = p /\ accepted'[e] = a + k
    BY <1>1, <1>4 DEF SendQueued
  <2>2. more \in Seq(Nat) /\ Len(more) = k /\ \A i \in 1..k : more[i] = a + i
    BY <1>1
  <2>3. /\ \A i \in 1..n : q[i] = a - n + i
        /\ Count(wire[e], Len(wire[e])) + n = a
        /\ Count(wire[e], Len(wire[e])) \in Nat
    BY <1>1, CountNat DEF SentOK
  <2>4. q \in Seq(Nat) /\ n = Len(q) /\ n \in Nat /\ a \in Nat
    BY <1>1
  <2> HIDE DEF q, n, a, more
  <2>5. Len(p) = n + k /\ \A i \in 1..n + k : p[i] = IF i <= n THEN q[i] ELSE more[i - n]
    BY <2>2, <2>4, ConcatProperties
  <2> HIDE DEF p
  <2>6. ASSUME NEW i \in 1..n + k
        PROVE  p[i] = a + k - (n + k) + i
    <3>1. CASE i <= n
      BY <1>1, <2>3, <2>4, <2>5, <3>1
    <3>2. CASE i > n
      <4>1. i - n \in 1..k
        BY <1>1, <2>4, <3>2
      <4>2. p[i] = a + (i - n)
        BY <2>2, <2>4, <2>5, <3>2, <4>1
      <4> QED
        BY <1>1, <2>4, <4>2
    <3> QED
      BY <1>1, <2>4, <3>1, <3>2
  <2>7. Count(wire[e], Len(wire[e])) + (n + k) = a + k
    <3> DEFINE c == Count(wire[e], Len(wire[e]))
    <3>1. c \in Nat /\ n \in Nat /\ k \in Nat /\ c + n = a
      BY <1>1, <2>3, <2>4
    <3> HIDE DEF c
    <3>2. c + (n + k) = a + k
      BY <3>1
    <3> QED
      BY <3>2 DEF c
  <2>8. \A i \in 1..Len(wire[e]) :
           /\ wire[e][i].kind = "data" => wire[e][i].part = Count(wire[e], i)
           /\ wire[e][i].kind # "fin"
    BY <1>2 DEF SentOK
  <2>9. /\ sendq'[e] = p /\ Len(p) = n + k /\ accepted'[e] = a + k
        /\ wire'[e] = wire[e] /\ shutdown'[e] = shutdown[e]
    BY <1>2, <2>1, <2>5
  <2>10. /\ \A i \in 1..Len(sendq'[e]) : sendq'[e][i] = accepted'[e] - Len(sendq'[e]) + i
         /\ Count(wire'[e], Len(wire'[e])) + Len(sendq'[e]) = accepted'[e]
    <3>1. \A i \in 1..Len(sendq'[e]) : sendq'[e][i] = accepted'[e] - Len(sendq'[e]) + i
      <4>1. \A i \in 1..Len(p) : p[i] = (a + k) - Len(p) + i
        <5>1. n \in Nat /\ k \in Nat /\ a \in Nat
          BY <1>1, <2>4
        <5> QED
          BY <2>6, <2>9, <5>1
      <4> QED
        BY <2>9, <4>1, Zenon
    <3>2. Count(wire'[e], Len(wire'[e])) = Count(wire[e], Len(wire[e]))
      BY <2>9, Zenon
    <3> QED
      BY <2>7, <2>9, <3>1, <3>2
  <2>11. \A i \in 1..Len(wire'[e]) :
           /\ wire'[e][i].kind = "data" => wire'[e][i].part = Count(wire'[e], i)
           /\ wire'[e][i].kind # "fin"
    BY <2>8, <2>9
  <2> QED
    BY <2>10, <2>11 DEF SentOK
<1> QED
  BY <1>3, <1>4 DEF Send

\* rstrm_feed_send_locked.
LEMMA FeedSent ==
    ASSUME Kinds, NEW e \in Ends, SentOK(e), Feed(e)
    PROVE  SentOK(e)'
<1>1. PICK ack \in Nat, k \in Nat, fin \in BOOLEAN, more \in Seq(Record) :
         Moved(e, ack, k, fin, more)
  BY FeedProps
<1> DEFINE q == sendq[e]
           n == Len(q)
           a == accepted[e]
           w == wire[e]
           l == Len(w)
           v == w \o more
           p == SubSeq(q, k + 1, n)
           c == Count(w, l)
<1>2. /\ accepted[e] \in Nat /\ sendq[e] \in Seq(Nat) /\ wire[e] \in Seq(Record)
      /\ wire \in [Ends -> Seq(Record)] /\ sendq \in [Ends -> Seq(Nat)]
  BY DEF Kinds
<1>3. UNCHANGED <<accepted, shutdown>>
  BY DEF Feed
<1>4. sendq'[e] = p /\ wire'[e] = v
  BY <1>1, <1>2 DEF Moved
<1>5. /\ k <= n /\ more \in Seq(Record) /\ Len(more) = k + (IF fin THEN 1 ELSE 0)
      /\ \A i \in 1..k : more[i] = Data(q[i])
      /\ fin => more[k + 1] = Fin /\ shutdown[e] /\ k = n
  BY <1>1 DEF Moved
<1>6. /\ \A i \in 1..n : q[i] = a - n + i
      /\ c + n = a /\ c \in Nat
      /\ \A i \in 1..l : /\ w[i].kind = "data" => w[i].part = Count(w, i)
                         /\ w[i].kind = "fin" => shutdown[e] /\ Count(w, i) = a
  <2>1. Len(wire[e]) \in Nat
    BY <1>2
  <2>2. Count(wire[e], Len(wire[e])) \in Nat
    BY <2>1, CountNat
  <2> QED
    BY <2>2 DEF SentOK
<1>7. Len(p) = n - k /\ \A i \in 1..n - k : p[i] = q[k + i]
  BY <1>2, <1>5
<1>8. n \in Nat /\ l \in Nat /\ a \in Nat /\ q \in Seq(Nat)
  BY <1>2
<1>9. /\ Len(v) = l + Len(more)
      /\ \A i \in 1..l : v[i] = w[i]
      /\ \A i \in 1..Len(more) : v[l + i] = more[i]
  <2>1. /\ w \in Seq(Record) /\ more \in Seq(Record)
    BY <1>2, <1>5
  <2> HIDE DEF w
  <2>2. /\ Len(v) = Len(w) + Len(more)
        /\ \A i \in 1..Len(w) + Len(more) : v[i] = IF i <= Len(w) THEN w[i] ELSE more[i - Len(w)]
    BY <2>1, ConcatProperties
  <2> HIDE DEF v
  <2>3. Len(more) \in Nat /\ l \in Nat
    BY <1>8, <2>1
  <2>4. \A i \in 1..Len(more) : l + i \in 1..l + Len(more) /\ (l + i) - l = i /\ ~(l + i <= l)
    BY <2>3
  <2> QED
    BY <2>2, <2>3, <2>4
<1> HIDE DEF q, n, a, w, l, v, p, c
<1>10. c = Count(w, l) /\ Count(v, l) = c
  <2>1. c = Count(w, l)
    BY DEF c
  <2> QED
    BY <1>8, <1>9, <2>1, CountSame
<1>11. \A j \in 1..k : v[l + j] = Data(q[j])
  BY <1>5, <1>9
<1>12. ASSUME NEW j \in Nat, j <= k
       PROVE  Count(v, l + j) = c + j
  <2>1. \A i \in l + 1..l + j : v[i].kind = "data"
    <3> SUFFICES ASSUME NEW i \in l + 1..l + j
                 PROVE  v[i].kind = "data"
      OBVIOUS
    <3>1. i - l \in 1..k /\ i = l + (i - l)
      BY <1>8, <1>12
    <3>2. v[i] = Data(q[i - l])
      BY <1>11, <3>1
    <3> QED
      BY <3>2 DEF Data
  <2> QED
    BY <1>8, <1>10, <2>1, CountRun
<1>13. Count(v, Len(v)) + (n - k) = a
  <2>1. CASE fin
    <3>1. Len(v) = (l + k) + 1 /\ l + k \in Nat /\ v[(l + k) + 1] = Fin /\ k = n
      <4>1. Len(more) = k + 1 /\ more[k + 1] = Fin /\ k = n
        BY <1>5, <2>1
      <4>2. k + 1 \in 1..Len(more) /\ l + (k + 1) = (l + k) + 1
        BY <1>8, <4>1
      <4>3. v[l + (k + 1)] = more[k + 1]
        BY <1>9, <4>2
      <4>4. Len(v) = l + (k + 1)
        BY <1>9, <4>1
      <4> QED
        BY <1>8, <4>1, <4>2, <4>3, <4>4
    <3>2. Count(v, (l + k) + 1) = Count(v, l + k)
      BY <3>1, CountNext DEF Fin
    <3>3. Count(v, l + k) = c + k
      BY <1>12
    <3>4. Count(v, Len(v)) = c + k
      BY <3>1, <3>2, <3>3
    <3> QED
      BY <1>6, <1>8, <3>1, <3>4
  <2>2. CASE ~fin
    <3>1. Len(v) = l + k
      BY <1>5, <1>8, <1>9, <2>2
    <3>2. Count(v, l + k) = c + k
      BY <1>12
    <3>3. Count(v, Len(v)) = c + k
      BY <3>1, <3>2
    <3> QED
      BY <1>6, <1>8, <3>3
  <2> QED
    BY <2>1, <2>2
<1>14. ASSUME NEW i \in 1..Len(v)
       PROVE  /\ v[i].kind = "data" => v[i].part = Count(v, i)
              /\ v[i].kind = "fin" => shutdown[e] /\ Count(v, i) = a
  <2>0. i \in Nat /\ 1 <= i /\ i <= l + k + (IF fin THEN 1 ELSE 0)
    BY <1>5, <1>8, <1>9
  <2>1. CASE i <= l
    <3>1. i \in 1..l /\ \A j \in 1..i : v[j] = w[j]
      <4>1. i \in 1..l /\ \A j \in 1..i : j \in 1..l
        BY <1>8, <2>0, <2>1
      <4> QED
        BY <1>9, <4>1
    <3>2. Count(v, i) = Count(w, i)
      BY <2>0, <3>1, CountSame
    <3> QED
      BY <1>6, <1>9, <3>1, <3>2
  <2>2. CASE i > l /\ i <= l + k
    <3>1. i - l \in 1..k /\ i = l + (i - l) /\ i - l \in Nat /\ i - l <= k
      BY <1>8, <2>0, <2>2
    <3>2. v[i] = Data(q[i - l]) /\ Count(v, i) = c + (i - l)
      BY <1>11, <1>12, <3>1
    <3>3. q[i - l] = a - n + (i - l)
      BY <1>5, <1>6, <1>8, <3>1
    <3>4. q[i - l] = c + (i - l)
      BY <1>6, <1>8, <3>3, <3>1
    <3> QED
      BY <3>2, <3>4 DEF Data
  <2>3. CASE i > l + k
    <3>1. fin /\ i = (l + k) + 1 /\ l + k \in Nat
      BY <1>8, <2>0, <2>3
    <3>2. v[i] = Fin /\ shutdown[e] /\ k = n
      <4>1. k + 1 \in 1..Len(more) /\ l + (k + 1) = i
        BY <1>5, <1>8, <3>1
      <4> QED
        BY <1>5, <1>9, <3>1, <4>1
    <3>3. Count(v, i) = Count(v, l + k)
      BY <3>1, <3>2, CountNext DEF Fin
    <3>4. Count(v, l + k) = c + k
      BY <1>12
    <3>5. Count(v, i) = a
      BY <1>6, <3>2, <3>3, <3>4
    <3> QED
      BY <3>2, <3>5 DEF Fin
  <2> QED
    BY <1>8, <2>0, <2>1, <2>2, <2>3
<1>15. ASSUME NEW i \in 1..n - k
       PROVE  p[i] = a - (n - k) + i
  <2>1. k + i \in 1..n
    BY <1>5, <1>8
  <2>2. p[i] = a - n + (k + i)
    BY <1>6, <1>7, <2>1
  <2> QED
    BY <1>8, <2>2
<1>16. a = accepted'[e] /\ a = accepted[e]
  BY <1>3 DEF a
<1> QED
  BY <1>3, <1>4, <1>7, <1>13, <1>14, <1>15, <1>16 DEF SentOK

\* Everything but a send and a feed sends answers at most.
LEMMA AnsweringStep ==
    ASSUME Kinds, NEW e \in Ends, Api(e) \/ Worker(e),
           ~Feed(e), \A k \in budget.parts : ~Send(e, k)
    PROVE  /\ UNCHANGED wire \/ Answered(e)
           /\ UNCHANGED <<sendq, accepted>>
           /\ shutdown[e] => shutdown'[e]
<1> USE DEF sendVars, wireVars
<1>1. CASE Shutdown(e)
  <2>1. shutdown' = [shutdown EXCEPT ![e] = TRUE]
    BY <1>1 DEF Shutdown
  <2>2. shutdown[e] => shutdown'[e]
    BY <2>1
  <2> QED
    BY <1>1, <2>2 DEF Shutdown
<1>2. ASSUME NEW kind, Input(e, kind)
      PROVE  UNCHANGED <<wire, sendq, accepted, shutdown>>
  BY <1>2 DEF Input
<1>3. CASE CloseOutside(e) \/ CloseJoined(e) \/ CloseInside(e)
  BY <1>3 DEF CloseOutside, CloseJoined, CloseInside
<1>4. CASE Exit(e) \/ ReportError(e) \/ RefuseInput(e) \/ FeedNoMem(e)
  BY <1>4 DEF Exit, ReportError, RefuseInput, FeedNoMem
<1>5. CASE Collect(e)
  BY <1>5 DEF Collect, CollectData, CollectFin, CollectFinAck, Answered
<1>6. CASE CollectNoMem(e)
  BY <1>6 DEF CollectNoMem, Answered
<1>7. CASE CollectUnexpected(e) \/ Unlock(e) \/ Emit(e) \/ EmitRefused(e) \/ Check(e) \/ Call(e)
  BY <1>7 DEF CollectUnexpected, Unlock, Emit, EmitRefused, Check, Call
<1> QED
  BY <1>1, <1>2, <1>3, <1>4, <1>5, <1>6, <1>7 DEF Api, Worker

LEMMA SentStep ==
    ASSUME Kinds, Flags, NEW e \in Ends, Api(e) \/ Worker(e), \A x \in Ends : SentOK(x)
    PROVE  \A x \in Ends : SentOK(x)'
<1>1. ASSUME NEW x \in Ends, x # e
      PROVE  SentOK(x)'
  <2>1. UNCHANGED <<wire[x], sendq[x], accepted[x], shutdown[x]>>
    BY <1>1, Apart DEF Same
  <2> QED
    BY <2>1 DEF SentOK
<1>2. SentOK(e)'
  <2>1. ASSUME NEW k \in budget.parts, Send(e, k)
        PROVE  SentOK(e)'
    BY <2>1, SendSent
  <2>2. CASE Feed(e)
    BY <2>2, FeedSent
  <2>3. CASE ~Feed(e) /\ \A k \in budget.parts : ~Send(e, k)
    BY <2>3, AnsweringStep, AnsweringProps, SentStays
  <2> QED
    BY <2>1, <2>2, <2>3
<1> QED
  BY <1>1, <1>2

LEMMA GrowStep ==
    ASSUME Kinds, Kinds', Flags, NEW e \in Ends, Api(e) \/ Worker(e)
    PROVE  \A x \in Ends : Grows(x)
<1>1. ASSUME NEW x \in Ends, x # e
      PROVE  Grows(x)
  <2>1. UNCHANGED <<wire[x], out[x], accepted[x], shutdown[x]>>
    BY <1>1, Apart DEF Same
  <2>2. Len(wire[x]) \in Nat /\ out[x] \in Nat
    BY DEF Kinds
  <2> QED
    BY <2>1, <2>2 DEF Grows
<1>2. /\ Len(wire[e]) \in Nat /\ out[e] \in Nat /\ out \in [Ends -> Nat]
      /\ wire \in [Ends -> Seq(Record)] /\ emits[e] \in Seq(Nat)
  <2>1. /\ out \in [Ends -> Nat] /\ wire \in [Ends -> Seq(Record)]
        /\ emits \in [Ends -> Seq(Nat)]
    BY DEF Kinds
  <2> QED
    BY <2>1
<1>3. out[e] <= out'[e]
  <2>1. CASE UNCHANGED out
    BY <1>2, <2>1
  <2>2. CASE Emit(e) \/ EmitRefused(e)
    <3>1. PICK up \in out[e]..Head(emits[e]) : out' = [out EXCEPT ![e] = up]
      BY <2>2 DEF Emit, EmitRefused
    <3>2. out'[e] = up /\ out'[e] \in Nat
      BY <1>2, <3>1 DEF Kinds
    <3> QED
      BY <3>1, <3>2
  <2> QED
    BY <2>1, <2>2 DEF Api, Worker, Send, Shutdown, Input, CloseOutside, CloseJoined,
       CloseInside, Exit, ReportError, RefuseInput, Feed, FeedNoMem, Collect,
       CollectUnexpected, CollectNoMem, Unlock, Check, Call, wireVars
<1>4. ASSUME ~Feed(e), \A k \in budget.parts : ~Send(e, k)
      PROVE  Grows(e)
  <2>1. /\ UNCHANGED accepted /\ Answering(e) /\ (shutdown[e] => shutdown'[e])
    BY <1>4, AnsweringStep, AnsweringProps
  <2>2. /\ Len(wire'[e]) \in Nat /\ Len(wire'[e]) >= Len(wire[e])
        /\ \A i \in 1..Len(wire[e]) : wire'[e][i] = wire[e][i]
    BY <2>1 DEF Answering
  <2>3. Len(wire[e]) <= Len(wire'[e])
    BY <1>2, <2>2
  <2>4. shutdown[e] => shutdown'[e] /\ accepted'[e] = accepted[e]
    BY <2>1
  <2> QED
    BY <1>3, <2>2, <2>3, <2>4, Zenon DEF Grows
<1>5. ASSUME NEW k \in budget.parts, Send(e, k)
      PROVE  Grows(e)
  BY <1>2, <1>3, <1>5 DEF Send, Grows, wireVars
<1>6. ASSUME Feed(e)
      PROVE  Grows(e)
  <2>1. PICK ack \in Nat, k \in Nat, fin \in BOOLEAN, more \in Seq(Record) :
           Moved(e, ack, k, fin, more)
    BY <1>6, FeedProps
  <2>2. more \in Seq(Record) /\ wire[e] \in Seq(Record) /\ wire'[e] = wire[e] \o more
    BY <1>2, <2>1 DEF Moved
  <2>3. /\ Len(wire[e]) <= Len(wire'[e])
        /\ \A i \in 1..Len(wire[e]) : wire'[e][i] = wire[e][i]
    BY <2>2, ConcatProperties
  <2>4. UNCHANGED <<accepted, shutdown>>
    BY <1>6 DEF Feed
  <2>5. shutdown[e] => shutdown'[e] /\ accepted'[e] = accepted[e]
    BY <2>4
  <2> QED
    BY <1>3, <2>3, <2>5, Zenon DEF Grows
<1> QED
  BY <1>1, <1>4, <1>5, <1>6

-----------------------------------------------------------------------------
(* What is told. *)

LEMMA InTurnKept ==
    ASSUME NEW a, NEW all, NEW told, NEW over, NEW ends, InTurn(a, all, told, over, ends),
           NEW all2, NEW told2, NEW over2, NEW ends2,
           told => told2, over => over2, ends => ends2 /\ all2 = all
    PROVE  InTurn(a, all2, told2, over2, ends2)
BY DEF InTurn

\* What is left when the last callbacks are dropped.
LEMMA InTurnPrefix ==
    ASSUME NEW a \in Seq(Event), NEW b \in Seq(Event), Len(b) <= Len(a),
           \A i \in 1..Len(b) : b[i] = a[i],
           NEW all, NEW told, NEW over, NEW ends, InTurn(a, all, told, over, ends)
    PROVE  InTurn(b, all, told, over, ends) /\ Count(b, Len(b)) <= Count(a, Len(a))
<1>0. Len(a) \in Nat /\ Len(b) \in Nat
  OBVIOUS
<1>1. \A k \in 1..Len(b) : Count(b, k) = Count(a, k)
  <2> SUFFICES ASSUME NEW k \in 1..Len(b)
               PROVE  Count(b, k) = Count(a, k)
    OBVIOUS
  <2>1. k \in Nat /\ \A i \in 1..k : b[i] = a[i]
    BY <1>0
  <2> QED
    BY <2>1, CountSame
<1>2. \A k \in 1..Len(b) : k \in 1..Len(a) /\ (k = Len(a) => k = Len(b))
  BY <1>0
<1>3. \A k \in 1..Len(b) : \A l \in k + 1..Len(b) : l \in k + 1..Len(a) /\ b[l] = a[l]
  BY <1>0
<1>4. InTurn(b, all, told, over, ends)
  <2> SUFFICES ASSUME NEW k \in 1..Len(b)
               PROVE  /\ b[k].kind = "data" => b[k].part = Count(b, k)
                      /\ b[k].kind # "data" => b[k].part = 0
                      /\ b[k].kind = "eof" =>
                           /\ over /\ ends /\ Count(b, k) = all
                           /\ \A l \in k + 1..Len(b) : b[l].kind \notin {"data", "eof"}
                      /\ b[k].kind = "error" => told /\ k = Len(b)
    BY DEF InTurn
  <2>1. /\ a[k].kind = "data" => a[k].part = Count(a, k)
        /\ a[k].kind # "data" => a[k].part = 0
        /\ a[k].kind = "eof" =>
             /\ over /\ ends /\ Count(a, k) = all
             /\ \A l \in k + 1..Len(a) : a[l].kind \notin {"data", "eof"}
        /\ a[k].kind = "error" => told /\ k = Len(a)
    BY <1>2 DEF InTurn
  <2>2. b[k] = a[k] /\ Count(b, k) = Count(a, k) /\ (k = Len(a) => k = Len(b))
    BY <1>1, <1>2
  <2>3. a[k].kind = "eof" => \A l \in k + 1..Len(b) : b[l].kind \notin {"data", "eof"}
    BY <1>3, <2>1
  <2> QED
    BY <2>1, <2>2, <2>3
<1>5. Count(b, Len(b)) = Count(a, Len(b))
  BY <1>0, CountSame
<1>6. Count(a, Len(b)) <= Count(a, Len(a))
  BY <1>0, CountMono
<1> QED
  BY <1>4, <1>5, <1>6

LEMMA CountAppend ==
    ASSUME NEW a \in Seq(Event), NEW ev \in Event
    PROVE  /\ ev.kind = "data" => Count(Append(a, ev), Len(Append(a, ev))) = Count(a, Len(a)) + 1
           /\ ev.kind # "data" => Count(Append(a, ev), Len(Append(a, ev))) = Count(a, Len(a))
<1> DEFINE b == Append(a, ev)
           n == Len(a)
<1>1. /\ n \in Nat /\ Len(b) = n + 1 /\ b[n + 1] = ev
      /\ \A i \in 1..n : b[i] = a[i]
  OBVIOUS
<1> HIDE DEF b, n
<1>2. Count(b, n) = Count(a, n)
  BY <1>1, CountSame
<1>3. /\ ev.kind = "data" => Count(b, n + 1) = Count(a, n) + 1
      /\ ev.kind # "data" => Count(b, n + 1) = Count(a, n)
  BY <1>1, <1>2, CountNext
<1> QED
  BY <1>1, <1>3 DEF b, n

\* One more callback, when none was an error.
LEMMA InTurnAppend ==
    ASSUME NEW a \in Seq(Event), NEW ev \in Event,
           NEW all, NEW told \in BOOLEAN, NEW over \in BOOLEAN, NEW ends \in BOOLEAN,
           InTurn(a, all, told, over, ends), ~told,
           NEW told2 \in BOOLEAN, NEW over2 \in BOOLEAN, over => over2,
           ev.kind = "data" => ~over /\ ev.part = Count(a, Len(a)) + 1,
           ev.kind # "data" => ev.part = 0,
           ev.kind = "eof" => ~over /\ over2 /\ ends /\ Count(a, Len(a)) = all,
           ev.kind = "error" => told2
    PROVE  InTurn(Append(a, ev), all, told2, over2, ends)
<1> DEFINE b == Append(a, ev)
           n == Len(a)
<1>1. /\ n \in Nat /\ Len(b) = n + 1 /\ b[n + 1] = ev
      /\ \A i \in 1..n : b[i] = a[i]
  OBVIOUS
<1> HIDE DEF b, n
<1>2. Count(b, n) = Count(a, n)
  BY <1>1, CountSame
<1>3. /\ ev.kind = "data" => Count(b, n + 1) = Count(a, n) + 1
      /\ ev.kind # "data" => Count(b, n + 1) = Count(a, n)
  BY <1>1, <1>2, CountNext
<1>4. ASSUME NEW k \in 1..n + 1
      PROVE  /\ b[k].kind = "data" => b[k].part = Count(b, k)
             /\ b[k].kind # "data" => b[k].part = 0
             /\ b[k].kind = "eof" =>
                  /\ over2 /\ ends /\ Count(b, k) = all
                  /\ \A l \in k + 1..n + 1 : b[l].kind \notin {"data", "eof"}
             /\ b[k].kind = "error" => told2 /\ k = n + 1
  <2>1. CASE k = n + 1
    <3>1. \A l \in k + 1..n + 1 : FALSE
      BY <1>1, <2>1
    <3>2. n = Len(a)
      BY DEF n
    <3> QED
      BY <1>1, <1>3, <2>1, <3>1, <3>2
  <2>2. CASE k # n + 1
    <3>1. k \in 1..n /\ k \in Nat /\ \A i \in 1..k : b[i] = a[i]
      BY <1>1, <2>2
    <3>2. Count(b, k) = Count(a, k)
      BY <3>1, CountSame
    <3>3. /\ a[k].kind = "data" => a[k].part = Count(a, k)
          /\ a[k].kind # "data" => a[k].part = 0
          /\ a[k].kind = "eof" =>
               /\ over /\ ends /\ Count(a, k) = all
               /\ \A l \in k + 1..n : a[l].kind \notin {"data", "eof"}
          /\ a[k].kind # "error"
      BY <3>1 DEF InTurn, n
    <3>4. ASSUME a[k].kind = "eof", NEW l \in k + 1..n + 1
          PROVE  b[l].kind \notin {"data", "eof"}
      <4>1. CASE l = n + 1
        BY <1>1, <3>3, <3>4, <4>1
      <4>2. CASE l # n + 1
        <5>1. l \in k + 1..n /\ l \in 1..n
          BY <1>1, <3>1, <4>2
        <5> QED
          BY <1>1, <3>3, <3>4, <5>1
      <4> QED
        BY <4>1, <4>2
    <3>5. b[k] = a[k]
      BY <1>1, <3>1
    <3> QED
      BY <3>2, <3>3, <3>4, <3>5
  <2> QED
    BY <2>1, <2>2
<1>5. InTurn(b, all, told2, over2, ends)
  BY <1>1, <1>4 DEF InTurn
<1> QED
  BY <1>5 DEF b

\* Nothing that is read or told changes at e.
Calm(e) ==
    /\ UNCHANGED <<read[e], errorDelivered[e], remoteEof[e]>>
    /\ Said(e)' = Said(e)
    /\ failed'[e] = "ok" => failed[e] = "ok"
    /\ closing[e] => closing'[e]
    /\ errorDelivered[e] => failed'[e] # "ok" /\ pc'[e] # "collect"

LEMMA SaidType ==
    ASSUME Kinds, NEW e \in Ends
    PROVE  Said(e) \in Seq(Event) /\ Len(Said(e)) = Len(got[e]) + Len(events[e])
<1>1. got[e] \in Seq(Event) /\ events[e] \in Seq(Event)
  BY DEF Kinds
<1> QED
  BY <1>1, ConcatProperties DEF Said

\* What e has read of its peer's wire stays what it was.
LEMMA ReadStays ==
    ASSUME Kinds, NEW e \in Ends, Grows(Peer(e)), read[e] <= out[Peer(e)]
    PROVE  Count(wire'[Peer(e)], read[e]) = Count(wire[Peer(e)], read[e])
<1> DEFINE p == Peer(e)
<1>1. p \in Ends
  BY PeerProps
<1>2. /\ read[e] \in Nat /\ read[e] <= Len(wire[p]) /\ Len(wire[p]) \in Nat
  <2>1. read[e] \in Nat /\ out[p] \in Nat /\ out[p] <= Len(wire[p]) /\ wire[p] \in Seq(Record)
    BY <1>1 DEF Kinds
  <2> QED
    BY <2>1
<1>3. \A i \in 1..read[e] : wire'[p][i] = wire[p][i]
  BY <1>2 DEF Grows
<1> QED
  BY <1>2, <1>3, CountSame

LEMMA ToldStays ==
    ASSUME Kinds, Kinds', NEW e \in Ends, ToldOK(e), Calm(e), Grows(Peer(e))
    PROVE  ToldOK(e)'
<1> DEFINE p == Peer(e)
           a == Said(e)
<1>1. p \in Ends
  BY PeerProps
<1>2. read[e] <= out[p] /\ read'[e] = read[e]
  BY DEF ToldOK, Calm
<1>3. read'[e] <= out'[p]
  <2>1. out[p] <= out'[p]
    BY DEF Grows
  <2>2. read[e] \in Nat /\ out[p] \in Nat /\ out'[p] \in Nat
    BY <1>1 DEF Kinds
  <2> QED
    BY <1>2, <2>1, <2>2
<1>4. Count(wire'[p], read'[e]) = Count(wire[p], read[e])
  BY <1>2, ReadStays
<1>5. InTurn(a, accepted'[p], errorDelivered'[e], remoteEof'[e], shutdown'[p])
  <2>1. InTurn(a, accepted[p], errorDelivered[e], remoteEof[e], shutdown[p])
    BY DEF ToldOK
  <2>2. /\ errorDelivered[e] => errorDelivered'[e]
        /\ remoteEof[e] => remoteEof'[e]
        /\ shutdown[p] => shutdown'[p] /\ accepted'[p] = accepted[p]
    BY DEF Calm, Grows
  <2> QED
    BY <2>1, <2>2, InTurnKept
<1>6. Said(e)' = a
  BY DEF Calm
<1>7. /\ Count(a, Len(a)) <= Count(wire[p], read[e])
      /\ failed[e] = "ok" /\ ~closing[e] => Count(a, Len(a)) = Count(wire[p], read[e])
  BY DEF ToldOK
<1>8. /\ failed'[e] = "ok" => failed[e] = "ok"
      /\ closing[e] => closing'[e]
      /\ errorDelivered'[e] => failed'[e] # "ok" /\ pc'[e] # "collect"
  BY DEF Calm
<1> HIDE DEF a, p
<1>9. /\ Count(Said(e)', Len(Said(e)')) <= Count(wire'[p], read'[e])
      /\ failed'[e] = "ok" /\ ~closing'[e] =>
           Count(Said(e)', Len(Said(e)')) = Count(wire'[p], read'[e])
  BY <1>4, <1>6, <1>7, <1>8
<1>10. InTurn(Said(e)', accepted'[p], errorDelivered'[e], remoteEof'[e], shutdown'[p])
  BY <1>5, <1>6
<1> QED
  BY <1>3, <1>8, <1>9, <1>10 DEF ToldOK, p

LEMMA ApartCalm ==
    ASSUME Kinds, Flags, NEW e \in Ends, Api(e) \/ Worker(e), NEW x \in Ends, x # e, ToldOK(x)
    PROVE  Calm(x)
BY Apart DEF Same, Calm, Said, ToldOK

\* The actions that neither read nor make a callback.
LEMMA CalmStep ==
    ASSUME Kinds, Flags, NEW e \in Ends, Api(e) \/ Worker(e), Control(e), ToldOK(e),
           ~ReportError(e), ~Collect(e), ~CollectNoMem(e), ~Unlock(e), ~Check(e)
    PROVE  Calm(e)
<1> USE DEF sendVars, wireVars, peerVars, failVars, closeVars, workVars
<1>0. /\ failed \in [Ends -> {"ok", "EPROTO", "ETRANSPORT", "ENOMEM"}]
      /\ pc \in [Ends -> {"loop", "collect", "emit", "check", "call", "in", "done"}]
      /\ closing \in [Ends -> BOOLEAN]
      /\ got \in [Ends -> Seq(Event)] /\ events \in [Ends -> Seq(Event)]
  BY DEF Kinds, Flags
<1>1. errorDelivered[e] => failed[e] # "ok" /\ pc[e] # "collect"
  BY DEF ToldOK
<1>2. ASSUME NEW k \in budget.parts, Send(e, k)
      PROVE  Calm(e)
  BY <1>1, <1>2 DEF Send, Calm, Said
<1>3. CASE Shutdown(e)
  BY <1>1, <1>3 DEF Shutdown, Calm, Said
<1>4. ASSUME NEW kind, Input(e, kind)
      PROVE  Calm(e)
  BY <1>1, <1>4 DEF Input, Calm, Said
<1>5. CASE CloseOutside(e) \/ CloseJoined(e) \/ CloseInside(e)
  BY <1>0, <1>1, <1>5 DEF CloseOutside, CloseJoined, CloseInside, Calm, Said
<1>6. CASE Exit(e)
  BY <1>0, <1>1, <1>6 DEF Exit, Calm, Said
<1>7. CASE RefuseInput(e) \/ FeedNoMem(e)
  BY <1>0, <1>1, <1>7 DEF RefuseInput, FeedNoMem, Failing, Calm, Said
<1>8. CASE Feed(e)
  BY <1>0, <1>1, <1>8 DEF Feed, Working, Calm, Said
<1>9. CASE CollectUnexpected(e)
  BY <1>0, <1>1, <1>9 DEF CollectUnexpected, Failing, Calm, Said
<1>10. CASE Emit(e) \/ EmitRefused(e)
  <2>1. pc'[e] # "collect"
    <3>1. pc' = [pc EXCEPT ![e] = Unlocked(<<>>, events[e])]
      BY <1>10 DEF Emit, EmitRefused
    <3> QED
      BY <1>0, <3>1, UnlockedProps
  <2>2. failed'[e] = "ok" => failed[e] = "ok"
    <3>1. UNCHANGED failed \/ failed' = Failing(e, "ETRANSPORT")
      BY <1>10 DEF Emit, EmitRefused
    <3> QED
      BY <1>0, <3>1 DEF Failing
  <2>3. failed[e] # "ok" => failed'[e] # "ok"
    BY <2>2
  <2>4. UNCHANGED <<read, errorDelivered, remoteEof, got, events, closing>>
    BY <1>10 DEF Emit, EmitRefused
  <2> QED
    BY <1>1, <2>1, <2>2, <2>3, <2>4 DEF Calm, Said
<1>11. CASE Call(e)
  <2>1. events[e] \in Seq(Event) /\ events[e] # <<>> /\ got[e] \in Seq(Event)
    BY <1>0, <1>11 DEF Call, Control
  <2>2. got'[e] = Append(got[e], Head(events[e])) /\ events'[e] = Tail(events[e])
    BY <1>0, <1>11 DEF Call
  <2>3. \A g \in Seq(Event), v \in Seq(Event) :
            v # <<>> => Append(g, Head(v)) \o Tail(v) = g \o v
    OBVIOUS
  <2>4. Said(e)' = Said(e)
    BY <2>1, <2>2, <2>3 DEF Said
  <2>5. pc'[e] = "in" /\ UNCHANGED <<read, errorDelivered, remoteEof, failed, closing>>
    BY <1>0, <1>11 DEF Call
  <2> QED
    BY <1>1, <2>4, <2>5 DEF Calm
<1> QED
  BY <1>2, <1>3, <1>4, <1>5, <1>6, <1>7, <1>8, <1>9, <1>10, <1>11 DEF Api, Worker

LEMMA SaidMore ==
    ASSUME Kinds, NEW e \in Ends, NEW ev \in Event,
           events'[e] = Append(events[e], ev), got'[e] = got[e]
    PROVE  Said(e)' = Append(Said(e), ev)
<1>1. got[e] \in Seq(Event) /\ events[e] \in Seq(Event)
  BY DEF Kinds
<1>2. \A g \in Seq(Event), v \in Seq(Event) : g \o Append(v, ev) = Append(g \o v, ev)
  OBVIOUS
<1> QED
  BY <1>1, <1>2 DEF Said

\* One callback is added, that says nothing of what the peer sent.
LEMMA ToldDrain ==
    ASSUME Kinds, Flags, Flags', NEW e \in Ends, ToldOK(e), ~errorDelivered[e], NEW ev \in Event,
           Said(e)' = Append(Said(e), ev), ev.kind \notin {"data", "eof"}, ev.part = 0,
           UNCHANGED <<read[e], remoteEof[e], failed[e], closing[e], wire[Peer(e)],
                       out[Peer(e)], accepted[Peer(e)], shutdown[Peer(e)]>>,
           ev.kind = "error" => errorDelivered'[e],
           errorDelivered'[e] => failed[e] # "ok" /\ pc'[e] # "collect"
    PROVE  ToldOK(e)'
<1> DEFINE p == Peer(e)
           a == Said(e)
           b == Append(a, ev)
<1>1. a \in Seq(Event)
  BY SaidType
<1>2. InTurn(a, accepted[p], errorDelivered[e], remoteEof[e], shutdown[p]) /\ ~errorDelivered[e]
  BY DEF ToldOK
<1> HIDE DEF a
<1>3. /\ InTurn(b, accepted[p], errorDelivered'[e], remoteEof[e], shutdown[p])
      /\ Count(b, Len(b)) = Count(a, Len(a))
  <2> DEFINE all  == accepted[p]
             told == errorDelivered[e]
             over == remoteEof[e]
             ends == shutdown[p]
             new  == errorDelivered'[e]
  <2>1. ~told /\ (ev.kind = "error" => new)
    OBVIOUS
  <2>2. ev.kind # "data" /\ ev.kind # "eof"
    OBVIOUS
  <2>3. InTurn(a, all, told, over, ends)
    BY <1>2
  <2>5. told \in BOOLEAN /\ over \in BOOLEAN /\ ends \in BOOLEAN /\ new \in BOOLEAN
    BY PeerProps DEF Flags
  <2> HIDE DEF all, told, over, ends, new, b
  <2>4. /\ InTurn(Append(a, ev), all, new, over, ends)
        /\ Count(Append(a, ev), Len(Append(a, ev))) = Count(a, Len(a))
    <3>1. InTurn(Append(a, ev), all, new, over, ends)
      BY <1>1, <2>1, <2>2, <2>3, <2>5, InTurnAppend
    <3>2. Count(Append(a, ev), Len(Append(a, ev))) = Count(a, Len(a))
      BY <1>1, <2>2, CountAppend
    <3> QED
      BY <3>1, <3>2
  <2> QED
    BY <2>4 DEF all, over, ends, new, b
<1>4. /\ read[e] <= out[p]
      /\ Count(a, Len(a)) <= Count(wire[p], read[e])
      /\ failed[e] = "ok" /\ ~closing[e] => Count(a, Len(a)) = Count(wire[p], read[e])
  BY DEF ToldOK, a
<1>5. Said(e)' = b
  BY DEF a
<1> HIDE DEF b, p
<1>6. /\ Count(Said(e)', Len(Said(e)')) <= Count(wire[p], read[e])
      /\ failed[e] = "ok" /\ ~closing[e] => Count(Said(e)', Len(Said(e)')) = Count(wire[p], read[e])
  BY <1>3, <1>4, <1>5
<1> QED
  BY <1>3, <1>4, <1>5, <1>6 DEF ToldOK, p

\* What the peer has sent is not touched by a step of e.
LEMMA PeerSame ==
    ASSUME Kinds, Flags, NEW e \in Ends, Api(e) \/ Worker(e)
    PROVE  UNCHANGED <<wire[Peer(e)], out[Peer(e)], accepted[Peer(e)], shutdown[Peer(e)]>>
BY PeerProps, Apart DEF Same

LEMMA ReportErrorTold ==
    ASSUME Kinds, Kinds', Flags, Flags', NEW e \in Ends, ToldOK(e), Control(e), ReportError(e)
    PROVE  ToldOK(e)'
<1>0. /\ pc \in [Ends -> {"loop", "collect", "emit", "check", "call", "in", "done"}]
      /\ errorDelivered \in [Ends -> BOOLEAN] /\ events \in [Ends -> Seq(Event)]
  BY DEF Kinds, Flags
<1>1. /\ UNCHANGED <<read[e], remoteEof[e], failed[e], closing[e], wire[Peer(e)],
                     out[Peer(e)], accepted[Peer(e)], shutdown[Peer(e)]>>
      /\ got'[e] = got[e]
  BY DEF ReportError, sendVars, wireVars, peerVars, closeVars
<1>2. ~errorDelivered[e] /\ errorDelivered'[e] /\ failed[e] # "ok" /\ events[e] = <<>>
  BY <1>0 DEF ReportError, Control
<1>3. pc'[e] # "collect"
  BY <1>0, UnlockedProps DEF ReportError
<1>4. Failure \in Event /\ Failure.kind = "error" /\ Failure.part = 0
  BY DEF Failure, Event
<1>5. CASE events' = [events EXCEPT ![e] = <<Failure>>]
  <2>1. events'[e] = Append(events[e], Failure)
    BY <1>0, <1>2, <1>5
  <2>2. Said(e)' = Append(Said(e), Failure)
    BY <1>1, <1>4, <2>1, SaidMore
  <2> QED
    BY <1>1, <1>2, <1>3, <1>4, <2>2, ToldDrain
<1>6. CASE UNCHANGED events
  <2>1. Said(e)' = Said(e)
    BY <1>1, <1>6 DEF Said
  <2> DEFINE a == Said(e)
             p == Peer(e)
  <2>2. /\ InTurn(a, accepted[p], errorDelivered[e], remoteEof[e], shutdown[p])
        /\ read[e] <= out[p] /\ Count(a, Len(a)) <= Count(wire[p], read[e])
    BY DEF ToldOK
  <2> HIDE DEF a
  <2>3. InTurn(a, accepted[p], errorDelivered'[e], remoteEof[e], shutdown[p])
    <3>1. /\ errorDelivered[e] => errorDelivered'[e]
          /\ remoteEof[e] => remoteEof[e]
          /\ shutdown[p] => shutdown[p] /\ accepted[p] = accepted[p]
      BY <1>2
    <3> HIDE DEF p
    <3> QED
      BY <2>2, <3>1, InTurnKept
  <2>4. Said(e)' = a
    BY <2>1 DEF a
  <2> HIDE DEF p
  <2>5. Count(Said(e)', Len(Said(e)')) <= Count(wire[p], read[e])
    BY <2>2, <2>4
  <2> QED
    BY <1>1, <1>2, <1>3, <2>2, <2>3, <2>4, <2>5 DEF ToldOK, p
<1> QED
  BY <1>5, <1>6 DEF ReportError

LEMMA UnlockTold ==
    ASSUME Kinds, Kinds', Flags, Flags', NEW e \in Ends, ToldOK(e), Unlock(e), Grows(Peer(e))
    PROVE  ToldOK(e)'
<1>0. /\ pc \in [Ends -> {"loop", "collect", "emit", "check", "call", "in", "done"}]
      /\ errorDelivered \in [Ends -> BOOLEAN] /\ events \in [Ends -> Seq(Event)]
      /\ failed \in [Ends -> {"ok", "EPROTO", "ETRANSPORT", "ENOMEM"}]
  BY DEF Kinds, Flags
<1>1. ~errorDelivered[e]
  BY <1>0 DEF ToldOK, Unlock
<1>2. UNCHANGED <<read, remoteEof, closing, errorDelivered, wire, out, accepted, shutdown, got>>
  BY DEF Unlock, wireVars, peerVars, closeVars
<1>3. CASE events' = [events EXCEPT ![e] = Append(@, Drain)] /\ UNCHANGED failed
  <2>1. Drain \in Event /\ Drain.kind = "drain" /\ Drain.part = 0
    BY DEF Drain, Event
  <2>2. events'[e] = Append(events[e], Drain)
    BY <1>0, <1>3
  <2>3. Said(e)' = Append(Said(e), Drain)
    BY <1>2, <2>1, <2>2, SaidMore
  <2> QED
    BY <1>1, <1>2, <1>3, <2>1, <2>3, ToldDrain
<1>4. CASE UNCHANGED events /\ (UNCHANGED failed \/ failed' = Failing(e, "ENOMEM"))
  <2>1. failed'[e] = "ok" => failed[e] = "ok"
    BY <1>0, <1>4 DEF Failing
  <2>2. Calm(e)
    BY <1>1, <1>2, <1>4, <2>1 DEF Calm, Said
  <2> QED
    BY <2>2, ToldStays
<1> QED
  BY <1>3, <1>4 DEF Unlock

\* What a close drops.
LEMMA CheckTold ==
    ASSUME Kinds, Kinds', Flags, NEW e \in Ends, ToldOK(e), Check(e), Grows(Peer(e))
    PROVE  ToldOK(e)'
<1>0. /\ pc \in [Ends -> {"loop", "collect", "emit", "check", "call", "in", "done"}]
      /\ events \in [Ends -> Seq(Event)] /\ got[e] \in Seq(Event)
      /\ events[e] \in Seq(Event)
  BY DEF Kinds
<1>1. UNCHANGED <<read, remoteEof, closing, errorDelivered, failed, wire, out, accepted,
                  shutdown, got>>
  BY DEF Check, sendVars, wireVars, peerVars, failVars, closeVars
<1>2. pc'[e] # "collect"
  <2>1. pc' = [pc EXCEPT ![e] = "loop"] \/ pc' = [pc EXCEPT ![e] = "call"]
    BY DEF Check
  <2> QED
    BY <1>0, <2>1
<1>3. errorDelivered[e] => failed[e] # "ok"
  BY DEF ToldOK
<1>4. CASE closing[e] /\ events'[e] = <<>>
  <2> DEFINE a == Said(e)
             p == Peer(e)
  <2>1. Said(e)' = got[e]
    BY <1>0, <1>1, <1>4, ConcatEmptySeq DEF Said
  <2>2. /\ a \in Seq(Event) /\ Len(got[e]) <= Len(a)
        /\ \A i \in 1..Len(got[e]) : got[e][i] = a[i]
    BY <1>0, ConcatProperties DEF Said
  <2>3. /\ InTurn(a, accepted[p], errorDelivered[e], remoteEof[e], shutdown[p])
        /\ read[e] <= out[p] /\ Count(a, Len(a)) <= Count(wire[p], read[e])
    BY DEF ToldOK
  <2> HIDE DEF a
  <2>4. /\ InTurn(got[e], accepted[p], errorDelivered[e], remoteEof[e], shutdown[p])
        /\ Count(got[e], Len(got[e])) <= Count(a, Len(a))
    BY <1>0, <2>2, <2>3, InTurnPrefix
  <2>5. Count(got[e], Len(got[e])) <= Count(wire[p], read[e])
    <3>1. p \in Ends
      BY PeerProps
    <3>2. read[e] \in Nat /\ Len(a) \in Nat /\ Len(got[e]) \in Nat
      <4>1. read \in [Ends -> Nat]
        BY DEF Kinds
      <4>2. read[e] \in Nat
        BY <4>1
      <4>3. Len(a) \in Nat
        BY <2>2
      <4>4. Len(got[e]) \in Nat
        BY <1>0
      <4> QED
        BY <4>2, <4>3, <4>4
    <3>3. /\ Count(got[e], Len(got[e])) \in Nat /\ Count(a, Len(a)) \in Nat
          /\ Count(wire[p], read[e]) \in Nat
      BY <3>2, CountNat
    <3> QED
      BY <2>3, <2>4, <3>3
  <2>6. closing'[e]
    BY <1>1, <1>4
  <2> HIDE DEF p
  <2>7. Count(Said(e)', Len(Said(e)')) <= Count(wire[p], read[e])
    BY <2>1, <2>5
  <2> QED
    BY <1>1, <1>2, <1>3, <2>1, <2>3, <2>4, <2>6, <2>7 DEF ToldOK, p
<1>5. CASE UNCHANGED events[e]
  <2>1. Calm(e)
    BY <1>1, <1>2, <1>3, <1>5 DEF Calm, Said
  <2> QED
    BY <2>1, ToldStays
<1>6. (events'[e] = <<>> /\ closing[e]) \/ UNCHANGED events[e]
  BY <1>0 DEF Check
<1> QED
  BY <1>4, <1>5, <1>6

LEMMA CollectTold ==
    ASSUME Kinds, Kinds', Flags, Flags', NEW e \in Ends, ToldOK(e),
           SentOK(Peer(e)), Control(e), Collect(e)
    PROVE  ToldOK(e)'
<1> DEFINE p == Peer(e)
           a == Said(e)
           b == Said(e)'
           n == read[e]
           w == wire[p]
           r == Incoming(e)
<1>0. /\ read \in [Ends -> Nat] /\ events \in [Ends -> Seq(Event)]
      /\ remoteEof \in [Ends -> BOOLEAN] /\ errorDelivered \in [Ends -> BOOLEAN]
      /\ a \in Seq(Event)
  BY SaidType DEF Kinds, Flags
<1>00. shutdown[p] \in BOOLEAN
  BY PeerProps DEF Flags
<1>1. /\ UNCHANGED <<got, errorDelivered, failed, closing, pc, wire[p], out[p],
                     accepted[p], shutdown[p]>>
      /\ read'[e] = n + 1
  <2>1. Worker(e)
    BY DEF Worker
  <2> QED
    BY <1>0, <2>1, PeerSame DEF Collect, failVars, closeVars
<1>2. /\ n \in Nat /\ n + 1 <= out[p] /\ n + 1 \in 1..Len(w)
      /\ r = w[n + 1] /\ r \in Record
  BY IncomingProps DEF Collect
<1>3. failed[e] = "ok" /\ ~closing[e] /\ ~errorDelivered[e]
  BY DEF Collect, Readable, Control, ToldOK
<1>4. /\ InTurn(a, accepted[p], errorDelivered[e], remoteEof[e], shutdown[p])
      /\ Count(a, Len(a)) = Count(w, n)
  BY <1>3 DEF ToldOK
<1>5. /\ r.kind = "data" => r.part = Count(w, n + 1)
      /\ r.kind = "fin" => shutdown[p] /\ Count(w, n + 1) = accepted[p]
  BY <1>2 DEF SentOK
<1>6. /\ r.kind = "data" => Count(w, n + 1) = Count(w, n) + 1
      /\ r.kind # "data" => Count(w, n + 1) = Count(w, n)
  BY <1>2, CountNext
<1>7. SUFFICES /\ InTurn(b, accepted[p], errorDelivered[e], remoteEof'[e], shutdown[p])
               /\ Count(b, Len(b)) = Count(w, n + 1)
  <2>1. Count(w, n + 1) \in Nat
    BY <1>2, CountNat
  <2>2. InTurn(Said(e)', accepted'[p], errorDelivered'[e], remoteEof'[e], shutdown'[p])
    BY <1>1, <1>7
  <2>3. Count(Said(e)', Len(Said(e)')) = Count(wire'[p], read'[e])
    BY <1>1, <1>7
  <2>4. Count(Said(e)', Len(Said(e)')) <= Count(wire'[p], read'[e])
    <3> DEFINE x == Count(Said(e)', Len(Said(e)'))
               y == Count(wire'[p], read'[e])
    <3>1. x = y /\ y \in Nat
      BY <1>1, <2>1, <2>3
    <3> HIDE DEF x, y
    <3>2. x <= y
      BY <3>1
    <3> QED
      BY <3>2 DEF x, y
  <2>5. read'[e] <= out'[p]
    BY <1>1, <1>2
  <2>6. ~errorDelivered'[e]
    BY <1>1, <1>3
  <2> HIDE DEF p
  <2> QED
    BY <2>2, <2>3, <2>4, <2>5, <2>6 DEF ToldOK, p
<1>8. CASE CollectData(e)
  <2>1. /\ r.kind = "data" /\ UNCHANGED remoteEof
        /\ events' = [events EXCEPT ![e] = Append(@, r)]
    BY <1>8 DEF CollectData
  <2>2. ~remoteEof[e]
    BY <2>1 DEF Collect, InPlace
  <2>3. r \in Event
    BY <1>2, <2>1 DEF Record, Event
  <2>4. b = Append(a, r)
    BY <1>0, <1>1, <2>1, <2>3, SaidMore
  <2>5. r.part = Count(a, Len(a)) + 1
    BY <1>4, <1>5, <1>6, <2>1
  <2> DEFINE all  == accepted[p]
             told == errorDelivered[e]
             over == remoteEof[e]
             ends == shutdown[p]
  <2>6. InTurn(a, all, told, over, ends) /\ ~told /\ ~over
    BY <1>3, <1>4, <2>2
  <2> HIDE DEF all, told, over, ends, a, b, r
  <2>7. InTurn(Append(a, r), all, told, over, ends)
    <3>1. /\ a \in Seq(Event) /\ r \in Event /\ InTurn(a, all, told, over, ends) /\ ~told
          /\ r.kind = "data" /\ r.part = Count(a, Len(a)) + 1 /\ ~over
      BY <1>0, <2>1, <2>3, <2>5, <2>6
    <3>2. told \in BOOLEAN /\ over \in BOOLEAN /\ ends \in BOOLEAN
      BY <1>0, <1>00 DEF told, over, ends
    <3> QED
      BY <3>1, <3>2, InTurnAppend
  <2>8. Count(Append(a, r), Len(Append(a, r))) = Count(a, Len(a)) + 1
    BY <1>0, <2>1, <2>3, CountAppend
  <2>9. InTurn(b, accepted[p], errorDelivered[e], remoteEof'[e], shutdown[p])
    BY <2>1, <2>4, <2>7 DEF all, told, over, ends
  <2> QED
    BY <1>4, <1>6, <2>1, <2>4, <2>8, <2>9
<1>9. CASE CollectFin(e)
  <2>1. /\ r.kind = "fin" /\ remoteEof' = [remoteEof EXCEPT ![e] = TRUE]
        /\ events' = [events EXCEPT ![e] = Append(@, Eof)]
    BY <1>9 DEF CollectFin
  <2>2. ~remoteEof[e] /\ remoteEof'[e]
    BY <1>0, <2>1 DEF Collect, InPlace
  <2>3. Eof \in Event /\ Eof.kind = "eof" /\ Eof.part = 0
    BY DEF Eof, Event
  <2>4. b = Append(a, Eof)
    BY <1>0, <1>1, <2>1, <2>3, SaidMore
  <2> DEFINE all  == accepted[p]
             told == errorDelivered[e]
             over == remoteEof[e]
             new  == remoteEof'[e]
             ends == shutdown[p]
  <2>5. /\ InTurn(a, all, told, over, ends) /\ ~told /\ ~over /\ new /\ ends
        /\ Count(a, Len(a)) = all
    BY <1>3, <1>4, <1>5, <1>6, <2>1, <2>2
  <2>9. /\ told \in BOOLEAN /\ over \in BOOLEAN /\ new \in BOOLEAN /\ ends \in BOOLEAN
    BY <1>0, <1>00, <2>1
  <2> HIDE DEF all, told, over, new, ends, a, b, r
  <2>6. InTurn(Append(a, Eof), all, told, new, ends)
    BY <1>0, <2>3, <2>5, <2>9, InTurnAppend
  <2>7. Count(Append(a, Eof), Len(Append(a, Eof))) = Count(a, Len(a))
    BY <1>0, <2>3, CountAppend
  <2>8. InTurn(b, accepted[p], errorDelivered[e], remoteEof'[e], shutdown[p])
    BY <2>4, <2>6 DEF all, told, new, ends
  <2> QED
    BY <1>4, <1>6, <2>1, <2>4, <2>7, <2>8
<1>10. CASE CollectFinAck(e)
  <2>1. r.kind = "fin_ack" /\ UNCHANGED <<events, remoteEof>>
    BY <1>10 DEF CollectFinAck
  <2>2. b = a
    BY <1>1, <2>1 DEF Said
  <2> HIDE DEF a, b, r
  <2> QED
    BY <1>4, <1>6, <2>1, <2>2
<1> QED
  BY <1>8, <1>9, <1>10 DEF Collect

LEMMA CollectNoMemTold ==
    ASSUME Kinds, Kinds', Flags, Flags', NEW e \in Ends, ToldOK(e), Control(e), CollectNoMem(e),
           Grows(Peer(e))
    PROVE  ToldOK(e)'
<1> DEFINE p == Peer(e)
           a == Said(e)
           n == read[e]
           w == wire[p]
<1>0. /\ read \in [Ends -> Nat] /\ remoteEof \in [Ends -> BOOLEAN]
      /\ failed \in [Ends -> {"ok", "EPROTO", "ETRANSPORT", "ENOMEM"}]
      /\ a \in Seq(Event) /\ Len(a) \in Nat
  <2>1. a \in Seq(Event)
    BY SaidType
  <2> HIDE DEF a
  <2>2. Len(a) \in Nat
    BY <2>1
  <2> QED
    BY <2>1, <2>2 DEF Kinds, Flags
<1>1. /\ UNCHANGED <<got, events, errorDelivered, closing, pc, wire[p], out[p],
                     accepted[p], shutdown[p]>>
      /\ Said(e)' = a
  <2>1. Worker(e)
    BY DEF Worker
  <2> QED
    BY <2>1, PeerSame DEF CollectNoMem, closeVars, workVars, Said
<1>2. failed'[e] # "ok" /\ pc[e] = "collect" /\ ~errorDelivered[e]
  BY <1>0 DEF CollectNoMem, Readable, Failing, ToldOK
<1>3. CASE UNCHANGED <<read, remoteEof>>
  <2>1. Calm(e)
    BY <1>1, <1>2, <1>3 DEF Calm
  <2> QED
    BY <2>1, ToldStays
<1>4. CASE /\ read' = [read EXCEPT ![e] = @ + 1]
           /\ remoteEof' = [remoteEof EXCEPT ![e] = @ \/ Incoming(e).kind = "fin"]
  <2>1. read'[e] = n + 1 /\ (remoteEof[e] => remoteEof'[e])
    BY <1>0, <1>4
  <2>2. n \in Nat /\ n + 1 <= out[p]
    BY IncomingProps DEF CollectNoMem
  <2>3. /\ InTurn(a, accepted[p], errorDelivered[e], remoteEof[e], shutdown[p])
        /\ Count(a, Len(a)) <= Count(w, n)
    BY DEF ToldOK
  <2>4. InTurn(a, accepted[p], errorDelivered[e], remoteEof'[e], shutdown[p])
    <3> DEFINE all  == accepted[p]
               told == errorDelivered[e]
               over == remoteEof[e]
               new  == remoteEof'[e]
               ends == shutdown[p]
    <3>1. InTurn(a, all, told, over, ends) /\ (over => new)
      BY <2>1, <2>3
    <3> HIDE DEF all, told, over, new, ends, a
    <3>2. InTurn(a, all, told, new, ends)
      BY <3>1, InTurnKept
    <3> QED
      BY <3>2 DEF all, told, new, ends
  <2>5. Count(a, Len(a)) <= Count(w, n + 1)
    <3>1. Count(w, n) <= Count(w, n + 1)
      BY <2>2, CountMono
    <3>2. Count(a, Len(a)) \in Nat /\ Count(w, n) \in Nat /\ Count(w, n + 1) \in Nat
      BY <1>0, <2>2, CountNat
    <3> QED
      BY <2>3, <3>1, <3>2
  <2> HIDE DEF a
  <2>6. /\ InTurn(Said(e)', accepted'[p], errorDelivered'[e], remoteEof'[e], shutdown'[p])
        /\ Count(Said(e)', Len(Said(e)')) <= Count(wire'[p], read'[e])
        /\ read'[e] <= out'[p] /\ ~errorDelivered'[e]
    BY <1>1, <1>2, <2>1, <2>2, <2>4, <2>5
  <2> HIDE DEF p
  <2> QED
    BY <1>2, <2>6 DEF ToldOK, p
<1> QED
  BY <1>3, <1>4 DEF CollectNoMem

LEMMA ToldStep ==
    ASSUME Kinds, Kinds', Flags, Flags', NEW e \in Ends, Api(e) \/ Worker(e),
           \A x \in Ends : Control(x) /\ SentOK(x) /\ ToldOK(x)
    PROVE  \A x \in Ends : ToldOK(x)'
<1>1. \A x \in Ends : Peer(x) \in Ends /\ Grows(Peer(x))
  BY PeerProps, GrowStep
<1>2. ASSUME NEW x \in Ends, x # e
      PROVE  ToldOK(x)'
  BY <1>1, <1>2, ApartCalm, ToldStays
<1>3. ToldOK(e)'
  <2>1. CASE ReportError(e)
    BY <2>1, ReportErrorTold
  <2>2. CASE Collect(e)
    BY <1>1, <2>2, CollectTold
  <2>3. CASE CollectNoMem(e)
    BY <1>1, <2>3, CollectNoMemTold
  <2>4. CASE Unlock(e)
    BY <1>1, <2>4, UnlockTold
  <2>5. CASE Check(e)
    BY <1>1, <2>5, CheckTold
  <2>6. CASE /\ ~ReportError(e) /\ ~Collect(e) /\ ~CollectNoMem(e)
             /\ ~Unlock(e) /\ ~Check(e)
    BY <1>1, <2>6, CalmStep, ToldStays
  <2> QED
    BY <2>1, <2>2, <2>3, <2>4, <2>5, <2>6
<1> QED
  BY <1>2, <1>3

-----------------------------------------------------------------------------
(* The invariant. *)

LEMMA LoadedStep ==
    ASSUME Kinds, Loaded, NEW e \in Ends, Api(e) \/ Worker(e)
    PROVE  Loaded'
<1>1. budget \in Load
  BY DEF Kinds
<1>2. budget'.parts = budget.parts
  <2>1. CASE UNCHANGED budget
    BY <2>1
  <2>2. CASE Spend("nomem") \/ Spend("refused")
    BY <1>1, <2>2 DEF Spend, Load
  <2>3. ASSUME NEW k \in budget.parts, Send(e, k)
        PROVE  budget'.parts = budget.parts
    BY <1>1, <2>3 DEF Send, Load
  <2>4. ASSUME NEW kind, Input(e, kind)
        PROVE  budget'.parts = budget.parts
    BY <1>1, <2>4 DEF Input, Load
  <2> QED
    BY <2>1, <2>2, <2>3, <2>4 DEF Api, Worker, Shutdown, CloseOutside, CloseJoined,
       CloseInside, Exit, ReportError, RefuseInput, Feed, FeedNoMem, Collect,
       CollectUnexpected, CollectNoMem, Unlock, Emit, EmitRefused, Check, Call
<1> QED
  BY <1>2 DEF Loaded

LEMMA InitInv == Init => IInv
<1> SUFFICES ASSUME Init
             PROVE  IInv
  OBVIOUS
<1>1. budget \in Loads /\ budget \in Load
  BY LoadsAssumption DEF Init
<1>2. Kinds
  BY <1>1, LimitsAssumption DEF Init, Kinds
<1>3. Flags
  BY DEF Init, Flags
<1>4. Loaded
  BY <1>1 DEF Loaded
<1>5. ASSUME NEW e \in Ends
      PROVE  Control(e) /\ SentOK(e) /\ ToldOK(e)
  <2> DEFINE p == Peer(e)
  <2>1. p \in Ends
    BY PeerProps
  <2>2. /\ wire[e] = <<>> /\ sendq[e] = <<>> /\ accepted[e] = 0
        /\ got[e] = <<>> /\ events[e] = <<>> /\ read[e] = 0 /\ ~errorDelivered[e]
        /\ wire[p] = <<>> /\ out[p] = 0
    BY <2>1 DEF Init
  <2>3. Control(e)
    BY DEF Init, Control
  <2>4. Count(<<>>, 0) = 0
    BY CountZero
  <2>5. SentOK(e)
    BY <2>2, <2>4 DEF SentOK
  <2>6. Said(e) = <<>>
    BY <2>2, ConcatEmptySeq DEF Said
  <2>7. InTurn(<<>>, accepted[p], errorDelivered[e], remoteEof[e], shutdown[p])
    BY DEF InTurn
  <2>8. ToldOK(e)
    BY <2>2, <2>4, <2>6, <2>7 DEF ToldOK
  <2> QED
    BY <2>3, <2>5, <2>8
<1> QED
  BY <1>2, <1>3, <1>4, <1>5, TypeParts DEF IInv

LEMMA NextInv ==
    ASSUME IInv, [Next]_vars
    PROVE  IInv'
<1>0. Kinds /\ Flags /\ \A x \in Ends : Control(x) /\ SentOK(x) /\ ToldOK(x)
  BY TypeParts DEF IInv
<1>1. Kinds' /\ Flags' /\ TypeOK'
  <2>1. Kinds' /\ Flags'
    BY <1>0, KindsStep, FlagsStep
  <2> QED
    BY <2>1, TypeParts, PTL
<1>2. CASE UNCHANGED vars
  BY <1>2 DEF vars, sendVars, wireVars, peerVars, failVars, closeVars, workVars, IInv,
     TypeOK, Loaded, Control, SentOK, ToldOK, Said
<1>3. ASSUME NEW e \in Ends, Api(e) \/ Worker(e)
      PROVE  IInv'
  <2>1. Loaded'
    BY <1>0, <1>3, LoadedStep DEF IInv
  <2>2. \A x \in Ends : SentOK(x)'
    BY <1>0, <1>3, SentStep
  <2>3. \A x \in Ends : ToldOK(x)'
    BY <1>0, <1>1, <1>3, ToldStep
  <2>4. Control(e)'
    BY <1>0, <1>3, ControlStep
  <2>5. ASSUME NEW x \in Ends, x # e
        PROVE  Control(x)'
    BY <1>0, <1>3, <2>5, Apart DEF Same, Control
  <2> QED
    BY <1>1, <2>1, <2>2, <2>3, <2>4, <2>5 DEF IInv
<1> QED
  BY <1>2, <1>3 DEF Next

\* The strengthening is inductive.
THEOREM Inductive == Spec => []IInv
<1>1. Init => IInv
  BY InitInv
<1>2. IInv /\ [Next]_vars => IInv'
  BY NextInv
<1> QED
  BY <1>1, <1>2, PTL DEF Spec

\* Types, the limit of the queue, and that only what has left is acknowledged.
THEOREM TypeCorrect == Spec => []TypeOK
<1>1. IInv => TypeOK
  BY DEF IInv
<1> QED
  BY <1>1, Inductive, PTL

\* A stream is released at most once, and only when its worker is over: whoever
\* closes it, from a callback or from outside, and in whatever order.
THEOREM OneRelease == Spec => []ReleasedOnce
<1>1. IInv => ReleasedOnce
  BY DEF IInv, Control, ReleasedOnce
<1> QED
  BY <1>1, Inductive, PTL

-----------------------------------------------------------------------------
(* The callbacks, the sends and the closes are those of Stream. *)

\* What Stream sees of an end that makes no callback.
Seen == <<accepted, shutdown, closer, selfRelease, got>>

LEMMA SeenSame ==
    ASSUME UNCHANGED Seen
    PROVE  UNCHANGED Stream!streamVars
BY DEF Seen, Stream!streamVars

LEMMA InitRefines == Init => Stream!StreamInit
<1> SUFFICES ASSUME Init
             PROVE  Stream!StreamInit
  OBVIOUS
<1>1. /\ {e \in Ends : shutdown[e]} = {}
      /\ {e \in Ends : closer[e] = "returned" \/ selfRelease[e]} = {}
  BY DEF Init
<1> QED
  BY <1>1 DEF Init, Stream!StreamInit

LEMMA CallRefines ==
    ASSUME IInv, NEW e \in Ends, Call(e)
    PROVE  Stream!StreamNext
<1> DEFINE p  == Peer(e)
           g  == got[e]
           n  == Len(g)
           ev == Head(events[e])
           a  == Said(e)
<1>0. Kinds /\ Flags /\ Control(e) /\ ToldOK(e) /\ SentOK(p) /\ p \in Ends
  BY PeerProps, TypeParts DEF IInv
<1>1. /\ g \in Seq(Event) /\ events[e] \in Seq(Event) /\ events[e] # <<>> /\ ev \in Event
      /\ got \in [Ends -> Seq(Event)]
  <2>1. /\ g \in Seq(Event) /\ events[e] \in Seq(Event) /\ got \in [Ends -> Seq(Event)]
    BY <1>0 DEF Kinds
  <2>2. events[e] # <<>>
    BY <1>0 DEF Control, Call
  <2> QED
    BY <2>1, <2>2
<1>2. /\ a \in Seq(Event) /\ n \in Nat /\ n + 1 \in 1..Len(a) /\ a[n + 1] = ev
      /\ \A i \in 1..n : i \in 1..Len(a) /\ a[i] = g[i]
  <2>1. /\ Len(a) = n + Len(events[e]) /\ a \in Seq(Event)
        /\ \A i \in 1..n + Len(events[e]) :
             a[i] = IF i <= n THEN g[i] ELSE events[e][i - n]
    BY <1>1, ConcatProperties DEF Said
  <2>2. Len(events[e]) \in Nat /\ Len(events[e]) >= 1 /\ ev = events[e][1] /\ n \in Nat
    BY <1>1
  <2> HIDE DEF a, g, n, ev
  <2>3. n + 1 \in 1..Len(a) /\ (n + 1) - n = 1 /\ ~(n + 1 <= n)
    BY <2>1, <2>2
  <2>4. a[n + 1] = ev
    BY <2>1, <2>2, <2>3
  <2>5. \A i \in 1..n : i \in 1..Len(a) /\ a[i] = g[i]
    BY <2>1, <2>2
  <2> QED
    BY <2>1, <2>2, <2>3, <2>4, <2>5
<1>3. InTurn(a, accepted[p], errorDelivered[e], remoteEof[e], shutdown[p])
  BY <1>0 DEF ToldOK
<1>4. /\ pc[e] = "call" /\ got' = [got EXCEPT ![e] = Append(g, ev)]
      /\ UNCHANGED <<accepted, shutdown, closer, selfRelease>>
  BY DEF Call, sendVars, closeVars
<1>5. closer[e] # "returned" /\ ~selfRelease[e]
  BY <1>0, <1>4 DEF Control
<1>6. Stream!Far(e) = p
  BY DEF Stream!Far, Peer
<1>7. Stream!Given(e) = Count(g, n) /\ Count(g, n) = Count(a, n) /\ Count(a, n) \in Nat
  <2>1. Stream!Given(e) = Count(g, n)
    <3>1. Stream!Told(e, "data") = DataIn(g, n)
      BY DEF Stream!Told, DataIn
    <3> QED
      BY <3>1 DEF Stream!Given, Count, Stream!Cardinality, Cardinality
  <2>2. Count(g, n) = Count(a, n)
    <3>1. n \in Nat /\ \A i \in 1..n : g[i] = a[i]
      BY <1>2
    <3> HIDE DEF g, n, a
    <3> QED
      BY <3>1, CountSame
  <2>3. Count(a, n) \in Nat
    BY <1>2, CountNat
  <2> QED
    BY <2>1, <2>2, <2>3
<1>8. /\ ev.kind = "data" => Count(a, n + 1) = Count(a, n) + 1
      /\ ev.kind # "data" => Count(a, n + 1) = Count(a, n)
  BY <1>2, CountNext
<1>9. /\ ev.kind = "data" => ev.part = Count(a, n + 1)
      /\ ev.kind # "data" => ev.part = 0
      /\ ev.kind = "eof" => shutdown[p] /\ Count(a, n + 1) = accepted[p]
  BY <1>2, <1>3 DEF InTurn
<1>10. Stream!Told(e, "error") = {}
  <2> SUFFICES ASSUME NEW i \in 1..n, g[i].kind = "error"
               PROVE  FALSE
    BY DEF Stream!Told
  <2>1. i \in 1..Len(a) /\ a[i].kind = "error"
    BY <1>2
  <2>2. i = Len(a)
    BY <1>3, <2>1 DEF InTurn
  <2> QED
    BY <1>2, <2>2
<1>11. ev.kind \in {"data", "eof"} => Stream!Told(e, "eof") = {}
  <2> SUFFICES ASSUME ev.kind \in {"data", "eof"}, NEW i \in 1..n, g[i].kind = "eof"
               PROVE  FALSE
    BY DEF Stream!Told
  <2>1. i \in 1..Len(a) /\ a[i].kind = "eof"
    BY <1>2
  <2>2. \A l \in i + 1..Len(a) : a[l].kind \notin {"data", "eof"}
    BY <1>3, <2>1 DEF InTurn
  <2>3. n + 1 \in i + 1..Len(a)
    BY <1>2
  <2> QED
    BY <1>2, <2>2, <2>3
<1>12. \A kind, part : ev = [kind |-> kind, part |-> part] => Stream!Tell(e, kind, part)
  BY <1>4, <1>5, <1>10 DEF Stream!Tell
<1>13. ev = [kind |-> ev.kind, part |-> ev.part] /\ ev.kind \in {"data", "eof", "drain", "error"}
  BY <1>1 DEF Event
<1> HIDE DEF ev
<1>14. CASE ev.kind = "data"
  <2>1. Count(a, n + 1) <= accepted[p]
    <3>1. Count(a, n + 1) <= Count(a, Len(a))
      BY <1>2, CountMono
    <3>2. Count(a, Len(a)) <= Count(wire[p], read[e])
      BY <1>0 DEF ToldOK
    <3>3. Count(wire[p], read[e]) <= Count(wire[p], Len(wire[p]))
      <4>1. /\ read[e] \in Nat /\ read[e] <= out[p] /\ out[p] \in Nat
            /\ out[p] <= Len(wire[p]) /\ wire[p] \in Seq(Record)
        BY <1>0 DEF Kinds, ToldOK
      <4>2. Len(wire[p]) \in Nat
        BY <4>1
      <4>3. read[e] <= Len(wire[p])
        BY <4>1, <4>2
      <4> QED
        BY <4>1, <4>2, <4>3, CountMono
    <3>4. Count(wire[p], Len(wire[p])) + Len(sendq[p]) = accepted[p]
      BY <1>0 DEF SentOK
    <3>5. /\ Count(a, n + 1) \in Nat /\ Count(a, Len(a)) \in Nat
          /\ Count(wire[p], read[e]) \in Nat /\ Count(wire[p], Len(wire[p])) \in Nat
          /\ Len(sendq[p]) \in Nat
      <4>1. /\ n + 1 \in Nat /\ Len(a) \in Nat /\ read[e] \in Nat /\ Len(wire[p]) \in Nat
            /\ Len(sendq[p]) \in Nat
        <5>1. wire[p] \in Seq(Record) /\ sendq[p] \in Seq(Nat) /\ read[e] \in Nat
          BY <1>0 DEF Kinds
        <5>2. n + 1 \in Nat /\ Len(a) \in Nat
          BY <1>2
        <5> QED
          BY <5>1, <5>2
      <4> QED
        BY <4>1, CountNat
    <3> DEFINE c1 == Count(a, n + 1)
               c2 == Count(a, Len(a))
               c3 == Count(wire[p], read[e])
               c4 == Count(wire[p], Len(wire[p]))
    <3> HIDE DEF c1, c2, c3, c4
    <3> QED
      BY <3>1, <3>2, <3>3, <3>4, <3>5
  <2>2. Stream!Given(e) < accepted[p] /\ ev.part = Stream!Given(e) + 1
    <3>1. accepted[p] \in Nat
      BY <1>0 DEF Kinds
    <3> QED
      BY <1>7, <1>8, <1>9, <1>14, <2>1, <3>1
  <2>3. Stream!Tell(e, "data", Stream!Given(e) + 1)
    BY <1>12, <1>13, <1>14, <2>2
  <2>4. Stream!TellData(e)
    BY <1>6, <1>11, <1>14, <2>2, <2>3 DEF Stream!TellData
  <2> QED
    BY <2>4 DEF Stream!StreamNext
<1>15. CASE ev.kind = "eof"
  <2>1. Stream!Given(e) = accepted[p] /\ ev.part = 0 /\ shutdown[p]
    BY <1>7, <1>8, <1>9, <1>15
  <2>2. Stream!Tell(e, "eof", 0)
    BY <1>12, <1>13, <1>15, <2>1
  <2>3. Stream!TellEof(e)
    BY <1>0, <1>6, <1>11, <1>15, <2>1, <2>2 DEF Stream!TellEof
  <2> QED
    BY <2>3 DEF Stream!StreamNext
<1>16. CASE ev.kind \in {"drain", "error"}
  <2>1. ev.part = 0
    BY <1>9, <1>16
  <2>2. Stream!Tell(e, "drain", 0) \/ Stream!Tell(e, "error", 0)
    BY <1>12, <1>13, <1>16, <2>1
  <2> QED
    BY <2>2 DEF Stream!StreamNext
<1> QED
  BY <1>13, <1>14, <1>15, <1>16

LEMMA StepRefines ==
    ASSUME IInv, [Next]_vars
    PROVE  [Stream!StreamNext]_(Stream!streamVars)
<1> USE DEF sendVars, wireVars, peerVars, failVars, closeVars, workVars
<1>0. CASE UNCHANGED vars
  BY <1>0, SeenSame DEF vars, Seen
<1> SUFFICES ASSUME NEW e \in Ends, Api(e) \/ Worker(e)
             PROVE  [Stream!StreamNext]_(Stream!streamVars)
  BY <1>0 DEF Next
<1>00. Kinds /\ Flags /\ Control(e)
  BY TypeParts DEF IInv
<1>000. /\ shutdown \in [Ends -> BOOLEAN] /\ selfRelease \in [Ends -> BOOLEAN]
        /\ closer \in [Ends -> {"none", "joining", "returned"}]
        /\ accepted \in [Ends -> Nat]
  BY <1>00 DEF Kinds, Flags
<1>1. ASSUME NEW k \in budget.parts, Send(e, k)
      PROVE  [Stream!StreamNext]_(Stream!streamVars)
  <2>1. CASE SendFull(e, k)
    <3>1. UNCHANGED Seen
      BY <1>1, <2>1 DEF Send, SendFull, Seen
    <3> QED
      BY <3>1, SeenSame
  <2>2. CASE SendQueued(e, k)
    <3>1. k \in UNION {load.parts : load \in Loads}
      BY DEF IInv, Loaded
    <3>2. Stream!Take(e, k)
      BY <1>1, <2>2 DEF Send, SendQueued, Stream!Take
    <3> QED
      BY <3>1, <3>2 DEF Stream!StreamNext
  <2> QED
    BY <1>1, <2>1, <2>2 DEF Send
<1>2. CASE Shutdown(e)
  <2>1. shutdown' = [shutdown EXCEPT ![e] = TRUE] /\ UNCHANGED <<accepted, closer, selfRelease, got>>
    BY <1>2 DEF Shutdown
  <2>2. {x \in Ends : shutdown'[x]} = {x \in Ends : shutdown[x]} \cup {e}
    BY <1>000, <2>1
  <2>3. Stream!Shut(e)
    BY <2>1, <2>2 DEF Stream!Shut
  <2> QED
    BY <2>3 DEF Stream!StreamNext
<1>3. CASE CloseJoined(e) \/ CloseInside(e)
  <2>1. UNCHANGED <<accepted, shutdown, got>>
    BY <1>3 DEF CloseJoined, CloseInside
  <2>2. {x \in Ends : closer'[x] = "returned" \/ selfRelease'[x]}
          = {x \in Ends : closer[x] = "returned" \/ selfRelease[x]} \cup {e}
    BY <1>000, <1>3 DEF CloseJoined, CloseInside
  <2>3. Stream!Hush(e)
    BY <2>1, <2>2 DEF Stream!Hush
  <2> QED
    BY <2>3 DEF Stream!StreamNext
<1>4. CASE CloseOutside(e)
  <2>1. UNCHANGED <<accepted, shutdown, selfRelease, got>>
    BY <1>4 DEF CloseOutside
  <2>2. closer[e] = "none" /\ closer' = [closer EXCEPT ![e] = "joining"]
    BY <1>00, <1>000, <1>4 DEF CloseOutside, Control
  <2>3. {x \in Ends : closer'[x] = "returned" \/ selfRelease'[x]}
          = {x \in Ends : closer[x] = "returned" \/ selfRelease[x]}
    BY <1>000, <2>1, <2>2
  <2>4. UNCHANGED Stream!streamVars
    BY <2>1, <2>3 DEF Stream!streamVars
  <2> QED
    BY <2>4
<1>5. CASE Call(e)
  BY <1>5, CallRefines
<1>6. CASE \/ \E kind \in {"good", "bad", "alien"} : Input(e, kind)
           \/ Exit(e) \/ ReportError(e) \/ RefuseInput(e) \/ Feed(e) \/ FeedNoMem(e)
           \/ Collect(e) \/ CollectUnexpected(e) \/ CollectNoMem(e) \/ Unlock(e)
           \/ Emit(e) \/ EmitRefused(e) \/ Check(e)
  <2>1. UNCHANGED Seen
    BY <1>6 DEF Input, Exit, ReportError, RefuseInput, Feed, FeedNoMem, Collect,
       CollectUnexpected, CollectNoMem, Unlock, Emit, EmitRefused, Check, Seen
  <2> QED
    BY <2>1, SeenSame
<1> QED
  BY <1>1, <1>2, <1>3, <1>4, <1>5, <1>6 DEF Api, Worker

\* Whatever the limits, the loads and the faults, the two ends keep the promises
\* of Stream: every part in order and once, eof after all of them, an error last,
\* and silence after a close.
THEOREM Refines == Spec => ImplementsStream
<1>1. Init => Stream!StreamInit
  BY InitRefines
<1>2. IInv /\ [Next]_vars => [Stream!StreamNext]_(Stream!streamVars)
  BY StepRefines
<1> QED
  BY <1>1, <1>2, Inductive, PTL DEF Spec, ImplementsStream, Stream!StreamSpec

-----------------------------------------------------------------------------
(* The shutdown: one that is complete tells the truth, and two ends that     *)
(* follow the protocol never take each other for broken.                     *)

\* At most one record of this kind.
Single(w, kind) ==
    \A i, j \in 1..Len(w) : w[i].kind = kind /\ w[j].kind = kind => i = j

\* One FIN, which is noted, and one answer, to a FIN that was read.
Marked(e) ==
    /\ Single(wire[e], "fin") /\ Single(wire[e], "fin_ack")
    /\ \A i \in 1..Len(wire[e]) :
         /\ wire[e][i].kind = "fin" => finSent[e]
         /\ wire[e][i].kind = "fin_ack" => remoteEof[e]

\* What is noted of the peer has been read from it.
Noted(e) ==
    /\ remoteEof[e] => \E i \in 1..read[e] : wire[Peer(e)][i].kind = "fin"
    /\ finAcked[e]  => \E i \in 1..read[e] : wire[Peer(e)][i].kind = "fin_ack"

\* A datagram that is not of the session is needed to break the protocol.
Honest(e) ==
    /\ "bad" \in inbox[e] \/ "alien" \in inbox[e] => budget.foreign
    /\ failed[e] = "EPROTO" => budget.foreign

Shaken == \A e \in Ends : Marked(e) /\ Noted(e) /\ Honest(e)

-----------------------------------------------------------------------------
(* Each part that is counted is there. *)

LEMMA LeastNat ==
    ASSUME NEW T \in SUBSET Nat, T # {}
    PROVE  \E n \in T : \A m \in T : n <= m
<1> DEFINE R == OpToRel(<, Nat)
<1>1. IsWellFoundedOn(R, Nat)
  BY NatLessThanWellFounded
<1> HIDE DEF R
<1>2. PICK n \in T : \A m \in T : <<m, n>> \notin R
  BY <1>1, WFMin
<1>3. ASSUME NEW m \in T
      PROVE  n <= m
  <2>1. n \in Nat /\ m \in Nat /\ (m < n => <<m, n>> \in R)
    BY DEF R, OpToRel
  <2> QED
    BY <1>2, <2>1
<1> QED
  BY <1>3

LEMMA CountHits ==
    ASSUME NEW s, NEW i \in Nat, NEW n \in 1..Count(s, i)
    PROVE  \E j \in 1..i : s[j].kind = "data" /\ Count(s, j) = n
<1>0. Count(s, i) \in Nat /\ n \in Nat /\ n <= Count(s, i) /\ 1 <= n
  BY CountNat
<1> DEFINE T == {j \in 0..i : n <= Count(s, j)}
<1>1. PICK j \in T : \A m \in T : j <= m
  <2>1. T \in SUBSET Nat /\ i \in T
    BY <1>0
  <2> HIDE DEF T
  <2> QED
    BY <2>1, LeastNat
<1>2. j \in 0..i /\ j \in Nat /\ n <= Count(s, j)
  OBVIOUS
<1>3. j # 0
  BY <1>0, <1>2, CountZero
<1>4. j - 1 \in Nat /\ j - 1 \in 0..i /\ j \in 1..i /\ (j - 1) + 1 = j
  BY <1>2, <1>3
<1>5. j - 1 \notin T
  <2>1. ~(j <= j - 1)
    BY <1>2
  <2> HIDE DEF T
  <2> QED
    BY <1>1, <2>1
<1>6. ~(n <= Count(s, j - 1))
  BY <1>4, <1>5
<1> HIDE DEF T
<1>7. /\ s[j].kind = "data" => Count(s, j) = Count(s, j - 1) + 1
      /\ s[j].kind # "data" => Count(s, j) = Count(s, j - 1)
  BY <1>4, CountNext
<1>8. Count(s, j) \in Nat /\ Count(s, j - 1) \in Nat
  BY <1>2, <1>4, CountNat
<1> DEFINE x == Count(s, j)
           y == Count(s, j - 1)
<1>9. x \in Nat /\ y \in Nat /\ n <= x /\ ~(n <= y)
  BY <1>2, <1>6, <1>8
<1>10. (s[j].kind = "data" => x = y + 1) /\ (s[j].kind # "data" => x = y)
  BY <1>7
<1> HIDE DEF x, y
<1>11. s[j].kind = "data" /\ x = n
  BY <1>0, <1>9, <1>10
<1> QED
  BY <1>4, <1>11 DEF x

-----------------------------------------------------------------------------
(* What the ends know of each other. *)

LEMMA InitShaken == Init => Shaken
<1> SUFFICES ASSUME Init, NEW e \in Ends
             PROVE  Marked(e) /\ Noted(e) /\ Honest(e)
  BY DEF Shaken
<1>1. wire[e] = <<>> /\ ~remoteEof[e] /\ ~finAcked[e] /\ inbox[e] = {} /\ failed[e] = "ok"
  BY DEF Init
<1> QED
  BY <1>1 DEF Marked, Single, Noted, Honest

\* A record of a FIN is read only once.
LEMMA FinOnce ==
    ASSUME Kinds, NEW e \in Ends, Noted(e), Marked(Peer(e)), Readable(e), Incoming(e).kind = "fin"
    PROVE  ~remoteEof[e]
<1> DEFINE p == Peer(e)
           n == read[e]
<1>1. /\ n \in Nat /\ n + 1 \in 1..Len(wire[p]) /\ wire[p][n + 1].kind = "fin"
  BY IncomingProps
<1>2. SUFFICES ASSUME remoteEof[e]
               PROVE  FALSE
  OBVIOUS
<1>3. PICK i \in 1..n : wire[p][i].kind = "fin"
  BY <1>2 DEF Noted
<1>4. i \in 1..Len(wire[p]) /\ i # n + 1
  <2>1. wire[p] \in Seq(Record)
    BY PeerProps DEF Kinds
  <2>2. Len(wire[p]) \in Nat
    BY <2>1
  <2> QED
    BY <1>1, <2>2
<1> QED
  BY <1>1, <1>3, <1>4 DEF Marked, Single

\* The end has read no more than its peer has sent.
LEMMA ReadProps ==
    ASSUME Kinds, NEW e \in Ends, ToldOK(e)
    PROVE  /\ Peer(e) \in Ends /\ read[e] \in Nat /\ Len(wire[Peer(e)]) \in Nat
           /\ read[e] <= Len(wire[Peer(e)])
<1>1. Peer(e) \in Ends
  BY PeerProps
<1>2. /\ read[e] \in Nat /\ out[Peer(e)] \in Nat /\ wire[Peer(e)] \in Seq(Record)
      /\ out[Peer(e)] <= Len(wire[Peer(e)]) /\ read[e] <= out[Peer(e)]
  BY <1>1 DEF Kinds, ToldOK
<1> QED
  BY <1>1, <1>2

\* The records come in the order that rstrm_collect_receive_locked expects.
LEMMA NoSurprise ==
    ASSUME IInv, Shaken, NEW e \in Ends, Readable(e)
    PROVE  InPlace(e)
<1> DEFINE p == Peer(e)
           w == wire[p]
           n == read[e]
           r == Incoming(e)
<1>0. /\ Kinds /\ p \in Ends /\ Peer(p) = e
      /\ ToldOK(e) /\ ToldOK(p) /\ SentOK(p)
      /\ Noted(e) /\ Noted(p) /\ Marked(e) /\ Marked(p)
  BY PeerProps, TypeParts DEF IInv, Shaken
<1>1. /\ n \in Nat /\ n + 1 \in 1..Len(w) /\ r = w[n + 1] /\ r \in Record
  BY <1>0, IncomingProps
<1>2. Len(w) \in Nat /\ \A i \in 1..n : i \in 1..Len(w) /\ i # n + 1
  <2>1. Len(w) \in Nat
    BY <1>0, ReadProps
  <2> QED
    BY <1>1, <2>1
<1>3. CASE r.kind = "data"
  <2>1. SUFFICES ASSUME remoteEof[e]
                 PROVE  FALSE
    BY <1>3 DEF InPlace
  <2>2. PICK i \in 1..n : w[i].kind = "fin"
    BY <1>0, <2>1 DEF Noted
  <2>3. Count(w, i) = accepted[p]
    BY <1>0, <1>2, <2>2 DEF SentOK
  <2>4. Count(w, Len(w)) + Len(sendq[p]) = accepted[p]
    BY <1>0 DEF SentOK
  <2>5. Count(w, n + 1) = Count(w, n) + 1
    BY <1>1, <1>3, CountNext
  <2>6. Count(w, i) <= Count(w, n) /\ Count(w, n + 1) <= Count(w, Len(w))
    <3>1. i \in Nat /\ i <= n /\ n + 1 \in Nat /\ n + 1 <= Len(w)
      BY <1>1, <1>2
    <3> QED
      BY <1>1, <1>2, <3>1, CountMono
  <2>7. /\ Count(w, i) \in Nat /\ Count(w, n) \in Nat /\ Count(w, n + 1) \in Nat
        /\ Count(w, Len(w)) \in Nat /\ Len(sendq[p]) \in Nat
    <3>1. sendq[p] \in Seq(Nat) /\ i \in Nat /\ n + 1 \in Nat
      BY <1>0, <1>1 DEF Kinds
    <3> QED
      BY <1>1, <1>2, <3>1, CountNat
  <2> DEFINE c1 == Count(w, i)
             c2 == Count(w, n)
             c3 == Count(w, n + 1)
             c4 == Count(w, Len(w))
             q  == Len(sendq[p])
  <2>8. /\ c1 \in Nat /\ c2 \in Nat /\ c3 \in Nat /\ c4 \in Nat /\ q \in Nat
        /\ c3 = c2 + 1 /\ c1 <= c2 /\ c3 <= c4 /\ c4 + q = c1
    BY <2>3, <2>4, <2>5, <2>6, <2>7
  <2> HIDE DEF c1, c2, c3, c4, q
  <2> QED
    BY <2>8
<1>4. CASE r.kind = "fin"
  <2>1. ~remoteEof[e]
    BY <1>0, <1>4, FinOnce
  <2> QED
    BY <1>4, <2>1 DEF InPlace
<1>5. CASE r.kind = "fin_ack"
  <2>1. remoteEof[p]
    BY <1>0, <1>1, <1>5 DEF Marked
  <2>2. PICK i \in 1..read[p] : wire[e][i].kind = "fin"
    BY <1>0, <2>1 DEF Noted
  <2>3. i \in 1..Len(wire[e])
    <3>1. read[p] \in Nat /\ Len(wire[e]) \in Nat /\ read[p] <= Len(wire[e])
      BY <1>0, ReadProps
    <3> QED
      BY <3>1
  <2>4. finSent[e]
    BY <1>0, <2>2, <2>3 DEF Marked
  <2>5. ASSUME finAcked[e]
        PROVE  FALSE
    <3>1. PICK j \in 1..n : w[j].kind = "fin_ack"
      BY <1>0, <2>5 DEF Noted
    <3> QED
      BY <1>0, <1>1, <1>2, <1>5, <3>1 DEF Marked, Single
  <2> QED
    BY <1>5, <2>4, <2>5 DEF InPlace
<1> QED
  BY <1>1, <1>3, <1>4, <1>5 DEF Record

\* Everything but a feed and a read leaves the wire and the notes alone.
LEMMA QuietStep ==
    ASSUME NEW e \in Ends, Api(e) \/ Worker(e), ~Feed(e), ~Collect(e), ~CollectNoMem(e)
    PROVE  UNCHANGED <<wire, read, finSent, remoteEof, finAcked>>
BY DEF Api, Worker, Send, SendFull, SendQueued, Shutdown, Input, CloseOutside, CloseJoined,
   CloseInside, Exit, ReportError, RefuseInput, FeedNoMem, CollectUnexpected, Unlock, Emit,
   EmitRefused, Check, Call, sendVars, wireVars, peerVars, failVars, closeVars, workVars

LEMMA MarkedKept ==
    ASSUME NEW e \in Ends, Marked(e), wire'[e] = wire[e],
           finSent[e] => finSent'[e], remoteEof[e] => remoteEof'[e]
    PROVE  Marked(e)'
BY DEF Marked, Single

LEMMA MarkedAnswer ==
    ASSUME Kinds, NEW e \in Ends, Marked(e), Answered(e), UNCHANGED finSent,
           ~remoteEof[e], remoteEof'[e]
    PROVE  Marked(e)'
<1> DEFINE w == wire[e]
           v == wire'[e]
           n == Len(w)
<1>1. /\ n \in Nat /\ Len(v) = n + 1 /\ v[n + 1] = FinAck
      /\ \A i \in 1..n : v[i] = w[i]
  <2>1. wire \in [Ends -> Seq(Record)] /\ wire[e] \in Seq(Record)
    BY DEF Kinds
  <2> QED
    BY <2>1 DEF Answered
<1>2. /\ Single(w, "fin") /\ finSent'[e] = finSent[e]
      /\ \A i \in 1..n : (w[i].kind = "fin" => finSent[e]) /\ w[i].kind # "fin_ack"
  BY DEF Marked
<1> HIDE DEF w, v, n
<1>3. \A i \in 1..n + 1 : i \in 1..n \/ i = n + 1
  BY <1>1
<1>4. FinAck.kind = "fin_ack"
  BY DEF FinAck
<1>5. n = Len(w)
  BY DEF n
<1>6. /\ Single(v, "fin") /\ Single(v, "fin_ack")
      /\ \A i \in 1..Len(v) : /\ v[i].kind = "fin" => finSent'[e]
                              /\ v[i].kind = "fin_ack" => remoteEof'[e]
  BY <1>1, <1>2, <1>3, <1>4, <1>5 DEF Single
<1> QED
  BY <1>6 DEF Marked, v

LEMMA MarkedFeed ==
    ASSUME Kinds, Flags, NEW e \in Ends, Marked(e), Feed(e)
    PROVE  Marked(e)'
<1>1. PICK ack \in Nat, k \in Nat, fin \in BOOLEAN, more \in Seq(Record) :
         Moved(e, ack, k, fin, more)
  BY FeedProps
<1> DEFINE w == wire[e]
           v == wire'[e]
           n == Len(w)
<1>2. /\ wire \in [Ends -> Seq(Record)] /\ w \in Seq(Record) /\ n \in Nat
      /\ finSent \in [Ends -> BOOLEAN]
  BY DEF Kinds, Flags
<1>3. /\ Len(more) = k + (IF fin THEN 1 ELSE 0)
      /\ \A i \in 1..k : more[i] = Data(sendq[e][i])
      /\ fin => more[k + 1] = Fin /\ ~finSent[e]
      /\ v = w \o more
      /\ finSent'[e] = (finSent[e] \/ fin)
  BY <1>1, <1>2 DEF Moved
<1>4. remoteEof'[e] = remoteEof[e]
  BY DEF Feed, peerVars
<1>5. /\ Len(v) = n + Len(more)
      /\ \A i \in 1..n + Len(more) : v[i] = IF i <= n THEN w[i] ELSE more[i - n]
  <2>1. w \in Seq(Record) /\ more \in Seq(Record) /\ v = w \o more
    BY <1>2, <1>3
  <2> HIDE DEF w, v
  <2> QED
    BY <2>1, ConcatProperties DEF n
<1>6. /\ Single(w, "fin") /\ Single(w, "fin_ack")
      /\ \A i \in 1..n : /\ w[i].kind = "fin" => finSent[e]
                         /\ w[i].kind = "fin_ack" => remoteEof[e]
  BY DEF Marked
<1>7. n = Len(w)
  OBVIOUS
<1> HIDE DEF w, v, n
<1>8. ASSUME NEW i \in 1..Len(v)
      PROVE  \/ i \in 1..n /\ v[i] = w[i]
             \/ v[i].kind = "data"
             \/ fin /\ i = n + k + 1 /\ v[i].kind = "fin"
  <2>0. i \in Nat /\ 1 <= i /\ i <= n + k + (IF fin THEN 1 ELSE 0) /\ n \in Nat
    BY <1>2, <1>3, <1>5
  <2>1. CASE i <= n
    BY <1>5, <2>0, <2>1
  <2>2. CASE i > n /\ i <= n + k
    <3>1. i - n \in 1..k
      BY <2>0, <2>2
    <3>2. v[i] = more[i - n]
      BY <1>5, <2>0, <2>2
    <3>3. v[i] = Data(sendq[e][i - n])
      BY <1>3, <3>1, <3>2
    <3> QED
      BY <3>3 DEF Data
  <2>3. CASE i > n + k
    <3>1. fin /\ i = n + k + 1 /\ i - n = k + 1 /\ ~(i <= n)
      BY <2>0, <2>3
    <3>2. v[i] = Fin
      BY <1>3, <1>5, <3>1
    <3> QED
      BY <3>1, <3>2 DEF Fin
  <2> QED
    BY <2>0, <2>1, <2>2, <2>3
<1>9. Single(v, "fin")
  <2> SUFFICES ASSUME NEW i \in 1..Len(v), NEW j \in 1..Len(v),
                      v[i].kind = "fin", v[j].kind = "fin"
               PROVE  i = j
    BY DEF Single
  <2>1. CASE fin
    <3>1. \A m \in 1..n : w[m].kind # "fin"
      BY <1>3, <1>6, <2>1
    <3>2. i = n + k + 1 /\ j = n + k + 1
      BY <1>8, <3>1
    <3> QED
      BY <3>2
  <2>2. CASE ~fin
    <3>1. i \in 1..n /\ j \in 1..n /\ w[i].kind = "fin" /\ w[j].kind = "fin"
      BY <1>8, <2>2
    <3> QED
      BY <1>6, <1>7, <3>1 DEF Single
  <2> QED
    BY <2>1, <2>2
<1>10. Single(v, "fin_ack")
  <2> SUFFICES ASSUME NEW i \in 1..Len(v), NEW j \in 1..Len(v),
                      v[i].kind = "fin_ack", v[j].kind = "fin_ack"
               PROVE  i = j
    BY DEF Single
  <2>1. i \in 1..n /\ j \in 1..n /\ w[i].kind = "fin_ack" /\ w[j].kind = "fin_ack"
    BY <1>8
  <2> QED
    BY <1>6, <1>7, <2>1 DEF Single
<1>11. \A i \in 1..Len(v) : /\ v[i].kind = "fin" => finSent'[e]
                            /\ v[i].kind = "fin_ack" => remoteEof'[e]
  BY <1>3, <1>4, <1>6, <1>8
<1> QED
  BY <1>9, <1>10, <1>11 DEF Marked, v

LEMMA MarkedStep ==
    ASSUME IInv, Shaken, NEW e \in Ends, Api(e) \/ Worker(e)
    PROVE  \A x \in Ends : Marked(x)'
<1>0. /\ Kinds /\ Flags /\ Marked(e) /\ Noted(e) /\ Marked(Peer(e))
  BY PeerProps, TypeParts DEF IInv, Shaken
<1>1. ASSUME NEW x \in Ends, x # e
      PROVE  Marked(x)'
  <2>1. UNCHANGED <<wire[x], finSent[x], remoteEof[x]>>
    BY <1>0, <1>1, Apart DEF Same
  <2> QED
    BY <2>1, MarkedKept DEF Shaken
<1>2. Marked(e)'
  <2>1. CASE Feed(e)
    BY <1>0, <2>1, MarkedFeed
  <2>2. CASE ~Feed(e) /\ ~Collect(e) /\ ~CollectNoMem(e)
    <3>1. UNCHANGED <<wire, finSent, remoteEof>>
      BY <2>2, QuietStep
    <3> QED
      BY <1>0, <3>1, MarkedKept
  <2>3. CASE Collect(e)
    <3>0. remoteEof \in [Ends -> BOOLEAN] /\ UNCHANGED finSent
      BY <1>0, <2>3 DEF Flags, Collect, sendVars
    <3>1. CASE CollectFin(e)
      <4>1. Answered(e) /\ remoteEof'[e]
        BY <3>0, <3>1 DEF CollectFin, Answered
      <4>2. ~remoteEof[e]
        BY <1>0, <2>3, <3>1, FinOnce DEF Collect, CollectFin
      <4> QED
        BY <1>0, <3>0, <4>1, <4>2, MarkedAnswer
    <3>2. CASE CollectData(e) \/ CollectFinAck(e)
      <4>1. UNCHANGED <<wire, remoteEof>>
        BY <3>2 DEF CollectData, CollectFinAck
      <4> QED
        BY <1>0, <3>0, <4>1, MarkedKept
    <3> QED
      BY <2>3, <3>1, <3>2 DEF Collect
  <2>4. CASE CollectNoMem(e)
    <3>0. remoteEof \in [Ends -> BOOLEAN] /\ UNCHANGED finSent
      BY <1>0, <2>4 DEF Flags, CollectNoMem, sendVars
    <3>1. CASE UNCHANGED <<wire, remoteEof>>
      BY <1>0, <3>0, <3>1, MarkedKept
    <3>2. CASE remoteEof' = [remoteEof EXCEPT ![e] = @ \/ Incoming(e).kind = "fin"]
      <4>1. remoteEof[e] => remoteEof'[e]
        BY <3>0, <3>2
      <4>2. CASE UNCHANGED wire
        BY <1>0, <3>0, <4>1, <4>2, MarkedKept
      <4>3. CASE Incoming(e).kind = "fin" /\ Answered(e)
        <5>1. ~remoteEof[e] /\ remoteEof'[e]
          BY <1>0, <2>4, <3>0, <3>2, <4>3, FinOnce DEF CollectNoMem
        <5> QED
          BY <1>0, <3>0, <4>3, <5>1, MarkedAnswer
      <4> QED
        BY <2>4, <4>2, <4>3 DEF CollectNoMem, Answered
    <3> QED
      BY <2>4, <3>1, <3>2 DEF CollectNoMem
  <2> QED
    BY <2>1, <2>2, <2>3, <2>4
<1> QED
  BY <1>1, <1>2

\* What is noted stays true, for the peer's wire only grows; a new note is that of
\* the record just read.
LEMMA NotedGrows ==
    ASSUME Kinds, NEW e \in Ends, ToldOK(e), Noted(e), Grows(Peer(e)),
           NEW n \in Nat, read'[e] = n, read[e] <= n, n <= Len(wire[Peer(e)]),
           remoteEof'[e] => remoteEof[e]
                            \/ \E i \in 1..n : wire[Peer(e)][i].kind = "fin",
           finAcked'[e] => finAcked[e]
                           \/ \E i \in 1..n : wire[Peer(e)][i].kind = "fin_ack"
    PROVE  Noted(e)'
<1> DEFINE p == Peer(e)
<1>1. p \in Ends /\ read[e] \in Nat /\ Len(wire[p]) \in Nat
  BY ReadProps
<1>2. \A i \in 1..n : wire'[p][i] = wire[p][i]
  BY <1>1 DEF Grows
<1>3. \A i \in 1..read[e] : i \in 1..n
  BY <1>1
<1>4. /\ remoteEof'[e] => \E i \in 1..n : wire[p][i].kind = "fin"
      /\ finAcked'[e]  => \E i \in 1..n : wire[p][i].kind = "fin_ack"
  BY <1>3 DEF Noted
<1>5. /\ remoteEof'[e] => \E i \in 1..n : wire'[p][i].kind = "fin"
      /\ finAcked'[e]  => \E i \in 1..n : wire'[p][i].kind = "fin_ack"
  BY <1>2, <1>4
<1> QED
  BY <1>5 DEF Noted

LEMMA NotedStep ==
    ASSUME IInv, IInv', Shaken, NEW e \in Ends, Api(e) \/ Worker(e)
    PROVE  \A x \in Ends : Noted(x)'
<1>0. /\ Kinds /\ Flags /\ Kinds'
      /\ \A x \in Ends : /\ ToldOK(x) /\ Noted(x) /\ Grows(Peer(x))
                         /\ read[x] \in Nat /\ read[x] <= Len(wire[Peer(x)])
  <2>1. Kinds /\ Flags /\ \A x \in Ends : ToldOK(x) /\ Noted(x)
    BY TypeParts DEF IInv, Shaken
  <2>2. Kinds'
    <3>1. TypeOK'
      BY DEF IInv
    <3> QED
      BY <3>1, TypeParts, PTL
  <2>3. \A x \in Ends : Grows(Peer(x))
    BY <2>1, <2>2, PeerProps, GrowStep
  <2> QED
    BY <2>1, <2>2, <2>3, ReadProps
<1>1. ASSUME NEW x \in Ends, UNCHANGED <<read[x], remoteEof[x], finAcked[x]>>
      PROVE  Noted(x)'
  BY <1>0, <1>1, NotedGrows
<1>2. ASSUME NEW x \in Ends, x # e
      PROVE  Noted(x)'
  <2>1. UNCHANGED <<read[x], remoteEof[x], finAcked[x]>>
    BY <1>0, <1>2, Apart DEF Same
  <2> QED
    BY <1>1, <2>1
<1>3. Noted(e)'
  <2> DEFINE p == Peer(e)
             n == read[e]
             r == Incoming(e)
  <2>0. /\ read \in [Ends -> Nat] /\ remoteEof \in [Ends -> BOOLEAN]
        /\ finAcked \in [Ends -> BOOLEAN]
    BY <1>0 DEF Kinds, Flags
  <2>1. CASE ~Feed(e) /\ ~Collect(e) /\ ~CollectNoMem(e)
    BY <1>1, <2>1, QuietStep
  <2>2. CASE Feed(e)
    BY <1>1, <2>2 DEF Feed, peerVars
  <2>3. CASE CollectNoMem(e) /\ UNCHANGED <<read, remoteEof>>
    BY <1>1, <2>3 DEF CollectNoMem
  <2>4. ASSUME Readable(e), read' = [read EXCEPT ![e] = @ + 1],
               remoteEof'[e] => remoteEof[e] \/ r.kind = "fin",
               finAcked'[e] => finAcked[e] \/ r.kind = "fin_ack"
        PROVE  Noted(e)'
    <3>1. /\ n \in Nat /\ n + 1 \in 1..Len(wire[p]) /\ r = wire[p][n + 1]
      BY <1>0, <2>4, IncomingProps
    <3>2. /\ n + 1 \in Nat /\ n <= n + 1 /\ n + 1 \in 1..n + 1 /\ read'[e] = n + 1
      BY <2>0, <2>4, <3>1
    <3>3. n + 1 <= Len(wire[p])
      BY <3>1
    <3>4. /\ remoteEof'[e] => remoteEof[e] \/ \E i \in 1..n + 1 : wire[p][i].kind = "fin"
          /\ finAcked'[e] => finAcked[e] \/ \E i \in 1..n + 1 : wire[p][i].kind = "fin_ack"
      BY <2>4, <3>1, <3>2
    <3> QED
      BY <1>0, <3>2, <3>3, <3>4, NotedGrows
  <2>5. CASE Collect(e)
    <3>1. Readable(e) /\ read' = [read EXCEPT ![e] = @ + 1]
      BY <2>5 DEF Collect
    <3>2. /\ remoteEof'[e] => remoteEof[e] \/ r.kind = "fin"
          /\ finAcked'[e] => finAcked[e] \/ r.kind = "fin_ack"
      BY <2>5 DEF Collect, CollectData, CollectFin, CollectFinAck
    <3> QED
      BY <2>4, <3>1, <3>2
  <2>6. CASE /\ CollectNoMem(e) /\ read' = [read EXCEPT ![e] = @ + 1]
             /\ remoteEof' = [remoteEof EXCEPT ![e] = @ \/ Incoming(e).kind = "fin"]
    <3>1. /\ remoteEof'[e] => remoteEof[e] \/ r.kind = "fin"
          /\ finAcked'[e] => finAcked[e] \/ r.kind = "fin_ack"
      BY <2>0, <2>6 DEF CollectNoMem
    <3>2. Readable(e)
      BY <2>6 DEF CollectNoMem
    <3> QED
      BY <2>4, <2>6, <3>1, <3>2
  <2> QED
    BY <2>1, <2>2, <2>3, <2>5, <2>6 DEF CollectNoMem
<1> QED
  BY <1>2, <1>3

LEMMA HonestStep ==
    ASSUME IInv, Shaken, NEW e \in Ends, Api(e) \/ Worker(e)
    PROVE  \A x \in Ends : Honest(x)'
<1> USE DEF sendVars, wireVars, peerVars, failVars, closeVars, workVars
<1>0. /\ Kinds /\ Flags /\ budget \in Load
      /\ inbox \in [Ends -> SUBSET {"good", "bad", "alien"}]
      /\ failed \in [Ends -> {"ok", "EPROTO", "ETRANSPORT", "ENOMEM"}]
  BY TypeParts DEF IInv, Kinds
<1>00. \A x \in Ends : Honest(x)
  BY DEF Shaken
<1>1. budget.foreign => budget'.foreign
  <2>1. CASE UNCHANGED budget
    BY <2>1
  <2>2. CASE Spend("nomem") \/ Spend("refused")
    BY <1>0, <2>2 DEF Spend, Load
  <2>3. ASSUME NEW k \in budget.parts, Send(e, k)
        PROVE  budget.foreign => budget'.foreign
    BY <1>0, <2>3 DEF Send, Load
  <2>4. ASSUME NEW kind, Input(e, kind)
        PROVE  budget.foreign => budget'.foreign
    BY <1>0, <2>4 DEF Input, Load
  <2> QED
    BY <2>1, <2>2, <2>3, <2>4 DEF Api, Worker, Shutdown, CloseOutside, CloseJoined,
       CloseInside, Exit, ReportError, RefuseInput, Feed, FeedNoMem, Collect,
       CollectUnexpected, CollectNoMem, Unlock, Emit, EmitRefused, Check, Call
<1>2. ASSUME NEW x \in Ends,
             "bad" \in inbox'[x] \/ "alien" \in inbox'[x] =>
                 budget'.foreign \/ "bad" \in inbox[x] \/ "alien" \in inbox[x],
             failed'[x] = "EPROTO" => budget'.foreign \/ budget.foreign \/ failed[x] = "EPROTO"
      PROVE  Honest(x)'
  BY <1>00, <1>1, <1>2 DEF Honest
<1>3. CASE UNCHANGED <<inbox, failed>>
  BY <1>2, <1>3
<1>4. ASSUME NEW kind \in {"good", "bad", "alien"}, Input(e, kind)
      PROVE  \A x \in Ends : Honest(x)'
  <2>1. kind = "good" \/ budget'.foreign
    <3>1. kind # "good" => budget' = [budget EXCEPT !.bad = @ - 1, !.foreign = TRUE]
      BY <1>4 DEF Input
    <3> QED
      BY <1>0, <3>1 DEF Load
  <2>2. inbox' = [inbox EXCEPT ![e] = @ \cup {kind}] /\ UNCHANGED failed
    BY <1>4 DEF Input
  <2> QED
    BY <1>0, <1>2, <2>1, <2>2
<1>5. CASE RefuseInput(e)
  <2>1. inbox' = [inbox EXCEPT ![e] = {}] /\ budget.foreign
    BY <1>00, <1>5 DEF RefuseInput, Honest
  <2>2. \A x \in Ends : x # e => failed'[x] = failed[x]
    BY <1>0, <1>5 DEF RefuseInput, Failing
  <2> QED
    BY <1>0, <1>2, <2>1, <2>2
<1>6. CASE FeedNoMem(e) \/ CollectNoMem(e) \/ Unlock(e) \/ EmitRefused(e)
  <2>1. \A x \in Ends : failed'[x] = "EPROTO" => failed[x] = "EPROTO"
    BY <1>0, <1>6 DEF FeedNoMem, CollectNoMem, Unlock, EmitRefused, Failing
  <2>2. UNCHANGED inbox \/ inbox' = [inbox EXCEPT ![e] = {}]
    BY <1>6 DEF FeedNoMem, CollectNoMem, Unlock, EmitRefused
  <2> QED
    BY <1>0, <1>2, <2>1, <2>2
<1>7. CASE CollectUnexpected(e)
  <2>1. UNCHANGED inbox /\ budget.foreign
    BY <1>00, <1>7, NoSurprise DEF CollectUnexpected, Honest
  <2> QED
    BY <1>2, <2>1
<1> QED
  BY <1>3, <1>4, <1>5, <1>6, <1>7 DEF Api, Worker, Send, Shutdown, CloseOutside, CloseJoined,
     CloseInside, Exit, ReportError, Feed, Collect, Emit, Check, Call

LEMMA NextShaken ==
    ASSUME IInv, IInv', Shaken, [Next]_vars
    PROVE  Shaken'
<1>1. CASE UNCHANGED vars
  BY <1>1 DEF vars, sendVars, wireVars, peerVars, failVars, closeVars, workVars, Shaken,
     Marked, Noted, Honest
<1>2. ASSUME NEW e \in Ends, Api(e) \/ Worker(e)
      PROVE  Shaken'
  BY <1>2, MarkedStep, NotedStep, HonestStep DEF Shaken
<1> QED
  BY <1>1, <1>2 DEF Next

\* The handshake of the shutdown: one FIN and one answer, and rstrm_collect notes
\* only what it has read.
THEOREM ShakenAlways == Spec => []Shaken
<1>1. Init => Shaken
  BY InitShaken
<1>2. IInv /\ IInv' /\ Shaken /\ [Next]_vars => Shaken'
  BY NextShaken
<1> QED
  BY <1>1, <1>2, Inductive, PTL DEF Spec

\* Two ends that follow the protocol never take each other for broken.
THEOREM NeverFalseEproto == Spec => []NoFalseEproto
<1>1. Shaken => NoFalseEproto
  BY DEF Shaken, Honest, NoFalseEproto
<1> QED
  BY <1>1, ShakenAlways, PTL

\* When kc_rstrm_shutdown_complete says so, the peer has collected the FIN and every
\* part that was sent before it.
THEOREM CompleteTellsTruth == Spec => []CompleteIsTrue
<1>1. ASSUME IInv, Shaken
      PROVE  CompleteIsTrue
  <2> SUFFICES ASSUME NEW e \in Ends, shutdown[e], finAcked[e]
               PROVE  /\ remoteEof[Peer(e)]
                      /\ \A n \in 1..accepted[e] :
                            \E i \in 1..read[Peer(e)] : wire[e][i] = Data(n)
    BY DEF CompleteIsTrue
  <2> DEFINE p == Peer(e)
             w == wire[e]
  <2>1. /\ Kinds /\ p \in Ends /\ Peer(p) = e /\ ToldOK(e) /\ ToldOK(p) /\ SentOK(e)
        /\ Marked(p) /\ Noted(e) /\ Noted(p)
    BY <1>1, PeerProps, TypeParts DEF IInv, Shaken
  <2>2. /\ read[e] \in Nat /\ Len(wire[p]) \in Nat /\ read[e] <= Len(wire[p])
        /\ read[p] \in Nat /\ Len(w) \in Nat /\ read[p] <= Len(w)
    BY <2>1, ReadProps
  <2>3. remoteEof[p]
    <3>1. PICK i \in 1..read[e] : wire[p][i].kind = "fin_ack"
      BY <2>1 DEF Noted
    <3>2. i \in 1..Len(wire[p])
      BY <2>2
    <3> QED
      BY <2>1, <3>1, <3>2 DEF Marked
  <2>4. PICK i \in 1..read[p] : w[i].kind = "fin"
    BY <2>1, <2>3 DEF Noted
  <2>5. i \in Nat /\ i \in 1..Len(w) /\ Count(w, i) = accepted[e]
    <3>1. i \in Nat /\ i \in 1..Len(w)
      BY <2>2
    <3> QED
      BY <2>1, <2>4, <3>1 DEF SentOK
  <2>6. ASSUME NEW n \in 1..accepted[e]
        PROVE  \E j \in 1..read[p] : w[j] = Data(n)
    <3>1. PICK j \in 1..i : w[j].kind = "data" /\ Count(w, j) = n
      BY <2>5, CountHits
    <3>2. j \in 1..read[p] /\ j \in 1..Len(w)
      BY <2>2, <2>5
    <3>3. w[j].part = n /\ w[j] \in Record
      <4>1. w \in Seq(Record)
        BY <2>1 DEF Kinds
      <4> QED
        BY <2>1, <3>1, <3>2, <4>1 DEF SentOK
    <3>4. w[j] = Data(n)
      BY <3>1, <3>3 DEF Record, Data
    <3> QED
      BY <3>2, <3>4
  <2> QED
    BY <2>3, <2>6
<1> QED
  BY <1>1, Inductive, ShakenAlways, PTL

=============================================================================
