------------------------------ MODULE WchProofs ------------------------------
(***************************************************************************)
(* Proofs about Wch, for any number of managers, events and faults: the    *)
(* processes go by pids, files and records that are there, one resident    *)
(* runs at a time while the managers come one after the other, and the     *)
(* handler is told whole events, in order and with none left out.          *)
(***************************************************************************)
EXTENDS Wch, SequenceTheorems, TLAPS

Cells == [rec : Nat, k : Nat]
Calls == [op : {"none", "updates", "deletes"},
          step : {"idle", "stop", "register", "reset", "fork", "pid", "remove_meta",
                  "remove_events"},
          new : Nat]
ResidentState == [at : {"starting", "idle", "writing", "dead"}, doomed : BOOLEAN,
                  fd : Nat, rec : Nat, done : Nat]
ReaderState == [at : {"off", "look", "head", "body", "call", "ended"}, off : Nat, size : Nat,
                fd : Nat, path : Nat, head : Cells, body : Seq(Cells)]

\* The files and the records of which they hold cells.
StoreType ==
    /\ files \in Seq(Seq(Cells)) /\ name \in 0..Len(files)
    /\ records \in Seq(1..MaxPath)

\* What a file holds are cells of records that have begun.
Recorded(file) == \A i \in 1..Len(file) :
    file[i].rec \in 1..Len(records) /\ file[i].k \in 0..records[file[i].rec]

CellType == \A n \in 1..Len(files) : Recorded(files[n])

FlagType ==
    /\ meta \in BOOLEAN /\ stop \in BOOLEAN /\ unseen \in BOOLEAN /\ blurred \in BOOLEAN
    /\ raced \in BOOLEAN /\ orphaned \in BOOLEAN /\ base \in Nat
    /\ last \in {"none", "updates", "deletes"}

\* A resident that writes has a file and a record that is not whole yet.
WritingOK(s) == At(s, "writing") =>
    /\ resident[s].fd \in 1..Len(files)
    /\ resident[s].rec \in 1..Len(records)
    /\ resident[s].done \in 0..records[resident[s].rec]

ResidentType ==
    /\ resident \in Seq(ResidentState) /\ pid \in 0..Len(resident)
    /\ \A s \in Residents : WritingOK(s)

ManagerType ==
    /\ mgr \in [Managers -> Calls]
    /\ \A m \in Managers : /\ mgr[m].new \in 0..Len(resident)
                           /\ Managing(m, "pid") => mgr[m].new # 0
                           /\ mgr[m] # Idle => ~Managing(m, "idle")

ReaderType ==
    /\ reader \in ReaderState /\ got \in Seq(Seq(Cells))
    /\ Reading("body") => reader.fd \in 1..Len(files)

IInv == StoreType /\ CellType /\ FlagType /\ ResidentType /\ ManagerType /\ ReaderType

-----------------------------------------------------------------------------
(* Records. *)

LEMMA RecordProps ==
    ASSUME StoreType, NEW r \in 1..Len(records)
    PROVE  /\ records[r] \in Nat /\ records[r] >= 1
           /\ Record(r) \in Seq(Cells) /\ Len(Record(r)) = records[r] + 1
           /\ \A i \in 1..records[r] + 1 : Record(r)[i] = Cell(r, i - 1)
           /\ DOMAIN Record(r) = 1..records[r] + 1
  <1>1. records[r] \in Nat /\ records[r] >= 1 /\ r \in Nat
    BY ElementOfSeq, WchAssumption DEF StoreType
  <1>2. \A i \in 1..records[r] + 1 : Cell(r, i - 1) \in Cells
    BY <1>1 DEF Cell, Cells
  <1>3. Record(r) \in Seq(Cells) /\ Len(Record(r)) = records[r] + 1
    BY <1>1, <1>2, IsASeq DEF Record
  <1> QED  BY <1>1, <1>3 DEF Record

LEMMA ContentType == ASSUME StoreType PROVE Content \in Seq(Cells)
  BY ElementOfSeq, EmptySeq DEF StoreType, Content

LEMMA InitTypes == Init => IInv
  <1> SUFFICES ASSUME Init PROVE IInv
    OBVIOUS
  <1> USE DEF Init
  <1>1. StoreType /\ FlagType
    <2>1. files \in Seq(Seq(Cells)) /\ records \in Seq(1..MaxPath)
      BY EmptySeq
    <2>2. name \in 0..Len(files)
      BY <2>1, EmptySeq
    <2>3. FlagType
      BY DEF FlagType
    <2> QED  BY <2>1, <2>2, <2>3 DEF StoreType
  <1>1a. CellType
    BY EmptySeq DEF CellType
  <1>2. ResidentType
    BY EmptySeq DEF ResidentType, Residents
  <1>3. ManagerType
    BY EmptySeq DEF ManagerType, Managing, Idle, Calls
  <1>4. ReaderType
    BY EmptySeq DEF ReaderType, ReaderState, Reading, Cell, Cells
  <1> QED  BY <1>1, <1>1a, <1>2, <1>3, <1>4 DEF IInv

\* Files and records that are there stay there.
Kept ==
    /\ Len(files) <= Len(files')
    /\ Len(records) <= Len(records')
    /\ \A r \in 1..Len(records) : records'[r] = records[r]

\* A resident that does not move still has what it writes.
LEMMA WritesOn ==
    ASSUME IInv, StoreType', Kept, NEW s \in Residents, resident'[s] = resident[s]
    PROVE  WritingOK(s)'
  <1> SUFFICES ASSUME At(s, "writing")
               PROVE  /\ resident[s].fd \in 1..Len(files')
                      /\ resident[s].rec \in 1..Len(records')
                      /\ resident[s].done \in 0..records'[resident[s].rec]
    BY DEF WritingOK, At
  <1>1. WritingOK(s)
    BY DEF IInv, ResidentType
  <1>2. /\ Len(files) \in Nat /\ Len(files') \in Nat
        /\ Len(records) \in Nat /\ Len(records') \in Nat
    BY DEF IInv, StoreType
  <1> QED  BY <1>1, <1>2 DEF Kept, WritingOK

\* Nor does a cell lose its record.
LEMMA CellsStay ==
    ASSUME IInv, StoreType', Kept,
           \A n \in 1..Len(files') :
               files'[n] = <<>> \/ (n \in 1..Len(files) /\ files'[n] = files[n])
    PROVE  CellType'
  <1> SUFFICES ASSUME NEW n \in 1..Len(files'), NEW i \in 1..Len(files'[n])
               PROVE  /\ files'[n][i].rec \in 1..Len(records')
                      /\ files'[n][i].k \in 0..records'[files'[n][i].rec]
    BY DEF CellType, Recorded
  <1>1. n \in 1..Len(files) /\ files'[n] = files[n]
    BY EmptySeq
  <1>2. files[n][i].rec \in 1..Len(records) /\ files[n][i].k \in 0..records[files[n][i].rec]
    BY <1>1 DEF IInv, CellType, Recorded
  <1>3. Len(records) \in Nat /\ Len(records') \in Nat
    BY DEF IInv, StoreType
  <1> QED  BY <1>1, <1>2, <1>3 DEF Kept

-----------------------------------------------------------------------------
(* The managers. *)

LEMMA GotoType ==
    ASSUME IInv, NEW m \in Managers, mgr[m] # Idle,
           NEW step \in {"stop", "register", "reset", "fork", "remove_meta", "remove_events"},
           Goto(m, step), Len(resident') >= Len(resident)
    PROVE  /\ ManagerType' /\ mgr'[m].step = step /\ mgr'[m].op = mgr[m].op
           /\ \A n \in Managers \ {m} : mgr'[n] = mgr[n]
  <1>1. /\ mgr' \in [Managers -> Calls] /\ mgr'[m].step = step /\ mgr'[m].op = mgr[m].op
        /\ mgr'[m].new = mgr[m].new
        /\ \A n \in Managers \ {m} : mgr'[n] = mgr[n]
    BY DEF IInv, ManagerType, Calls, Goto
  <1> QED  BY <1>1 DEF IInv, ManagerType, ResidentType, Managing, Idle

LEMMA ReturnType ==
    ASSUME IInv, NEW m \in Managers, Return(m), Len(resident') >= Len(resident)
    PROVE  /\ ManagerType' /\ mgr'[m] = Idle
           /\ \A n \in Managers \ {m} : mgr'[n] = mgr[n]
  BY DEF IInv, ManagerType, ResidentType, Calls, Return, Idle, Managing

\* What a manager's step leaves alone of a reader, and of the residents.
LEMMA ManagerQuiet ==
    ASSUME IInv, ByManager, StoreType'
    PROVE  ReaderType' <=> (Reading("body") => reader.fd \in 1..Len(files'))
  BY DEF IInv, ReaderType, ByManager, reading, Reading

\* One resident moves.
LEMMA Moved ==
    ASSUME ResidentType, NEW s \in Residents, NEW r \in ResidentState,
           resident' = [resident EXCEPT ![s] = r]
    PROVE  /\ resident' \in Seq(ResidentState) /\ Len(resident') = Len(resident)
           /\ resident'[s] = r
           /\ \A t \in Residents : t # s => resident'[t] = resident[t]
  BY ExceptSeq DEF ResidentType, Residents

LEMMA ResidentIs == ASSUME ResidentType, NEW s \in Residents PROVE resident[s] \in ResidentState
  BY ElementOfSeq DEF ResidentType, Residents

LEMMA DoomedType ==
    ASSUME IInv, NEW s \in Residents, resident' = [resident EXCEPT ![s].doomed = TRUE]
    PROVE  /\ resident' \in Seq(ResidentState) /\ Len(resident') = Len(resident)
           /\ \A t \in Residents : /\ resident'[t].at = resident[t].at
                                   /\ resident'[t].fd = resident[t].fd
                                   /\ resident'[t].rec = resident[t].rec
                                   /\ resident'[t].done = resident[t].done
                                   /\ resident'[t].doomed = (t = s \/ resident[t].doomed)
  <1> DEFINE r == [resident[s] EXCEPT !.doomed = TRUE]
  <1>1. \A t \in Residents : resident[t] \in ResidentState
    BY ResidentIs DEF IInv
  <1>2. /\ r \in ResidentState /\ r.at = resident[s].at /\ r.fd = resident[s].fd
        /\ r.rec = resident[s].rec /\ r.done = resident[s].done /\ r.doomed = TRUE
    BY <1>1 DEF ResidentState
  <1> HIDE DEF r
  <1>3. resident' = [resident EXCEPT ![s] = r]
    BY DEF r
  <1>4. /\ resident' \in Seq(ResidentState) /\ Len(resident') = Len(resident)
        /\ resident'[s] = r
        /\ \A t \in Residents : t # s => resident'[t] = resident[t]
    BY <1>2, <1>3, Moved DEF IInv
  <1>5. \A t \in Residents : resident[t].doomed \in BOOLEAN
    BY <1>1 DEF ResidentState
  <1>6. ASSUME NEW t \in Residents
        PROVE  /\ resident'[t].at = resident[t].at /\ resident'[t].fd = resident[t].fd
               /\ resident'[t].rec = resident[t].rec /\ resident'[t].done = resident[t].done
               /\ resident'[t].doomed = (t = s \/ resident[t].doomed)
    <2>1. CASE t = s
      BY <1>2, <1>4, <2>1
    <2>2. CASE t # s
      BY <1>4, <1>5, <2>2
    <2> QED  BY <2>1, <2>2
  <1> QED  BY <1>4, <1>6

\* A signal is sent, or none: the residents go on as they are.
LEMMA SignalType ==
    ASSUME IInv, StoreType', Kept,
           resident' = resident \/ \E s \in Residents : resident' = [resident EXCEPT ![s].doomed = TRUE],
           pid' \in 0..Len(resident)
    PROVE  ResidentType' /\ Len(resident') = Len(resident)
  <1>1. CASE resident' = resident
    <2>1. \A s \in Residents : WritingOK(s)'
      BY <1>1, WritesOn
    <2> QED  BY <1>1, <2>1 DEF IInv, ResidentType, Residents
  <1>2. ASSUME NEW s \in Residents, resident' = [resident EXCEPT ![s].doomed = TRUE]
        PROVE  ResidentType' /\ Len(resident') = Len(resident)
    <2>1. /\ resident' \in Seq(ResidentState) /\ Len(resident') = Len(resident)
          /\ \A t \in Residents : /\ resident'[t].at = resident[t].at
                                  /\ resident'[t].fd = resident[t].fd
                                  /\ resident'[t].rec = resident[t].rec
                                  /\ resident'[t].done = resident[t].done
      BY <1>2, DoomedType
    <2>2. ASSUME NEW t \in Residents PROVE WritingOK(t)'
      <3>1. WritingOK(t)
        BY DEF IInv, ResidentType
      <3>2. /\ Len(files) \in Nat /\ Len(files') \in Nat
            /\ Len(records) \in Nat /\ Len(records') \in Nat
        BY DEF IInv, StoreType
      <3> SUFFICES ASSUME resident'[t].at = "writing" PROVE WritingOK(t)'
        BY DEF WritingOK, At
      <3>3. /\ resident[t].fd \in 1..Len(files) /\ resident[t].rec \in 1..Len(records)
            /\ resident[t].done \in 0..records[resident[t].rec]
        BY <2>1, <3>1 DEF WritingOK, At
      <3>4. /\ resident[t].fd \in 1..Len(files') /\ resident[t].rec \in 1..Len(records')
            /\ records'[resident[t].rec] = records[resident[t].rec]
        BY <3>2, <3>3 DEF Kept
      <3> QED  BY <2>1, <3>3, <3>4 DEF WritingOK
    <2> QED  BY <2>1, <2>2 DEF ResidentType, Residents
  <1> QED  BY <1>1, <1>2

\* The names of what the proofs below say of a store that no one touches.
LEMMA SameStore ==
    ASSUME IInv, UNCHANGED <<files, name, records>>
    PROVE  StoreType' /\ CellType' /\ Kept
  BY DEF IInv, StoreType, CellType, Recorded, Kept

\* A new file, or the named one emptied.
LEMMA NewFile ==
    ASSUME IInv, files' = Append(files, <<>>)
    PROVE  /\ files' \in Seq(Seq(Cells)) /\ Len(files') = Len(files) + 1
           /\ \A n \in 1..Len(files) : files'[n] = files[n]
           /\ files'[Len(files) + 1] = <<>>
  BY AppendProperties, EmptySeq DEF IInv, StoreType

LEMMA EmptyFile ==
    ASSUME IInv, name # 0, files' = [files EXCEPT ![name] = <<>>]
    PROVE  /\ files' \in Seq(Seq(Cells)) /\ Len(files') = Len(files)
           /\ \A n \in 1..Len(files) : files'[n] = IF n = name THEN <<>> ELSE files[n]
  BY ExceptSeq, EmptySeq DEF IInv, StoreType

LEMMA ResetStore ==
    ASSUME IInv,
           IF name = 0 THEN files' = Append(files, <<>>) /\ name' = Len(files) + 1
           ELSE files' = [files EXCEPT ![name] = <<>>] /\ UNCHANGED name,
           UNCHANGED records
    PROVE  /\ StoreType' /\ CellType' /\ Kept /\ name' # 0 /\ files'[name'] = <<>>
           /\ name # 0 => name' = name
           /\ name = 0 => name' = Len(files) + 1
           /\ \A n \in 1..Len(files) : n # name' => files'[n] = files[n]
           /\ Len(files') <= Len(files) + 1
  <1>1. CASE name = 0
    <2>1. /\ files' \in Seq(Seq(Cells)) /\ Len(files') = Len(files) + 1
          /\ \A n \in 1..Len(files) : files'[n] = files[n]
          /\ files'[Len(files) + 1] = <<>> /\ name' = Len(files) + 1
      BY <1>1, NewFile
    <2>2. Len(files) \in Nat /\ UNCHANGED records
      BY DEF IInv, StoreType
    <2>3. StoreType' /\ Kept
      BY <2>1, <2>2 DEF IInv, StoreType, Kept
    <2>4. CellType'
      BY <2>1, <2>2, <2>3, CellsStay
    <2> QED  BY <1>1, <2>1, <2>2, <2>3, <2>4
  <1>2. CASE name # 0
    <2>1. /\ files' \in Seq(Seq(Cells)) /\ Len(files') = Len(files)
          /\ \A n \in 1..Len(files) : files'[n] = IF n = name THEN <<>> ELSE files[n]
      BY <1>2, EmptyFile
    <2>2. name' = name /\ name \in 1..Len(files) /\ Len(files) \in Nat
      BY <1>2 DEF IInv, StoreType
    <2>3. files'[name'] = <<>>
      BY <2>1, <2>2
    <2>4. StoreType' /\ Kept
      BY <2>1, <2>2 DEF IInv, StoreType, Kept
    <2>5. CellType'
      BY <2>1, <2>4, CellsStay
    <2> QED  BY <1>2, <2>1, <2>2, <2>3, <2>4, <2>5
  <1> QED  BY <1>1, <1>2

\* The history of the order of the events, when the file is emptied or left.
LEMMA EmptiedType ==
    ASSUME FlagType, Emptied \/ UNCHANGED order
    PROVE  base' \in Nat /\ unseen' \in BOOLEAN /\ blurred' \in BOOLEAN
  <1>1. CASE Emptied
    <2>1. base' \in Nat
      BY <1>1 DEF Emptied
    <2>2. unseen' \in BOOLEAN
      BY <1>1, Zenon DEF Emptied
    <2>3. blurred' \in BOOLEAN
      BY <1>1, Zenon DEF Emptied
    <2> QED  BY <2>1, <2>2, <2>3
  <1>2. CASE UNCHANGED order
    BY <1>2 DEF order, FlagType
  <1> QED  BY <1>1, <1>2

LEMMA ManageTypes == ASSUME IInv, NEW m \in Managers, Manage(m) PROVE IInv'
  <1>1. ASSUME NEW op \in {"updates", "deletes"}, Begin(m, op) PROVE IInv'
    <2>1. UNCHANGED <<files, name, records, resident, pid>> /\ StoreType' /\ CellType' /\ Kept
      BY <1>1, SameStore DEF Begin, store
    <2>2. FlagType'
      BY <1>1 DEF Begin, store, reading, order, IInv, FlagType
    <2>3. ManagerType'
      <3> DEFINE call == [Idle EXCEPT !.op = op, !.step = "stop"]
      <3>1. call \in Calls /\ call.new = 0 /\ call.step = "stop"
        BY DEF Calls, Idle
      <3>2. mgr' = [mgr EXCEPT ![m] = call]
        BY <1>1 DEF Begin
      <3> HIDE DEF call
      <3>3. /\ mgr' \in [Managers -> Calls] /\ mgr'[m] = call
            /\ \A n \in Managers \ {m} : mgr'[n] = mgr[n]
        BY <3>1, <3>2 DEF IInv, ManagerType
      <3>4. Len(resident') \in Nat /\ Len(resident') = Len(resident)
        BY <2>1 DEF IInv, ResidentType
      <3> QED  BY <3>1, <3>3, <3>4 DEF IInv, ManagerType, Managing
    <2>4. ReaderType'
      BY <1>1, <2>1 DEF Begin, reading, IInv, ReaderType, Reading
    <2> QED  BY <2>1, <2>2, <2>3, <2>4, SignalType DEF IInv, ResidentType
  <1>2. CASE Stop(m) \/ Register(m) \/ RemoveMeta(m) \/ WritePid(m)
    <2>1. UNCHANGED <<files, name, records>> /\ StoreType' /\ CellType' /\ Kept
      BY <1>2, SameStore DEF Stop, Register, RemoveMeta, WritePid, ByManager, store
    <2>2. FlagType'
      BY <1>2 DEF Stop, Register, RemoveMeta, WritePid, Torn, ByManager, store, reading, order, IInv, FlagType
    <2>3. ResidentType' /\ Len(resident') = Len(resident)
      <3>1. pid' \in 0..Len(resident)
        BY <1>2 DEF Stop, Register, RemoveMeta, WritePid, store, IInv, ManagerType, ResidentType
      <3>2. resident' = resident \/ \E s \in Residents : resident' = [resident EXCEPT ![s].doomed = TRUE]
        <4>1. CASE Stop(m)
          <5>1. pid # 0 => pid \in Residents
            BY DEF Residents, IInv, ResidentType
          <5> QED  BY <4>1, <5>1 DEF Stop
        <4>2. CASE WritePid(m)
          <5>1. mgr[m].new \in Residents
            BY <4>2 DEF WritePid, Residents, IInv, ResidentType, ManagerType
          <5> QED  BY <4>2, <5>1 DEF WritePid
        <4> QED  BY <1>2, <4>1, <4>2 DEF Register, RemoveMeta
      <3> QED  BY <2>1, <3>1, <3>2, SignalType
    <2>4. mgr[m] # Idle
      BY <1>2 DEF Stop, Register, RemoveMeta, WritePid, Managing, Idle
    <2>5. ManagerType'
      <3>1. Len(resident') >= Len(resident)
        BY <2>3 DEF ResidentType, IInv
      <3>2. \/ Return(m)
            \/ \E step \in {"register", "reset", "remove_meta", "remove_events"} : Goto(m, step)
        BY <1>2 DEF Stop, Register, RemoveMeta, WritePid
      <3> QED  BY <2>4, <3>1, <3>2, GotoType, ReturnType
    <2>6. ReaderType'
      BY <1>2, <2>1 DEF Stop, Register, RemoveMeta, WritePid, ByManager, reading, IInv, ReaderType, Reading
    <2> QED  BY <2>1, <2>2, <2>3, <2>5, <2>6 DEF IInv
  <1>3. CASE Reset(m)
    <2>1. StoreType' /\ CellType' /\ Kept
      BY <1>3, SameStore, ResetStore DEF Reset, ByManager
    <2>2. FlagType'
      <3>1. base' \in Nat /\ unseen' \in BOOLEAN /\ blurred' \in BOOLEAN
        BY <1>3, EmptiedType DEF Reset, IInv
      <3> QED  BY <1>3, <3>1 DEF Reset, ByManager, reading, IInv, FlagType
    <2>3. ResidentType' /\ UNCHANGED resident
      BY <1>3, <2>1, SignalType DEF Reset, IInv, ResidentType
    <2>4. ManagerType'
      <3>1. mgr[m] # Idle /\ Len(resident') >= Len(resident)
        BY <1>3, <2>3 DEF Reset, Managing, Idle, IInv, ResidentType
      <3> QED  BY <1>3, <3>1, GotoType, ReturnType DEF Reset
    <2>5. ReaderType'
      BY <1>3, <2>1 DEF Reset, ByManager, reading, IInv, ReaderType, Reading, StoreType, Kept
    <2> QED  BY <2>1, <2>2, <2>3, <2>4, <2>5 DEF IInv
  <1>4. CASE Fork(m)
    <2>1. UNCHANGED <<files, name, records, pid>> /\ StoreType' /\ CellType' /\ Kept
      BY <1>4, SameStore DEF Fork, ByManager, store
    <2>2. FlagType'
      BY <1>4 DEF Fork, ByManager, store, reading, order, IInv, FlagType
    <2>3. mgr[m] # Idle
      BY <1>4 DEF Fork, Managing, Idle
    <2>4. ReaderType'
      BY <1>4, <2>1 DEF Fork, ByManager, reading, IInv, ReaderType, Reading
    <2>5. CASE UNCHANGED resident
      <3>1. ResidentType'
        BY <2>1, <2>5, SignalType DEF IInv, ResidentType
      <3>2. Goto(m, "remove_meta") /\ Len(resident') >= Len(resident)
        BY <1>4, <2>5, AppendProperties DEF Fork, IInv, ResidentType
      <3>3. ManagerType'
        BY <2>3, <3>2, GotoType
      <3> QED  BY <2>1, <2>2, <2>4, <3>1, <3>3 DEF IInv
    <2>6. CASE resident' # resident
      <3> DEFINE new == [at |-> "starting", doomed |-> FALSE, fd |-> 0, rec |-> 0, done |-> 0]
      <3>1. /\ resident' = Append(resident, new)
            /\ mgr' = [mgr EXCEPT ![m].step = "pid", ![m].new = Len(resident) + 1]
        BY <1>4, <2>6 DEF Fork
      <3>2. new \in ResidentState /\ resident \in Seq(ResidentState) /\ Len(resident) \in Nat
        BY DEF ResidentState, IInv, ResidentType
      <3>3. /\ resident' \in Seq(ResidentState) /\ Len(resident') = Len(resident) + 1
            /\ \A s \in Residents : resident'[s] = resident[s]
            /\ resident'[Len(resident) + 1] = new
        BY <3>1, <3>2, AppendProperties DEF Residents
      <3>4. ASSUME NEW s \in Residents' PROVE WritingOK(s)'
        <4>1. CASE s \in Residents
          BY <2>1, <3>3, <4>1, WritesOn
        <4>2. CASE s = Len(resident) + 1
          BY <3>3, <4>2 DEF WritingOK, At
        <4> QED  BY <3>2, <3>3, <4>1, <4>2 DEF Residents
      <3>5. ResidentType'
        BY <2>1, <3>2, <3>3, <3>4 DEF IInv, ResidentType
      <3>6. ManagerType'
        <4>1. /\ mgr' \in [Managers -> Calls]
              /\ mgr'[m].step = "pid" /\ mgr'[m].new = Len(resident) + 1
              /\ \A n \in Managers \ {m} : mgr'[n] = mgr[n]
          BY <3>1, <3>2 DEF IInv, ManagerType, Calls
        <4>2. ASSUME NEW n \in Managers
              PROVE  /\ mgr'[n].new \in 0..Len(resident')
                     /\ mgr'[n].step = "pid" => mgr'[n].new # 0
                     /\ mgr'[n] # Idle => mgr'[n].step # "idle"
          <5>1. CASE n = m
            BY <3>2, <3>3, <4>1, <5>1
          <5>2. CASE n # m
            <6>1. /\ mgr'[n] = mgr[n] /\ mgr[n].new \in 0..Len(resident)
                  /\ mgr[n].step = "pid" => mgr[n].new # 0
                  /\ mgr[n] # Idle => mgr[n].step # "idle"
              BY <4>1, <5>2 DEF IInv, ManagerType, Managing
            <6> QED  BY <3>2, <3>3, <6>1
          <5> QED  BY <5>1, <5>2
        <4> QED  BY <4>1, <4>2 DEF ManagerType, Managing
      <3> QED  BY <2>1, <2>2, <2>4, <3>5, <3>6 DEF IInv
    <2> QED  BY <2>5, <2>6
  <1>5. CASE RemoveEvents(m) \/ ManagerDies(m)
    <2>1. StoreType' /\ CellType' /\ Kept
      <3>1. UNCHANGED <<files, records>> /\ name' \in {0, name}
        BY <1>5 DEF RemoveEvents, ManagerDies, ByManager
      <3> QED  BY <3>1 DEF IInv, StoreType, CellType, Recorded, Kept
    <2>2. FlagType'
      <3>1. base' \in Nat /\ unseen' \in BOOLEAN /\ blurred' \in BOOLEAN
        BY <1>5, EmptiedType DEF RemoveEvents, ManagerDies, IInv
      <3>2. CASE RemoveEvents(m)
        BY <3>1, <3>2 DEF RemoveEvents, ByManager, reading, IInv, FlagType
      <3>3. CASE ManagerDies(m)
        BY <3>1, <3>3 DEF ManagerDies, Torn, reading, IInv, FlagType
      <3> QED  BY <1>5, <3>2, <3>3
    <2>3. ResidentType' /\ UNCHANGED <<resident, files>>
      BY <1>5, <2>1, SignalType DEF RemoveEvents, ManagerDies, IInv, ResidentType
    <2>4. ManagerType'
      <3>1. Len(resident') >= Len(resident)
        BY <2>3 DEF IInv, ResidentType
      <3> QED  BY <1>5, <3>1, ReturnType DEF RemoveEvents, ManagerDies
    <2>5. ReaderType'
      BY <1>5, <2>3 DEF RemoveEvents, ManagerDies, ByManager, reading, IInv, ReaderType, Reading
    <2> QED  BY <2>1, <2>2, <2>3, <2>4, <2>5 DEF IInv
  <1> QED  BY <1>1, <1>2, <1>3, <1>4, <1>5 DEF Manage

-----------------------------------------------------------------------------
(* The residents. *)

\* A resident goes to another place.
LEMMA Placed ==
    ASSUME IInv, NEW s \in Residents, NEW place \in {"starting", "idle", "writing", "dead"},
           resident' = [resident EXCEPT ![s].at = place]
    PROVE  /\ resident' \in Seq(ResidentState) /\ Len(resident') = Len(resident)
           /\ resident'[s].at = place /\ resident'[s].doomed = resident[s].doomed
           /\ \A t \in Residents : t # s => resident'[t] = resident[t]
  <1> DEFINE r == [resident[s] EXCEPT !.at = place]
  <1>1. resident[s] \in ResidentState
    BY ResidentIs DEF IInv
  <1>2. r \in ResidentState /\ r.at = place /\ r.doomed = resident[s].doomed
    BY <1>1 DEF ResidentState
  <1> HIDE DEF r
  <1>3. resident' = [resident EXCEPT ![s] = r]
    BY DEF r
  <1> QED  BY <1>2, <1>3, Moved DEF IInv

\* Serve, WriteFails and Die leave the store as it is and no longer write.
LEMMA RestingTypes ==
    ASSUME IInv, NEW s \in Residents, Serve(s) \/ WriteFails(s) \/ Die(s)
    PROVE  /\ IInv' /\ UNCHANGED <<files, name, meta, pid, mgr, reading, calls, records, order>>
           /\ Len(resident') = Len(resident) /\ resident'[s].at \in {"idle", "dead"}
           /\ At(s, "dead") => resident'[s].at = "dead"
           /\ resident'[s].doomed = resident[s].doomed
           /\ \A t \in Residents : t # s => resident'[t] = resident[t]
  <1>1. UNCHANGED <<files, name, meta, pid, mgr, reading, calls, records, order>>
    BY DEF Serve, WriteFails, Die, ByResident
  <1>2. PICK place \in {"idle", "dead"} : resident' = [resident EXCEPT ![s].at = place]
    BY DEF Serve, WriteFails, Die
  <1>3. /\ resident' \in Seq(ResidentState) /\ Len(resident') = Len(resident)
        /\ resident'[s].at = place /\ resident'[s].doomed = resident[s].doomed
        /\ \A t \in Residents : t # s => resident'[t] = resident[t]
    BY <1>2, Placed
  <1>4. StoreType' /\ CellType' /\ Kept
    BY <1>1, SameStore
  <1>5. \A t \in Residents : WritingOK(t)'
    <2> TAKE t \in Residents
    <2>1. CASE t = s
      BY <1>3, <2>1 DEF WritingOK, At
    <2>2. CASE t # s
      BY <1>3, <1>4, <2>2, WritesOn
    <2> QED  BY <2>1, <2>2
  <1>6. ResidentType'
    BY <1>1, <1>3, <1>5 DEF IInv, ResidentType, Residents
  <1>7. FlagType' /\ ManagerType' /\ ReaderType'
    BY <1>1, <1>3 DEF reading, calls, order, IInv, FlagType, ManagerType, Managing, ReaderType, Reading
  <1>8. At(s, "dead") => resident'[s].at = "dead"
    BY <1>3 DEF Serve, WriteFails, Die, At
  <1> QED  BY <1>1, <1>3, <1>4, <1>6, <1>7, <1>8 DEF IInv

LEMMA OpenTypes ==
    ASSUME IInv, NEW s \in Residents, Open(s)
    PROVE  /\ IInv' /\ Kept /\ UNCHANGED <<meta, pid, mgr, reading, calls, order>>
           /\ Len(records') = Len(records) + 1
           /\ name' # 0 /\ (name # 0 => name' = name)
           /\ name' # name => files'[name'] = <<>>
           /\ Len(files') <= Len(files) + (IF name = 0 THEN 1 ELSE 0)
           /\ \A n \in 1..Len(files) : files'[n] = files[n]
           /\ Len(resident') = Len(resident)
           /\ At(s, "idle") /\ resident'[s].at = "writing"
           /\ resident'[s].doomed = resident[s].doomed
           /\ resident'[s].rec = Len(records) + 1 /\ resident'[s].done = 0
           /\ \A t \in Residents : t # s => resident'[t] = resident[t]
  <1>1. PICK size \in 1..MaxPath : records' = Append(records, size)
    BY DEF Open
  <1>2. /\ records \in Seq(1..MaxPath) /\ files \in Seq(Seq(Cells))
        /\ Len(records) \in Nat /\ Len(files) \in Nat /\ name \in 0..Len(files)
    BY DEF IInv, StoreType
  <1>3. /\ records' \in Seq(1..MaxPath) /\ Len(records') = Len(records) + 1
        /\ \A r \in 1..Len(records) : records'[r] = records[r]
        /\ records'[Len(records) + 1] = size
    BY <1>1, <1>2, AppendProperties
  <1>4. /\ files' \in Seq(Seq(Cells)) /\ name' \in 1..Len(files')
        /\ name # 0 => name' = name
        /\ name = 0 => name' = Len(files) + 1
        /\ name' # name => files'[name'] = <<>>
        /\ Len(files') >= Len(files)
        /\ Len(files') <= Len(files) + (IF name = 0 THEN 1 ELSE 0)
        /\ \A n \in 1..Len(files) : files'[n] = files[n]
    <2>1. CASE name = 0
      <3>1. /\ files' \in Seq(Seq(Cells)) /\ Len(files') = Len(files) + 1
            /\ \A n \in 1..Len(files) : files'[n] = files[n]
            /\ files'[Len(files) + 1] = <<>> /\ name' = Len(files) + 1
        BY <2>1, NewFile DEF Open
      <3>2. Len(files) + 1 \in 1..Len(files') /\ Len(files') >= Len(files)
            /\ Len(files') <= Len(files) + 1
        BY <1>2, <3>1
      <3>3. files'[name'] = <<>> /\ name' \in 1..Len(files')
        BY <3>1, <3>2
      <3> QED  BY <2>1, <3>1, <3>2, <3>3
    <2>2. CASE name # 0
      BY <1>2, <2>2 DEF Open
    <2> QED  BY <2>1, <2>2
  <1> DEFINE r == [resident[s] EXCEPT !.at = "writing", !.fd = name', !.rec = Len(records) + 1, !.done = 0]
  <1>5. resident[s] \in ResidentState
    BY ResidentIs DEF IInv
  <1>6. /\ r \in ResidentState /\ r.at = "writing" /\ r.doomed = resident[s].doomed
        /\ r.fd = name' /\ r.rec = Len(records) + 1 /\ r.done = 0
    <2>1. name' \in Nat /\ Len(records) + 1 \in Nat
      BY <1>2, <1>4
    <2> QED  BY <1>5, <2>1 DEF ResidentState
  <1> HIDE DEF r
  <1>7. resident' = [resident EXCEPT ![s] = r]
    BY DEF Open, r
  <1>8. /\ resident' \in Seq(ResidentState) /\ Len(resident') = Len(resident)
        /\ resident'[s] = r
        /\ \A t \in Residents : t # s => resident'[t] = resident[t]
    BY <1>6, <1>7, Moved DEF IInv
  <1>9. StoreType' /\ Kept
    <2>1. name' \in 0..Len(files')
      BY <1>4
    <2> QED  BY <1>2, <1>3, <1>4, <2>1 DEF StoreType, Kept
  <1>10. \A t \in Residents : WritingOK(t)'
    <2> TAKE t \in Residents
    <2>1. CASE t = s
      <3>1. records'[Len(records) + 1] \in Nat
        BY <1>1, <1>3
      <3>2. name' \in 1..Len(files')
        BY <1>4
      <3>3. Len(records) + 1 \in 1..Len(records') /\ 0 \in 0..records'[Len(records) + 1]
        BY <1>2, <1>3, <3>1
      <3> QED  BY <1>6, <1>8, <2>1, <3>2, <3>3 DEF WritingOK
    <2>2. CASE t # s
      BY <1>8, <1>9, <2>2, WritesOn
    <2> QED  BY <2>1, <2>2
  <1>11. UNCHANGED <<meta, pid, mgr, reading, calls, order>>
    BY DEF Open, ByResident
  <1>12. ResidentType'
    BY <1>8, <1>10, <1>11 DEF IInv, ResidentType, Residents
  <1>13. FlagType' /\ ManagerType'
    BY <1>8, <1>11 DEF reading, calls, order, IInv, FlagType, ManagerType, Managing
  <1>15. CellType'
    <2>1. ASSUME NEW n \in 1..Len(files')
          PROVE  files'[n] = <<>> \/ (n \in 1..Len(files) /\ files'[n] = files[n])
      <3>1. CASE n \in 1..Len(files)
        BY <1>4, <3>1
      <3>2. CASE ~(n \in 1..Len(files))
        <4>1. name = 0 /\ n = name'
          BY <1>2, <1>4, <3>2
        <4> QED  BY <1>4, <4>1
      <3> QED  BY <3>1, <3>2
    <2> QED  BY <1>9, <2>1, CellsStay
  <1>14. ReaderType'
    BY <1>2, <1>4, <1>11 DEF reading, IInv, ReaderType, Reading
  <1> QED  BY <1>3, <1>4, <1>6, <1>8, <1>9, <1>11, <1>12, <1>13, <1>14, <1>15 DEF IInv, Open

\* A file and what a write of n cells of a record makes of it.
LEMMA Longer ==
    ASSUME NEW file \in Seq(Cells), NEW size \in Nat, NEW cells \in Seq(Cells), NEW rec,
           Len(cells) = size + 1, \A i \in 1..size + 1 : cells[i] = Cell(rec, i - 1),
           NEW d \in Nat, d <= size, NEW n \in 1..Len(cells) - d,
           NEW new, new = file \o SubSeq(cells, d + 1, d + n)
    PROVE  /\ n \in 1..size + 1 - d
           /\ cells[d + 1] = Cell(rec, d)
           /\ new \in Seq(Cells) /\ Len(new) = Len(file) + n
           /\ \A i \in 1..Len(file) : new[i] = file[i]
           /\ \A i \in 1..n : new[Len(file) + i] = Cell(rec, d + i - 1)
  <1> DEFINE sub == SubSeq(cells, d + 1, d + n)
  <1>1. n \in 1..size + 1 - d /\ n \in Nat /\ d + n <= size + 1 /\ Len(file) \in Nat
    OBVIOUS
  <1>2. /\ sub \in Seq(Cells)
        /\ Len(sub) = IF d + 1 <= d + n THEN (d + n) - (d + 1) + 1 ELSE 0
        /\ \A i \in 1..(d + n) - (d + 1) + 1 : sub[i] = cells[d + 1 + i - 1]
    BY <1>1, SubSeqProperties
  <1>3. Len(sub) = n
    BY <1>1, <1>2
  <1>4. ASSUME NEW i \in 1..n PROVE sub[i] = Cell(rec, d + i - 1)
    <2>1. i \in 1..(d + n) - (d + 1) + 1 /\ d + 1 + i - 1 \in 1..size + 1 /\ d + 1 + i - 1 = d + i
      BY <1>1
    <2> QED  BY <1>2, <2>1
  <1>5. cells[d + 1] = Cell(rec, d)
    <2>1. d + 1 \in 1..size + 1 /\ d + 1 - 1 = d
      OBVIOUS
    <2> QED  BY <2>1
  <1>6. new = file \o sub
    OBVIOUS
  <1> HIDE DEF sub
  <1>7. /\ new \in Seq(Cells) /\ Len(new) = Len(file) + Len(sub)
        /\ \A i \in 1..Len(file) + Len(sub) :
              new[i] = IF i <= Len(file) THEN file[i] ELSE sub[i - Len(file)]
    <2>1. /\ file \o sub \in Seq(Cells) /\ Len(file \o sub) = Len(file) + Len(sub)
          /\ \A i \in 1..Len(file) + Len(sub) :
                (file \o sub)[i] = IF i <= Len(file) THEN file[i] ELSE sub[i - Len(file)]
      <3>1. sub \in Seq(Cells)
        BY <1>2
      <3> QED  BY <3>1, ConcatProperties
    <2> QED  BY <1>6, <2>1
  <1>8. ASSUME NEW i \in 1..n PROVE new[Len(file) + i] = sub[i]
    <2>1. /\ Len(file) + i \in 1..Len(file) + Len(sub) /\ ~(Len(file) + i <= Len(file))
          /\ Len(file) + i - Len(file) = i
      BY <1>1, <1>3
    <2> DEFINE p == Len(file) + i
    <2>2. new[p] = IF p <= Len(file) THEN file[p] ELSE sub[p - Len(file)]
      BY <1>7, <2>1
    <2> QED  BY <2>1, <2>2
  <1>9. \A i \in 1..Len(file) : new[i] = file[i]
    BY <1>1, <1>3, <1>7
  <1> QED  BY <1>1, <1>3, <1>4, <1>5, <1>7, <1>8, <1>9

\* What a write adds is cells done + 1 .. done + n of its record, in order.
LEMMA WriteTypes ==
    ASSUME IInv, NEW s \in Residents, Write(s)
    PROVE  /\ IInv' /\ Kept /\ UNCHANGED <<name, records, base, unseen, meta, pid, mgr, reading, calls>>
           /\ Len(files') = Len(files) /\ Len(resident') = Len(resident)
           /\ resident'[s].at \in {"idle", "writing"} /\ resident'[s].doomed = resident[s].doomed
           /\ resident'[s].rec = resident[s].rec /\ resident'[s].done > resident[s].done
           /\ \A t \in Residents : t # s => resident'[t] = resident[t]
           /\ \A n \in 1..Len(files) : n # resident[s].fd => files'[n] = files[n]
           /\ blurred => blurred'
           /\ \E n \in 1..records[resident[s].rec] + 1 - resident[s].done :
                LET file == files[resident[s].fd]
                    new  == files'[resident[s].fd]
                IN  /\ Len(new) = Len(file) + n
                    /\ \A i \in 1..Len(file) : new[i] = file[i]
                    /\ \A i \in 1..n : new[Len(file) + i] =
                                           Cell(resident[s].rec, resident[s].done + i - 1)
                    /\ ~blurred' => /\ ~blurred
                                    /\ Follows(file, Cell(resident[s].rec, resident[s].done))
                                    /\ (resident[s].fd = name /\ unseen) => Len(new) < reader.off
  <1> DEFINE r == resident[s]
             cells == Record(r.rec)
             file == files[r.fd]
  <1>1. /\ WritingOK(s) /\ At(s, "writing") /\ r \in ResidentState
    BY ResidentIs DEF Write, IInv, ResidentType
  <1>2. /\ r.fd \in 1..Len(files) /\ r.rec \in 1..Len(records)
        /\ r.done \in 0..records[r.rec] /\ file \in Seq(Cells)
        /\ files \in Seq(Seq(Cells)) /\ Len(files) \in Nat /\ Len(file) \in Nat
    BY <1>1, ElementOfSeq DEF WritingOK, IInv, StoreType
  <1>3. /\ records[r.rec] \in Nat /\ cells \in Seq(Cells) /\ Len(cells) = records[r.rec] + 1
        /\ \A i \in 1..records[r.rec] + 1 : cells[i] = Cell(r.rec, i - 1)
    BY <1>2, RecordProps DEF IInv
  <1>4. r.done \in Nat /\ r.done <= records[r.rec]
    BY <1>2, <1>3
  <1>5. PICK n \in 1..Len(cells) - r.done :
          /\ files' = [files EXCEPT ![r.fd] = file \o SubSeq(cells, r.done + 1, r.done + n)]
          /\ resident' = [resident EXCEPT ![s].done = r.done + n,
                 ![s].at = IF r.done + n = Len(cells) THEN "idle" ELSE "writing"]
          /\ blurred' = (blurred
                 \/ ~Follows(file, cells[r.done + 1])
                 \/ (r.fd = name /\ unseen
                       /\ Len(file \o SubSeq(cells, r.done + 1, r.done + n)) >= reader.off))
    BY DEF Write
  <1> DEFINE new == file \o SubSeq(cells, r.done + 1, r.done + n)
             done == r.done + n
             rr == [r EXCEPT !.done = done, !.at = IF done = Len(cells) THEN "idle" ELSE "writing"]
  <1>6. /\ n \in 1..records[r.rec] + 1 - r.done
        /\ cells[r.done + 1] = Cell(r.rec, r.done)
        /\ new \in Seq(Cells) /\ Len(new) = Len(file) + n
        /\ \A i \in 1..Len(file) : new[i] = file[i]
        /\ \A i \in 1..n : new[Len(file) + i] = Cell(r.rec, r.done + i - 1)
    <2> DEFINE size == records[r.rec]
               d == r.done
               rec == r.rec
    <2>1. /\ file \in Seq(Cells) /\ size \in Nat /\ cells \in Seq(Cells) /\ Len(cells) = size + 1
          /\ \A i \in 1..size + 1 : cells[i] = Cell(rec, i - 1)
          /\ d \in Nat /\ d <= size /\ n \in 1..Len(cells) - d
          /\ new = file \o SubSeq(cells, d + 1, d + n)
      BY <1>2, <1>3, <1>4
    <2> HIDE DEF cells, file, new, size, d, rec
    <2>2. /\ n \in 1..size + 1 - d /\ cells[d + 1] = Cell(rec, d)
          /\ new \in Seq(Cells) /\ Len(new) = Len(file) + n
          /\ \A i \in 1..Len(file) : new[i] = file[i]
          /\ \A i \in 1..n : new[Len(file) + i] = Cell(rec, d + i - 1)
      BY <2>1, Longer
    <2> QED  BY <2>2 DEF size, d, rec
  <1>7. n \in Nat /\ done \in Nat /\ done <= records[r.rec] + 1 /\ done > r.done
    <2> DEFINE size == records[r.rec]
               d == r.done
    <2>1. size \in Nat /\ d \in Nat /\ d <= size /\ n \in 1..size + 1 - d /\ done = d + n
      BY <1>3, <1>4, <1>6
    <2> HIDE DEF size, d, done
    <2>2. n \in Nat /\ done \in Nat /\ done <= size + 1 /\ done > d
      BY <2>1
    <2> QED  BY <2>2 DEF size, d
  <1>8. /\ rr \in ResidentState /\ rr.done = done /\ rr.rec = r.rec /\ rr.fd = r.fd
        /\ rr.doomed = r.doomed /\ rr.at \in {"idle", "writing"}
        /\ rr.at = "writing" => done # Len(cells)
    BY <1>1, <1>7 DEF ResidentState
  <1>9. resident' = [resident EXCEPT ![s] = rr]
    BY <1>5
  <1>11. /\ files' = [files EXCEPT ![r.fd] = new]
         /\ blurred' = (blurred \/ ~Follows(file, Cell(r.rec, r.done))
                          \/ (r.fd = name /\ unseen /\ Len(new) >= reader.off))
    BY <1>5, <1>6
  <1> HIDE DEF rr, new
  <1>12. /\ resident' \in Seq(ResidentState) /\ Len(resident') = Len(resident)
         /\ resident'[s] = rr
         /\ \A t \in Residents : t # s => resident'[t] = resident[t]
    BY <1>8, <1>9, Moved DEF IInv
  <1>13. /\ files' \in Seq(Seq(Cells)) /\ Len(files') = Len(files) /\ files'[r.fd] = new
         /\ \A k \in 1..Len(files) : k # r.fd => files'[k] = files[k]
    BY <1>2, <1>6, <1>11, ExceptSeq
  <1>14. UNCHANGED <<name, records, base, unseen, meta, pid, mgr, reading, calls>>
    BY DEF Write, ByResident
  <1>15. StoreType' /\ Kept
    BY <1>2, <1>13, <1>14 DEF IInv, StoreType, Kept
  <1>15a. CellType'
    <2> SUFFICES ASSUME NEW k \in 1..Len(files'), NEW i \in 1..Len(files'[k])
                 PROVE  /\ files'[k][i].rec \in 1..Len(records)
                        /\ files'[k][i].k \in 0..records[files'[k][i].rec]
      BY <1>14 DEF CellType, Recorded
    <2>1. CASE k # r.fd
      <3>1. k \in 1..Len(files) /\ files'[k] = files[k]
        BY <1>13, <2>1
      <3> QED  BY <3>1 DEF IInv, CellType, Recorded
    <2>2. CASE k = r.fd /\ i \in 1..Len(file)
      <3>1. files'[k][i] = file[i]
        BY <1>6, <1>13, <2>2
      <3> QED  BY <1>2, <2>2, <3>1 DEF IInv, CellType, Recorded
    <2>3. CASE k = r.fd /\ ~(i \in 1..Len(file))
      <3> DEFINE size == records[r.rec]
                 d == r.done
                 len == Len(file)
                 j == i - len
      <3>1. files'[k] = new /\ i \in 1..len + n /\ ~(i \in 1..len) /\ len \in Nat /\ i \in Nat
        <4>1. files'[k] = new /\ Len(new) = len + n
          BY <1>6, <1>13, <2>3
        <4>2. i \in 1..len + n
          BY <4>1
        <4>3. len \in Nat /\ ~(i \in 1..len)
          BY <1>2, <2>3
        <4> HIDE DEF len
        <4>4. n \in Nat
          BY <1>7
        <4>5. i \in Nat
          BY <4>2, <4>3, <4>4
        <4> QED  BY <4>1, <4>2, <4>3, <4>5
      <3>2. size \in Nat /\ d \in Nat /\ n \in 1..size + 1 - d
        BY <1>3, <1>4, <1>6
      <3> HIDE DEF size, d, len
      <3>3. j \in 1..n /\ i = len + j /\ d + j - 1 \in 0..size
        BY <3>1, <3>2
      <3>4. new[i] = Cell(r.rec, d + j - 1)
        BY <1>6, <3>3 DEF len, d
      <3> QED  BY <1>2, <3>1, <3>3, <3>4 DEF Cell, size
    <2> QED  BY <2>1, <2>2, <2>3
  <1>16. \A t \in Residents : WritingOK(t)'
    <2> TAKE t \in Residents
    <2>1. CASE t = s
      <3> SUFFICES ASSUME rr.at = "writing"
                   PROVE  r.fd \in 1..Len(files') /\ r.rec \in 1..Len(records') /\ done \in 0..records'[r.rec]
        BY <1>8, <1>12, <2>1 DEF WritingOK, At
      <3>1. done <= records[r.rec]
        BY <1>3, <1>7, <1>8
      <3> QED  BY <1>2, <1>3, <1>7, <1>13, <1>14, <3>1
    <2>2. CASE t # s
      BY <1>12, <1>15, <2>2, WritesOn
    <2> QED  BY <2>1, <2>2
  <1>17. ResidentType'
    BY <1>12, <1>14, <1>16 DEF IInv, ResidentType, Residents
  <1>18. blurred' \in BOOLEAN
    BY <1>11, Zenon
  <1>19. FlagType' /\ ManagerType' /\ ReaderType'
    BY <1>12, <1>13, <1>14, <1>18 DEF reading, calls, IInv, FlagType, ManagerType, Managing, ReaderType, Reading
  <1>20. IInv'
    BY <1>15, <1>15a, <1>17, <1>19 DEF IInv
  <1>21. \E k \in 1..records[r.rec] + 1 - r.done :
            /\ Len(files'[r.fd]) = Len(file) + k
            /\ \A i \in 1..Len(file) : files'[r.fd][i] = file[i]
            /\ \A i \in 1..k : files'[r.fd][Len(file) + i] = Cell(r.rec, r.done + i - 1)
            /\ ~blurred' => /\ ~blurred /\ Follows(file, Cell(r.rec, r.done))
                            /\ (r.fd = name /\ unseen) => Len(files'[r.fd]) < reader.off
    <2>1. ASSUME ~blurred' PROVE ~blurred /\ Follows(file, Cell(r.rec, r.done))
      BY <1>11, <2>1
    <2>2. Len(new) \in Nat
      BY <1>6
    <2>3. reader.off \in Nat
      BY DEF IInv, ReaderType, ReaderState
    <2>4. ~(Len(new) >= reader.off) => Len(new) < reader.off
      <3> DEFINE a == Len(new)
                 b == reader.off
      <3>1. a \in Nat /\ b \in Nat
        BY <2>2, <2>3
      <3> HIDE DEF a, b
      <3>2. ~(a >= b) => a < b
        BY <3>1
      <3> QED  BY <3>2 DEF a, b
    <2>5. ASSUME ~blurred', r.fd = name, unseen PROVE Len(new) < reader.off
      <3>1. ~(Len(new) >= reader.off)
        BY <1>11, <2>5
      <3> QED  BY <2>4, <3>1
    <2>6. /\ Len(files'[r.fd]) = Len(file) + n
          /\ \A i \in 1..Len(file) : files'[r.fd][i] = file[i]
          /\ \A i \in 1..n : files'[r.fd][Len(file) + i] = Cell(r.rec, r.done + i - 1)
      BY <1>6, <1>13
    <2>7. ASSUME ~blurred', r.fd = name, unseen PROVE Len(files'[r.fd]) < reader.off
      BY <1>13, <2>5, <2>7
    <2> HIDE DEF file, r
    <2> QED  BY <1>6, <2>1, <2>6, <2>7
  <1>22. blurred => blurred'
    BY <1>11
  <1> QED  BY <1>7, <1>8, <1>12, <1>13, <1>14, <1>15, <1>20, <1>21, <1>22

-----------------------------------------------------------------------------
(* The subscriber. *)

LEMMA ReaderIs ==
    ASSUME IInv
    PROVE  /\ reader \in ReaderState /\ reader.off \in Nat /\ reader.size \in Nat
           /\ reader.fd \in Nat /\ reader.path \in Nat /\ reader.head \in Cells
           /\ reader.body \in Seq(Cells)
  BY DEF IInv, ReaderType, ReaderState

LEMMA AgainType ==
    ASSUME IInv, Again
    PROVE  /\ reader' \in ReaderState /\ reader'.at = "look" /\ reader'.off = reader.off
  BY ReaderIs DEF Again, ReaderState

LEMMA OnTypes ==
    ASSUME IInv, On
    PROVE  /\ IInv' /\ ByReader /\ UNCHANGED <<stop, got, unseen>>
           /\ Reading("off") /\ reader'.at = "look" /\ reader'.off = Len(Content)
           /\ base' = Len(Content) /\ (blurred => blurred')
           /\ ~blurred' /\ Content # <<>> => LastOf(Content[Len(Content)])
  <1>1. ByReader /\ UNCHANGED <<stop, got, unseen>>
    BY DEF On
  <1>2. Len(Content) \in Nat
    BY ContentType DEF IInv
  <1>3. reader' \in ReaderState /\ reader'.at = "look" /\ reader'.off = Len(Content) /\ base' = Len(Content)
    BY <1>2, ReaderIs DEF On, ReaderState
  <1>4. blurred' \in BOOLEAN
    BY Zenon DEF On
  <1>5. StoreType' /\ CellType' /\ FlagType' /\ ManagerType' /\ ReaderType' /\ Kept
    BY <1>1, <1>2, <1>3, <1>4
       DEF ByReader, store, calls, IInv, StoreType, CellType, Recorded, FlagType, ManagerType, Managing, ReaderType, Reading, Kept
  <1>6. ResidentType'
    BY <1>1, <1>5, SignalType DEF ByReader, store, IInv, ResidentType
  <1> QED  BY <1>1, <1>3, <1>5, <1>6 DEF IInv, On

LEMMA LookTypes ==
    ASSUME IInv, Look
    PROVE  /\ IInv' /\ ByReader /\ UNCHANGED <<stop, got, base, blurred>> /\ ~unseen'
           /\ Reading("look") /\ reader'.at \in {"look", "head"}
           /\ reader'.off = IF Len(Content) < reader.off THEN 0 ELSE reader.off
  <1>1. ByReader /\ UNCHANGED <<stop, got, base, blurred>> /\ ~unseen' /\ unseen' = FALSE
    BY DEF Look
  <1>2. Len(Content) \in Nat
    BY ContentType DEF IInv
  <1>3. /\ reader' \in ReaderState /\ reader'.at \in {"look", "head"}
        /\ reader'.off = IF Len(Content) < reader.off THEN 0 ELSE reader.off
    BY <1>2, ReaderIs DEF Look, ReaderState
  <1>5. StoreType' /\ CellType' /\ FlagType' /\ ManagerType' /\ ReaderType' /\ Kept
    <2>1. StoreType' /\ CellType' /\ ManagerType' /\ Kept
      BY <1>1 DEF ByReader, store, calls, IInv, StoreType, CellType, Recorded, ManagerType, Managing, Kept
    <2>2. FlagType'
      BY <1>1 DEF ByReader, store, calls, IInv, FlagType
    <2>3. reader'.at # "body"
      BY <1>3
    <2>4. ReaderType'
      BY <1>1, <1>3, <2>3 DEF IInv, ReaderType, Reading
    <2> QED  BY <2>1, <2>2, <2>4
  <1>6. ResidentType'
    BY <1>1, <1>5, SignalType DEF ByReader, store, IInv, ResidentType
  <1> QED  BY <1>1, <1>3, <1>5, <1>6 DEF IInv, Look

\* What the reader takes for a header is one when the cell is.
LEMMA HeadTypes ==
    ASSUME IInv, ReadHead
    PROVE  /\ IInv' /\ ByReader /\ UNCHANGED <<stop, got, order>> /\ Reading("head")
           /\ reader'.at \in {"look", "body", "ended"} /\ reader'.off = reader.off
           /\ reader'.at = "body" =>
                /\ Len(Content) > reader.off /\ name # 0 /\ reader'.fd = name
                /\ reader'.head = Content[reader.off + 1]
                /\ reader'.head.k = 0 => reader'.path = records[reader'.head.rec]
  <1>1. ByReader /\ UNCHANGED <<stop, got, order>>
    BY DEF ReadHead
  <1>2. Content \in Seq(Cells) /\ Len(Content) \in Nat /\ reader.off \in Nat
    BY ContentType, ReaderIs DEF IInv
  <1>3. /\ reader' \in ReaderState /\ reader'.off = reader.off
        /\ reader'.at \in {"look", "body", "ended"}
        /\ reader'.at = "body" =>
             /\ Len(Content) > reader.off /\ name # 0 /\ reader'.fd = name
             /\ reader'.head = Content[reader.off + 1]
             /\ reader'.head.k = 0 => reader'.path = records[reader'.head.rec]
    <2>1. CASE Again
      BY <2>1, AgainType
    <2>2. CASE ~Again
      <3> DEFINE cell == Content[reader.off + 1]
                 left == reader.size - reader.off - 1
      <3>1. Len(Content) > reader.off
        <4>1. ~(Len(Content) <= reader.off)
          BY <2>2 DEF ReadHead
        <4> QED  BY <1>2, <4>1
      <3>2. cell \in Cells
        BY <1>2, <3>1, ElementOfSeq
      <3>3. name # 0
        BY <1>2, <3>1, EmptySeq DEF Content
      <3>4. PICK n \in IF cell.k = 0 THEN {records[cell.rec]} ELSE 0..MaxPath + 1 :
               /\ ~(n > left)
               /\ IF n > MaxPath THEN reader' = [reader EXCEPT !.at = "ended"]
                  ELSE reader' = [reader EXCEPT !.at = "body", !.fd = name, !.head = cell, !.path = n]
        BY <1>2, <2>2, <3>1 DEF ReadHead
      <3>5. cell.k = 0 => n = records[cell.rec]
        BY <3>4
      <3> HIDE DEF cell, left
      <3>6. CASE n > MaxPath
        BY <3>4, <3>6, ReaderIs DEF ReaderState
      <3>7. CASE ~(n > MaxPath)
        <4>1. n \in Nat
          <5>1. CASE cell.k = 0
            <6>1. cell.rec \in 1..Len(records)
              <7>1. name \in 1..Len(files) /\ reader.off + 1 \in 1..Len(files[name]) /\ Content = files[name]
                BY <1>2, <3>1, <3>3 DEF IInv, StoreType, Content
              <7> QED  BY <7>1 DEF IInv, CellType, Recorded, cell
            <6> QED  BY <3>5, <5>1, <6>1, RecordProps DEF IInv
          <5>2. CASE cell.k # 0
            BY <3>4, <5>2, WchAssumption
          <5> QED  BY <5>1, <5>2
        <4>2. name \in Nat
          BY DEF IInv, StoreType
        <4>3. reader' = [reader EXCEPT !.at = "body", !.fd = name, !.head = cell, !.path = n]
          BY <3>4, <3>7
        <4>4. /\ reader' \in ReaderState /\ reader'.off = reader.off /\ reader'.at = "body"
              /\ reader'.fd = name /\ reader'.head = cell /\ reader'.path = n
          BY <3>2, <4>1, <4>2, <4>3, ReaderIs DEF ReaderState
        <4> QED  BY <3>1, <3>3, <3>5, <4>4 DEF cell
      <3> QED  BY <3>6, <3>7
    <2> QED  BY <2>1, <2>2
  <1>5. StoreType' /\ CellType' /\ FlagType' /\ ManagerType' /\ ReaderType' /\ Kept
    <2>1. reader'.at = "body" => reader'.fd \in 1..Len(files)
      BY <1>3 DEF IInv, StoreType
    <2> QED  BY <1>1, <1>3, <2>1
       DEF ByReader, store, calls, order, IInv, StoreType, CellType, Recorded, FlagType, ManagerType, Managing, ReaderType, Reading, Kept
  <1>6. ResidentType'
    BY <1>1, <1>5, SignalType DEF ByReader, store, IInv, ResidentType
  <1> QED  BY <1>1, <1>3, <1>5, <1>6 DEF IInv, ReadHead

LEMMA BodyTypes ==
    ASSUME IInv, ReadBody
    PROVE  /\ IInv' /\ ByReader /\ UNCHANGED <<stop, got, order>> /\ Reading("body")
           /\ reader'.at \in {"look", "call"}
           /\ reader'.at = "look" => reader'.off = reader.off
           /\ reader'.at = "call" =>
                /\ reader'.off = reader.off + 1 + reader.path
                /\ reader'.off <= Len(files[reader.fd])
                /\ reader'.head = reader.head /\ reader'.path = reader.path
                /\ reader'.body = SubSeq(files[reader.fd], reader.off + 2, reader'.off)
  <1>1. ByReader /\ UNCHANGED <<stop, got, order>> /\ Reading("body")
    BY DEF ReadBody
  <1>2. /\ reader.fd \in 1..Len(files) /\ files[reader.fd] \in Seq(Cells)
        /\ reader.off \in Nat /\ reader.path \in Nat
    BY <1>1, ReaderIs, ElementOfSeq DEF IInv, ReaderType, StoreType
  <1> DEFINE end == reader.off + 1 + reader.path
             body == SubSeq(files[reader.fd], reader.off + 2, end)
             call == /\ end <= Len(files[reader.fd])
                     /\ reader' = [reader EXCEPT !.at = "call", !.off = end, !.body = body]
  <1>3. Again \/ call
    BY <1>2 DEF ReadBody
  <1>4. end \in Nat
    BY <1>2
  <1>5. call => body \in Seq(Cells)
    <2> SUFFICES ASSUME end <= Len(files[reader.fd]) PROVE body \in Seq(Cells)
      OBVIOUS
    <2> DEFINE lo == reader.off + 2
    <2>1. lo \in Nat /\ 1 <= lo /\ Len(files[reader.fd]) \in Nat
      BY <1>2
    <2> HIDE DEF lo, end
    <2>2. \A i \in lo..end : i \in 1..Len(files[reader.fd])
      BY <1>4, <2>1
    <2>3. SubSeq(files[reader.fd], lo, end) \in Seq(Cells)
      BY <1>2, <1>4, <2>1, <2>2, SubSeqProperties
    <2> QED  BY <2>3 DEF lo
  <1>6. /\ reader' \in ReaderState /\ reader'.at \in {"look", "call"}
        /\ reader'.at = "look" => reader'.off = reader.off
        /\ reader'.at = "call" =>
                /\ reader'.off = end /\ end <= Len(files[reader.fd])
                /\ reader'.head = reader.head /\ reader'.path = reader.path
                /\ reader'.body = body
    <2>1. CASE Again
      BY <2>1, AgainType
    <2>2. CASE call
      <3>1. body \in Seq(Cells)
        BY <1>5, <2>2
      <3> HIDE DEF body, end
      <3> QED  BY <1>4, <2>2, <3>1, ReaderIs DEF ReaderState
    <2> HIDE DEF call
    <2> QED  BY <1>3, <2>1, <2>2
  <1> HIDE DEF call
  <1>7. StoreType' /\ CellType' /\ FlagType' /\ ManagerType' /\ ReaderType' /\ Kept
    <2>1. reader'.at # "body"
      BY <1>6
    <2> QED  BY <1>1, <1>6, <2>1
       DEF ByReader, store, calls, order, IInv, StoreType, CellType, Recorded, FlagType, ManagerType, Managing, ReaderType, Reading, Kept
  <1>8. ResidentType'
    BY <1>1, <1>7, SignalType DEF ByReader, store, IInv, ResidentType
  <1> QED  BY <1>1, <1>6, <1>7, <1>8 DEF IInv

LEMMA CallTypes ==
    ASSUME IInv, Call
    PROVE  /\ IInv' /\ ByReader /\ UNCHANGED <<stop, order>> /\ Reading("call")
           /\ reader'.at = "look" /\ reader'.off = reader.off
           /\ Len(got') = Len(got) + 1
           /\ got'[Len(got) + 1] = <<reader.head>> \o reader.body
           /\ \A i \in 1..Len(got) : got'[i] = got[i]
  <1>1. ByReader /\ UNCHANGED <<stop, order>> /\ Again
    BY DEF Call
  <1>2. reader' \in ReaderState /\ reader'.at = "look" /\ reader'.off = reader.off
    BY <1>1, AgainType
  <1>3. <<reader.head>> \o reader.body \in Seq(Cells)
    <2>1. <<reader.head>> \in Seq(Cells) /\ reader.body \in Seq(Cells)
      BY ReaderIs
    <2> QED  BY <2>1, ConcatProperties
  <1> DEFINE event == <<reader.head>> \o reader.body
  <1>4. got' = Append(got, event) /\ got \in Seq(Seq(Cells)) /\ event \in Seq(Cells)
    BY <1>3 DEF Call, IInv, ReaderType
  <1> HIDE DEF event
  <1>5. /\ got' \in Seq(Seq(Cells)) /\ Len(got') = Len(got) + 1
        /\ got'[Len(got) + 1] = event
        /\ \A i \in 1..Len(got) : got'[i] = got[i]
    BY <1>4, AppendProperties
  <1>6. StoreType' /\ CellType' /\ FlagType' /\ ManagerType' /\ ReaderType' /\ Kept
    BY <1>1, <1>2, <1>5
       DEF ByReader, store, calls, order, IInv, StoreType, CellType, Recorded, FlagType, ManagerType, Managing, ReaderType, Reading, Kept
  <1>7. ResidentType'
    BY <1>1, <1>6, SignalType DEF ByReader, store, IInv, ResidentType
  <1> QED  BY <1>1, <1>2, <1>5, <1>6, <1>7 DEF IInv, Call, event

LEMMA EndingTypes ==
    ASSUME IInv, End \/ Close
    PROVE  /\ IInv' /\ ByReader /\ UNCHANGED <<got, order>>
           /\ ~Reading("off") /\ reader'.off = reader.off
           /\ reader' = reader \/ (Reading("look") /\ reader'.at = "ended")
  <1>1. ByReader /\ UNCHANGED <<got, order>> /\ ~Reading("off") /\ stop' \in BOOLEAN
    BY DEF End, Close, Reading, IInv, FlagType
  <1>2. /\ reader' \in ReaderState /\ reader'.off = reader.off
        /\ reader' = reader \/ (Reading("look") /\ reader'.at = "ended")
    BY ReaderIs DEF End, Close, ReaderState
  <1>3. StoreType' /\ CellType' /\ FlagType' /\ ManagerType' /\ ReaderType' /\ Kept
    BY <1>1, <1>2
       DEF ByReader, store, calls, order, IInv, StoreType, CellType, Recorded, FlagType, ManagerType, Managing, ReaderType, Reading, Kept
  <1>4. ResidentType'
    BY <1>1, <1>3, SignalType DEF ByReader, store, IInv, ResidentType
  <1> QED  BY <1>1, <1>2, <1>3, <1>4 DEF IInv

LEMMA NextTypes == ASSUME IInv, [Next]_vars PROVE IInv'
  <1>1. ASSUME NEW m \in Managers, Manage(m) PROVE IInv'
    BY <1>1, ManageTypes
  <1>2. ASSUME NEW s \in Residents, Serve(s) \/ Open(s) \/ Write(s) \/ WriteFails(s) \/ Die(s)
        PROVE  IInv'
    BY <1>2, RestingTypes, OpenTypes, WriteTypes
  <1>3. CASE On \/ Reader \/ Close
    BY <1>3, OnTypes, LookTypes, HeadTypes, BodyTypes, CallTypes, EndingTypes DEF Reader
  <1>4. CASE UNCHANGED vars
    BY <1>4 DEF vars, store, reading, order, calls, IInv, StoreType, CellType, Recorded, FlagType,
                ResidentType, Residents, WritingOK, At, ManagerType, Managing, ReaderType, Reading
  <1> QED  BY <1>1, <1>2, <1>3, <1>4 DEF Next

-----------------------------------------------------------------------------
\* The states of libwch.c: whatever managers, residents and the subscriber do at
\* once, every pid, file and record that one of them goes by is there, and every
\* cell of a file belongs to a record that has begun.
THEOREM Inductive == Spec => []IInv
  BY InitTypes, NextTypes, PTL DEF Spec

\* The type invariant that the run checks.
THEOREM TypeCorrect == Spec => []TypeOK
  <1>1. IInv => TypeOK
    <2> SUFFICES ASSUME IInv PROVE TypeOK
      OBVIOUS
    <2>1. \A s \in Residents : resident[s].at \in {"starting", "idle", "writing", "dead"}
      BY ResidentIs DEF IInv, ResidentState
    <2> QED  BY <2>1, ReaderIs DEF IInv, StoreType, FlagType, ResidentType, ReaderState, TypeOK
  <1> QED  BY <1>1, Inductive, PTL

-----------------------------------------------------------------------------
(* One resident.  While managers come one after the other, what a call has   *)
(* stopped and started so far says which residents are up.                   *)

Live == {s \in Residents : Up(s)}

\* One manager at a time.
Alone == \A m, n \in Managers : mgr[m] # Idle /\ mgr[n] # Idle => m = n

CallOK(m) ==
    /\ mgr[m] # Idle => last = "none"
    /\ Managing(m, "stop") => Live \subseteq {pid}
    /\ mgr[m].step \in {"register", "reset", "fork", "remove_meta", "remove_events"} => Live = {}
    /\ mgr[m].step \in {"reset", "fork", "pid"} => meta
    /\ Managing(m, "pid") => Live \subseteq {mgr[m].new} /\ ~resident[mgr[m].new].doomed
    /\ Managing(m, "remove_events") => ~meta /\ pid = 0
    /\ mgr[m].op = "deletes" => mgr[m].step \in {"stop", "remove_meta", "remove_events"}

RestOK ==
    /\ Live \subseteq {pid}
    /\ last = "updates" => meta /\ pid # 0 /\ ~resident[pid].doomed
    /\ last = "deletes" => ~meta /\ pid = 0

SInv == ~raced => /\ Alone
                  /\ ~orphaned => (AtRest => RestOK) /\ \A m \in Managers : CallOK(m)

LEMMA InitSerial == Init => SInv
  BY EmptySeq DEF Init, SInv, Alone, AtRest, RestOK, CallOK, Managing, Idle, Live, Residents

\* What a manager that alone is in a call has to establish.
LEMMA OneCall ==
    ASSUME IInv, SInv, ~raced, NEW m \in Managers, mgr[m] # Idle,
           \A n \in Managers \ {m} : mgr'[n] = mgr[n]
    PROVE  /\ Alone' /\ (~orphaned => CallOK(m))
           /\ \A n \in Managers \ {m} : mgr[n] = Idle /\ CallOK(n)'
           /\ mgr'[m] # Idle => ~AtRest'
  <1>1. \A n \in Managers \ {m} : mgr[n] = Idle /\ mgr'[n] = Idle
    BY DEF SInv, Alone
  <1>2. Alone'
    BY <1>1 DEF Alone
  <1>3. \A n \in Managers \ {m} : CallOK(n)'
    BY <1>1 DEF CallOK, Managing, Idle
  <1> QED  BY <1>1, <1>2, <1>3 DEF SInv, AtRest

\* A resident that is told to go is no longer up.
LEMMA DoomedLive ==
    ASSUME IInv, NEW s \in Residents, resident' = [resident EXCEPT ![s].doomed = TRUE]
    PROVE  Live' = Live \ {s}
  <1>1. /\ Len(resident') = Len(resident)
        /\ \A t \in Residents : /\ resident'[t].at = resident[t].at
                                /\ resident'[t].doomed = (t = s \/ resident[t].doomed)
    BY DoomedType
  <1> QED  BY <1>1 DEF Live, Residents, Up, At

LEMMA ManageSerial == ASSUME IInv, SInv, NEW m \in Managers, Manage(m) PROVE SInv'
  <1> SUFFICES ASSUME ~raced' PROVE SInv'
    BY DEF SInv
  <1>1. ASSUME NEW op \in {"updates", "deletes"}, Begin(m, op) PROVE SInv'
    <2>1. ~raced /\ \A n \in Managers : n # m => mgr[n] = Idle
      BY <1>1 DEF Begin
    <2>2. /\ UNCHANGED <<resident, meta, pid, orphaned>> /\ last' = "none" /\ mgr[m] = Idle
          /\ mgr'[m].step = "stop" /\ mgr'[m].op = op /\ mgr'[m] # Idle
          /\ \A n \in Managers \ {m} : mgr'[n] = Idle
      BY <1>1, <2>1 DEF Begin, store, Idle, IInv, ManagerType
    <2>3. Alone' /\ ~AtRest'
      BY <2>2 DEF Alone, AtRest
    <2>4. AtRest
      BY <2>1, <2>2 DEF AtRest
    <2>5. ASSUME ~orphaned PROVE \A n \in Managers : CallOK(n)'
      <3>1. Live \subseteq {pid}
        BY <2>1, <2>4, <2>5 DEF SInv, RestOK
      <3>2. Live' = Live
        BY <2>2 DEF Live, Residents, Up, At
      <3>3. CallOK(m)'
        BY <2>2, <3>1, <3>2 DEF CallOK, Managing
      <3>4. \A n \in Managers \ {m} : CallOK(n)'
        BY <2>2 DEF CallOK, Managing, Idle
      <3> QED  BY <3>3, <3>4
    <2> QED  BY <2>2, <2>3, <2>5 DEF SInv
  <1>2. CASE Stop(m)
    <2>1. /\ UNCHANGED <<raced, orphaned, last, meta, pid>> /\ mgr[m] # Idle /\ Managing(m, "stop")
          /\ Goto(m, IF mgr[m].op = "updates" THEN "register" ELSE "remove_meta")
      BY <1>2 DEF Stop, ByManager, store, Managing, Idle
    <2>2. PICK step \in {"register", "remove_meta"} :
             Goto(m, step) /\ (mgr[m].op = "deletes" => step = "remove_meta")
      BY <2>1
    <2>3. IInv' /\ Len(resident') >= Len(resident)
      <3>1. IInv'
        BY ManageTypes
      <3>2. resident' = resident \/ Len(resident') = Len(resident)
        <4>1. pid # 0 => pid \in Residents
          BY DEF Residents, IInv, ResidentType
        <4> QED  BY <1>2, <4>1, DoomedType DEF Stop
      <3> QED  BY <3>1, <3>2 DEF IInv, ResidentType
    <2>4. /\ mgr'[m].step = step /\ mgr'[m].op = mgr[m].op /\ mgr'[m] # Idle
          /\ \A n \in Managers \ {m} : mgr'[n] = mgr[n]
      BY <2>1, <2>2, <2>3, GotoType DEF Idle
    <2>5. /\ Alone' /\ ~AtRest' /\ (~orphaned => CallOK(m))
          /\ \A n \in Managers \ {m} : CallOK(n)'
      BY <2>1, <2>4, OneCall
    <2>6. ASSUME ~orphaned PROVE CallOK(m)'
      <3>1. Live \subseteq {pid} /\ last = "none"
        BY <2>1, <2>5, <2>6 DEF CallOK
      <3>2. Live' = {}
        <4>1. CASE pid = 0
          <5>1. Live = {} /\ resident' = resident
            BY <1>2, <3>1, <4>1 DEF Live, Residents, Stop
          <5> QED  BY <5>1 DEF Live, Residents, Up, At
        <4>2. CASE pid # 0
          <5>1. pid \in Residents
            BY <4>2 DEF Residents, IInv, ResidentType
          <5>2. Live' = Live \ {pid}
            BY <1>2, <4>2, <5>1, DoomedLive DEF Stop
          <5> QED  BY <3>1, <5>2
        <4> QED  BY <4>1, <4>2
      <3> QED  BY <2>1, <2>2, <2>4, <3>1, <3>2 DEF CallOK, Managing
    <2> QED  BY <2>1, <2>5, <2>6 DEF SInv
  <1>3. CASE Register(m) \/ Reset(m) \/ RemoveMeta(m) \/ RemoveEvents(m)
    <2>1. /\ UNCHANGED <<raced, orphaned, resident>> /\ mgr[m] # Idle
          /\ mgr[m].step \in {"register", "reset", "remove_meta", "remove_events"}
      BY <1>3 DEF Register, Reset, RemoveMeta, RemoveEvents, ByManager, Managing, Idle
    <2>2. Live' = Live /\ Len(resident') >= Len(resident)
      BY <2>1 DEF Live, Residents, Up, At, IInv, ResidentType
    <2>3. \/ Return(m)
          \/ \E step \in {"reset", "fork", "remove_events"} : Goto(m, step)
      BY <1>3 DEF Register, Reset, RemoveMeta, RemoveEvents
    <2>4. /\ \A n \in Managers \ {m} : mgr'[n] = mgr[n]
          /\ mgr'[m] = Idle \/ (mgr'[m].op = mgr[m].op /\ mgr'[m] # Idle)
      BY <2>1, <2>2, <2>3, ReturnType, GotoType DEF Idle
    <2>5. /\ Alone' /\ (mgr'[m] # Idle => ~AtRest') /\ (~orphaned => CallOK(m))
          /\ \A n \in Managers \ {m} : mgr[n] = Idle /\ CallOK(n)'
      BY <2>1, <2>4, OneCall
    <2>6. ASSUME ~orphaned PROVE CallOK(m)' /\ (AtRest' => RestOK')
      <3>1. Live = {} /\ Live' = {} /\ last = "none" /\ CallOK(m)
        BY <2>1, <2>2, <2>5, <2>6 DEF CallOK
      <3>2. CASE Register(m)
        <4>1. UNCHANGED last /\ mgr[m].op # "deletes"
          BY <3>1, <3>2 DEF Register, CallOK, Managing
        <4>2. CASE Return(m)
          BY <2>1, <2>2, <3>1, <4>1, <4>2, ReturnType DEF CallOK, RestOK, Managing, Idle
        <4>3. CASE meta' = TRUE /\ Goto(m, "reset")
          <5>1. mgr'[m].step = "reset" /\ mgr'[m].op = mgr[m].op
            BY <2>1, <2>2, <4>3, GotoType
          <5>2. mgr'[m] # Idle
            BY <5>1 DEF Idle
          <5> QED  BY <2>5, <3>1, <4>1, <4>3, <5>1, <5>2 DEF CallOK, Managing
        <4> QED  BY <3>2, <4>2, <4>3 DEF Register
      <3>3. CASE Reset(m)
        <4>1. UNCHANGED <<last, meta, pid>> /\ mgr[m].op # "deletes" /\ meta
          BY <3>1, <3>3 DEF Reset, CallOK, Managing
        <4>2. CASE Return(m)
          BY <2>1, <2>2, <3>1, <4>1, <4>2, ReturnType DEF CallOK, RestOK, Managing, Idle
        <4>3. CASE Goto(m, "fork")
          <5>1. mgr'[m].step = "fork" /\ mgr'[m].op = mgr[m].op
            BY <2>1, <2>2, <4>3, GotoType
          <5>2. mgr'[m] # Idle
            BY <5>1 DEF Idle
          <5> QED  BY <2>5, <3>1, <4>1, <4>3, <5>1, <5>2 DEF CallOK, Managing
        <4> QED  BY <3>3, <4>2, <4>3 DEF Reset
      <3>4. CASE RemoveMeta(m)
        <4>1. UNCHANGED last /\ meta' = FALSE /\ pid' = 0 /\ Goto(m, "remove_events")
          BY <3>4 DEF RemoveMeta
        <4>2. mgr'[m].step = "remove_events" /\ mgr'[m].op = mgr[m].op
          BY <2>1, <2>2, <4>1, GotoType
        <4>3. mgr'[m] # Idle
          BY <4>2 DEF Idle
        <4> QED  BY <2>5, <3>1, <4>1, <4>2, <4>3 DEF CallOK, Managing
      <3>5. CASE RemoveEvents(m)
        <4>1. /\ last' = (IF mgr[m].op = "deletes" THEN "deletes" ELSE last)
              /\ ~meta /\ pid = 0 /\ UNCHANGED <<meta, pid>> /\ Return(m)
          BY <3>1, <3>5 DEF RemoveEvents, CallOK, Managing
        <4>2. mgr'[m] = Idle /\ last' \in {"none", "deletes"}
          BY <2>1, <2>2, <3>1, <4>1, ReturnType
        <4> QED  BY <3>1, <4>1, <4>2 DEF CallOK, RestOK, Managing, Idle
      <3> QED  BY <1>3, <3>2, <3>3, <3>4, <3>5
    <2> QED  BY <2>1, <2>5, <2>6 DEF SInv
  <1>4. CASE Fork(m)
    <2>1. /\ UNCHANGED <<raced, orphaned, last, meta, pid>> /\ mgr[m] # Idle /\ Managing(m, "fork")
      BY <1>4 DEF Fork, ByManager, store, Managing, Idle
    <2>2. CASE UNCHANGED resident /\ Goto(m, "remove_meta")
      <3>1. Live' = Live /\ Len(resident') >= Len(resident)
        BY <2>2 DEF Live, Residents, Up, At, IInv, ResidentType
      <3>2. /\ mgr'[m].step = "remove_meta" /\ mgr'[m].op = mgr[m].op
            /\ \A n \in Managers \ {m} : mgr'[n] = mgr[n]
        BY <2>1, <2>2, <3>1, GotoType
      <3>3. mgr'[m] # Idle
        BY <3>2 DEF Idle
      <3>4. /\ Alone' /\ ~AtRest' /\ (~orphaned => CallOK(m))
            /\ \A n \in Managers \ {m} : CallOK(n)'
        BY <2>1, <3>2, <3>3, OneCall
      <3>5. ~orphaned => CallOK(m)'
        BY <2>1, <3>1, <3>2, <3>4 DEF CallOK, Managing
      <3> QED  BY <2>1, <3>4, <3>5 DEF SInv
    <2>3. CASE ~(UNCHANGED resident /\ Goto(m, "remove_meta"))
      <3> DEFINE new == [at |-> "starting", doomed |-> FALSE, fd |-> 0, rec |-> 0, done |-> 0]
      <3>1. /\ resident' = Append(resident, new)
            /\ mgr' = [mgr EXCEPT ![m].step = "pid", ![m].new = Len(resident) + 1]
        BY <1>4, <2>3 DEF Fork
      <3>2. new \in ResidentState /\ resident \in Seq(ResidentState) /\ Len(resident) \in Nat
        BY DEF ResidentState, IInv, ResidentType
      <3>3. /\ Len(resident') = Len(resident) + 1
            /\ \A s \in Residents : resident'[s] = resident[s]
            /\ resident'[Len(resident) + 1] = new
        BY <3>1, <3>2, AppendProperties DEF Residents
      <3>4. /\ mgr'[m].step = "pid" /\ mgr'[m].new = Len(resident) + 1 /\ mgr'[m].op = mgr[m].op
            /\ \A n \in Managers \ {m} : mgr'[n] = mgr[n]
        BY <3>1, <3>2 DEF IInv, ManagerType, Calls
      <3>5. mgr'[m] # Idle
        BY <3>4 DEF Idle
      <3>6. /\ Alone' /\ ~AtRest' /\ (~orphaned => CallOK(m))
            /\ \A n \in Managers \ {m} : CallOK(n)'
        BY <2>1, <3>4, <3>5, OneCall
      <3>7. ASSUME ~orphaned PROVE CallOK(m)'
        <4>1. Live = {} /\ last = "none" /\ meta /\ mgr[m].op # "deletes"
          BY <2>1, <3>6, <3>7 DEF CallOK, Managing
        <4>2. Live' \subseteq {Len(resident) + 1}
          <5> SUFFICES ASSUME NEW s \in Live', s # Len(resident) + 1 PROVE FALSE
            OBVIOUS
          <5>1. s \in Residents
            BY <3>2, <3>3 DEF Live, Residents
          <5>2. s \in Live
            BY <3>3, <5>1 DEF Live, Up, At
          <5> QED  BY <4>1, <5>2
        <4>3. ~resident'[Len(resident) + 1].doomed
          BY <3>3
        <4> QED  BY <2>1, <3>4, <4>1, <4>2, <4>3 DEF CallOK, Managing
      <3> QED  BY <2>1, <3>6, <3>7 DEF SInv
    <2> QED  BY <2>2, <2>3
  <1>5. CASE WritePid(m)
    <2>1. /\ UNCHANGED <<raced, orphaned, meta>> /\ mgr[m] # Idle /\ Managing(m, "pid")
          /\ mgr[m].new \in Residents
      BY <1>5 DEF WritePid, ByManager, Managing, Idle, IInv, ManagerType, ResidentType, Residents
    <2>2. CASE pid' = mgr[m].new /\ last' = "updates" /\ Return(m) /\ UNCHANGED resident
      <3>1. Live' = Live /\ Len(resident') >= Len(resident)
        BY <2>2 DEF Live, Residents, Up, At, IInv, ResidentType
      <3>2. mgr'[m] = Idle /\ \A n \in Managers \ {m} : mgr'[n] = mgr[n]
        BY <2>1, <2>2, <3>1, ReturnType
      <3>3. /\ Alone' /\ (~orphaned => CallOK(m))
            /\ \A n \in Managers \ {m} : CallOK(n)'
        BY <2>1, <3>2, OneCall
      <3>4. CallOK(m)'
        BY <3>2 DEF CallOK, Managing, Idle
      <3>5. ASSUME ~orphaned PROVE RestOK'
        <4>1. Live \subseteq {mgr[m].new} /\ ~resident[mgr[m].new].doomed /\ meta
          BY <2>1, <3>3, <3>5 DEF CallOK, Managing
        <4>2. mgr[m].new # 0
          BY <2>1 DEF Residents
        <4> QED  BY <2>1, <2>2, <3>1, <4>1, <4>2 DEF RestOK
      <3> QED  BY <2>1, <3>3, <3>4, <3>5 DEF SInv
    <2>3. CASE /\ Goto(m, "remove_meta") /\ UNCHANGED <<pid, last>>
               /\ resident' = [resident EXCEPT ![mgr[m].new].doomed = TRUE]
      <3>1. Live' = Live \ {mgr[m].new}
        BY <2>1, <2>3, DoomedLive
      <3>2. Len(resident') >= Len(resident)
        BY <2>1, <2>3, DoomedType DEF IInv, ResidentType
      <3>3. /\ mgr'[m].step = "remove_meta" /\ mgr'[m].op = mgr[m].op
            /\ \A n \in Managers \ {m} : mgr'[n] = mgr[n]
        BY <2>1, <2>3, <3>2, GotoType
      <3>4. mgr'[m] # Idle
        BY <3>3 DEF Idle
      <3>5. /\ Alone' /\ ~AtRest' /\ (~orphaned => CallOK(m))
            /\ \A n \in Managers \ {m} : CallOK(n)'
        BY <2>1, <3>3, <3>4, OneCall
      <3>6. ~orphaned => CallOK(m)'
        BY <2>1, <2>3, <3>1, <3>3, <3>5 DEF CallOK, Managing
      <3> QED  BY <2>1, <3>5, <3>6 DEF SInv
    <2> QED  BY <1>5, <2>2, <2>3 DEF WritePid
  <1>6. CASE ManagerDies(m)
    <2>1. ~raced /\ orphaned' = TRUE /\ mgr[m] # Idle /\ Return(m) /\ UNCHANGED resident
      BY <1>6 DEF ManagerDies
    <2>2. Len(resident') >= Len(resident)
      BY <2>1 DEF IInv, ResidentType
    <2>3. \A n \in Managers \ {m} : mgr'[n] = mgr[n]
      BY <2>1, <2>2, ReturnType
    <2>4. Alone'
      BY <2>1, <2>3, OneCall
    <2> QED  BY <2>1, <2>4 DEF SInv
  <1> QED  BY <1>1, <1>2, <1>3, <1>4, <1>5, <1>6 DEF Manage

\* A resident's own step starts none and signals none.
LEMMA ResidentSerial ==
    ASSUME IInv, SInv, NEW s \in Residents,
           Serve(s) \/ Open(s) \/ Write(s) \/ WriteFails(s) \/ Die(s)
    PROVE  SInv'
  <1>1. /\ UNCHANGED <<meta, pid, mgr, calls>> /\ Len(resident') = Len(resident)
        /\ resident'[s].doomed = resident[s].doomed
        /\ At(s, "dead") => resident'[s].at = "dead"
        /\ \A t \in Residents : t # s => resident'[t] = resident[t]
    <2>1. CASE Serve(s) \/ WriteFails(s) \/ Die(s)
      BY <2>1, RestingTypes
    <2>2. CASE Open(s)
      BY <2>2, OpenTypes DEF At
    <2>3. CASE Write(s)
      BY <2>3, WriteTypes DEF At, Write
    <2> QED  BY <2>1, <2>2, <2>3
  <1>2. Live' \subseteq Live
    BY <1>1 DEF Live, Residents, Up, At
  <1>3. \A t \in Residents : resident'[t].doomed = resident[t].doomed
    BY <1>1
  <1>4. /\ pid # 0 => pid \in Residents
        /\ \A m \in Managers : Managing(m, "pid") => mgr[m].new \in Residents
    BY DEF Residents, IInv, ManagerType, ResidentType
  <1>5. RestOK => RestOK'
    BY <1>1, <1>2, <1>3, <1>4 DEF RestOK, calls
  <1>6. ASSUME NEW m \in Managers, CallOK(m) PROVE CallOK(m)'
    BY <1>1, <1>2, <1>3, <1>4, <1>6 DEF CallOK, Managing, calls
  <1> QED  BY <1>1, <1>5, <1>6 DEF SInv, Alone, AtRest, calls

LEMMA NextSerial == ASSUME IInv, SInv, [Next]_vars PROVE SInv'
  <1>1. ASSUME NEW m \in Managers, Manage(m) PROVE SInv'
    BY <1>1, ManageSerial
  <1>2. ASSUME NEW s \in Residents, Serve(s) \/ Open(s) \/ Write(s) \/ WriteFails(s) \/ Die(s)
        PROVE  SInv'
    BY <1>2, ResidentSerial
  <1>3. CASE UNCHANGED <<resident, mgr, meta, pid, calls>>
    BY <1>3 DEF SInv, Alone, AtRest, RestOK, CallOK, Managing, Live, Residents, Up, At, calls
  <1>4. CASE On \/ Reader \/ Close
    <2>1. ByReader
      BY <1>4 DEF On, Reader, Close, Look, ReadHead, ReadBody, Call, End
    <2> QED  BY <1>3, <2>1 DEF ByReader, store
  <1>5. CASE UNCHANGED vars
    BY <1>3, <1>5 DEF vars, store
  <1> QED  BY <1>1, <1>2, <1>4, <1>5 DEF Next

\* While managers come one after the other and none dies in a call, no resident
\* of kc_wch_create, kc_wch_set_path or another call runs that the pid file does
\* not name: the call before has stopped what the next one replaces, however
\* either fails, and after kc_wch_delete none runs at all.
THEOREM OneAtATime == Spec => []OneResident
  <1>1. IInv /\ SInv => OneResident
    BY DEF SInv, OneResident, RestOK, Live
  <1>2. Spec => []SInv
    BY Inductive, InitSerial, NextSerial, PTL DEF Spec
  <1> QED  BY <1>1, <1>2, Inductive, PTL

-----------------------------------------------------------------------------
(* The order of the events.  While nothing is blurred a file is what whole    *)
(* records make it, but for its end.                                          *)

\* Every cell is where its record's header says, a header is there once, and only a
\* header comes after a whole record.
Sound(f, sizes) ==
    \A i \in 1..Len(f) :
        /\ f[i].k < i /\ f[i - f[i].k] = Cell(f[i].rec, 0)
        /\ (i < Len(f) /\ f[i].k = sizes[f[i].rec]) => f[i + 1].k = 0
        /\ f[i].k = 0 =>
               /\ \A j \in 0..sizes[f[i].rec] : i + j <= Len(f) => f[i + j] = Cell(f[i].rec, j)
               /\ \A j \in 1..Len(f) : f[j] = f[i] => j = i

Known(f, sizes) ==
    \A i \in 1..Len(f) : f[i].rec \in 1..Len(sizes) /\ f[i].k \in 0..sizes[f[i].rec]

\* A cell is its record and its place there.
LEMMA CellIs ==
    ASSUME NEW r \in Nat, NEW k \in Nat
    PROVE  Cell(r, k) \in Cells /\ Cell(r, k).rec = r /\ Cell(r, k).k = k
  BY DEF Cell, Cells

LEMMA CellOf == ASSUME NEW c \in Cells PROVE c = Cell(c.rec, c.k) /\ c.rec \in Nat /\ c.k \in Nat
  BY DEF Cell, Cells

\* Cells that continue a file leave it sound.
LEMMA Extend ==
    ASSUME NEW f \in Seq(Cells), NEW sizes, \A q \in 1..Len(sizes) : sizes[q] \in Nat,
           Len(sizes) \in Nat, Known(f, sizes), Sound(f, sizes),
           NEW r \in 1..Len(sizes), NEW d \in 0..sizes[r], NEW n \in 1..sizes[r] + 1 - d,
           NEW new \in Seq(Cells), Len(new) = Len(f) + n,
           \A i \in 1..Len(f) : new[i] = f[i],
           \A i \in 1..n : new[Len(f) + i] = Cell(r, d + i - 1),
           f = <<>> => d = 0,
           (f # <<>> /\ f[Len(f)].k = sizes[f[Len(f)].rec]) => d = 0,
           (f # <<>> /\ f[Len(f)].k # sizes[f[Len(f)].rec]) =>
               f[Len(f)].rec = r /\ d = f[Len(f)].k + 1,
           d = 0 => \A i \in 1..Len(f) : f[i].rec # r
    PROVE  Sound(new, sizes)
  <1> DEFINE L == Len(f)
             size == sizes[r]
  <1>1. /\ L \in Nat /\ size \in Nat /\ d \in Nat /\ d <= size /\ n \in Nat /\ n >= 1
        /\ n <= size + 1 - d /\ r \in Nat
    OBVIOUS
  <1>2. \A i \in 1..L : f[i] \in Cells /\ f[i].rec \in Nat /\ f[i].k \in Nat
    BY ElementOfSeq, CellOf
  <1>3. L > 0 => f # <<>> /\ L \in 1..L
    BY <1>1, EmptySeq
  <1>4. L = 0 => f = <<>>
    OBVIOUS
  \* Where the record starts.
  <1> DEFINE h == L - d + 1
  <1>5. h \in Nat /\ h >= 1 /\ h <= L + 1
    <2>1. CASE d = 0
      BY <1>1, <2>1
    <2>2. CASE d # 0
      <3>1. L # 0
        BY <1>4, <2>2
      <3>2. L \in 1..L /\ d = f[L].k + 1
        BY <1>1, <1>3, <2>2, <3>1
      <3>3. f[L].k < L
        BY <3>2 DEF Sound
      <3> DEFINE k == f[L].k
      <3>4. k \in Nat /\ d = k + 1 /\ k < L
        BY <1>2, <3>2, <3>3
      <3> HIDE DEF k, L
      <3> QED  BY <1>1, <3>4
    <2> QED  BY <2>1, <2>2
  <1>6. new[h] = Cell(r, 0)
    <2>1. CASE d = 0
      <3>1. 1 \in 1..n /\ h = L + 1 /\ d + 1 - 1 = 0
        BY <1>1, <2>1
      <3> QED  BY <3>1
    <2>2. CASE d # 0
      <3>1. L # 0
        BY <1>4, <2>2
      <3>2. L \in 1..L /\ d = f[L].k + 1 /\ f[L].rec = r
        BY <1>1, <1>3, <2>2, <3>1
      <3>3. f[L - f[L].k] = Cell(r, 0)
        BY <3>2 DEF Sound
      <3>4. h = L - f[L].k /\ h \in 1..L
        <4> DEFINE k == f[L].k
        <4>1. k \in Nat /\ d = k + 1
          BY <1>2, <3>2
        <4> HIDE DEF k, L
        <4>2. h = L - k /\ h \in 1..L
          BY <1>1, <1>5, <4>1
        <4> QED  BY <4>2 DEF k
      <3> QED  BY <3>3, <3>4
    <2> QED  BY <2>1, <2>2
  <1>7. \A p \in L + 1..L + n : new[p] = Cell(r, p - h) /\ p - h \in Nat
    <2> TAKE p \in L + 1..L + n
    <2> DEFINE i == p - L
    <2>1. i \in 1..n /\ p = L + i /\ d + i - 1 = p - h /\ p - h \in Nat
      BY <1>1
    <2> QED  BY <2>1
  <1>8. \A p \in L + 1..L + n : new[p].rec = r /\ new[p].k = p - h
    <2> TAKE p \in L + 1..L + n
    <2> DEFINE k == p - h
    <2>1. k \in Nat /\ new[p] = Cell(r, k)
      BY <1>7
    <2> HIDE DEF k
    <2>2. new[p].rec = r /\ new[p].k = k
      BY <1>1, <2>1, CellIs
    <2> QED  BY <2>2 DEF k
  <1>9. Len(new) = L + n
    OBVIOUS
  <1>10. d # 0 => L \in 1..L /\ f[L].rec = r /\ f[L].k = d - 1 /\ d - 1 # size /\ sizes[f[L].rec] = size
    <2> SUFFICES ASSUME d # 0
                 PROVE  L \in 1..L /\ f[L].rec = r /\ f[L].k = d - 1 /\ d - 1 # size /\ sizes[f[L].rec] = size
      OBVIOUS
    <2>1. L # 0
      BY <1>4
    <2>2. L \in 1..L /\ d = f[L].k + 1 /\ f[L].rec = r
      BY <1>1, <1>3, <2>1
    <2>3. f[L].k \in Nat
      BY <1>2, <2>2
    <2>4. f[L].k = d - 1 /\ d - 1 # size
      <3> DEFINE k == f[L].k
      <3>1. k \in Nat /\ d = k + 1
        BY <2>2, <2>3
      <3> HIDE DEF k, size
      <3>2. k = d - 1 /\ d - 1 # size
        BY <1>1, <3>1
      <3> QED  BY <3>2 DEF k
    <2> QED  BY <2>2, <2>4
  <1>11. (d = 0 /\ L # 0) => L \in 1..L /\ f[L].k = sizes[f[L].rec]
    <2> SUFFICES ASSUME d = 0, L # 0 PROVE L \in 1..L /\ f[L].k = sizes[f[L].rec]
      OBVIOUS
    <2>1. L \in 1..L /\ f # <<>>
      BY <1>1, <1>3
    <2>2. f[L].k + 1 # 0
      BY <1>2, <2>1
    <2> QED  BY <2>1, <2>2
  <1>12. \A i \in 1..L : /\ f[i].k < i /\ f[i - f[i].k] = Cell(f[i].rec, 0)
                         /\ (i < L /\ f[i].k = sizes[f[i].rec]) => f[i + 1].k = 0
                         /\ f[i].k = 0 =>
                              /\ \A j \in 0..sizes[f[i].rec] : i + j <= L => f[i + j] = Cell(f[i].rec, j)
                              /\ \A j \in 1..L : f[j] = f[i] => j = i
                         /\ f[i].rec \in 1..Len(sizes) /\ sizes[f[i].rec] \in Nat
                         /\ f[i].k <= sizes[f[i].rec]
    <2> TAKE i \in 1..L
    <2>1. /\ f[i].k < i /\ f[i - f[i].k] = Cell(f[i].rec, 0)
          /\ (i < L /\ f[i].k = sizes[f[i].rec]) => f[i + 1].k = 0
          /\ f[i].k = 0 =>
               /\ \A j \in 0..sizes[f[i].rec] : i + j <= L => f[i + j] = Cell(f[i].rec, j)
               /\ \A j \in 1..L : f[j] = f[i] => j = i
      BY DEF Sound
    <2>2. f[i].rec \in 1..Len(sizes) /\ f[i].k \in 0..sizes[f[i].rec]
      BY DEF Known
    <2>3. sizes[f[i].rec] \in Nat
      BY <2>2
    <2>4. f[i].k <= sizes[f[i].rec]
      <3> DEFINE m == sizes[f[i].rec]
                 k == f[i].k
      <3>1. m \in Nat /\ k \in 0..m
        BY <2>2, <2>3
      <3> HIDE DEF m, k
      <3>2. k <= m
        BY <3>1
      <3> QED  BY <3>2 DEF m, k
    <2> QED  BY <2>1, <2>2, <2>3, <2>4
  <1>13. \A i \in 1..L : new[i] = f[i]
    OBVIOUS
  <1>14. d = 0 => \A i \in 1..L : f[i].rec # r
    OBVIOUS
  <1> HIDE DEF L, size, h
  <1>15. ASSUME NEW i \in 1..Len(new), i <= L
         PROVE  /\ new[i].k < i /\ new[i - new[i].k] = Cell(new[i].rec, 0)
                /\ (i < Len(new) /\ new[i].k = sizes[new[i].rec]) => new[i + 1].k = 0
                /\ new[i].k = 0 =>
                    /\ \A j \in 0..sizes[new[i].rec] : i + j <= Len(new) => new[i + j] = Cell(new[i].rec, j)
                    /\ \A j \in 1..Len(new) : new[j] = new[i] => j = i
    <2>1. i \in 1..L /\ new[i] = f[i] /\ i \in Nat
      BY <1>1, <1>13, <1>15
    <2>2. new[i].k < i /\ new[i - new[i].k] = Cell(new[i].rec, 0)
      <3>1. f[i].k < i /\ f[i].k \in Nat /\ f[i - f[i].k] = Cell(f[i].rec, 0)
        BY <1>2, <1>12, <2>1
      <3>2. i - f[i].k \in 1..L
        <4> DEFINE k == f[i].k
        <4>1. k \in Nat /\ k < i
          BY <3>1
        <4> HIDE DEF k
        <4>2. i - k \in 1..L
          BY <1>1, <2>1, <4>1
        <4> QED  BY <4>2 DEF k
      <3> QED  BY <1>13, <2>1, <3>1, <3>2
    <2>3. ASSUME i < Len(new), f[i].k = sizes[f[i].rec] PROVE new[i + 1].k = 0
      <3>1. CASE i < L
        <4>1. i + 1 \in 1..L
          BY <1>1, <2>1, <3>1
        <4> QED  BY <1>12, <1>13, <2>1, <2>3, <3>1, <4>1
      <3>2. CASE i = L
        <4>1. d = 0
          BY <1>10, <2>1, <2>3, <3>2
        <4>2. i + 1 \in L + 1..L + n /\ (i + 1) - h = 0
          BY <1>1, <2>1, <3>2, <4>1 DEF h
        <4> DEFINE p == i + 1
        <4>3. new[p].k = p - h
          BY <1>8, <4>2
        <4>4. p - h = 0
          BY <4>2
        <4> QED  BY <4>3, <4>4
      <3> QED  BY <1>1, <1>15, <2>1, <3>1, <3>2
    <2>4. ASSUME f[i].k = 0, NEW j \in 0..sizes[f[i].rec], i + j <= Len(new)
          PROVE  new[i + j] = Cell(f[i].rec, j)
      <3>1. j \in Nat /\ j <= sizes[f[i].rec] /\ sizes[f[i].rec] \in Nat
        BY <1>12, <2>1
      <3>2. CASE i + j <= L
        <4>1. i + j \in 1..L
          <5>1. i \in Nat /\ i >= 1 /\ j \in Nat /\ L \in Nat
            BY <1>1, <2>1, <3>1
          <5> QED  BY <3>2, <5>1
        <4>2. f[i + j] = Cell(f[i].rec, j)
          BY <1>12, <2>1, <2>4, <3>2
        <4>3. new[i + j] = f[i + j]
          BY <1>13, <4>1
        <4> QED  BY <4>2, <4>3
      <3>3. CASE ~(i + j <= L)
        <4> DEFINE e == L - i
        <4>1. e \in 0..sizes[f[i].rec] /\ i + e = L /\ e < j /\ e \in Nat
          BY <1>1, <2>1, <3>1, <3>3
        <4>2. i + e <= L
          BY <1>1, <4>1
        <4>3. f[i + e] = Cell(f[i].rec, e)
          BY <1>12, <2>1, <2>4, <4>1, <4>2
        <4>4. f[L].k = e /\ f[L].rec = f[i].rec
          <5>1. f[L] = Cell(f[i].rec, e) /\ f[i].rec \in Nat
            BY <1>2, <2>1, <4>1, <4>3
          <5>2. e \in Nat
            BY <4>1
          <5> DEFINE q == f[i].rec
          <5> HIDE DEF e, q
          <5>3. Cell(q, e).rec = q /\ Cell(q, e).k = e
            BY <5>1, <5>2, CellIs DEF q
          <5> QED  BY <5>1, <5>3 DEF q
        <4>5. f[L].k # sizes[f[L].rec] /\ L # 0
          BY <1>1, <2>1, <3>1, <4>1, <4>4
        <4>6. d # 0 /\ f[i].rec = r /\ e = d - 1
          BY <1>10, <1>11, <4>4, <4>5
        <4>7. i = h
          BY <1>1, <2>1, <4>1, <4>6 DEF h
        <4>8. i + j \in L + 1..L + n /\ (i + j) - h = j
          BY <1>1, <1>5, <1>9, <2>1, <2>4, <3>1, <3>3, <4>7
        <4> DEFINE p == i + j
        <4>9. new[p] = Cell(r, p - h)
          BY <1>7, <4>8
        <4>10. p - h = j
          BY <4>8
        <4> HIDE DEF p
        <4>11. new[p] = Cell(f[i].rec, j)
          BY <4>6, <4>9, <4>10
        <4> QED  BY <4>11 DEF p
      <3> QED  BY <3>2, <3>3
    <2>5. ASSUME f[i].k = 0, NEW j \in 1..Len(new), new[j] = f[i] PROVE j = i
      <3>1. CASE j \in 1..L
        BY <1>12, <1>13, <2>1, <2>5, <3>1
      <3>2. CASE ~(j \in 1..L)
        <4>1. j \in L + 1..L + n
          BY <1>1, <1>9, <3>2
        <4>2. f[i].rec = r /\ j - h = 0
          BY <1>8, <2>5, <4>1
        <4>3. d = 0
          BY <1>1, <1>5, <4>1, <4>2 DEF h
        <4> QED  BY <1>14, <2>1, <4>2, <4>3
      <3> QED  BY <3>1, <3>2
    <2> QED  BY <2>1, <2>2, <2>3, <2>4, <2>5
  <1>16. ASSUME NEW i \in 1..Len(new), ~(i <= L)
         PROVE  /\ new[i].k < i /\ new[i - new[i].k] = Cell(new[i].rec, 0)
                /\ (i < Len(new) /\ new[i].k = sizes[new[i].rec]) => new[i + 1].k = 0
                /\ new[i].k = 0 =>
                    /\ \A j \in 0..sizes[new[i].rec] : i + j <= Len(new) => new[i + j] = Cell(new[i].rec, j)
                    /\ \A j \in 1..Len(new) : new[j] = new[i] => j = i
    <2>1. /\ i \in L + 1..L + n /\ i \in Nat /\ new[i].rec = r /\ new[i].k = i - h
          /\ new[i] = Cell(r, i - h)
      <3>1. i \in L + 1..L + n /\ i \in Nat
        BY <1>1, <1>9, <1>16
      <3> QED  BY <1>7, <1>8, <3>1
    <2>2. new[i].k < i /\ i - new[i].k = h
      BY <1>1, <1>5, <2>1
    <2>3. ~(i < Len(new) /\ new[i].k = size)
      BY <1>1, <1>5, <1>9, <2>1 DEF h
    <2>4. ASSUME i - h = 0 PROVE i = h /\ d = 0 /\ h = L + 1
      BY <1>1, <1>5, <2>1, <2>4 DEF h
    <2>5. ASSUME i - h = 0, NEW j \in 0..size, i + j <= Len(new) PROVE new[i + j] = Cell(r, j)
      <3>1. i + j \in L + 1..L + n /\ (i + j) - h = j
        BY <1>1, <1>9, <2>1, <2>4, <2>5
      <3> DEFINE p == i + j
      <3>2. new[p] = Cell(r, p - h)
        BY <1>7, <3>1
      <3>3. p - h = j
        BY <3>1
      <3> HIDE DEF p
      <3>4. new[p] = Cell(r, j)
        BY <3>2, <3>3
      <3> QED  BY <3>4 DEF p
    <2>6. ASSUME i - h = 0, NEW j \in 1..Len(new), new[j] = new[i] PROVE j = i
      <3>1. CASE j \in 1..L
        BY <1>13, <1>14, <2>1, <2>4, <2>6, <3>1
      <3>2. CASE ~(j \in 1..L)
        <4>1. j \in L + 1..L + n
          BY <1>1, <1>9, <3>2
        <4>2. j - h = i - h
          BY <1>8, <2>1, <2>6, <4>1
        <4> QED  BY <1>1, <1>5, <2>1, <4>1, <4>2
      <3> QED  BY <3>1, <3>2
    <2> QED  BY <1>6, <2>1, <2>2, <2>3, <2>5, <2>6 DEF size
  <1> QED  BY <1>15, <1>16 DEF Sound

FilesSound == \A n \in 1..Len(files) : Sound(files[n], records)

\* No cell of record r is anywhere yet.
Unbegun(r) ==
    /\ \A n \in 1..Len(files) : \A i \in 1..Len(files[n]) : files[n][i].rec # r
    /\ \A i \in 1..Len(got) : got[i][1].rec # r
    /\ reader.at \in {"body", "call"} => reader.head.rec # r

\* A record is one resident's.
Owned(s) ==
    At(s, "writing") =>
        /\ resident[s].done = 0 => Unbegun(resident[s].rec)
        /\ \A t \in Residents : (At(t, "writing") /\ resident[t].rec = resident[s].rec) => t = s

\* The reader is between two records of the file, unless the file was emptied
\* behind it and is shorter still.
OffOK == Reading("off") => reader.off = 0 /\ ~unseen /\ got = <<>>

UnseenOK == unseen =>
    /\ Len(Content) < reader.off /\ base = 0 /\ ~Reading("body")
    /\ Reading("call") => \A p \in 1..Len(Content) : Content[p] # reader.head

PlaceOK == ~unseen =>
    /\ reader.off <= Len(Content)
    /\ reader.off # 0 => LastOf(Content[reader.off])

\* The header that has been read, and the event.
BodyOK == Reading("body") =>
    /\ reader.fd = name /\ reader.off < Len(Content)
    /\ reader.head = Content[reader.off + 1]
    /\ reader.head.k = 0 /\ reader.path = records[reader.head.rec]

EventOK == Reading("call") =>
    /\ reader.head.rec \in 1..Len(records) /\ reader.path = records[reader.head.rec]
    /\ <<reader.head>> \o reader.body = Record(reader.head.rec)
    /\ reader.off > reader.path
    /\ ~unseen => Content[reader.off - reader.path] = reader.head

ReaderOK == OffOK /\ UnseenOK /\ PlaceOK /\ BodyOK /\ EventOK

\* How far into the file the handler has been told.
ToldTo == IF unseen THEN 0
          ELSE IF Reading("call") THEN reader.off - reader.path - 1 ELSE reader.off

\* It was told the records that start in the file behind base and before ToldTo.
AllWhole == \A i \in 1..Len(got) : got[i][1].rec \in 1..Len(records) /\ Whole(got[i])

ToldThese == \A p \in 1..Len(Content) : Content[p].k = 0 =>
    ((\E i \in 1..Len(got) : got[i][1] = Content[p]) <=> (base < p /\ p <= ToldTo))

InOrder == \A i, j \in 1..Len(got) : i < j =>
    \A p, q \in 1..Len(Content) : (Content[p] = got[i][1] /\ Content[q] = got[j][1]) => p < q

ToldOK == base <= ToldTo /\ AllWhole /\ ToldThese /\ InOrder

OInv == ~blurred => FilesSound /\ (\A s \in Residents : Owned(s)) /\ ReaderOK /\ ToldOK

LEMMA InitOrder == Init => OInv
  <1> SUFFICES ASSUME Init PROVE OInv
    OBVIOUS
  <1>1. FilesSound /\ \A s \in Residents : Owned(s)
    BY EmptySeq DEF Init, FilesSound, Residents
  <1>2. Len(Content) = 0 /\ Content = <<>> /\ Len(got) = 0
    BY EmptySeq DEF Init, Content
  <1>3. ReaderOK
    BY <1>2 DEF Init, ReaderOK, OffOK, UnseenOK, PlaceOK, BodyOK, EventOK, Reading
  <1>4. ToldOK
    BY <1>2 DEF Init, ToldOK, AllWhole, ToldThese, InOrder, ToldTo, Reading
  <1> QED  BY <1>1, <1>3, <1>4 DEF OInv

LEMMA ContentIs ==
    ASSUME IInv
    PROVE  /\ Content \in Seq(Cells) /\ Len(Content) \in Nat /\ Known(Content, records)
           /\ FilesSound => Sound(Content, records)
           /\ \A p \in 1..Len(Content) :
                /\ Content[p] \in Cells /\ Content[p].k \in Nat /\ Content[p].rec \in Nat
                /\ Content[p].rec \in 1..Len(records) /\ records[Content[p].rec] \in Nat
  <1>1. Content \in Seq(Cells) /\ Len(Content) \in Nat
    BY ContentType DEF IInv
  <1>2. Known(Content, records) /\ (FilesSound => Sound(Content, records))
    <2>1. CASE name = 0
      BY <2>1, EmptySeq DEF Content, Known, Sound
    <2>2. CASE name # 0
      <3>1. name \in 1..Len(files) /\ Content = files[name]
        BY <2>2 DEF IInv, StoreType, Content
      <3> QED  BY <3>1 DEF IInv, CellType, Recorded, Known, FilesSound
    <2> QED  BY <2>1, <2>2
  <1>3. ASSUME NEW p \in 1..Len(Content)
        PROVE  /\ Content[p] \in Cells /\ Content[p].k \in Nat /\ Content[p].rec \in Nat
               /\ Content[p].rec \in 1..Len(records) /\ records[Content[p].rec] \in Nat
    <2>1. Content[p] \in Cells
      BY <1>1, ElementOfSeq
    <2>2. Content[p].rec \in 1..Len(records)
      BY <1>2 DEF Known
    <2>3. records[Content[p].rec] \in Nat
      BY <2>2, RecordProps DEF IInv
    <2> QED  BY <2>1, <2>2, <2>3, CellOf
  <1> QED  BY <1>1, <1>2, <1>3

\* A whole event starts with the header of its record.
LEMMA WholeHead ==
    ASSUME IInv, NEW e, e[1].rec \in 1..Len(records), Whole(e)
    PROVE  e[1] = Cell(e[1].rec, 0) /\ e[1].k = 0
  <1> DEFINE r == e[1].rec
  <1>1. e = Record(r)
    BY DEF Whole
  <1>2. r \in 1..Len(records)
    OBVIOUS
  <1> HIDE DEF r
  <1>3. 1 \in 1..records[r] + 1 /\ Record(r)[1] = Cell(r, 1 - 1)
    BY <1>2, RecordProps DEF IInv
  <1>4. Record(r)[1] = Cell(r, 0) /\ Cell(r, 0).k = 0
    BY <1>2, <1>3, CellIs
  <1> QED  BY <1>1, <1>4 DEF r

\* What files hold stays sound while records are added.
LEMMA GrowSound ==
    ASSUME IInv, Kept, NEW n \in 1..Len(files), Sound(files[n], records)
    PROVE  Sound(files[n], records')
  <1>1. \A i \in 1..Len(files[n]) : /\ files[n][i].rec \in 1..Len(records)
                                    /\ records'[files[n][i].rec] = records[files[n][i].rec]
    BY DEF IInv, CellType, Recorded, Kept
  <1> QED  BY <1>1 DEF Sound

\* Files that are emptied or left alone, and new ones, are sound.
LEMMA StaySound ==
    ASSUME IInv, Kept, FilesSound,
           \A n \in 1..Len(files') :
               files'[n] = <<>> \/ (n \in 1..Len(files) /\ files'[n] = files[n])
    PROVE  FilesSound'
  <1> SUFFICES ASSUME NEW n \in 1..Len(files') PROVE Sound(files'[n], records')
    BY DEF FilesSound
  <1>1. CASE files'[n] = <<>>
    BY <1>1, EmptySeq DEF Sound
  <1>2. CASE n \in 1..Len(files) /\ files'[n] = files[n]
    BY <1>2, GrowSound DEF FilesSound
  <1> QED  BY <1>1, <1>2

\* Nor does anyone take up a record meanwhile.
LEMMA StayOwned ==
    ASSUME IInv, \A s \in Residents : Owned(s), UNCHANGED reading,
           \A n \in 1..Len(files') :
               files'[n] = <<>> \/ (n \in 1..Len(files) /\ files'[n] = files[n]),
           \A s \in Residents' : resident'[s].at = "writing" =>
               /\ s \in Residents /\ resident[s].at = "writing"
               /\ resident'[s].rec = resident[s].rec /\ resident'[s].done = resident[s].done
    PROVE  \A s \in Residents' : Owned(s)'
  <1> SUFFICES ASSUME NEW s \in Residents' PROVE Owned(s)'
    OBVIOUS
  <1> SUFFICES ASSUME resident'[s].at = "writing" PROVE Owned(s)'
    BY DEF Owned, At
  <1>1. /\ s \in Residents /\ At(s, "writing") /\ Owned(s)
        /\ resident'[s].rec = resident[s].rec /\ resident'[s].done = resident[s].done
    BY DEF At
  <1>2. ASSUME resident'[s].done = 0 PROVE Unbegun(resident[s].rec)'
    <2>1. Unbegun(resident[s].rec)
      BY <1>1, <1>2 DEF Owned
    <2> QED  BY <1>1, <2>1, EmptySeq DEF Unbegun, reading
  <1>3. ASSUME NEW t \in Residents', resident'[t].at = "writing", resident'[t].rec = resident'[s].rec
        PROVE  t = s
    <2>1. /\ t \in Residents /\ At(t, "writing")
          /\ resident[t].rec = resident[s].rec
      BY <1>1, <1>3 DEF At
    <2> QED  BY <1>1, <2>1 DEF Owned
  <1> QED  BY <1>2, <1>3 DEF Owned, At, Unbegun

\* A step that leaves the file and the reader alone.
LEMMA StayTold ==
    ASSUME IInv, Kept, ReaderOK, ToldOK, UNCHANGED <<reading, base, unseen>>,
           Content' = Content, name # 0 => name' = name, Len(records') \in Nat
    PROVE  ReaderOK' /\ ToldOK'
  <1>1. \A r \in 1..Len(records) : r \in 1..Len(records') /\ records'[r] = records[r]
    BY DEF Kept, IInv, StoreType
  <1>2. \A r \in 1..Len(records) : Record(r)' = Record(r)
    BY <1>1 DEF Record
  <1>3. \A p \in 1..Len(Content) : LastOf(Content[p])' <=> LastOf(Content[p])
    BY <1>1, ContentIs DEF LastOf
  <1>4. reader.off \in Nat /\ Len(Content) \in Nat
    BY ReaderIs, ContentIs
  <1>5. Reading("body") => /\ name # 0
                           /\ reader.head.rec \in 1..Len(records)
    <2> SUFFICES ASSUME Reading("body") PROVE name # 0 /\ reader.head.rec \in 1..Len(records)
      OBVIOUS
    <2>1. reader.off + 1 \in 1..Len(Content) /\ reader.head = Content[reader.off + 1]
      BY <1>4 DEF ReaderOK, BodyOK
    <2> QED  BY <2>1, ContentIs, EmptySeq DEF Content
  <1>6. OffOK' /\ UnseenOK'
    BY DEF ReaderOK, OffOK, UnseenOK, reading, Reading
  <1>7. PlaceOK'
    <2> SUFFICES ASSUME ~unseen
                 PROVE  reader.off <= Len(Content) /\ (reader.off # 0 => LastOf(Content[reader.off])')
      BY DEF PlaceOK, reading, LastOf
    <2>1. reader.off <= Len(Content) /\ (reader.off # 0 => LastOf(Content[reader.off]))
      BY DEF ReaderOK, PlaceOK
    <2>2. reader.off # 0 => reader.off \in 1..Len(Content)
      BY <1>4, <2>1
    <2>3. reader.off # 0 => LastOf(Content[reader.off])'
      BY <1>1, <2>1, <2>2, ContentIs DEF LastOf, reading
    <2> QED  BY <2>1, <2>3
  <1>8. BodyOK'
    BY <1>1, <1>5 DEF ReaderOK, BodyOK, reading, Reading
  <1>9. EventOK'
    BY <1>1 DEF ReaderOK, EventOK, reading, Reading, Record
  <1>10. ToldTo' = ToldTo
    BY DEF ToldTo, reading, Reading
  <1>11. AllWhole'
    <2> SUFFICES ASSUME NEW i \in 1..Len(got)
                 PROVE  got[i][1].rec \in 1..Len(records') /\ Whole(got[i])'
      BY DEF AllWhole, Whole, reading
    <2>1. got[i][1].rec \in 1..Len(records) /\ Whole(got[i])
      BY DEF ToldOK, AllWhole
    <2>2. records'[got[i][1].rec] = records[got[i][1].rec] /\ got' = got
      BY <1>1, <2>1 DEF reading
    <2> QED  BY <1>1, <2>1, <2>2 DEF Whole, Record
  <1>12. ToldThese' /\ InOrder'
    BY <1>10 DEF ToldOK, ToldThese, InOrder, reading
  <1> QED  BY <1>6, <1>7, <1>8, <1>9, <1>10, <1>11, <1>12 DEF ReaderOK, ToldOK

\* The file is emptied, or a new one takes its name.
LEMMA EmptiedTold ==
    ASSUME IInv, ReaderOK, ToldOK, UNCHANGED <<reading, records>>,
           Content' = <<>>, Emptied, ~blurred'
    PROVE  ReaderOK' /\ ToldOK'
  <1>1. Len(Content') = 0
    BY EmptySeq
  <1>2. ~Reading("body") /\ base' = 0 /\ (unseen' <=> (unseen \/ reader.off > 0))
    BY DEF Emptied, Reading
  <1>3. reader.off \in Nat /\ reader.path \in Nat /\ Len(Content) \in Nat
    BY ReaderIs, ContentIs
  <1>4. unseen => 0 < reader.off
    BY <1>3 DEF ReaderOK, UnseenOK
  <1>5. unseen' <=> 0 < reader.off
    BY <1>2, <1>3, <1>4
  <1>6. Reading("call") => unseen'
    BY <1>3, <1>5 DEF ReaderOK, EventOK
  <1>7. ReaderOK'
    <2>1. OffOK'
      BY <1>3, <1>5 DEF ReaderOK, OffOK, reading, Reading
    <2>2. UnseenOK'
      BY <1>1, <1>2, <1>5 DEF UnseenOK, reading, Reading
    <2>3. PlaceOK'
      BY <1>1, <1>3, <1>5 DEF PlaceOK, reading
    <2>4. BodyOK'
      BY <1>2 DEF BodyOK, reading, Reading
    <2>5. EventOK'
      BY <1>6 DEF ReaderOK, EventOK, reading, Reading, Record
    <2> QED  BY <2>1, <2>2, <2>3, <2>4, <2>5 DEF ReaderOK
  <1>8. ToldTo' = 0
    <2>1. CASE unseen'
      BY <2>1 DEF ToldTo
    <2>2. CASE ~unseen'
      <3>1. reader.off = 0 /\ ~Reading("call")
        BY <1>3, <1>5, <1>6, <2>2
      <3> QED  BY <2>2, <3>1 DEF ToldTo, reading, Reading
    <2> QED  BY <2>1, <2>2
  <1>9. AllWhole'
    BY DEF ToldOK, AllWhole, Whole, Record, reading
  <1>10. ToldThese' /\ InOrder'
    BY <1>1 DEF ToldThese, InOrder
  <1> QED  BY <1>2, <1>7, <1>8, <1>9, <1>10 DEF ToldOK

\* What a manager's step does to the files, to those who write and to the reader.
LEMMA ManageEffect ==
    ASSUME IInv, NEW m \in Managers, Manage(m)
    PROVE  /\ UNCHANGED <<reading, records>> /\ Kept
           /\ \A n \in 1..Len(files') :
                  files'[n] = <<>> \/ (n \in 1..Len(files) /\ files'[n] = files[n])
           /\ \A s \in Residents' : resident'[s].at = "writing" =>
                  /\ s \in Residents /\ resident[s].at = "writing"
                  /\ resident'[s].rec = resident[s].rec /\ resident'[s].done = resident[s].done
           /\ \/ Content' = Content /\ UNCHANGED order /\ (name # 0 => name' = name)
              \/ Content' = <<>> /\ Emptied
  <1> DEFINE Files == \A n \in 1..Len(files') :
                 files'[n] = <<>> \/ (n \in 1..Len(files) /\ files'[n] = files[n])
             Writers == \A s \in Residents' : resident'[s].at = "writing" =>
                 /\ s \in Residents /\ resident[s].at = "writing"
                 /\ resident'[s].rec = resident[s].rec /\ resident'[s].done = resident[s].done
             Seen == \/ Content' = Content /\ UNCHANGED order /\ (name # 0 => name' = name)
                     \/ Content' = <<>> /\ Emptied
             Goal == UNCHANGED <<reading, records>> /\ Kept /\ Files /\ Writers /\ Seen
  <1> SUFFICES Goal
    OBVIOUS
  <1>1. UNCHANGED <<files, records>> => Kept /\ Files
    BY DEF Kept, IInv, StoreType
  <1>2. UNCHANGED resident => Writers
    BY DEF Residents
  <1>3. UNCHANGED <<files, name>> => Content' = Content
    BY DEF Content
  <1>4. ASSUME NEW s \in Residents, resident' = [resident EXCEPT ![s].doomed = TRUE] PROVE Writers
    BY <1>4, DoomedType DEF Residents
  <1>5. CASE (\E op \in {"updates", "deletes"} : Begin(m, op)) \/ Register(m) \/ RemoveMeta(m)
    <2>1. UNCHANGED <<files, name, resident, records, reading, order>>
      BY <1>5 DEF Begin, Register, RemoveMeta, ByManager, store
    <2> QED  BY <1>1, <1>2, <1>3, <2>1
  <1>6. CASE ManagerDies(m)
    <2>1. UNCHANGED <<files, name, resident, records, reading, order>>
      BY <1>6 DEF ManagerDies
    <2> QED  BY <1>1, <1>2, <1>3, <2>1
  <1>7. CASE Stop(m) \/ WritePid(m)
    <2>1. UNCHANGED <<files, name, records, reading, order>>
      BY <1>7 DEF Stop, WritePid, ByManager, store
    <2>2. Writers
      <3>1. CASE UNCHANGED resident
        BY <1>2, <3>1
      <3>2. CASE ~UNCHANGED resident
        <4>1. CASE Stop(m)
          <5>1. pid # 0 /\ pid \in Residents /\ resident' = [resident EXCEPT ![pid].doomed = TRUE]
            BY <3>2, <4>1 DEF Stop, Residents, IInv, ResidentType
          <5> HIDE DEF Writers
          <5> QED  BY <1>4, <5>1
        <4>2. CASE WritePid(m)
          <5>1. /\ mgr[m].new \in Residents
                /\ resident' = [resident EXCEPT ![mgr[m].new].doomed = TRUE]
            BY <3>2, <4>2 DEF WritePid, Residents, IInv, ResidentType, ManagerType
          <5> HIDE DEF Writers
          <5> QED  BY <1>4, <5>1
        <4> QED  BY <1>7, <4>1, <4>2
      <3> QED  BY <3>1, <3>2
    <2> QED  BY <1>1, <1>3, <2>1, <2>2
  <1>8. CASE Fork(m)
    <2>1. UNCHANGED <<files, name, records, reading, order>>
      BY <1>8 DEF Fork, ByManager, store
    <2>2. Writers
      <3>1. CASE UNCHANGED resident
        BY <1>2, <3>1
      <3>2. CASE ~UNCHANGED resident
        <4> DEFINE new == [at |-> "starting", doomed |-> FALSE, fd |-> 0, rec |-> 0, done |-> 0]
        <4>1. resident' = Append(resident, new)
          BY <1>8, <3>2 DEF Fork
        <4>2. new \in ResidentState /\ resident \in Seq(ResidentState) /\ Len(resident) \in Nat
          BY DEF ResidentState, IInv, ResidentType
        <4>3. /\ Len(resident') = Len(resident) + 1
              /\ \A s \in Residents : resident'[s] = resident[s]
              /\ resident'[Len(resident) + 1] = new
          BY <4>1, <4>2, AppendProperties DEF Residents
        <4> QED  BY <4>2, <4>3 DEF Residents
      <3> QED  BY <3>1, <3>2
    <2> QED  BY <1>1, <1>3, <2>1, <2>2
  <1>9. CASE Reset(m)
    <2>1. UNCHANGED <<resident, records, reading>>
      BY <1>9 DEF Reset, ByManager
    <2>2. CASE UNCHANGED <<files, name, order>>
      BY <1>1, <1>2, <1>3, <2>1, <2>2
    <2>3. CASE ~UNCHANGED <<files, name, order>>
      <3>1. /\ IF name = 0 THEN files' = Append(files, <<>>) /\ name' = Len(files) + 1
               ELSE files' = [files EXCEPT ![name] = <<>>] /\ UNCHANGED name
            /\ Emptied
        BY <1>9, <2>3 DEF Reset
      <3>2. /\ Kept /\ name' # 0 /\ files'[name'] = <<>>
        BY <2>1, <3>1, ResetStore
      <3>3. Content' = <<>>
        BY <3>2 DEF Content
      <3>4. Files
        <4>1. CASE name = 0
          <5>1. /\ Len(files') = Len(files) + 1
                /\ \A n \in 1..Len(files) : files'[n] = files[n]
                /\ files'[Len(files) + 1] = <<>> /\ Len(files) \in Nat
            BY <3>1, <4>1, NewFile DEF IInv, StoreType
          <5> QED  BY <5>1
        <4>2. CASE name # 0
          BY <3>1, <4>2, EmptyFile
        <4> QED  BY <4>1, <4>2
      <3> QED  BY <1>2, <2>1, <3>1, <3>2, <3>3, <3>4
    <2> QED  BY <2>2, <2>3
  <1>10. CASE RemoveEvents(m)
    <2>1. UNCHANGED <<files, resident, records, reading>> /\ name' = 0
      BY <1>10 DEF RemoveEvents, ByManager
    <2>2. Seen
      BY <1>10, <2>1 DEF RemoveEvents, Content
    <2> QED  BY <1>1, <1>2, <2>1, <2>2
  <1> HIDE DEF Goal
  <1> QED  BY <1>5, <1>6, <1>7, <1>8, <1>9, <1>10 DEF Manage

LEMMA ManageOrder == ASSUME IInv, OInv, NEW m \in Managers, Manage(m) PROVE OInv'
  <1> SUFFICES ASSUME ~blurred' PROVE OInv'
    BY DEF OInv
  <1>1. /\ UNCHANGED <<reading, records>> /\ Kept
        /\ \A n \in 1..Len(files') :
               files'[n] = <<>> \/ (n \in 1..Len(files) /\ files'[n] = files[n])
        /\ \A s \in Residents' : resident'[s].at = "writing" =>
               /\ s \in Residents /\ resident[s].at = "writing"
               /\ resident'[s].rec = resident[s].rec /\ resident'[s].done = resident[s].done
        /\ \/ Content' = Content /\ UNCHANGED order /\ (name # 0 => name' = name)
           \/ Content' = <<>> /\ Emptied
    BY ManageEffect
  <1>2. ~blurred
    BY <1>1 DEF order, Emptied
  <1>3. FilesSound' /\ \A s \in Residents' : Owned(s)'
    BY <1>1, <1>2, StaySound, StayOwned DEF OInv
  <1>4. ReaderOK' /\ ToldOK'
    <2>1. CASE Content' = Content /\ UNCHANGED order /\ (name # 0 => name' = name)
      <3>1. Len(records') \in Nat
        BY <1>1 DEF IInv, StoreType
      <3> QED  BY <1>1, <1>2, <2>1, <3>1, StayTold DEF OInv, order
    <2>2. CASE Content' = <<>> /\ Emptied
      BY <1>1, <1>2, <2>2, EmptiedTold DEF OInv
    <2> QED  BY <1>1, <2>1, <2>2
  <1> QED  BY <1>3, <1>4 DEF OInv

LEMMA RestingOrder ==
    ASSUME IInv, OInv, NEW s \in Residents, Serve(s) \/ WriteFails(s) \/ Die(s)
    PROVE  OInv'
  <1>1. /\ UNCHANGED <<files, name, reading, records, order>> /\ Len(resident') = Len(resident)
        /\ resident'[s].at \in {"idle", "dead"}
        /\ \A t \in Residents : t # s => resident'[t] = resident[t]
    BY RestingTypes
  <1>2. Kept /\ Content' = Content /\ Len(records') \in Nat
    BY <1>1 DEF Kept, Content, IInv, StoreType
  <1> SUFFICES ASSUME ~blurred PROVE OInv'
    BY <1>1 DEF OInv, order
  <1>3. FilesSound' /\ \A t \in Residents' : Owned(t)'
    <2>1. \A n \in 1..Len(files') :
              files'[n] = <<>> \/ (n \in 1..Len(files) /\ files'[n] = files[n])
      BY <1>1
    <2>2. \A t \in Residents' : resident'[t].at = "writing" =>
              /\ t \in Residents /\ resident[t].at = "writing"
              /\ resident'[t].rec = resident[t].rec /\ resident'[t].done = resident[t].done
      BY <1>1 DEF Residents
    <2> QED  BY <1>1, <1>2, <2>1, <2>2, StaySound, StayOwned DEF OInv
  <1>4. ReaderOK' /\ ToldOK'
    BY <1>1, <1>2, StayTold DEF OInv, order
  <1> QED  BY <1>3, <1>4 DEF OInv

\* Nobody knows of a record that is yet to begin.
LEMMA NextUnbegun ==
    ASSUME IInv, ReaderOK, ToldOK
    PROVE  Unbegun(Len(records) + 1)
  <1>1. Len(records) \in Nat /\ \A r \in 1..Len(records) : r # Len(records) + 1
    BY DEF IInv, StoreType
  <1>2. \A n \in 1..Len(files) : \A i \in 1..Len(files[n]) : files[n][i].rec # Len(records) + 1
    BY <1>1 DEF IInv, CellType, Recorded
  <1>3. \A i \in 1..Len(got) : got[i][1].rec # Len(records) + 1
    BY <1>1 DEF ToldOK, AllWhole
  <1>4. ASSUME reader.at \in {"body", "call"} PROVE reader.head.rec \in 1..Len(records)
    <2>1. CASE Reading("body")
      <3>1. reader.off + 1 \in 1..Len(Content) /\ reader.head = Content[reader.off + 1]
        BY <2>1, ReaderIs, ContentIs DEF ReaderOK, BodyOK
      <3> QED  BY <3>1, ContentIs
    <2>2. CASE Reading("call")
      BY <2>2 DEF ReaderOK, EventOK
    <2> QED  BY <1>4, <2>1, <2>2 DEF Reading
  <1> QED  BY <1>1, <1>2, <1>3, <1>4 DEF Unbegun

LEMMA OpenOrder == ASSUME IInv, OInv, NEW s \in Residents, Open(s) PROVE OInv'
  <1>1. /\ IInv' /\ Kept /\ UNCHANGED <<reading, order>>
        /\ Len(records') = Len(records) + 1
        /\ name' # 0 /\ (name # 0 => name' = name)
        /\ name' # name => files'[name'] = <<>>
        /\ Len(files') <= Len(files) + (IF name = 0 THEN 1 ELSE 0)
        /\ \A n \in 1..Len(files) : files'[n] = files[n]
        /\ Len(resident') = Len(resident)
        /\ resident'[s].at = "writing" /\ resident'[s].rec = Len(records) + 1
        /\ \A t \in Residents : t # s => resident'[t] = resident[t]
    BY OpenTypes
  <1> SUFFICES ASSUME ~blurred PROVE OInv'
    BY <1>1 DEF OInv, order
  <1>2. /\ Len(files) \in Nat /\ Len(files') \in Nat /\ Len(records) \in Nat /\ Len(records') \in Nat
        /\ name \in 0..Len(files) /\ name' \in 0..Len(files') /\ Len(files) <= Len(files')
    <2>1. StoreType' /\ StoreType /\ Kept
      BY <1>1 DEF IInv
    <2> QED  BY <2>1 DEF StoreType, Kept
  <1>3. ASSUME NEW n \in 1..Len(files')
        PROVE  files'[n] = <<>> \/ (n \in 1..Len(files) /\ files'[n] = files[n])
    <2>1. CASE n \in 1..Len(files)
      BY <1>1, <2>1
    <2>2. CASE ~(n \in 1..Len(files))
      <3>1. name = 0 /\ n = Len(files) + 1
        BY <1>1, <1>2, <2>2
      <3>2. files' = Append(files, <<>>)
        BY <3>1 DEF Open
      <3>3. files'[Len(files) + 1] = <<>>
        BY <3>2, NewFile
      <3> QED  BY <3>1, <3>3
    <2> QED  BY <2>1, <2>2
  <1>4. Content' = Content
    <2>1. CASE name = 0
      BY <1>1, <2>1 DEF Content
    <2>2. CASE name # 0
      BY <1>1, <1>2, <2>2 DEF Content
    <2> QED  BY <2>1, <2>2
  <1>5. FilesSound'
    BY <1>1, <1>3, StaySound DEF OInv
  <1>6. ReaderOK' /\ ToldOK'
    BY <1>1, <1>2, <1>4, StayTold DEF OInv, order
  <1> DEFINE r == Len(records) + 1
  <1>7. /\ \A n \in 1..Len(files') : \A i \in 1..Len(files'[n]) : files'[n][i].rec # r
        /\ \A i \in 1..Len(got') : got'[i][1].rec # r
        /\ reader'.at \in {"body", "call"} => reader'.head.rec # r
    <2>1. Unbegun(r)
      BY NextUnbegun DEF OInv
    <2> HIDE DEF r
    <2> QED  BY <1>1, <1>3, <2>1, EmptySeq DEF Unbegun, reading
  <1>8. ASSUME NEW t \in Residents PROVE Owned(t)'
    <2>1. CASE t = s
      <3>1. ASSUME NEW u \in Residents, u # s, resident[u].at = "writing" PROVE resident[u].rec # r
        <4>1. resident[u].rec \in 1..Len(records)
          BY <3>1 DEF IInv, ResidentType, WritingOK, At
        <4> QED  BY <1>2, <4>1
      <3>2. \A u \in Residents : (resident'[u].at = "writing" /\ resident'[u].rec = r) => u = s
        BY <1>1, <3>1
      <3>3. Residents' = Residents
        BY <1>1 DEF Residents
      <3> HIDE DEF r
      <3>4. resident'[s].rec = r
        BY <1>1 DEF r
      <3> QED  BY <1>7, <2>1, <3>2, <3>3, <3>4 DEF Owned, At, Unbegun
    <2>2. CASE t # s
      <3>1. resident'[t] = resident[t] /\ Residents' = Residents /\ Owned(t)
        BY <1>1, <2>2 DEF Residents, OInv
      <3> SUFFICES ASSUME resident[t].at = "writing" PROVE Owned(t)'
        BY <3>1 DEF Owned, At
      <3>2. resident[t].rec \in 1..Len(records)
        BY DEF IInv, ResidentType, WritingOK, At
      <3>3. resident[t].rec # Len(records) + 1
        BY <1>2, <3>2
      <3>4. \A u \in Residents : (resident'[u].at = "writing" /\ resident'[u].rec = resident[t].rec) => u = t
        BY <1>1, <3>1, <3>3 DEF Owned, At
      <3>5. resident[t].done = 0 =>
              /\ \A n \in 1..Len(files') : \A i \in 1..Len(files'[n]) : files'[n][i].rec # resident[t].rec
              /\ \A i \in 1..Len(got') : got'[i][1].rec # resident[t].rec
              /\ reader'.at \in {"body", "call"} => reader'.head.rec # resident[t].rec
        <4> SUFFICES ASSUME resident[t].done = 0
                     PROVE  /\ \A n \in 1..Len(files') : \A i \in 1..Len(files'[n]) : files'[n][i].rec # resident[t].rec
                            /\ \A i \in 1..Len(got') : got'[i][1].rec # resident[t].rec
                            /\ reader'.at \in {"body", "call"} => reader'.head.rec # resident[t].rec
          OBVIOUS
        <4>1. Unbegun(resident[t].rec)
          BY <3>1 DEF Owned, At
        <4>2. UNCHANGED reading
          BY <1>1
        <4> QED  BY <1>3, <4>1, <4>2, EmptySeq DEF Unbegun, reading
      <3> QED  BY <3>1, <3>4, <3>5 DEF Owned, At, Unbegun
    <2> QED  BY <2>1, <2>2
  <1>9. \A t \in Residents' : Owned(t)'
    BY <1>1, <1>8 DEF Residents
  <1> QED  BY <1>5, <1>6, <1>9 DEF OInv

\* What follows a file of whole records is a header, and what follows the start of
\* a record goes on with it.
LEMMA WriteSound ==
    ASSUME IInv, FilesSound, NEW s \in Residents, Write(s), Owned(s), ~blurred'
    PROVE  FilesSound'
  <1> DEFINE r    == resident[s].rec
             d    == resident[s].done
             fd   == resident[s].fd
             file == files[fd]
             new  == files'[fd]
  <1>1. /\ IInv' /\ Kept /\ UNCHANGED records /\ Len(files') = Len(files)
        /\ \A n \in 1..Len(files) : n # fd => files'[n] = files[n]
    BY WriteTypes
  <1>2. PICK n \in 1..records[r] + 1 - d :
            /\ Len(new) = Len(file) + n
            /\ \A i \in 1..Len(file) : new[i] = file[i]
            /\ \A i \in 1..n : new[Len(file) + i] = Cell(r, d + i - 1)
            /\ Follows(file, Cell(r, d))
    BY WriteTypes
  <1>3. /\ fd \in 1..Len(files) /\ r \in 1..Len(records) /\ d \in 0..records[r] /\ At(s, "writing")
    BY DEF Write, IInv, ResidentType, WritingOK
  <1>4. \A q \in 1..Len(records) : records[q] \in Nat
    BY RecordProps DEF IInv
  <1>5. file \in Seq(Cells) /\ new \in Seq(Cells) /\ Len(records) \in Nat
    BY <1>1, <1>3, ElementOfSeq DEF IInv, StoreType
  <1>6. Known(file, records) /\ Sound(file, records)
    BY <1>3 DEF IInv, CellType, Recorded, Known, FilesSound
  <1>7. d = 0 => \A i \in 1..Len(file) : file[i].rec # r
    BY <1>3 DEF Owned, Unbegun
  <1>8. Cell(r, d).rec = r /\ Cell(r, d).k = d
    <2>1. r \in Nat
      BY <1>3, <1>5
    <2>2. records[r] \in Nat
      BY <1>3, <1>4
    <2>3. d \in Nat
      BY <1>3, <2>2
    <2> HIDE DEF r, d
    <2> QED  BY <2>1, <2>3, CellIs
  <1>9. /\ file = <<>> => d = 0
        /\ (file # <<>> /\ file[Len(file)].k = records[file[Len(file)].rec]) => d = 0
        /\ (file # <<>> /\ file[Len(file)].k # records[file[Len(file)].rec]) =>
               file[Len(file)].rec = r /\ d = file[Len(file)].k + 1
    <2> HIDE DEF file, r, d
    <2> QED  BY <1>2, <1>8 DEF Follows, LastOf
  <1>10. Sound(new, records)
    <2> HIDE DEF file, new, r, d, fd
    <2> QED  BY <1>2, <1>3, <1>4, <1>5, <1>6, <1>7, <1>9, Extend
  <1> HIDE DEF new
  <1>11. ASSUME NEW k \in 1..Len(files') PROVE Sound(files'[k], records')
    <2>1. CASE k = fd
      BY <1>1, <1>10, <2>1 DEF new
    <2>2. CASE k # fd
      BY <1>1, <2>2 DEF FilesSound
    <2> QED  BY <2>1, <2>2
  <1> QED  BY <1>11 DEF FilesSound

\* The file that is read grows by cells of a record that nobody knows, or of one
\* that is not whole yet.
LEMMA WriteTold ==
    ASSUME IInv, FilesSound, ReaderOK, ToldOK, NEW s \in Residents, Write(s), Owned(s), ~blurred'
    PROVE  ReaderOK' /\ ToldOK'
  <1> DEFINE r    == resident[s].rec
             d    == resident[s].done
             fd   == resident[s].fd
  <1>1. /\ IInv' /\ Kept /\ UNCHANGED <<name, records, base, unseen, reading>> /\ Len(files') = Len(files)
        /\ \A n \in 1..Len(files) : n # fd => files'[n] = files[n]
    BY WriteTypes
  <1>2. PICK n \in 1..records[r] + 1 - d :
            /\ Len(files'[fd]) = Len(files[fd]) + n
            /\ \A i \in 1..Len(files[fd]) : files'[fd][i] = files[fd][i]
            /\ \A i \in 1..n : files'[fd][Len(files[fd]) + i] = Cell(r, d + i - 1)
            /\ (fd = name /\ unseen) => Len(files'[fd]) < reader.off
    BY WriteTypes
  <1>3. /\ fd \in 1..Len(files) /\ r \in 1..Len(records) /\ d \in 0..records[r] /\ At(s, "writing")
    BY DEF Write, IInv, ResidentType, WritingOK
  <1>4. records[r] \in Nat /\ d \in Nat /\ n \in Nat /\ r \in Nat
    <2>1. records[r] \in Nat
      BY <1>3, RecordProps DEF IInv
    <2> HIDE DEF d
    <2> QED  BY <1>2, <1>3, <2>1
  <1>5. CASE fd # name
    <2>1. Content' = Content
      BY <1>1, <1>5 DEF Content, IInv, StoreType
    <2>2. Len(records') \in Nat
      BY <1>1 DEF IInv, StoreType
    <2> QED  BY <1>1, <2>1, <2>2, StayTold
  <1>6. CASE fd = name
    <2> DEFINE L == Len(Content)
               N == Len(Content')
    <2>1. Content = files[fd] /\ Content' = files'[fd]
      BY <1>1, <1>3, <1>6 DEF Content
    <2>2. /\ N = L + n /\ L \in Nat /\ N \in Nat
          /\ \A i \in 1..L : Content'[i] = Content[i]
          /\ unseen => N < reader.off
      BY <1>2, <1>4, <1>6, <2>1, ContentIs
    <2>3. \A i \in 1..n : Content'[L + i] = Cell(r, d + i - 1)
      BY <1>2, <2>1
    <2> HIDE DEF L, N, r, d
    <2>4. ASSUME NEW p \in 1..N, ~(p \in 1..L), Content'[p].k = 0
          PROVE  d = 0 /\ Content'[p].rec = r
      <3> DEFINE i == p - L
                 k == d + i - 1
      <3>1. i \in 1..n /\ p = L + i /\ k \in Nat
        BY <1>4, <2>2, <2>4
      <3>2. Content'[p] = Cell(r, k)
        BY <2>3, <3>1
      <3>3. k = 0
        <4> HIDE DEF k
        <4> QED  BY <1>4, <2>4, <3>1, <3>2, CellIs
      <3>4. d = 0
        BY <1>4, <3>1, <3>3
      <3> HIDE DEF k
      <3> QED  BY <1>4, <3>1, <3>2, <3>4, CellIs
    <2>5. d = 0 => /\ \A i \in 1..Len(got) : got[i][1].rec # r
                   /\ reader.at \in {"body", "call"} => reader.head.rec # r
      BY <1>3 DEF Owned, Unbegun, d, r
    <2>6. \A i \in 1..Len(got) : got[i][1].k = 0
      BY WholeHead DEF ToldOK, AllWhole
    <2>7. Reading("call") => reader.head.k = 0
      <3> SUFFICES ASSUME Reading("call") PROVE reader.head.k = 0
        OBVIOUS
      <3> DEFINE q == reader.head.rec
      <3>1. q \in 1..Len(records) /\ <<reader.head>> \o reader.body = Record(q)
        BY DEF ReaderOK, EventOK
      <3>2. (<<reader.head>> \o reader.body)[1] = reader.head
        <4>1. <<reader.head>> \in Seq(Cells) /\ reader.body \in Seq(Cells) /\ Len(<<reader.head>>) = 1
              /\ <<reader.head>>[1] = reader.head
          BY ReaderIs
        <4>2. Len(reader.body) \in Nat
          BY <4>1
        <4>3. 1 \in 1..Len(<<reader.head>>) + Len(reader.body)
          BY <4>1, <4>2
        <4> DEFINE a == <<reader.head>>
                   b == reader.body
        <4>4. a \in Seq(Cells) /\ b \in Seq(Cells) /\ 1 \in 1..Len(a) + Len(b) /\ 1 <= Len(a)
          BY <4>1, <4>3
        <4> HIDE DEF a, b
        <4>5. (a \o b)[1] = a[1]
          BY <4>4, ConcatProperties
        <4> QED  BY <4>1, <4>5 DEF a, b
      <3>3. 1 \in 1..records[q] + 1 /\ Record(q)[1] = Cell(q, 1 - 1)
        <4>1. q \in 1..Len(records) /\ StoreType
          BY <3>1 DEF IInv
        <4> HIDE DEF q
        <4>2. records[q] \in Nat /\ \A i \in 1..records[q] + 1 : Record(q)[i] = Cell(q, i - 1)
          BY <4>1, RecordProps
        <4> QED  BY <4>2
      <3>4. reader.head = Cell(q, 0)
        BY <3>1, <3>2, <3>3
      <3> HIDE DEF q
      <3> QED  BY <3>1, <3>4, CellIs
    \* No cell that is new is one of the handler's, or of the reader's.
    <2>8. ASSUME NEW i \in 1..Len(got), NEW p \in 1..N, Content'[p] = got[i][1] PROVE p \in 1..L
      BY <2>4, <2>5, <2>6, <2>8
    <2>9. ASSUME Reading("call"), NEW p \in 1..N, Content'[p] = reader.head PROVE p \in 1..L
      BY <2>4, <2>5, <2>7, <2>9 DEF Reading
    <2>10. reader.off \in Nat /\ reader.path \in Nat
      BY ReaderIs
    <2>11. ~unseen => reader.off <= L
      BY DEF ReaderOK, PlaceOK, L
    <2>12. OffOK'
      BY <1>1 DEF ReaderOK, OffOK, reading, Reading
    <2>13. UnseenOK'
      <3> SUFFICES ASSUME unseen
                   PROVE  /\ N < reader.off /\ base = 0 /\ ~Reading("body")
                          /\ Reading("call") => \A p \in 1..N : Content'[p] # reader.head
        BY <1>1 DEF UnseenOK, reading, Reading, N
      <3>1. /\ base = 0 /\ ~Reading("body")
            /\ Reading("call") => \A p \in 1..L : Content[p] # reader.head
        BY DEF ReaderOK, UnseenOK, L
      <3> QED  BY <2>2, <2>9, <3>1
    <2>14. PlaceOK'
      <3> SUFFICES ASSUME ~unseen
                   PROVE  reader.off <= N /\ (reader.off # 0 => LastOf(Content'[reader.off]))
        BY <1>1 DEF PlaceOK, reading, LastOf, N
      <3>1. reader.off # 0 => LastOf(Content[reader.off])
        BY DEF ReaderOK, PlaceOK
      <3>2. reader.off # 0 => reader.off \in 1..L
        BY <2>2, <2>10, <2>11
      <3> QED  BY <1>4, <2>2, <2>10, <2>11, <3>1, <3>2
    <2>15. BodyOK'
      <3> SUFFICES ASSUME Reading("body")
                   PROVE  /\ reader.fd = name /\ reader.off < N
                          /\ reader.head = Content'[reader.off + 1]
                          /\ reader.head.k = 0 /\ reader.path = records[reader.head.rec]
        BY <1>1 DEF BodyOK, reading, Reading, N
      <3>1. /\ reader.fd = name /\ reader.off < L
            /\ reader.head = Content[reader.off + 1]
            /\ reader.head.k = 0 /\ reader.path = records[reader.head.rec]
        BY DEF ReaderOK, BodyOK, L
      <3>2. reader.off + 1 \in 1..L /\ reader.off < N
        BY <1>4, <2>2, <2>10, <3>1
      <3> QED  BY <2>2, <3>1, <3>2
    <2>16. EventOK'
      <3> SUFFICES ASSUME Reading("call")
                   PROVE  /\ reader.head.rec \in 1..Len(records) /\ reader.path = records[reader.head.rec]
                          /\ <<reader.head>> \o reader.body = Record(reader.head.rec)
                          /\ reader.off > reader.path
                          /\ ~unseen => Content'[reader.off - reader.path] = reader.head
        BY <1>1 DEF EventOK, reading, Reading, Record
      <3>1. /\ reader.head.rec \in 1..Len(records) /\ reader.path = records[reader.head.rec]
            /\ <<reader.head>> \o reader.body = Record(reader.head.rec)
            /\ reader.off > reader.path
            /\ ~unseen => Content[reader.off - reader.path] = reader.head
        BY DEF ReaderOK, EventOK
      <3>2. ~unseen => reader.off - reader.path \in 1..L
        BY <2>2, <2>10, <2>11, <3>1
      <3> QED  BY <2>2, <3>1, <3>2
    <2>17. ToldTo' = ToldTo
      BY <1>1 DEF ToldTo, reading, Reading
    <2>18. ToldTo <= L /\ ToldTo \in Nat
      <3>1. CASE unseen
        BY <2>2, <3>1 DEF ToldTo
      <3>2. CASE ~unseen /\ Reading("call")
        <4>1. reader.off > reader.path
          BY <3>2 DEF ReaderOK, EventOK
        <4>2. ToldTo = reader.off - reader.path - 1
          BY <3>2 DEF ToldTo
        <4> QED  BY <2>2, <2>10, <2>11, <3>2, <4>1, <4>2
      <3>3. CASE ~unseen /\ ~Reading("call")
        BY <2>2, <2>10, <2>11, <3>3 DEF ToldTo
      <3> QED  BY <3>1, <3>2, <3>3
    <2>19. AllWhole'
      BY <1>1 DEF ToldOK, AllWhole, Whole, Record, reading
    <2>20. ToldThese'
      <3> SUFFICES ASSUME NEW p \in 1..N, Content'[p].k = 0
                   PROVE  (\E i \in 1..Len(got) : got[i][1] = Content'[p]) <=> (base < p /\ p <= ToldTo)
        BY <1>1, <2>17 DEF ToldThese, reading, N
      <3>1. CASE p \in 1..L
        BY <2>2, <3>1 DEF ToldOK, ToldThese, L
      <3>2. CASE ~(p \in 1..L)
        <4>1. ~(p <= ToldTo)
          BY <2>2, <2>18, <3>2
        <4> QED  BY <2>8, <3>2, <4>1
      <3> QED  BY <3>1, <3>2
    <2>21. InOrder'
      <3> SUFFICES ASSUME NEW i \in 1..Len(got), NEW j \in 1..Len(got), i < j,
                          NEW p \in 1..N, NEW q \in 1..N,
                          Content'[p] = got[i][1], Content'[q] = got[j][1]
                   PROVE  p < q
        BY <1>1 DEF InOrder, reading, N
      <3>1. p \in 1..L /\ q \in 1..L
        BY <2>8
      <3>2. Content[p] = got[i][1] /\ Content[q] = got[j][1]
        BY <2>2, <3>1
      <3> QED  BY <3>1, <3>2 DEF ToldOK, InOrder, L
    <2>22. base' <= ToldTo'
      BY <1>1, <2>17 DEF ToldOK
    <2> QED  BY <2>12, <2>13, <2>14, <2>15, <2>16, <2>19, <2>20, <2>21, <2>22 DEF ReaderOK, ToldOK
  <1> QED  BY <1>5, <1>6

LEMMA WriteOrder == ASSUME IInv, OInv, NEW s \in Residents, Write(s) PROVE OInv'
  <1> SUFFICES ASSUME ~blurred' PROVE OInv'
    BY DEF OInv
  <1>1. /\ UNCHANGED <<records, reading>> /\ Len(files') = Len(files) /\ Len(resident') = Len(resident)
        /\ resident'[s].rec = resident[s].rec /\ resident'[s].done > resident[s].done
        /\ \A t \in Residents : t # s => resident'[t] = resident[t]
        /\ \A n \in 1..Len(files) : n # resident[s].fd => files'[n] = files[n]
        /\ blurred => blurred'
    BY WriteTypes
  <1>2. FilesSound /\ (\A t \in Residents : Owned(t)) /\ ReaderOK /\ ToldOK
    BY <1>1 DEF OInv
  <1>3. FilesSound' /\ ReaderOK' /\ ToldOK'
    BY <1>2, WriteSound, WriteTold
  <1>4. At(s, "writing") /\ resident[s].rec \in 1..Len(records) /\ resident[s].done \in Nat
    <2>1. At(s, "writing") /\ WritingOK(s)
      BY DEF Write, IInv, ResidentType
    <2>2. records[resident[s].rec] \in Nat
      BY <2>1, RecordProps DEF WritingOK, IInv
    <2> QED  BY <2>1, <2>2 DEF WritingOK
  <1>5. \A n \in 1..Len(files') : \A i \in 1..Len(files'[n]) :
           files'[n][i].rec = resident[s].rec \/ (i \in 1..Len(files[n]) /\ files'[n][i] = files[n][i])
    <2> TAKE n \in 1..Len(files')
    <2>1. CASE n # resident[s].fd
      BY <1>1, <2>1
    <2>2. CASE n = resident[s].fd
      <3> DEFINE r == resident[s].rec
                 d == resident[s].done
                 L == Len(files[n])
      <3>1. PICK k \in 1..records[r] + 1 - d :
               /\ Len(files'[n]) = L + k
               /\ \A i \in 1..L : files'[n][i] = files[n][i]
               /\ \A i \in 1..k : files'[n][L + i] = Cell(r, d + i - 1)
        BY <2>2, WriteTypes
      <3>2. records[r] \in Nat /\ L \in Nat
        BY <1>1, <1>4, RecordProps, ElementOfSeq DEF IInv, StoreType
      <3>3. k \in Nat /\ d \in Nat /\ r \in Nat
        BY <1>4, <3>1, <3>2
      <3> HIDE DEF r, d, L
      <3>4. ASSUME NEW i \in 1..L + k, ~(i \in 1..L) PROVE files'[n][i].rec = r
        <4> DEFINE j == i - L
                   e == d + j - 1
        <4>1. j \in 1..k /\ i = L + j /\ e \in Nat
          BY <3>2, <3>3, <3>4
        <4>2. files'[n][i] = Cell(r, e)
          BY <3>1, <4>1
        <4> HIDE DEF e
        <4> QED  BY <3>3, <4>1, <4>2, CellIs
      <3> QED  BY <3>1, <3>4 DEF r, L
    <2> QED  BY <2>1, <2>2
  <1>6. ASSUME NEW t \in Residents PROVE Owned(t)'
    <2>1. Residents' = Residents /\ resident'[t].rec = resident[t].rec /\ Owned(t)
      BY <1>1, <1>2 DEF Residents
    <2> SUFFICES ASSUME resident'[t].at = "writing" PROVE Owned(t)'
      BY DEF Owned, At
    <2>2. At(t, "writing")
      BY <1>1, <1>4 DEF At
    <2>3. ASSUME NEW u \in Residents, resident'[u].at = "writing", resident'[u].rec = resident[t].rec
          PROVE  u = t
      <3>1. At(u, "writing") /\ resident[u].rec = resident[t].rec
        BY <1>1, <1>4, <2>3 DEF At
      <3> QED  BY <2>1, <2>2, <3>1 DEF Owned
    <2>4. ASSUME resident'[t].done = 0
          PROVE  /\ \A n \in 1..Len(files') : \A i \in 1..Len(files'[n]) : files'[n][i].rec # resident[t].rec
                 /\ \A i \in 1..Len(got') : got'[i][1].rec # resident[t].rec
                 /\ reader'.at \in {"body", "call"} => reader'.head.rec # resident[t].rec
      <3>1. t # s
        BY <1>1, <1>4, <2>4
      <3>2. Unbegun(resident[t].rec) /\ resident[t].rec # resident[s].rec
        BY <1>1, <1>2, <1>4, <2>1, <2>2, <2>4, <3>1 DEF Owned
      <3>3. UNCHANGED reading /\ Len(files') = Len(files)
        BY <1>1
      <3> QED  BY <1>5, <3>2, <3>3 DEF Unbegun, reading
    <2> QED  BY <2>1, <2>3, <2>4 DEF Owned, At, Unbegun
  <1>7. \A t \in Residents' : Owned(t)'
    BY <1>1, <1>6 DEF Residents
  <1> QED  BY <1>3, <1>7 DEF OInv

\* A step of the reader takes what it knows from the file, or from what it knew.
LEMMA ReadOwned ==
    ASSUME IInv, FilesSound, \A s \in Residents : Owned(s), ByReader,
           reader'.at \in {"body", "call"} =>
               \/ \E p \in 1..Len(Content) : reader'.head = Content[p]
               \/ reader.at \in {"body", "call"} /\ reader'.head = reader.head,
           \A i \in 1..Len(got') :
               \/ i \in 1..Len(got) /\ got'[i] = got[i]
               \/ Reading("call") /\ got'[i][1] = reader.head
    PROVE  FilesSound' /\ \A s \in Residents' : Owned(s)'
  <1>1. UNCHANGED <<files, name, records, resident>>
    BY DEF ByReader, store
  <1>2. FilesSound'
    BY <1>1 DEF FilesSound
  <1>3. ASSUME NEW r, Unbegun(r)
        PROVE  /\ \A n \in 1..Len(files') : \A i \in 1..Len(files'[n]) : files'[n][i].rec # r
               /\ \A i \in 1..Len(got') : got'[i][1].rec # r
               /\ reader'.at \in {"body", "call"} => reader'.head.rec # r
    <2>1. \A p \in 1..Len(Content) : Content[p].rec # r
      <3>1. CASE name = 0
        BY <3>1, EmptySeq DEF Content
      <3>2. CASE name # 0
        BY <1>3, <3>2 DEF Content, Unbegun, IInv, StoreType
      <3> QED  BY <3>1, <3>2
    <2>2. reader'.at \in {"body", "call"} => reader'.head.rec # r
      BY <1>3, <2>1 DEF Unbegun
    <2>3. \A i \in 1..Len(got') : got'[i][1].rec # r
      BY <1>3 DEF Unbegun, Reading
    <2> QED  BY <1>1, <1>3, <2>2, <2>3 DEF Unbegun
  <1>4. \A s \in Residents' : Owned(s)'
    <2> SUFFICES ASSUME NEW s \in Residents PROVE Owned(s)'
      BY <1>1 DEF Residents
    <2> DEFINE r == resident[s].rec
    <2>1. Owned(s)
      OBVIOUS
    <2>2. ASSUME At(s, "writing"), resident[s].done = 0
          PROVE  /\ \A n \in 1..Len(files') : \A i \in 1..Len(files'[n]) : files'[n][i].rec # r
                 /\ \A i \in 1..Len(got') : got'[i][1].rec # r
                 /\ reader'.at \in {"body", "call"} => reader'.head.rec # r
      <3>1. Unbegun(r)
        BY <2>1, <2>2 DEF Owned
      <3> HIDE DEF r
      <3> QED  BY <1>3, <3>1
    <2> QED  BY <1>1, <2>1, <2>2 DEF Owned, At, Unbegun, Residents
  <1> QED  BY <1>2, <1>4

LEMMA SameTold ==
    ASSUME ToldOK, UNCHANGED <<got, records, base>>, Content' = Content, ToldTo' = ToldTo
    PROVE  ToldOK'
  BY DEF ToldOK, AllWhole, Whole, Record, ToldThese, InOrder

LEMMA OnOrder == ASSUME IInv, OInv, On PROVE OInv'
  <1> SUFFICES ASSUME ~blurred' PROVE OInv'
    BY DEF OInv
  <1>1. /\ ByReader /\ UNCHANGED <<stop, got, unseen>>
        /\ Reading("off") /\ reader'.at = "look" /\ reader'.off = Len(Content)
        /\ base' = Len(Content) /\ (blurred => blurred')
        /\ Content # <<>> => LastOf(Content[Len(Content)])
    BY OnTypes
  <1>2. FilesSound /\ (\A s \in Residents : Owned(s)) /\ ReaderOK /\ ToldOK
    BY <1>1 DEF OInv
  <1>3. FilesSound' /\ \A s \in Residents' : Owned(s)'
    BY <1>1, <1>2, ReadOwned
  <1>4. Content' = Content /\ Content \in Seq(Cells) /\ Len(Content) \in Nat /\ UNCHANGED records
    BY <1>1, ContentIs DEF ByReader, store, Content
  <1>5. got = <<>> /\ Len(got) = 0 /\ ~unseen
    BY <1>1, <1>2, EmptySeq DEF ReaderOK, OffOK
  <1>6. ReaderOK'
    <2>1. PlaceOK'
      <3>1. Len(Content) # 0 => Content # <<>>
        BY EmptySeq
      <3> QED  BY <1>1, <1>4, <3>1 DEF PlaceOK, LastOf
    <2> QED  BY <1>1, <1>5, <2>1 DEF ReaderOK, OffOK, UnseenOK, BodyOK, EventOK, Reading
  <1>7. ToldOK'
    <2>1. ToldTo' = Len(Content)
      BY <1>1, <1>5 DEF ToldTo, Reading
    <2>2. AllWhole' /\ InOrder'
      BY <1>1, <1>5 DEF AllWhole, InOrder
    <2>3. ToldThese'
      BY <1>1, <1>4, <1>5, <2>1 DEF ToldThese
    <2> QED  BY <1>1, <1>4, <2>1, <2>2, <2>3 DEF ToldOK
  <1> QED  BY <1>3, <1>6, <1>7 DEF OInv

LEMMA LookOrder == ASSUME IInv, OInv, Look PROVE OInv'
  <1> SUFFICES ASSUME ~blurred' PROVE OInv'
    BY DEF OInv
  <1>1. /\ ByReader /\ UNCHANGED <<stop, got, base, blurred>> /\ ~unseen'
        /\ Reading("look") /\ reader'.at \in {"look", "head"}
        /\ reader'.off = IF Len(Content) < reader.off THEN 0 ELSE reader.off
    BY LookTypes
  <1>2. FilesSound /\ (\A s \in Residents : Owned(s)) /\ ReaderOK /\ ToldOK
    BY <1>1 DEF OInv
  <1>3. FilesSound' /\ \A s \in Residents' : Owned(s)'
    BY <1>1, <1>2, ReadOwned
  <1>4. /\ Content' = Content /\ Len(Content) \in Nat /\ reader.off \in Nat
        /\ UNCHANGED <<records, got, base>>
    BY <1>1, ContentIs, ReaderIs DEF ByReader, store, Content
  <1>5. reader'.off = ToldTo /\ ToldTo' = ToldTo
    <2>1. CASE unseen
      BY <1>1, <1>2, <2>1 DEF ReaderOK, UnseenOK, ToldTo, Reading
    <2>2. CASE ~unseen
      <3>1. reader.off <= Len(Content)
        BY <1>2, <2>2 DEF ReaderOK, PlaceOK
      <3>2. reader'.off = reader.off
        BY <1>1, <1>4, <3>1
      <3> QED  BY <1>1, <2>2, <3>2 DEF ToldTo, Reading
    <2> QED  BY <2>1, <2>2
  <1>6. ReaderOK'
    <2>1. PlaceOK'
      <3>1. CASE unseen
        <4>1. reader'.off = 0
          BY <1>5, <3>1 DEF ToldTo
        <4> QED  BY <1>4, <4>1 DEF PlaceOK
      <3>2. CASE ~unseen
        <4>1. reader'.off = reader.off
          BY <1>1, <1>5, <3>2 DEF ToldTo, Reading
        <4> QED  BY <1>2, <1>4, <3>2, <4>1 DEF ReaderOK, PlaceOK, LastOf
      <3> QED  BY <3>1, <3>2
    <2> QED  BY <1>1, <2>1 DEF ReaderOK, OffOK, UnseenOK, BodyOK, EventOK, Reading
  <1>7. ToldOK'
    BY <1>2, <1>4, <1>5, SameTold
  <1> QED  BY <1>3, <1>6, <1>7 DEF OInv

LEMMA HeadOrder == ASSUME IInv, OInv, ReadHead PROVE OInv'
  <1>1. /\ ByReader /\ UNCHANGED <<stop, got, order>> /\ Reading("head")
        /\ reader'.at \in {"look", "body", "ended"} /\ reader'.off = reader.off
        /\ reader'.at = "body" =>
             /\ Len(Content) > reader.off /\ name # 0 /\ reader'.fd = name
             /\ reader'.head = Content[reader.off + 1]
             /\ reader'.head.k = 0 => reader'.path = records[reader'.head.rec]
    BY HeadTypes
  <1> SUFFICES ASSUME ~blurred' PROVE OInv'
    BY DEF OInv
  <1>2. FilesSound /\ (\A s \in Residents : Owned(s)) /\ ReaderOK /\ ToldOK
    BY <1>1 DEF OInv, order
  <1>3. /\ Content' = Content /\ Len(Content) \in Nat /\ reader.off \in Nat
        /\ UNCHANGED <<records, got, base, unseen, name>> /\ Sound(Content, records)
    BY <1>1, <1>2, ContentIs, ReaderIs DEF ByReader, store, Content, order
  <1>4. reader'.at = "body" => reader.off + 1 \in 1..Len(Content)
    BY <1>1, <1>3
  <1>5. FilesSound' /\ \A s \in Residents' : Owned(s)'
    BY <1>1, <1>2, <1>3, <1>4, ReadOwned
  <1>6. reader'.at = "body" => ~unseen /\ reader'.head.k = 0
    <2> SUFFICES ASSUME reader'.at = "body" PROVE ~unseen /\ reader'.head.k = 0
      OBVIOUS
    <2> DEFINE i == reader.off + 1
    <2>1. i \in 1..Len(Content) /\ reader'.head = Content[i]
      BY <1>1, <1>4
    <2>2. ~unseen
      BY <1>1, <1>2, <1>3 DEF ReaderOK, UnseenOK
    <2>3. CASE reader.off = 0
      <3>1. Content[i].k < 1 /\ Content[i].k \in Nat
        BY <1>3, <2>1, <2>3, ContentIs DEF Sound
      <3>2. Content[i].k = 0
        <4> DEFINE k == Content[i].k
        <4> HIDE DEF k, i
        <4>1. k < 1 /\ k \in Nat
          BY <3>1 DEF k
        <4>2. k = 0
          BY <4>1
        <4> QED  BY <4>2 DEF k
      <3> QED  BY <2>1, <2>2, <3>2
    <2>4. CASE reader.off # 0
      <3>1. LastOf(Content[reader.off])
        BY <1>2, <2>2, <2>4 DEF ReaderOK, PlaceOK
      <3>2. reader.off \in 1..Len(Content) /\ reader.off < Len(Content)
        BY <1>3, <1>4, <2>1, <2>4
      <3>3. Content[reader.off + 1].k = 0
        BY <1>3, <3>1, <3>2 DEF Sound, LastOf
      <3> QED  BY <2>1, <2>2, <3>3
    <2> QED  BY <2>3, <2>4
  <1>7. ReaderOK'
    <2>1. UnseenOK'
      BY <1>1, <1>2, <1>3, <1>6 DEF ReaderOK, UnseenOK, Reading
    <2>2. PlaceOK'
      BY <1>1, <1>2, <1>3 DEF ReaderOK, PlaceOK, LastOf
    <2>3. BodyOK'
      BY <1>1, <1>3, <1>6 DEF BodyOK, Reading
    <2> QED  BY <1>1, <2>1, <2>2, <2>3 DEF ReaderOK, OffOK, EventOK, Reading
  <1>8. ToldTo' = ToldTo
    BY <1>1, <1>3 DEF ToldTo, Reading
  <1>9. ToldOK'
    BY <1>2, <1>3, <1>8, SameTold
  <1> QED  BY <1>5, <1>7, <1>9 DEF OInv

LEMMA BodyOrder == ASSUME IInv, OInv, ReadBody PROVE OInv'
  <1>1. /\ ByReader /\ UNCHANGED <<stop, got, order>> /\ Reading("body")
        /\ reader'.at \in {"look", "call"}
        /\ reader'.at = "look" => reader'.off = reader.off
        /\ reader'.at = "call" =>
             /\ reader'.off = reader.off + 1 + reader.path
             /\ reader'.off <= Len(files[reader.fd])
             /\ reader'.head = reader.head /\ reader'.path = reader.path
             /\ reader'.body = SubSeq(files[reader.fd], reader.off + 2, reader'.off)
    BY BodyTypes
  <1> SUFFICES ASSUME ~blurred' PROVE OInv'
    BY DEF OInv
  <1>2. FilesSound /\ (\A s \in Residents : Owned(s)) /\ ReaderOK /\ ToldOK
    BY <1>1 DEF OInv, order
  <1>3. /\ Content' = Content /\ Len(Content) \in Nat /\ reader.off \in Nat /\ reader.path \in Nat
        /\ UNCHANGED <<records, got, base, unseen, name>> /\ Sound(Content, records)
        /\ Content \in Seq(Cells)
    BY <1>1, <1>2, ContentIs, ReaderIs DEF ByReader, store, Content, order
  <1>4. FilesSound' /\ \A s \in Residents' : Owned(s)'
    <2>1. reader'.at \in {"body", "call"} => reader.at \in {"body", "call"} /\ reader'.head = reader.head
      BY <1>1 DEF Reading
    <2> QED  BY <1>1, <1>2, <1>3, <2>1, ReadOwned
  <1> DEFINE off  == reader.off
             path == reader.path
             q    == reader.head.rec
  <1>5. /\ ~unseen /\ reader.fd = name /\ off < Len(Content) /\ reader.head = Content[off + 1]
        /\ reader.head.k = 0 /\ path = records[q] /\ off + 1 \in 1..Len(Content)
    BY <1>1, <1>2, <1>3 DEF ReaderOK, UnseenOK, BodyOK
  <1>6. files[reader.fd] = Content
    <2>1. name # 0
      BY <1>1, <1>5 DEF IInv, ReaderType
    <2> QED  BY <1>5, <2>1 DEF Content
  <1>7. q \in 1..Len(records) /\ q \in Nat /\ reader.head \in Cells
    BY <1>5, ContentIs
  <1>8. reader.head = Cell(q, 0)
    BY <1>5, <1>7, CellOf
  <1>9. CASE reader'.at = "look"
    <2>1. PlaceOK'
      BY <1>1, <1>2, <1>3, <1>9 DEF ReaderOK, PlaceOK, LastOf
    <2>2. ReaderOK'
      BY <1>3, <1>5, <1>9, <2>1 DEF ReaderOK, OffOK, UnseenOK, BodyOK, EventOK, Reading
    <2>3. ToldTo' = ToldTo
      BY <1>1, <1>3, <1>9 DEF ToldTo, Reading
    <2>4. ToldOK'
      BY <1>2, <1>3, <2>3, SameTold
    <2> QED  BY <1>4, <2>2, <2>4 DEF OInv
  <1>10. CASE reader'.at = "call"
    <2> DEFINE end == off + 1 + path
    <2>1. /\ reader'.off = end /\ end <= Len(Content) /\ end \in Nat
          /\ reader'.head = reader.head /\ reader'.path = path
          /\ reader'.body = SubSeq(Content, off + 2, end)
      BY <1>1, <1>3, <1>6, <1>10
    <2>2. ASSUME NEW j \in 0..path PROVE off + 1 + j \in 1..Len(Content) /\ Content[off + 1 + j] = Cell(q, j)
      <3> DEFINE i == off + 1
      <3>1. i \in 1..Len(Content) /\ Content[i].k = 0 /\ Content[i].rec = q /\ j \in 0..records[q]
        BY <1>5
      <3>2. i + j <= Len(Content) /\ i + j \in 1..Len(Content)
        <4>1. /\ off \in Nat /\ path \in Nat /\ off + 1 + path <= Len(Content)
              /\ Len(Content) \in Nat
          BY <1>3, <2>1
        <4> HIDE DEF off, path
        <4> QED  BY <4>1
      <3> HIDE DEF i
      <3>3. Content[i + j] = Cell(q, j)
        BY <1>3, <3>1, <3>2 DEF Sound
      <3> QED  BY <3>2, <3>3 DEF i
    <2>3. /\ reader'.body \in Seq(Cells) /\ Len(reader'.body) = path
          /\ \A k \in 1..path : reader'.body[k] = Cell(q, k)
      <3> DEFINE lo == off + 2
      <3>1. lo \in Nat /\ lo >= 1 /\ end >= lo - 1
        BY <1>3
      <3> HIDE DEF lo, end
      <3>2. \A k \in lo..end : k \in 1..Len(Content)
        BY <1>3, <2>1, <3>1
      <3>3. /\ SubSeq(Content, lo, end) \in Seq(Cells)
            /\ Len(SubSeq(Content, lo, end)) = IF lo <= end THEN end - lo + 1 ELSE 0
            /\ \A k \in 1..end - lo + 1 : SubSeq(Content, lo, end)[k] = Content[lo + k - 1]
        BY <1>3, <2>1, <3>1, <3>2, SubSeqProperties
      <3>4. end - lo + 1 = path /\ (lo <= end \/ path = 0)
        BY <1>3 DEF lo, end
      <3>5. reader'.body = SubSeq(Content, lo, end)
        BY <2>1 DEF lo
      <3>6. Len(reader'.body) = path
        BY <1>3, <3>3, <3>4, <3>5
      <3>7. ASSUME NEW k \in 1..path PROVE reader'.body[k] = Cell(q, k)
        <4>1. k \in 1..end - lo + 1 /\ (lo + k) - 1 = off + 1 + k /\ k \in 0..path
          BY <1>3, <3>4 DEF lo
        <4>2. Content[off + 1 + k] = Cell(q, k)
          BY <2>2, <4>1
        <4>3. lo + k - 1 = off + 1 + k
          BY <1>3 DEF lo
        <4> QED  BY <3>3, <3>5, <4>1, <4>2, <4>3
      <3> QED  BY <3>3, <3>5, <3>6, <3>7
    <2>4. <<reader.head>> \o reader'.body = Record(q)
      <3> DEFINE e == <<reader.head>> \o reader'.body
      <3>1. <<reader.head>> \in Seq(Cells) /\ Len(<<reader.head>>) = 1 /\ <<reader.head>>[1] = reader.head
        BY <1>7
      <3>2. /\ e \in Seq(Cells) /\ Len(e) = 1 + path
            /\ \A i \in 1..1 + path : e[i] = IF i <= 1 THEN reader.head ELSE reader'.body[i - 1]
        <4>1. /\ e \in Seq(Cells) /\ Len(e) = Len(<<reader.head>>) + Len(reader'.body)
              /\ \A i \in 1..Len(<<reader.head>>) + Len(reader'.body) :
                    e[i] = IF i <= Len(<<reader.head>>) THEN <<reader.head>>[i]
                           ELSE reader'.body[i - Len(<<reader.head>>)]
          BY <2>3, <3>1, ConcatProperties
        <4> HIDE DEF e
        <4>2. \A i \in 1..1 + path : i <= 1 => i = 1
          BY <1>3
        <4> QED  BY <2>3, <3>1, <4>1, <4>2
      <3>3. /\ Record(q) \in Seq(Cells) /\ Len(Record(q)) = path + 1
            /\ \A i \in 1..path + 1 : Record(q)[i] = Cell(q, i - 1)
        BY <1>5, <1>7, RecordProps DEF IInv
      <3> HIDE DEF e, path, q
      <3>4. \A i \in 1..1 + path : e[i] = Cell(q, i - 1)
        <4> TAKE i \in 1..1 + path
        <4>1. CASE i = 1
          <5>1. 1 \in 1..1 + path /\ 1 <= 1 /\ 1 - 1 = 0
            BY <1>3 DEF path
          <5>2. e[1] = reader.head
            BY <3>2, <5>1
          <5>3. reader.head = Cell(q, 0)
            BY <1>8 DEF q
          <5> QED  BY <4>1, <5>1, <5>2, <5>3
        <4>2. CASE i # 1
          <5>1. i - 1 \in 1..path /\ ~(i <= 1)
            BY <1>3, <4>2 DEF path
          <5> QED  BY <2>3, <3>2, <5>1
        <4> QED  BY <4>1, <4>2
      <3>5. Len(e) = Len(Record(q)) /\ \A i \in 1..Len(e) : e[i] = Record(q)[i]
        <4>1. path \in Nat
          BY <1>3 DEF path
        <4>2. Len(e) = path + 1 /\ Len(Record(q)) = path + 1
          BY <3>2, <3>3, <4>1
        <4> QED  BY <3>3, <3>4, <4>1, <4>2
      <3>6. e = Record(q)
        BY <3>2, <3>3, <3>5, SeqEqual
      <3> QED  BY <3>6 DEF e, q
    <2>5. path \in 0..path
      BY <1>3
    <2>6. Content[end] = Cell(q, path) /\ LastOf(Content[end])
      <3>1. Content[end] = Cell(q, path)
        BY <2>2, <2>5
      <3>2. Cell(q, path).rec = q /\ Cell(q, path).k = path
        BY <1>3, <1>7, CellIs
      <3> QED  BY <1>5, <3>1, <3>2 DEF LastOf
    <2>7. end - path = off + 1 /\ end > path /\ (end - path) - 1 = off
      BY <1>3
    <2> HIDE DEF end, off, path, q
    <2>8. PlaceOK'
      BY <1>3, <2>1, <2>6 DEF PlaceOK, LastOf
    <2>9. EventOK'
      <3>1. Record(q)' = Record(q)
        BY <1>3, <2>1 DEF Record, q
      <3>2. reader'.head.rec = q
        BY <2>1 DEF q
      <3> QED  BY <1>3, <1>5, <1>7, <2>1, <2>4, <2>7, <3>1, <3>2 DEF EventOK, Record, off
    <2>10. ReaderOK'
      BY <1>3, <1>5, <1>10, <2>8, <2>9 DEF ReaderOK, OffOK, UnseenOK, BodyOK, Reading
    <2>11. ToldTo' = ToldTo
      <3>1. ToldTo = off
        BY <1>1, <1>5 DEF ToldTo, Reading, off
      <3>2. ToldTo' = reader'.off - reader'.path - 1
        BY <1>3, <1>5, <1>10 DEF ToldTo, Reading
      <3>3. end - path - 1 = off
        BY <1>3 DEF end, off, path
      <3> QED  BY <2>1, <3>1, <3>2, <3>3
    <2>12. ToldOK'
      BY <1>2, <1>3, <2>11, SameTold
    <2> QED  BY <1>4, <2>10, <2>12 DEF OInv
  <1> QED  BY <1>1, <1>9, <1>10

LEMMA CallOrder == ASSUME IInv, OInv, Call PROVE OInv'
  <1> DEFINE event == <<reader.head>> \o reader.body
             q     == reader.head.rec
             h     == reader.off - reader.path
             K     == Len(got) + 1
  <1>1. /\ ByReader /\ UNCHANGED <<stop, order>> /\ Reading("call")
        /\ reader'.at = "look" /\ reader'.off = reader.off
        /\ Len(got') = K /\ got'[K] = event
        /\ \A i \in 1..Len(got) : got'[i] = got[i]
    BY CallTypes
  <1> SUFFICES ASSUME ~blurred' PROVE OInv'
    BY DEF OInv
  <1>2. FilesSound /\ (\A s \in Residents : Owned(s)) /\ ReaderOK /\ ToldOK
    BY <1>1 DEF OInv, order
  <1>3. /\ Content' = Content /\ Len(Content) \in Nat /\ reader.off \in Nat /\ reader.path \in Nat
        /\ UNCHANGED <<records, base, unseen, name>> /\ Sound(Content, records)
        /\ Len(got) \in Nat /\ base \in Nat
    BY <1>1, <1>2, ContentIs, ReaderIs DEF ByReader, store, Content, order, IInv, ReaderType, FlagType
  <1>4. /\ q \in 1..Len(records) /\ reader.path = records[q] /\ event = Record(q)
        /\ reader.off > reader.path
        /\ ~unseen => Content[h] = reader.head
    BY <1>1, <1>2 DEF ReaderOK, EventOK
  <1>5. event[1] = reader.head /\ reader.head = Cell(q, 0) /\ reader.head.k = 0
    <2>1. /\ <<reader.head>> \in Seq(Cells) /\ reader.body \in Seq(Cells)
          /\ Len(<<reader.head>>) = 1 /\ <<reader.head>>[1] = reader.head
      BY ReaderIs
    <2>2. 1 \in 1..Len(<<reader.head>>) + Len(reader.body)
      <3>1. Len(reader.body) \in Nat
        BY <2>1
      <3> QED  BY <2>1, <3>1
    <2>3. event[1] = reader.head
      BY <2>1, <2>2, ConcatProperties
    <2> HIDE DEF event, q
    <2>4. 1 \in 1..records[q] + 1 /\ Record(q)[1] = Cell(q, 1 - 1)
      BY <1>4, RecordProps DEF IInv
    <2>5. Cell(q, 0).k = 0
      BY <1>4, CellIs
    <2> QED  BY <1>4, <2>3, <2>4, <2>5
  <1> HIDE DEF event
  <1>6. K \in Nat /\ \A i \in 1..K : i # K => i \in 1..Len(got)
    BY <1>3
  <1>7. FilesSound' /\ \A s \in Residents' : Owned(s)'
    <2>1. \A i \in 1..Len(got') : \/ i \in 1..Len(got) /\ got'[i] = got[i]
                                  \/ Reading("call") /\ got'[i][1] = reader.head
      BY <1>1, <1>5, <1>6
    <2> QED  BY <1>1, <1>2, <2>1, ReadOwned
  <1>8. ReaderOK'
    <2>1. PlaceOK'
      BY <1>1, <1>2, <1>3 DEF ReaderOK, PlaceOK, LastOf
    <2>2. UnseenOK'
      BY <1>1, <1>2, <1>3 DEF ReaderOK, UnseenOK, Reading
    <2> QED  BY <1>1, <2>1, <2>2 DEF ReaderOK, OffOK, BodyOK, EventOK, Reading
  <1>9. AllWhole'
    <2> SUFFICES ASSUME NEW i \in 1..K PROVE got'[i][1].rec \in 1..Len(records) /\ Whole(got'[i])
      BY <1>1, <1>3 DEF AllWhole, Whole, Record
    <2>1. CASE i = K
      <3>1. got'[i] = event /\ event[1].rec = q
        BY <1>1, <1>5, <2>1
      <3> HIDE DEF q
      <3> QED  BY <1>4, <3>1 DEF Whole
    <2>2. CASE i # K
      <3>1. i \in 1..Len(got) /\ got'[i] = got[i]
        BY <1>1, <1>6, <2>2
      <3> QED  BY <1>2, <1>3, <3>1 DEF ToldOK, AllWhole, Whole, Record
    <2> QED  BY <2>1, <2>2
  <1>10. \A i \in 1..Len(got) : got[i][1].k = 0
    BY <1>2, WholeHead DEF ToldOK, AllWhole
  <1>11. CASE unseen
    <2>1. \A p \in 1..Len(Content) : Content[p] # reader.head
      BY <1>1, <1>2, <1>11 DEF ReaderOK, UnseenOK
    <2>2. ToldTo = 0 /\ ToldTo' = 0
      BY <1>3, <1>11 DEF ToldTo
    <2>3. ToldThese'
      <3> SUFFICES ASSUME NEW p \in 1..Len(Content), Content[p].k = 0
                   PROVE  (\E i \in 1..K : got'[i][1] = Content[p]) <=> (base < p /\ p <= 0)
        BY <1>1, <1>3, <2>2 DEF ToldThese
      <3>1. (\E i \in 1..K : got'[i][1] = Content[p]) <=> (\E i \in 1..Len(got) : got[i][1] = Content[p])
        BY <1>1, <1>3, <1>5, <1>6, <2>1
      <3> QED  BY <1>2, <2>2, <3>1 DEF ToldOK, ToldThese
    <2>4. InOrder'
      <3> SUFFICES ASSUME NEW i \in 1..K, NEW j \in 1..K, i < j,
                          NEW a \in 1..Len(Content), NEW b \in 1..Len(Content),
                          Content[a] = got'[i][1], Content[b] = got'[j][1]
                   PROVE  a < b
        BY <1>1, <1>3 DEF InOrder
      <3>1. i \in 1..Len(got) /\ j \in 1..Len(got)
        BY <1>1, <1>5, <1>6, <2>1
      <3> QED  BY <1>1, <1>2, <3>1 DEF ToldOK, InOrder
    <2>5. base' <= ToldTo'
      BY <1>2, <1>3, <2>2 DEF ToldOK
    <2> QED  BY <1>7, <1>8, <1>9, <2>3, <2>4, <2>5 DEF OInv, ToldOK
  <1>12. CASE ~unseen
    <2>1. reader.off <= Len(Content) /\ Content[h] = reader.head
      BY <1>2, <1>4, <1>12 DEF ReaderOK, PlaceOK
    <2>2. h \in 1..Len(Content) /\ h \in Nat /\ reader.off = h + reader.path
      BY <1>3, <1>4, <2>1
    <2>3. ToldTo = h - 1 /\ ToldTo' = reader.off
      <3>1. ToldTo = reader.off - reader.path - 1
        BY <1>1, <1>12 DEF ToldTo
      <3>2. ToldTo' = reader.off
        BY <1>1, <1>3, <1>12 DEF ToldTo, Reading
      <3> QED  BY <1>3, <3>1, <3>2
    <2>4. base <= h - 1
      BY <1>2, <2>3 DEF ToldOK
    <2> HIDE DEF h, q
    <2>5. /\ \A j \in 0..reader.path : h + j <= Len(Content) => Content[h + j] = Cell(q, j)
          /\ \A j \in 1..Len(Content) : Content[j] = reader.head => j = h
      <3>1. Content[h].k = 0 /\ Content[h].rec = q /\ records[q] = reader.path
        BY <1>4, <1>5, <2>1 DEF q
      <3>2. Content[h].k = 0 =>
              /\ \A j \in 0..records[Content[h].rec] :
                    h + j <= Len(Content) => Content[h + j] = Cell(Content[h].rec, j)
              /\ \A j \in 1..Len(Content) : Content[j] = Content[h] => j = h
        BY <1>3, <2>2 DEF Sound
      <3> QED  BY <2>1, <3>1, <3>2
    <2>6. \A p \in 1..Len(Content) : Content[p].k = 0 =>
             ((\E i \in 1..Len(got) : got[i][1] = Content[p]) <=> (base < p /\ p <= h - 1))
      BY <1>2, <2>3 DEF ToldOK, ToldThese
    <2>7. ToldThese'
      <3> SUFFICES ASSUME NEW p \in 1..Len(Content), Content[p].k = 0
                   PROVE  (\E i \in 1..K : got'[i][1] = Content[p]) <=> (base < p /\ p <= reader.off)
        BY <1>1, <1>3, <2>3 DEF ToldThese
      <3>1. p \in Nat /\ p >= 1
        BY <1>3
      <3>2. CASE p = h
        <4>1. got'[K][1] = Content[p] /\ K \in 1..K
          BY <1>1, <1>3, <1>5, <2>1, <3>2
        <4>2. base < p /\ p <= reader.off
          BY <1>3, <2>2, <2>4, <3>2
        <4> QED  BY <4>1, <4>2
      <3>3. CASE p # h
        <4>1. (\E i \in 1..K : got'[i][1] = Content[p]) <=> (\E i \in 1..Len(got) : got[i][1] = Content[p])
          BY <1>1, <1>3, <1>5, <1>6, <2>5, <3>3
        <4>2. ~(h < p /\ p <= reader.off)
          <5> SUFFICES ASSUME h < p, p <= reader.off PROVE FALSE
            OBVIOUS
          <5> DEFINE j == p - h
          <5>1. j \in 0..reader.path /\ h + j = p /\ j # 0 /\ j \in Nat
            BY <1>3, <2>2, <3>1
          <5> HIDE DEF j
          <5>2. Content[p] = Cell(q, j)
            BY <2>5, <5>1
          <5>3. q \in Nat
            BY <1>4
          <5> QED  BY <5>1, <5>2, <5>3, CellIs
        <4>3. (base < p /\ p <= h - 1) <=> (base < p /\ p <= reader.off)
          BY <1>3, <2>2, <3>1, <3>3, <4>2
        <4> QED  BY <2>6, <4>1, <4>3
      <3> QED  BY <3>2, <3>3
    <2>8. InOrder'
      <3> SUFFICES ASSUME NEW i \in 1..K, NEW j \in 1..K, i < j,
                          NEW a \in 1..Len(Content), NEW b \in 1..Len(Content),
                          Content[a] = got'[i][1], Content[b] = got'[j][1]
                   PROVE  a < b
        BY <1>1, <1>3 DEF InOrder
      <3>1. i \in 1..Len(got) /\ got'[i] = got[i]
        <4>1. i # K
          BY <1>3
        <4> QED  BY <1>1, <1>6, <4>1
      <3>2. CASE j = K
        <4>1. b = h
          BY <1>1, <1>5, <2>5, <3>2
        <4>2. Content[a].k = 0
          BY <1>10, <3>1
        <4>3. a <= h - 1
          BY <2>6, <3>1, <4>2
        <4> QED  BY <1>3, <2>2, <4>1, <4>3
      <3>3. CASE j # K
        <4>1. j \in 1..Len(got) /\ got'[j] = got[j]
          BY <1>1, <1>6, <3>3
        <4> QED  BY <1>2, <3>1, <4>1 DEF ToldOK, InOrder
      <3> QED  BY <3>2, <3>3
    <2>9. base' <= ToldTo'
      BY <1>3, <2>2, <2>3, <2>4
    <2> QED  BY <1>7, <1>8, <1>9, <2>7, <2>8, <2>9 DEF OInv, ToldOK
  <1> QED  BY <1>11, <1>12

LEMMA EndingOrder == ASSUME IInv, OInv, End \/ Close PROVE OInv'
  <1>1. /\ ByReader /\ UNCHANGED <<got, order>> /\ ~Reading("off") /\ reader'.off = reader.off
        /\ reader' = reader \/ (Reading("look") /\ reader'.at = "ended")
    BY EndingTypes
  <1> SUFFICES ASSUME ~blurred PROVE OInv'
    BY <1>1 DEF OInv, order
  <1>2. FilesSound /\ (\A s \in Residents : Owned(s)) /\ ReaderOK /\ ToldOK
    BY DEF OInv
  <1>3. Content' = Content /\ UNCHANGED <<records, base, unseen, name, got, files>>
    BY <1>1 DEF ByReader, store, Content, order
  <1>4. FilesSound' /\ \A s \in Residents' : Owned(s)'
    BY <1>1, <1>2, <1>3, ReadOwned
  <1>5. CASE reader' = reader
    <2>1. ReaderOK'
      BY <1>2, <1>3, <1>5 DEF ReaderOK, OffOK, UnseenOK, PlaceOK, BodyOK, EventOK, Reading, LastOf, Record
    <2>2. ToldTo' = ToldTo
      BY <1>3, <1>5 DEF ToldTo, Reading
    <2> QED  BY <1>2, <1>3, <1>4, <2>1, <2>2, SameTold DEF OInv
  <1>6. CASE Reading("look") /\ reader'.at = "ended"
    <2>1. ReaderOK'
      BY <1>1, <1>2, <1>3, <1>6 DEF ReaderOK, OffOK, UnseenOK, PlaceOK, BodyOK, EventOK, Reading, LastOf
    <2>2. ToldTo' = ToldTo
      BY <1>1, <1>3, <1>6 DEF ToldTo, Reading
    <2> QED  BY <1>2, <1>3, <1>4, <2>1, <2>2, SameTold DEF OInv
  <1> QED  BY <1>1, <1>5, <1>6

LEMMA NextOrder == ASSUME IInv, OInv, [Next]_vars PROVE OInv'
  <1>1. ASSUME NEW m \in Managers, Manage(m) PROVE OInv'
    BY <1>1, ManageOrder
  <1>2. ASSUME NEW s \in Residents, Serve(s) \/ Open(s) \/ Write(s) \/ WriteFails(s) \/ Die(s)
        PROVE  OInv'
    BY <1>2, RestingOrder, OpenOrder, WriteOrder
  <1>3. CASE On \/ Reader \/ Close
    BY <1>3, OnOrder, LookOrder, HeadOrder, BodyOrder, CallOrder, EndingOrder DEF Reader
  <1>4. CASE UNCHANGED vars
    <2>1. /\ UNCHANGED <<files, name, records, resident, reader, got, base, unseen, blurred>>
          /\ Content' = Content
      BY <1>4 DEF vars, store, reading, order, Content
    <2>2. ToldTo' = ToldTo
      BY <2>1 DEF ToldTo, Reading
    <2>3. ToldOK => ToldOK'
      BY <2>1, <2>2, SameTold
    <2>4. ReaderOK => ReaderOK'
      BY <2>1 DEF ReaderOK, OffOK, UnseenOK, PlaceOK, BodyOK, EventOK, Reading, LastOf, Record
    <2>5. FilesSound => FilesSound'
      BY <2>1 DEF FilesSound
    <2>6. (\A s \in Residents : Owned(s)) => \A s \in Residents' : Owned(s)'
      BY <2>1 DEF Residents, Owned, At, Unbegun
    <2> QED  BY <2>1, <2>3, <2>4, <2>5, <2>6 DEF OInv
  <1> QED  BY <1>1, <1>2, <1>3, <1>4 DEF Next

\* What kc_wch_subscription_worker calls the handler with are whole events, in the
\* order of the file and with none left out since the subscription or the last
\* replacement, through short and failed writes, failed and dying managers and
\* replacements, as long as no race that the format does not survive has happened.
THEOREM ToldInOrder == Spec => []EventsInOrder
  <1>1. IInv /\ OInv => EventsInOrder
    <2> SUFFICES ASSUME IInv, OInv, ~blurred
                 PROVE  /\ \A i \in DOMAIN got : Whole(got[i])
                        /\ \A i, j \in DOMAIN got : i < j =>
                               \A p \in Places(i), q \in Places(j) : p < q
                        /\ \A i \in DOMAIN got : \A p \in Places(i) :
                               /\ base < p
                               /\ \A q \in base + 1 .. p - 1 : Content[q].k = 0 =>
                                      \E j \in DOMAIN got : got[j][1] = Content[q]
      BY DEF EventsInOrder
    <2>1. /\ DOMAIN got = 1..Len(got) /\ DOMAIN Content = 1..Len(Content) /\ Len(Content) \in Nat
          /\ base \in Nat
      BY ContentIs DEF IInv, ReaderType, FlagType
    <2>2. ToldOK
      BY DEF OInv
    <2>3. ASSUME NEW i \in 1..Len(got), NEW p \in Places(i)
          PROVE  p \in 1..Len(Content) /\ Content[p] = got[i][1] /\ Content[p].k = 0
      BY <2>1, <2>2, WholeHead DEF ToldOK, AllWhole, Places
    <2>4. \A i \in DOMAIN got : Whole(got[i])
      BY <2>1, <2>2 DEF ToldOK, AllWhole
    <2>5. ASSUME NEW i \in 1..Len(got), NEW j \in 1..Len(got), i < j,
                 NEW p \in Places(i), NEW q \in Places(j)
          PROVE  p < q
      BY <2>2, <2>3, <2>5 DEF ToldOK, InOrder
    <2>6. ASSUME NEW i \in 1..Len(got), NEW p \in Places(i)
          PROVE  /\ base < p
                 /\ \A q \in base + 1 .. p - 1 : Content[q].k = 0 =>
                        \E j \in 1..Len(got) : got[j][1] = Content[q]
      <3>1. p \in 1..Len(Content) /\ base < p /\ p <= ToldTo
        BY <2>2, <2>3 DEF ToldOK, ToldThese
      <3>2. ToldTo \in Int
        BY ReaderIs DEF ToldTo
      <3>3. ASSUME NEW q \in base + 1 .. p - 1, Content[q].k = 0
            PROVE  \E j \in 1..Len(got) : got[j][1] = Content[q]
        <4>1. q \in 1..Len(Content) /\ base < q /\ q <= ToldTo
          BY <2>1, <3>1, <3>2
        <4> QED  BY <2>2, <3>3, <4>1 DEF ToldOK, ToldThese
      <3> QED  BY <3>1, <3>3
    <2> QED  BY <2>1, <2>4, <2>5, <2>6
  <1>2. Spec => []OInv
    BY Inductive, InitOrder, NextOrder, PTL DEF Spec
  <1> QED  BY <1>1, <1>2, Inductive, PTL

====
