-------------------------------- MODULE Wch --------------------------------
(***************************************************************************)
(* libwch: one named watcher.  A resident process appends an event record  *)
(* to a file for every change it is told of.  A subscriber in another      *)
(* process polls the file at an offset of its own and calls a handler per  *)
(* record.  Managers (processes in kc_wch_create, kc_wch_set_path,         *)
(* kc_wch_set_cmd, kc_wch_set_recursive or kc_wch_delete) replace the      *)
(* resident and empty or remove the file meanwhile; nothing locks it.      *)
(*                                                                         *)
(* The file is a sequence of cells: a record is a header cell and one cell *)
(* per unit of its path.  A write may be short, and the next one goes on.  *)
(* SIGTERM takes effect later than the kill that sends it.                 *)
(***************************************************************************)
EXTENDS Integers, Sequences

CONSTANTS
    Managers,  \* processes that manage the watcher
    MaxPath,   \* bound: cells of a path
    Loads      \* bound: the calls, events and faults of a behaviour

\* managers: who calls; updates, deletes: calls left; events: records left;
\* short: writes that do less than they are asked; fail: writes, forks, starts
\* and files that fail; crash: managers that die within a call.
Load == [managers : SUBSET Managers, updates : Nat, deletes : Nat, events : Nat,
         short : Nat, fail : Nat, crash : Nat]

ASSUME WchAssumption ==
    /\ MaxPath \in Nat \ {0}
    /\ \A load \in Loads : load \in Load

VARIABLES
    files,     \* the contents of every event file there has been
    name,      \* the file that the path names, or 0
    meta,      \* whether the registration is there
    pid,       \* the resident the pid file names, or 0
    resident,  \* the residents forked so far
    mgr,       \* the call each manager is at
    reader,    \* the subscription's thread
    stop,      \* w->stop
    got,       \* the events the handler was called with
    records,   \* the paths' sizes of the records begun so far
    base,      \* history: the end of the file when the subscription joined it
    unseen,    \* history: the file was emptied behind the reader's offset
    blurred,   \* history: a race the format does not survive has happened
    raced,     \* history: two managers were in a call at once
    orphaned,  \* history: a manager has died in a call
    last,      \* history: the last call that succeeded, "none" within a call
    budget     \* bounds: calls, events and faults left

store   == <<files, name, meta, pid>>
reading == <<reader, stop, got>>
order   == <<base, unseen, blurred>>
calls   == <<raced, orphaned, last>>
vars == <<store, resident, mgr, reading, records, order, calls, budget>>

Residents == 1..Len(resident)
Spend(what) == budget[what] > 0 /\ budget' = [budget EXCEPT ![what] = @ - 1]

\* Cell k of record r; cell 0 is its header.
Cell(r, k) == [rec |-> r, k |-> k]
Record(r)  == [i \in 1..records[r] + 1 |-> Cell(r, i - 1)]
Content    == IF name = 0 THEN <<>> ELSE files[name]
LastOf(cell) == cell.k = records[cell.rec]

\* Whether a cell continues a file: a header after a whole record, or the next
\* cell of the record at its end.
Follows(file, cell) ==
    IF file = <<>> THEN cell.k = 0
    ELSE LET end == file[Len(file)]
         IN  IF LastOf(end) THEN cell.k = 0
             ELSE cell.rec = end.rec /\ cell.k = end.k + 1

Idle == [op |-> "none", step |-> "idle", new |-> 0]

-----------------------------------------------------------------------------
Init ==
    /\ files = <<>> /\ name = 0 /\ meta = FALSE /\ pid = 0
    /\ resident = <<>>
    /\ mgr = [m \in Managers |-> Idle]
    /\ reader = [at |-> "off", off |-> 0, size |-> 0, fd |-> 0, path |-> 0,
                 head |-> Cell(0, 0), body |-> <<>>]
    /\ stop = FALSE /\ got = <<>> /\ records = <<>>
    /\ base = 0 /\ unseen = FALSE /\ blurred = FALSE
    /\ raced = FALSE /\ orphaned = FALSE /\ last = "none"
    /\ budget \in Loads

-----------------------------------------------------------------------------
(* The managers: kc_wch_run_update and kc_wch_run_delete. *)

Managing(m, step) == mgr[m].step = step
Goto(m, step) == mgr' = [mgr EXCEPT ![m].step = step]
Return(m) == mgr' = [mgr EXCEPT ![m] = Idle]
ByManager == UNCHANGED <<reading, records, raced, orphaned>>

Begin(m, op) ==
    /\ mgr[m] = Idle /\ m \in budget.managers
    /\ Spend(op)
    /\ mgr' = [mgr EXCEPT ![m] = [Idle EXCEPT !.op = op, !.step = "stop"]]
    /\ raced' = (raced \/ \E n \in Managers : n # m /\ mgr[n] # Idle)
    /\ last' = "none"
    /\ UNCHANGED <<store, resident, reading, records, order, orphaned>>

\* Mutant: the old resident is left alone.
StopSkipped(m) ==
    /\ Managing(m, "stop")
    /\ Goto(m, IF mgr[m].op = "updates" THEN "register" ELSE "remove_meta")
    /\ ByManager /\ UNCHANGED <<store, resident, order, last, budget>>

\* The process that the pid file names is sent SIGTERM; nobody waits for it.
Stop(m) ==
    /\ Managing(m, "stop")
    /\ Goto(m, IF mgr[m].op = "updates" THEN "register" ELSE "remove_meta")
    /\ resident' = IF pid = 0 THEN resident ELSE [resident EXCEPT ![pid].doomed = TRUE]
    /\ ByManager /\ UNCHANGED <<store, order, last, budget>>

\* kc_wch_write_registration and kc_wch_reset_events; a call whose file fails
\* returns at once.  The registration is truncated first: what fails or dies here
\* may leave none that can be read.
Torn == {meta, FALSE}

Register(m) ==
    /\ Managing(m, "register")
    /\ \/ meta' = TRUE /\ Goto(m, "reset") /\ UNCHANGED budget
       \/ meta' \in Torn /\ Spend("fail") /\ Return(m)
    /\ ByManager /\ UNCHANGED <<files, name, pid, resident, order, last>>

\* The reader has not read past the start, or finds the file shorter than its
\* offset before that fills again; a file that is emptied between a record's
\* header and its body gives it a mixture.
Emptied ==
    /\ base' = 0
    /\ unseen' = (unseen \/ reader.off > 0)
    /\ blurred' = (blurred \/ reader.at = "body")

Reset(m) ==
    /\ Managing(m, "reset")
    /\ \/ /\ IF name = 0 THEN files' = Append(files, <<>>) /\ name' = Len(files) + 1
             ELSE files' = [files EXCEPT ![name] = <<>>] /\ UNCHANGED name
          /\ Goto(m, "fork") /\ Emptied /\ UNCHANGED budget
       \/ Spend("fail") /\ Return(m) /\ UNCHANGED <<files, name, order>>
    /\ ByManager /\ UNCHANGED <<meta, pid, resident, last>>

Fork(m) ==
    /\ Managing(m, "fork")
    /\ \/ /\ resident' = Append(resident, [at |-> "starting", doomed |-> FALSE,
                                           fd |-> 0, rec |-> 0, done |-> 0])
          /\ mgr' = [mgr EXCEPT ![m].step = "pid", ![m].new = Len(resident) + 1]
          /\ UNCHANGED budget
       \/ Spend("fail") /\ Goto(m, "remove_meta") /\ UNCHANGED resident
    /\ ByManager /\ UNCHANGED <<store, order, last>>

\* kc_wch_write_pid; without it the new resident is stopped and the state
\* removed.
WritePid(m) ==
    /\ Managing(m, "pid")
    /\ \/ /\ pid' = mgr[m].new /\ last' = "updates"
          /\ Return(m) /\ UNCHANGED <<resident, budget>>
       \/ /\ Spend("fail") /\ Goto(m, "remove_meta")
          /\ resident' = [resident EXCEPT ![mgr[m].new].doomed = TRUE]
          /\ UNCHANGED <<pid, last>>
    /\ ByManager /\ UNCHANGED <<files, name, meta, order>>

\* kc_wch_remove_state: the registration and the pid file go first.
RemoveMeta(m) ==
    /\ Managing(m, "remove_meta") /\ Goto(m, "remove_events")
    /\ meta' = FALSE /\ pid' = 0
    /\ ByManager /\ UNCHANGED <<files, name, resident, order, last, budget>>

RemoveEvents(m) ==
    /\ Managing(m, "remove_events") /\ Return(m)
    /\ name' = 0
    /\ IF name = 0 THEN UNCHANGED order ELSE Emptied
    /\ last' = IF mgr[m].op = "deletes" THEN "deletes" ELSE last
    /\ ByManager /\ UNCHANGED <<files, meta, pid, resident, budget>>

ManagerDies(m) ==
    /\ mgr[m] # Idle
    /\ Spend("crash")
    /\ Return(m) /\ orphaned' = TRUE
    /\ meta' \in IF Managing(m, "register") THEN Torn ELSE {meta}
    /\ UNCHANGED <<files, name, pid, resident, reading, records, order, raced, last>>

-----------------------------------------------------------------------------
(* The residents: kc_wch_serve_resident and kc_wch_append_event. *)

At(s, place) == resident[s].at = place
ByResident == UNCHANGED <<meta, pid, mgr, reading, calls>>

\* The registration is read and observation starts, or the process ends.
Serve(s) ==
    /\ At(s, "starting")
    /\ \/ /\ resident' = [resident EXCEPT ![s].at = IF meta THEN "idle" ELSE "dead"]
          /\ UNCHANGED budget
       \/ /\ Spend("fail")
          /\ resident' = [resident EXCEPT ![s].at = "dead"]
    /\ ByResident /\ UNCHANGED <<files, name, records, order>>

\* A change is reported: the file is opened, and made if it is not there.
Open(s) ==
    /\ At(s, "idle")
    /\ Spend("events")
    /\ \E size \in 1..MaxPath : records' = Append(records, size)
    /\ IF name = 0 THEN files' = Append(files, <<>>) /\ name' = Len(files) + 1
       ELSE UNCHANGED <<files, name>>
    /\ resident' = [resident EXCEPT ![s] =
          [@ EXCEPT !.at = "writing", !.fd = name', !.rec = Len(records) + 1, !.done = 0]]
    /\ ByResident /\ UNCHANGED order

\* Cells are appended, all that are left unless the write is short.
Write(s) ==
    /\ At(s, "writing")
    /\ LET r     == resident[s]
           cells == Record(r.rec)
           file  == files[r.fd]
       IN  \E n \in 1..Len(cells) - r.done :
             LET done == r.done + n
                 new  == file \o SubSeq(cells, r.done + 1, done)
             IN  /\ IF done < Len(cells) THEN Spend("short") ELSE UNCHANGED budget
                 /\ files' = [files EXCEPT ![r.fd] = new]
                 /\ resident' = [resident EXCEPT ![s].done = done,
                        ![s].at = IF done = Len(cells) THEN "idle" ELSE "writing"]
                 /\ blurred' = (blurred
                        \/ ~Follows(file, cells[r.done + 1])
                        \/ (r.fd = name /\ unseen /\ Len(new) >= reader.off))
    /\ ByResident /\ UNCHANGED <<name, records, base, unseen>>

\* A write fails for good and leaves what it has appended.
WriteFails(s) ==
    /\ At(s, "writing")
    /\ Spend("fail")
    /\ resident' = [resident EXCEPT ![s].at = "idle"]
    /\ ByResident /\ UNCHANGED <<files, name, records, order>>

\* SIGTERM takes effect.
Die(s) ==
    /\ ~At(s, "dead") /\ resident[s].doomed
    /\ resident' = [resident EXCEPT ![s].at = "dead"]
    /\ ByResident /\ UNCHANGED <<files, name, records, order, budget>>

-----------------------------------------------------------------------------
(* The subscriber: kc_wch_on, kc_wch_subscription_worker, kc_wch_read_event  *)
(* and kc_wch_close.                                                         *)

Reading(place) == reader.at = place
ByReader == UNCHANGED <<store, resident, mgr, records, calls, budget>>
Again == reader' = [reader EXCEPT !.at = "look"]

\* The subscription starts at the end of the file, wherever a write has left it.
On ==
    /\ Reading("off") /\ meta
    /\ reader' = [reader EXCEPT !.at = "look", !.off = Len(Content)]
    /\ base' = Len(Content)
    /\ blurred' = (blurred \/ (Content # <<>> /\ ~LastOf(Content[Len(Content)])))
    /\ ByReader /\ UNCHANGED <<stop, got, unseen>>

\* Mutant: a file that is shorter than the offset is not noticed.
LookAhead ==
    /\ Reading("look") /\ ~stop
    /\ IF Len(Content) > reader.off
       THEN reader' = [reader EXCEPT !.at = "head", !.size = Len(Content)]
       ELSE UNCHANGED reader
    /\ unseen' = FALSE
    /\ ByReader /\ UNCHANGED <<stop, got, base, blurred>>

\* The size of the file is taken; a file shorter than the offset is a new one.
Look ==
    /\ Reading("look") /\ ~stop
    /\ LET size == Len(Content)
           off  == IF size < reader.off THEN 0 ELSE reader.off
       IN  reader' = [reader EXCEPT !.off = off, !.size = size,
                                    !.at = IF size > off THEN "head" ELSE "look"]
    /\ unseen' = FALSE
    /\ ByReader /\ UNCHANGED <<stop, got, base, blurred>>

\* The header at the offset is read.  What is none gives any size: one that the
\* size of the file refutes, one that no path has, at which the thread ends, or
\* one that happens to fit.
ReadHead ==
    /\ Reading("head")
    /\ IF Len(Content) <= reader.off THEN Again
       ELSE LET cell == Content[reader.off + 1]
                left == reader.size - reader.off - 1
            IN  \E n \in IF cell.k = 0 THEN {records[cell.rec]} ELSE 0..MaxPath + 1 :
                  IF n > left THEN Again
                  ELSE IF n > MaxPath THEN reader' = [reader EXCEPT !.at = "ended"]
                  ELSE reader' = [reader EXCEPT !.at = "body", !.fd = name,
                                                !.head = cell, !.path = n]
    /\ ByReader /\ UNCHANGED <<stop, got, order>>

\* Mutant: the offset goes past the path but not past the header.
ReadBodyShort ==
    /\ Reading("body")
    /\ LET end == reader.off + 1 + reader.path IN
         IF Len(files[reader.fd]) < end THEN Again
         ELSE reader' = [reader EXCEPT !.at = "call", !.off = end - 1,
                  !.body = SubSeq(files[reader.fd], reader.off + 2, end)]
    /\ ByReader /\ UNCHANGED <<stop, got, order>>

\* The path is read, and the offset goes past the record.
ReadBody ==
    /\ Reading("body")
    /\ LET end == reader.off + 1 + reader.path IN
         IF Len(files[reader.fd]) < end THEN Again
         ELSE reader' = [reader EXCEPT !.at = "call", !.off = end,
                  !.body = SubSeq(files[reader.fd], reader.off + 2, end)]
    /\ ByReader /\ UNCHANGED <<stop, got, order>>

\* The handler is called.
Call ==
    /\ Reading("call")
    /\ got' = Append(got, <<reader.head>> \o reader.body)
    /\ Again
    /\ ByReader /\ UNCHANGED <<stop, order>>

End ==
    /\ Reading("look") /\ stop
    /\ reader' = [reader EXCEPT !.at = "ended"]
    /\ ByReader /\ UNCHANGED <<stop, got, order>>

\* kc_wch_close asks the thread to end; it returns when the thread has.
Close ==
    /\ ~Reading("off") /\ ~stop
    /\ stop' = TRUE
    /\ ByReader /\ UNCHANGED <<reader, got, order>>

-----------------------------------------------------------------------------
Manage(m) ==
    \/ \E op \in {"updates", "deletes"} : Begin(m, op)
    \/ Stop(m) \/ Register(m) \/ Reset(m) \/ Fork(m) \/ WritePid(m)
    \/ RemoveMeta(m) \/ RemoveEvents(m) \/ ManagerDies(m)

Reader == Look \/ ReadHead \/ ReadBody \/ Call \/ End

Next ==
    \/ \E m \in Managers : Manage(m)
    \/ \E s \in Residents : Serve(s) \/ Open(s) \/ Write(s) \/ WriteFails(s) \/ Die(s)
    \/ On \/ Reader \/ Close

Spec == Init /\ [][Next]_vars

\* Processes and threads run: a resident starts, writes on what it has begun
\* and dies of its signal; the subscription's thread polls.  Nobody has to call,
\* and no change has to happen.
FairSpec ==
    /\ Spec
    /\ WF_vars(\E s \in Residents : Serve(s) \/ Write(s) \/ Die(s))
    /\ WF_vars(Reader)

-----------------------------------------------------------------------------
(* Properties. *)

TypeOK ==
    /\ name \in 0..Len(files) /\ pid \in 0..Len(resident)
    /\ meta \in BOOLEAN /\ stop \in BOOLEAN
    /\ \A s \in Residents : resident[s].at \in {"starting", "idle", "writing", "dead"}
    /\ reader.at \in {"off", "look", "head", "body", "call", "ended"}

Whole(event) == event = Record(event[1].rec)

\* Where in the file the record starts that the handler's i-th event is of:
\* nowhere, once the file was emptied.
Places(i) == {p \in DOMAIN Content : Content[p] = got[i][1]}

\* What the handler is called with are the events as they were appended, each
\* whole, in order, none twice and none left out since the subscription or the
\* last replacement of the watcher, whatever short writes, failed writes and
\* replacements happen meanwhile; unless two residents' writes mix, a record is
\* never completed, the file is emptied between a record's header and its body,
\* the subscription starts within a record, or a replaced file grows past the
\* reader's offset before it looks.
EventsInOrder ==
    ~blurred =>
        /\ \A i \in DOMAIN got : Whole(got[i])
        /\ \A i, j \in DOMAIN got : i < j =>
               \A p \in Places(i), q \in Places(j) : p < q
        /\ \A i \in DOMAIN got : \A p \in Places(i) :
               /\ base < p
               /\ \A q \in base + 1 .. p - 1 : Content[q].k = 0 =>
                      \E j \in DOMAIN got : got[j][1] = Content[q]

\* Record r is in the file, behind those that the subscription passes over.
Present(r) ==
    /\ \E i \in base + 1 .. Len(Content) : Content[i] = Cell(r, 0)
    /\ \E i \in DOMAIN Content : Content[i].rec = r /\ LastOf(Content[i])

Told(r) == \E i \in DOMAIN got : got[i][1] = Cell(r, 0) /\ Whole(got[i])

\* An event that is appended while a handler is subscribed reaches it, unless the
\* handle is closed or the watcher replaced first, or one of the races of
\* EventsInOrder has happened: after a record that is never completed, and is
\* followed by another, or a file that has grown again unseen, events may be lost.
EventReaches(r) ==
    Present(r) /\ ~Reading("off") ~> Told(r) \/ ~Present(r) \/ stop \/ blurred

AtRest == \A m \in Managers : mgr[m] = Idle
Up(s)  == ~At(s, "dead") /\ ~resident[s].doomed

\* Between the calls of managers that come one after the other, none of which
\* dies, no resident runs that the pid file does not name, however they fail:
\* each call stops what it replaces and what it could not register.  After a
\* delete none runs and nothing is registered.
OneResident ==
    AtRest /\ ~raced /\ ~orphaned =>
        /\ {s \in Residents : Up(s)} \subseteq {pid}
        /\ last = "updates" => meta /\ pid # 0 /\ ~resident[pid].doomed
        /\ last = "deletes" => ~meta /\ pid = 0

=============================================================================
