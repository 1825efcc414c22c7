----------------------------- MODULE PactProofs -----------------------------
(***************************************************************************)
(* Proofs about Pact, for any number of processes, joins and faults: the   *)
(* records stay well formed, an invitation is confirmed at most once, it   *)
(* is never stranded, a confirmed relationship works both ways, and a      *)
(* revoked one stays off.                                                  *)
(***************************************************************************)
EXTENDS Pact, TLAPS

\* A step leaves the pending record of the inviter alone, or removes it.
PendingKept == \/ file'["inviter"]["pending"] = file["inviter"]["pending"]
               \/ file'["inviter"]["pending"].have = "none"

\* Writing or removing one record keeps the stores well formed.
LEMMA PutType ==
    ASSUME file \in [Stores -> [Kinds -> File]],
           NEW s \in Stores, NEW k \in Kinds, NEW f \in File, Put(s, k, f)
    PROVE  /\ file' \in [Stores -> [Kinds -> File]]
           /\ <<s, k>> # <<"inviter", "pending">> =>
                  file'["inviter"]["pending"] = file["inviter"]["pending"]
           /\ file'[s][k] = f
  BY DEF Put, Stores, Kinds

\* An unlink changes one record only, and only to absent.
LEMMA UnlinkType ==
    ASSUME Wellformed, NEW s \in Stores, NEW k \in Kinds, NEW ok \in BOOLEAN,
           Unlink(s, k, ok)
    PROVE  /\ file' \in [Stores -> [Kinds -> File]]
           /\ budget' \in [crash : 0..MaxCrashes, space : 0..MaxNoSpace,
                           stuck : 0..MaxStuck]
           /\ PendingKept
           /\ ok => file[s][k].have # "none" /\ file'[s][k].have = "none"
  <1>1. Absent \in File  BY DEF Absent, File
  <1>2. CASE ok /\ file[s][k].have # "none" /\ Put(s, k, Absent) /\ UNCHANGED budget
    BY <1>1, <1>2, PutType DEF Wellformed, PendingKept, Absent
  <1>3. CASE ~ok /\ UNCHANGED <<file, budget>>
    BY <1>3 DEF Wellformed, PendingKept
  <1>4. CASE ~ok /\ budget.stuck > 0 /\ Spend("stuck") /\ UNCHANGED file
    BY <1>4, BoundsAssumption DEF Wellformed, PendingKept, Spend
  <1> QED  BY <1>2, <1>3, <1>4 DEF Unlink


-----------------------------------------------------------------------------
(* How a step changes the calls under way. *)

\* A call that goes on is a call of the same operation.
LEMMA OnwardType ==
    ASSUME NEW op, NEW S, NEW steps, NEW r \in Jobs(op, S, steps),
           NEW step \in steps, NEW open \in BOOLEAN, NEW removed \in BOOLEAN
    PROVE  /\ [r EXCEPT !.step = step, !.open = open] \in Jobs(op, S, steps)
           /\ [r EXCEPT !.step = step, !.removed = removed] \in Jobs(op, S, steps)
           /\ [r EXCEPT !.open = open] \in Jobs(op, S, steps)
  BY DEF Jobs

\* It is the only change.
LEMMA OnwardCalls ==
    ASSUME job \in [Procs -> Job \cup {Idle}], NEW p \in Procs,
           NEW op, NEW S, NEW steps, Jobs(op, S, steps) \subseteq Job,
           job[p] \in Jobs(op, S, steps), NEW j \in Jobs(op, S, steps),
           job' = [job EXCEPT ![p] = j]
    PROVE  /\ job' \in [Procs -> Job \cup {Idle}]
           /\ \A o : Calls(o)' = Calls(o)
  <1>1. j.op = op /\ job[p].op = op
    BY DEF Jobs
  <1>2. \A q \in Procs : job'[q].op = job[q].op
    BY <1>1
  <1> QED  BY <1>2 DEF Calls

\* A call that ends leaves the others as they are.
LEMMA ReturnType ==
    ASSUME job \in [Procs -> Job \cup {Idle}], NEW p \in Procs, Return(p)
    PROVE  /\ job' \in [Procs -> Job \cup {Idle}]
           /\ \A o : o # "none" => Calls(o)' \subseteq Calls(o)
  BY DEF Return, Idle, Calls

\* A call that begins is the only change.
LEMMA CallType ==
    ASSUME job \in [Procs -> Job \cup {Idle}], NEW p \in Procs, NEW j \in Job, NEW op, j.op = op,
           job[p] = Idle, job' = [job EXCEPT ![p] = j]
    PROVE  /\ job' \in [Procs -> Job \cup {Idle}]
           /\ Calls(op)' = Calls(op) \cup {p}
           /\ \A o : o \notin {"none", op} => Calls(o)' = Calls(o)
  BY DEF Idle, Calls

\* The step tells the operation.
LEMMA StepOfJob ==
    ASSUME Wellformed, NEW p \in Procs, job[p] # Idle
    PROVE  /\ job[p] \in Job
           /\ job[p].step \in {"pending", "undo_pending"} =>
                  job[p] \in Jobs("invite", {"inviter"}, InviteStep)
           /\ job[p].step \in {"commit", "undo_local"} =>
                  job[p] \in Jobs("confirm", {"inviter"}, ConfirmStep)
           /\ job[p].step \in {"peer", "local", "undo_peer"} =>
                  \/ job[p] \in Jobs("join", {"joiner"}, JoinStep)
                  \/ job[p] \in Jobs("confirm", {"inviter"}, ConfirmStep)
           /\ job[p].step = "answer" =>
                  \/ job[p] \in Jobs("invite", {"inviter"}, InviteStep)
                  \/ job[p] \in Jobs("join", {"joiner"}, JoinStep)
           /\ job[p].step \in RevokeStep =>
                  job[p] \in Jobs("revoke", Stores, RevokeStep)
  BY DEF Wellformed, Job, Jobs, InviteStep, JoinStep, ConfirmStep, RevokeStep

-----------------------------------------------------------------------------
(* The invariant is inductive. *)

\* A step that begins no call, returns nothing and does not bring the pending
\* record back is safe.
LEMMA Quiet ==
    ASSUME IInv, Wellformed', UNCHANGED <<asked, code, issued, confirms>>,
           \A o : o # "none" => Calls(o)' \subseteq Calls(o),
           PendingKept \/ ~code
    PROVE  IInv'
  <1>1. OneInvite'
    BY DEF IInv, OneInvite
  <1>2. Spent'
    BY DEF IInv, Spent, PendingKept, Wellformed, OneUse
  <1>3. OneUse'
    BY DEF IInv, OneUse
  <1> QED  BY <1>1, <1>2, <1>3 DEF IInv

\* What Goto and Return do to the calls.
LEMMA GotoStep ==
    ASSUME Wellformed, NEW p \in Procs, NEW op, NEW S, NEW steps,
           Jobs(op, S, steps) \subseteq Job, job[p] \in Jobs(op, S, steps),
           NEW step \in steps, Goto(p, step)
    PROVE  /\ job' \in [Procs -> Job \cup {Idle}]
           /\ \A o : Calls(o)' = Calls(o)
  <1> DEFINE j == [job[p] EXCEPT !.step = step, !.open = FALSE]
  <1>1. j \in Jobs(op, S, steps)
    BY OnwardType
  <1>2. job' = [job EXCEPT ![p] = j]
    BY DEF Goto
  <1> HIDE DEF j
  <1> QED  BY <1>1, <1>2, OnwardCalls DEF Wellformed

\* The kinds of calls, named once.
LEMMA JobKinds ==
    /\ Jobs("invite", {"inviter"}, InviteStep) \subseteq Job
    /\ Jobs("join", {"joiner"}, JoinStep) \subseteq Job
    /\ Jobs("confirm", {"inviter"}, ConfirmStep) \subseteq Job
    /\ Jobs("revoke", Stores, RevokeStep) \subseteq Job
  BY DEF Job

\* An invite under way means that the code is not out.
LEMMA Inviting ==
    ASSUME IInv, NEW p \in Procs, job[p] \in Jobs("invite", {"inviter"}, InviteStep)
    PROVE  ~code /\ p \in Calls("invite")
  BY DEF IInv, OneInvite, Calls, Jobs

LEMMA InviteSafe ==
    ASSUME IInv, NEW p \in Procs, Invite(p)
    PROVE  IInv'
  <1> DEFINE j == Call("invite", "inviter", "pending", 0)
  <1>1. j \in Job /\ j.op = "invite"
    BY DEF Call, Job, Jobs, InviteStep, Stores
  <1> HIDE DEF j
  <1>2. /\ job' \in [Procs -> Job \cup {Idle}]
        /\ Calls("invite")' = Calls("invite") \cup {p}
        /\ \A o : o \notin {"none", "invite"} => Calls(o)' = Calls(o)
    <2>1. job' = [job EXCEPT ![p] = j]
      BY DEF Invite, j
    <2>2. job \in [Procs -> Job \cup {Idle}] /\ job[p] = Idle
      BY DEF Invite, IInv, Wellformed
    <2> QED  BY <1>1, <2>1, <2>2, CallType
  <1>3. Wellformed'
    BY <1>2 DEF IInv, Wellformed, Invite
  <1>4. /\ Calls("invite")' = Calls("invite") \cup {p}
        /\ Calls("join")' = Calls("join") /\ Calls("confirm")' = Calls("confirm")
    BY <1>1, <1>2
  <1>5. OneInvite'
    BY <1>4 DEF IInv, OneInvite, Invite
  <1>6. Spent' /\ OneUse'
    BY DEF IInv, Spent, OneUse, Invite
  <1> QED  BY <1>3, <1>5, <1>6 DEF IInv

LEMMA JoinSafe ==
    ASSUME IInv, NEW p \in Procs, Join(p)
    PROVE  IInv'
  <1> DEFINE j == Call("join", "joiner", "peer", joins + 1)
  <1>1. j \in Job /\ j.op = "join"
    BY DEF Call, Job, Jobs, JoinStep, Stores, IInv, Wellformed
  <1> HIDE DEF j
  <1>2. /\ job' \in [Procs -> Job \cup {Idle}]
        /\ Calls("join")' = Calls("join") \cup {p}
        /\ \A o : o \notin {"none", "join"} => Calls(o)' = Calls(o)
    <2>1. job' = [job EXCEPT ![p] = j]
      BY DEF Join, j
    <2>2. job \in [Procs -> Job \cup {Idle}] /\ job[p] = Idle
      BY DEF Join, IInv, Wellformed
    <2> QED  BY <1>1, <2>1, <2>2, CallType
  <1>3. Wellformed'
    BY <1>2 DEF IInv, Wellformed, Join
  <1>4. /\ Calls("invite")' = Calls("invite")
        /\ Calls("confirm")' = Calls("confirm")
    BY <1>1, <1>2
  <1>5. OneInvite'
    BY <1>4 DEF IInv, OneInvite, Join
  <1>6. Spent' /\ OneUse'
    BY DEF IInv, Spent, OneUse, Join
  <1> QED  BY <1>3, <1>5, <1>6 DEF IInv

LEMMA ConfirmSafe ==
    ASSUME IInv, NEW p \in Procs, Confirm(p)
    PROVE  IInv'
  <1>1. PICK k \in issued :
            job' = [job EXCEPT ![p] = Call("confirm", "inviter", "peer", k)]
    BY DEF Confirm
  <1> DEFINE j == Call("confirm", "inviter", "peer", k)
  <1>2. j \in Job /\ j.op = "confirm"
    BY DEF Call, Job, Jobs, ConfirmStep, Stores, IInv, Wellformed
  <1> HIDE DEF j
  <1>3. /\ job' \in [Procs -> Job \cup {Idle}]
        /\ Calls("confirm")' = Calls("confirm") \cup {p}
        /\ \A o : o \notin {"none", "confirm"} => Calls(o)' = Calls(o)
    <2>1. job' = [job EXCEPT ![p] = j]
      BY <1>1 DEF Confirm, j
    <2>2. job \in [Procs -> Job \cup {Idle}] /\ job[p] = Idle
      BY DEF Confirm, IInv, Wellformed
    <2> QED  BY <1>2, <2>1, <2>2, CallType
  <1>4. Wellformed'
    BY <1>3 DEF IInv, Wellformed, Confirm, history
  <1>5. /\ Calls("invite")' = Calls("invite")
        /\ Calls("join")' = Calls("join")
    BY <1>2, <1>3
  <1>6. OneInvite'
    BY <1>5 DEF IInv, OneInvite, Confirm, history
  <1>7. Spent' /\ OneUse'
    BY DEF IInv, Spent, OneUse, Confirm, history
  <1> QED  BY <1>4, <1>6, <1>7 DEF IInv

LEMMA RevokeSafe ==
    ASSUME IInv, NEW p \in Procs, NEW s \in Stores, Revoke(p, s)
    PROVE  IInv'
  <1> DEFINE j == Call("revoke", s,
                       IF Readable(s, "peer") THEN "drop_local" ELSE "look", 0)
  <1>1. j \in Job /\ j.op = "revoke"
    BY DEF Call, Job, Jobs, RevokeStep
  <1> HIDE DEF j
  <1>2. /\ job' \in [Procs -> Job \cup {Idle}]
        /\ Calls("revoke")' = Calls("revoke") \cup {p}
        /\ \A o : o \notin {"none", "revoke"} => Calls(o)' = Calls(o)
    <2>1. job' = [job EXCEPT ![p] = j]
      BY DEF Revoke, j
    <2>2. job \in [Procs -> Job \cup {Idle}] /\ job[p] = Idle
      BY DEF Revoke, IInv, Wellformed
    <2> QED  BY <1>1, <2>1, <2>2, CallType
  <1>3. Wellformed'
    BY <1>2 DEF IInv, Wellformed, Revoke
  <1>4. /\ Calls("invite")' = Calls("invite")
        /\ Calls("join")' = Calls("join")
        /\ Calls("confirm")' = Calls("confirm")
    BY <1>1, <1>2
  <1>5. OneInvite'
    BY <1>4 DEF IInv, OneInvite, Revoke
  <1>6. Spent' /\ OneUse'
    BY DEF IInv, Spent, OneUse, Revoke
  <1> QED  BY <1>3, <1>5, <1>6 DEF IInv

\* A job that writes a record is at a record of its store; when that is the
\* pending record, the code is not out yet.
LEMMA Writing ==
    ASSUME IInv, NEW p \in Procs, job[p].step \in Kinds
    PROVE  /\ job[p] # Idle /\ job[p].at \in Stores /\ job[p].key \in Nat
           /\ Whole(job[p].key) \in File /\ Torn \in File
           /\ \/ job[p] \in Jobs("invite", {"inviter"}, InviteStep) /\ ~code
                 /\ job[p].step = "pending"
              \/ job[p] \in Jobs("join", {"joiner"}, JoinStep)
                 /\ job[p].step \in {"peer", "local"}
              \/ job[p] \in Jobs("confirm", {"inviter"}, ConfirmStep)
                 /\ job[p].step \in {"peer", "local"}
  <1>1. job[p] # Idle
    BY DEF Idle, Kinds
  <1>2. job[p].at \in Stores /\ job[p].key \in Nat
    BY <1>1, StepOfJob DEF IInv, Job, Jobs, Stores
  <1>3. Whole(job[p].key) \in File /\ Torn \in File
    BY <1>2 DEF Whole, Torn, File
  <1>4. \/ job[p] \in Jobs("invite", {"inviter"}, InviteStep)
           /\ job[p].step = "pending"
        \/ job[p] \in Jobs("join", {"joiner"}, JoinStep)
           /\ job[p].step \in {"peer", "local"}
        \/ job[p] \in Jobs("confirm", {"inviter"}, ConfirmStep)
           /\ job[p].step \in {"peer", "local"}
    BY <1>1, StepOfJob DEF IInv, Kinds
  <1> QED  BY <1>1, <1>2, <1>3, <1>4, Inviting

\* A write touches the pending record only before the code is out.
LEMMA WriteKept ==
    ASSUME IInv, NEW p \in Procs, job[p].step \in Kinds,
           NEW f \in File, Put(job[p].at, job[p].step, f) \/ UNCHANGED file
    PROVE  /\ file' \in [Stores -> [Kinds -> File]]
           /\ PendingKept \/ ~code
  <1>1. CASE UNCHANGED file
    BY <1>1 DEF IInv, Wellformed, PendingKept
  <1>2. CASE Put(job[p].at, job[p].step, f)
    <2>1. job[p].at \in Stores /\ file \in [Stores -> [Kinds -> File]]
      BY Writing DEF IInv, Wellformed
    <2>2. /\ file' \in [Stores -> [Kinds -> File]]
          /\ <<job[p].at, job[p].step>> # <<"inviter", "pending">> =>
                 file'["inviter"]["pending"] = file["inviter"]["pending"]
      BY <1>2, <2>1, PutType
    <2> QED  BY <2>2, Writing DEF PendingKept
  <1> QED  BY <1>1, <1>2

LEMMA OpenSafe ==
    ASSUME IInv, NEW p \in Procs, Open(p)
    PROVE  IInv'
  <1>1. job[p].step \in Kinds /\ Put(job[p].at, job[p].step, Torn)
    BY DEF Open
  <1>2. /\ file' \in [Stores -> [Kinds -> File]]
        /\ PendingKept \/ ~code
    BY <1>1, WriteKept, Writing
  <1> DEFINE j == [job[p] EXCEPT !.open = TRUE]
  <1>3. job' = [job EXCEPT ![p] = j]
    BY DEF Open
  <1>4. /\ job' \in [Procs -> Job \cup {Idle}]
        /\ \A o : Calls(o)' = Calls(o)
    <2>1. ASSUME NEW op, NEW S, NEW steps, Jobs(op, S, steps) \subseteq Job,
                 job[p] \in Jobs(op, S, steps)
          PROVE  /\ job' \in [Procs -> Job \cup {Idle}]
                 /\ \A o : Calls(o)' = Calls(o)
      <3>1. job[p].step \in steps
        BY <2>1 DEF Jobs
      <3>2. j \in Jobs(op, S, steps)
        BY <2>1, <3>1, OnwardType DEF Jobs
      <3> HIDE DEF j
      <3> QED  BY <1>3, <2>1, <3>2, OnwardCalls DEF IInv, Wellformed
    <2> QED  BY <1>1, <2>1, Writing, JobKinds
  <1>5. Wellformed' /\ UNCHANGED <<asked, code, issued, confirms>>
    BY <1>2, <1>4 DEF Open, history, IInv, Wellformed
  <1> QED  BY <1>2, <1>4, <1>5, Quiet

\* What follows a write is a step of the same operation.
LEMMA AfterWriteStep ==
    ASSUME IInv, NEW p \in Procs, job[p].step \in Kinds
    PROVE  /\ job[p].op = "invite" => AfterWrite(job[p]) \in InviteStep
           /\ job[p].op = "join" => AfterWrite(job[p]) \in JoinStep
           /\ job[p].op = "confirm" => AfterWrite(job[p]) \in ConfirmStep
  BY Writing DEF AfterWrite, Jobs, InviteStep, JoinStep, ConfirmStep

LEMMA WriteSafe ==
    ASSUME IInv, NEW p \in Procs, Write(p)
    PROVE  IInv'
  <1>1. /\ job[p].step \in Kinds
        /\ Put(job[p].at, job[p].step, Whole(job[p].key))
        /\ Goto(p, AfterWrite(job[p]))
    BY DEF Write
  <1>2. /\ file' \in [Stores -> [Kinds -> File]]
        /\ PendingKept \/ ~code
    BY <1>1, WriteKept, Writing
  <1>3. /\ job' \in [Procs -> Job \cup {Idle}]
        /\ \A o : Calls(o)' = Calls(o)
    <2>1. CASE job[p] \in Jobs("invite", {"inviter"}, InviteStep)
      <3>1. AfterWrite(job[p]) \in InviteStep
        BY <1>1, <2>1, AfterWriteStep DEF Jobs
      <3> QED  BY <1>1, <2>1, <3>1, GotoStep, JobKinds DEF IInv
    <2>2. CASE job[p] \in Jobs("join", {"joiner"}, JoinStep)
      <3>1. AfterWrite(job[p]) \in JoinStep
        BY <1>1, <2>2, AfterWriteStep DEF Jobs
      <3> QED  BY <1>1, <2>2, <3>1, GotoStep, JobKinds DEF IInv
    <2>3. CASE job[p] \in Jobs("confirm", {"inviter"}, ConfirmStep)
      <3>1. AfterWrite(job[p]) \in ConfirmStep
        BY <1>1, <2>3, AfterWriteStep DEF Jobs
      <3> QED  BY <1>1, <2>3, <3>1, GotoStep, JobKinds DEF IInv
    <2> QED  BY <1>1, <2>1, <2>2, <2>3, Writing
  <1>4. Wellformed' /\ UNCHANGED <<asked, code, issued, confirms>>
    BY <1>2, <1>3 DEF Write, history, IInv, Wellformed
  <1> QED  BY <1>2, <1>3, <1>4, Quiet

LEMMA WriteFailsSafe ==
    ASSUME IInv, NEW p \in Procs, WriteFails(p)
    PROVE  IInv'
  <1>1. /\ job[p].step \in Kinds /\ WriteFailed(p)
        /\ Put(job[p].at, job[p].step, Whole(job[p].key)) \/ UNCHANGED file
        /\ budget' \in [crash : 0..MaxCrashes, space : 0..MaxNoSpace,
                        stuck : 0..MaxStuck]
    BY BoundsAssumption DEF WriteFails, Spend, IInv, Wellformed
  <1>2. /\ file' \in [Stores -> [Kinds -> File]]
        /\ PendingKept \/ ~code
    BY <1>1, WriteKept, Writing
  <1>3. /\ job' \in [Procs -> Job \cup {Idle}]
        /\ \A o : o # "none" => Calls(o)' \subseteq Calls(o)
    <2>1. CASE Return(p)
      BY <2>1, ReturnType DEF IInv, Wellformed
    <2>2. CASE job[p].step = "local" /\ Goto(p, "undo_peer")
      <3>1. "undo_peer" \in JoinStep /\ "undo_peer" \in ConfirmStep
        BY DEF JoinStep, ConfirmStep
      <3>2. \/ job[p] \in Jobs("join", {"joiner"}, JoinStep)
            \/ job[p] \in Jobs("confirm", {"inviter"}, ConfirmStep)
        BY <1>1, <2>2, Writing
      <3> QED  BY <2>2, <3>1, <3>2, GotoStep, JobKinds DEF IInv
    <2> QED  BY <1>1, <2>1, <2>2 DEF WriteFailed
  <1>4. Wellformed' /\ UNCHANGED <<asked, code, issued, confirms>>
    BY <1>1, <1>2, <1>3 DEF WriteFails, history, IInv, Wellformed
  <1> QED  BY <1>2, <1>3, <1>4, Quiet

LEMMA CommitSafe ==
    ASSUME IInv, NEW p \in Procs, Commit(p)
    PROVE  IInv'
  <1>1. PICK ok \in BOOLEAN :
            /\ Unlink("inviter", "pending", ok)
            /\ IF ok THEN Return(p) /\ confirms' = confirms + 1
                     ELSE Goto(p, "undo_local") /\ UNCHANGED confirms
    BY DEF Commit
  <1>2. /\ file' \in [Stores -> [Kinds -> File]]
        /\ budget' \in [crash : 0..MaxCrashes, space : 0..MaxNoSpace,
                        stuck : 0..MaxStuck]
        /\ PendingKept
        /\ ok => /\ file["inviter"]["pending"].have # "none"
                 /\ file'["inviter"]["pending"].have = "none"
    BY <1>1, UnlinkType DEF Stores, Kinds, IInv
  <1>3. /\ job[p] # Idle
        /\ job[p] \in Jobs("confirm", {"inviter"}, ConfirmStep)
    BY StepOfJob DEF Commit, Idle, IInv
  <1>4. UNCHANGED <<asked, code, joins, issued, revoked>>
    BY DEF Commit
  <1>5. CASE ok
    <2>1. /\ job' \in [Procs -> Job \cup {Idle}]
          /\ \A o : o # "none" => Calls(o)' \subseteq Calls(o)
      BY <1>1, <1>5, ReturnType DEF IInv, Wellformed
    <2>2. Wellformed'
      BY <1>1, <1>2, <1>4, <1>5, <2>1 DEF IInv, Wellformed
    <2>3. OneInvite'
      BY <1>4, <2>1 DEF IInv, OneInvite
    <2>4. code
      BY <1>3 DEF IInv, OneInvite, Calls, Jobs
    <2>5. confirms = 0
      BY <1>2, <1>5 DEF IInv, Spent, Wellformed
    <2>6. Spent' /\ OneUse'
      BY <1>1, <1>2, <1>4, <1>5, <2>4, <2>5 DEF Spent, OneUse
    <2> QED  BY <2>2, <2>3, <2>6 DEF IInv
  <1>6. CASE ~ok
    <2>1. "undo_local" \in ConfirmStep
      BY DEF ConfirmStep
    <2>2. /\ job' \in [Procs -> Job \cup {Idle}]
          /\ \A o : Calls(o)' = Calls(o)
      BY <1>1, <1>3, <1>6, <2>1, GotoStep, JobKinds DEF IInv
    <2>3. Wellformed'
      BY <1>1, <1>2, <1>4, <1>6, <2>2 DEF IInv, Wellformed
    <2> QED  BY <1>1, <1>2, <1>4, <1>6, <2>2, <2>3, Quiet
  <1> QED  BY <1>5, <1>6

LEMMA AnswerSafe ==
    ASSUME IInv, NEW p \in Procs, Answer(p)
    PROVE  IInv'
  <1>1. /\ job[p] # Idle
        /\ \/ job[p] \in Jobs("invite", {"inviter"}, InviteStep)
           \/ job[p] \in Jobs("join", {"joiner"}, JoinStep)
    BY StepOfJob DEF Answer, Idle, IInv
  <1>2. UNCHANGED <<file, asked, joins, confirms, revoked>>
    BY DEF Answer
  <1>3. CASE /\ job[p].op = "invite" /\ code'
             /\ Return(p) /\ UNCHANGED <<issued, budget>>
    <2>1. /\ job' \in [Procs -> Job \cup {Idle}]
          /\ \A o : o # "none" => Calls(o)' \subseteq Calls(o)
      BY <1>3, ReturnType DEF IInv, Wellformed
    <2>2. p \notin Calls("invite")' /\ p \in Calls("invite")
      BY <1>3 DEF Return, Idle, Calls, IInv, Wellformed
    <2>3. Calls("invite")' = {}
      BY <2>1, <2>2 DEF IInv, OneInvite
    <2>4. asked
      BY <2>2 DEF IInv, OneInvite
    <2>5. Wellformed'
      BY <1>2, <1>3, <2>1 DEF IInv, Wellformed, Answer
    <2>6. OneInvite'
      BY <1>2, <1>3, <2>3, <2>4 DEF OneInvite
    <2>7. Spent' /\ OneUse'
      BY <1>2, <1>3 DEF IInv, Spent, OneUse
    <2> QED  BY <2>5, <2>6, <2>7 DEF IInv
  <1>4. CASE /\ job[p].op = "invite" /\ budget.space > 0 /\ Spend("space")
             /\ Goto(p, "undo_pending") /\ UNCHANGED <<code, issued>>
    <2>1. job[p] \in Jobs("invite", {"inviter"}, InviteStep)
      BY <1>1, <1>4 DEF Jobs
    <2>2. "undo_pending" \in InviteStep
      BY DEF InviteStep
    <2>3. /\ job' \in [Procs -> Job \cup {Idle}]
          /\ \A o : Calls(o)' = Calls(o)
      BY <1>4, <2>1, <2>2, GotoStep, JobKinds DEF IInv
    <2>4. Wellformed'
      BY <1>2, <1>4, <2>3, BoundsAssumption DEF IInv, Wellformed, Spend
    <2> QED  BY <1>2, <1>4, <2>3, <2>4, Quiet DEF PendingKept
  <1>5. CASE /\ job[p].op = "join" /\ issued' = issued \cup {job[p].key}
             /\ Return(p) /\ UNCHANGED <<code, budget>>
    <2>1. /\ job' \in [Procs -> Job \cup {Idle}]
          /\ \A o : o # "none" => Calls(o)' \subseteq Calls(o)
      BY <1>5, ReturnType DEF IInv, Wellformed
    <2>2. code /\ job[p].key \in Nat
      BY <1>1, <1>5 DEF IInv, OneInvite, Calls, Jobs
    <2>3. Wellformed'
      BY <1>2, <1>5, <2>1, <2>2 DEF IInv, Wellformed
    <2>4. OneInvite' /\ Spent' /\ OneUse'
      BY <1>2, <1>5, <2>1, <2>2 DEF IInv, OneInvite, Spent, OneUse
    <2> QED  BY <2>3, <2>4 DEF IInv
  <1> QED  BY <1>3, <1>4, <1>5 DEF Answer

LEMMA UndoSafe ==
    ASSUME IInv, NEW p \in Procs, Undo(p)
    PROVE  IInv'
  <1>1. PICK ok \in BOOLEAN : Unlink(job[p].at, UndoTarget(job[p].step), ok)
    BY DEF Undo
  <1>2. /\ job[p].step \in {"undo_pending", "undo_local", "undo_peer"}
        /\ job[p] # Idle
    BY DEF Undo, Idle
  <1>3. job[p].at \in Stores /\ UndoTarget(job[p].step) \in Kinds
    BY <1>2, StepOfJob DEF UndoTarget, Kinds, IInv, Job, Jobs, Stores
  <1>4. /\ file' \in [Stores -> [Kinds -> File]]
        /\ budget' \in [crash : 0..MaxCrashes, space : 0..MaxNoSpace,
                        stuck : 0..MaxStuck]
        /\ PendingKept
    BY <1>1, <1>3, UnlinkType DEF IInv
  <1>5. /\ job' \in [Procs -> Job \cup {Idle}]
        /\ \A o : o # "none" => Calls(o)' \subseteq Calls(o)
    <2>1. CASE job[p].step = "undo_local"
      <3>1. "undo_peer" \in ConfirmStep /\ Goto(p, "undo_peer")
        BY <2>1 DEF ConfirmStep, Undo
      <3>2. job[p] \in Jobs("confirm", {"inviter"}, ConfirmStep)
        BY <1>2, <2>1, StepOfJob DEF IInv
      <3> QED  BY <3>1, <3>2, GotoStep, JobKinds DEF IInv
    <2>2. CASE job[p].step # "undo_local"
      <3>1. Return(p)
        BY <2>2 DEF Undo
      <3> QED  BY <3>1, ReturnType DEF IInv, Wellformed
    <2> QED  BY <2>1, <2>2
  <1>6. Wellformed' /\ UNCHANGED <<asked, code, issued, confirms>>
    BY <1>4, <1>5 DEF Undo, history, IInv, Wellformed
  <1> QED  BY <1>4, <1>5, <1>6, Quiet

\* The steps of a revoke.
LEMMA Revoking ==
    ASSUME IInv, NEW p \in Procs, job[p].step \in RevokeStep
    PROVE  /\ job[p] # Idle /\ job[p].at \in Stores /\ job[p].removed \in BOOLEAN
           /\ job[p] \in Jobs("revoke", Stores, RevokeStep)
  <1>1. job[p] # Idle
    BY DEF RevokeStep, Idle
  <1> QED  BY <1>1, StepOfJob DEF IInv, Jobs

LEMMA RevokeEndStep ==
    ASSUME IInv, NEW p \in Procs, job[p].at \in Stores, NEW removed \in BOOLEAN,
           RevokeEnd(p, removed)
    PROVE  /\ job' \in [Procs -> Job \cup {Idle}]
           /\ revoked' \in [Stores -> {"no", "begun", "done"}]
           /\ \A o : o # "none" => Calls(o)' \subseteq Calls(o)
  BY ReturnType DEF RevokeEnd, IInv, Wellformed

LEMMA DropLocalSafe ==
    ASSUME IInv, NEW p \in Procs, DropLocal(p)
    PROVE  IInv'
  <1>1. PICK ok \in BOOLEAN : Unlink(job[p].at, "local", ok)
    BY DEF DropLocal
  <1>2. job[p].step \in RevokeStep /\ "drop_peer" \in RevokeStep
    BY DEF DropLocal, RevokeStep
  <1>3. /\ file' \in [Stores -> [Kinds -> File]]
        /\ budget' \in [crash : 0..MaxCrashes, space : 0..MaxNoSpace,
                        stuck : 0..MaxStuck]
        /\ PendingKept
    BY <1>1, <1>2, Revoking, UnlinkType DEF IInv, Kinds
  <1>4. /\ job' \in [Procs -> Job \cup {Idle}]
        /\ \A o : Calls(o)' = Calls(o)
    BY <1>2, Revoking, GotoStep, JobKinds DEF DropLocal, IInv
  <1>5. Wellformed' /\ UNCHANGED <<asked, code, issued, confirms>>
    BY <1>3, <1>4 DEF DropLocal, history, IInv, Wellformed
  <1> QED  BY <1>3, <1>4, <1>5, Quiet

LEMMA DropPeerSafe ==
    ASSUME IInv, NEW p \in Procs, DropPeer(p)
    PROVE  IInv'
  <1>1. PICK ok \in BOOLEAN :
            /\ Unlink(job[p].at, "peer", ok)
            /\ job' = [job EXCEPT ![p].step = "look", ![p].removed = ok]
    BY DEF DropPeer
  <1>2. job[p].step \in RevokeStep /\ "look" \in RevokeStep
    BY DEF DropPeer, RevokeStep
  <1>3. /\ file' \in [Stores -> [Kinds -> File]]
        /\ budget' \in [crash : 0..MaxCrashes, space : 0..MaxNoSpace,
                        stuck : 0..MaxStuck]
        /\ PendingKept
    BY <1>1, <1>2, Revoking, UnlinkType DEF IInv, Kinds
  <1>4. /\ job' \in [Procs -> Job \cup {Idle}]
        /\ \A o : Calls(o)' = Calls(o)
    <2> DEFINE j == [job[p] EXCEPT !.step = "look", !.removed = ok]
    <2>1. j \in Jobs("revoke", Stores, RevokeStep)
      BY <1>2, Revoking, OnwardType
    <2>2. job' = [job EXCEPT ![p] = j]
      BY <1>1
    <2> HIDE DEF j
    <2> QED  BY <1>2, <2>1, <2>2, Revoking, OnwardCalls, JobKinds DEF IInv, Wellformed
  <1>5. Wellformed' /\ UNCHANGED <<asked, code, issued, confirms>>
    BY <1>3, <1>4 DEF DropPeer, history, IInv, Wellformed
  <1> QED  BY <1>3, <1>4, <1>5, Quiet

LEMMA LookSafe ==
    ASSUME IInv, NEW p \in Procs, Look(p)
    PROVE  IInv'
  <1>1. /\ job[p].step \in RevokeStep /\ "drop_pending" \in RevokeStep
        /\ UNCHANGED <<file, asked, code, joins, issued, confirms, budget>>
    BY DEF Look, RevokeStep
  <1>2. /\ job' \in [Procs -> Job \cup {Idle}]
        /\ revoked' \in [Stores -> {"no", "begun", "done"}]
        /\ \A o : o # "none" => Calls(o)' \subseteq Calls(o)
    <2>1. CASE Goto(p, "drop_pending") /\ UNCHANGED revoked
      BY <1>1, <2>1, Revoking, GotoStep, JobKinds DEF IInv, Wellformed
    <2>2. CASE RevokeEnd(p, job[p].removed)
      BY <1>1, <2>2, Revoking, RevokeEndStep
    <2> QED  BY <2>1, <2>2 DEF Look
  <1>3. Wellformed' /\ PendingKept
    BY <1>1, <1>2 DEF IInv, Wellformed, PendingKept
  <1> QED  BY <1>1, <1>2, <1>3, Quiet

LEMMA DropPendingSafe ==
    ASSUME IInv, NEW p \in Procs, DropPending(p)
    PROVE  IInv'
  <1>1. PICK ok \in BOOLEAN :
            /\ Unlink(job[p].at, "pending", ok)
            /\ RevokeEnd(p, job[p].removed \/ ok)
    BY DEF DropPending
  <1>2. job[p].step \in RevokeStep
    BY DEF DropPending, RevokeStep
  <1>3. /\ file' \in [Stores -> [Kinds -> File]]
        /\ budget' \in [crash : 0..MaxCrashes, space : 0..MaxNoSpace,
                        stuck : 0..MaxStuck]
        /\ PendingKept
    BY <1>1, <1>2, Revoking, UnlinkType DEF IInv, Kinds
  <1>4. /\ job' \in [Procs -> Job \cup {Idle}]
        /\ revoked' \in [Stores -> {"no", "begun", "done"}]
        /\ \A o : o # "none" => Calls(o)' \subseteq Calls(o)
    BY <1>1, <1>2, Revoking, RevokeEndStep
  <1>5. Wellformed' /\ UNCHANGED <<asked, code, issued, confirms>>
    BY <1>3, <1>4 DEF DropPending, IInv, Wellformed
  <1> QED  BY <1>3, <1>4, <1>5, Quiet

LEMMA CrashSafe ==
    ASSUME IInv, NEW p \in Procs, Crash(p)
    PROVE  IInv'
  <1>1. /\ job' \in [Procs -> Job \cup {Idle}]
        /\ \A o : o # "none" => Calls(o)' \subseteq Calls(o)
    BY ReturnType DEF Crash, IInv, Wellformed
  <1>2. Wellformed' /\ PendingKept /\ UNCHANGED <<asked, code, issued, confirms>>
    BY <1>1, BoundsAssumption DEF Crash, Spend, history, IInv, Wellformed, PendingKept
  <1> QED  BY <1>1, <1>2, Quiet

-----------------------------------------------------------------------------
(* The theorems. *)

LEMMA Initially == Init => IInv
  <1> SUFFICES ASSUME Init PROVE IInv
    OBVIOUS
  <1>1. Wellformed
    <2>1. file \in [Stores -> [Kinds -> File]]
      <3>1. Absent \in File
        BY DEF Absent, File
      <3> QED  BY <3>1 DEF Init
    <2>2. budget \in [crash : 0..MaxCrashes, space : 0..MaxNoSpace,
                      stuck : 0..MaxStuck]
      BY BoundsAssumption DEF Init
    <2>3. job \in [Procs -> Job \cup {Idle}]
      BY DEF Init
    <2> QED  BY <2>1, <2>2, <2>3 DEF Init, Wellformed
  <1>2. OneInvite /\ Spent /\ OneUse
    BY DEF Init, OneInvite, Spent, OneUse, Calls, Idle
  <1> QED  BY <1>1, <1>2 DEF IInv

LEMMA Stepwise == IInv /\ [Next]_vars => IInv'
  <1> SUFFICES ASSUME IInv, [Next]_vars PROVE IInv'
    OBVIOUS
  <1>1. CASE UNCHANGED vars
    BY <1>1 DEF vars, history, IInv, Wellformed, OneInvite, Spent, OneUse, Calls
  <1>2. ASSUME NEW p \in Procs, Step(p) PROVE IInv'
    BY <1>2, InviteSafe, JoinSafe, ConfirmSafe, RevokeSafe, OpenSafe, WriteSafe,
       WriteFailsSafe, CommitSafe, AnswerSafe, UndoSafe, DropLocalSafe,
       DropPeerSafe, LookSafe, DropPendingSafe, CrashSafe DEF Step
  <1> QED  BY <1>1, <1>2 DEF Next

\* The invariant holds however many processes share the stores.
THEOREM Inductive == Spec => []IInv
  BY Initially, Stepwise, PTL DEF Spec

\* Records and calls stay well formed: no call ever runs a step of another.
THEOREM TypeCorrect == Spec => []TypeOK
  <1>1. Init => raced \in BOOLEAN
    BY DEF Init
  <1>2. raced \in BOOLEAN /\ [Next]_vars => (raced \in BOOLEAN)'
    BY DEF Next, vars
  <1>3. IInv /\ raced \in BOOLEAN => TypeOK
    BY DEF IInv, TypeOK
  <1> QED  BY <1>1, <1>2, <1>3, Inductive, PTL DEF Spec

\* An invitation is confirmed at most once, whatever interleaves, fails or
\* crashes.
THEOREM ConfirmedOnce == Spec => []OneUse
  <1>1. IInv => OneUse  BY DEF IInv
  <1> QED  BY <1>1, Inductive, PTL

-----------------------------------------------------------------------------
(* The inductive invariant behind NotStranded, Connected and RevokedIsOff:  *)
(* what the records tell of each other and of the calls under way.          *)

\* Every file that was to be removed was.
Smooth == budget.stuck = MaxStuck

\* Known always: only the invite writes the pending record, whole before the
\* code is out; keys come from a join, and a confirm carries the key of a
\* confirmation that was returned; nobody revokes before the code is out.
Known ==
    /\ code => file["inviter"]["pending"].have # "torn"
    /\ ~code => file["inviter"]["peer"].have = "none" /\ revoked["inviter"] = "no"
    /\ issued \subseteq 1..joins
    /\ Readable("inviter", "peer") => file["inviter"]["peer"].key \in issued
    /\ \A p \in Procs :
         /\ job[p].op = "invite" /\ job[p].step = "answer" => Readable("inviter", "pending")
         /\ job[p].op = "join" => job[p].key \in 1..joins
         /\ job[p].op = "confirm" => job[p].key \in issued
         /\ job[p].op = "revoke" => code /\ revoked[job[p].at] # "no"

\* No two calls at once, as long as none have been.
Alone == raced \/ \A p, q \in Procs : job[p] # Idle /\ job[q] # Idle => p = q

\* At the inviter, without races and until a revoke: the invitation is still
\* there or the relationship stands, and a confirm has written what its step
\* says while the pending record is still in place.
InviterOK ==
    /\ code /\ revoked["inviter"] = "no" =>
           Readable("inviter", "pending") \/ Established("inviter")
    /\ \A p \in Procs : job[p].op = "confirm" /\ revoked["inviter"] = "no" =>
         /\ Readable("inviter", "pending")
         /\ job[p].step \in {"local", "commit"} => Readable("inviter", "peer")
         /\ job[p].step = "commit" => Readable("inviter", "local")

\* At the joiner, without races and until a revoke: the relationship of the
\* last join stands once its confirmation was returned, and a join under way is
\* that last join and has written what its step says.
JoinerOK ==
    /\ joins \in issued /\ revoked["joiner"] = "no" =>
           Established("joiner") /\ file["joiner"]["peer"].key = joins
    /\ \A p \in Procs : job[p].op = "join" =>
         /\ job[p].key = joins /\ joins \notin issued
         /\ job[p].step \in {"local", "answer"} => file["joiner"]["peer"] = Whole(joins)
         /\ job[p].step = "answer" => Readable("joiner", "local")

\* Without races: a revoke that looks for the pending record has left no peer,
\* and after one that succeeded nothing is left.
RevokeOK ==
    /\ revoked["inviter"] = "done" =>
           /\ ~Readable("inviter", "pending") /\ ~Readable("inviter", "peer")
           /\ Calls("confirm") = {}
    /\ \A p \in Procs :
         job[p].op = "revoke" /\ job[p].at = "inviter" /\ job[p].step \in {"look", "drop_pending"}
             => ~Readable("inviter", "peer")

Sequential == ~raced => InviterOK /\ JoinerOK /\ (Smooth => RevokeOK)

\* With races, but no call that fails or dies.  The commit of a confirm is what
\* takes the pending record away, so that a peer record next to it belongs to a
\* confirm that is not over, and that will undo it if a revoke was faster.
Here(k)    == file["inviter"][k].have # "none"
Past(p)    == job[p].op = "confirm" /\ job[p].step \in {"local", "commit"}
Confirming == \E p \in Procs : job[p].op = "confirm"

\* A revoke under way at the inviter has met a peer next to the pending record
\* only if a confirm had just written it; should it take that peer away before
\* the commit, any peer there is now is that of yet another confirm.
Taking(r) ==
    job[r].op = "revoke" /\ job[r].at = "inviter" =>
    /\ job[r].step \in {"drop_local", "drop_peer"} /\ Here("pending") => \E p \in Procs : Past(p)
    /\ job[r].step \in {"look", "drop_pending"} /\ job[r].removed =>
         /\ Here("pending") =>
              \E p \in Procs : /\ Past(p)
                               /\ Here("peer") => \E q \in Procs : q # p /\ job[q].op = "confirm"
         /\ Here("peer") /\ ~Here("pending") => Confirming

Races ==
    /\ \A p \in Procs :
         job[p].op = "confirm" /\ job[p].step \in {"undo_local", "undo_peer"} => ~Here("pending")
    /\ Here("pending") /\ Here("peer") => Confirming
    /\ Here("pending") /\ Readable("inviter", "peer") => \E p \in Procs : Past(p)
    /\ revoked["inviter"] = "done" => ~Here("pending") /\ (Here("peer") => Confirming)
    /\ \A r \in Procs : Taking(r)

Racing == Unbroken /\ Smooth => Races

TInv == Known /\ Alone /\ Sequential /\ Racing

-----------------------------------------------------------------------------
(* What a step does to the files and to the calls. *)

\* No record but the one named changes.
Only(s, k) == \A t \in Stores, l \in Kinds :
                  t # s \/ l # k => file'[t][l] = file[t][l]

\* No call but that of process p changes.
Others(p) == \A q \in Procs : q # p => job'[q] = job[q]

\* The call of p goes on with the given step.
Onward(p, step) ==
    /\ job'[p].step = step
    /\ job'[p].op = job[p].op /\ job'[p].at = job[p].at /\ job'[p].key = job[p].key

\* The call of p begins.
Begun(p, op, s, step, key) ==
    /\ job'[p].op = op /\ job'[p].at = s /\ job'[p].step = step /\ job'[p].key = key
    /\ job'[p].removed = FALSE

LEMMA PutEffect ==
    ASSUME Wellformed, NEW s \in Stores, NEW k \in Kinds, NEW f, Put(s, k, f)
    PROVE  file'[s][k] = f /\ Only(s, k)
  BY DEF Put, Only, Wellformed

LEMMA UnlinkEffect ==
    ASSUME Wellformed, NEW s \in Stores, NEW k \in Kinds, NEW ok \in BOOLEAN,
           Unlink(s, k, ok)
    PROVE  /\ Only(s, k)
           /\ \/ file'[s][k] = file[s][k] /\ ~ok
              \/ file'[s][k] = Absent /\ ok
           /\ ok => file[s][k].have # "none"
           /\ Smooth' => Smooth /\ file'[s][k].have = "none"
           /\ Unbroken' => Unbroken
  <1>1. CASE ok /\ file[s][k].have # "none" /\ Put(s, k, Absent) /\ UNCHANGED budget
    BY <1>1, PutEffect DEF Absent, Smooth, Unbroken
  <1>2. CASE ~ok /\ file[s][k].have = "none" /\ UNCHANGED <<file, budget>>
    BY <1>2 DEF Smooth, Unbroken, Only
  <1>3. CASE ~ok /\ budget.stuck > 0 /\ Spend("stuck") /\ UNCHANGED file
    BY <1>3, BoundsAssumption DEF Spend, Smooth, Unbroken, Only, Wellformed
  <1> QED  BY <1>1, <1>2, <1>3 DEF Unlink

LEMMA GotoEffect ==
    ASSUME Wellformed, NEW p \in Procs, job[p] \in Job, NEW step, Goto(p, step)
    PROVE  Onward(p, step) /\ Others(p) /\ job'[p].removed = job[p].removed
  <1> DEFINE j == [job[p] EXCEPT !.step = step, !.open = FALSE]
  <1>1. job' = [job EXCEPT ![p] = j]
    BY DEF Goto
  <1>2. /\ j.step = step /\ j.op = job[p].op /\ j.at = job[p].at /\ j.key = job[p].key
        /\ j.removed = job[p].removed
    BY DEF Job, Jobs
  <1> HIDE DEF j
  <1> QED  BY <1>1, <1>2 DEF Wellformed, Onward, Others

LEMMA ReturnEffect ==
    ASSUME Wellformed, NEW p \in Procs, Return(p)
    PROVE  job'[p] = Idle /\ Others(p)
  BY DEF Return, Wellformed, Others

LEMMA BeginEffect ==
    ASSUME Wellformed, NEW p \in Procs, NEW j, job' = [job EXCEPT ![p] = j]
    PROVE  job'[p] = j /\ Others(p)
  BY DEF Wellformed, Others

LEMMA CallEffect ==
    ASSUME Wellformed, NEW p \in Procs, NEW op, NEW s, NEW step, NEW key,
           job' = [job EXCEPT ![p] = Call(op, s, step, key)]
    PROVE  Begun(p, op, s, step, key) /\ Others(p)
  <1>1. job'[p] = Call(op, s, step, key) /\ Others(p)
    BY BeginEffect
  <1> QED  BY <1>1 DEF Call, Begun

\* Which call is at which step.
Inviter(p)  == job[p].op = "invite" /\ job[p].at = "inviter" /\ ~code
Joiner(p)   == job[p].op = "join" /\ job[p].at = "joiner"
Confirmer(p) == job[p].op = "confirm" /\ job[p].at = "inviter"
Revoker(p)  == job[p].op = "revoke" /\ job[p].at \in Stores

LEMMA WriterKind ==
    ASSUME IInv, NEW p \in Procs, job[p].step \in Kinds
    PROVE  /\ job[p] # Idle /\ job[p] \in Job /\ job[p].at \in Stores
           /\ \/ Inviter(p) /\ job[p].step = "pending"
              \/ Joiner(p) /\ job[p].step \in {"peer", "local"}
              \/ Confirmer(p) /\ job[p].step \in {"peer", "local"}
  BY Writing, JobKinds DEF Jobs, Inviter, Joiner, Confirmer

LEMMA OpenEffect ==
    ASSUME IInv, NEW p \in Procs, Open(p)
    PROVE  /\ job[p].step \in Kinds
           /\ file'[job[p].at][job[p].step] = Torn /\ Only(job[p].at, job[p].step)
           /\ Onward(p, job[p].step) /\ Others(p) /\ UNCHANGED <<history, budget>>
  <1>1. job[p].step \in Kinds /\ Put(job[p].at, job[p].step, Torn) /\ UNCHANGED <<history, budget>>
    BY DEF Open
  <1>2. file'[job[p].at][job[p].step] = Torn /\ Only(job[p].at, job[p].step)
    BY <1>1, WriterKind, PutEffect DEF IInv
  <1> DEFINE j == [job[p] EXCEPT !.open = TRUE]
  <1>3. job' = [job EXCEPT ![p] = j]
    BY DEF Open
  <1>4. j.step = job[p].step /\ j.op = job[p].op /\ j.at = job[p].at /\ j.key = job[p].key
    BY <1>1, WriterKind DEF Job, Jobs
  <1> HIDE DEF j
  <1>5. job'[p] = j /\ Others(p)
    BY <1>3, BeginEffect DEF IInv
  <1> QED  BY <1>1, <1>2, <1>4, <1>5 DEF Onward

LEMMA WriteEffect ==
    ASSUME IInv, NEW p \in Procs, Write(p)
    PROVE  /\ job[p].step \in Kinds
           /\ file'[job[p].at][job[p].step] = Whole(job[p].key) /\ Only(job[p].at, job[p].step)
           /\ Onward(p, AfterWrite(job[p])) /\ Others(p) /\ UNCHANGED <<history, budget>>
  <1>1. /\ job[p].step \in Kinds /\ Put(job[p].at, job[p].step, Whole(job[p].key))
        /\ Goto(p, AfterWrite(job[p])) /\ UNCHANGED <<history, budget>>
    BY DEF Write
  <1>2. file'[job[p].at][job[p].step] = Whole(job[p].key) /\ Only(job[p].at, job[p].step)
    BY <1>1, WriterKind, PutEffect DEF IInv
  <1>3. Onward(p, AfterWrite(job[p])) /\ Others(p)
    BY <1>1, WriterKind, GotoEffect DEF IInv
  <1> QED  BY <1>1, <1>2, <1>3

LEMMA WriteFailsEffect ==
    ASSUME IInv, NEW p \in Procs, WriteFails(p)
    PROVE  /\ job[p].step \in Kinds /\ Only(job[p].at, job[p].step)
           /\ \/ file'[job[p].at][job[p].step] = file[job[p].at][job[p].step]
              \/ file'[job[p].at][job[p].step] = Whole(job[p].key)
           /\ IF job[p].step = "local" THEN Onward(p, "undo_peer") ELSE job'[p] = Idle
           /\ Others(p) /\ UNCHANGED history /\ ~Unbroken' /\ (Smooth' => Smooth)
  <1>1. job[p].step \in Kinds /\ WriteFailed(p) /\ UNCHANGED history
    BY DEF WriteFails
  <1>2. /\ Only(job[p].at, job[p].step)
        /\ \/ file'[job[p].at][job[p].step] = file[job[p].at][job[p].step]
           \/ file'[job[p].at][job[p].step] = Whole(job[p].key)
    <2>1. CASE UNCHANGED file
      BY <2>1 DEF Only
    <2>2. CASE Put(job[p].at, job[p].step, Whole(job[p].key))
      BY <1>1, <2>2, WriterKind, PutEffect DEF IInv
    <2> QED  BY <2>1, <2>2 DEF WriteFails
  <1>3. /\ IF job[p].step = "local" THEN Onward(p, "undo_peer") ELSE job'[p] = Idle
        /\ Others(p)
    BY <1>1, WriterKind, GotoEffect, ReturnEffect DEF WriteFailed, IInv
  <1>4. ~Unbroken' /\ (Smooth' => Smooth)
    BY BoundsAssumption DEF WriteFails, Spend, Unbroken, Smooth, IInv, Wellformed
  <1> QED  BY <1>1, <1>2, <1>3, <1>4

LEMMA CommitEffect ==
    ASSUME IInv, NEW p \in Procs, Commit(p)
    PROVE  /\ Confirmer(p) /\ job[p].step = "commit" /\ Only("inviter", "pending") /\ Others(p)
           /\ \/ /\ file["inviter"]["pending"].have # "none"
                 /\ file'["inviter"]["pending"] = Absent /\ job'[p] = Idle
              \/ /\ file'["inviter"]["pending"] = file["inviter"]["pending"]
                 /\ Smooth' => file'["inviter"]["pending"].have = "none"
                 /\ Onward(p, "undo_local")
           /\ Smooth' => Smooth
           /\ Unbroken' => Unbroken
           /\ UNCHANGED <<asked, code, joins, issued, revoked>>
  <1>1. PICK ok \in BOOLEAN :
            /\ Unlink("inviter", "pending", ok)
            /\ IF ok THEN Return(p) ELSE Goto(p, "undo_local")
    BY DEF Commit
  <1>2. job[p].step = "commit" /\ UNCHANGED <<asked, code, joins, issued, revoked>>
    BY DEF Commit
  <1>3. Confirmer(p) /\ job[p] \in Job
    BY <1>2, StepOfJob DEF Idle, IInv, Jobs, Confirmer
  <1>4. /\ Only("inviter", "pending")
        /\ \/ file'["inviter"]["pending"] = file["inviter"]["pending"] /\ ~ok
           \/ file'["inviter"]["pending"] = Absent /\ ok
        /\ ok => file["inviter"]["pending"].have # "none"
        /\ Smooth' => Smooth /\ file'["inviter"]["pending"].have = "none"
        /\ Unbroken' => Unbroken
    BY <1>1, UnlinkEffect DEF IInv, Stores, Kinds
  <1>5. Others(p) /\ IF ok THEN job'[p] = Idle ELSE Onward(p, "undo_local")
    BY <1>1, <1>3, GotoEffect, ReturnEffect DEF IInv
  <1> QED  BY <1>2, <1>3, <1>4, <1>5

LEMMA AnswerEffect ==
    ASSUME IInv, NEW p \in Procs, Answer(p)
    PROVE  /\ job[p].step = "answer" /\ Others(p) /\ UNCHANGED <<file, joins, revoked>>
           /\ \/ Inviter(p) /\ code' /\ job'[p] = Idle /\ UNCHANGED <<issued, budget>>
              \/ /\ Inviter(p) /\ Onward(p, "undo_pending") /\ UNCHANGED <<code, issued>>
                 /\ ~Unbroken' /\ (Smooth' => Smooth)
              \/ /\ Joiner(p) /\ issued' = issued \cup {job[p].key} /\ job'[p] = Idle
                 /\ UNCHANGED <<code, budget>>
  <1>1. job[p].step = "answer" /\ UNCHANGED <<file, joins, revoked>>
    BY DEF Answer
  <1>2. /\ job[p] # Idle /\ job[p] \in Job
        /\ job[p].op = "invite" => Inviter(p)
        /\ job[p].op = "join" => Joiner(p)
    BY <1>1, StepOfJob, Inviting DEF Idle, IInv, Jobs, Inviter, Joiner
  <1>3. CASE job[p].op = "invite" /\ code' /\ Return(p) /\ UNCHANGED <<issued, budget>>
    BY <1>1, <1>2, <1>3, ReturnEffect DEF IInv
  <1>4. CASE /\ job[p].op = "invite" /\ budget.space > 0 /\ Spend("space")
             /\ Goto(p, "undo_pending") /\ UNCHANGED <<code, issued>>
    <2>1. ~Unbroken' /\ (Smooth' => Smooth)
      BY <1>4, BoundsAssumption DEF Spend, Unbroken, Smooth, IInv, Wellformed
    <2> QED  BY <1>1, <1>2, <1>4, <2>1, GotoEffect DEF IInv
  <1>5. CASE /\ job[p].op = "join" /\ issued' = issued \cup {job[p].key}
             /\ Return(p) /\ UNCHANGED <<code, budget>>
    BY <1>1, <1>2, <1>5, ReturnEffect DEF IInv
  <1> QED  BY <1>3, <1>4, <1>5 DEF Answer

LEMMA UndoEffect ==
    ASSUME IInv, NEW p \in Procs, Undo(p)
    PROVE  /\ Others(p) /\ UNCHANGED history
           /\ \/ /\ Inviter(p) /\ job[p].step = "undo_pending" /\ Only("inviter", "pending")
                 /\ file'["inviter"]["pending"] \in {file["inviter"]["pending"], Absent}
                 /\ job'[p] = Idle
              \/ /\ Confirmer(p) /\ job[p].step = "undo_local" /\ Only("inviter", "local")
                 /\ file'["inviter"]["local"] \in {file["inviter"]["local"], Absent}
                 /\ Onward(p, "undo_peer")
              \/ /\ Confirmer(p) \/ Joiner(p)
                 /\ job[p].step = "undo_peer" /\ Only(job[p].at, "peer")
                 /\ file'[job[p].at]["peer"] \in {file[job[p].at]["peer"], Absent}
                 /\ Smooth' => file'[job[p].at]["peer"].have = "none"
                 /\ job'[p] = Idle
           /\ Smooth' => Smooth
           /\ Unbroken' => Unbroken
  <1>1. PICK ok \in BOOLEAN : Unlink(job[p].at, UndoTarget(job[p].step), ok)
    BY DEF Undo
  <1>2. /\ job[p].step \in {"undo_pending", "undo_local", "undo_peer"}
        /\ UNCHANGED history
        /\ IF job[p].step = "undo_local" THEN Goto(p, "undo_peer") ELSE Return(p)
    BY DEF Undo
  <1>3. /\ job[p] # Idle /\ job[p] \in Job /\ job[p].at \in Stores
        /\ job[p].step = "undo_pending" => Inviter(p)
        /\ job[p].step = "undo_local" => Confirmer(p)
        /\ job[p].step = "undo_peer" => Confirmer(p) \/ Joiner(p)
    BY <1>2, StepOfJob, Inviting DEF Idle, IInv, Jobs, Inviter, Confirmer, Joiner, Stores
  <1> DEFINE s == job[p].at
             k == UndoTarget(job[p].step)
  <1>4. /\ Only(s, k) /\ file'[s][k] \in {file[s][k], Absent}
        /\ Smooth' => Smooth /\ file'[s][k].have = "none"
        /\ Unbroken' => Unbroken
    <2>1. k \in Kinds
      BY <1>2 DEF UndoTarget, Kinds
    <2> HIDE DEF s, k
    <2>2. s \in Stores /\ Unlink(s, k, ok)
      BY <1>1, <1>3 DEF s, k
    <2> QED  BY <2>1, <2>2, UnlinkEffect DEF IInv
  <1>5. /\ Others(p)
        /\ IF job[p].step = "undo_local" THEN Onward(p, "undo_peer") ELSE job'[p] = Idle
    BY <1>2, <1>3, GotoEffect, ReturnEffect DEF IInv
  <1>6. CASE job[p].step = "undo_pending"
    BY <1>2, <1>3, <1>4, <1>5, <1>6 DEF UndoTarget, Inviter
  <1>7. CASE job[p].step = "undo_local"
    BY <1>2, <1>3, <1>4, <1>5, <1>7 DEF UndoTarget, Confirmer
  <1>8. CASE job[p].step = "undo_peer"
    BY <1>2, <1>3, <1>4, <1>5, <1>8 DEF UndoTarget
  <1> QED  BY <1>2, <1>6, <1>7, <1>8

LEMMA BeginsEffect ==
    ASSUME IInv, NEW p \in Procs, Invite(p) \/ Join(p) \/ Confirm(p)
    PROVE  /\ job[p] = Idle /\ Others(p) /\ UNCHANGED <<file, code, issued, revoked, budget>>
           /\ \/ /\ Begun(p, "invite", "inviter", "pending", 0) /\ ~code /\ joins' = joins
              \/ /\ Begun(p, "join", "joiner", "peer", joins + 1) /\ code
                 /\ joins' = joins + 1
              \/ /\ Readable("inviter", "pending") /\ joins' = joins /\ code
                 /\ \E k \in issued : Begun(p, "confirm", "inviter", "peer", k)
  <1>1. CASE Invite(p)
    <2>1. ~code
      BY <1>1 DEF Invite, IInv, OneInvite
    <2> QED  BY <1>1, <2>1, CallEffect DEF Invite, IInv
  <1>2. CASE Join(p)
    BY <1>2, CallEffect DEF Join, IInv
  <1>3. CASE Confirm(p)
    <2>1. PICK k \in issued : job' = [job EXCEPT ![p] = Call("confirm", "inviter", "peer", k)]
      BY <1>3 DEF Confirm
    <2>2. code
      BY <2>1 DEF IInv, OneInvite
    <2> QED  BY <1>3, <2>1, <2>2, CallEffect DEF Confirm, IInv, history
  <1> QED  BY <1>1, <1>2, <1>3

LEMMA RevokeEffect ==
    ASSUME IInv, NEW p \in Procs, NEW s \in Stores, Revoke(p, s)
    PROVE  /\ job[p] = Idle /\ Others(p) /\ UNCHANGED <<file, code, joins, issued, budget>>
           /\ code
           /\ Begun(p, "revoke", s, IF Readable(s, "peer") THEN "drop_local" ELSE "look", 0)
           /\ revoked'[s] # "no" /\ (revoked'[s] = "done" => revoked[s] = "done")
           /\ \A t \in Stores : t # s => revoked'[t] = revoked[t]
  <1>1. code
    BY DEF Revoke, IInv, OneInvite
  <1>2. /\ revoked'[s] # "no" /\ (revoked'[s] = "done" => revoked[s] = "done")
        /\ \A t \in Stores : t # s => revoked'[t] = revoked[t]
    BY DEF Revoke, IInv, Wellformed
  <1> QED  BY <1>1, <1>2, CallEffect DEF Revoke, IInv

LEMMA RevokerKind ==
    ASSUME IInv, NEW p \in Procs, job[p].step \in RevokeStep
    PROVE  Revoker(p) /\ job[p] # Idle /\ job[p] \in Job /\ job[p].removed \in BOOLEAN
  BY Revoking, JobKinds DEF Revoker, Jobs

LEMMA DropLocalEffect ==
    ASSUME IInv, NEW p \in Procs, DropLocal(p)
    PROVE  /\ Revoker(p) /\ job[p].step = "drop_local" /\ Only(job[p].at, "local") /\ Others(p)
           /\ Onward(p, "drop_peer") /\ UNCHANGED history
           /\ Smooth' => Smooth
           /\ Unbroken' => Unbroken
  <1>1. PICK ok \in BOOLEAN : Unlink(job[p].at, "local", ok)
    BY DEF DropLocal
  <1>2. job[p].step = "drop_local" /\ UNCHANGED history /\ Goto(p, "drop_peer")
    BY DEF DropLocal
  <1>3. Revoker(p) /\ job[p] \in Job
    BY <1>2, RevokerKind DEF RevokeStep
  <1>4. /\ Only(job[p].at, "local")
        /\ Smooth' => Smooth
        /\ Unbroken' => Unbroken
    BY <1>1, <1>3, UnlinkEffect DEF IInv, Kinds, Revoker
  <1> QED  BY <1>2, <1>3, <1>4, GotoEffect DEF IInv

LEMMA DropPeerEffect ==
    ASSUME IInv, NEW p \in Procs, DropPeer(p)
    PROVE  /\ Revoker(p) /\ job[p].step = "drop_peer" /\ Only(job[p].at, "peer") /\ Others(p)
           /\ Onward(p, "look") /\ UNCHANGED history
           /\ file'[job[p].at]["peer"] \in {file[job[p].at]["peer"], Absent}
           /\ Smooth' => Smooth /\ file'[job[p].at]["peer"].have = "none"
           /\ Unbroken' => Unbroken
  <1>1. PICK ok \in BOOLEAN : /\ Unlink(job[p].at, "peer", ok)
                              /\ job' = [job EXCEPT ![p].step = "look", ![p].removed = ok]
    BY DEF DropPeer
  <1>2. job[p].step = "drop_peer" /\ UNCHANGED history
    BY DEF DropPeer
  <1>3. Revoker(p) /\ job[p] \in Job
    BY <1>2, RevokerKind DEF RevokeStep
  <1>4. /\ Only(job[p].at, "peer")
        /\ file'[job[p].at]["peer"] \in {file[job[p].at]["peer"], Absent}
        /\ Smooth' => Smooth /\ file'[job[p].at]["peer"].have = "none"
        /\ Unbroken' => Unbroken
    BY <1>1, <1>3, UnlinkEffect DEF IInv, Kinds, Revoker
  <1> DEFINE j == [job[p] EXCEPT !.step = "look", !.removed = ok]
  <1>5. job' = [job EXCEPT ![p] = j]
    BY <1>1
  <1>6. j.step = "look" /\ j.op = job[p].op /\ j.at = job[p].at /\ j.key = job[p].key
    BY <1>3 DEF Job, Jobs
  <1> HIDE DEF j
  <1>7. job'[p] = j /\ Others(p)
    BY <1>5, BeginEffect DEF IInv
  <1> QED  BY <1>2, <1>3, <1>4, <1>6, <1>7 DEF Onward

\* A revoke that ends marks its own store, if it has removed something.
LEMMA EndEffect ==
    ASSUME IInv, NEW p \in Procs, Revoker(p), NEW removed \in BOOLEAN, RevokeEnd(p, removed)
    PROVE  /\ job'[p] = Idle /\ Others(p)
           /\ revoked'[job[p].at] = IF removed THEN "done" ELSE revoked[job[p].at]
           /\ \A t \in Stores : t # job[p].at => revoked'[t] = revoked[t]
  BY ReturnEffect DEF RevokeEnd, IInv, Wellformed, Revoker

LEMMA LookEffect ==
    ASSUME IInv, NEW p \in Procs, Look(p)
    PROVE  /\ Revoker(p) /\ job[p].step = "look" /\ Others(p)
           /\ UNCHANGED <<file, code, joins, issued, budget>>
           /\ \/ Onward(p, "drop_pending") /\ job'[p].removed = job[p].removed /\ UNCHANGED revoked
              \/ /\ ~Readable(job[p].at, "pending") /\ job'[p] = Idle
                 /\ revoked'[job[p].at] = IF job[p].removed THEN "done" ELSE revoked[job[p].at]
                 /\ \A t \in Stores : t # job[p].at => revoked'[t] = revoked[t]
  <1>1. job[p].step = "look" /\ UNCHANGED <<file, code, joins, issued, budget>>
    BY DEF Look
  <1>2. Revoker(p) /\ job[p] \in Job /\ job[p].removed \in BOOLEAN
    BY <1>1, RevokerKind DEF RevokeStep
  <1>3. CASE Readable(job[p].at, "pending")
    BY <1>1, <1>2, <1>3, GotoEffect DEF Look, IInv
  <1>4. CASE ~Readable(job[p].at, "pending")
    BY <1>1, <1>2, <1>4, EndEffect DEF Look
  <1> QED  BY <1>3, <1>4

LEMMA DropPendingEffect ==
    ASSUME IInv, NEW p \in Procs, DropPending(p)
    PROVE  /\ Revoker(p) /\ job[p].step = "drop_pending" /\ Others(p) /\ Only(job[p].at, "pending")
           /\ UNCHANGED <<code, joins, issued>> /\ job'[p] = Idle
           /\ \A t \in Stores : t # job[p].at => revoked'[t] = revoked[t]
           /\ file'[job[p].at]["pending"] \in {file[job[p].at]["pending"], Absent}
           /\ revoked'[job[p].at] = revoked[job[p].at]
              \/ /\ revoked'[job[p].at] = "done"
                 /\ job[p].removed \/ file[job[p].at]["pending"].have # "none"
           /\ Smooth' => Smooth /\ file'[job[p].at]["pending"].have = "none"
           /\ Unbroken' => Unbroken
  <1>1. PICK ok \in BOOLEAN : /\ Unlink(job[p].at, "pending", ok)
                              /\ RevokeEnd(p, job[p].removed \/ ok)
    BY DEF DropPending
  <1>2. job[p].step = "drop_pending" /\ UNCHANGED <<code, joins, issued>>
    BY DEF DropPending
  <1>3. Revoker(p) /\ job[p] \in Job /\ job[p].removed \in BOOLEAN
    BY <1>2, RevokerKind DEF RevokeStep
  <1>4. /\ Only(job[p].at, "pending")
        /\ file'[job[p].at]["pending"] \in {file[job[p].at]["pending"], Absent}
        /\ ok => file[job[p].at]["pending"].have # "none"
        /\ Smooth' => Smooth /\ file'[job[p].at]["pending"].have = "none"
        /\ Unbroken' => Unbroken
    BY <1>1, <1>3, UnlinkEffect DEF IInv, Kinds, Revoker
  <1>5. /\ job'[p] = Idle /\ Others(p)
        /\ revoked'[job[p].at] = IF job[p].removed \/ ok THEN "done" ELSE revoked[job[p].at]
        /\ \A t \in Stores : t # job[p].at => revoked'[t] = revoked[t]
    <2> DEFINE removed == job[p].removed \/ ok
    <2>1. removed \in BOOLEAN /\ RevokeEnd(p, removed)
      BY <1>1, <1>3
    <2> HIDE DEF removed
    <2>2. /\ job'[p] = Idle /\ Others(p)
          /\ revoked'[job[p].at] = IF removed THEN "done" ELSE revoked[job[p].at]
          /\ \A t \in Stores : t # job[p].at => revoked'[t] = revoked[t]
      BY <1>3, <2>1, EndEffect
    <2> QED  BY <2>2 DEF removed
  <1> QED  BY <1>2, <1>3, <1>4, <1>5

LEMMA CrashEffect ==
    ASSUME IInv, NEW p \in Procs, Crash(p)
    PROVE  /\ job[p] # Idle /\ job'[p] = Idle /\ Others(p) /\ UNCHANGED <<file, history>>
           /\ ~Unbroken' /\ (Smooth' => Smooth)
  <1>1. ~Unbroken' /\ (Smooth' => Smooth)
    BY BoundsAssumption DEF Crash, Spend, Unbroken, Smooth, IInv, Wellformed
  <1> QED  BY <1>1, ReturnEffect DEF Crash, IInv

-----------------------------------------------------------------------------
(* What is known whatever interleaves, fails or crashes. *)

LEMMA KnownBegins ==
    ASSUME IInv, Known, NEW p \in Procs, Invite(p) \/ Join(p) \/ Confirm(p)
    PROVE  Known'
  <1>1. /\ code => file'["inviter"]["pending"].have # "torn"
        /\ UNCHANGED <<file, code, issued, revoked>> /\ joins' \in {joins, joins + 1}
        /\ issued \subseteq 1..joins' /\ joins \in Nat
    BY BeginsEffect DEF Known, IInv, Wellformed
  <1>2. ASSUME NEW q \in Procs
        PROVE  /\ job'[q].op = "invite" /\ job'[q].step = "answer" => Readable("inviter", "pending")
               /\ job'[q].op = "join" => job'[q].key \in 1..joins'
               /\ job'[q].op = "confirm" => job'[q].key \in issued
               /\ job'[q].op = "revoke" => code /\ revoked[job'[q].at] # "no"
    <2>1. CASE q # p
      BY <1>1, <2>1, BeginsEffect DEF Known, Others
    <2>2. CASE q = p
      <3>1. \/ job'[p].op = "invite" /\ job'[p].step = "pending"
            \/ job'[p].op = "join" /\ job'[p].key = joins + 1 /\ joins' = joins + 1
            \/ job'[p].op = "confirm" /\ job'[p].key \in issued
        BY BeginsEffect DEF Begun
      <3>2. joins' = joins + 1 => joins + 1 \in 1..joins'
        BY <1>1
      <3> QED  BY <2>2, <3>1, <3>2
    <2> QED  BY <2>1, <2>2
  <1> QED  BY <1>1, <1>2 DEF Known, Readable

LEMMA KnownRevoke ==
    ASSUME IInv, Known, NEW p \in Procs, NEW s \in Stores, Revoke(p, s)
    PROVE  Known'
  <1>1. \A t \in Stores : revoked[t] # "no" => revoked'[t] # "no"
    BY RevokeEffect
  <1>2. ASSUME NEW q \in Procs
        PROVE  /\ job'[q].op = "invite" /\ job'[q].step = "answer" => Readable("inviter", "pending")
               /\ job'[q].op = "join" => job'[q].key \in 1..joins
               /\ job'[q].op = "confirm" => job'[q].key \in issued
               /\ job'[q].op = "revoke" => code /\ revoked'[job'[q].at] # "no"
    <2>1. CASE q # p
      <3>1. job'[q] = job[q]
        BY <2>1, RevokeEffect DEF Others
      <3>2. job[q].op = "revoke" => job[q].at \in Stores
        BY DEF IInv, Wellformed, Job, Jobs, Idle, Stores
      <3> QED  BY <1>1, <3>1, <3>2 DEF Known
    <2>2. CASE q = p
      BY <2>2, RevokeEffect DEF Begun
    <2> QED  BY <2>1, <2>2
  <1>3. code /\ UNCHANGED <<file, code, joins, issued>>
    BY RevokeEffect
  <1> QED  BY <1>2, <1>3 DEF Known, Readable

\* A step that leaves the history and the records of the inviter alone, or
\* clears them, and begins no call.
LEMMA KnownQuiet ==
    ASSUME IInv, IInv', Known, NEW p \in Procs, UNCHANGED <<code, joins, issued>>, Others(p),
           job'[p] = Idle \/ (job'[p].op = job[p].op /\ job'[p].key = job[p].key
                                 /\ job'[p].at = job[p].at),
           job'[p].op = "invite" /\ job'[p].step = "answer" => Readable("inviter", "pending")',
           ~code => revoked'["inviter"] = revoked["inviter"],
           \A t \in Stores : revoked[t] # "no" => revoked'[t] # "no",
           code => file'["inviter"]["pending"].have # "torn",
           \A q \in Procs \ {p} : job[q].op = "invite" /\ job[q].step = "answer" =>
               file'["inviter"]["pending"] = file["inviter"]["pending"],
           \/ file'["inviter"]["peer"] \in {file["inviter"]["peer"], Absent}
           \/ /\ code
              /\ Readable("inviter", "peer")' => file'["inviter"]["peer"].key \in issued
    PROVE  Known'
  <1>1. ASSUME NEW q \in Procs
        PROVE  /\ job'[q].op = "invite" /\ job'[q].step = "answer" => Readable("inviter", "pending")'
               /\ job'[q].op = "join" => job'[q].key \in 1..joins
               /\ job'[q].op = "confirm" => job'[q].key \in issued
               /\ job'[q].op = "revoke" => code /\ revoked'[job'[q].at] # "no"
    <2>1. job[q].op = "revoke" => job[q].at \in Stores
      BY DEF IInv, Wellformed, Job, Jobs, Idle, Stores
    <2>2. CASE q # p
      BY <2>1, <2>2 DEF Known, Others, Readable
    <2>3. CASE q = p
      BY <2>1, <2>3 DEF Known, Idle
    <2> QED  BY <2>2, <2>3
  <1>2. /\ ~code => file'["inviter"]["peer"].have = "none" /\ revoked'["inviter"] = "no"
        /\ Readable("inviter", "peer")' => file'["inviter"]["peer"].key \in issued
    BY DEF Known, Readable, Absent
  <1> QED  BY <1>1, <1>2 DEF Known

\* A call that writes to the inviter's records writes what it carries; only
\* the invite, before the code is out, touches the pending record.
LEMMA KnownWrites ==
    ASSUME IInv, IInv', Known, NEW p \in Procs, Open(p) \/ Write(p) \/ WriteFails(p)
    PROVE  Known'
  <1>1. /\ job[p].step \in Kinds /\ Only(job[p].at, job[p].step) /\ Others(p)
        /\ file'[job[p].at][job[p].step] \in
               {Torn, file[job[p].at][job[p].step], Whole(job[p].key)}
        /\ UNCHANGED history
        /\ \/ Onward(p, job[p].step) \/ Onward(p, "undo_peer") \/ job'[p] = Idle
           \/ /\ Onward(p, AfterWrite(job[p]))
              /\ file'[job[p].at][job[p].step] = Whole(job[p].key)
    BY OpenEffect, WriteEffect, WriteFailsEffect
  <1>2. UNCHANGED <<code, joins, issued, revoked>>
    BY <1>1 DEF history
  <1>3. \/ job'[p] = Idle
        \/ job'[p].op = job[p].op /\ job'[p].key = job[p].key /\ job'[p].at = job[p].at
    BY <1>1 DEF Onward
  <1>4. \/ Inviter(p) /\ job[p].step = "pending"
        \/ Joiner(p) /\ job[p].step \in {"peer", "local"}
        \/ Confirmer(p) /\ job[p].step \in {"peer", "local"}
    BY <1>1, WriterKind
  <1>5. job'[p].op = "invite" /\ job'[p].step = "answer" => Readable("inviter", "pending")'
    <2>1. SUFFICES ASSUME job'[p].op = "invite", job'[p].step = "answer"
                   PROVE  Readable("inviter", "pending")'
      OBVIOUS
    <2>2. job'[p] # Idle
      BY <2>1 DEF Idle
    <2>3. Inviter(p) /\ job[p].step = "pending"
      BY <1>3, <1>4, <2>1, <2>2 DEF Joiner, Confirmer
    <2>4. job'[p].step # "pending" /\ job'[p].step # "undo_peer"
      BY <2>1
    <2>5. file'["inviter"]["pending"] = Whole(job[p].key)
      BY <1>1, <2>2, <2>3, <2>4 DEF Onward, Inviter
    <2> QED  BY <2>5 DEF Readable, Whole
  <1>6. /\ code => file'["inviter"]["pending"].have # "torn"
        /\ \A q \in Procs \ {p} : job[q].op = "invite" /\ job[q].step = "answer" =>
               file'["inviter"]["pending"] = file["inviter"]["pending"]
    <2>1. CASE Inviter(p)
      <3>1. \A q \in Procs : job[q].op = "invite" => q = p
        BY <2>1 DEF Inviter, IInv, OneInvite, Calls
      <3> QED  BY <2>1, <3>1 DEF Inviter
    <2>2. CASE ~Inviter(p)
      <3>1. file'["inviter"]["pending"] = file["inviter"]["pending"]
        BY <1>1, <1>4, <2>2 DEF Only, Stores, Kinds
      <3> QED  BY <3>1 DEF Known
    <2> QED  BY <2>1, <2>2
  <1>7. \/ file'["inviter"]["peer"] = file["inviter"]["peer"]
        \/ code /\ (Readable("inviter", "peer")' => file'["inviter"]["peer"].key \in issued)
    <2>1. CASE Confirmer(p) /\ job[p].step = "peer"
      <3>1. code /\ job[p].key \in issued
        BY <2>1 DEF Confirmer, IInv, OneInvite, Calls, Known
      <3>2. file'["inviter"]["peer"] \in {Torn, file["inviter"]["peer"], Whole(job[p].key)}
        BY <1>1, <2>1 DEF Confirmer
      <3> QED  BY <3>1, <3>2 DEF Torn, Whole, Readable
    <2>2. CASE ~(Confirmer(p) /\ job[p].step = "peer")
      BY <1>1, <1>4, <2>2 DEF Only, Stores, Kinds, Inviter, Joiner, Confirmer
    <2> QED  BY <2>1, <2>2
  <1>8. Others(p) /\ UNCHANGED <<code, joins, issued>> /\ revoked' = revoked
    BY <1>1, <1>2
  <1>9. \/ file'["inviter"]["peer"] \in {file["inviter"]["peer"], Absent}
        \/ code /\ (Readable("inviter", "peer")' => file'["inviter"]["peer"].key \in issued)
    BY <1>7
  <1> QED  BY <1>3, <1>5, <1>6, <1>8, <1>9, KnownQuiet DEF Readable

\* A step that only removes records.
LEMMA KnownRemoves ==
    ASSUME IInv, IInv', Known, NEW p \in Procs,
           Commit(p) \/ Undo(p) \/ DropLocal(p) \/ DropPeer(p) \/ Look(p) \/ DropPending(p)
               \/ Crash(p)
    PROVE  Known'
  <1>1. Others(p) /\ UNCHANGED <<code, joins, issued>>
    BY CommitEffect, UndoEffect, DropLocalEffect, DropPeerEffect, LookEffect,
       DropPendingEffect, CrashEffect DEF history
  <1>2. /\ \/ job'[p] = Idle
           \/ job'[p].op = job[p].op /\ job'[p].key = job[p].key /\ job'[p].at = job[p].at
        /\ job'[p].step # "answer"
    BY CommitEffect, UndoEffect, DropLocalEffect, DropPeerEffect, LookEffect,
       DropPendingEffect, CrashEffect DEF Onward, Idle
  <1>3. /\ ~code => revoked' = revoked
        /\ \A t \in Stores : revoked[t] # "no" => revoked'[t] # "no"
    <2>1. CASE Look(p) \/ DropPending(p)
      <3>1. Revoker(p) /\ code
        BY <2>1, LookEffect, DropPendingEffect DEF Revoker, Known
      <3>2. \A t \in Stores : revoked'[t] = revoked[t] \/ revoked'[t] = "done"
        BY <2>1, LookEffect, DropPendingEffect
      <3> QED  BY <3>1, <3>2
    <2>2. CASE ~(Look(p) \/ DropPending(p))
      BY <2>2, CommitEffect, UndoEffect, DropLocalEffect, DropPeerEffect, CrashEffect DEF history
    <2> QED  BY <2>1, <2>2
  <1>4. /\ file'["inviter"]["pending"] \in {file["inviter"]["pending"], Absent}
        /\ file'["inviter"]["peer"] \in {file["inviter"]["peer"], Absent}
    BY CommitEffect, UndoEffect, DropLocalEffect, DropPeerEffect, LookEffect,
       DropPendingEffect, CrashEffect DEF Only, Stores, Kinds, Inviter, Confirmer, Joiner, Revoker
  <1>5. code => file'["inviter"]["pending"].have # "torn"
    BY <1>4 DEF Known, Absent
  <1>6. \A q \in Procs \ {p} : job[q].op = "invite" /\ job[q].step = "answer" =>
            file'["inviter"]["pending"] = file["inviter"]["pending"]
    <2>1. SUFFICES ASSUME NEW q \in Procs \ {p}, job[q].op = "invite"
                   PROVE  file'["inviter"]["pending"] = file["inviter"]["pending"]
      OBVIOUS
    <2>2. ~code /\ ~Inviter(p)
      BY <2>1 DEF IInv, OneInvite, Calls, Inviter
    <2>3. ~Confirmer(p) /\ ~Revoker(p) /\ ~Joiner(p)
      BY <2>2 DEF IInv, OneInvite, Calls, Confirmer, Revoker, Joiner, Known
    <2> QED
      BY <2>2, <2>3, CommitEffect, UndoEffect, DropLocalEffect, DropPeerEffect, LookEffect,
         DropPendingEffect, CrashEffect
  <1> QED  BY <1>1, <1>2, <1>3, <1>4, <1>5, <1>6, KnownQuiet DEF Readable

LEMMA KnownAnswer ==
    ASSUME IInv, IInv', Known, NEW p \in Procs, Answer(p)
    PROVE  Known'
  <1>1. Others(p) /\ UNCHANGED <<file, joins, revoked>> /\ job[p].step = "answer"
    BY AnswerEffect
  <1>2. CASE Inviter(p) /\ code' /\ job'[p] = Idle /\ UNCHANGED issued
    <2>1. Readable("inviter", "pending")
      BY <1>1, <1>2 DEF Known, Inviter
    <2>2. ASSUME NEW q \in Procs
          PROVE  /\ job'[q].op # "invite"
                 /\ job'[q].op = "join" => job'[q].key \in 1..joins
                 /\ job'[q].op = "confirm" => job'[q].key \in issued
                 /\ job'[q].op # "revoke"
      <3>1. CASE q = p
        BY <1>2, <3>1 DEF Idle
      <3>2. CASE q # p
        <4>1. job'[q] = job[q]
          BY <1>1, <3>2 DEF Others
        <4>2. job[q].op # "invite" /\ job[q].op # "revoke"
          BY <1>2, <3>2 DEF IInv, OneInvite, Calls, Inviter, Known
        <4> QED  BY <4>1, <4>2 DEF Known
      <3> QED  BY <3>1, <3>2
    <2> QED  BY <1>1, <1>2, <2>1, <2>2 DEF Known, Readable
  <1>3. CASE Inviter(p) /\ Onward(p, "undo_pending") /\ UNCHANGED <<code, issued>>
    <2>1. \A q \in Procs \ {p} : job[q].op # "invite"
      BY <1>3 DEF IInv, OneInvite, Calls, Inviter
    <2>2. job'[p].op = job[p].op /\ job'[p].key = job[p].key /\ job'[p].at = job[p].at
          /\ job'[p].step # "answer"
      BY <1>3 DEF Onward
    <2>3. code => file'["inviter"]["pending"].have # "torn"
      BY <1>1 DEF Known
    <2> QED  BY <1>1, <1>3, <2>1, <2>2, <2>3, KnownQuiet DEF Readable
  <1>4. CASE Joiner(p) /\ issued' = issued \cup {job[p].key} /\ job'[p] = Idle /\ UNCHANGED code
    <2>1. job[p].key \in 1..joins
      BY <1>4 DEF Joiner, Known
    <2>2. ASSUME NEW q \in Procs
          PROVE  /\ job'[q].op = "invite" /\ job'[q].step = "answer" => Readable("inviter", "pending")
                 /\ job'[q].op = "join" => job'[q].key \in 1..joins
                 /\ job'[q].op = "confirm" => job'[q].key \in issued'
                 /\ job'[q].op = "revoke" => code /\ revoked[job'[q].at] # "no"
      <3>1. CASE q = p
        BY <1>4, <3>1 DEF Idle
      <3>2. CASE q # p
        BY <1>1, <1>4, <3>2 DEF Known, Others
      <3> QED  BY <3>1, <3>2
    <2> QED  BY <1>1, <1>4, <2>1, <2>2 DEF Known, Readable
  <1> QED  BY <1>2, <1>3, <1>4, AnswerEffect

-----------------------------------------------------------------------------
(* What holds as long as no two calls have been under way at once. *)

\* Process p is the only one with a call.
Solo(p) == \A q \in Procs : q # p => job[q] = Idle /\ job'[q] = Idle

LEMMA InviterQuiet ==
    ASSUME InviterOK, NEW p \in Procs, Solo(p),
           \/ revoked'["inviter"] # "no"
           \/ /\ job'[p].op # "confirm" /\ (code' => code)
              /\ revoked'["inviter"] = revoked["inviter"]
              /\ \A k \in Kinds : file'["inviter"][k] = file["inviter"][k]
    PROVE  InviterOK'
  BY DEF InviterOK, Solo, Idle, Readable, Established, CanSeal, CanUnseal, Kinds

LEMMA InviterBegins ==
    ASSUME IInv, Known, InviterOK, NEW p \in Procs, Solo(p),
           \/ Invite(p) \/ Join(p) \/ Confirm(p) \/ \E s \in Stores : Revoke(p, s)
    PROVE  InviterOK'
  <1>1. CASE \E s \in Stores : Revoke(p, s)
    <2>1. PICK s \in Stores : Revoke(p, s)
      BY <1>1
    <2>2. CASE s = "inviter"
      BY <2>1, <2>2, RevokeEffect, InviterQuiet
    <2>3. CASE s # "inviter"
      <3>1. job'[p].op # "confirm" /\ UNCHANGED <<file, code>>
        BY <2>1, RevokeEffect DEF Begun
      <3>2. revoked'["inviter"] = revoked["inviter"]
        BY <2>1, <2>3, RevokeEffect DEF Stores
      <3> QED  BY <3>1, <3>2, InviterQuiet
    <2> QED  BY <2>2, <2>3
  <1>2. CASE Invite(p) \/ Join(p) \/ Confirm(p)
    <2>1. UNCHANGED <<file, code, revoked>>
      BY <1>2, BeginsEffect
    <2>2. CASE job'[p].op = "confirm"
      <3>1. Readable("inviter", "pending") /\ job'[p].step = "peer"
        BY <1>2, <2>2, BeginsEffect DEF Begun
      <3> QED  BY <2>1, <3>1 DEF InviterOK, Solo, Idle, Readable, Established, CanSeal, CanUnseal
    <2>3. CASE job'[p].op # "confirm"
      BY <2>1, <2>3, InviterQuiet
    <2> QED  BY <2>2, <2>3
  <1> QED  BY <1>1, <1>2

\* What AfterWrite makes of the steps of a confirm and of a join.
LEMMA NextStep ==
    ASSUME NEW p \in Procs
    PROVE  /\ job[p].op = "invite" /\ job[p].step = "pending" => AfterWrite(job[p]) = "answer"
           /\ job[p].step = "peer" => AfterWrite(job[p]) = "local"
           /\ job[p].op = "confirm" /\ job[p].step = "local" => AfterWrite(job[p]) = "commit"
           /\ job[p].op = "join" /\ job[p].step = "local" => AfterWrite(job[p]) = "answer"
  BY DEF AfterWrite

LEMMA InviterWrites ==
    ASSUME IInv, InviterOK, NEW p \in Procs, Solo(p),
           Open(p) \/ Write(p) \/ WriteFails(p)
    PROVE  InviterOK'
  <1>1. /\ job[p].step \in Kinds /\ Only(job[p].at, job[p].step) /\ Others(p)
        /\ file'[job[p].at][job[p].step] \in
               {Torn, file[job[p].at][job[p].step], Whole(job[p].key)}
        /\ UNCHANGED history
        /\ \/ Onward(p, job[p].step) \/ Onward(p, "undo_peer") \/ job'[p] = Idle
           \/ /\ Onward(p, AfterWrite(job[p]))
              /\ file'[job[p].at][job[p].step] = Whole(job[p].key)
    BY OpenEffect, WriteEffect, WriteFailsEffect
  <1>2. UNCHANGED <<code, revoked>>
    BY <1>1 DEF history
  <1>3. CASE Inviter(p) /\ job[p].step = "pending"
    BY <1>1, <1>2, <1>3 DEF InviterOK, Solo, Idle, Onward, Inviter
  <1>4. CASE Joiner(p)
    <2>1. \A k \in Kinds : file'["inviter"][k] = file["inviter"][k]
      BY <1>1, <1>4 DEF Joiner, Only, Stores
    <2>2. job'[p].op # "confirm"
      BY <1>1, <1>4 DEF Joiner, Onward, Idle
    <2> QED  BY <1>2, <2>1, <2>2, InviterQuiet
  <1>5. CASE Confirmer(p) /\ job[p].step \in {"peer", "local"} /\ revoked["inviter"] = "no"
    <2>1. Readable("inviter", "pending") /\ (job[p].step = "local" => Readable("inviter", "peer"))
      BY <1>5 DEF InviterOK, Confirmer
    <2>2. /\ file'["inviter"]["pending"] = file["inviter"]["pending"]
          /\ job[p].step = "local" => file'["inviter"]["peer"] = file["inviter"]["peer"]
      BY <1>1, <1>5 DEF Only, Stores, Kinds, Confirmer
    <2>3. \/ job'[p].step = job[p].step \/ job'[p].step = "undo_peer" \/ job'[p] = Idle
          \/ /\ job'[p].step = IF job[p].step = "peer" THEN "local" ELSE "commit"
             /\ file'["inviter"][job[p].step] = Whole(job[p].key)
      BY <1>1, <1>5, NextStep DEF Onward, Confirmer
    <2>4. /\ job'[p].op = "confirm" /\ job'[p].step \in {"local", "commit"} =>
                 file'["inviter"]["peer"].have = "whole"
          /\ job'[p].op = "confirm" /\ job'[p].step = "commit" =>
                 file'["inviter"]["local"].have = "whole"
      BY <1>5, <2>1, <2>2, <2>3 DEF Idle, Readable, Whole
    <2> QED  BY <1>2, <2>1, <2>2, <2>4 DEF InviterOK, Solo, Idle, Readable
  <1>6. CASE revoked["inviter"] # "no"
    BY <1>2, <1>6, InviterQuiet
  <1> QED  BY <1>1, <1>3, <1>4, <1>5, <1>6, WriterKind

LEMMA InviterCommits ==
    ASSUME IInv, InviterOK, NEW p \in Procs, Solo(p), Commit(p)
    PROVE  InviterOK'
  <1>1. CASE revoked["inviter"] # "no"
    BY <1>1, CommitEffect, InviterQuiet
  <1>2. CASE revoked["inviter"] = "no"
    <2>1. /\ file["inviter"]["pending"].have = "whole" /\ file["inviter"]["peer"].have = "whole"
          /\ file["inviter"]["local"].have = "whole"
      BY <1>2, CommitEffect DEF InviterOK, Confirmer, Readable
    <2>2. /\ file'["inviter"]["peer"] = file["inviter"]["peer"]
          /\ file'["inviter"]["local"] = file["inviter"]["local"]
      BY CommitEffect DEF Only, Stores, Kinds
    <2>3. \/ job'[p] = Idle
          \/ /\ file'["inviter"]["pending"] = file["inviter"]["pending"]
             /\ job'[p].step = "undo_local"
      BY CommitEffect DEF Onward
    <2> QED
      BY <2>1, <2>2, <2>3 DEF InviterOK, Solo, Idle, Readable, Established, CanSeal, CanUnseal
  <1> QED  BY <1>1, <1>2

LEMMA InviterAnswers ==
    ASSUME IInv, Known, InviterOK, NEW p \in Procs, Solo(p), Answer(p)
    PROVE  InviterOK'
  <1>1. job'[p].op # "confirm" /\ UNCHANGED <<file, revoked>>
    BY AnswerEffect DEF Idle, Onward, Inviter
  <1>2. CASE code' => code
    BY <1>1, <1>2, InviterQuiet
  <1>3. CASE ~(code' => code)
    <2>1. Inviter(p) /\ job[p].step = "answer"
      BY <1>3, AnswerEffect
    <2>2. Readable("inviter", "pending")
      BY <2>1 DEF Known, Inviter
    <2> QED  BY <1>1, <2>2 DEF InviterOK, Solo, Idle, Readable
  <1> QED  BY <1>2, <1>3

LEMMA InviterUndoes ==
    ASSUME IInv, InviterOK, NEW p \in Procs, Solo(p), Undo(p)
    PROVE  InviterOK'
  <1>1. UNCHANGED <<code, revoked>>
    BY UndoEffect DEF history
  <1>2. CASE Inviter(p)
    <2>1. job'[p] = Idle
      BY <1>2, UndoEffect DEF Inviter, Confirmer, Joiner
    <2> QED  BY <1>1, <1>2, <2>1 DEF InviterOK, Solo, Idle, Inviter
  <1>3. CASE Joiner(p)
    <2>1. job'[p] = Idle /\ Only("joiner", "peer")
      BY <1>3, UndoEffect DEF Inviter, Confirmer, Joiner
    <2> QED  BY <1>1, <2>1, InviterQuiet DEF Only, Stores, Kinds, Idle
  <1>4. CASE Confirmer(p) /\ revoked["inviter"] = "no"
    <2>1. /\ file'["inviter"]["pending"] = file["inviter"]["pending"]
          /\ job'[p] = Idle \/ job'[p].step = "undo_peer"
      BY <1>4, UndoEffect DEF Inviter, Confirmer, Joiner, Only, Stores, Kinds, Onward
    <2>2. Readable("inviter", "pending")
      BY <1>4 DEF InviterOK, Confirmer
    <2> QED  BY <1>1, <2>1, <2>2 DEF InviterOK, Solo, Idle, Readable
  <1>5. CASE revoked["inviter"] # "no"
    BY <1>1, <1>5, InviterQuiet
  <1> QED  BY <1>2, <1>3, <1>4, <1>5, UndoEffect

LEMMA InviterEnds ==
    ASSUME IInv, Known, InviterOK, NEW p \in Procs, Solo(p),
           DropLocal(p) \/ DropPeer(p) \/ Look(p) \/ DropPending(p) \/ Crash(p)
    PROVE  InviterOK'
  <1>1. CASE Crash(p)
    BY <1>1, CrashEffect, InviterQuiet DEF history, Idle
  <1>2. CASE DropLocal(p) \/ DropPeer(p) \/ Look(p) \/ DropPending(p)
    <2>1. Revoker(p) /\ revoked[job[p].at] # "no"
      BY <1>2, DropLocalEffect, DropPeerEffect, LookEffect, DropPendingEffect DEF Known, Revoker
    <2>2. \A t \in Stores : revoked'[t] = revoked[t] \/ revoked'[t] = "done"
      BY <1>2, DropLocalEffect, DropPeerEffect, LookEffect, DropPendingEffect DEF history
    <2>3. CASE job[p].at = "inviter"
      <3>1. revoked'["inviter"] # "no"
        BY <2>1, <2>2, <2>3 DEF Revoker
      <3> QED  BY <3>1, InviterQuiet
    <2>4. CASE job[p].at # "inviter"
      <3>1. /\ job'[p].op # "confirm" /\ UNCHANGED code
            /\ revoked'["inviter"] = revoked["inviter"]
        BY <1>2, <2>1, <2>4, DropLocalEffect, DropPeerEffect, LookEffect, DropPendingEffect
        DEF history, Revoker, Onward, Idle, Stores
      <3>2. \A k \in Kinds : file'["inviter"][k] = file["inviter"][k]
        BY <1>2, <2>4, DropLocalEffect, DropPeerEffect, LookEffect, DropPendingEffect
        DEF Only, Stores
      <3> QED  BY <3>1, <3>2, InviterQuiet
    <2> QED  BY <2>3, <2>4
  <1> QED  BY <1>1, <1>2

LEMMA JoinerQuiet ==
    ASSUME JoinerOK, NEW p \in Procs, Solo(p), job'[p].op # "join",
           UNCHANGED <<joins, issued>>,
           \/ revoked'["joiner"] # "no"
           \/ joins \notin issued
           \/ /\ revoked'["joiner"] = revoked["joiner"]
              /\ \A k \in Kinds : file'["joiner"][k] = file["joiner"][k]
    PROVE  JoinerOK'
  BY DEF JoinerOK, Solo, Idle, Readable, Established, CanSeal, CanUnseal, Kinds

LEMMA JoinerBegins ==
    ASSUME IInv, Known, JoinerOK, NEW p \in Procs, Solo(p),
           \/ Invite(p) \/ Join(p) \/ Confirm(p) \/ \E s \in Stores : Revoke(p, s)
    PROVE  JoinerOK'
  <1>1. CASE \E s \in Stores : Revoke(p, s)
    <2>1. PICK s \in Stores : Revoke(p, s)
      BY <1>1
    <2>2. job'[p].op # "join" /\ UNCHANGED <<file, joins, issued>>
      BY <2>1, RevokeEffect DEF Begun
    <2>3. revoked'["joiner"] # "no" \/ revoked'["joiner"] = revoked["joiner"]
      BY <2>1, RevokeEffect DEF Stores
    <2> QED  BY <2>2, <2>3, JoinerQuiet
  <1>2. CASE Invite(p) \/ Join(p) \/ Confirm(p)
    <2>1. UNCHANGED <<file, issued, revoked>>
      BY <1>2, BeginsEffect
    <2>2. CASE job'[p].op = "join"
      <3>1. job'[p].key = joins + 1 /\ joins' = joins + 1 /\ job'[p].step = "peer"
        BY <1>2, <2>2, BeginsEffect DEF Begun
      <3>2. joins + 1 \notin issued
        BY DEF Known, IInv, Wellformed
      <3> QED  BY <2>1, <3>1, <3>2 DEF JoinerOK, Solo, Idle
    <2>3. CASE job'[p].op # "join"
      <3>1. joins' = joins
        BY <1>2, <2>3, BeginsEffect DEF Begun
      <3> QED  BY <2>1, <2>3, <3>1, JoinerQuiet
    <2> QED  BY <2>2, <2>3
  <1> QED  BY <1>1, <1>2

LEMMA JoinerWrites ==
    ASSUME IInv, JoinerOK, NEW p \in Procs, Solo(p),
           Open(p) \/ Write(p) \/ WriteFails(p)
    PROVE  JoinerOK'
  <1>1. /\ job[p].step \in Kinds /\ Only(job[p].at, job[p].step) /\ Others(p)
        /\ file'[job[p].at][job[p].step] \in
               {Torn, file[job[p].at][job[p].step], Whole(job[p].key)}
        /\ UNCHANGED history
        /\ \/ Onward(p, job[p].step) \/ Onward(p, "undo_peer") \/ job'[p] = Idle
           \/ /\ Onward(p, AfterWrite(job[p]))
              /\ file'[job[p].at][job[p].step] = Whole(job[p].key)
    BY OpenEffect, WriteEffect, WriteFailsEffect
  <1>2. UNCHANGED <<joins, issued, revoked>>
    BY <1>1 DEF history
  <1>3. CASE Inviter(p) \/ Confirmer(p)
    <2>1. \A k \in Kinds : file'["joiner"][k] = file["joiner"][k]
      BY <1>1, <1>3 DEF Inviter, Confirmer, Only, Stores
    <2>2. job'[p].op # "join"
      BY <1>1, <1>3 DEF Inviter, Confirmer, Onward, Idle
    <2> QED  BY <1>2, <2>1, <2>2, JoinerQuiet
  <1>4. CASE Joiner(p) /\ job[p].step \in {"peer", "local"}
    <2>1. /\ joins \notin issued /\ job[p].key = joins
          /\ job[p].step = "local" => file["joiner"]["peer"] = Whole(joins)
      BY <1>4 DEF JoinerOK, Joiner
    <2>2. CASE job'[p] = Idle
      <3>1. job'[p].op # "join"
        BY <2>2 DEF Idle
      <3> QED  BY <1>2, <2>1, <3>1, JoinerQuiet
    <2>3. CASE job'[p] # Idle
      <3>1. job'[p].key = joins
        BY <1>1, <2>1, <2>3 DEF Onward
      <3>2. \/ job'[p].step = job[p].step \/ job'[p].step = "undo_peer"
            \/ /\ job'[p].step = IF job[p].step = "peer" THEN "local" ELSE "answer"
               /\ file'["joiner"][job[p].step] = Whole(joins)
        BY <1>1, <1>4, <2>1, <2>3, NextStep DEF Onward, Joiner
      <3>3. job[p].step = "local" => file'["joiner"]["peer"] = Whole(joins)
        BY <1>1, <1>4, <2>1 DEF Only, Stores, Kinds, Joiner
      <3>4. /\ job'[p].step \in {"local", "answer"} => file'["joiner"]["peer"] = Whole(joins)
            /\ job'[p].step = "answer" => file'["joiner"]["local"].have = "whole"
        BY <1>4, <3>2, <3>3 DEF Whole
      <3> QED  BY <1>2, <2>1, <3>1, <3>4 DEF JoinerOK, Solo, Idle, Readable
    <2> QED  BY <2>2, <2>3
  <1> QED  BY <1>1, <1>3, <1>4, WriterKind

LEMMA JoinerAnswers ==
    ASSUME IInv, JoinerOK, NEW p \in Procs, Solo(p), Answer(p)
    PROVE  JoinerOK'
  <1>1. UNCHANGED <<file, joins, revoked>>
    BY AnswerEffect
  <1>2. CASE Inviter(p)
    <2>1. issued' = issued /\ job'[p].op # "join"
      BY <1>2, AnswerEffect DEF Inviter, Joiner, Onward, Idle
    <2> QED  BY <1>1, <2>1, JoinerQuiet
  <1>3. CASE Joiner(p)
    <2>1. /\ file["joiner"]["peer"] = Whole(joins) /\ file["joiner"]["local"].have = "whole"
      BY <1>3, AnswerEffect DEF JoinerOK, Joiner, Readable
    <2>2. job'[p] = Idle
      BY <1>3, AnswerEffect DEF Inviter, Joiner
    <2> QED
      BY <1>1, <2>1, <2>2 DEF JoinerOK, Solo, Idle, Readable, Established, CanSeal, CanUnseal, Whole
  <1> QED  BY <1>2, <1>3, AnswerEffect

LEMMA JoinerEnds ==
    ASSUME IInv, Known, JoinerOK, NEW p \in Procs, Solo(p),
           Commit(p) \/ Undo(p) \/ DropLocal(p) \/ DropPeer(p) \/ Look(p) \/ DropPending(p)
               \/ Crash(p)
    PROVE  JoinerOK'
  <1>1. UNCHANGED <<joins, issued>>
    BY CommitEffect, UndoEffect, DropLocalEffect, DropPeerEffect, LookEffect,
       DropPendingEffect, CrashEffect DEF history
  <1>2. job'[p].op # "join"
    BY CommitEffect, UndoEffect, DropLocalEffect, DropPeerEffect, LookEffect,
       DropPendingEffect, CrashEffect DEF Onward, Idle, Confirmer, Revoker
  <1>3. CASE Joiner(p)
    <2>1. joins \notin issued
      BY <1>3 DEF Joiner, JoinerOK
    <2> QED  BY <1>1, <1>2, <2>1, JoinerQuiet
  <1>4. CASE ~Joiner(p) /\ (Commit(p) \/ Undo(p) \/ Crash(p))
    <2>1. \A k \in Kinds : file'["joiner"][k] = file["joiner"][k]
      BY <1>4, CommitEffect, UndoEffect, CrashEffect DEF Only, Stores, Inviter, Confirmer
    <2>2. revoked' = revoked
      BY <1>4, CommitEffect, UndoEffect, CrashEffect DEF history
    <2> QED  BY <1>1, <1>2, <2>1, <2>2, JoinerQuiet
  <1>5. CASE DropLocal(p) \/ DropPeer(p) \/ Look(p) \/ DropPending(p)
    <2>1. Revoker(p) /\ revoked[job[p].at] # "no"
      BY <1>5, DropLocalEffect, DropPeerEffect, LookEffect, DropPendingEffect DEF Known, Revoker
    <2>2. \A t \in Stores : revoked'[t] = revoked[t] \/ revoked'[t] = "done"
      BY <1>5, DropLocalEffect, DropPeerEffect, LookEffect, DropPendingEffect DEF history
    <2>3. CASE job[p].at = "joiner"
      <3>1. revoked'["joiner"] # "no"
        BY <2>1, <2>2, <2>3 DEF Revoker
      <3> QED  BY <1>1, <1>2, <3>1, JoinerQuiet
    <2>4. CASE job[p].at # "joiner"
      <3>1. revoked'["joiner"] = revoked["joiner"]
        BY <1>5, <2>1, <2>4, DropLocalEffect, DropPeerEffect, LookEffect, DropPendingEffect
        DEF history, Stores
      <3>2. \A k \in Kinds : file'["joiner"][k] = file["joiner"][k]
        BY <1>5, <2>4, DropLocalEffect, DropPeerEffect, LookEffect, DropPendingEffect
        DEF Only, Stores
      <3> QED  BY <1>1, <1>2, <3>1, <3>2, JoinerQuiet
    <2> QED  BY <2>3, <2>4
  <1> QED  BY <1>3, <1>4, <1>5

LEMMA RevokeQuiet ==
    ASSUME RevokeOK, NEW p \in Procs, Solo(p),
           job'[p].op \notin {"confirm", "revoke"},
           revoked'["inviter"] = "done" => revoked["inviter"] = "done",
           \/ revoked["inviter"] # "done"
           \/ \A k \in Kinds : file'["inviter"][k] = file["inviter"][k]
    PROVE  RevokeOK'
  BY DEF RevokeOK, Solo, Idle, Readable, Kinds, Calls

LEMMA RevokeBegins ==
    ASSUME IInv, Known, RevokeOK, NEW p \in Procs, Solo(p),
           \/ Invite(p) \/ Join(p) \/ Confirm(p) \/ \E s \in Stores : Revoke(p, s)
    PROVE  RevokeOK'
  <1>1. CASE \E s \in Stores : Revoke(p, s)
    <2>1. PICK s \in Stores : Revoke(p, s)
      BY <1>1
    <2>2. /\ job'[p].op = "revoke" /\ job'[p].at = s /\ UNCHANGED file
          /\ job'[p].step # "drop_pending"
          /\ job'[p].step = "look" => ~Readable(s, "peer")
      BY <2>1, RevokeEffect DEF Begun
    <2>3. revoked'["inviter"] = "done" => revoked["inviter"] = "done"
      BY <2>1, RevokeEffect DEF Stores
    <2> QED  BY <2>2, <2>3 DEF RevokeOK, Solo, Idle, Readable, Calls
  <1>2. CASE Invite(p) \/ Join(p) \/ Confirm(p)
    <2>1. UNCHANGED <<file, revoked>>
      BY <1>2, BeginsEffect
    <2>2. CASE job'[p].op = "confirm"
      <3>1. Readable("inviter", "pending")
        BY <1>2, <2>2, BeginsEffect DEF Begun
      <3> QED  BY <2>1, <2>2, <3>1 DEF RevokeOK, Solo, Idle
    <2>3. CASE job'[p].op # "confirm"
      <3>1. job'[p].op # "revoke"
        BY <1>2, BeginsEffect DEF Begun
      <3> QED  BY <2>1, <2>3, <3>1, RevokeQuiet
    <2> QED  BY <2>2, <2>3
  <1> QED  BY <1>1, <1>2

LEMMA RevokeWrites ==
    ASSUME IInv, Known, RevokeOK, NEW p \in Procs, Solo(p),
           Open(p) \/ Write(p) \/ WriteFails(p)
    PROVE  RevokeOK'
  <1>1. /\ job[p].step \in Kinds /\ Only(job[p].at, job[p].step)
        /\ UNCHANGED history
        /\ job'[p] = Idle \/ job'[p].op = job[p].op
    BY OpenEffect, WriteEffect, WriteFailsEffect DEF Onward
  <1>2. UNCHANGED revoked
    BY <1>1 DEF history
  <1>3. CASE Inviter(p)
    <2>1. revoked["inviter"] # "done"
      BY <1>3 DEF Inviter, Known
    <2> QED  BY <1>1, <1>2, <1>3, <2>1, RevokeQuiet DEF Inviter, Idle
  <1>4. CASE Joiner(p)
    <2>1. \A k \in Kinds : file'["inviter"][k] = file["inviter"][k]
      BY <1>1, <1>4 DEF Joiner, Only, Stores
    <2> QED  BY <1>1, <1>2, <1>4, <2>1, RevokeQuiet DEF Joiner, Idle
  <1>5. CASE Confirmer(p)
    <2>1. revoked["inviter"] # "done"
      BY <1>5 DEF RevokeOK, Confirmer, Calls
    <2> QED  BY <1>1, <1>2, <1>5, <2>1 DEF RevokeOK, Solo, Idle, Confirmer
  <1> QED  BY <1>1, <1>3, <1>4, <1>5, WriterKind

LEMMA RevokeCalls ==
    ASSUME IInv, Known, RevokeOK, NEW p \in Procs, Solo(p),
           Commit(p) \/ Undo(p) \/ Answer(p) \/ Crash(p)
    PROVE  RevokeOK'
  <1>1. revoked' = revoked
    BY CommitEffect, UndoEffect, AnswerEffect, CrashEffect DEF history
  <1>2. CASE Confirmer(p)
    <2>1. revoked["inviter"] # "done"
      BY <1>2 DEF RevokeOK, Confirmer, Calls
    <2>2. job'[p] = Idle \/ job'[p].op = "confirm"
      BY <1>2, CommitEffect, UndoEffect, AnswerEffect, CrashEffect
      DEF Onward, Confirmer, Inviter, Joiner
    <2> QED  BY <1>1, <2>1, <2>2 DEF RevokeOK, Solo, Idle
  <1>3. CASE ~Confirmer(p)
    <2>1. job'[p].op \notin {"confirm", "revoke"}
      BY <1>3, CommitEffect, UndoEffect, AnswerEffect, CrashEffect DEF Onward, Inviter, Idle
    <2>2. \/ revoked["inviter"] # "done"
          \/ \A k \in Kinds : file'["inviter"][k] = file["inviter"][k]
      <3>1. CASE Inviter(p)
        BY <3>1 DEF Inviter, Known
      <3>2. CASE ~Inviter(p)
        BY <1>3, <3>2, CommitEffect, UndoEffect, AnswerEffect, CrashEffect
        DEF Only, Stores, Joiner
      <3> QED  BY <3>1, <3>2
    <2> QED  BY <1>1, <2>1, <2>2, RevokeQuiet
  <1> QED  BY <1>2, <1>3

LEMMA RevokeDrops ==
    ASSUME IInv, Known, RevokeOK, Smooth', NEW p \in Procs, Solo(p),
           DropLocal(p) \/ DropPeer(p) \/ Look(p) \/ DropPending(p)
    PROVE  RevokeOK'
  <1>1. Revoker(p)
    BY DropLocalEffect, DropPeerEffect, LookEffect, DropPendingEffect
  <1>2. CASE job[p].at = "joiner"
    <2>1. \A k \in Kinds : file'["inviter"][k] = file["inviter"][k]
      BY <1>2, DropLocalEffect, DropPeerEffect, LookEffect, DropPendingEffect DEF Only, Stores
    <2>2. revoked'["inviter"] = revoked["inviter"]
      BY <1>2, DropLocalEffect, DropPeerEffect, LookEffect, DropPendingEffect
      DEF history, Stores
    <2>3. job'[p] = Idle \/ (job'[p].op = "revoke" /\ job'[p].at = "joiner")
      BY <1>1, <1>2, DropLocalEffect, DropPeerEffect, LookEffect, DropPendingEffect
      DEF Onward, Revoker
    <2> QED  BY <2>1, <2>2, <2>3 DEF RevokeOK, Solo, Idle, Readable, Kinds, Calls
  <1>3. CASE job[p].at = "inviter"
    <2>1. /\ file'["inviter"]["pending"] \in {file["inviter"]["pending"], Absent}
          /\ file'["inviter"]["peer"] \in {file["inviter"]["peer"], Absent}
      BY <1>3, DropLocalEffect, DropPeerEffect, LookEffect, DropPendingEffect
      DEF Only, Stores, Kinds
    <2>2. job'[p].op # "confirm"
      BY <1>1, DropLocalEffect, DropPeerEffect, LookEffect, DropPendingEffect
      DEF Onward, Revoker, Idle
    <2>3. job'[p].op = "revoke" /\ job'[p].step \in {"look", "drop_pending"} =>
              file'["inviter"]["peer"].have # "whole"
      <3>1. CASE DropLocal(p)
        BY <3>1, DropLocalEffect DEF Onward
      <3>2. CASE DropPeer(p)
        BY <1>3, <3>2, DropPeerEffect
      <3>3. CASE Look(p)
        BY <1>3, <3>3, LookEffect DEF RevokeOK, Revoker, Readable
      <3>4. CASE DropPending(p)
        BY <3>4, DropPendingEffect DEF Idle
      <3> QED  BY <3>1, <3>2, <3>3, <3>4
    <2>4. revoked'["inviter"] = "done" /\ revoked["inviter"] # "done" =>
              /\ file'["inviter"]["pending"].have # "whole"
              /\ file'["inviter"]["peer"].have # "whole"
      <3>1. CASE DropLocal(p) \/ DropPeer(p)
        BY <3>1, DropLocalEffect, DropPeerEffect DEF history
      <3>2. CASE Look(p)
        BY <1>3, <3>2, LookEffect DEF RevokeOK, Revoker, Readable
      <3>3. CASE DropPending(p)
        <4>1. /\ file'["inviter"]["pending"].have = "none" 
              /\ file'["inviter"]["peer"] = file["inviter"]["peer"]
          BY <1>3, <3>3, DropPendingEffect DEF Only, Stores, Kinds
        <4>2. file["inviter"]["peer"].have # "whole"
          BY <1>3, <3>3, DropPendingEffect DEF RevokeOK, Revoker, Readable
        <4> QED  BY <4>1, <4>2
      <3> QED  BY <3>1, <3>2, <3>3
    <2> QED  BY <2>1, <2>2, <2>3, <2>4 DEF RevokeOK, Solo, Idle, Readable, Calls, Absent
  <1> QED  BY <1>1, <1>2, <1>3 DEF Revoker, Stores

-----------------------------------------------------------------------------
(* What holds of calls that interleave, as long as none fails or dies. *)

\* The step of a call that is not a confirm leaves the confirms alone.
LEMMA RacesOther ==
    ASSUME Races, NEW p \in Procs, Others(p), job[p].op # "confirm", job'[p].op # "confirm",
           file'["inviter"]["pending"] = file["inviter"]["pending"],
           file'["inviter"]["peer"] = file["inviter"]["peer"],
           \/ revoked'["inviter"] = "done" => revoked["inviter"] = "done"
           \/ ~Here("pending") /\ (Here("peer") => Confirming),
           Taking(p)'
    PROVE  Races'
  <1>1. /\ Here("pending")' = Here("pending") /\ Here("peer")' = Here("peer")
        /\ Readable("inviter", "peer")' = Readable("inviter", "peer")
    BY DEF Here, Readable
  <1>2. \A q \in Procs : /\ Past(q)' <=> Past(q)
                         /\ job'[q].op = "confirm" <=> job[q].op = "confirm"
    BY DEF Past, Others
  <1>3. /\ Confirming' <=> Confirming
        /\ (\E q \in Procs : Past(q))' <=> \E q \in Procs : Past(q)
    BY <1>2 DEF Confirming
  <1>4. ASSUME NEW r \in Procs PROVE Taking(r)'
    <2>1. CASE r # p
      <3>1. job'[r] = job[r] /\ Taking(r)
        BY <2>1 DEF Others, Races
      <3> QED  BY <1>1, <1>2, <1>3, <3>1 DEF Taking
    <2> QED  BY <2>1
  <1>5. \A q \in Procs : job'[q].op = "confirm" /\ job'[q].step \in {"undo_local", "undo_peer"} =>
            ~Here("pending")'
    BY <1>1 DEF Races, Others
  <1>6. /\ Here("pending")' /\ Here("peer")' => Confirming'
        /\ Here("pending")' /\ Readable("inviter", "peer")' => (\E q \in Procs : Past(q))'
        /\ revoked'["inviter"] = "done" => ~Here("pending")' /\ (Here("peer")' => Confirming')
    BY <1>1, <1>3 DEF Races
  <1> QED  BY <1>4, <1>5, <1>6 DEF Races

\* Before the code is out nobody confirms nor revokes.
LEMMA RacesEarly ==
    ASSUME IInv', Known', ~code'
    PROVE  Races'
  <1>1. \A p \in Procs : job'[p].op # "confirm" /\ job'[p].op # "revoke"
    BY DEF IInv, OneInvite, Calls, Known
  <1>2. ~Here("peer")' /\ ~Readable("inviter", "peer")' /\ revoked'["inviter"] = "no"
    BY DEF Known, Here, Readable
  <1> QED  BY <1>1, <1>2 DEF Races, Taking

LEMMA RacesBegins ==
    ASSUME IInv, Known, Races, NEW p \in Procs, Invite(p) \/ Join(p) \/ Confirm(p)
    PROVE  Races'
  <1>1. /\ job[p] = Idle /\ Others(p) /\ UNCHANGED <<file, revoked>>
        /\ job'[p].op # "revoke" /\ job'[p].step \in {"pending", "peer"}
    BY BeginsEffect DEF Begun
  <1>2. CASE job'[p].op # "confirm"
    BY <1>1, <1>2, RacesOther DEF Idle, Taking
  <1>3. CASE job'[p].op = "confirm"
    <2>1. job[p].op = "none"
      BY <1>1 DEF Idle
    <2>2. /\ \A q \in Procs : Past(q) => Past(q)'
          /\ \A q \in Procs : job[q].op = "confirm" => job'[q].op = "confirm"
      BY <1>1, <2>1 DEF Past, Others
    <2>3. /\ Here("pending")' = Here("pending") /\ Here("peer")' = Here("peer")
          /\ Readable("inviter", "peer")' = Readable("inviter", "peer")
      BY <1>1 DEF Here, Readable
    <2>4. ASSUME NEW r \in Procs PROVE Taking(r)'
      <3>1. CASE r # p
        <4>1. job'[r] = job[r] /\ Taking(r)
          BY <1>1, <3>1 DEF Others, Races
        <4> QED  BY <2>2, <2>3, <4>1 DEF Taking, Confirming
      <3>2. CASE r = p
        BY <1>3, <3>2 DEF Taking
      <3> QED  BY <3>1, <3>2
    <2>5. \A q \in Procs : job'[q].op = "confirm" /\ job'[q].step \in {"undo_local", "undo_peer"} =>
              ~Here("pending")'
      BY <1>1, <2>3 DEF Races, Others
    <2>6. Confirming'
      BY <1>3 DEF Confirming
    <2> QED  BY <1>1, <2>2, <2>3, <2>4, <2>5, <2>6 DEF Races
  <1> QED  BY <1>2, <1>3

LEMMA RacesRevoke ==
    ASSUME IInv, Known, Races, NEW p \in Procs, NEW s \in Stores, Revoke(p, s)
    PROVE  Races'
  <1>1. /\ job[p] = Idle /\ Others(p) /\ UNCHANGED file
        /\ job'[p].op = "revoke" /\ job'[p].at = s /\ job'[p].removed = FALSE
        /\ job'[p].step = IF Readable(s, "peer") THEN "drop_local" ELSE "look"
    BY RevokeEffect DEF Begun
  <1>2. revoked'["inviter"] = "done" => revoked["inviter"] = "done"
    BY RevokeEffect DEF Stores
  <1>3. Taking(p)'
    <2>1. CASE s = "inviter" /\ Readable("inviter", "peer")
      <3>1. Here("pending")' = Here("pending")
        BY <1>1 DEF Here
      <3>2. Here("pending") => \E q \in Procs : Past(q)
        BY <2>1 DEF Races
      <3>3. \A q \in Procs : Past(q) => Past(q)'
        BY <1>1 DEF Past, Others, Idle
      <3> QED  BY <1>1, <2>1, <3>1, <3>2, <3>3 DEF Taking
    <2>2. CASE ~(s = "inviter" /\ Readable("inviter", "peer"))
      BY <1>1, <2>2 DEF Taking
    <2> QED  BY <2>1, <2>2
  <1>4. job[p].op # "confirm" /\ job'[p].op # "confirm"
    BY <1>1 DEF Idle
  <1> QED  BY <1>1, <1>2, <1>3, <1>4, RacesOther

\* A confirm opens or completes one of the inviter's records.
LEMMA RacesConfirmWrites ==
    ASSUME IInv, Races, NEW p \in Procs, Confirmer(p), Open(p) \/ Write(p)
    PROVE  Races'
  <1>1. /\ job[p].step \in {"peer", "local"} /\ Only("inviter", job[p].step) /\ Others(p)
        /\ UNCHANGED history
        /\ \/ /\ job'[p].op = "confirm" /\ job'[p].step = job[p].step
              /\ file'["inviter"][job[p].step] = Torn
           \/ /\ job'[p].op = "confirm"
              /\ job'[p].step = IF job[p].step = "peer" THEN "local" ELSE "commit"
    <2>1. job[p].step \in {"peer", "local"}
      BY OpenEffect, WriteEffect, WriterKind DEF Inviter, Confirmer
    <2> QED  BY <2>1, OpenEffect, WriteEffect, NextStep DEF Onward, Confirmer
  <1>2. /\ \A q \in Procs : Past(q) => Past(q)'
        /\ \A q \in Procs : job[q].op = "confirm" => job'[q].op = "confirm"
    BY <1>1 DEF Past, Others, Confirmer
  <1>3. Here("pending")' = Here("pending") /\ revoked' = revoked
    BY <1>1 DEF Here, Only, Stores, Kinds, history
  <1>4. Readable("inviter", "peer")' => Readable("inviter", "peer") \/ Past(p)'
    BY <1>1 DEF Readable, Past, Only, Stores, Kinds, Torn
  <1>5. (Here("peer")' <=> Here("peer")) \/ ~Past(p)
    BY <1>1 DEF Here, Past, Only, Stores, Kinds
  <1>6. ASSUME NEW r \in Procs PROVE Taking(r)'
    <2>1. CASE r = p
      BY <1>1, <2>1 DEF Taking
    <2>2. CASE r # p
      <3>1. job'[r] = job[r] /\ Taking(r)
        BY <1>1, <2>2 DEF Others, Races
      <3>2. Confirming'
        BY <1>1 DEF Confirming
      <3>3. ASSUME NEW c \in Procs, Past(c),
                   Here("peer") => \E q \in Procs : q # c /\ job[q].op = "confirm"
            PROVE  Past(c)' /\ (Here("peer")' => \E q \in Procs : q # c /\ job'[q].op = "confirm")
        <4>1. CASE c = p
          BY <1>2, <1>5, <3>3, <4>1
        <4>2. CASE c # p
          BY <1>1, <1>2, <3>3, <4>2
        <4> QED  BY <4>1, <4>2
      <3> QED  BY <1>2, <1>3, <3>1, <3>2, <3>3 DEF Taking
    <2> QED  BY <2>1, <2>2
  <1>7. \A q \in Procs : job'[q].op = "confirm" /\ job'[q].step \in {"undo_local", "undo_peer"} =>
            ~Here("pending")'
    BY <1>1, <1>3 DEF Races, Others
  <1>8. Confirming'
    BY <1>1 DEF Confirming
  <1> QED  BY <1>2, <1>3, <1>4, <1>6, <1>7, <1>8 DEF Races

LEMMA RacesWrites ==
    ASSUME IInv, IInv', Known, Known', Races, NEW p \in Procs, Open(p) \/ Write(p)
    PROVE  Races'
  <1>1. CASE Inviter(p)
    <2>1. ~code'
      BY <1>1, OpenEffect, WriteEffect DEF history, Inviter
    <2> QED  BY <2>1, RacesEarly
  <1>2. CASE Joiner(p)
    <2>1. /\ file'["inviter"]["pending"] = file["inviter"]["pending"]
          /\ file'["inviter"]["peer"] = file["inviter"]["peer"]
      BY <1>2, OpenEffect, WriteEffect DEF Joiner, Only, Stores, Kinds
    <2>2. Others(p) /\ revoked' = revoked /\ job'[p].op = "join"
      BY <1>2, OpenEffect, WriteEffect DEF Joiner, Onward, history
    <2> QED  BY <1>2, <2>1, <2>2, RacesOther DEF Joiner, Taking
  <1>3. CASE Confirmer(p)
    BY <1>3, RacesConfirmWrites
  <1> QED  BY <1>1, <1>2, <1>3, OpenEffect, WriteEffect, WriterKind

LEMMA RacesCommits ==
    ASSUME IInv, Races, Smooth', NEW p \in Procs, Commit(p)
    PROVE  Races'
  <1>1. /\ Past(p) /\ Others(p) /\ revoked' = revoked /\ ~Here("pending")'
        /\ Here("peer")' = Here("peer")
        /\ \/ Here("pending")
           \/ ~Here("pending") /\ job'[p].op = "confirm" /\ job'[p].at = "inviter"
    BY CommitEffect DEF Past, Confirmer, Here, Only, Stores, Kinds, Absent, Onward
  <1>2. Here("peer") /\ revoked["inviter"] = "done" => Confirming'
    BY <1>1 DEF Races, Confirming
  <1>3. ASSUME NEW r \in Procs PROVE Taking(r)'
    <2>1. CASE r = p
      <3>1. job'[p].op # "revoke"
        BY CommitEffect DEF Onward, Confirmer, Idle
      <3> QED  BY <2>1, <3>1 DEF Taking
    <2>2. CASE r # p
      <3>1. job'[r] = job[r] /\ Taking(r)
        BY <1>1, <2>2 DEF Others, Races
      <3>2. CASE Here("pending")
        <4>1. ASSUME NEW c \in Procs, \E q \in Procs : q # c /\ job[q].op = "confirm", Past(c)
              PROVE  Confirming'
          <5>1. PICK q \in Procs : q # c /\ job[q].op = "confirm"
            BY <4>1
          <5> QED  BY <1>1, <4>1, <5>1 DEF Confirming, Others, Past
        <4> QED  BY <1>1, <3>1, <3>2, <4>1 DEF Taking
      <3>3. CASE ~Here("pending")
        BY <1>1, <3>1, <3>3 DEF Taking, Confirming
      <3> QED  BY <3>2, <3>3
    <2> QED  BY <2>1, <2>2
  <1> QED  BY <1>1, <1>2, <1>3 DEF Races

LEMMA RacesAnswers ==
    ASSUME IInv, IInv', Known, Known', Races, NEW p \in Procs, Answer(p)
    PROVE  Races'
  <1>1. Others(p) /\ UNCHANGED <<file, revoked>>
    BY AnswerEffect
  <1>2. CASE job'[p] = Idle
    BY <1>1, <1>2, AnswerEffect, RacesOther DEF Inviter, Joiner, Idle, Taking
  <1>3. CASE job'[p] # Idle
    <2>1. ~code'
      BY <1>3, AnswerEffect DEF Inviter
    <2> QED  BY <2>1, RacesEarly
  <1> QED  BY <1>2, <1>3

LEMMA RacesUndoes ==
    ASSUME IInv, IInv', Known, Known', Races, Smooth', NEW p \in Procs, Undo(p)
    PROVE  Races'
  <1>1. Others(p) /\ UNCHANGED <<code, revoked>>
    BY UndoEffect DEF history
  <1>2. CASE Inviter(p)
    <2>1. ~code'
      BY <1>1, <1>2 DEF Inviter
    <2> QED  BY <2>1, RacesEarly
  <1>3. CASE Joiner(p)
    <2>1. /\ job'[p] = Idle /\ file'["inviter"]["pending"] = file["inviter"]["pending"]
          /\ file'["inviter"]["peer"] = file["inviter"]["peer"]
      BY <1>3, UndoEffect DEF Inviter, Joiner, Confirmer, Only, Stores, Kinds
    <2> QED  BY <1>1, <1>3, <2>1, RacesOther DEF Joiner, Idle, Taking
  <1>4. CASE Confirmer(p)
    <2>1. /\ job[p].step \in {"undo_local", "undo_peer"}
          /\ file'["inviter"]["pending"] = file["inviter"]["pending"]
          /\ \/ /\ job'[p].op = "confirm" /\ job'[p].step = "undo_peer"
                /\ file'["inviter"]["peer"] = file["inviter"]["peer"]
             \/ job'[p] = Idle /\ file'["inviter"]["peer"].have = "none"
      BY <1>4, UndoEffect DEF Inviter, Joiner, Confirmer, Only, Stores, Kinds, Onward
    <2>2. ~Here("pending") /\ ~Here("pending")'
      BY <1>4, <2>1 DEF Races, Confirmer, Here
    <2>3. Here("peer")' => Here("peer") /\ Confirming'
      BY <2>1 DEF Here, Confirming
    <2>4. ASSUME NEW r \in Procs PROVE Taking(r)'
      <3>1. CASE r = p
        BY <2>1, <3>1 DEF Taking, Idle
      <3>2. CASE r # p
        BY <1>1, <2>2, <2>3, <3>2 DEF Taking, Others
      <3> QED  BY <3>1, <3>2
    <2> QED  BY <2>2, <2>3, <2>4 DEF Races
  <1> QED  BY <1>2, <1>3, <1>4, UndoEffect

LEMMA RacesDropLocal ==
    ASSUME IInv, Races, NEW p \in Procs, DropLocal(p)
    PROVE  Races'
  <1>1. /\ job[p].op = "revoke" /\ job'[p].op = "revoke" /\ Others(p) /\ revoked' = revoked
        /\ job[p].step = "drop_local" /\ job'[p].step = "drop_peer" /\ job'[p].at = job[p].at
        /\ file'["inviter"]["pending"] = file["inviter"]["pending"]
        /\ file'["inviter"]["peer"] = file["inviter"]["peer"]
    BY DropLocalEffect DEF Revoker, Onward, Only, Stores, Kinds, history
  <1>2. Taking(p)'
    <2>1. \A q \in Procs : Past(q) => Past(q)'
      BY <1>1 DEF Past, Others
    <2>2. Taking(p) /\ Here("pending")' = Here("pending")
      BY <1>1 DEF Races, Here
    <2> QED  BY <1>1, <2>1, <2>2 DEF Taking
  <1> QED  BY <1>1, <1>2, RacesOther

\* A revoke that removes the peer meets, if the invitation is still there, a
\* confirm that has written that peer and has its commit still to do.
LEMMA RacesDropPeer ==
    ASSUME IInv, Races, Smooth', NEW p \in Procs, DropPeer(p)
    PROVE  Races'
  <1>1. /\ job[p].op = "revoke" /\ job'[p].op = "revoke" /\ Others(p) /\ revoked' = revoked
        /\ job[p].step = "drop_peer" /\ job'[p].step = "look" /\ job'[p].at = job[p].at
        /\ file'["inviter"]["pending"] = file["inviter"]["pending"]
    BY DropPeerEffect DEF Revoker, Onward, Only, Stores, Kinds, history
  <1>2. \A q \in Procs : /\ Past(q)' <=> Past(q)
                         /\ job'[q].op = "confirm" <=> job[q].op = "confirm"
    BY <1>1 DEF Past, Others
  <1>3. Here("pending")' = Here("pending")
    BY <1>1 DEF Here
  <1>4. CASE job[p].at = "joiner"
    <2>1. file'["inviter"]["peer"] = file["inviter"]["peer"]
      BY <1>4, DropPeerEffect DEF Only, Stores, Kinds
    <2>2. Taking(p)'
      BY <1>1, <1>4 DEF Taking
    <2> QED  BY <1>1, <2>1, <2>2, RacesOther
  <1>5. CASE job[p].at = "inviter"
    <2>1. ~Here("peer")' /\ ~Readable("inviter", "peer")'
      BY <1>5, DropPeerEffect DEF Here, Readable
    <2>2. ASSUME NEW r \in Procs PROVE Taking(r)'
      <3>1. CASE r = p
        <4>1. Here("pending") => \E q \in Procs : Past(q)
          BY <1>1, <1>5 DEF Races, Taking
        <4> QED  BY <1>1, <1>2, <1>3, <2>1, <3>1, <4>1 DEF Taking
      <3>2. CASE r # p
        <4>1. job'[r] = job[r] /\ Taking(r)
          BY <1>1, <3>2 DEF Others, Races
        <4> QED  BY <1>2, <1>3, <2>1, <4>1 DEF Taking
      <3> QED  BY <3>1, <3>2
    <2>3. \A q \in Procs : job'[q].op = "confirm" /\ job'[q].step \in {"undo_local", "undo_peer"} =>
              ~Here("pending")'
      BY <1>1, <1>3 DEF Races, Others
    <2> QED  BY <1>1, <1>3, <2>1, <2>2, <2>3 DEF Races
  <1> QED  BY <1>4, <1>5, DropPeerEffect DEF Revoker, Stores

LEMMA RacesLook ==
    ASSUME IInv, Known, Races, NEW p \in Procs, Look(p)
    PROVE  Races'
  <1>1. /\ job[p].op = "revoke" /\ job[p].step = "look" /\ Others(p) /\ UNCHANGED file
        /\ job[p].at \in Stores
    BY LookEffect DEF Revoker
  <1>2. CASE /\ Onward(p, "drop_pending") /\ job'[p].removed = job[p].removed
             /\ UNCHANGED revoked
    <2>1. /\ job'[p].op = "revoke" /\ job'[p].step = "drop_pending" /\ job'[p].at = job[p].at
      BY <1>1, <1>2 DEF Onward
    <2>2. \A q \in Procs : /\ Past(q)' <=> Past(q)
                           /\ job'[q].op = "confirm" <=> job[q].op = "confirm"
      BY <1>1, <2>1 DEF Past, Others
    <2>3. /\ Here("pending")' = Here("pending") /\ Here("peer")' = Here("peer")
      BY <1>1 DEF Here
    <2>4. Taking(p)'
      BY <1>1, <1>2, <2>1, <2>2, <2>3 DEF Taking, Confirming, Races
    <2> QED  BY <1>1, <1>2, <2>1, <2>4, RacesOther
  <1>3. CASE /\ ~Readable(job[p].at, "pending") /\ job'[p] = Idle
             /\ revoked'[job[p].at] = IF job[p].removed THEN "done" ELSE revoked[job[p].at]
             /\ \A t \in Stores : t # job[p].at => revoked'[t] = revoked[t]
    <2>1. \/ revoked'["inviter"] = "done" => revoked["inviter"] = "done"
          \/ job[p].at = "inviter" /\ job[p].removed
      BY <1>1, <1>3 DEF Stores
    <2>2. job[p].at = "inviter" /\ job[p].removed =>
              ~Here("pending") /\ (Here("peer") => Confirming)
      <3>1. SUFFICES ASSUME job[p].at = "inviter", job[p].removed
                     PROVE  ~Here("pending") /\ (Here("peer") => Confirming)
        OBVIOUS
      <3>2. file["inviter"]["pending"].have \in {"none", "torn", "whole"}
        BY DEF IInv, Wellformed, Stores, Kinds, File
      <3>3. code
        BY <1>1 DEF Known
      <3>4. ~Here("pending")
        BY <1>3, <3>1, <3>2, <3>3 DEF Here, Readable, Known
      <3> QED  BY <1>1, <3>1, <3>4 DEF Races, Taking
    <2>3. Taking(p)'
      BY <1>3 DEF Taking, Idle
    <2> QED  BY <1>1, <1>3, <2>1, <2>2, <2>3, RacesOther DEF Idle
  <1> QED  BY <1>2, <1>3, LookEffect

LEMMA RacesDropPending ==
    ASSUME IInv, Races, Smooth', NEW p \in Procs, DropPending(p)
    PROVE  Races'
  <1>1. /\ job[p].op = "revoke" /\ job'[p] = Idle /\ Others(p)
        /\ job[p].step = "drop_pending" /\ job[p].at \in Stores
        /\ file'["inviter"]["peer"] = file["inviter"]["peer"]
    BY DropPendingEffect DEF Revoker, Only, Stores, Kinds
  <1>2. CASE job[p].at = "joiner"
    <2>1. /\ file'["inviter"]["pending"] = file["inviter"]["pending"]
          /\ revoked'["inviter"] = revoked["inviter"]
      BY <1>2, DropPendingEffect DEF Only, Stores, Kinds
    <2> QED  BY <1>1, <2>1, RacesOther DEF Taking, Idle
  <1>3. CASE job[p].at = "inviter"
    <2>1. ~Here("pending")' /\ Here("peer")' = Here("peer")
      BY <1>1, <1>3, DropPendingEffect DEF Here
    <2>2. \A q \in Procs : job[q].op = "confirm" => job'[q].op = "confirm"
      BY <1>1 DEF Others
    <2>3. Here("pending") /\ Here("peer") => Confirming'
      BY <2>2 DEF Races, Confirming
    <2>4. revoked'["inviter"] = "done" /\ Here("peer") => Confirming'
      <3>1. CASE revoked["inviter"] = "done"
        BY <2>2, <3>1 DEF Races, Confirming
      <3>2. CASE job[p].removed /\ ~Here("pending")
        BY <1>1, <1>3, <2>2, <3>2 DEF Races, Taking, Confirming
      <3>3. CASE Here("pending")
        BY <2>3, <3>3
      <3> QED  BY <1>3, <3>1, <3>2, <3>3, DropPendingEffect DEF Here
    <2>5. ASSUME NEW r \in Procs PROVE Taking(r)'
      <3>1. CASE r = p
        BY <1>1, <3>1 DEF Taking, Idle
      <3>2. CASE r # p
        <4>1. job'[r] = job[r] /\ Taking(r)
          BY <1>1, <3>2 DEF Others, Races
        <4> QED  BY <2>1, <2>2, <2>3, <4>1 DEF Taking, Confirming
      <3> QED  BY <3>1, <3>2
    <2> QED  BY <2>1, <2>4, <2>5 DEF Races
  <1> QED  BY <1>1, <1>2, <1>3 DEF Stores

-----------------------------------------------------------------------------
(* The invariant is inductive. *)

\* Unless calls have raced, the process that takes a step is alone, and no two
\* calls had been under way before either.
LEMMA StepsAlone ==
    ASSUME IInv, NEW p \in Procs, Step(p), raced' = (raced \/ Race'), Alone, ~raced'
    PROVE  Solo(p) /\ ~raced
  <1>1. Others(p) /\ (job[p] # Idle \/ job'[p] # Idle)
    <2>1. CASE Invite(p) \/ Join(p) \/ Confirm(p)
      <3>1. Others(p) /\ job'[p].op # "none"
        BY <2>1, BeginsEffect DEF Begun
      <3> QED  BY <3>1 DEF Idle
    <2>2. CASE \E s \in Stores : Revoke(p, s)
      <3>1. Others(p) /\ job'[p].op # "none"
        BY <2>2, RevokeEffect DEF Begun
      <3> QED  BY <3>1 DEF Idle
    <2>3. CASE Open(p) \/ Write(p) \/ WriteFails(p)
      BY <2>3, OpenEffect, WriteEffect, WriteFailsEffect, WriterKind
    <2>4. CASE Commit(p) \/ Answer(p) \/ Undo(p) \/ Crash(p)
      BY <2>4, CommitEffect, AnswerEffect, UndoEffect, CrashEffect
      DEF Inviter, Joiner, Confirmer, Idle
    <2>5. CASE DropLocal(p) \/ DropPeer(p) \/ Look(p) \/ DropPending(p)
      BY <2>5, DropLocalEffect, DropPeerEffect, LookEffect, DropPendingEffect
      DEF Revoker, Idle
    <2> QED  BY <2>1, <2>2, <2>3, <2>4, <2>5 DEF Step
  <1>2. ~raced /\ \A p1, p2 \in Procs : job'[p1] # Idle /\ job'[p2] # Idle => p1 = p2
    BY DEF Race
  <1>3. ASSUME NEW q \in Procs, q # p PROVE job[q] = Idle /\ job'[q] = Idle
    <2>1. job'[q] = job[q]
      BY <1>1, <1>3 DEF Others
    <2>2. CASE job[p] # Idle
      BY <1>2, <1>3, <2>1, <2>2 DEF Alone
    <2>3. CASE job'[p] # Idle
      BY <1>2, <1>3, <2>1, <2>3
    <2> QED  BY <1>1, <2>2, <2>3
  <1> QED  BY <1>2, <1>3 DEF Solo

\* Faults are spent, never regained.
LEMMA Spending ==
    ASSUME IInv, NEW p \in Procs, Step(p)
    PROVE  /\ Smooth' => Smooth
           /\ Unbroken' => Unbroken
           /\ Unbroken' => ~WriteFails(p) /\ ~Crash(p)
  <1> DEFINE Goal == /\ Smooth' => Smooth
                     /\ Unbroken' => Unbroken
  <1>1. WriteFails(p) \/ Crash(p) => ~Unbroken' /\ Goal
    BY WriteFailsEffect, CrashEffect
  <1>2. Invite(p) \/ Join(p) \/ Confirm(p) => Goal
    BY BeginsEffect DEF Smooth, Unbroken
  <1>3. (\E s \in Stores : Revoke(p, s)) => Goal
    BY RevokeEffect DEF Smooth, Unbroken
  <1>4. Open(p) \/ Write(p) \/ Look(p) => Goal
    BY OpenEffect, WriteEffect, LookEffect DEF Smooth, Unbroken
  <1>5. Answer(p) => Goal
    BY AnswerEffect DEF Smooth, Unbroken
  <1>6. Commit(p) \/ Undo(p) => Goal
    BY CommitEffect, UndoEffect
  <1>7. DropLocal(p) \/ DropPeer(p) \/ DropPending(p) => Goal
    BY DropLocalEffect, DropPeerEffect, DropPendingEffect
  <1> HIDE DEF Goal
  <1>8. Goal
    BY <1>1, <1>2, <1>3, <1>4, <1>5, <1>6, <1>7 DEF Step
  <1> QED  BY <1>1, <1>8 DEF Goal

LEMMA KnownSafe ==
    ASSUME IInv, IInv', Known, NEW p \in Procs, Step(p)
    PROVE  Known'
  BY KnownBegins, KnownRevoke, KnownWrites, KnownRemoves, KnownAnswer DEF Step

LEMMA SequentialSafe ==
    ASSUME IInv, Known, Alone, Sequential, NEW p \in Procs, Step(p),
           raced' = (raced \/ Race')
    PROVE  Sequential'
  <1> SUFFICES ASSUME ~raced'
               PROVE  InviterOK' /\ JoinerOK' /\ (Smooth' => RevokeOK')
    BY DEF Sequential
  <1>1. Solo(p) /\ InviterOK /\ JoinerOK /\ (Smooth => RevokeOK)
    BY StepsAlone DEF Sequential
  <1>2. InviterOK'
    BY <1>1, InviterBegins, InviterWrites, InviterCommits, InviterAnswers, InviterUndoes,
       InviterEnds DEF Step
  <1>3. JoinerOK'
    BY <1>1, JoinerBegins, JoinerWrites, JoinerAnswers, JoinerEnds DEF Step
  <1>4. Smooth' => RevokeOK'
    BY <1>1, Spending, RevokeBegins, RevokeWrites, RevokeCalls, RevokeDrops DEF Step
  <1> QED  BY <1>2, <1>3, <1>4

LEMMA RacingSafe ==
    ASSUME IInv, IInv', Known, Known', Racing, NEW p \in Procs, Step(p)
    PROVE  Racing'
  <1> SUFFICES ASSUME Unbroken', Smooth'
               PROVE  Races'
    BY DEF Racing
  <1>1. Races /\ ~WriteFails(p) /\ ~Crash(p)
    BY Spending DEF Racing
  <1> QED
    BY <1>1, RacesBegins, RacesRevoke, RacesWrites, RacesCommits, RacesAnswers, RacesUndoes,
       RacesDropLocal, RacesDropPeer, RacesLook, RacesDropPending DEF Step

LEMMA TrustInitially == Init => TInv
  <1> SUFFICES ASSUME Init PROVE TInv
    OBVIOUS
  <1>1. /\ \A p \in Procs : job[p].op = "none" /\ job[p] = Idle
        /\ file["inviter"]["pending"].have = "none" /\ file["inviter"]["peer"].have = "none"
    BY DEF Init, Idle, Absent, Stores, Kinds
  <1>2. Known /\ Alone
    BY <1>1 DEF Init, Known, Alone, Readable, Stores
  <1>3. Sequential
    BY <1>1 DEF Init, Sequential, InviterOK, JoinerOK, RevokeOK, Stores
  <1>4. Racing
    BY <1>1 DEF Init, Racing, Races, Taking, Here, Stores
  <1> QED  BY <1>2, <1>3, <1>4 DEF TInv

LEMMA TrustStepwise == IInv /\ IInv' /\ TInv /\ [Next]_vars => TInv'
  <1> SUFFICES ASSUME IInv, IInv', TInv, [Next]_vars PROVE TInv'
    OBVIOUS
  <1>1. CASE UNCHANGED vars
    <2>1. Known' /\ Alone'
      BY <1>1 DEF vars, history, TInv, Known, Alone, Readable
    <2>2. Sequential'
      BY <1>1 DEF vars, history, TInv, Sequential, InviterOK, JoinerOK, RevokeOK, Readable,
         Established, CanSeal, CanUnseal, Calls, Smooth
    <2>3. Racing'
      BY <1>1 DEF vars, history, TInv, Racing, Races, Taking, Here, Past, Confirming, Readable,
         Unbroken, Smooth
    <2> QED  BY <2>1, <2>2, <2>3 DEF TInv
  <1>2. ASSUME NEW p \in Procs, Step(p), raced' = (raced \/ Race') PROVE TInv'
    <2>1. Known'
      BY <1>2, KnownSafe DEF TInv
    <2>2. Alone'
      BY <1>2 DEF Alone, Race
    <2>3. Sequential'
      BY <1>2, SequentialSafe DEF TInv
    <2>4. Racing'
      BY <1>2, <2>1, RacingSafe DEF TInv
    <2> QED  BY <2>1, <2>2, <2>3, <2>4 DEF TInv
  <1> QED  BY <1>1, <1>2 DEF Next

\* What the records of the two ends tell of each other and of the calls under
\* way holds however many processes share the stores.
THEOREM TrustInductive == Spec => []TInv
  BY TrustInitially, TrustStepwise, Inductive, PTL DEF Spec

\* An invitation that was handed out is never stranded, whatever call failed or
\* died at whichever of its steps, as long as calls do not overlap.
THEOREM NeverStranded == Spec => []NotStranded
  <1>1. TInv => NotStranded
    BY DEF TInv, Sequential, InviterOK, NotStranded
  <1> QED  BY <1>1, TrustInductive, PTL

\* A confirmed relationship works in both directions: the two peer records hold
\* the key of the same join.
THEOREM ConnectedBothWays == Spec => []Connected
  <1>1. IInv /\ TInv => Connected
    <2> SUFFICES ASSUME IInv, TInv, confirms > 0, ~raced, issued = {joins},
                        \A s \in Stores : revoked[s] = "no"
                 PROVE  Established("inviter") /\ Established("joiner") /\ Shared
      BY DEF Connected
    <2>1. code /\ ~Readable("inviter", "pending")
      BY DEF IInv, Spent, Readable
    <2>2. Established("inviter")
      BY <2>1 DEF TInv, Sequential, InviterOK, Stores
    <2>3. Established("joiner") /\ file["joiner"]["peer"].key = joins
      BY DEF TInv, Sequential, JoinerOK, Stores
    <2>4. file["inviter"]["peer"].key = joins
      BY <2>2 DEF TInv, Known, Established, CanSeal
    <2> QED  BY <2>2, <2>3, <2>4 DEF Shared
  <1> QED  BY <1>1, Inductive, TrustInductive, PTL

\* Once a revoke has succeeded and the calls at the inviter have ended, nothing
\* of the invitation or of the relationship is left there.
THEOREM RevokedStaysOff == Spec => []RevokedIsOff
  <1>1. IInv /\ TInv => RevokedIsOff
    <2> SUFFICES ASSUME IInv, TInv, revoked["inviter"] = "done", ~Busy("inviter"), Smooth,
                        raced => Unbroken
                 PROVE  Off
      BY DEF RevokedIsOff, Smooth
    <2>1. ~Readable("inviter", "pending") /\ ~Readable("inviter", "peer")
      <3>1. CASE ~raced
        BY <3>1 DEF TInv, Sequential, RevokeOK
      <3>2. CASE raced
        <4>1. Races
          BY <3>2 DEF TInv, Racing
        <4>2. ~Confirming
          BY DEF Busy, Confirming, IInv, Wellformed, Job, Jobs, Idle
        <4> QED  BY <4>1, <4>2 DEF Races, Here, Readable
      <3> QED  BY <3>1, <3>2
    <2> QED  BY <2>1 DEF Off, CanSeal, CanUnseal
  <1> QED  BY <1>1, Inductive, TrustInductive, PTL

=============================================================================
