-------------------------------- MODULE Pact --------------------------------
(***************************************************************************)
(* libpact: the life of one invitation in the persistent trust stores of   *)
(* its two endpoints.  The inviter keeps a pending record, then a peer and *)
(* a local record; the joiner keeps a peer and a local record.  Every      *)
(* operation is a sequence of file operations with no lock, so processes   *)
(* that share a store interleave between any two of them, and a process    *)
(* may die between any two of them.  A record is rewritten in place: open  *)
(* truncates it, and until the write is complete no reader accepts it.     *)
(*                                                                         *)
(* Every file is named by a random UID of the invitation, so that two      *)
(* invitations share no file and one is enough.  The cryptography is       *)
(* abstracted to keys: a join draws key k, its confirmation carries it, and *)
(* a peer record holds the key of the join that the two ends have to share *)
(* for one to open what the other seals.                                   *)
(***************************************************************************)
EXTENDS Integers, FiniteSets

CONSTANTS
    Procs,       \* processes that use the stores
    MaxJoins,    \* bound: calls of kc_pact_join
    MaxIssued,   \* bound: confirmations after which nobody joins any more
    MaxCrashes,  \* bound: processes that die within a call
    MaxNoSpace,  \* bound: opens, writes and allocations that fail
    MaxStuck     \* bound: files that cannot be removed

ASSUME BoundsAssumption ==
    /\ MaxJoins \in Nat /\ MaxIssued \in Nat
    /\ MaxCrashes \in Nat /\ MaxNoSpace \in Nat /\ MaxStuck \in Nat

Stores == {"inviter", "joiner"}
Kinds  == {"pending", "peer", "local"}

Absent   == [have |-> "none", key |-> 0]
Torn     == [have |-> "torn", key |-> 0]
Whole(k) == [have |-> "whole", key |-> k]
File     == [have : {"none", "torn", "whole"}, key : Nat]

\* The steps of each operation, and the store it works on.
InviteStep  == {"pending", "answer", "undo_pending"}
JoinStep    == {"peer", "local", "answer", "undo_peer"}
ConfirmStep == {"peer", "local", "commit", "undo_local", "undo_peer"}
RevokeStep  == {"drop_local", "drop_peer", "look", "drop_pending"}

\* A call under way: its operation, the store it is for, the next step, the
\* key it carries, whether the record it writes is open, and whether a revoke
\* has removed something.
Jobs(op, S, steps) == [op : {op}, at : S, step : steps, key : Nat,
                       open : BOOLEAN, removed : BOOLEAN]
Job  == Jobs("invite", {"inviter"}, InviteStep)
        \cup Jobs("join", {"joiner"}, JoinStep)
        \cup Jobs("confirm", {"inviter"}, ConfirmStep)
        \cup Jobs("revoke", Stores, RevokeStep)
Idle == [op |-> "none", at |-> "inviter", step |-> "idle", key |-> 0,
         open |-> FALSE, removed |-> FALSE]

Call(op, s, step, k) ==
    [op |-> op, at |-> s, step |-> step, key |-> k, open |-> FALSE, removed |-> FALSE]

VARIABLES
    file,      \* file[s][k]: the record of kind k in store s
    job,       \* job[p]: what process p is at
    asked,     \* history: kc_pact_invite was called
    code,      \* history: it has returned the code
    joins,     \* history: the last key drawn by a join
    issued,    \* history: keys whose confirmation was returned
    confirms,  \* history: confirms that returned KC_PACT_OK
    revoked,   \* history: "no", "begun" or "done" (KC_PACT_OK), per store
    raced,     \* history: two calls have been under way at once
    budget     \* bounds: faults left

history == <<asked, code, joins, issued, confirms, revoked>>
vars    == <<file, job, history, raced, budget>>

Spend(what) == budget' = [budget EXCEPT ![what] = @ - 1]

Put(s, k, f) == file' = [file EXCEPT ![s][k] = f]

\* The process goes on with its call, or the call is over.
Goto(p, step) == job' = [job EXCEPT ![p].step = step, ![p].open = FALSE]
Return(p)     == job' = [job EXCEPT ![p] = Idle]

Readable(s, k) == file[s][k].have = "whole"

-----------------------------------------------------------------------------
Init ==
    /\ file     = [s \in Stores |-> [k \in Kinds |-> Absent]]
    /\ job      = [p \in Procs |-> Idle]
    /\ asked    = FALSE
    /\ code     = FALSE
    /\ joins    = 0
    /\ issued   = {}
    /\ confirms = 0
    /\ revoked  = [s \in Stores |-> "no"]
    /\ raced    = FALSE
    /\ budget   = [crash |-> MaxCrashes, space |-> MaxNoSpace, stuck |-> MaxStuck]

-----------------------------------------------------------------------------
(* The calls, up to their first change of a file. *)

Invite(p) ==
    /\ job[p] = Idle
    /\ ~asked /\ asked' = TRUE
    /\ job' = [job EXCEPT ![p] = Call("invite", "inviter", "pending", 0)]
    /\ UNCHANGED <<file, code, joins, issued, confirms, revoked, budget>>

Join(p) ==
    /\ job[p] = Idle
    /\ code /\ joins < MaxJoins /\ Cardinality(issued) < MaxIssued
    /\ joins' = joins + 1
    /\ job' = [job EXCEPT ![p] = Call("join", "joiner", "peer", joins + 1)]
    /\ UNCHANGED <<file, asked, code, issued, confirms, revoked, budget>>

\* kc_pact_confirm, past pending_read.
Confirm(p) ==
    /\ job[p] = Idle
    /\ Readable("inviter", "pending")
    /\ \E k \in issued :
           job' = [job EXCEPT ![p] = Call("confirm", "inviter", "peer", k)]
    /\ UNCHANGED <<file, history, budget>>

\* kc_pact_revoke, past peer_read.
Revoke(p, s) ==
    /\ job[p] = Idle
    /\ IF s = "inviter" THEN code ELSE issued # {}
    /\ job' = [job EXCEPT ![p] =
           Call("revoke", s, IF Readable(s, "peer") THEN "drop_local" ELSE "look", 0)]
    /\ revoked' = [revoked EXCEPT ![s] = IF @ = "no" THEN "begun" ELSE @]
    /\ UNCHANGED <<file, asked, code, joins, issued, confirms, budget>>

-----------------------------------------------------------------------------
(* kc_pact_write_file, and what the caller does with the outcome. *)

\* Mutant: a confirm forgets the local record.
AfterWriteNoLocal(j) ==
    CASE j.step = "pending" -> "answer"
      [] j.step = "peer"    -> IF j.op = "confirm" THEN "commit" ELSE "local"
      [] j.step = "local"   -> "answer"

\* Where a call goes on once its record is written.
AfterWrite(j) ==
    CASE j.step = "pending" -> "answer"
      [] j.step = "peer"    -> "local"
      [] j.step = "local"   -> IF j.op = "confirm" THEN "commit" ELSE "answer"

\* Mutant: a failed write of the peer record goes unnoticed.
WriteFailedGoesOn(p) ==
    IF job[p].step = "peer" THEN Goto(p, "local") ELSE Return(p)

\* peer_written: only what was written is taken back.
WriteFailed(p) ==
    IF job[p].step = "local" THEN Goto(p, "undo_peer") ELSE Return(p)

Open(p) ==
    /\ job[p].step \in Kinds /\ ~job[p].open
    /\ Put(job[p].at, job[p].step, Torn)
    /\ job' = [job EXCEPT ![p].open = TRUE]
    /\ UNCHANGED <<history, budget>>

Write(p) ==
    /\ job[p].step \in Kinds /\ job[p].open
    /\ Put(job[p].at, job[p].step, Whole(job[p].key))
    /\ Goto(p, AfterWrite(job[p]))
    /\ UNCHANGED <<history, budget>>

\* The open, the write or the sync fails.
WriteFails(p) ==
    /\ job[p].step \in Kinds
    /\ budget.space > 0 /\ Spend("space")
    /\ \/ UNCHANGED file
       \/ job[p].open /\ Put(job[p].at, job[p].step, Whole(job[p].key))
    /\ WriteFailed(p)
    /\ UNCHANGED history

-----------------------------------------------------------------------------
(* kc_pact_remove_file: `ok' tells whether this call has removed the file. *)

Unlink(s, k, ok) ==
    \/ /\ ok /\ file[s][k].have # "none"
       /\ Put(s, k, Absent) /\ UNCHANGED budget
    \/ /\ ~ok /\ file[s][k].have = "none"
       /\ UNCHANGED <<file, budget>>
    \/ /\ ~ok /\ file[s][k].have # "none"
       /\ budget.stuck > 0 /\ Spend("stuck") /\ UNCHANGED file

\* Mutant: nobody looks whether the invitation was still there.
CommitAnyway(p) ==
    /\ job[p].step = "commit"
    /\ \E ok \in BOOLEAN :
         /\ Unlink("inviter", "pending", ok)
         /\ Return(p) /\ confirms' = confirms + 1
    /\ UNCHANGED <<asked, code, joins, issued, revoked>>

\* kc_pact_confirm removes the pending record and succeeds, or fails.
Commit(p) ==
    /\ job[p].step = "commit"
    /\ \E ok \in BOOLEAN :
         /\ Unlink("inviter", "pending", ok)
         /\ IF ok THEN Return(p) /\ confirms' = confirms + 1
                  ELSE Goto(p, "undo_local") /\ UNCHANGED confirms
    /\ UNCHANGED <<asked, code, joins, issued, revoked>>

\* The code or the confirmation is returned; kc_pact_invite may lack memory
\* for it.
Answer(p) ==
    /\ job[p].step = "answer"
    /\ \/ /\ job[p].op = "invite" /\ code' = TRUE
          /\ Return(p) /\ UNCHANGED <<issued, budget>>
       \/ /\ job[p].op = "invite" /\ budget.space > 0 /\ Spend("space")
          /\ Goto(p, "undo_pending") /\ UNCHANGED <<code, issued>>
       \/ /\ job[p].op = "join" /\ issued' = issued \cup {job[p].key}
          /\ Return(p) /\ UNCHANGED <<code, budget>>
    /\ UNCHANGED <<file, asked, joins, confirms, revoked>>

UndoTarget(step) ==
    CASE step = "undo_pending" -> "pending"
      [] step = "undo_local"   -> "local"
      [] step = "undo_peer"    -> "peer"

\* The cleanup of a failed call removes its records, one after the other.
Undo(p) ==
    /\ job[p].step \in {"undo_pending", "undo_local", "undo_peer"}
    /\ \E ok \in BOOLEAN : Unlink(job[p].at, UndoTarget(job[p].step), ok)
    /\ IF job[p].step = "undo_local" THEN Goto(p, "undo_peer") ELSE Return(p)
    /\ UNCHANGED history

\* kc_pact_revoke returns KC_PACT_OK if it has removed something.
RevokeEnd(p, removed) ==
    /\ Return(p)
    /\ revoked' = [revoked EXCEPT ![job[p].at] = IF removed THEN "done" ELSE @]

DropLocal(p) ==
    /\ job[p].step = "drop_local"
    /\ \E ok \in BOOLEAN : Unlink(job[p].at, "local", ok)
    /\ Goto(p, "drop_peer")
    /\ UNCHANGED history

\* Mutant: a revoke that has removed a peer does not look any further.
DropPeerAlone(p) ==
    /\ job[p].step = "drop_peer"
    /\ \E ok \in BOOLEAN : Unlink(job[p].at, "peer", ok) /\ RevokeEnd(p, ok)
    /\ UNCHANGED <<asked, code, joins, issued, confirms>>

DropPeer(p) ==
    /\ job[p].step = "drop_peer"
    /\ \E ok \in BOOLEAN :
         /\ Unlink(job[p].at, "peer", ok)
         /\ job' = [job EXCEPT ![p].step = "look", ![p].removed = ok]
    /\ UNCHANGED history

Look(p) ==
    /\ job[p].step = "look"
    /\ IF Readable(job[p].at, "pending")
       THEN Goto(p, "drop_pending") /\ UNCHANGED revoked
       ELSE RevokeEnd(p, job[p].removed)
    /\ UNCHANGED <<file, asked, code, joins, issued, confirms, budget>>

DropPending(p) ==
    /\ job[p].step = "drop_pending"
    /\ \E ok \in BOOLEAN :
         /\ Unlink(job[p].at, "pending", ok)
         /\ RevokeEnd(p, job[p].removed \/ ok)
    /\ UNCHANGED <<asked, code, joins, issued, confirms>>

-----------------------------------------------------------------------------
\* The process dies within a call: what it has done to the files stays.
Crash(p) ==
    /\ job[p] # Idle
    /\ budget.crash > 0 /\ Spend("crash")
    /\ Return(p)
    /\ UNCHANGED <<file, history>>

Step(p) ==
    \/ Invite(p) \/ Join(p) \/ Confirm(p)
    \/ \E s \in Stores : Revoke(p, s)
    \/ Open(p) \/ Write(p) \/ WriteFails(p)
    \/ Commit(p) \/ Answer(p) \/ Undo(p)
    \/ DropLocal(p) \/ DropPeer(p) \/ Look(p) \/ DropPending(p)
    \/ Crash(p)

Race == \E p1, p2 \in Procs : p1 # p2 /\ job[p1] # Idle /\ job[p2] # Idle

Next == /\ \E p \in Procs : Step(p)
        /\ raced' = (raced \/ Race')

Spec == Init /\ [][Next]_vars

-----------------------------------------------------------------------------
(* Properties. *)

\* kc_pact_seal needs the peer record, kc_pact_size and kc_pact_unseal need
\* the local record and the peer record it names.
CanSeal(s)     == Readable(s, "peer")
CanUnseal(s)   == Readable(s, "local") /\ Readable(s, "peer")
Established(s) == CanSeal(s) /\ CanUnseal(s)

\* What one end seals the other opens, both ways.
Shared == file["inviter"]["peer"].key = file["joiner"]["peer"].key

Busy(s) == \E p \in Procs : job[p] # Idle /\ job[p].at = s

\* Records are well formed, and processes are at a step of some call.
Wellformed ==
    /\ file \in [Stores -> [Kinds -> File]]
    /\ job \in [Procs -> Job \cup {Idle}]
    /\ asked \in BOOLEAN /\ code \in BOOLEAN
    /\ joins \in Nat /\ issued \subseteq Nat /\ confirms \in Nat
    /\ revoked \in [Stores -> {"no", "begun", "done"}]
    /\ budget \in [crash : 0..MaxCrashes, space : 0..MaxNoSpace, stuck : 0..MaxStuck]

TypeOK == Wellformed /\ raced \in BOOLEAN

\* "A valid confirmation ... destroys the one-use invitation secret": of all
\* the confirms, concurrent ones and retries after a crash included, at most
\* one succeeds.
OneUse == confirms <= 1

\* An invitation that was handed out is never stranded: until it is revoked it
\* can still be confirmed, or the relationship stands, whatever failed or
\* crashed on the way, as long as no two calls have been under way at once.
NotStranded ==
    code /\ revoked["inviter"] = "no" /\ ~raced =>
        Readable("inviter", "pending") \/ Established("inviter")

\* A confirmed relationship works in both directions, as long as the joiner
\* has joined with success only once and not again since, nobody has revoked,
\* and no two calls have been under way at once.
Connected ==
    /\ confirms > 0 /\ ~raced /\ issued = {joins}
    /\ \A s \in Stores : revoked[s] = "no"
    => Established("inviter") /\ Established("joiner") /\ Shared

\* The inviter has nothing left of the relationship nor of the invitation.
Off == /\ ~Readable("inviter", "pending")
       /\ ~CanSeal("inviter") /\ ~CanUnseal("inviter")

\* No call has died or failed.
Unbroken == budget.crash = MaxCrashes /\ budget.space = MaxNoSpace

\* Once a revoke has succeeded at the inviter and calls under way have ended,
\* the invitation can neither be confirmed nor used, unless a file could not be
\* removed: neither what a call that died or failed has left behind nor a
\* confirm that ran meanwhile brings it back, as long as not both happen.
RevokedIsOff ==
    /\ revoked["inviter"] = "done" /\ ~Busy("inviter") /\ budget.stuck = MaxStuck
    /\ raced => Unbroken
    => Off

\* "A valid confirmation establishes the trust relationship": once a confirm has
\* succeeded and calls under way have ended, the inviter has the relationship
\* until it revokes it.
Establishes ==
    confirms > 0 /\ revoked["inviter"] = "no" /\ ~Busy("inviter") => Established("inviter")

-----------------------------------------------------------------------------
(* The inductive invariant behind OneUse. *)

Calls(op) == {p \in Procs : job[p].op = op}

\* Only one invite ever runs, and it is over once the code is out; nobody
\* joins or confirms before.
OneInvite ==
    /\ ~asked => Calls("invite") = {} /\ ~code
    /\ \A p1, p2 \in Calls("invite") : p1 = p2
    /\ code => Calls("invite") = {}
    /\ Calls("join") # {} \/ issued # {} \/ Calls("confirm") # {} => code

\* A confirm that succeeded has taken the pending record away for good.
Spent == confirms > 0 => code /\ file["inviter"]["pending"].have = "none"

\* The inductive invariant: the unlink of the pending record, of which only one
\* can succeed, decides among the confirms.
IInv == Wellformed /\ OneInvite /\ Spent /\ OneUse

=============================================================================
