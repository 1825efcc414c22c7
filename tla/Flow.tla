-------------------------------- MODULE Flow --------------------------------
(***************************************************************************)
(* libflow: one run of a flow, on a worker thread of its own, which the    *)
(* application may ask to stop and must close.                             *)
(*                                                                         *)
(* A flow file names its entry nodes; a node may import a child flow, may  *)
(* run a command, and has links to other nodes, or none.  A branch is the  *)
(* bytes that travel; here it is the sequence of the commands they went    *)
(* through.  An import turns a branch into as many as the child flow       *)
(* produces; a command turns a branch into one; a link takes each branch   *)
(* to another node, and what reaches a node without links is output.       *)
(*                                                                         *)
(* The recursion of kc_flow_run_node and kc_flow_run_child is a stack of   *)
(* frames.  An action is the stretch from one look at the stop flag to the *)
(* next.  A status other than OK unwinds the whole stack: the frames only  *)
(* release their memory on the way.  Computed links and entries are        *)
(* commands whose answer is fixed; computed values are left out.           *)
(***************************************************************************)
EXTENDS Integers, Sequences, SequencesExt

CONSTANTS
    Nodes,        \* names of nodes, of the flow and of its child flows
    Flows,        \* bound: the flows that may be run
    MaxDepth,     \* 64: how deep nodes may nest
    MaxBranches   \* KC_FLOW_MAX_BRANCHES

\* entries: the targets of the flow; child: the targets of the flow a node
\* imports, or <<>>; execs: nodes with a command; links: targets of a node;
\* failing: nodes whose command fails; readable: whether the flow file can be
\* loaded.  A computed target may name no node.
FlowFile == [entries : Seq(STRING), child : [Nodes -> Seq(STRING)],
             execs : SUBSET Nodes, links : [Nodes -> Seq(STRING)],
             failing : SUBSET Nodes, readable : BOOLEAN]

ASSUME FlowAssumption ==
    /\ MaxDepth \in Nat /\ MaxBranches \in Nat \ {0}
    /\ Nodes \subseteq STRING
    /\ \A f \in Flows :
         /\ f.entries \in Seq(STRING) /\ f.readable \in BOOLEAN
         /\ f.execs \subseteq Nodes /\ f.failing \subseteq f.execs
         /\ \A n \in Nodes : f.child[n] \in Seq(STRING) /\ f.links[n] \in Seq(STRING)

VARIABLES
    flow,     \* the flow that is run
    app,      \* what the application has done with the run
    stop,     \* run->stop_requested
    thread,   \* the worker thread: "none", "live" or "over"
    stack,    \* the calls of the worker, innermost last
    status,   \* what kc_flow_run_loaded returns, "none" before
    output,   \* the output it returns
    told,     \* history: the calls of the handler
    ran,      \* history: the commands begun, each with its branch
    late      \* history: how many of them began after the stop was requested

workVars == <<stack, status, output, told, ran, late>>
vars == <<flow, app, stop, thread, workVars>>

Depth == Len(stack)
Top   == stack[Len(stack)]

\* A call of kc_flow_run_node (phases "enter" to "links"), or the loop over the
\* entries of a flow in kc_flow_run_loaded or kc_flow_run_child ("entries").
Frame(phase, node, active, made, depth) ==
    [phase |-> phase, node |-> node, active |-> active, made |-> made,
     i |-> 1, j |-> 1, depth |-> depth]

Call(frames, f) == Append(frames, f)

\* The frame whose branches collect the output of the innermost call.
Owner == CHOOSE k \in 1..Depth :
             /\ stack[k].phase = "entries"
             /\ \A l \in k + 1..Depth : stack[l].phase # "entries"

Targets == IF Depth = 1 THEN flow.entries ELSE flow.child[Top.node]

-----------------------------------------------------------------------------
Init ==
    /\ flow   \in Flows
    /\ app    = "open"
    /\ stop   = FALSE
    /\ thread = "none"
    /\ stack  = <<>>
    /\ status = "none"
    /\ output = <<>>
    /\ told   = <<>>
    /\ ran    = <<>>
    /\ late   = 0

-----------------------------------------------------------------------------
(* The application. *)

\* kc_flow_run starts the worker.
Run ==
    /\ app = "open" /\ app' = "running"
    /\ thread' = "live"
    /\ UNCHANGED <<flow, stop, workVars>>

\* kc_flow_run_stop.
Stop ==
    /\ app = "running"
    /\ stop' = TRUE
    /\ UNCHANGED <<flow, app, thread, workVars>>

\* kc_flow_run_close, up to the join.
Close ==
    /\ app = "running" /\ app' = "closing"
    /\ stop' = TRUE
    /\ UNCHANGED <<flow, thread, workVars>>

\* The worker has ended: the run is released.
Closed ==
    /\ app = "closing" /\ thread = "over"
    /\ app' = "closed"
    /\ UNCHANGED <<flow, stop, thread, workVars>>

-----------------------------------------------------------------------------
(* The worker. *)

Working == thread = "live" /\ status = "none"

Worker == UNCHANGED <<flow, app, stop, thread>>

\* The step ends the run with a status, or goes on.
Fail(s) ==
    /\ status' = s /\ stack' = <<>>
    /\ UNCHANGED output
Onward(frames) ==
    /\ stack' = frames
    /\ UNCHANGED <<status, output>>
Quiet == UNCHANGED <<told, ran, late>>

\* kc_flow_load.
Load ==
    /\ Working /\ stack = <<>>
    /\ IF flow.readable
       THEN Onward(<<Frame("entries", "", <<<<>>>>, <<>>, -1)>>)
       ELSE Fail("error")
    /\ Worker /\ Quiet

\* The next entry of the flow, or of a child flow for one branch of the importer.
\* Only the former looks at the stop flag.
Entry ==
    /\ Working /\ Depth > 0 /\ Top.phase = "entries" /\ Top.i <= Len(Targets)
    /\ IF Depth = 1 /\ stop THEN Fail("stopped")
       ELSE IF Targets[Top.i] \notin Nodes THEN Fail("error")
       ELSE Onward(Call([stack EXCEPT ![Depth].i = @ + 1],
                        Frame("enter", Targets[Top.i], Top.active, <<>>, Top.depth + 1)))
    /\ Worker /\ Quiet

\* The frame that imported a flow gets what came out, and goes on.
Returned(f, made) == [f EXCEPT !.made = made, !.i = @ + 1]

\* All entries are through: the branches go to the import, or are the output.
Leave ==
    /\ Working /\ Depth > 0 /\ Top.phase = "entries" /\ Top.i > Len(Targets)
    /\ IF Depth = 1
       THEN status' = "ok" /\ output' = Top.made /\ stack' = <<>>
       ELSE Onward([Front(stack) EXCEPT ![Depth - 1] = Returned(@, Top.made)])
    /\ Worker /\ Quiet

\* What a node does after its import: its command, then its links.
AfterImport(n) == IF n \in flow.execs THEN "exec" ELSE "links"

\* Mutant: the depth is looked at one level too late.
EnterDeeper ==
    /\ Working /\ Depth > 0 /\ Top.phase = "enter"
    /\ IF stop THEN Fail("stopped")
       ELSE IF Top.depth > MaxDepth + 1 THEN Fail("error")
       ELSE Onward([stack EXCEPT ![Depth].phase =
                IF flow.child[Top.node] # <<>> THEN "import" ELSE AfterImport(Top.node)])
    /\ Worker /\ Quiet

\* kc_flow_run_node, up to the first branch.
Enter ==
    /\ Working /\ Depth > 0 /\ Top.phase = "enter"
    /\ IF stop THEN Fail("stopped")
       ELSE IF Top.depth > MaxDepth THEN Fail("error")
       ELSE Onward([stack EXCEPT ![Depth].phase =
                IF flow.child[Top.node] # <<>> THEN "import" ELSE AfterImport(Top.node)])
    /\ Worker /\ Quiet

\* The phase is through with all branches: those it made are the active ones.
NextPhase(phase) ==
    Onward([stack EXCEPT ![Depth] =
        [@ EXCEPT !.phase = phase, !.active = Top.made, !.made = <<>>, !.i = 1]])

\* kc_flow_run_child is called for the next branch.
Import ==
    /\ Working /\ Depth > 0 /\ Top.phase = "import"
    /\ IF Top.i > Len(Top.active) THEN NextPhase(AfterImport(Top.node))
       ELSE IF stop THEN Fail("stopped")
       ELSE Onward(Call(stack, Frame("entries", Top.node, <<Top.active[Top.i]>>,
                                     Top.made, Top.depth + 1)))
    /\ Worker /\ Quiet

\* The next branch for the command; its text is made.
Exec ==
    /\ Working /\ Depth > 0 /\ Top.phase = "exec"
    /\ IF Top.i > Len(Top.active) THEN NextPhase("links")
       ELSE IF stop THEN Fail("stopped")
       ELSE Onward([stack EXCEPT ![Depth].phase = "template"])
    /\ Worker /\ Quiet

\* The last look before the command.
Template ==
    /\ Working /\ Depth > 0 /\ Top.phase = "template"
    /\ IF stop THEN Fail("stopped")
       ELSE Onward([stack EXCEPT ![Depth].phase = "command"])
    /\ Worker /\ Quiet

\* The branch that the command of the node makes of one it is given.
Through(b, n) == Append(b, n)

\* kc_flow_run_command.
Command ==
    /\ Working /\ Depth > 0 /\ Top.phase = "command"
    /\ ran' = Append(ran, Through(Top.active[Top.i], Top.node))
    /\ late' = IF stop THEN late + 1 ELSE late
    /\ IF Top.node \in flow.failing THEN Fail("error")
       ELSE Onward([stack EXCEPT ![Depth].phase = "ran"])
    /\ Worker /\ UNCHANGED told

\* Mutant: nobody looks at the flag between two commands.
RanOn ==
    /\ Working /\ Depth > 0 /\ Top.phase = "ran"
    /\ Onward([stack EXCEPT ![Depth] =
            [@ EXCEPT !.phase = IF Top.i < Len(Top.active) THEN "command" ELSE "exec",
                      !.made = Append(Top.made, Through(Top.active[Top.i], Top.node)),
                      !.i = Top.i + 1]])
    /\ Worker /\ Quiet

\* The command is over: its output becomes a branch, unless the run is stopped.
Ran ==
    /\ Working /\ Depth > 0 /\ Top.phase = "ran"
    /\ IF stop THEN Fail("stopped")
       ELSE Onward([stack EXCEPT ![Depth] =
                [@ EXCEPT !.phase = "exec",
                          !.made = Append(Top.made, Through(Top.active[Top.i], Top.node)),
                          !.i = Top.i + 1]])
    /\ Worker /\ Quiet

\* Where the loop over the links of a branch goes on.
NextLink(f) ==
    IF f.j < Len(flow.links[f.node]) THEN [f EXCEPT !.j = @ + 1]
    ELSE [f EXCEPT !.i = @ + 1, !.j = 1]

\* A link takes a branch to another node, or the node is through.
Link ==
    /\ Working /\ Depth > 0 /\ Top.phase = "links"
    /\ flow.links[Top.node] # <<>>
    /\ IF Top.i > Len(Top.active) THEN Onward(Front(stack))
       ELSE IF stop THEN Fail("stopped")
       ELSE LET target == flow.links[Top.node][Top.j]
            IN  IF target \notin Nodes THEN Fail("error")
                ELSE Onward(Call([stack EXCEPT ![Depth] = NextLink(@)],
                                 Frame("enter", target, <<Top.active[Top.i]>>, <<>>,
                                       Top.depth + 1)))
    /\ Worker /\ Quiet

\* Mutant: a stopped leaf keeps quiet, so that the run goes on without it.
LeafDropped ==
    /\ Working /\ Depth > 0 /\ Top.phase = "links"
    /\ flow.links[Top.node] = <<>>
    /\ IF stop THEN Onward(Front(stack))
       ELSE IF Len(stack[Owner].made) + Len(Top.active) > MaxBranches THEN Fail("error")
       ELSE Onward(Front([stack EXCEPT ![Owner].made = @ \o Top.active]))
    /\ Worker /\ Quiet

\* A node without links: its branches are output of the flow it is in.
Leaf ==
    /\ Working /\ Depth > 0 /\ Top.phase = "links"
    /\ flow.links[Top.node] = <<>>
    /\ IF stop THEN Fail("stopped")
       ELSE IF Len(stack[Owner].made) + Len(Top.active) > MaxBranches THEN Fail("error")
       ELSE Onward(Front([stack EXCEPT ![Owner].made = @ \o Top.active]))
    /\ Worker /\ Quiet

\* Mutant: a run that was stopped has nothing to tell.
TellUnlessStopped ==
    /\ status \in {"ok", "error"} /\ told = <<>>
    /\ told' = Append(told, [status |-> status, output |-> output])
    /\ Worker /\ UNCHANGED <<stack, status, output, ran, late>>

\* The handler is called with the result.
Tell ==
    /\ status # "none" /\ told = <<>>
    /\ told' = Append(told, [status |-> status, output |-> output])
    /\ Worker /\ UNCHANGED <<stack, status, output, ran, late>>

\* The handler has returned and the worker ends.
End ==
    /\ thread = "live" /\ told # <<>>
    /\ thread' = "over"
    /\ UNCHANGED <<flow, app, stop, workVars>>

Step ==
    \/ Load \/ Entry \/ Leave \/ Enter \/ Import
    \/ Exec \/ Template \/ Command \/ Ran \/ Link \/ Leaf
    \/ Tell \/ End

Next == Run \/ Stop \/ Close \/ Closed \/ Step

Spec == Init /\ [][Next]_vars

\* The worker and the join go on; nobody has to stop or close a run.
FairSpec == Spec /\ WF_vars(Step) /\ WF_vars(Closed)

-----------------------------------------------------------------------------
(* What a flow means: the depth-first reading of the document, without a    *)
(* worker, a stack or a stop.                                               *)

\* ok: nothing failed; outs: the branches that come out; trace: the commands
\* that run, each as the branch it makes.
Begun(outs, trace) == [ok |-> TRUE, outs |-> outs, trace |-> trace]
Just(b) == Begun(<<b>>, <<>>)
Nothing == Begun(<<>>, <<>>)
Broken  == [ok |-> FALSE, outs |-> <<>>, trace |-> <<>>]

\* One after the other, unless the first fails.
AndThen(r, s) ==
    IF ~r.ok THEN r
    ELSE [ok |-> s.ok, outs |-> r.outs \o s.outs, trace |-> r.trace \o s.trace]

\* Parts one after the other, from the i-th on, or all.
InTurnFrom(parts, i) ==
    LET from[k \in Nat] ==
            IF k \in DOMAIN parts THEN AndThen(parts[k], from[k + 1]) ELSE Nothing
    IN  from[i]
InTurn(parts) == InTurnFrom(parts, 1)

\* What comes out of r goes on through parts, one for each branch.
Onto(r, parts) ==
    IF ~r.ok THEN r ELSE AndThen(Begun(<<>>, r.trace), InTurn(parts))

\* A result behind what a branch went through before.
Behind(b, r) ==
    [ok    |-> r.ok,
     outs  |-> [k \in DOMAIN r.outs  |-> b \o r.outs[k]],
     trace |-> [k \in DOMAIN r.trace |-> b \o r.trace[k]]]

Within(r) ==
    IF Len(r.outs) > MaxBranches THEN [ok |-> FALSE, outs |-> r.outs, trace |-> r.trace] ELSE r

\* The targets of a link, of an import or of the flow, where m is what each node
\* means there; what comes out of the import of a node; its command for each of
\* the branches bs, and its links.
AllOf(targets, m) ==
    [k \in DOMAIN targets |-> IF targets[k] \in Nodes THEN m[targets[k]] ELSE Broken]
Imported(f, n, m) ==
    IF f.child[n] = <<>> THEN Just(<<>>) ELSE Within(InTurn(AllOf(f.child[n], m)))
Commands(f, n, bs) ==
    [k \in DOMAIN bs |->
        IF n \notin f.execs THEN Just(bs[k])
        ELSE [ok |-> n \notin f.failing, outs |-> <<Append(bs[k], n)>>,
              trace |-> <<Append(bs[k], n)>>]]
Links(f, n, bs, m) ==
    [k \in DOMAIN bs |->
        IF f.links[n] = <<>> THEN Just(bs[k])
        ELSE Behind(bs[k], InTurn(AllOf(f.links[n], m)))]

AndLinks(f, n, r, m)      == Onto(r, Links(f, n, r.outs, m))
AfterImported(f, n, r, m) == AndLinks(f, n, Onto(r, Commands(f, n, r.outs)), m)

\* What the nodes mean at each depth: a link leads one deeper, an import two.
NodeMeaning(f) ==
    LET m[d \in Nat] ==
            [n \in Nodes |->
                IF d > MaxDepth THEN Broken
                ELSE AfterImported(f, n, Imported(f, n, m[d + 2]), m[d + 1])]
    IN  m

Meaning(f) ==
    IF ~f.readable THEN Broken
    ELSE Within(InTurn(AllOf(f.entries, NodeMeaning(f)[0])))

-----------------------------------------------------------------------------
(* Properties. *)

Branch == Seq(Nodes)
Phases == {"entries", "enter", "import", "exec", "template", "command", "ran", "links"}

FrameType ==
    [phase : Phases, node : Nodes \cup {""}, active : Seq(Branch), made : Seq(Branch),
     i : Nat \ {0}, j : Nat \ {0}, depth : Int]

TypeOK ==
    /\ flow \in Flows
    /\ app \in {"open", "running", "closing", "closed"}
    /\ stop \in BOOLEAN /\ thread \in {"none", "live", "over"}
    /\ stack \in Seq(FrameType)
    /\ status \in {"none", "ok", "error", "stopped"}
    /\ output \in Seq(Branch)
    /\ ran \in Seq(Branch) /\ late \in Nat

\* Whatever the flow, one that leads back to itself included, the recursion of
\* kc_flow_run_node stays within four frames of its bound, and no collection of
\* branches grows past KC_FLOW_MAX_BRANCHES (kc_flow_branches_copy).
Bounded ==
    /\ Depth <= MaxDepth + 4
    /\ \A k \in 1..Depth : /\ Len(stack[k].made) <= MaxBranches
                          /\ Len(stack[k].active) <= MaxBranches

\* "A successfully started run delivers one terminal completion callback",
\* before its close returns, and it tells the truth: a result is the whole
\* output of the flow in the order of the document even when a stop came last,
\* an error is one of the flow, and only a run that was asked to stop is stopped.
TerminalIsTrue ==
    /\ Len(told) <= 1
    /\ app = "closed" => Len(told) = 1 /\ thread = "over"
    /\ \A k \in 1..Len(told) :
         CASE told[k].status = "ok"      -> Meaning(flow).ok /\ told[k].output = Meaning(flow).outs
           [] told[k].status = "error"   -> ~Meaning(flow).ok /\ told[k].output = <<>>
           [] told[k].status = "stopped" -> stop /\ told[k].output = <<>>

\* The commands run depth first, each branch through a whole step before the
\* next step, none twice and none too many, wherever the run ends.
CommandsInOrder == IsPrefix(ran, Meaning(flow).trace)

\* "Before another step begins, the run observes the stop request": at most the
\* one command begins that was past its last look.
StopsSoon == late <= 1

\* Every run ends with its callback, a flow whose computed links or imports
\* lead back to itself included, and a close returns.
RunEnds == /\ app = "running" ~> told # <<>>
           /\ app = "closing" ~> app = "closed"

=============================================================================
