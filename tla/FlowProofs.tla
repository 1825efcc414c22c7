----------------------------- MODULE FlowProofs -----------------------------
(***************************************************************************)
(* Proofs about Flow, for every flow and every bound: the stack of calls   *)
(* stays within its bound, at most one command begins after a stop, and    *)
(* the handler is called once, before the run is released.  Then, that a   *)
(* run does what its flow means: Promised carries the meaning of what is   *)
(* left, C[k] for what the run comes to once the calls from frame k of the *)
(* stack on are through, and C[1] is the meaning of the flow.              *)
(***************************************************************************)
EXTENDS Flow, TLAPS, WellFoundedInduction

Inside  == {"exec", "template", "command", "ran"}
Calling == {"entries", "import", "links"}

\* What holds of frame k of the stack.  Its depth is its place; only a call that
\* is refused on entering is past the bound.  A command makes one branch of each
\* that is active.
GoodFrame(k, f) ==
    /\ f.depth = k - 2
    /\ f.phase \notin {"entries", "enter"} => f.depth <= MaxDepth
    /\ f.phase = "entries" => f.depth <= MaxDepth + 1
    /\ f.phase = "enter" => f.depth <= MaxDepth + 2 /\ f.made = <<>> /\ f.i = 1
    /\ f.phase \in Inside => Len(f.made) = f.i - 1 /\ f.i <= Len(f.active) + 1
    /\ f.phase \in Inside \ {"exec"} => f.i <= Len(f.active)
    /\ Len(f.made) <= MaxBranches /\ Len(f.active) <= MaxBranches
    /\ f.phase # "entries" => f.node \in Nodes

\* A call that waits for another is in a loop over entries, branches or links,
\* so that a leaf, whichever frame it hands its branches to, disturbs none.
GoodStack(s) ==
    /\ s \in Seq(FrameType)
    /\ \A k \in 1..Len(s) : GoodFrame(k, s[k])
    /\ \A k \in 1..Len(s) : k < Len(s) => s[k].phase \in Calling

\* A command that begins after the stop is the last one: the next look ends the
\* run.
Looked ==
    late > 0 => /\ late = 1 /\ stop
                /\ status = "none" => stack # <<>> /\ Top.phase = "ran"

\* What the handler, the thread and the application know of each other.
OneCallback ==
    /\ told = <<>> \/ (status # "none" /\ told = <<[status |-> status, output |-> output]>>)
    /\ thread = "over" => told # <<>>
    /\ app = "closed" => thread = "over"
    /\ app = "open" <=> thread = "none"
    /\ app = "open" => status = "none"
    /\ status = "stopped" => stop
    /\ status # "ok" => output = <<>>

IInv == TypeOK /\ GoodStack(stack) /\ Looked /\ OneCallback

-----------------------------------------------------------------------------
(* The stack of calls. *)

\* A call on top of one that waits for it.
LEMMA CallGood ==
    ASSUME NEW s, GoodStack(s), Len(s) > 0 => s[Len(s)].phase \in Calling,
           NEW f \in FrameType, GoodFrame(Len(s) + 1, f)
    PROVE  GoodStack(Append(s, f))
  <1>1. s \in Seq(FrameType) /\ Append(s, f) \in Seq(FrameType)
    BY DEF GoodStack
  <1>2. ASSUME NEW k \in 1..Len(Append(s, f))
        PROVE  GoodFrame(k, Append(s, f)[k])
    BY <1>1, <1>2 DEF GoodStack
  <1>3. ASSUME NEW k \in 1..Len(Append(s, f)), k < Len(Append(s, f))
        PROVE  Append(s, f)[k].phase \in Calling
    BY <1>1, <1>3 DEF GoodStack
  <1> QED  BY <1>1, <1>2, <1>3 DEF GoodStack

\* A call that goes on.
LEMMA SetGood ==
    ASSUME NEW s, GoodStack(s), NEW k \in 1..Len(s),
           NEW f \in FrameType, GoodFrame(k, f), k < Len(s) => f.phase \in Calling
    PROVE  GoodStack([s EXCEPT ![k] = f])
  <1> DEFINE t == [s EXCEPT ![k] = f]
  <1>1. t \in Seq(FrameType) /\ Len(t) = Len(s) /\ s \in Seq(FrameType)
    BY DEF GoodStack
  <1>2. ASSUME NEW l \in 1..Len(s)
        PROVE  t[l] = IF l = k THEN f ELSE s[l]
    BY <1>1
  <1>3. ASSUME NEW l \in 1..Len(s)
        PROVE  GoodFrame(l, t[l]) /\ (l < Len(s) => t[l].phase \in Calling)
    BY <1>2, <1>3 DEF GoodStack
  <1> HIDE DEF t
  <1>4. GoodStack(t)  BY <1>1, <1>3 DEF GoodStack
  <1> QED  BY <1>4 DEF t

\* A call that returns.
LEMMA ReturnGood ==
    ASSUME NEW s, GoodStack(s), s # <<>>
    PROVE  GoodStack(Front(s)) /\ Len(Front(s)) = Len(s) - 1
  <1>1. s \in Seq(FrameType) /\ Len(s) > 0
    BY DEF GoodStack
  <1>2. Front(s) \in Seq(FrameType) /\ Len(Front(s)) = Len(s) - 1
    BY <1>1 DEF Front
  <1>3. ASSUME NEW k \in 1..Len(Front(s))
        PROVE  Front(s)[k] = s[k]
    BY <1>1, <1>2, <1>3 DEF Front
  <1>4. ASSUME NEW k \in 1..Len(Front(s))
        PROVE  GoodFrame(k, Front(s)[k]) /\ Front(s)[k].phase \in Calling
    BY <1>1, <1>2, <1>3, <1>4 DEF GoodStack
  <1> QED  BY <1>1, <1>2, <1>4 DEF GoodStack

\* A run has no calls before it loads its flow and after it has ended.
LEMMA NoCalls == GoodStack(<<>>)
  BY DEF GoodStack

\* The innermost call.
LEMMA TopGood ==
    ASSUME GoodStack(stack), Depth > 0
    PROVE  /\ Depth \in Nat /\ Depth \in 1..Len(stack)
           /\ Top \in FrameType /\ GoodFrame(Depth, Top)
           /\ stack # <<>>
  BY DEF GoodStack, Depth, Top

-----------------------------------------------------------------------------
(* The steps of the worker that are neither a command nor the end.            *)

\* A run ends with an error, or as stopped if it was, or its calls go on.
EndsOrGoesOn ==
    \/ Fail("error") \/ (stop /\ Fail("stopped"))
    \/ \E frames : GoodStack(frames) /\ Onward(frames)

\* That is all such a step has to do: the command that began after a stop, if
\* one did, is over when the run ends.
LEMMA QuietStep ==
    ASSUME IInv, Working, Worker, Quiet, EndsOrGoesOn, late = 0 \/ status' # "none"
    PROVE  IInv'
  <1>1. GoodStack(stack')
    BY NoCalls DEF EndsOrGoesOn, Fail, Onward
  <1>2. /\ status' \in {"none", "error", "stopped"} /\ output' = output
        /\ status' = "stopped" => stop
    BY DEF EndsOrGoesOn, Fail, Onward, Working
  <1>3. TypeOK'
    BY <1>1, <1>2 DEF IInv, TypeOK, GoodStack, Worker, Quiet
  <1>4. Looked'
    BY <1>2 DEF IInv, Looked, Worker, Quiet, Working
  <1>5. OneCallback'
    BY <1>2 DEF IInv, OneCallback, Worker, Quiet, Working
  <1> QED  BY <1>1, <1>3, <1>4, <1>5 DEF IInv

\* No command has begun after a stop unless the run is just behind one.
LEMMA NotLate ==
    ASSUME IInv, Working, Top.phase # "ran" \/ stack = <<>> \/ ~stop
    PROVE  late = 0
  BY DEF IInv, Looked, Working, TypeOK

LEMMA One == 1 \in Nat \ {0}
  OBVIOUS

\* What a frame is made of, and how it keeps its type when a field changes.
LEMMA Fields ==
    ASSUME NEW f \in FrameType
    PROVE  /\ f.phase \in Phases /\ f.node \in Nodes \cup {""}
           /\ f.active \in Seq(Branch) /\ f.made \in Seq(Branch)
           /\ f.i \in Nat \ {0} /\ f.j \in Nat \ {0} /\ f.depth \in Int
  BY DEF FrameType

LEMMA WithPhase ==
    ASSUME NEW f \in FrameType, NEW x \in Phases PROVE [f EXCEPT !.phase = x] \in FrameType
  BY DEF FrameType

LEMMA WithI ==
    ASSUME NEW f \in FrameType, NEW x \in Nat \ {0} PROVE [f EXCEPT !.i = x] \in FrameType
  BY DEF FrameType

LEMMA WithJ ==
    ASSUME NEW f \in FrameType, NEW x \in Nat \ {0} PROVE [f EXCEPT !.j = x] \in FrameType
  BY DEF FrameType

LEMMA WithMade ==
    ASSUME NEW f \in FrameType, NEW x \in Seq(Branch) PROVE [f EXCEPT !.made = x] \in FrameType
  BY DEF FrameType

LEMMA WithActive ==
    ASSUME NEW f \in FrameType, NEW x \in Seq(Branch) PROVE [f EXCEPT !.active = x] \in FrameType
  BY DEF FrameType

\* A phase that is through with its branches.
LEMMA NextFrame ==
    ASSUME NEW f \in FrameType, NEW phase \in Phases
    PROVE  [f EXCEPT !.phase = phase, !.active = f.made, !.made = <<>>, !.i = 1] \in FrameType
  <1> DEFINE g1 == [f EXCEPT !.phase = phase]
             g2 == [g1 EXCEPT !.active = f.made]
             g3 == [g2 EXCEPT !.made = <<>>]
             g4 == [g3 EXCEPT !.i = 1]
  <1>0. <<>> \in Seq(Branch) /\ 1 \in Nat \ {0}
    OBVIOUS
  <1>1. f.made \in Seq(Branch)
    BY Fields
  <1>2. g1 \in FrameType  BY WithPhase
  <1> HIDE DEF g1
  <1>3. g2 \in FrameType  BY <1>1, <1>2, WithActive
  <1> HIDE DEF g2
  <1>4. g3 \in FrameType  BY <1>0, <1>3, WithMade
  <1> HIDE DEF g3
  <1>5. g4 \in FrameType  BY <1>0, <1>4, WithI
  <1>6. g4 = [f EXCEPT !.phase = phase, !.active = f.made, !.made = <<>>, !.i = 1]
    BY DEF g1, g2, g3
  <1> QED  BY <1>5, <1>6

\* A branch that is through: the loop goes on with the next.
LEMMA NextIndex ==
    ASSUME NEW f \in FrameType
    PROVE  [f EXCEPT !.i = @ + 1] \in FrameType
  <1> DEFINE n == f.i + 1
  <1>1. f.i \in Nat \ {0}  BY Fields
  <1>2. n \in Nat \ {0}  BY <1>1
  <1> HIDE DEF n
  <1>3. [f EXCEPT !.i = n] \in FrameType  BY <1>2, WithI
  <1> QED  BY <1>3 DEF n

\* The same, with what it made.
LEMMA NextItem ==
    ASSUME NEW f \in FrameType, NEW phase \in Phases, NEW made \in Seq(Branch)
    PROVE  [f EXCEPT !.phase = phase, !.made = made, !.i = @ + 1] \in FrameType
  <1> DEFINE g1 == [f EXCEPT !.phase = phase]
             g2 == [g1 EXCEPT !.made = made]
             g3 == [g2 EXCEPT !.i = @ + 1]
  <1>1. g1 \in FrameType  BY WithPhase
  <1> HIDE DEF g1
  <1>2. g2 \in FrameType  BY <1>1, WithMade
  <1> HIDE DEF g2
  <1>3. g3 \in FrameType  BY <1>2, NextIndex
  <1>4. g3 = [f EXCEPT !.phase = phase, !.made = made, !.i = @ + 1]
    BY DEF g1, g2
  <1> QED  BY <1>3, <1>4

\* A frame that is called with some branches.
LEMMA FrameGood ==
    ASSUME NEW phase \in {"entries", "enter"}, NEW node \in Nodes \cup {""},
           NEW active \in Seq(Branch), NEW made \in Seq(Branch), NEW k \in Nat \ {0},
           NEW depth \in Int, depth = k - 2,
           Len(active) <= MaxBranches, Len(made) <= MaxBranches,
           phase = "enter" => node \in Nodes /\ made = <<>> /\ depth <= MaxDepth + 2,
           phase = "entries" => depth <= MaxDepth + 1
    PROVE  /\ Frame(phase, node, active, made, depth) \in FrameType
           /\ GoodFrame(k, Frame(phase, node, active, made, depth))
  <1> DEFINE f == Frame(phase, node, active, made, depth)
  <1>1. /\ f.phase = phase /\ f.node = node /\ f.active = active /\ f.made = made
        /\ f.i = 1 /\ f.j = 1 /\ f.depth = depth
    BY DEF Frame
  <1>2. f \in FrameType
    <2>1. phase \in Phases
      BY DEF Phases
    <2> QED  BY <2>1, One DEF Frame, FrameType
  <1> HIDE DEF f
  <1>3. phase \notin Inside
    BY DEF Inside
  <1>4. GoodFrame(k, f)
    BY <1>1, <1>3 DEF GoodFrame
  <1> QED  BY <1>2, <1>4 DEF f

LEMMA LoadStep == ASSUME IInv, Load PROVE IInv'
  <1>1. CASE flow.readable
    <2> DEFINE f == Frame("entries", "", <<<<>>>>, <<>>, -1)
    <2>1. f \in FrameType /\ GoodFrame(1, f)
      <3>1. /\ <<<<>>>> \in Seq(Branch) /\ <<>> \in Seq(Branch)
            /\ Len(<<<<>>>>) = 1 /\ Len(<<>>) = 0 /\ -1 = 1 - 2 /\ -1 \in Int
        BY DEF Branch
      <3>2. 1 <= MaxBranches /\ 0 <= MaxBranches /\ -1 <= MaxDepth + 1
        BY FlowAssumption
      <3>3. 1 \in Nat \ {0} /\ "" \in Nodes \cup {""} /\ "entries" \in {"entries", "enter"}
        OBVIOUS
      <3> QED  BY <3>1, <3>2, <3>3, FrameGood
    <2> HIDE DEF f
    <2>2. GoodStack(<<f>>)
      <3>1. <<f>> \in Seq(FrameType) /\ Len(<<f>>) = 1 /\ <<f>>[1] = f
        BY <2>1
      <3> QED  BY <2>1, <3>1 DEF GoodStack
    <2>3. EndsOrGoesOn
      BY <1>1, <2>2 DEF Load, EndsOrGoesOn, f
    <2> QED  BY <2>3, NotLate, QuietStep DEF Load
  <1>2. CASE ~flow.readable
    BY <1>2, NotLate, QuietStep DEF Load, EndsOrGoesOn
  <1> QED  BY <1>1, <1>2

LEMMA EntryStep == ASSUME IInv, Entry PROVE IInv'
  <1> DEFINE f == Frame("enter", Targets[Top.i], Top.active, <<>>, Top.depth + 1)
             on == [stack EXCEPT ![Depth].i = @ + 1]
  <1>1. /\ Depth \in 1..Len(stack) /\ Depth \in Nat \ {0} /\ Top \in FrameType
        /\ GoodFrame(Depth, Top) /\ Top.phase = "entries" /\ GoodStack(stack)
    BY TopGood DEF IInv, Entry
  <1>2. ASSUME Targets[Top.i] \in Nodes
        PROVE  GoodStack(Call(on, f))
    <2> DEFINE g == [Top EXCEPT !.i = @ + 1]
    <2>1. g \in FrameType
      BY <1>1, NextIndex
    <2>2. /\ g.phase = "entries" /\ g.depth = Top.depth /\ g.made = Top.made
          /\ g.active = Top.active
      BY <1>1 DEF FrameType
    <2>3. on = [stack EXCEPT ![Depth] = g]
      BY DEF Top, Depth
    <2>4. f \in FrameType /\ GoodFrame(Depth + 1, f)
      <3>0. Top.active \in Seq(Branch) /\ Top.depth \in Int
        BY <1>1, Fields
      <3>1. /\ Len(Top.active) <= MaxBranches
            /\ Top.depth = Depth - 2 /\ Top.depth <= MaxDepth + 1
        BY <1>1 DEF GoodFrame
      <3>3. <<>> \in Seq(Branch) /\ Len(<<>>) <= MaxBranches
        BY FlowAssumption
      <3>2. /\ Top.depth + 1 = (Depth + 1) - 2 /\ Depth + 1 \in Nat \ {0}
            /\ Top.depth + 1 <= MaxDepth + 2 /\ Top.depth + 1 \in Int
        BY <1>1, <3>0, <3>1, FlowAssumption
      <3> QED  BY <1>2, <3>0, <3>1, <3>2, <3>3, FrameGood
    <2> HIDE DEF f, g, on
    <2>5. GoodFrame(Depth, g)
      BY <1>1, <2>2 DEF GoodFrame, Inside
    <2>6. GoodStack(on)
      BY <1>1, <2>1, <2>2, <2>3, <2>5, SetGood DEF Calling
    <2>7. Len(on) = Depth /\ on[Depth] = g
      BY <1>1, <2>3 DEF Depth, GoodStack
    <2> QED  BY <2>2, <2>4, <2>6, <2>7, CallGood DEF Call, Calling
  <1> HIDE DEF f, on
  <1>3. EndsOrGoesOn
    BY <1>2 DEF Entry, EndsOrGoesOn, f, on
  <1>4. late = 0
    BY <1>1, NotLate DEF Entry
  <1> QED  BY <1>3, <1>4, QuietStep DEF Entry

\* The innermost call changes.
LEMMA TopSet ==
    ASSUME GoodStack(stack), Depth > 0, NEW f \in FrameType, GoodFrame(Depth, f)
    PROVE  GoodStack([stack EXCEPT ![Depth] = f])
  <1>1. Depth \in 1..Len(stack)
    BY TopGood
  <1>2. ~(Depth < Len(stack))
    BY TopGood DEF Depth
  <1> QED  BY <1>1, <1>2, SetGood

\* The facts that the steps of a call start from.
LEMMA Inner ==
    ASSUME IInv, Depth > 0
    PROVE  /\ Depth \in Nat \ {0} /\ Depth \in 1..Len(stack) /\ GoodStack(stack)
           /\ Top \in FrameType /\ GoodFrame(Depth, Top) /\ stack # <<>>
           /\ Top.phase \in Phases /\ Top.node \in Nodes \cup {""}
           /\ Top.active \in Seq(Branch) /\ Top.made \in Seq(Branch)
           /\ Top.i \in Nat \ {0} /\ Top.j \in Nat \ {0} /\ Top.depth = Depth - 2
  <1>1. GoodStack(stack)
    BY DEF IInv
  <1>2. /\ Depth \in Nat /\ Depth \in 1..Len(stack) /\ stack # <<>>
        /\ Top \in FrameType /\ GoodFrame(Depth, Top)
    BY <1>1, TopGood
  <1>3. Depth \in Nat \ {0}
    BY <1>2
  <1>4. Top.depth = Depth - 2
    BY <1>2 DEF GoodFrame
  <1> QED  BY <1>1, <1>2, <1>3, <1>4, Fields

\* Its numbers, and the comparisons the steps make with them.
LEMMA Numbers ==
    ASSUME IInv, Depth > 0
    PROVE  /\ Top.depth \in Int /\ Top.i \in Nat \ {0} /\ MaxDepth \in Nat
           /\ Len(Top.active) \in Nat /\ Len(Top.made) \in Nat
           /\ Top.depth > MaxDepth \/ Top.depth <= MaxDepth
           /\ Top.i > Len(Top.active) \/ Top.i <= Len(Top.active)
  <1>1. Top.depth \in Int
    <2>1. Depth \in Nat /\ Top.depth = Depth - 2
      BY Inner
    <2> QED  BY <2>1
  <1>2. Top.i \in Nat \ {0} /\ MaxDepth \in Nat
    BY Inner, FlowAssumption
  <1>3. Len(Top.active) \in Nat /\ Len(Top.made) \in Nat
    <2>1. Top.active \in Seq(Branch) /\ Top.made \in Seq(Branch)
      BY Inner
    <2> QED  BY <2>1
  <1>4. Top.depth > MaxDepth \/ Top.depth <= MaxDepth
    BY <1>1, <1>2
  <1>5. Top.i > Len(Top.active) \/ Top.i <= Len(Top.active)
    BY <1>2, <1>3
  <1> QED  BY <1>1, <1>2, <1>3, <1>4, <1>5

\* A branch that is active.
LEMMA ActiveBranch ==
    ASSUME IInv, Depth > 0, Top.i <= Len(Top.active)
    PROVE  /\ Top.active[Top.i] \in Branch
           /\ <<Top.active[Top.i]>> \in Seq(Branch) /\ Len(<<Top.active[Top.i]>>) = 1
  <1>1. Top.active \in Seq(Branch) /\ Top.i \in Nat \ {0}
    BY Inner
  <1>2. Top.active[Top.i] \in Branch
    BY <1>1
  <1> QED  BY <1>2

LEMMA AfterImportPhase ==
    ASSUME NEW n PROVE AfterImport(n) \in {"exec", "links"} /\ AfterImport(n) \in Phases
  BY DEF AfterImport, Phases

LEMMA EnterStep == ASSUME IInv, Enter PROVE IInv'
  <1>1. Depth > 0 /\ Top.phase = "enter" /\ late = 0
    BY NotLate DEF Enter
  <1>2. ASSUME Top.depth <= MaxDepth, NEW phase \in {"import", "exec", "links"}
        PROVE  GoodStack([stack EXCEPT ![Depth].phase = phase])
    <2> DEFINE g == [Top EXCEPT !.phase = phase]
    <2>1. phase \in Phases
      BY DEF Phases
    <2>2. g \in FrameType
      BY <1>1, <2>1, Inner, WithPhase
    <2>3. /\ g.phase = phase /\ g.node = Top.node /\ g.depth = Top.depth
          /\ g.made = Top.made /\ g.active = Top.active /\ g.i = Top.i
      BY <1>1, Inner DEF FrameType
    <2>4. [stack EXCEPT ![Depth].phase = phase] = [stack EXCEPT ![Depth] = g]
      BY DEF Top, Depth
    <2> HIDE DEF g
    <2>5. GoodFrame(Depth, g)
      <3>0. GoodFrame(Depth, Top) /\ Top.depth = Depth - 2
        BY <1>1, Inner
      <3>1. Top.made = <<>> /\ Top.i = 1
        BY <1>1, <3>0 DEF GoodFrame
      <3>2. Top.node \in Nodes /\ Len(Top.active) <= MaxBranches
        BY <1>1, <3>0 DEF GoodFrame
      <3>3. Len(Top.active) \in Nat /\ MaxBranches \in Nat
        BY <1>1, Numbers, FlowAssumption
      <3>4. /\ Len(g.made) = g.i - 1 /\ g.i <= Len(g.active) + 1
            /\ Len(g.made) <= MaxBranches /\ Len(g.active) <= MaxBranches
        BY <2>3, <3>1, <3>2, <3>3
      <3>5. g.phase \notin {"entries", "enter", "template", "command", "ran"}
        BY <2>3
      <3> QED  BY <1>2, <2>3, <3>0, <3>2, <3>4, <3>5 DEF GoodFrame, Inside
    <2> QED  BY <1>1, <2>2, <2>4, <2>5, Inner, TopSet
  <1>3. EndsOrGoesOn
    <2>1. CASE stop
      BY <2>1 DEF Enter, EndsOrGoesOn
    <2>2. CASE ~stop /\ Top.depth > MaxDepth
      BY <2>2 DEF Enter, EndsOrGoesOn
    <2>3. CASE ~stop /\ ~(Top.depth > MaxDepth)
      <3>1. Top.depth <= MaxDepth
        BY <1>1, <2>3, Numbers
      <3> DEFINE phase == IF flow.child[Top.node] # <<>> THEN "import" ELSE AfterImport(Top.node)
      <3>2. phase \in {"import", "exec", "links"}
        BY AfterImportPhase
      <3>3. Onward([stack EXCEPT ![Depth].phase = phase])
        BY <2>3 DEF Enter
      <3> HIDE DEF phase
      <3> QED  BY <1>2, <3>1, <3>2, <3>3 DEF EndsOrGoesOn
    <2> QED  BY <2>1, <2>2, <2>3
  <1> QED  BY <1>1, <1>3, QuietStep DEF Enter

\* A phase is over: the branches it made are the active ones.
LEMMA NextPhaseGood ==
    ASSUME IInv, Depth > 0, Top.phase \notin {"entries", "enter"},
           NEW phase \in {"exec", "links"}, NextPhase(phase)
    PROVE  EndsOrGoesOn
  <1> DEFINE g == [Top EXCEPT !.phase = phase, !.active = Top.made, !.made = <<>>, !.i = 1]
  <1>1. phase \in Phases
    BY DEF Phases
  <1>2. g \in FrameType
    BY <1>1, Inner, NextFrame
  <1>3. /\ g.phase = phase /\ g.node = Top.node /\ g.depth = Top.depth
        /\ g.made = <<>> /\ g.active = Top.made /\ g.i = 1
    BY Inner DEF FrameType
  <1>4. Onward([stack EXCEPT ![Depth] = g])
    BY DEF NextPhase, Top, Depth
  <1> HIDE DEF g
  <1>5. GoodFrame(Depth, g)
    <2>0. GoodFrame(Depth, Top) /\ Top.depth = Depth - 2 /\ Top.phase \in Phases
      BY Inner
    <2>1. /\ Top.node \in Nodes /\ Len(Top.made) <= MaxBranches /\ Top.depth <= MaxDepth
      BY <2>0 DEF GoodFrame, Phases
    <2>2. Len(Top.made) \in Nat /\ MaxBranches \in Nat
      BY Numbers, FlowAssumption
    <2>3. /\ Len(g.made) = g.i - 1 /\ g.i <= Len(g.active) + 1
          /\ Len(g.made) <= MaxBranches /\ Len(g.active) <= MaxBranches
      BY <1>3, <2>1, <2>2
    <2>4. g.phase \notin {"entries", "enter", "template", "command", "ran"}
      BY <1>3
    <2> QED  BY <1>3, <2>0, <2>1, <2>3, <2>4 DEF GoodFrame, Inside
  <1> QED  BY <1>2, <1>4, <1>5, Inner, TopSet DEF EndsOrGoesOn

LEMMA ImportStep == ASSUME IInv, Import PROVE IInv'
  <1>1. Depth > 0 /\ Top.phase = "import" /\ late = 0
    BY NotLate DEF Import
  <1> DEFINE f == Frame("entries", Top.node, <<Top.active[Top.i]>>, Top.made, Top.depth + 1)
  <1>2. ASSUME Top.i <= Len(Top.active)
        PROVE  GoodStack(Call(stack, f))
    <2>0. GoodFrame(Depth, Top) /\ Depth \in Nat \ {0} /\ Top.depth = Depth - 2
      BY <1>1, Inner
    <2>1. <<Top.active[Top.i]>> \in Seq(Branch) /\ Len(<<Top.active[Top.i]>>) = 1
      BY <1>1, <1>2, ActiveBranch
    <2>2. Len(Top.made) <= MaxBranches /\ Top.depth <= MaxDepth
      BY <1>1, <2>0 DEF GoodFrame
    <2>3. /\ Top.depth + 1 \in Int /\ Top.depth + 1 = (Depth + 1) - 2
          /\ Depth + 1 \in Nat \ {0} /\ Top.depth + 1 <= MaxDepth + 1 /\ 1 <= MaxBranches
      BY <2>0, <2>2, FlowAssumption
    <2>4. Top.made \in Seq(Branch) /\ Top.node \in Nodes \cup {""}
      BY <1>1, Inner
    <2>5. f \in FrameType /\ GoodFrame(Depth + 1, f)
      BY <2>1, <2>2, <2>3, <2>4, FrameGood
    <2> HIDE DEF f
    <2> QED  BY <1>1, <2>5, Inner, CallGood DEF Call, Depth, Top, Calling
  <1> HIDE DEF f
  <1>3. EndsOrGoesOn
    <2>1. CASE Top.i > Len(Top.active)
      BY <1>1, <2>1, AfterImportPhase, NextPhaseGood DEF Import
    <2>2. CASE ~(Top.i > Len(Top.active)) /\ stop
      BY <2>2 DEF Import, EndsOrGoesOn
    <2>3. CASE ~(Top.i > Len(Top.active)) /\ ~stop
      <3>1. Top.i <= Len(Top.active)
        BY <1>1, <2>3, Numbers
      <3> QED  BY <1>2, <2>3, <3>1 DEF Import, EndsOrGoesOn, f
    <2> QED  BY <2>1, <2>2, <2>3
  <1> QED  BY <1>1, <1>3, QuietStep DEF Import

\* A call whose command works through the branches goes on doing so.
LEMMA InsideGood ==
    ASSUME IInv, Depth > 0, Top.phase \in Inside, NEW g \in FrameType, g.phase \in Inside,
           g.node = Top.node, g.depth = Top.depth, g.active = Top.active,
           Len(g.made) = g.i - 1, g.i <= Len(g.active) + 1,
           g.phase # "exec" => g.i <= Len(g.active)
    PROVE  GoodStack([stack EXCEPT ![Depth] = g])
  <1>1. GoodFrame(Depth, Top)
    BY Inner
  <1>2. /\ Top.depth = Depth - 2 /\ Top.depth <= MaxDepth /\ Top.node \in Nodes
        /\ Len(Top.active) <= MaxBranches
    BY <1>1 DEF GoodFrame, Inside
  <1>3. /\ Len(g.made) \in Nat /\ Len(g.active) \in Nat /\ g.i \in Nat /\ MaxBranches \in Nat
    <2>1. g.made \in Seq(Branch) /\ g.active \in Seq(Branch) /\ g.i \in Nat
      BY Fields
    <2> QED  BY <2>1, FlowAssumption
  <1>4. Len(g.active) <= MaxBranches
    BY <1>2
  <1>5. Len(g.made) <= MaxBranches
    BY <1>3, <1>4
  <1>6. GoodFrame(Depth, g)
    BY <1>2, <1>4, <1>5 DEF GoodFrame, Inside
  <1> QED  BY <1>6, Inner, TopSet

\* It goes on with the same branch.
LEMMA SameBranch ==
    ASSUME IInv, Depth > 0, Top.phase \in Inside, NEW x \in Inside,
           x # "exec" => Top.i <= Len(Top.active)
    PROVE  GoodStack([stack EXCEPT ![Depth].phase = x])
  <1> DEFINE g == [Top EXCEPT !.phase = x]
  <1>1. x \in Phases
    BY DEF Phases, Inside
  <1>2. g \in FrameType
    BY <1>1, Inner, WithPhase
  <1>3. /\ g.phase = x /\ g.node = Top.node /\ g.depth = Top.depth
        /\ g.made = Top.made /\ g.active = Top.active /\ g.i = Top.i
    BY Inner DEF FrameType
  <1>4. [stack EXCEPT ![Depth].phase = x] = [stack EXCEPT ![Depth] = g]
    BY DEF Top, Depth
  <1> HIDE DEF g
  <1>5. GoodFrame(Depth, Top)
    BY Inner
  <1>6. Len(Top.made) = Top.i - 1 /\ Top.i <= Len(Top.active) + 1
    BY <1>5 DEF GoodFrame
  <1>7. GoodStack([stack EXCEPT ![Depth] = g])
    BY <1>2, <1>3, <1>6, InsideGood
  <1> QED  BY <1>4, <1>7

LEMMA ExecStep == ASSUME IInv, Exec PROVE IInv'
  <1>1. Depth > 0 /\ Top.phase = "exec" /\ late = 0
    BY NotLate DEF Exec
  <1>2. CASE Top.i > Len(Top.active)
    <2>1. EndsOrGoesOn
      BY <1>1, <1>2, NextPhaseGood DEF Exec
    <2> QED  BY <1>1, <2>1, QuietStep DEF Exec
  <1>3. CASE ~(Top.i > Len(Top.active))
    <2>1. Top.i <= Len(Top.active)
      BY <1>1, <1>3, Numbers
    <2>2. GoodStack([stack EXCEPT ![Depth].phase = "template"])
      BY <1>1, <2>1, SameBranch DEF Inside
    <2>3. EndsOrGoesOn
      BY <1>3, <2>2 DEF Exec, EndsOrGoesOn
    <2> QED  BY <1>1, <2>3, QuietStep DEF Exec
  <1> QED  BY <1>2, <1>3

\* A command works on a branch that is there.
LEMMA BranchLeft ==
    ASSUME IInv, Depth > 0, Top.phase \in Inside \ {"exec"}
    PROVE  Top.i <= Len(Top.active)
  <1>1. GoodFrame(Depth, Top)
    BY Inner
  <1> QED  BY <1>1 DEF GoodFrame

LEMMA TemplateStep == ASSUME IInv, Template PROVE IInv'
  <1>1. Depth > 0 /\ Top.phase = "template" /\ late = 0
    BY NotLate DEF Template
  <1>2. GoodStack([stack EXCEPT ![Depth].phase = "command"])
    BY <1>1, BranchLeft, SameBranch DEF Inside
  <1>3. EndsOrGoesOn
    BY <1>2 DEF Template, EndsOrGoesOn
  <1> QED  BY <1>1, <1>3, QuietStep DEF Template

\* What a command makes of the branch it is given.
LEMMA ThroughBranch ==
    ASSUME IInv, Depth > 0, Top.phase \in {"command", "ran"}
    PROVE  Through(Top.active[Top.i], Top.node) \in Branch
  <1>1. Top.i <= Len(Top.active)
    BY BranchLeft DEF Inside
  <1>2. Top.active[Top.i] \in Branch
    BY <1>1, ActiveBranch
  <1>3. GoodFrame(Depth, Top)
    BY Inner
  <1>4. Top.node \in Nodes
    BY <1>3 DEF GoodFrame
  <1> QED  BY <1>2, <1>4 DEF Branch, Through

LEMMA RanStep == ASSUME IInv, Ran PROVE IInv'
  <1>1. Depth > 0 /\ Top.phase = "ran" /\ Working
    BY DEF Ran
  <1> DEFINE b == Through(Top.active[Top.i], Top.node)
             m == Append(Top.made, b)
             g == [Top EXCEPT !.phase = "exec", !.made = m, !.i = @ + 1]
  <1>2. GoodStack([stack EXCEPT ![Depth] = g])
    <2>1. b \in Branch
      BY <1>1, ThroughBranch
    <2>2. Top.made \in Seq(Branch) /\ Top.active \in Seq(Branch) /\ Top.i \in Nat
      BY <1>1, Inner
    <2>3. Top.i <= Len(Top.active) /\ GoodFrame(Depth, Top)
      BY <1>1, Inner, BranchLeft DEF Inside
    <2>4. Len(Top.made) = Top.i - 1
      BY <1>1, <2>3 DEF GoodFrame, Inside
    <2> HIDE DEF b
    <2>5. m \in Seq(Branch) /\ Len(m) = Len(Top.made) + 1
      BY <2>1, <2>2
    <2>6. Len(Top.active) \in Nat /\ Len(Top.made) \in Nat
      BY <2>2
    <2>7. Len(m) = (Top.i + 1) - 1 /\ Top.i + 1 <= Len(Top.active) + 1
      BY <2>2, <2>3, <2>4, <2>5, <2>6
    <2> HIDE DEF m
    <2>8. g \in FrameType
      BY <1>1, <2>5, Inner, NextItem DEF Phases
    <2>9. /\ g.phase = "exec" /\ g.node = Top.node /\ g.depth = Top.depth
          /\ g.active = Top.active /\ g.made = m /\ g.i = Top.i + 1
      BY <1>1, Inner DEF FrameType
    <2> HIDE DEF g
    <2> QED  BY <1>1, <2>7, <2>8, <2>9, InsideGood DEF Inside
  <1>3. /\ stop => Fail("stopped")
        /\ ~stop => Onward([stack EXCEPT ![Depth] = g])
    <2> HIDE DEF b
    <2>1. [stack EXCEPT ![Depth] =
             [@ EXCEPT !.phase = "exec", !.made = Append(Top.made, b), !.i = Top.i + 1]]
          = [stack EXCEPT ![Depth] = g]
      BY DEF Top, Depth
    <2> HIDE DEF g
    <2> QED  BY <2>1 DEF Ran, b
  <1> HIDE DEF g
  <1>4. EndsOrGoesOn
    BY <1>2, <1>3 DEF EndsOrGoesOn
  <1>5. late = 0 \/ status' # "none"
    BY <1>1, <1>3, NotLate DEF Fail
  <1> QED  BY <1>4, <1>5, QuietStep DEF Ran

\* A command begins.  After the stop it is the first to do so.
LEMMA CommandStep == ASSUME IInv, Command PROVE IInv'
  <1>1. /\ Depth > 0 /\ Top.phase = "command" /\ Working /\ late = 0 /\ Worker
        /\ told' = told
    BY NotLate DEF Command
  <1>2. ran' \in Seq(Branch)
    <2>1. ran \in Seq(Branch) /\ Through(Top.active[Top.i], Top.node) \in Branch
      BY <1>1, ThroughBranch DEF IInv, TypeOK
    <2> QED  BY <2>1 DEF Command
  <1>3. late' = IF stop THEN 1 ELSE 0
    BY <1>1 DEF Command
  <1>4. CASE Fail("error")
    <2>1. GoodStack(stack')
      BY <1>4, NoCalls DEF Fail
    <2>2. TypeOK'
      BY <1>1, <1>2, <1>3, <1>4, <2>1 DEF IInv, TypeOK, GoodStack, Worker, Fail
    <2>3. Looked'
      BY <1>1, <1>3, <1>4 DEF Looked, Worker, Fail
    <2>4. OneCallback'
      BY <1>1, <1>4 DEF IInv, OneCallback, Worker, Working, Fail
    <2> QED  BY <2>1, <2>2, <2>3, <2>4 DEF IInv
  <1>5. CASE Onward([stack EXCEPT ![Depth].phase = "ran"])
    <2>1. GoodStack(stack')
      <3>1. GoodStack([stack EXCEPT ![Depth].phase = "ran"])
        BY <1>1, BranchLeft, SameBranch DEF Inside
      <3> QED  BY <1>5, <3>1 DEF Onward
    <2>2. TypeOK'
      BY <1>1, <1>2, <1>3, <1>5, <2>1 DEF IInv, TypeOK, GoodStack, Worker, Onward
    <2>3. stack' # <<>> /\ Top'.phase = "ran"
      <3>1. /\ stack \in Seq(FrameType) /\ Depth \in 1..Len(stack)
            /\ stack[Depth] \in FrameType
        BY <1>1, Inner DEF IInv, TypeOK, Top, Depth
      <3>2. stack' = [stack EXCEPT ![Depth].phase = "ran"]
        BY <1>5 DEF Onward
      <3> DEFINE f == [stack[Depth] EXCEPT !.phase = "ran"]
      <3>3. f.phase = "ran"
        BY <3>1 DEF FrameType
      <3>4. stack' = [stack EXCEPT ![Depth] = f]
        BY <3>2
      <3> HIDE DEF f
      <3>5. Len(stack') = Len(stack) /\ stack'[Depth] = f
        BY <3>1, <3>4
      <3> QED  BY <3>1, <3>3, <3>5 DEF Top, Depth
    <2>4. Looked'
      BY <1>1, <1>3, <2>3 DEF Looked, Worker
    <2>5. OneCallback'
      BY <1>1, <1>5 DEF IInv, OneCallback, Worker, Working, Onward
    <2> QED  BY <2>1, <2>2, <2>4, <2>5 DEF IInv
  <1> QED  BY <1>4, <1>5 DEF Command

LEMMA LinkStep == ASSUME IInv, Link PROVE IInv'
  <1>1. /\ Depth > 0 /\ Top.phase = "links" /\ late = 0 /\ GoodStack(stack)
        /\ GoodFrame(Depth, Top) /\ Top \in FrameType /\ Depth \in Nat \ {0}
        /\ Top.depth = Depth - 2
    BY NotLate, Inner DEF Link
  <1> DEFINE target == flow.links[Top.node][Top.j]
             f == Frame("enter", target, <<Top.active[Top.i]>>, <<>>, Top.depth + 1)
             g == NextLink(Top)
             on == [stack EXCEPT ![Depth] = NextLink(@)]
  <1>2. ASSUME Top.i <= Len(Top.active), target \in Nodes
        PROVE  GoodStack(Call(on, f))
    <2> HIDE DEF target
    <2>1. g \in FrameType
      <3>1. [Top EXCEPT !.i = @ + 1] \in FrameType
        BY <1>1, NextIndex
      <3>2. CASE Top.j < Len(flow.links[Top.node])
        <4> DEFINE n == Top.j + 1
        <4>0. Top.j \in Nat \ {0}
          BY <1>1, Inner
        <4>1. n \in Nat \ {0}
          BY <4>0
        <4> HIDE DEF n
        <4>2. [Top EXCEPT !.j = n] \in FrameType
          BY <1>1, <4>1, WithJ
        <4> QED  BY <3>2, <4>2 DEF NextLink, n
      <3>3. CASE ~(Top.j < Len(flow.links[Top.node]))
        <4> DEFINE h == [Top EXCEPT !.i = @ + 1]
        <4> HIDE DEF h
        <4>1. [h EXCEPT !.j = 1] \in FrameType
          BY <3>1, One, WithJ DEF h
        <4>2. g = [h EXCEPT !.j = 1]
          BY <3>3 DEF NextLink, h
        <4> QED  BY <4>1, <4>2
      <3> QED  BY <3>2, <3>3
    <2>2. /\ g.phase = "links" /\ g.node = Top.node /\ g.depth = Top.depth
          /\ g.made = Top.made /\ g.active = Top.active
      BY <1>1 DEF NextLink, FrameType
    <2>3. on = [stack EXCEPT ![Depth] = g]
      BY DEF Top, Depth
    <2> HIDE DEF g, on
    <2>4. GoodFrame(Depth, g)
      BY <1>1, <2>2 DEF GoodFrame, Inside
    <2>5. GoodStack(on)
      BY <1>1, <2>1, <2>3, <2>4, TopSet
    <2>6. Len(on) = Depth /\ on[Depth] = g
      BY <1>1, <2>3 DEF Depth, GoodStack
    <2>7. f \in FrameType /\ GoodFrame(Depth + 1, f)
      <3>1. <<Top.active[Top.i]>> \in Seq(Branch) /\ Len(<<Top.active[Top.i]>>) = 1
        BY <1>1, <1>2, ActiveBranch
      <3>2. Top.depth <= MaxDepth
        BY <1>1 DEF GoodFrame
      <3>3. /\ Top.depth + 1 \in Int /\ Top.depth + 1 = (Depth + 1) - 2
            /\ Depth + 1 \in Nat \ {0} /\ Top.depth + 1 <= MaxDepth + 2 /\ 1 <= MaxBranches
        BY <1>1, <3>2, FlowAssumption
      <3>4. <<>> \in Seq(Branch) /\ Len(<<>>) <= MaxBranches
        BY FlowAssumption
      <3> QED  BY <1>2, <3>1, <3>3, <3>4, FrameGood
    <2> HIDE DEF f
    <2> QED  BY <2>2, <2>5, <2>6, <2>7, CallGood DEF Call, Calling
  <1>3. EndsOrGoesOn
    <2>1. CASE Top.i > Len(Top.active)
      <3>1. GoodStack(Front(stack))
        BY <1>1, Inner, ReturnGood
      <3> QED  BY <2>1, <3>1 DEF Link, EndsOrGoesOn
    <2>2. CASE ~(Top.i > Len(Top.active)) /\ (stop \/ target \notin Nodes)
      BY <2>2 DEF Link, EndsOrGoesOn
    <2>3. CASE ~(Top.i > Len(Top.active)) /\ ~stop /\ target \in Nodes
      <3>1. Top.i <= Len(Top.active)
        BY <1>1, <2>3, Numbers
      <3>2. Onward(Call(on, f))
        BY <2>3 DEF Link
      <3> HIDE DEF f, on, target
      <3> QED  BY <1>2, <2>3, <3>1, <3>2 DEF EndsOrGoesOn
    <2> QED  BY <2>1, <2>2, <2>3
  <1> QED  BY <1>1, <1>3, QuietStep DEF Link

LEMMA Joined ==
    ASSUME NEW a \in Seq(Branch), NEW b \in Seq(Branch)
    PROVE  a \o b \in Seq(Branch) /\ Len(a \o b) = Len(a) + Len(b) /\ Len(a \o b) \in Nat
  OBVIOUS

LEMMA NotMore ==
    ASSUME NEW a \in Nat, NEW b \in Nat, NEW c \in Nat, ~(a + b > c)
    PROVE  a + b <= c
  OBVIOUS

LEMMA SetNowhere ==
    ASSUME NEW s \in Seq(FrameType), NEW k, k \notin 1..Len(s), NEW e
    PROVE  [s EXCEPT ![k] = e] = s
  OBVIOUS

LEMMA LeafStep == ASSUME IInv, Leaf PROVE IInv'
  <1>1. /\ Depth > 0 /\ Top.phase = "links" /\ late = 0 /\ GoodStack(stack)
        /\ stack # <<>>
    BY NotLate, Inner DEF Leaf
  <1> DEFINE k == Owner
             t == [stack EXCEPT ![k].made = @ \o Top.active]
  <1>2. ASSUME ~(Len(stack[k].made) + Len(Top.active) > MaxBranches)
        PROVE  GoodStack(Front(t))
    <2> HIDE DEF k
    <2>1. GoodStack(t) /\ t # <<>>
      <3>1. CASE k \in 1..Len(stack)
        <4> DEFINE m == stack[k].made \o Top.active
                   g == [stack[k] EXCEPT !.made = m]
        <4>1. /\ stack[k] \in FrameType /\ GoodFrame(k, stack[k])
              /\ k < Len(stack) => stack[k].phase \in Calling
          BY <1>1, <3>1 DEF GoodStack
        <4>2. stack[k].phase \in Calling
          <5>1. CASE k < Len(stack)
            BY <4>1, <5>1
          <5>2. CASE ~(k < Len(stack))
            <6>1. k = Len(stack)
              BY <1>1, <3>1, <5>2 DEF GoodStack
            <6> QED  BY <1>1, <6>1 DEF Top, Calling
          <5> QED  BY <5>1, <5>2
        <4>3. stack[k].made \in Seq(Branch) /\ Top.active \in Seq(Branch)
          BY <1>1, <4>1, Inner, Fields
        <4>4. /\ m \in Seq(Branch) /\ Len(m) = Len(stack[k].made) + Len(Top.active)
              /\ Len(m) \in Nat
          BY <4>3, Joined
        <4> HIDE DEF m
        <4>5. Len(m) <= MaxBranches
          <5>1. /\ Len(stack[k].made) \in Nat /\ Len(Top.active) \in Nat
                /\ MaxBranches \in Nat
            BY <4>3, FlowAssumption
          <5>2. ~(Len(stack[k].made) + Len(Top.active) > MaxBranches)
            BY <1>2
          <5>3. Len(stack[k].made) + Len(Top.active) <= MaxBranches
            BY <5>1, <5>2, NotMore
          <5> QED  BY <4>4, <5>3
        <4>6. g \in FrameType
          BY <4>1, <4>4, WithMade
        <4>7. /\ g.phase = stack[k].phase /\ g.node = stack[k].node /\ g.made = m
              /\ g.depth = stack[k].depth /\ g.active = stack[k].active
          BY <4>1 DEF FrameType
        <4>8. t = [stack EXCEPT ![k] = g]
          BY DEF m
        <4> HIDE DEF g, t
        <4>9. GoodFrame(k, g)
          BY <4>1, <4>2, <4>5, <4>7 DEF GoodFrame, Inside, Calling
        <4>10. GoodStack(t)
          BY <1>1, <3>1, <4>2, <4>6, <4>7, <4>8, <4>9, SetGood
        <4>11. Len(t) = Len(stack) /\ Len(stack) > 0 /\ stack \in Seq(FrameType)
          BY <1>1, <4>8 DEF GoodStack
        <4>12. t # <<>>
          BY <4>11
        <4> QED  BY <4>10, <4>12
      <3>2. CASE k \notin 1..Len(stack)
        <4>1. stack \in Seq(FrameType)
          BY <1>1 DEF GoodStack
        <4> DEFINE e == [stack[k] EXCEPT !.made = stack[k].made \o Top.active]
        <4>2. t = [stack EXCEPT ![k] = e]
          OBVIOUS
        <4> HIDE DEF e, t
        <4>3. t = stack
          BY <3>2, <4>1, <4>2, SetNowhere
        <4> QED  BY <1>1, <4>3
      <3> QED  BY <3>1, <3>2
    <2> HIDE DEF t
    <2> QED  BY <2>1, ReturnGood
  <1>3. EndsOrGoesOn
    <2>1. CASE stop \/ Len(stack[k].made) + Len(Top.active) > MaxBranches
      BY <2>1 DEF Leaf, EndsOrGoesOn
    <2>2. CASE ~stop /\ ~(Len(stack[k].made) + Len(Top.active) > MaxBranches)
      <3>1. Onward(Front(t))
        BY <2>2 DEF Leaf
      <3> HIDE DEF t
      <3> QED  BY <1>2, <2>2, <3>1 DEF EndsOrGoesOn
    <2> QED  BY <2>1, <2>2
  <1> QED  BY <1>1, <1>3, QuietStep DEF Leaf

LEMMA LeaveStep == ASSUME IInv, Leave PROVE IInv'
  <1>1. /\ Depth > 0 /\ Top.phase = "entries" /\ late = 0 /\ GoodStack(stack)
        /\ stack # <<>> /\ Depth \in Nat \ {0} /\ GoodFrame(Depth, Top) /\ Working /\ Worker
        /\ Top.made \in Seq(Branch) /\ Quiet
    BY NotLate, Inner DEF Leave
  <1>2. CASE Depth = 1
    <2>1. status' = "ok" /\ output' = Top.made /\ stack' = <<>>
      BY <1>2 DEF Leave
    <2>2. GoodStack(stack')
      BY <2>1, NoCalls
    <2>3. TypeOK'
      BY <1>1, <2>1, <2>2 DEF IInv, TypeOK, GoodStack, Worker, Quiet
    <2>4. Looked'
      BY <1>1, <2>1 DEF Looked, Quiet
    <2>5. OneCallback'
      BY <1>1, <2>1 DEF IInv, OneCallback, Worker, Working, Quiet
    <2> QED  BY <2>2, <2>3, <2>4, <2>5 DEF IInv
  <1>3. CASE Depth # 1
    <2> DEFINE k == Depth - 1
               s == Front(stack)
               g == Returned(s[k], Top.made)
    <2>1. GoodStack(s) /\ Len(s) = Len(stack) - 1
      BY <1>1, ReturnGood
    <2>2. k \in 1..Len(s) /\ k \in 1..Len(stack) /\ k < Len(stack) /\ s[k] = stack[k]
      <3>1. k \in 1..Len(s) /\ k \in 1..Len(stack) /\ k < Len(stack)
        BY <1>1, <1>3, <2>1 DEF Depth
      <3>2. stack \in Seq(FrameType)
        BY <1>1 DEF GoodStack
      <3> HIDE DEF k
      <3>3. s[k] = stack[k]
        BY <2>1, <3>1, <3>2 DEF Front
      <3> QED  BY <3>1, <3>3
    <2> HIDE DEF k, s
    <2>3. /\ s[k] \in FrameType /\ GoodFrame(k, s[k]) /\ s[k].phase \in Calling
      BY <1>1, <2>1, <2>2 DEF GoodStack
    <2>4. g \in FrameType
      <3> DEFINE h == [s[k] EXCEPT !.made = Top.made]
      <3>1. h \in FrameType
        BY <1>1, <2>3, WithMade
      <3>2. g = [h EXCEPT !.i = @ + 1]
        BY DEF Returned
      <3> HIDE DEF h
      <3> QED  BY <3>1, <3>2, NextIndex
    <2>5. /\ g.phase = s[k].phase /\ g.node = s[k].node /\ g.made = Top.made
          /\ g.depth = s[k].depth /\ g.active = s[k].active
      BY <2>3 DEF Returned, FrameType
    <2> HIDE DEF g
    <2>6. Len(Top.made) <= MaxBranches
      BY <1>1 DEF GoodFrame
    <2>7. GoodFrame(k, g)
      BY <2>3, <2>5, <2>6 DEF GoodFrame, Inside, Calling
    <2>8. GoodStack([s EXCEPT ![k] = g])
      BY <2>1, <2>2, <2>3, <2>4, <2>5, <2>7, SetGood
    <2>9. Onward([s EXCEPT ![k] = g])
      BY <1>3 DEF Leave, s, k, g
    <2>10. EndsOrGoesOn
      BY <2>8, <2>9 DEF EndsOrGoesOn
    <2> QED  BY <1>1, <2>10, QuietStep
  <1> QED  BY <1>2, <1>3

-----------------------------------------------------------------------------
(* The rest of the worker, and the application. *)

LEMMA TellStep == ASSUME IInv, Tell PROVE IInv'
  <1>1. /\ stack' = stack /\ status' = status /\ output' = output /\ ran' = ran
        /\ late' = late /\ Worker /\ status # "none"
        /\ told' = <<[status |-> status, output |-> output]>>
    BY DEF Tell
  <1>2. TypeOK' /\ GoodStack(stack)'
    BY <1>1 DEF IInv, TypeOK, Worker
  <1>3. Looked'
    BY <1>1 DEF IInv, Looked, Worker
  <1>4. OneCallback'
    BY <1>1 DEF IInv, OneCallback, Worker
  <1> QED  BY <1>2, <1>3, <1>4 DEF IInv

\* Steps of the application and the end of the thread leave the work alone.
LEMMA OutsideStep ==
    ASSUME IInv, Run \/ Stop \/ Close \/ Closed \/ End PROVE IInv'
  <1>1. UNCHANGED workVars /\ flow' = flow
    BY DEF Run, Stop, Close, Closed, End
  <1>2. TypeOK' /\ GoodStack(stack)'
    BY <1>1 DEF IInv, TypeOK, Run, Stop, Close, Closed, End, workVars
  <1>3. stop => stop'
    BY DEF Run, Stop, Close, Closed, End
  <1>4. Looked'
    BY <1>1, <1>3 DEF IInv, Looked, TypeOK, workVars, Run, Stop, Close, Closed, End, Top
  <1>5. OneCallback'
    <2>1. CASE Run
      BY <2>1 DEF IInv, OneCallback, Run, workVars
    <2>2. CASE Stop
      BY <2>2 DEF IInv, OneCallback, Stop, workVars
    <2>3. CASE Close
      BY <2>3 DEF IInv, OneCallback, Close, workVars
    <2>4. CASE Closed
      BY <2>4 DEF IInv, OneCallback, Closed, workVars
    <2>5. CASE End
      BY <2>5 DEF IInv, OneCallback, End, workVars
    <2> QED  BY <2>1, <2>2, <2>3, <2>4, <2>5
  <1> QED  BY <1>2, <1>4, <1>5 DEF IInv

LEMMA InitIInv == Init => IInv
  <1> SUFFICES ASSUME Init PROVE IInv
    OBVIOUS
  <1>0. <<>> \in Seq(FrameType) /\ <<>> \in Seq(Branch) /\ 0 \in Nat
    OBVIOUS
  <1>1. TypeOK
    BY <1>0 DEF Init, TypeOK
  <1>2. GoodStack(stack)
    BY NoCalls DEF Init
  <1>3. Looked /\ OneCallback
    BY DEF Init, Looked, OneCallback
  <1> QED  BY <1>1, <1>2, <1>3 DEF IInv

LEMMA NextIInv == IInv /\ [Next]_vars => IInv'
  <1> SUFFICES ASSUME IInv, [Next]_vars PROVE IInv'
    OBVIOUS
  <1>1. CASE UNCHANGED vars
    BY <1>1 DEF IInv, TypeOK, Looked, OneCallback, vars, workVars, Top
  <1>2. CASE Run \/ Stop \/ Close \/ Closed \/ End
    BY <1>2, OutsideStep
  <1>3. CASE Load \/ Entry \/ Leave \/ Enter \/ Import
    BY <1>3, LoadStep, EntryStep, LeaveStep, EnterStep, ImportStep
  <1>4. CASE Exec \/ Template \/ Command \/ Ran \/ Link \/ Leaf \/ Tell
    BY <1>4, ExecStep, TemplateStep, CommandStep, RanStep, LinkStep, LeafStep, TellStep
  <1> QED  BY <1>1, <1>2, <1>3, <1>4 DEF Next, Step

-----------------------------------------------------------------------------
(* The theorems. *)

\* Every reachable state satisfies the invariant: each call of the worker has
\* its depth and its branches, and the stop, the callback and the release of the
\* run agree (kc_flow_run_loaded to kc_flow_run_close).
THEOREM Inductive == Spec => []IInv
  BY InitIInv, NextIInv, PTL DEF Spec

\* Every variable, the frames of the recursion included, has its type.
THEOREM TypeCorrect == Spec => []TypeOK
  <1>1. IInv => TypeOK
    BY DEF IInv
  <1> QED  BY <1>1, Inductive, PTL

\* At most one command begins once the run is asked to stop, whatever the flow
\* and wherever in it the request comes.
THEOREM StopsSoonAlways == Spec => []StopsSoon
  <1>1. IInv => StopsSoon
    <2> SUFFICES ASSUME IInv PROVE StopsSoon
      OBVIOUS
    <2>1. late \in Nat /\ (late > 0 => late = 1)
      BY DEF IInv, TypeOK, Looked
    <2> QED  BY <2>1 DEF StopsSoon
  <1> QED  BY <1>1, Inductive, PTL

\* The recursion over nodes and child flows stays within MaxDepth + 4 calls, a
\* flow that leads back to itself included, and no collection of branches grows
\* past KC_FLOW_MAX_BRANCHES.
THEOREM BoundedAlways == Spec => []Bounded
  <1>1. IInv => Bounded
    <2> SUFFICES ASSUME IInv PROVE Bounded
      OBVIOUS
    <2>1. ASSUME NEW k \in 1..Depth
          PROVE  /\ Len(stack[k].made) <= MaxBranches
                 /\ Len(stack[k].active) <= MaxBranches
      BY DEF IInv, GoodStack, GoodFrame, Depth
    <2>2. Depth <= MaxDepth + 4
      <3>1. Depth \in Nat
        BY DEF IInv, TypeOK, Depth
      <3>2. CASE Depth = 0
        BY <3>2, FlowAssumption
      <3>3. CASE Depth > 0
        <4>1. GoodFrame(Depth, Top) /\ Top.depth = Depth - 2
          BY <3>3, Inner
        <4>2. Top.depth <= MaxDepth \/ Top.depth <= MaxDepth + 1 \/ Top.depth <= MaxDepth + 2
          BY <4>1 DEF GoodFrame
        <4> QED  BY <3>1, <4>1, <4>2, FlowAssumption
      <3> QED  BY <3>1, <3>2, <3>3
    <2> QED  BY <2>1, <2>2 DEF Bounded
  <1> QED  BY <1>1, Inductive, PTL

\* The handler is called once at most and with the status and output the run
\* ended with, never a stop nobody asked for; the thread ends behind it and the
\* run is released behind the thread.
THEOREM CalledOnce ==
    Spec => [](/\ told \in {<<>>, <<[status |-> status, output |-> output]>>}
               /\ app = "closed" => thread = "over" /\ told # <<>>
               /\ status = "stopped" => stop
               /\ status # "ok" => output = <<>>)
  <1>1. OneCallback => /\ told \in {<<>>, <<[status |-> status, output |-> output]>>}
                       /\ app = "closed" => thread = "over" /\ told # <<>>
                       /\ status = "stopped" => stop
                       /\ status # "ok" => output = <<>>
    BY DEF OneCallback
  <1>2. IInv => OneCallback
    BY DEF IInv
  <1> QED  BY <1>1, <1>2, Inductive, PTL

-----------------------------------------------------------------------------
(* What is left of a run: the meaning of the calls that are still on the stack. *)

\* What a flow, a node or a part of one may come to.
Result == [ok : BOOLEAN, outs : Seq(Branch), trace : Seq(Branch)]

\* Each of the parts behind what a branch went through before.
BehindAll(b, parts) == [k \in DOMAIN parts |-> Behind(b, parts[k])]

\* Frame o collects the output of frame k.
Owns(s, o, k) ==
    /\ o \in 1..k /\ s[o].phase = "entries"
    /\ \A l \in o + 1..k : s[l].phase # "entries"
\* The frame that collects the output of frame k.
OwnerOf(s, k) == CHOOSE o \in 1..k : Owns(s, o, k)

\* The targets of the entries in frame k.
TargetsAt(f, s, k) == IF k = 1 THEN f.entries ELSE f.child[s[k].node]

\* What is left of a call, by its phase, where m is what the nodes mean.
LeftToEnter(fr, m) == Behind(fr.active[1], m[fr.depth][fr.node])
LeftToImport(f, fr, m) ==
    AfterImported(f, fr.node,
        IF fr.i = 1 THEN Behind(fr.active[1], Imported(f, fr.node, m[fr.depth + 2]))
        ELSE Begun(fr.made, <<>>), m[fr.depth + 1])
LeftToExec(f, fr, made, i, m) ==
    AndLinks(f, fr.node,
        AndThen(Begun(made, <<>>), InTurnFrom(Commands(f, fr.node, fr.active), i)),
        m[fr.depth + 1])
LeftToLink(f, fr, m) ==
    IF f.links[fr.node] = <<>> THEN Begun(fr.active, <<>>)
    ELSE IF fr.i > Len(fr.active) THEN Nothing
    ELSE AndThen(InTurnFrom(BehindAll(fr.active[fr.i],
                                      AllOf(f.links[fr.node], m[fr.depth + 1])), fr.j),
                 InTurnFrom(Links(f, fr.node, fr.active, m[fr.depth + 1]), fr.i + 1))

Left(f, fr, m) ==
    IF fr.phase = "enter" THEN LeftToEnter(fr, m)
    ELSE IF fr.phase = "import" THEN LeftToImport(f, fr, m)
    ELSE IF fr.phase = "ran"
         THEN LeftToExec(f, fr, Append(fr.made, Through(fr.active[fr.i], fr.node)), fr.i + 1, m)
    ELSE IF fr.phase \in Inside THEN LeftToExec(f, fr, fr.made, fr.i, m)
    ELSE LeftToLink(f, fr, m)

\* What the run comes to once frame k is through, where it has come to r once
\* the frames above are.
Resumed(f, s, k, r, m) ==
    IF s[k].phase = "entries"
    THEN Within(AndThen(r, InTurnFrom(
            BehindAll(s[k].active[1], AllOf(TargetsAt(f, s, k), m[s[k].depth + 1])), s[k].i)))
    ELSE IF s[k].phase = "import" /\ k < Len(s)
    THEN AndThen(Begun(s[OwnerOf(s, k)].made, <<>>),
                 AfterImported(f, s[k].node, r, m[s[k].depth + 1]))
    ELSE AndThen(r, Left(f, s[k], m))

\* C[k] is what the run comes to once the frames from k on are through; with nothing
\* left it is what was made, behind the commands tr, and with all it is the flow.
Follows(f, s, tr, C, m) ==
    /\ C \in [1..Len(s) + 1 -> Result]
    /\ C[Len(s) + 1] = Begun(s[OwnerOf(s, Len(s))].made, tr)
    /\ \A k \in 1..Len(s) : C[k] = Resumed(f, s, k, C[k + 1], m)
    /\ C[1] = Meaning(f)

\* What every frame k is like besides: which calls wait for which.
ShapedFrame(f, s, k) ==
    /\ s[k].phase = "entries" <=> (k = 1 \/ s[k - 1].phase = "import")
    /\ k > 1 => s[k].node \in Nodes
    /\ s[k].phase # "links" => s[k].j = 1
    /\ s[k].phase \in {"entries", "enter", "import"} => Len(s[k].active) = 1
    /\ s[k].phase = "import" =>
         /\ f.child[s[k].node] # <<>>
         /\ (s[k].i = 1 /\ s[k].made = <<>>) \/ (s[k].i = 2 /\ k = Len(s))
    /\ s[k].phase \in Inside => s[k].node \in f.execs
    /\ (s[k].phase = "links" /\ f.links[s[k].node] # <<>>) => s[k].j <= Len(f.links[s[k].node])
Shaped(f, s) == \A k \in 1..Len(s) : ShapedFrame(f, s, k)

-----------------------------------------------------------------------------
(* Induction over the naturals, sequences and results. *)

\* Induction over the naturals, as a fact about sets of them.
LEMMA AllNaturals ==
    ASSUME NEW T, T \subseteq Nat, 0 \in T, \A n \in T : n + 1 \in T
    PROVE  T = Nat
  <1> SUFFICES ASSUME Nat \ T # {} PROVE FALSE
    OBVIOUS
  <1> DEFINE R == OpToRel(<, Nat)
  <1>1. IsWellFoundedOn(R, Nat)
    BY NatLessThanWellFounded
  <1>2. PICK n \in Nat \ T : \A y \in Nat \ T : ~(<<y, n>> \in R)
    <2> HIDE DEF R
    <2>1. Nat \ T \subseteq Nat
      OBVIOUS
    <2> QED  BY <1>1, <2>1, WFMin
  <1>3. n # 0
    OBVIOUS
  <1>4. n - 1 \in Nat /\ n - 1 < n /\ (n - 1) + 1 = n
    BY <1>3
  <1>5. n - 1 \notin T
    BY <1>4
  <1>6. <<n - 1, n>> \in R
    BY <1>4 DEF OpToRel
  <1> QED  BY <1>2, <1>4, <1>5, <1>6

\* From the end of a count down to its beginning.
LEMMA Downward ==
    ASSUME NEW N \in Nat, NEW T, N \in T, \A n \in 1..N : n \in T => n - 1 \in T
    PROVE  \A n \in 0..N : n \in T
  <1> DEFINE U == {k \in Nat : k <= N => N - k \in T}
  <1>1. 0 \in U
    OBVIOUS
  <1>2. ASSUME NEW k \in U PROVE k + 1 \in U
    <2>1. k \in Nat /\ (k <= N => N - k \in T)
      BY <1>2
    <2>2. CASE k + 1 <= N
      <3>1. N - k \in 1..N /\ (N - k) - 1 = N - (k + 1) /\ k <= N
        BY <2>1, <2>2
      <3>2. N - (k + 1) \in T
        BY <2>1, <3>1
      <3> QED  BY <2>1, <3>2
    <2>3. CASE ~(k + 1 <= N)
      BY <2>1, <2>3
    <2> QED  BY <2>2, <2>3
  <1>3. U = Nat
    <2>1. U \subseteq Nat
      OBVIOUS
    <2> HIDE DEF U
    <2> QED  BY <1>1, <1>2, <2>1, AllNaturals
  <1>4. ASSUME NEW n \in 0..N PROVE n \in T
    <2>1. N - n \in Nat /\ N - n <= N /\ N - (N - n) = n
      OBVIOUS
    <2>2. N - n \in U
      BY <1>3, <2>1
    <2> QED  BY <2>1, <2>2
  <1> QED  BY <1>4

-----------------------------------------------------------------------------
(* Sequences. *)

\* Sequences: equality, and joining them.
LEMMA SameSeq ==
    ASSUME NEW S, NEW a \in Seq(S), NEW b \in Seq(S), Len(a) = Len(b),
           \A k \in 1..Len(a) : a[k] = b[k]
    PROVE  a = b
  OBVIOUS

LEMMA JoinType ==
    ASSUME NEW S, NEW a \in Seq(S), NEW b \in Seq(S)
    PROVE  /\ a \o b \in Seq(S) /\ Len(a \o b) = Len(a) + Len(b) /\ Len(a) \in Nat
           /\ Len(b) \in Nat
           /\ \A k \in 1..Len(a) + Len(b) :
                (a \o b)[k] = IF k <= Len(a) THEN a[k] ELSE b[k - Len(a)]
           /\ <<>> \o a = a /\ a \o <<>> = a
  OBVIOUS

LEMMA JoinAssoc ==
    ASSUME NEW S, NEW a \in Seq(S), NEW b \in Seq(S), NEW c \in Seq(S)
    PROVE  (a \o b) \o c = a \o (b \o c)
  <1> DEFINE l == (a \o b) \o c
             r == a \o (b \o c)
  <1>1. l \in Seq(S) /\ r \in Seq(S) /\ Len(l) = Len(r)
    BY JoinType
  <1>2. ASSUME NEW k \in 1..Len(l) PROVE l[k] = r[k]
    <2>1. a \o b \in Seq(S) /\ b \o c \in Seq(S)
      BY JoinType
    <2>2. Len(a) \in Nat /\ Len(b) \in Nat /\ Len(c) \in Nat
      OBVIOUS
    <2>3. Len(a \o b) = Len(a) + Len(b) /\ Len(b \o c) = Len(b) + Len(c)
      BY JoinType
    <2>4. Len(l) = Len(a) + Len(b) + Len(c)
      BY <2>1, <2>3, JoinType
    <2>5. CASE k <= Len(a)
      BY <2>1, <2>2, <2>3, <2>4, <2>5
    <2>6. CASE k > Len(a) /\ k <= Len(a) + Len(b)
      BY <2>1, <2>2, <2>3, <2>4, <2>6
    <2>7. CASE k > Len(a) + Len(b)
      BY <2>1, <2>2, <2>3, <2>4, <2>7
    <2> QED  BY <2>2, <2>5, <2>6, <2>7
  <1> HIDE DEF l, r
  <1>3. l = r  BY <1>1, <1>2, SameSeq
  <1> QED  BY <1>3 DEF l, r

-----------------------------------------------------------------------------
(* Results one after the other. *)

\* The fields of a result, and what is one.
LEMMA ResultFields ==
    ASSUME NEW r \in Result
    PROVE  /\ r.ok \in BOOLEAN /\ r.outs \in Seq(Branch) /\ r.trace \in Seq(Branch)
           /\ r = [ok |-> r.ok, outs |-> r.outs, trace |-> r.trace]
           /\ Len(r.outs) \in Nat /\ Len(r.trace) \in Nat
  BY DEF Result

\* Results.
LEMMA SameResult ==
    ASSUME NEW r \in Result, NEW s \in Result,
           r.ok = s.ok, r.outs = s.outs, r.trace = s.trace
    PROVE  r = s
  BY ResultFields

LEMMA BegunType ==
    ASSUME NEW a \in Seq(Branch), NEW b \in Seq(Branch)
    PROVE  /\ Begun(a, b) \in Result
           /\ Begun(a, b).ok = TRUE /\ Begun(a, b).outs = a /\ Begun(a, b).trace = b
  BY DEF Begun, Result

LEMMA SmallResults ==
    /\ Nothing \in Result /\ Nothing.ok = TRUE /\ Nothing.outs = <<>> /\ Nothing.trace = <<>>
    /\ Broken \in Result /\ Broken.ok = FALSE /\ Broken.outs = <<>> /\ Broken.trace = <<>>
    /\ Nothing = Begun(<<>>, <<>>)
    /\ \A b \in Branch : /\ Just(b) \in Result /\ Just(b) = Begun(<<b>>, <<>>)
                         /\ Just(b).ok = TRUE /\ Just(b).outs = <<b>> /\ Just(b).trace = <<>>
  BY DEF Nothing, Broken, Just, Begun, Result

\* Collections of branches, one after the other.
LEMMA JoinBranches ==
    ASSUME NEW a \in Seq(Branch), NEW b \in Seq(Branch), NEW c \in Seq(Branch)
    PROVE  /\ a \o b \in Seq(Branch) /\ (a \o b) \o c = a \o (b \o c)
           /\ <<>> \o a = a /\ a \o <<>> = a
  <1>1. a \o b \in Seq(Branch) /\ <<>> \o a = a /\ a \o <<>> = a
    BY JoinType
  <1>2. (a \o b) \o c = a \o (b \o c)
    BY JoinAssoc
  <1> QED  BY <1>1, <1>2

\* AndThen is associative, and Nothing is neutral.
LEMMA AndThenFields ==
    ASSUME NEW r \in Result, NEW s \in Result
    PROVE  /\ AndThen(r, s) \in Result
           /\ AndThen(r, s).ok <=> (r.ok /\ s.ok)
           /\ r.ok => /\ AndThen(r, s).outs = r.outs \o s.outs
                      /\ AndThen(r, s).trace = r.trace \o s.trace
           /\ ~r.ok => AndThen(r, s) = r
  <1>1. CASE ~r.ok
    BY <1>1 DEF AndThen
  <1>2. CASE r.ok
    <2>1. r.outs \o s.outs \in Seq(Branch) /\ r.trace \o s.trace \in Seq(Branch)
      BY ResultFields, JoinType
    <2>2. s.ok \in BOOLEAN
      BY ResultFields
    <2> DEFINE t == [ok |-> s.ok, outs |-> r.outs \o s.outs, trace |-> r.trace \o s.trace]
    <2>3. AndThen(r, s) = t
      BY <1>2 DEF AndThen
    <2>4. t \in Result
      BY <2>1, <2>2 DEF Result
    <2>5. t.ok <=> s.ok
      OBVIOUS
    <2>6. t.outs = r.outs \o s.outs /\ t.trace = r.trace \o s.trace
      OBVIOUS
    <2> HIDE DEF t
    <2> QED  BY <1>2, <2>3, <2>4, <2>5, <2>6
  <1> QED  BY <1>1, <1>2

LEMMA AndThenAssoc ==
    ASSUME NEW r \in Result, NEW s \in Result, NEW t \in Result
    PROVE  AndThen(AndThen(r, s), t) = AndThen(r, AndThen(s, t))
  <1>1. CASE ~r.ok
    BY <1>1 DEF AndThen
  <1>2. CASE r.ok /\ ~s.ok
    <2>1. AndThen(s, t) = s
      BY <1>2 DEF AndThen
    <2>2. AndThen(r, s) \in Result /\ ~AndThen(r, s).ok
      BY <1>2, AndThenFields
    <2>3. AndThen(AndThen(r, s), t) = AndThen(r, s)
      BY <2>2 DEF AndThen
    <2> QED  BY <2>1, <2>3
  <1>3. CASE r.ok /\ s.ok
    <2>1. \A a, b, c \in Seq(Branch) : (a \o b) \o c = a \o (b \o c)
      BY JoinBranches
    <2>2. (r.outs \o s.outs) \o t.outs = r.outs \o (s.outs \o t.outs)
      <3>1. r.outs \in Seq(Branch) /\ s.outs \in Seq(Branch) /\ t.outs \in Seq(Branch)
        BY ResultFields
      <3> QED  BY <2>1, <3>1, Zenon
    <2>3. (r.trace \o s.trace) \o t.trace = r.trace \o (s.trace \o t.trace)
      <3>1. r.trace \in Seq(Branch) /\ s.trace \in Seq(Branch) /\ t.trace \in Seq(Branch)
        BY ResultFields
      <3> QED  BY <2>1, <3>1, Zenon
    <2> QED  BY <1>3, <2>2, <2>3 DEF AndThen
  <1> QED  BY <1>1, <1>2, <1>3

LEMMA AndNothing ==
    ASSUME NEW r \in Result
    PROVE  AndThen(r, Nothing) = r /\ AndThen(Nothing, r) = r
  <1>1. /\ r.outs \o <<>> = r.outs /\ <<>> \o r.outs = r.outs
        /\ r.trace \o <<>> = r.trace /\ <<>> \o r.trace = r.trace
    BY ResultFields, JoinBranches
  <1>2. r = [ok |-> r.ok, outs |-> r.outs, trace |-> r.trace] /\ r.ok \in BOOLEAN
    BY ResultFields
  <1>3. AndThen(Nothing, r) = r
    BY <1>1, <1>2 DEF AndThen, Nothing, Begun
  <1>4. AndThen(r, Nothing) = r
    <2>1. CASE r.ok
      <3>1. AndThen(r, Nothing) = [ok |-> TRUE, outs |-> r.outs, trace |-> r.trace]
        BY <1>1, <2>1 DEF AndThen, Nothing, Begun
      <3>2. r.ok = TRUE
        BY <1>2, <2>1
      <3> QED  BY <1>2, <3>1, <3>2
    <2>2. CASE ~r.ok
      BY <2>2 DEF AndThen
    <2> QED  BY <2>1, <2>2
  <1> QED  BY <1>3, <1>4

\* Results that have begun, one after the other.
LEMMA BegunThen ==
    ASSUME NEW a \in Seq(Branch), NEW b \in Seq(Branch),
           NEW c \in Seq(Branch), NEW d \in Seq(Branch)
    PROVE  AndThen(Begun(a, b), Begun(c, d)) = Begun(a \o c, b \o d)
  BY DEF Begun, AndThen

-----------------------------------------------------------------------------
(* Parts in turn: what the recursion of InTurnFrom computes. *)

\* One step of InTurnFrom.
FromStep(parts, g, k) ==
    IF k \in DOMAIN parts THEN AndThen(parts[k], g[k + 1]) ELSE Nothing

\* The recursion has a solution: it is made from the last part on.
LEMMA FromExists ==
    ASSUME NEW parts \in Seq(Result)
    PROVE  \E g \in [Nat -> Result] : g = [k \in Nat |-> FromStep(parts, g, k)]
  <1> DEFINE N == Len(parts)
             Past(g, n) == \A k \in Nat : k > n => g[k] = FromStep(parts, g, k)
             T == {n \in Nat : \E g \in [Nat -> Result] : Past(g, n)}
  <1>0. N \in Nat /\ DOMAIN parts = 1..N /\ \A k \in 1..N : parts[k] \in Result
    OBVIOUS
  <1>1. N \in T
    <2> DEFINE g == [k \in Nat |-> Nothing]
    <2>1. g \in [Nat -> Result]
      BY SmallResults
    <2>2. ASSUME NEW k \in Nat, k > N PROVE g[k] = FromStep(parts, g, k)
      <3>1. k \notin DOMAIN parts
        BY <1>0, <2>2
      <3> QED  BY <3>1 DEF FromStep
    <2> HIDE DEF g
    <2>3. Past(g, N)
      BY <2>2
    <2> HIDE DEF Past
    <2> QED  BY <1>0, <2>1, <2>3
  <1>2. ASSUME NEW n \in 1..N, n \in T PROVE n - 1 \in T
    <2>1. PICK g \in [Nat -> Result] : Past(g, n)
      BY <1>2
    <2>2. n \in Nat /\ n - 1 \in Nat
      BY <1>0
    <2> DEFINE v == FromStep(parts, g, n)
               h == [g EXCEPT ![n] = v]
    <2>3. v \in Result
      <3>1. g[n + 1] \in Result /\ parts[n] \in Result
        BY <1>0, <2>2
      <3>2. v = AndThen(parts[n], g[n + 1])
        BY <1>0 DEF FromStep
      <3> HIDE DEF v
      <3> QED  BY <3>1, <3>2, AndThenFields
    <2> HIDE DEF v
    <2>4. h \in [Nat -> Result]
      BY <2>3
    <2>5. ASSUME NEW k \in Nat, k > n - 1 PROVE h[k] = FromStep(parts, h, k)
      <3>1. k + 1 # n /\ k + 1 \in Nat
        BY <2>2, <2>5
      <3>2. h[k + 1] = g[k + 1]
        BY <3>1
      <3>3. FromStep(parts, h, k) = FromStep(parts, g, k)
        BY <3>2 DEF FromStep
      <3>4. CASE k = n
        BY <2>2, <3>3, <3>4 DEF v
      <3>5. CASE k # n
        <4>1. k > n
          BY <2>2, <2>5, <3>5
        <4>2. h[k] = g[k]
          BY <3>5
        <4> QED  BY <2>1, <3>3, <4>1, <4>2
      <3> QED  BY <3>4, <3>5
    <2> HIDE DEF h
    <2>6. Past(h, n - 1)
      BY <2>5
    <2> HIDE DEF Past
    <2> QED  BY <2>2, <2>4, <2>6
  <1>3. 0 \in T
    <2> HIDE DEF T
    <2> QED  BY <1>0, <1>1, <1>2, Downward
  <1>4. PICK g \in [Nat -> Result] : Past(g, 0)
    BY <1>3
  <1> DEFINE h == [g EXCEPT ![0] = Nothing]
  <1>5. h \in [Nat -> Result]
    BY SmallResults
  <1>6. ASSUME NEW k \in Nat PROVE h[k] = FromStep(parts, h, k)
    <2>1. CASE k = 0
      <3>1. 0 \notin DOMAIN parts
        BY <1>0
      <3>2. h[0] = Nothing
        OBVIOUS
      <3> QED  BY <2>1, <3>1, <3>2 DEF FromStep
    <2>2. CASE k # 0
      <3>1. k > 0 /\ k + 1 # 0 /\ k + 1 \in Nat
        BY <2>2
      <3>2. h[k] = g[k] /\ h[k + 1] = g[k + 1]
        BY <2>2, <3>1
      <3>3. FromStep(parts, h, k) = FromStep(parts, g, k)
        BY <3>2 DEF FromStep
      <3> QED  BY <1>4, <3>1, <3>2, <3>3
    <2> QED  BY <2>1, <2>2
  <1> HIDE DEF h
  <1>7. h = [k \in Nat |-> FromStep(parts, h, k)]
    BY <1>5, <1>6
  <1> QED  BY <1>5, <1>7

\* One part, and the parts behind it.
LEMMA InTurnStep ==
    ASSUME NEW parts \in Seq(Result), NEW i \in Nat
    PROVE  InTurnFrom(parts, i) =
             IF i \in 1..Len(parts) THEN AndThen(parts[i], InTurnFrom(parts, i + 1))
             ELSE Nothing
  <1> DEFINE g == CHOOSE from : from =
                [k \in Nat |-> IF k \in DOMAIN parts THEN AndThen(parts[k], from[k + 1])
                               ELSE Nothing]
  <1>1. \A j : InTurnFrom(parts, j) = g[j]
    BY DEF InTurnFrom
  <1>2. g = [k \in Nat |-> IF k \in DOMAIN parts THEN AndThen(parts[k], g[k + 1])
                           ELSE Nothing]
    <2>1. \E h : h = [k \in Nat |-> IF k \in DOMAIN parts THEN AndThen(parts[k], h[k + 1])
                                    ELSE Nothing]
      BY FromExists DEF FromStep
    <2> QED  BY <2>1
  <1> HIDE DEF g
  <1>3. g[i] = IF i \in DOMAIN parts THEN AndThen(parts[i], g[i + 1]) ELSE Nothing
    BY <1>2
  <1>4. DOMAIN parts = 1..Len(parts)
    OBVIOUS
  <1> QED  BY <1>1, <1>3, <1>4

LEMMA InTurnType ==
    ASSUME NEW parts \in Seq(Result), NEW i \in Nat
    PROVE  InTurnFrom(parts, i) \in Result
  <1> DEFINE N == Len(parts)
             T == {n \in Nat : InTurnFrom(parts, n + 1) \in Result}
  <1>0. N \in Nat /\ \A k \in 1..N : parts[k] \in Result
    OBVIOUS
  <1>1. N \in T
    <2>1. N + 1 \in Nat /\ N + 1 \notin 1..N
      BY <1>0
    <2>2. InTurnFrom(parts, N + 1) = Nothing
      BY <2>1, InTurnStep
    <2> QED  BY <1>0, <2>2, SmallResults
  <1>2. ASSUME NEW n \in 1..N, n \in T PROVE n - 1 \in T
    <2>1. n \in Nat /\ n - 1 \in Nat /\ (n - 1) + 1 = n
      BY <1>0
    <2>2. InTurnFrom(parts, n) = AndThen(parts[n], InTurnFrom(parts, n + 1))
      BY <2>1, InTurnStep
    <2>3. InTurnFrom(parts, n) \in Result
      BY <1>0, <1>2, <2>2, AndThenFields
    <2> QED  BY <2>1, <2>3
  <1>3. \A n \in 0..N : n \in T
    <2> HIDE DEF T
    <2> QED  BY <1>0, <1>1, <1>2, Downward
  <1>4. CASE i \in 1..N
    <2>1. i - 1 \in 0..N /\ (i - 1) + 1 = i
      BY <1>0, <1>4
    <2> QED  BY <1>3, <2>1
  <1>5. CASE i \notin 1..N
    BY <1>5, InTurnStep, SmallResults
  <1> QED  BY <1>4, <1>5

\* Parts that take the same place one by one give the same in turn.  What is left
\* of the parts a and of the parts b is compared from the end.
LEMMA InTurnOf ==
    ASSUME NEW bs \in Seq(Branch), NEW parts \in Seq(Result), Len(parts) = Len(bs),
           \A k \in 1..Len(bs) : parts[k] = Just(bs[k])
    PROVE  InTurn(parts) = Begun(bs, <<>>)
  <1> DEFINE N == Len(bs)
             T == {n \in Nat : InTurnFrom(parts, n + 1) = Begun(SubSeq(bs, n + 1, N), <<>>)}
  <1>0. N \in Nat /\ \A k \in 1..N : bs[k] \in Branch
    OBVIOUS
  <1>1. N \in T
    <2>1. N + 1 \in Nat /\ N + 1 \notin 1..N
      BY <1>0
    <2>2. InTurnFrom(parts, N + 1) = Nothing
      BY <2>1, InTurnStep
    <2>3. SubSeq(bs, N + 1, N) = <<>>
      BY <1>0
    <2> QED  BY <1>0, <2>2, <2>3, SmallResults
  <1>2. ASSUME NEW n \in 1..N, n \in T PROVE n - 1 \in T
    <2>1. n \in Nat /\ n - 1 \in Nat /\ (n - 1) + 1 = n
      BY <1>0
    <2>2. InTurnFrom(parts, n) = AndThen(parts[n], InTurnFrom(parts, n + 1))
      BY <2>1, InTurnStep
    <2>3. InTurnFrom(parts, n + 1) = Begun(SubSeq(bs, n + 1, N), <<>>)
      BY <1>2
    <2>4. parts[n] = Begun(<<bs[n]>>, <<>>) /\ bs[n] \in Branch
      BY <1>0, SmallResults
    <2>5. SubSeq(bs, n + 1, N) \in Seq(Branch) /\ <<bs[n]>> \in Seq(Branch)
      BY <1>0, <2>1
    <2>6. <<bs[n]>> \o SubSeq(bs, n + 1, N) = SubSeq(bs, n, N)
      <3> DEFINE l == <<bs[n]>> \o SubSeq(bs, n + 1, N)
                 r == SubSeq(bs, n, N)
      <3>1. l \in Seq(Branch) /\ r \in Seq(Branch)
        BY <1>0, <2>1, <2>5
      <3>2. Len(l) = N - n + 1 /\ Len(r) = N - n + 1
        BY <1>0, <2>1, <2>5
      <3>3. ASSUME NEW k \in 1..Len(l) PROVE l[k] = r[k]
        BY <1>0, <2>1, <2>5, <3>2, <3>3
      <3> HIDE DEF l, r
      <3>4. l = r
        BY <3>1, <3>2, <3>3, SameSeq
      <3> QED  BY <3>4 DEF l, r
    <2>7. InTurnFrom(parts, n) = Begun(SubSeq(bs, n, N), <<>>)
      <3>1. <<>> \in Seq(Branch) /\ <<>> \o <<>> = <<>>
        OBVIOUS
      <3>2. PICK a, c, e \in Seq(Branch) :
                /\ a = <<bs[n]>> /\ c = SubSeq(bs, n + 1, N) /\ e = <<>>
        BY <2>5, <3>1
      <3>3. AndThen(Begun(a, e), Begun(c, e)) = Begun(a \o c, e \o e)
        BY ONLY a \in Seq(Branch), c \in Seq(Branch), e \in Seq(Branch), BegunThen
      <3>4. AndThen(Begun(<<bs[n]>>, <<>>), Begun(SubSeq(bs, n + 1, N), <<>>))
              = Begun(<<bs[n]>> \o SubSeq(bs, n + 1, N), <<>>)
        BY <3>1, <3>2, <3>3
      <3> QED  BY <2>2, <2>3, <2>4, <2>6, <3>1, <3>4
    <2> QED  BY <2>1, <2>7
  <1>3. 0 \in T
    <2> HIDE DEF T
    <2> QED  BY <1>0, <1>1, <1>2, Downward
  <1>4. SubSeq(bs, 1, N) = bs
    OBVIOUS
  <1>5. InTurnFrom(parts, 0 + 1) = Begun(SubSeq(bs, 0 + 1, N), <<>>)
    BY <1>3
  <1>6. InTurnFrom(parts, 1) = Begun(SubSeq(bs, 1, N), <<>>)
    BY <1>5
  <1> QED  BY <1>4, <1>6 DEF InTurn

-----------------------------------------------------------------------------
(* Behind what a branch went through. *)

\* Branches behind what one went through before.
PrefixAll(b, bs) == [k \in DOMAIN bs |-> b \o bs[k]]

LEMMA PrefixType ==
    ASSUME NEW b \in Branch, NEW bs \in Seq(Branch)
    PROVE  /\ PrefixAll(b, bs) \in Seq(Branch) /\ Len(PrefixAll(b, bs)) = Len(bs)
           /\ \A k \in 1..Len(bs) : PrefixAll(b, bs)[k] = b \o bs[k]
  <1>1. DOMAIN bs = 1..Len(bs) /\ Len(bs) \in Nat /\ \A k \in 1..Len(bs) : bs[k] \in Branch
    OBVIOUS
  <1>2. \A k \in 1..Len(bs) : b \o bs[k] \in Branch
    BY <1>1 DEF Branch
  <1> QED  BY <1>1, <1>2 DEF PrefixAll

LEMMA PrefixJoin ==
    ASSUME NEW b \in Branch, NEW a \in Seq(Branch), NEW c \in Seq(Branch)
    PROVE  PrefixAll(b, a \o c) = PrefixAll(b, a) \o PrefixAll(b, c)
  <1> DEFINE l == PrefixAll(b, a \o c)
             r == PrefixAll(b, a) \o PrefixAll(b, c)
  <1>1. /\ a \o c \in Seq(Branch) /\ Len(a \o c) = Len(a) + Len(c)
        /\ Len(a) \in Nat /\ Len(c) \in Nat
    OBVIOUS
  <1>2. /\ PrefixAll(b, a) \in Seq(Branch) /\ Len(PrefixAll(b, a)) = Len(a)
        /\ PrefixAll(b, c) \in Seq(Branch) /\ Len(PrefixAll(b, c)) = Len(c)
        /\ l \in Seq(Branch) /\ Len(l) = Len(a) + Len(c)
    BY <1>1, PrefixType
  <1>3. r \in Seq(Branch) /\ Len(r) = Len(a) + Len(c)
    BY <1>2, JoinType
  <1>4. ASSUME NEW k \in 1..Len(a) + Len(c) PROVE l[k] = r[k]
    <2>1. l[k] = b \o (a \o c)[k]
      BY <1>1, PrefixType
    <2>2. CASE k <= Len(a)
      <3>1. k \in 1..Len(a)
        BY <1>1, <2>2
      <3>2. (a \o c)[k] = a[k]
        BY <3>1
      <3>3. r[k] = PrefixAll(b, a)[k]
        BY <1>2, <3>1
      <3>4. PrefixAll(b, a)[k] = b \o a[k]
        BY <3>1, PrefixType
      <3> QED  BY <2>1, <3>2, <3>3, <3>4
    <2>3. CASE k > Len(a)
      <3> DEFINE j == k - Len(a)
      <3>1. j \in 1..Len(c)
        BY <1>1, <2>3
      <3>2. (a \o c)[k] = c[j]
        BY <1>1, <2>3
      <3>3. r[k] = PrefixAll(b, c)[j]
        BY <1>1, <1>2, <2>3
      <3> HIDE DEF j, l, r
      <3>4. PrefixAll(b, c)[j] = b \o c[j]
        BY <3>1, PrefixType
      <3> QED  BY <2>1, <3>2, <3>3, <3>4
    <2>4. k <= Len(a) \/ k > Len(a)
      BY <1>1
    <2> QED  BY <2>2, <2>3, <2>4
  <1> HIDE DEF l, r
  <1>5. l = r
    BY <1>2, <1>3, <1>4, SameSeq
  <1> QED  BY <1>5 DEF l, r

LEMMA PrefixPrefix ==
    ASSUME NEW b \in Branch, NEW c \in Branch, NEW a \in Seq(Branch)
    PROVE  /\ b \o c \in Branch
           /\ PrefixAll(b, PrefixAll(c, a)) = PrefixAll(b \o c, a)
           /\ PrefixAll(<<>>, a) = a
  <1>1. b \o c \in Branch /\ <<>> \in Branch
    BY DEF Branch
  <1>2. /\ PrefixAll(c, a) \in Seq(Branch) /\ Len(PrefixAll(c, a)) = Len(a)
        /\ PrefixAll(<<>>, a) \in Seq(Branch) /\ Len(PrefixAll(<<>>, a)) = Len(a)
        /\ PrefixAll(b \o c, a) \in Seq(Branch) /\ Len(PrefixAll(b \o c, a)) = Len(a)
    BY <1>1, PrefixType
  <1>3. /\ PrefixAll(b, PrefixAll(c, a)) \in Seq(Branch)
        /\ Len(PrefixAll(b, PrefixAll(c, a))) = Len(a)
    BY <1>2, PrefixType
  <1>4. ASSUME NEW k \in 1..Len(a)
        PROVE  /\ PrefixAll(b, PrefixAll(c, a))[k] = PrefixAll(b \o c, a)[k]
               /\ PrefixAll(<<>>, a)[k] = a[k]
    <2>0. a[k] \in Branch
      OBVIOUS
    <2>1. PrefixAll(b, PrefixAll(c, a))[k] = b \o PrefixAll(c, a)[k]
      BY <1>2, PrefixType
    <2>2. PrefixAll(c, a)[k] = c \o a[k]
      BY PrefixType
    <2>3. PrefixAll(b \o c, a)[k] = (b \o c) \o a[k]
      BY <1>1, PrefixType
    <2>4. (b \o c) \o a[k] = b \o (c \o a[k])
      <3>1. b \in Seq(Nodes) /\ c \in Seq(Nodes) /\ a[k] \in Seq(Nodes)
        BY <2>0 DEF Branch
      <3>2. PICK u : u = a[k]
        OBVIOUS
      <3>3. b \in Seq(Nodes) /\ c \in Seq(Nodes) /\ u \in Seq(Nodes)
        BY <3>1, <3>2
      <3>4. (b \o c) \o u = b \o (c \o u)
        BY ONLY <3>3, JoinAssoc
      <3> QED  BY <3>2, <3>4
    <2>5. PrefixAll(<<>>, a)[k] = <<>> \o a[k]
      BY <1>1, PrefixType
    <2>6. <<>> \o a[k] = a[k]
      BY <2>0 DEF Branch
    <2> QED  BY <2>1, <2>2, <2>3, <2>4, <2>5, <2>6
  <1>5. PrefixAll(b, PrefixAll(c, a)) = PrefixAll(b \o c, a)
    BY <1>2, <1>3, <1>4, SameSeq
  <1>6. PrefixAll(<<>>, a) = a
    BY <1>2, <1>4, SameSeq
  <1> QED  BY <1>1, <1>5, <1>6

\* Behind goes through everything a result is made of.
LEMMA BehindFields ==
    ASSUME NEW b \in Branch, NEW r \in Result
    PROVE  /\ Behind(b, r) \in Result
           /\ Behind(b, r) = [ok |-> r.ok, outs |-> PrefixAll(b, r.outs),
                              trace |-> PrefixAll(b, r.trace)]
           /\ Behind(b, r).ok <=> r.ok
           /\ Behind(b, r).outs = PrefixAll(b, r.outs)
           /\ Behind(b, r).trace = PrefixAll(b, r.trace)
           /\ Len(Behind(b, r).outs) = Len(r.outs)
  <1>1. r.ok \in BOOLEAN /\ r.outs \in Seq(Branch) /\ r.trace \in Seq(Branch)
    BY ResultFields
  <1>2. Behind(b, r) = [ok |-> r.ok, outs |-> PrefixAll(b, r.outs),
                        trace |-> PrefixAll(b, r.trace)]
    BY DEF Behind, PrefixAll
  <1>3. PrefixAll(b, r.outs) \in Seq(Branch) /\ PrefixAll(b, r.trace) \in Seq(Branch)
    BY <1>1, PrefixType
  <1>4. Behind(b, r) \in Result
    BY <1>1, <1>2, <1>3 DEF Result
  <1>5. /\ Behind(b, r).ok <=> r.ok
        /\ Behind(b, r).outs = PrefixAll(b, r.outs)
        /\ Behind(b, r).trace = PrefixAll(b, r.trace)
    BY <1>2
  <1>6. Len(Behind(b, r).outs) = Len(r.outs)
    BY <1>1, <1>5, PrefixType
  <1> QED  BY <1>2, <1>4, <1>5, <1>6

LEMMA BehindAndThen ==
    ASSUME NEW b \in Branch, NEW r \in Result, NEW s \in Result
    PROVE  Behind(b, AndThen(r, s)) = AndThen(Behind(b, r), Behind(b, s))
  <1>1. CASE ~r.ok
    BY <1>1, BehindFields DEF AndThen
  <1>2. CASE r.ok
    <2> DEFINE t == AndThen(r, s)
    <2>1. /\ t \in Result /\ t.ok = s.ok /\ t.outs = r.outs \o s.outs
          /\ t.trace = r.trace \o s.trace
      BY <1>2, AndThenFields DEF AndThen
    <2> HIDE DEF t
    <2>2. /\ r.outs \in Seq(Branch) /\ s.outs \in Seq(Branch)
          /\ r.trace \in Seq(Branch) /\ s.trace \in Seq(Branch)
      BY ResultFields
    <2>3. PrefixAll(b, t.outs) = PrefixAll(b, r.outs) \o PrefixAll(b, s.outs)
      BY <2>1, <2>2, PrefixJoin
    <2>4. PrefixAll(b, t.trace) = PrefixAll(b, r.trace) \o PrefixAll(b, s.trace)
      BY <2>1, <2>2, PrefixJoin
    <2>5. Behind(b, t) = [ok |-> t.ok, outs |-> PrefixAll(b, t.outs),
                          trace |-> PrefixAll(b, t.trace)]
      BY <2>1, BehindFields
    <2>6. AndThen(Behind(b, r), Behind(b, s))
            = [ok |-> s.ok, outs |-> PrefixAll(b, r.outs) \o PrefixAll(b, s.outs),
               trace |-> PrefixAll(b, r.trace) \o PrefixAll(b, s.trace)]
      <3> DEFINE u == Behind(b, r)
                 v == Behind(b, s)
      <3>1. u.ok /\ u.outs = PrefixAll(b, r.outs) /\ u.trace = PrefixAll(b, r.trace)
        BY <1>2, BehindFields
      <3>2. v = [ok |-> s.ok, outs |-> PrefixAll(b, s.outs), trace |-> PrefixAll(b, s.trace)]
        BY BehindFields
      <3>3. v.ok = s.ok /\ v.outs = PrefixAll(b, s.outs) /\ v.trace = PrefixAll(b, s.trace)
        BY <3>2
      <3>4. AndThen(u, v) = [ok |-> v.ok, outs |-> u.outs \o v.outs,
                             trace |-> u.trace \o v.trace]
        BY <3>1 DEF AndThen
      <3> HIDE DEF u, v
      <3>5. AndThen(u, v) = [ok |-> s.ok, outs |-> PrefixAll(b, r.outs) \o PrefixAll(b, s.outs),
                             trace |-> PrefixAll(b, r.trace) \o PrefixAll(b, s.trace)]
        BY <3>1, <3>3, <3>4
      <3> QED  BY <3>5 DEF u, v
    <2>7. Behind(b, t) = AndThen(Behind(b, r), Behind(b, s))
      BY <2>1, <2>3, <2>4, <2>5, <2>6
    <2> QED  BY <2>7 DEF t
  <1> QED  BY <1>1, <1>2

LEMMA BehindSmall ==
    ASSUME NEW b \in Branch, NEW c \in Branch, NEW r \in Result
    PROVE  /\ Behind(b, Nothing) = Nothing
           /\ Behind(b, Just(c)) = Just(b \o c)
           /\ Behind(b, Broken) = Broken
           /\ Behind(b, Behind(c, r)) = Behind(b \o c, r)
           /\ Behind(<<>>, r) = r
  <1>1. /\ Behind(b, Nothing) = Nothing
        /\ Behind(b, Broken) = Broken
    BY DEF Behind, Nothing, Broken, Begun
  <1>2. Behind(b, Just(c)) = Just(b \o c)
    <2>1. [k \in DOMAIN <<c>> |-> b \o <<c>>[k]] = <<b \o c>>
      OBVIOUS
    <2>2. [k \in DOMAIN <<>> |-> b \o <<>>[k]] = <<>>
      OBVIOUS
    <2> QED  BY <2>1, <2>2 DEF Behind, Just, Begun
  <1>3. Behind(b, Behind(c, r)) = Behind(b \o c, r)
    <2> DEFINE s == Behind(c, r)
    <2>1. /\ s \in Result /\ s.ok = r.ok /\ s.outs = PrefixAll(c, r.outs)
          /\ s.trace = PrefixAll(c, r.trace)
      BY BehindFields
    <2> HIDE DEF s
    <2>2. r.outs \in Seq(Branch) /\ r.trace \in Seq(Branch) /\ b \o c \in Branch
      BY ResultFields, PrefixPrefix
    <2>3. Behind(b, s) = [ok |-> r.ok, outs |-> PrefixAll(b, PrefixAll(c, r.outs)),
                          trace |-> PrefixAll(b, PrefixAll(c, r.trace))]
      BY <2>1, BehindFields
    <2>4. Behind(b \o c, r) = [ok |-> r.ok, outs |-> PrefixAll(b \o c, r.outs),
                               trace |-> PrefixAll(b \o c, r.trace)]
      BY <2>2, BehindFields
    <2>5. /\ PrefixAll(b, PrefixAll(c, r.outs)) = PrefixAll(b \o c, r.outs)
          /\ PrefixAll(b, PrefixAll(c, r.trace)) = PrefixAll(b \o c, r.trace)
      BY <2>2, PrefixPrefix
    <2>6. Behind(b, s) = Behind(b \o c, r)
      BY <2>3, <2>4, <2>5
    <2> QED  BY <2>6 DEF s
  <1>4. Behind(<<>>, r) = r
    <2>1. <<>> \in Branch
      BY DEF Branch
    <2>2. r.outs \in Seq(Branch) /\ r.trace \in Seq(Branch)
      BY ResultFields
    <2>3. PrefixAll(<<>>, r.outs) = r.outs /\ PrefixAll(<<>>, r.trace) = r.trace
      BY <2>1, <2>2, PrefixPrefix
    <2>4. Behind(<<>>, r) = [ok |-> r.ok, outs |-> r.outs, trace |-> r.trace]
      BY <2>1, <2>3, BehindFields
    <2> QED  BY <2>4, ResultFields
  <1> QED  BY <1>1, <1>2, <1>3, <1>4

LEMMA BehindWithin ==
    ASSUME NEW b \in Branch, NEW r \in Result
    PROVE  /\ Within(r) \in Result
           /\ Behind(b, Within(r)) = Within(Behind(b, r))
  <1>1. Within(r) \in Result
    BY DEF Within, Result
  <1>2. Behind(b, Within(r)) = Within(Behind(b, r))
    <2>1. Len(Behind(b, r).outs) = Len(r.outs)
      BY BehindFields
    <2>2. CASE Len(r.outs) > MaxBranches
      <3> DEFINE s == [ok |-> FALSE, outs |-> r.outs, trace |-> r.trace]
      <3>1. Within(r) = s
        BY <2>2 DEF Within
      <3>2. Behind(b, s) = [ok |-> FALSE, outs |-> PrefixAll(b, r.outs),
                            trace |-> PrefixAll(b, r.trace)]
        BY DEF Behind, PrefixAll
      <3>3. /\ Behind(b, r).outs = PrefixAll(b, r.outs)
            /\ Behind(b, r).trace = PrefixAll(b, r.trace)
        BY BehindFields
      <3>4. Within(Behind(b, r)) = [ok |-> FALSE, outs |-> Behind(b, r).outs,
                                    trace |-> Behind(b, r).trace]
        BY <2>1, <2>2 DEF Within
      <3> QED  BY <3>1, <3>2, <3>3, <3>4
    <2>3. CASE ~(Len(r.outs) > MaxBranches)
      BY <2>1, <2>3 DEF Within
    <2> QED  BY <2>2, <2>3
  <1> QED  BY <1>1, <1>2

LEMMA BehindAllType ==
    ASSUME NEW b \in Branch, NEW parts \in Seq(Result)
    PROVE  /\ BehindAll(b, parts) \in Seq(Result) /\ Len(BehindAll(b, parts)) = Len(parts)
           /\ \A k \in 1..Len(parts) : BehindAll(b, parts)[k] = Behind(b, parts[k])
  <1>1. /\ DOMAIN parts = 1..Len(parts) /\ Len(parts) \in Nat
        /\ \A k \in 1..Len(parts) : parts[k] \in Result
    OBVIOUS
  <1>2. \A k \in 1..Len(parts) : Behind(b, parts[k]) \in Result
    BY <1>1, BehindFields
  <1> QED  BY <1>1, <1>2 DEF BehindAll

LEMMA BehindInTurn ==
    ASSUME NEW b \in Branch, NEW parts \in Seq(Result), NEW i \in Nat
    PROVE  Behind(b, InTurnFrom(parts, i)) = InTurnFrom(BehindAll(b, parts), i)
  <1> DEFINE N == Len(parts)
             B == BehindAll(b, parts)
             T == {n \in Nat : Behind(b, InTurnFrom(parts, n + 1)) = InTurnFrom(B, n + 1)}
  <1>0. /\ N \in Nat /\ \A k \in 1..N : parts[k] \in Result
        /\ B \in Seq(Result) /\ Len(B) = N /\ \A k \in 1..N : B[k] = Behind(b, parts[k])
    BY BehindAllType
  <1> HIDE DEF B
  <1>1. ASSUME NEW n \in Nat, n \notin 1..N
        PROVE  Behind(b, InTurnFrom(parts, n)) = InTurnFrom(B, n)
    BY <1>0, <1>1, InTurnStep, BehindSmall, SmallResults
  <1>2. N \in T
    <2>1. N + 1 \in Nat /\ N + 1 \notin 1..N
      BY <1>0
    <2> QED  BY <1>0, <1>1, <2>1
  <1>3. ASSUME NEW n \in 1..N, n \in T PROVE n - 1 \in T
    <2>1. n \in Nat /\ n - 1 \in Nat /\ (n - 1) + 1 = n /\ n + 1 \in Nat
      BY <1>0
    <2>2. /\ InTurnFrom(parts, n) = AndThen(parts[n], InTurnFrom(parts, n + 1))
          /\ InTurnFrom(B, n) = AndThen(B[n], InTurnFrom(B, n + 1))
      BY <1>0, <2>1, InTurnStep
    <2>3. Behind(b, InTurnFrom(parts, n + 1)) = InTurnFrom(B, n + 1)
      BY <1>3
    <2>4. parts[n] \in Result /\ InTurnFrom(parts, n + 1) \in Result
      BY <1>0, <2>1, InTurnType
    <2>5. Behind(b, InTurnFrom(parts, n)) = InTurnFrom(B, n)
      BY <1>0, <2>2, <2>3, <2>4, BehindAndThen
    <2> QED  BY <2>1, <2>5
  <1>4. \A n \in 0..N : n \in T
    <2> HIDE DEF T
    <2> QED  BY <1>0, <1>2, <1>3, Downward
  <1>5. CASE i \in 1..N
    <2>1. i - 1 \in 0..N /\ (i - 1) + 1 = i
      BY <1>0, <1>5
    <2>2. i - 1 \in T
      BY <1>4, <2>1
    <2>3. Behind(b, InTurnFrom(parts, (i - 1) + 1)) = InTurnFrom(B, (i - 1) + 1)
      BY <2>2
    <2> QED  BY <2>1, <2>3 DEF B
  <1>6. CASE i \notin 1..N
    BY <1>1, <1>6 DEF B
  <1> QED  BY <1>5, <1>6

-----------------------------------------------------------------------------
(* What a flow and its nodes mean. *)

\* The commands that a result is behind: nothing came out of them yet.
Traced(tr) == Begun(<<>>, tr)

\* Commands that ran before go through everything that follows them.
LEMMA TracedThen ==
    ASSUME NEW tr \in Seq(Branch), NEW r \in Result
    PROVE  /\ Traced(tr) \in Result /\ Traced(tr).ok /\ Traced(tr).trace = tr
           /\ AndThen(Traced(tr), r) \in Result
           /\ AndThen(Traced(tr), r).ok <=> r.ok
           /\ AndThen(Traced(tr), r).outs = r.outs
           /\ AndThen(Traced(tr), r).trace = tr \o r.trace
  <1>0. <<>> \in Seq(Branch)
    OBVIOUS
  <1>1. /\ Traced(tr) \in Result /\ Traced(tr).ok /\ Traced(tr).outs = <<>>
        /\ Traced(tr).trace = tr
    BY <1>0, BegunType DEF Traced
  <1>2. r.outs \in Seq(Branch)
    BY ResultFields
  <1>3. <<>> \o r.outs = r.outs
    BY <1>2, JoinBranches
  <1>4. /\ AndThen(Traced(tr), r) \in Result
        /\ AndThen(Traced(tr), r).ok <=> r.ok
        /\ AndThen(Traced(tr), r).outs = Traced(tr).outs \o r.outs
        /\ AndThen(Traced(tr), r).trace = Traced(tr).trace \o r.trace
    BY <1>1, AndThenFields
  <1>5. AndThen(Traced(tr), r).outs = r.outs
    BY <1>1, <1>3, <1>4
  <1>6. AndThen(Traced(tr), r).trace = tr \o r.trace
    BY <1>1, <1>4
  <1> QED  BY <1>1, <1>4, <1>5, <1>6

LEMMA OntoFields ==
    ASSUME NEW r \in Result, NEW parts \in Seq(Result)
    PROVE  /\ Onto(r, parts) \in Result
           /\ InTurn(parts) \in Result
           /\ ~r.ok => Onto(r, parts) = r
           /\ r.ok => Onto(r, parts) = AndThen(Traced(r.trace), InTurn(parts))
           /\ Onto(r, parts).ok => r.ok
  <1>1. InTurn(parts) \in Result
    BY InTurnType DEF InTurn
  <1>2. r.trace \in Seq(Branch)
    BY ResultFields
  <1>3. CASE r.ok
    <2>1. Onto(r, parts) = AndThen(Traced(r.trace), InTurn(parts))
      BY <1>3 DEF Onto, Traced
    <2> QED  BY <1>1, <1>2, <1>3, <2>1, TracedThen
  <1>4. CASE ~r.ok
    <2>1. Onto(r, parts) = r
      BY <1>4 DEF Onto
    <2> QED  BY <1>1, <1>4, <2>1
  <1> QED  BY <1>3, <1>4

LEMMA OntoTraced ==
    ASSUME NEW r \in Result, NEW parts \in Seq(Result), NEW tr \in Seq(Branch)
    PROVE  Onto(AndThen(Traced(tr), r), parts) = AndThen(Traced(tr), Onto(r, parts))
  <1> DEFINE s == AndThen(Traced(tr), r)
  <1>1. s \in Result /\ (s.ok <=> r.ok) /\ s.trace = tr \o r.trace
    BY TracedThen
  <1>2. CASE r.ok
    <2>1. r.trace \in Seq(Branch) /\ tr \o r.trace \in Seq(Branch)
      BY ResultFields, JoinBranches
    <2>2. Traced(tr \o r.trace) = AndThen(Traced(tr), Traced(r.trace))
      <3>1. <<>> \in Seq(Branch) /\ <<>> \o <<>> = <<>>
        OBVIOUS
      <3>2. PICK e, u \in Seq(Branch) : e = <<>> /\ u = r.trace
        BY <2>1, <3>1
      <3>3. AndThen(Begun(e, tr), Begun(e, u)) = Begun(e \o e, tr \o u)
        BY ONLY e \in Seq(Branch), u \in Seq(Branch), tr \in Seq(Branch), BegunThen
      <3> QED  BY <3>1, <3>2, <3>3 DEF Traced
    <2>3. /\ Onto(s, parts) = AndThen(Traced(tr \o r.trace), InTurn(parts))
          /\ Onto(r, parts) = AndThen(Traced(r.trace), InTurn(parts))
      BY <1>1, <1>2, OntoFields
    <2>4. Traced(tr) \in Result /\ Traced(r.trace) \in Result /\ InTurn(parts) \in Result
      BY <2>1, TracedThen, OntoFields
    <2>5. AndThen(AndThen(Traced(tr), Traced(r.trace)), InTurn(parts))
            = AndThen(Traced(tr), AndThen(Traced(r.trace), InTurn(parts)))
      BY <2>4, AndThenAssoc
    <2> HIDE DEF s
    <2>6. Onto(s, parts) = AndThen(Traced(tr), Onto(r, parts))
      BY <2>2, <2>3, <2>5
    <2> QED  BY <2>6 DEF s
  <1>3. CASE ~r.ok
    <2>1. Onto(s, parts) = s /\ Onto(r, parts) = r
      BY <1>1, <1>3, OntoFields
    <2> QED  BY <2>1
  <1> QED  BY <1>2, <1>3

LEMMA BehindOnto ==
    ASSUME NEW b \in Branch, NEW r \in Result, NEW parts \in Seq(Result)
    PROVE  Behind(b, Onto(r, parts)) = Onto(Behind(b, r), BehindAll(b, parts))
  <1> DEFINE s == Behind(b, r)
             B == BehindAll(b, parts)
  <1>1. /\ s \in Result /\ (s.ok <=> r.ok) /\ s.trace = PrefixAll(b, r.trace)
        /\ B \in Seq(Result)
    BY BehindFields, BehindAllType
  <1>2. CASE r.ok
    <2>1. r.trace \in Seq(Branch) /\ s.trace \in Seq(Branch)
      BY <1>1, ResultFields
    <2>2. Behind(b, Traced(r.trace)) = Traced(s.trace)
      <3>1. [k \in DOMAIN <<>> |-> b \o <<>>[k]] = <<>>
        OBVIOUS
      <3> HIDE DEF s
      <3> QED  BY <1>1, <3>1 DEF Behind, Traced, Begun, PrefixAll
    <2>3. Behind(b, InTurn(parts)) = InTurn(B)
      BY BehindInTurn DEF InTurn
    <2>4. /\ Onto(s, B) = AndThen(Traced(s.trace), InTurn(B))
          /\ Onto(r, parts) = AndThen(Traced(r.trace), InTurn(parts))
      BY <1>1, <1>2, OntoFields
    <2>5. Traced(r.trace) \in Result /\ InTurn(parts) \in Result
      BY <2>1, TracedThen, OntoFields
    <2>6. Behind(b, AndThen(Traced(r.trace), InTurn(parts)))
            = AndThen(Behind(b, Traced(r.trace)), Behind(b, InTurn(parts)))
      BY <2>5, BehindAndThen
    <2> QED  BY <2>2, <2>3, <2>4, <2>6
  <1>3. CASE ~r.ok
    <2>1. Onto(s, B) = s /\ Onto(r, parts) = r
      BY <1>1, <1>3, OntoFields
    <2> QED  BY <2>1
  <1> QED  BY <1>2, <1>3

\* A flow, as the assumption has it.
LEMMA FlowFields ==
    ASSUME NEW f \in Flows, NEW n \in Nodes
    PROVE  /\ f.entries \in Seq(STRING) /\ f.readable \in BOOLEAN
           /\ f.child[n] \in Seq(STRING) /\ f.links[n] \in Seq(STRING)
           /\ f.failing \subseteq f.execs
  BY FlowAssumption

LEMMA AllOfType ==
    ASSUME NEW targets \in Seq(STRING), NEW m \in [Nodes -> Result]
    PROVE  /\ AllOf(targets, m) \in Seq(Result)
           /\ Len(AllOf(targets, m)) = Len(targets)
           /\ \A k \in 1..Len(targets) :
                AllOf(targets, m)[k]
                  = IF targets[k] \in Nodes THEN m[targets[k]] ELSE Broken
  <1>1. DOMAIN targets = 1..Len(targets) /\ Len(targets) \in Nat
    OBVIOUS
  <1>2. \A k \in 1..Len(targets) :
          (IF targets[k] \in Nodes THEN m[targets[k]] ELSE Broken) \in Result
    BY SmallResults
  <1> QED  BY <1>1, <1>2 DEF AllOf

LEMMA ImportedType ==
    ASSUME NEW f \in Flows, NEW n \in Nodes, NEW m \in [Nodes -> Result]
    PROVE  Imported(f, n, m) \in Result
  <1>1. <<>> \in Branch
    BY DEF Branch
  <1>2. Just(<<>>) \in Result
    BY <1>1, SmallResults
  <1>3. f.child[n] \in Seq(STRING)
    BY FlowFields
  <1>4. AllOf(f.child[n], m) \in Seq(Result)
    BY <1>3, AllOfType
  <1>5. InTurn(AllOf(f.child[n], m)) \in Result
    BY <1>4, InTurnType DEF InTurn
  <1>6. Within(InTurn(AllOf(f.child[n], m))) \in Result
    BY <1>1, <1>5, BehindWithin
  <1> QED  BY <1>2, <1>6 DEF Imported

\* What the command makes of each branch, and behind another.
LEMMA CommandsType ==
    ASSUME NEW f \in Flows, NEW n \in Nodes, NEW bs \in Seq(Branch)
    PROVE  /\ Commands(f, n, bs) \in Seq(Result) /\ Len(Commands(f, n, bs)) = Len(bs)
           /\ \A b \in Branch :
                Commands(f, n, PrefixAll(b, bs)) = BehindAll(b, Commands(f, n, bs))
  <1> DEFINE One1(b) == IF n \notin f.execs THEN Just(b)
                        ELSE [ok |-> n \notin f.failing, outs |-> <<Append(b, n)>>,
                              trace |-> <<Append(b, n)>>]
  <1>1. ASSUME NEW b \in Branch PROVE One1(b) \in Result
    <2>1. Append(b, n) \in Branch
      BY DEF Branch
    <2>2. <<Append(b, n)>> \in Seq(Branch)
      BY <2>1
    <2>3. (n \notin f.failing) \in BOOLEAN
      OBVIOUS
    <2>4. [ok |-> n \notin f.failing, outs |-> <<Append(b, n)>>,
           trace |-> <<Append(b, n)>>] \in Result
      BY <2>2, <2>3 DEF Result
    <2>5. Just(b) \in Result
      BY SmallResults
    <2> QED  BY <2>4, <2>5
  <1>2. ASSUME NEW b \in Branch, NEW c \in Branch
        PROVE  One1(b \o c) = Behind(b, One1(c))
    <2>1. CASE n \notin f.execs
      BY <2>1, BehindSmall, SmallResults
    <2>2. CASE n \in f.execs
      <3>1. Append(b \o c, n) = b \o Append(c, n)
        <4>1. b \in Seq(Nodes) /\ c \in Seq(Nodes)
          BY DEF Branch
        <4> DEFINE l == Append(b \o c, n)
                   r == b \o Append(c, n)
        <4>2. /\ l \in Seq(Nodes) /\ r \in Seq(Nodes) /\ Len(l) = Len(r)
              /\ Len(l) = Len(b) + Len(c) + 1 /\ Len(b) \in Nat /\ Len(c) \in Nat
          BY <4>1
        <4>3. ASSUME NEW k \in 1..Len(l) PROVE l[k] = r[k]
          BY <4>1, <4>2
        <4> HIDE DEF l, r
        <4>4. l = r
          BY <4>2, <4>3, SameSeq
        <4> QED  BY <4>4 DEF l, r
      <3> DEFINE x == Append(c, n)
      <3> HIDE DEF x
      <3>2. [k \in DOMAIN <<x>> |-> b \o <<x>>[k]] = <<b \o x>>
        OBVIOUS
      <3> DEFINE ok == n \notin f.failing
      <3> HIDE DEF ok
      <3>3. Behind(b, [ok |-> ok, outs |-> <<x>>, trace |-> <<x>>])
              = [ok |-> ok, outs |-> <<b \o x>>, trace |-> <<b \o x>>]
        BY <3>2 DEF Behind
      <3> QED  BY <2>2, <3>1, <3>3 DEF x, ok
    <2> QED  BY <2>1, <2>2
  <1>3. Commands(f, n, bs) = [k \in DOMAIN bs |-> One1(bs[k])]
    BY DEF Commands
  <1>4. \A b \in Branch : Commands(f, n, PrefixAll(b, bs))
                            = [k \in DOMAIN PrefixAll(b, bs) |-> One1(PrefixAll(b, bs)[k])]
    BY DEF Commands
  <1> HIDE DEF One1
  <1>5. DOMAIN bs = 1..Len(bs) /\ Len(bs) \in Nat /\ \A k \in 1..Len(bs) : bs[k] \in Branch
    OBVIOUS
  <1>6. Commands(f, n, bs) \in Seq(Result) /\ Len(Commands(f, n, bs)) = Len(bs)
    BY <1>1, <1>3, <1>5
  <1>7. ASSUME NEW b \in Branch
        PROVE  Commands(f, n, PrefixAll(b, bs)) = BehindAll(b, Commands(f, n, bs))
    <2>1. DOMAIN PrefixAll(b, bs) = DOMAIN bs
      BY DEF PrefixAll
    <2>2. \A k \in DOMAIN bs : One1(PrefixAll(b, bs)[k]) = Behind(b, One1(bs[k]))
      BY <1>2, <1>5 DEF PrefixAll
    <2>3. BehindAll(b, Commands(f, n, bs)) = [k \in DOMAIN bs |-> Behind(b, One1(bs[k]))]
      BY <1>3 DEF BehindAll
    <2> QED  BY <1>4, <2>1, <2>2, <2>3
  <1> QED  BY <1>6, <1>7

\* The same for the links.
LEMMA LinksType ==
    ASSUME NEW f \in Flows, NEW n \in Nodes, NEW m \in [Nodes -> Result], NEW bs \in Seq(Branch)
    PROVE  /\ Links(f, n, bs, m) \in Seq(Result) /\ Len(Links(f, n, bs, m)) = Len(bs)
           /\ \A b \in Branch :
                Links(f, n, PrefixAll(b, bs), m) = BehindAll(b, Links(f, n, bs, m))
  <1> DEFINE One1(b) == IF f.links[n] = <<>> THEN Just(b)
                        ELSE Behind(b, InTurn(AllOf(f.links[n], m)))
  <1>0. InTurn(AllOf(f.links[n], m)) \in Result
    <2>1. f.links[n] \in Seq(STRING)
      BY FlowFields
    <2>2. AllOf(f.links[n], m) \in Seq(Result)
      BY <2>1, AllOfType
    <2> QED  BY <2>2, InTurnType DEF InTurn
  <1>1. ASSUME NEW b \in Branch PROVE One1(b) \in Result
    BY <1>0, SmallResults, BehindFields
  <1>2. ASSUME NEW b \in Branch, NEW c \in Branch
        PROVE  One1(b \o c) = Behind(b, One1(c))
    BY <1>0, BehindSmall, SmallResults
  <1>3. Links(f, n, bs, m) = [k \in DOMAIN bs |-> One1(bs[k])]
    BY DEF Links
  <1>4. \A b \in Branch : Links(f, n, PrefixAll(b, bs), m)
                            = [k \in DOMAIN PrefixAll(b, bs) |-> One1(PrefixAll(b, bs)[k])]
    BY DEF Links
  <1> HIDE DEF One1
  <1>5. DOMAIN bs = 1..Len(bs) /\ Len(bs) \in Nat /\ \A k \in 1..Len(bs) : bs[k] \in Branch
    OBVIOUS
  <1>6. Links(f, n, bs, m) \in Seq(Result) /\ Len(Links(f, n, bs, m)) = Len(bs)
    BY <1>1, <1>3, <1>5
  <1>7. ASSUME NEW b \in Branch
        PROVE  Links(f, n, PrefixAll(b, bs), m) = BehindAll(b, Links(f, n, bs, m))
    <2>1. DOMAIN PrefixAll(b, bs) = DOMAIN bs
      BY DEF PrefixAll
    <2>2. \A k \in DOMAIN bs : One1(PrefixAll(b, bs)[k]) = Behind(b, One1(bs[k]))
      BY <1>2, <1>5 DEF PrefixAll
    <2>3. BehindAll(b, Links(f, n, bs, m)) = [k \in DOMAIN bs |-> Behind(b, One1(bs[k]))]
      BY <1>3 DEF BehindAll
    <2> QED  BY <1>4, <2>1, <2>2, <2>3
  <1> QED  BY <1>6, <1>7

-----------------------------------------------------------------------------
(* What a node does behind its import: command and links. *)

LEMMA AndLinksLaws ==
    ASSUME NEW f \in Flows, NEW n \in Nodes, NEW m \in [Nodes -> Result], NEW r \in Result
    PROVE  /\ AndLinks(f, n, r, m) \in Result
           /\ ~r.ok => AndLinks(f, n, r, m) = r
           /\ \A b \in Branch : Behind(b, AndLinks(f, n, r, m)) = AndLinks(f, n, Behind(b, r), m)
           /\ \A tr \in Seq(Branch) :
                AndLinks(f, n, AndThen(Traced(tr), r), m)
                  = AndThen(Traced(tr), AndLinks(f, n, r, m))
  <1> DEFINE L == Links(f, n, r.outs, m)
  <1>1. r.outs \in Seq(Branch)
    BY ResultFields
  <1>2. L \in Seq(Result)
    BY <1>1, LinksType
  <1>3. AndLinks(f, n, r, m) = Onto(r, L)
    BY DEF AndLinks
  <1>4. ASSUME NEW b \in Branch
        PROVE  Behind(b, AndLinks(f, n, r, m)) = AndLinks(f, n, Behind(b, r), m)
    <2>1. Links(f, n, Behind(b, r).outs, m) = BehindAll(b, L)
      BY <1>1, BehindFields, LinksType
    <2>2. AndLinks(f, n, Behind(b, r), m) = Onto(Behind(b, r), BehindAll(b, L))
      BY <2>1 DEF AndLinks
    <2> HIDE DEF L
    <2> QED  BY <1>2, <1>3, <2>2, BehindOnto
  <1>5. ASSUME NEW tr \in Seq(Branch)
        PROVE  AndLinks(f, n, AndThen(Traced(tr), r), m)
                 = AndThen(Traced(tr), AndLinks(f, n, r, m))
    <2>1. AndThen(Traced(tr), r).outs = r.outs
      BY TracedThen
    <2>2. AndLinks(f, n, AndThen(Traced(tr), r), m) = Onto(AndThen(Traced(tr), r), L)
      BY <2>1 DEF AndLinks
    <2> HIDE DEF L
    <2> QED  BY <1>2, <1>3, <2>2, OntoTraced
  <1> HIDE DEF L
  <1> QED  BY <1>2, <1>3, <1>4, <1>5, OntoFields

LEMMA AfterImportedLaws ==
    ASSUME NEW f \in Flows, NEW n \in Nodes, NEW m \in [Nodes -> Result], NEW r \in Result
    PROVE  /\ AfterImported(f, n, r, m) \in Result
           /\ ~r.ok => AfterImported(f, n, r, m) = r
           /\ \A b \in Branch :
                Behind(b, AfterImported(f, n, r, m)) = AfterImported(f, n, Behind(b, r), m)
           /\ \A tr \in Seq(Branch) :
                AfterImported(f, n, AndThen(Traced(tr), r), m)
                  = AndThen(Traced(tr), AfterImported(f, n, r, m))
  <1> DEFINE C == Commands(f, n, r.outs)
             c == Onto(r, C)
  <1>1. r.outs \in Seq(Branch)
    BY ResultFields
  <1>2. C \in Seq(Result)
    BY <1>1, CommandsType
  <1>3. AfterImported(f, n, r, m) = AndLinks(f, n, c, m)
    BY DEF AfterImported
  <1>4. ASSUME NEW b \in Branch
        PROVE  Behind(b, AfterImported(f, n, r, m)) = AfterImported(f, n, Behind(b, r), m)
    <2>1. Commands(f, n, Behind(b, r).outs) = BehindAll(b, C)
      BY <1>1, BehindFields, CommandsType
    <2>2. AfterImported(f, n, Behind(b, r), m)
            = AndLinks(f, n, Onto(Behind(b, r), BehindAll(b, C)), m)
      BY <2>1 DEF AfterImported
    <2> HIDE DEF C
    <2>3. Onto(Behind(b, r), BehindAll(b, C)) = Behind(b, c) /\ c \in Result
      BY <1>2, BehindOnto, OntoFields
    <2> HIDE DEF c
    <2> QED  BY <1>3, <2>2, <2>3, AndLinksLaws
  <1>5. ASSUME NEW tr \in Seq(Branch)
        PROVE  AfterImported(f, n, AndThen(Traced(tr), r), m)
                 = AndThen(Traced(tr), AfterImported(f, n, r, m))
    <2>1. AndThen(Traced(tr), r).outs = r.outs
      BY TracedThen
    <2>2. AfterImported(f, n, AndThen(Traced(tr), r), m)
            = AndLinks(f, n, Onto(AndThen(Traced(tr), r), C), m)
      BY <2>1 DEF AfterImported
    <2> HIDE DEF C
    <2>3. Onto(AndThen(Traced(tr), r), C) = AndThen(Traced(tr), c) /\ c \in Result
      BY <1>2, OntoTraced, OntoFields
    <2> HIDE DEF c
    <2> QED  BY <1>3, <2>2, <2>3, AndLinksLaws
  <1> HIDE DEF C
  <1>6. c \in Result /\ (~r.ok => c = r)
    BY <1>2, OntoFields
  <1> HIDE DEF c
  <1> QED  BY <1>3, <1>4, <1>5, <1>6, AndLinksLaws

-----------------------------------------------------------------------------
(* What the nodes mean at each depth: the recursion of NodeMeaning. *)

\* One step of NodeMeaning.
NodeStep(f, g, d) ==
    [n \in Nodes |-> IF d > MaxDepth THEN Broken
                     ELSE AfterImported(f, n, Imported(f, n, g[d + 2]), g[d + 1])]

\* The recursion has a solution, for there is nothing to do past the bound.
LEMMA NodeStepType ==
    ASSUME NEW f \in Flows, NEW g, NEW d \in Nat,
           d > MaxDepth \/ (g[d + 1] \in [Nodes -> Result] /\ g[d + 2] \in [Nodes -> Result])
    PROVE  NodeStep(f, g, d) \in [Nodes -> Result]
  <1>1. ASSUME NEW n \in Nodes
        PROVE  (IF d > MaxDepth THEN Broken
                ELSE AfterImported(f, n, Imported(f, n, g[d + 2]), g[d + 1])) \in Result
    <2>1. CASE d > MaxDepth
      BY <2>1, SmallResults
    <2>2. CASE ~(d > MaxDepth)
      <3>1. Imported(f, n, g[d + 2]) \in Result
        BY <2>2, ImportedType
      <3>2. AfterImported(f, n, Imported(f, n, g[d + 2]), g[d + 1]) \in Result
        BY <2>2, <3>1, AfterImportedLaws
      <3> QED  BY <2>2, <3>2
    <2> QED  BY <2>1, <2>2
  <1> QED  BY <1>1 DEF NodeStep

LEMMA SameNodeStep ==
    ASSUME NEW f, NEW g, NEW h, NEW d,
           d > MaxDepth \/ (g[d + 1] = h[d + 1] /\ g[d + 2] = h[d + 2])
    PROVE  NodeStep(f, g, d) = NodeStep(f, h, d)
  BY DEF NodeStep

\* The recursion has a solution: it is made from the bound up to the top.
LEMMA NodeExists ==
    ASSUME NEW f \in Flows
    PROVE  \E g \in [Nat -> [Nodes -> Result]] : g = [d \in Nat |-> NodeStep(f, g, d)]
  <1> DEFINE N == MaxDepth + 1
             Past(g, n) == \A d \in Nat : d >= n => g[d] = NodeStep(f, g, d)
             T == {n \in Nat : \E g \in [Nat -> [Nodes -> Result]] : Past(g, n)}
  <1>0. N \in Nat /\ MaxDepth \in Nat /\ \A d \in Nat : d >= N => d > MaxDepth
    BY FlowAssumption
  <1>1. N \in T
    <2> DEFINE b == [n \in Nodes |-> Broken]
               g == [d \in Nat |-> b]
    <2>1. g \in [Nat -> [Nodes -> Result]]
      BY SmallResults
    <2>2. ASSUME NEW d \in Nat, d >= N PROVE g[d] = NodeStep(f, g, d)
      <3>1. d > MaxDepth
        BY <1>0, <2>2
      <3>2. NodeStep(f, g, d) = b
        BY <3>1 DEF NodeStep
      <3> QED  BY <3>2
    <2> HIDE DEF g, N
    <2>3. Past(g, N)
      BY <2>2
    <2> HIDE DEF Past
    <2> QED  BY <1>0, <2>1, <2>3
  <1>2. ASSUME NEW n \in 1..N, n \in T PROVE n - 1 \in T
    <2>1. PICK g \in [Nat -> [Nodes -> Result]] : Past(g, n)
      BY <1>2
    <2>2. n \in Nat /\ n - 1 \in Nat /\ (n - 1) + 1 \in Nat /\ (n - 1) + 2 \in Nat
      BY <1>0
    <2> DEFINE e == n - 1
    <2> HIDE DEF e
    <2>3. e \in Nat /\ e + 1 \in Nat /\ e + 2 \in Nat
      BY <2>2 DEF e
    <2> DEFINE v == NodeStep(f, g, e)
               h == [g EXCEPT ![e] = v]
    <2>4. v \in [Nodes -> Result]
      <3>1. g[e + 1] \in [Nodes -> Result] /\ g[e + 2] \in [Nodes -> Result]
        BY <2>3
      <3> QED  BY <2>3, <3>1, NodeStepType
    <2> HIDE DEF v
    <2>5. h \in [Nat -> [Nodes -> Result]]
      BY <2>4
    <2>6. ASSUME NEW d \in Nat, d >= e PROVE h[d] = NodeStep(f, h, d)
      <3>1. d + 1 # e /\ d + 2 # e /\ d + 1 \in Nat /\ d + 2 \in Nat
        BY <2>3, <2>6
      <3>2. h[d + 1] = g[d + 1] /\ h[d + 2] = g[d + 2]
        BY <3>1
      <3>3. NodeStep(f, h, d) = NodeStep(f, g, d)
        BY <3>2, SameNodeStep
      <3>4. CASE d = e
        BY <2>3, <3>3, <3>4 DEF v
      <3>5. CASE d # e
        <4>1. d >= n
          BY <2>2, <2>6, <3>5 DEF e
        <4>2. h[d] = g[d]
          BY <3>5
        <4> QED  BY <2>1, <3>3, <4>1, <4>2
      <3> QED  BY <3>4, <3>5
    <2> HIDE DEF h
    <2>7. Past(h, e)
      BY <2>6
    <2> HIDE DEF Past
    <2>8. e \in T
      BY <2>3, <2>5, <2>7
    <2> HIDE DEF T
    <2> QED  BY <2>8 DEF e
  <1>3. 0 \in T
    <2> HIDE DEF T, N
    <2> QED  BY <1>0, <1>1, <1>2, Downward
  <1>4. PICK g \in [Nat -> [Nodes -> Result]] : Past(g, 0)
    BY <1>3
  <1>5. g = [d \in Nat |-> NodeStep(f, g, d)]
    <2>1. \A d \in Nat : d >= 0
      OBVIOUS
    <2>2. \A d \in Nat : g[d] = NodeStep(f, g, d)
      BY <1>4, <2>1
    <2> QED  BY <2>2
  <1> QED  BY <1>5

\* What a node means, by what it does.
LEMMA NodeUnfold ==
    ASSUME NEW f \in Flows
    PROVE  NodeMeaning(f) = [d \in Nat |-> NodeStep(f, NodeMeaning(f), d)]
  <1> DEFINE g == CHOOSE m : m = [d \in Nat |-> NodeStep(f, m, d)]
  <1>1. NodeMeaning(f) = g
    BY DEF NodeMeaning, NodeStep
  <1>2. g = [d \in Nat |-> NodeStep(f, g, d)]
    <2>1. \E h : h = [d \in Nat |-> NodeStep(f, h, d)]
      BY NodeExists
    <2> QED  BY <2>1
  <1> QED  BY <1>1, <1>2

\* What the nodes mean at each depth.
LEMMA NodeType ==
    ASSUME NEW f \in Flows
    PROVE  NodeMeaning(f) \in [Nat -> [Nodes -> Result]]
  <1> DEFINE m == NodeMeaning(f)
             N == MaxDepth + 1
             T == {n \in Nat : \A d \in Nat : d >= n => m[d] \in [Nodes -> Result]}
  <1>0. /\ N \in Nat /\ MaxDepth \in Nat /\ \A d \in Nat : d >= N => d > MaxDepth
        /\ m = [d \in Nat |-> NodeStep(f, m, d)]
    BY FlowAssumption, NodeUnfold
  <1> HIDE DEF m
  <1>1. \A d \in Nat : m[d] = NodeStep(f, m, d)
    BY <1>0
  <1>2. N \in T
    <2>1. ASSUME NEW d \in Nat, d >= N PROVE m[d] \in [Nodes -> Result]
      BY <1>0, <1>1, <2>1, NodeStepType
    <2> HIDE DEF N
    <2> QED  BY <1>0, <2>1
  <1>3. ASSUME NEW n \in 1..N, n \in T PROVE n - 1 \in T
    <2>1. n \in Nat /\ n - 1 \in Nat
      BY <1>0
    <2>2. ASSUME NEW d \in Nat, d >= n - 1 PROVE m[d] \in [Nodes -> Result]
      <3>1. d + 1 \in Nat /\ d + 2 \in Nat /\ d + 1 >= n /\ d + 2 >= n
        BY <2>1, <2>2
      <3>2. m[d + 1] \in [Nodes -> Result] /\ m[d + 2] \in [Nodes -> Result]
        BY <1>3, <3>1
      <3>3. NodeStep(f, m, d) \in [Nodes -> Result]
        BY <3>2, NodeStepType
      <3> QED  BY <1>1, <3>3
    <2> QED  BY <2>1, <2>2
  <1>4. 0 \in T
    <2> HIDE DEF T, N
    <2> QED  BY <1>0, <1>2, <1>3, Downward
  <1>5. \A d \in Nat : m[d] \in [Nodes -> Result]
    <2>1. \A d \in Nat : d >= 0
      OBVIOUS
    <2> QED  BY <1>4, <2>1
  <1>6. m \in [Nat -> [Nodes -> Result]]
    BY <1>0, <1>5
  <1> QED  BY <1>6 DEF m

LEMMA NodeMeans ==
    ASSUME NEW f \in Flows, NEW n \in Nodes, NEW d \in Nat
    PROVE  LET m == NodeMeaning(f)
           IN  m[d][n] = IF d > MaxDepth THEN Broken
                         ELSE AfterImported(f, n, Imported(f, n, m[d + 2]), m[d + 1])
  <1> DEFINE m == NodeMeaning(f)
  <1>1. m = [e \in Nat |-> NodeStep(f, m, e)]
    BY NodeUnfold
  <1> HIDE DEF m
  <1>2. m[d] = NodeStep(f, m, d)
    BY <1>1
  <1> QED  BY <1>2 DEF NodeStep, m

-----------------------------------------------------------------------------
(* What goes on only adds. *)

\* r is further than a trace.
Extends(r, tr) == \E u \in Seq(Branch) : r.trace = tr \o u

\* What ran stays at the front of what runs.
LEMMA ExtendsAll ==
    ASSUME NEW r \in Result, NEW tr \in Seq(Branch)
    PROVE  /\ r.trace = tr => Extends(r, tr)
           /\ Extends(r, tr) => Extends(Within(r), tr)
           /\ \A s \in Result : Extends(r, tr) => Extends(AndThen(r, s), tr)
           /\ \A a \in Seq(Branch) : Extends(r, tr) => Extends(AndThen(Begun(a, <<>>), r), tr)
  <1>0. <<>> \in Seq(Branch) /\ r.trace \in Seq(Branch)
    BY ResultFields
  <1>1. r.trace = tr => Extends(r, tr)
    <2>1. tr \o <<>> = tr
      BY JoinBranches
    <2> QED  BY <1>0, <2>1 DEF Extends
  <1>2. Within(r).trace = r.trace
    BY DEF Within
  <1>3. ASSUME Extends(r, tr), NEW s \in Result PROVE Extends(AndThen(r, s), tr)
    <2>1. PICK u \in Seq(Branch) : r.trace = tr \o u
      BY <1>3 DEF Extends
    <2>2. CASE ~r.ok
      BY <1>3, <2>2, AndThenFields
    <2>3. CASE r.ok
      <3>1. s.trace \in Seq(Branch)
        BY ResultFields
      <3>2. AndThen(r, s).trace = (tr \o u) \o s.trace
        <4>1. AndThen(r, s).trace = r.trace \o s.trace
          BY <2>3, AndThenFields
        <4> QED  BY <2>1, <4>1
      <3>3. (tr \o u) \o s.trace = tr \o (u \o s.trace) /\ u \o s.trace \in Seq(Branch)
        <4>1. \A x, y, z \in Seq(Branch) : /\ (x \o y) \o z = x \o (y \o z)
                                         /\ y \o z \in Seq(Branch)
          BY JoinBranches
        <4> QED  BY <3>1, <4>1, Zenon
      <3> QED  BY <3>2, <3>3 DEF Extends
    <2> QED  BY <2>2, <2>3
  <1>4. ASSUME Extends(r, tr), NEW a \in Seq(Branch) PROVE Extends(AndThen(Begun(a, <<>>), r), tr)
    <2>1. AndThen(Begun(a, <<>>), r).trace = <<>> \o r.trace
      BY DEF AndThen, Begun
    <2>2. <<>> \o r.trace = r.trace
      BY <1>0, JoinBranches
    <2> QED  BY <1>4, <2>1, <2>2 DEF Extends
  <1> QED  BY <1>1, <1>2, <1>3, <1>4 DEF Extends

LEMMA OntoExtends ==
    ASSUME NEW r \in Result, NEW tr \in Seq(Branch), Extends(r, tr), NEW parts \in Seq(Result)
    PROVE  Extends(Onto(r, parts), tr)
  <1>1. CASE ~r.ok
    BY <1>1, OntoFields
  <1>2. CASE r.ok
    <2>1. r.trace \in Seq(Branch)
      BY ResultFields
    <2>2. Traced(r.trace) \in Result /\ Traced(r.trace).trace = r.trace
      BY <2>1, TracedThen, SmallResults
    <2>3. Extends(Traced(r.trace), tr)
      BY <2>2 DEF Extends
    <2>4. InTurn(parts) \in Result
      BY OntoFields
    <2>5. Extends(AndThen(Traced(r.trace), InTurn(parts)), tr)
      BY <2>2, <2>3, <2>4, ExtendsAll
    <2> QED  BY <1>2, <2>5, OntoFields
  <1> QED  BY <1>1, <1>2

LEMMA AfterImportedExtends ==
    ASSUME NEW f \in Flows, NEW n \in Nodes, NEW m \in [Nodes -> Result],
           NEW r \in Result, NEW tr \in Seq(Branch), Extends(r, tr)
    PROVE  Extends(AfterImported(f, n, r, m), tr)
  <1> DEFINE c == Onto(r, Commands(f, n, r.outs))
  <1>1. Commands(f, n, r.outs) \in Seq(Result)
    BY ResultFields, CommandsType
  <1>2. c \in Result /\ Extends(c, tr)
    BY <1>1, OntoFields, OntoExtends
  <1>3. AfterImported(f, n, r, m) = Onto(c, Links(f, n, c.outs, m))
    BY DEF AfterImported, AndLinks
  <1> HIDE DEF c
  <1>4. Links(f, n, c.outs, m) \in Seq(Result)
    BY <1>2, ResultFields, LinksType
  <1> QED  BY <1>2, <1>3, <1>4, OntoExtends

-----------------------------------------------------------------------------
(* The calls on the stack, and what they come to. *)

-----------------------------------------------------------------------------
(* The frame that collects the output of a call. *)

\* Exactly one frame collects the output of frame k.
LEMMA OwnerExists ==
    ASSUME NEW s, s[1].phase = "entries", NEW k \in Nat, k >= 1
    PROVE  /\ OwnerOf(s, k) \in 1..k /\ Owns(s, OwnerOf(s, k), k)
           /\ \A o : Owns(s, o, k) => o = OwnerOf(s, k)
  <1> DEFINE T == {n \in Nat : n >= 1 => \E o \in 1..n : Owns(s, o, n)}
  <1>1. 0 \in T
    OBVIOUS
  <1>2. ASSUME NEW n \in T PROVE n + 1 \in T
    <2>1. n \in Nat /\ n + 1 \in Nat /\ n + 1 \in 1..n + 1
      BY <1>2
    <2>2. CASE s[n + 1].phase = "entries"
      <3>1. Owns(s, n + 1, n + 1)
        BY <2>1, <2>2 DEF Owns
      <3> QED  BY <2>1, <3>1
    <2>3. CASE s[n + 1].phase # "entries"
      <3>1. n + 1 # 1
        BY <2>3
      <3>2. n >= 1
        BY <2>1, <3>1
      <3>3. PICK o \in 1..n : Owns(s, o, n)
        BY <1>2, <3>2
      <3>4. o \in 1..n + 1 /\ s[o].phase = "entries" /\ \A l \in o + 1..n : s[l].phase # "entries"
        BY <2>1, <3>3 DEF Owns
      <3>5. \A l \in o + 1..n + 1 : l \in o + 1..n \/ l = n + 1
        BY <2>1, <3>4
      <3>6. Owns(s, o, n + 1)
        BY <2>3, <3>4, <3>5 DEF Owns
      <3> QED  BY <2>1, <3>4, <3>6
    <2> QED  BY <2>2, <2>3
  <1>3. k \in T
    <2>1. T \subseteq Nat
      OBVIOUS
    <2> HIDE DEF T
    <2> QED  BY <1>1, <1>2, <2>1, AllNaturals
  <1>4. \E o \in 1..k : Owns(s, o, k)
    BY <1>3
  <1>5. OwnerOf(s, k) \in 1..k /\ Owns(s, OwnerOf(s, k), k)
    BY <1>4 DEF OwnerOf
  <1>6. ASSUME NEW o, Owns(s, o, k) PROVE o = OwnerOf(s, k)
    <2> DEFINE p == OwnerOf(s, k)
    <2> HIDE DEF p
    <2>1. Owns(s, p, k)
      BY <1>5 DEF p
    <2>2. /\ o \in 1..k /\ s[o].phase = "entries"
          /\ \A l \in o + 1..k : s[l].phase # "entries"
          /\ p \in 1..k /\ s[p].phase = "entries"
          /\ \A l \in p + 1..k : s[l].phase # "entries"
      BY <1>6, <2>1 DEF Owns
    <2>3. ~(o < p) /\ ~(p < o)
      <3>1. o < p => p \in o + 1..k
        BY <2>2
      <3>2. p < o => o \in p + 1..k
        BY <2>2
      <3> QED  BY <2>2, <3>1, <3>2
    <2>4. o \in Nat /\ p \in Nat
      BY <2>2
    <2>5. o = p
      BY <2>3, <2>4
    <2> QED  BY <2>5 DEF p
  <1> QED  BY <1>5, <1>6

\* Two stacks with the same phases have the same owners.
LEMMA SameOwner ==
    ASSUME NEW s, NEW t, s[1].phase = "entries", NEW k \in Nat, k >= 1,
           \A l \in 1..k : s[l].phase = t[l].phase
    PROVE  OwnerOf(s, k) = OwnerOf(t, k)
  <1> DEFINE o == OwnerOf(s, k)
  <1>1. o \in 1..k /\ Owns(s, o, k)
    BY OwnerExists
  <1> HIDE DEF o
  <1>2. t[1].phase = "entries"
    <2>1. 1 \in 1..k
      OBVIOUS
    <2> QED  BY <2>1
  <1>3. \A l \in o + 1..k : l \in 1..k
    BY <1>1
  <1>4. Owns(t, o, k)
    BY <1>1, <1>3 DEF Owns
  <1>5. o = OwnerOf(t, k)
    BY <1>2, <1>4, OwnerExists
  <1> QED  BY <1>5 DEF o

\* The owner of a frame that collects nothing is the owner of the one below.
LEMMA OwnerBelow ==
    ASSUME NEW s, s[1].phase = "entries", NEW k \in Nat, k >= 1, s[k + 1].phase # "entries"
    PROVE  OwnerOf(s, k + 1) = OwnerOf(s, k)
  <1> DEFINE o == OwnerOf(s, k)
  <1>1. o \in 1..k /\ Owns(s, o, k)
    BY OwnerExists
  <1> HIDE DEF o
  <1>2. \A l \in o + 1..k + 1 : l \in o + 1..k \/ l = k + 1
    BY <1>1
  <1>3. Owns(s, o, k + 1)
    BY <1>1, <1>2 DEF Owns
  <1>4. k + 1 \in Nat /\ k + 1 >= 1
    OBVIOUS
  <1>5. o = OwnerOf(s, k + 1)
    BY <1>3, <1>4, OwnerExists
  <1> QED  BY <1>5 DEF o

LEMMA OwnerItself ==
    ASSUME NEW s, s[1].phase = "entries", NEW k \in Nat, k >= 1, s[k].phase = "entries"
    PROVE  OwnerOf(s, k) = k
  <1>1. Owns(s, k, k)
    BY DEF Owns
  <1> QED  BY <1>1, OwnerExists

-----------------------------------------------------------------------------
(* The calls of a run that goes on. *)

\* The state of a run whose calls have come as far as C says.
Going(f, s, tr, C) ==
    /\ f \in Flows /\ GoodStack(s) /\ Shaped(f, s) /\ Len(s) > 0
    /\ tr \in Seq(Branch) /\ Follows(f, s, tr, C, NodeMeaning(f))

\* What is known of frame k, and of its fields.
LEMMA FrameFacts ==
    ASSUME NEW f \in Flows, NEW s, GoodStack(s), Shaped(f, s), Len(s) > 0, NEW k \in 1..Len(s)
    PROVE  /\ Len(s) \in Nat /\ k \in Nat /\ k >= 1
           /\ s[k] \in FrameType /\ s[k].depth = k - 2 /\ ShapedFrame(f, s, k)
           /\ s[k].phase \in Phases /\ s[k].active \in Seq(Branch) /\ s[k].made \in Seq(Branch)
           /\ s[k].i \in Nat \ {0} /\ s[k].j \in Nat \ {0}
           /\ s[1].phase = "entries"
           /\ s[k].phase # "entries" => s[k].node \in Nodes /\ k > 1
           /\ k > 1 => s[k].node \in Nodes
           /\ k < Len(s) => s[k].phase \in Calling
           /\ Len(s[k].made) <= MaxBranches
  <1>1. s \in Seq(FrameType) /\ Len(s) \in Nat
    BY DEF GoodStack
  <1>2. s[k] \in FrameType /\ GoodFrame(k, s[k]) /\ (k < Len(s) => s[k].phase \in Calling)
    BY <1>1 DEF GoodStack
  <1>3. s[k].depth = k - 2 /\ Len(s[k].made) <= MaxBranches
    BY <1>2 DEF GoodFrame
  <1>4. ShapedFrame(f, s, k) /\ ShapedFrame(f, s, 1)
    <2>1. 1 \in 1..Len(s)
      BY <1>1
    <2> QED  BY <2>1 DEF Shaped
  <1>5. s[1].phase = "entries"
    BY <1>4 DEF ShapedFrame
  <1>6. k \in Nat /\ k >= 1
    BY <1>1
  <1>7. k > 1 => s[k].node \in Nodes
    BY <1>4 DEF ShapedFrame
  <1>8. s[k].phase # "entries" => k > 1
    BY <1>5, <1>6
  <1> QED  BY <1>1, <1>2, <1>3, <1>4, <1>5, <1>6, <1>7, <1>8, Fields

\* The means of the nodes around a frame.
LEMMA Around ==
    ASSUME NEW f \in Flows, NEW d \in Nat
    PROVE  NodeMeaning(f)[d] \in [Nodes -> Result]
  BY NodeType

\* The parts that what is left is made from, and what is left.
LEMMA TargetsType ==
    ASSUME NEW f \in Flows, NEW s, GoodStack(s), Shaped(f, s), Len(s) > 0, NEW k \in 1..Len(s)
    PROVE  TargetsAt(f, s, k) \in Seq(STRING)
  <1>1. k = 1 \/ s[k].node \in Nodes
    BY FrameFacts
  <1>2. f.entries \in Seq(STRING)
    BY FlowAssumption
  <1> QED  BY <1>1, <1>2, FlowFields DEF TargetsAt

\* The branch of a frame that has one.
LEMMA OnlyBranch ==
    ASSUME NEW f \in Flows, NEW s, GoodStack(s), Shaped(f, s), Len(s) > 0, NEW k \in 1..Len(s),
           s[k].phase \in {"entries", "enter", "import"}
    PROVE  s[k].active[1] \in Branch /\ s[k].active = <<s[k].active[1]>>
  <1>1. s[k].active \in Seq(Branch) /\ ShapedFrame(f, s, k)
    BY FrameFacts
  <1>2. Len(s[k].active) = 1
    BY <1>1 DEF ShapedFrame
  <1> QED  BY <1>1, <1>2

LEMMA LeftToExecType ==
    ASSUME NEW f \in Flows, NEW fr \in FrameType, fr.node \in Nodes, NEW made \in Seq(Branch),
           NEW i \in Nat, NEW m \in [Nat -> [Nodes -> Result]], fr.depth + 1 \in Nat
    PROVE  LeftToExec(f, fr, made, i, m) \in Result
  <1>1. fr.active \in Seq(Branch)
    BY Fields
  <1>2. Commands(f, fr.node, fr.active) \in Seq(Result)
    BY <1>1, CommandsType
  <1>3. InTurnFrom(Commands(f, fr.node, fr.active), i) \in Result
    BY <1>2, InTurnType
  <1>4. Begun(made, <<>>) \in Result
    <2>1. <<>> \in Seq(Branch)
      OBVIOUS
    <2> QED  BY <2>1, BegunType
  <1>5. AndThen(Begun(made, <<>>), InTurnFrom(Commands(f, fr.node, fr.active), i)) \in Result
    BY <1>3, <1>4, AndThenFields
  <1>6. m[fr.depth + 1] \in [Nodes -> Result]
    OBVIOUS
  <1> QED  BY <1>5, <1>6, AndLinksLaws DEF LeftToExec

LEMMA LeftType ==
    ASSUME NEW f \in Flows, NEW s, GoodStack(s), Shaped(f, s), Len(s) > 0, NEW k \in 1..Len(s),
           s[k].phase # "entries"
    PROVE  Left(f, s[k], NodeMeaning(f)) \in Result
  <1> DEFINE fr == s[k]
             m == NodeMeaning(f)
  <1>1. m \in [Nat -> [Nodes -> Result]]
    BY NodeType
  <1>2. /\ fr \in FrameType /\ fr.node \in Nodes /\ fr.depth = k - 2 /\ k \in Nat /\ k > 1
        /\ fr.active \in Seq(Branch) /\ fr.made \in Seq(Branch)
        /\ fr.i \in Nat \ {0} /\ fr.j \in Nat \ {0} /\ fr.phase \in Phases /\ GoodFrame(k, fr)
    BY FrameFacts DEF GoodStack
  <1>3. fr.depth \in Nat /\ fr.depth + 1 \in Nat /\ fr.depth + 2 \in Nat
    BY <1>2
  <1>4. fr.phase \in {"enter", "import"} => fr.active[1] \in Branch
    BY OnlyBranch
  <1> HIDE DEF fr, m
  <1>5. /\ m[fr.depth] \in [Nodes -> Result] /\ m[fr.depth + 1] \in [Nodes -> Result]
        /\ m[fr.depth + 2] \in [Nodes -> Result]
    BY <1>1, <1>3
  <1>6. CASE fr.phase = "enter"
    <2>1. LeftToEnter(fr, m) \in Result
      BY <1>2, <1>4, <1>5, <1>6, BehindFields DEF LeftToEnter
    <2> QED  BY <1>6, <2>1 DEF Left, fr, m
  <1>7. CASE fr.phase = "import"
    <2>1. Imported(f, fr.node, m[fr.depth + 2]) \in Result
      BY <1>2, <1>5, ImportedType
    <2>2. Behind(fr.active[1], Imported(f, fr.node, m[fr.depth + 2])) \in Result
      BY <1>4, <1>7, <2>1, BehindFields
    <2>3. Begun(fr.made, <<>>) \in Result
      <3>1. <<>> \in Seq(Branch)
        OBVIOUS
      <3> QED  BY <1>2, <3>1, BegunType
    <2>4. LeftToImport(f, fr, m) \in Result
      BY <1>2, <1>5, <2>2, <2>3, AfterImportedLaws DEF LeftToImport
    <2> QED  BY <1>7, <2>4 DEF Left, fr, m
  <1>8. CASE fr.phase = "ran"
    <2>1. fr.i <= Len(fr.active)
      BY <1>2, <1>8 DEF GoodFrame, Inside
    <2>2. fr.active[fr.i] \in Branch
      BY <1>2, <2>1
    <2>3. Append(fr.made, Through(fr.active[fr.i], fr.node)) \in Seq(Branch)
      BY <1>2, <2>2 DEF Through, Branch
    <2>4. fr.i + 1 \in Nat
      BY <1>2
    <2>5. LeftToExec(f, fr, Append(fr.made, Through(fr.active[fr.i], fr.node)), fr.i + 1, m)
            \in Result
      BY <1>1, <1>2, <1>3, <2>3, <2>4, LeftToExecType
    <2> QED  BY <1>8, <2>5 DEF Left, fr, m
  <1>9. CASE fr.phase \in Inside /\ fr.phase # "ran"
    <2>1. LeftToExec(f, fr, fr.made, fr.i, m) \in Result
      BY <1>1, <1>2, <1>3, LeftToExecType
    <2> QED  BY <1>9, <2>1 DEF Left, Inside, fr, m
  <1>10. CASE fr.phase = "links"
    <2>1. Begun(fr.active, <<>>) \in Result
      <3>1. <<>> \in Seq(Branch)
        OBVIOUS
      <3> QED  BY <1>2, <3>1, BegunType
    <2>2. ASSUME ~(fr.i > Len(fr.active))
          PROVE  AndThen(InTurnFrom(BehindAll(fr.active[fr.i],
                                      AllOf(f.links[fr.node], m[fr.depth + 1])), fr.j),
                    InTurnFrom(Links(f, fr.node, fr.active, m[fr.depth + 1]), fr.i + 1))
                 \in Result
      <3>1. fr.active[fr.i] \in Branch
        BY <1>2, <2>2
      <3>2. f.links[fr.node] \in Seq(STRING)
        BY <1>2, FlowFields
      <3>3. AllOf(f.links[fr.node], m[fr.depth + 1]) \in Seq(Result)
        BY <1>5, <3>2, AllOfType
      <3>4. BehindAll(fr.active[fr.i], AllOf(f.links[fr.node], m[fr.depth + 1])) \in Seq(Result)
        BY <3>1, <3>3, BehindAllType
      <3>5. Links(f, fr.node, fr.active, m[fr.depth + 1]) \in Seq(Result)
        BY <1>2, <1>5, LinksType
      <3>6. fr.i + 1 \in Nat /\ fr.j \in Nat
        BY <1>2
      <3> QED  BY <3>4, <3>5, <3>6, InTurnType, AndThenFields
    <2>3. LeftToLink(f, fr, m) \in Result
      BY <2>1, <2>2, SmallResults DEF LeftToLink
    <2> QED  BY <1>10, <2>3 DEF Left, Inside, fr, m
  <1>11. fr.phase # "entries"
    BY DEF fr
  <1> QED  BY <1>2, <1>6, <1>7, <1>8, <1>9, <1>10, <1>11 DEF Phases, Inside, fr, m

\* What a run comes to through a frame is a result, goes on from what it had come
\* to, and stays broken.
LEMMA ResumedLaws ==
    ASSUME NEW f \in Flows, NEW s, GoodStack(s), Shaped(f, s), Len(s) > 0, NEW k \in 1..Len(s),
           NEW r \in Result, NEW tr \in Seq(Branch)
    PROVE  LET q == Resumed(f, s, k, r, NodeMeaning(f))
           IN  /\ q \in Result
               /\ q.ok => r.ok
               /\ Extends(r, tr) => Extends(q, tr)
  <1> DEFINE m == NodeMeaning(f)
             q == Resumed(f, s, k, r, m)
  <1>1. m \in [Nat -> [Nodes -> Result]]
    BY NodeType
  <1>2. /\ k \in Nat /\ k >= 1 /\ Len(s) \in Nat /\ s[k].depth = k - 2 /\ s[1].phase = "entries"
        /\ s[k].i \in Nat /\ (s[k].phase # "entries" => s[k].node \in Nodes /\ k > 1)
    BY FrameFacts
  <1>3. s[k].depth + 1 \in Nat
    BY <1>2
  <1>4. m[s[k].depth + 1] \in [Nodes -> Result]
    BY <1>1, <1>3
  <1>5. CASE s[k].phase = "entries"
    <2> DEFINE parts == BehindAll(s[k].active[1], AllOf(TargetsAt(f, s, k), m[s[k].depth + 1]))
               rest == InTurnFrom(parts, s[k].i)
    <2>1. s[k].active[1] \in Branch /\ TargetsAt(f, s, k) \in Seq(STRING)
      BY <1>5, OnlyBranch, TargetsType
    <2>2. AllOf(TargetsAt(f, s, k), m[s[k].depth + 1]) \in Seq(Result)
      BY <1>4, <2>1, AllOfType
    <2>3. parts \in Seq(Result)
      BY <2>1, <2>2, BehindAllType
    <2> HIDE DEF parts
    <2>4. rest \in Result
      BY <1>2, <2>3, InTurnType
    <2>5. q = Within(AndThen(r, rest))
      BY <1>5 DEF Resumed, parts
    <2> HIDE DEF rest, q, m
    <2>6. AndThen(r, rest) \in Result /\ (AndThen(r, rest).ok => r.ok)
      BY <2>4, AndThenFields
    <2>7. q \in Result
      <3>1. <<>> \in Branch
        BY DEF Branch
      <3> QED  BY <2>5, <2>6, <3>1, BehindWithin
    <2>8. q.ok => r.ok
      BY <2>5, <2>6 DEF Within
    <2>9. Extends(r, tr) => Extends(q, tr)
      BY <2>4, <2>5, <2>6, ExtendsAll
    <2> QED  BY <2>7, <2>8, <2>9 DEF q, m
  <1>6. CASE s[k].phase = "import" /\ k < Len(s)
    <2> DEFINE a == AfterImported(f, s[k].node, r, m[s[k].depth + 1])
               pre == s[OwnerOf(s, k)].made
    <2>1. a \in Result /\ (~r.ok => a = r)
      BY <1>2, <1>4, <1>6, AfterImportedLaws
    <2>2. Extends(r, tr) => Extends(a, tr)
      BY <1>2, <1>4, <1>6, AfterImportedExtends
    <2>3. pre \in Seq(Branch)
      <3>1. OwnerOf(s, k) \in 1..k
        BY <1>2, OwnerExists
      <3>2. OwnerOf(s, k) \in 1..Len(s)
        BY <1>2, <3>1
      <3> QED  BY <3>2, FrameFacts
    <2>4. q = AndThen(Begun(pre, <<>>), a)
      BY <1>6 DEF Resumed
    <2> HIDE DEF a, pre, q, m
    <2>5. Begun(pre, <<>>) \in Result
      <3>1. <<>> \in Seq(Branch)
        OBVIOUS
      <3> QED  BY <2>3, <3>1, BegunType
    <2>6. q \in Result /\ (q.ok => a.ok)
      BY <2>1, <2>4, <2>5, AndThenFields
    <2>7. Extends(r, tr) => Extends(q, tr)
      BY <2>1, <2>2, <2>3, <2>4, ExtendsAll
    <2> QED  BY <2>1, <2>6, <2>7 DEF q, m
  <1>7. CASE s[k].phase # "entries" /\ ~(s[k].phase = "import" /\ k < Len(s))
    <2> DEFINE l == Left(f, s[k], m)
    <2>1. l \in Result
      BY <1>7, LeftType
    <2>2. q = AndThen(r, l)
      BY <1>7 DEF Resumed
    <2> HIDE DEF l, q, m
    <2>3. q \in Result /\ (q.ok => r.ok)
      BY <2>1, <2>2, AndThenFields
    <2>4. Extends(r, tr) => Extends(q, tr)
      BY <2>1, <2>2, ExtendsAll
    <2> QED  BY <2>3, <2>4 DEF q, m
  <1> QED  BY <1>5, <1>6, <1>7

\* What is known of a run that goes on.
LEMMA GoingFacts ==
    ASSUME NEW f, NEW s, NEW tr, NEW C, Going(f, s, tr, C)
    PROVE  /\ f \in Flows /\ GoodStack(s) /\ Shaped(f, s) /\ Len(s) > 0 /\ Len(s) \in Nat
           /\ tr \in Seq(Branch) /\ s[1].phase = "entries"
           /\ C \in [1..Len(s) + 1 -> Result]
           /\ OwnerOf(s, Len(s)) \in 1..Len(s)
           /\ s[OwnerOf(s, Len(s))].made \in Seq(Branch)
           /\ C[Len(s) + 1] = Begun(s[OwnerOf(s, Len(s))].made, tr)
           /\ \A k \in 1..Len(s) : C[k] = Resumed(f, s, k, C[k + 1], NodeMeaning(f))
           /\ C[1] = Meaning(f)
           /\ \A k \in 1..Len(s) + 1 : C[k] \in Result
  <1>1. f \in Flows /\ GoodStack(s) /\ Shaped(f, s) /\ Len(s) > 0 /\ tr \in Seq(Branch)
    BY DEF Going
  <1>2. /\ C \in [1..Len(s) + 1 -> Result] /\ C[1] = Meaning(f)
        /\ C[Len(s) + 1] = Begun(s[OwnerOf(s, Len(s))].made, tr)
        /\ \A k \in 1..Len(s) : C[k] = Resumed(f, s, k, C[k + 1], NodeMeaning(f))
    BY DEF Going, Follows
  <1>3. Len(s) \in Nat
    BY <1>1 DEF GoodStack
  <1>4. 1 \in 1..Len(s) /\ Len(s) \in 1..Len(s)
    BY <1>1, <1>3
  <1>5. s[1].phase = "entries"
    BY <1>1, <1>4, FrameFacts
  <1>6. OwnerOf(s, Len(s)) \in 1..Len(s)
    BY <1>1, <1>3, <1>5, OwnerExists
  <1>7. s[OwnerOf(s, Len(s))].made \in Seq(Branch)
    BY <1>1, <1>6, FrameFacts
  <1> QED  BY <1>1, <1>2, <1>3, <1>5, <1>6, <1>7

\* The commands that ran are those the flow means to run first.
LEMMA RanFollows ==
    ASSUME NEW f, NEW s, NEW tr, NEW C, Going(f, s, tr, C),
           NEW k0 \in 1..Len(s) + 1, NEW t \in Seq(Branch), Extends(C[k0], t)
    PROVE  Extends(Meaning(f), t)
  <1> DEFINE T == {n \in Nat : n + 1 \in 1..k0 => Extends(C[n + 1], t)}
             N == k0 - 1
  <1>1. /\ f \in Flows /\ GoodStack(s) /\ Shaped(f, s) /\ Len(s) > 0 /\ Len(s) \in Nat
        /\ \A k \in 1..Len(s) : C[k] = Resumed(f, s, k, C[k + 1], NodeMeaning(f))
        /\ C[1] = Meaning(f)
        /\ \A k \in 1..Len(s) + 1 : C[k] \in Result
    BY GoingFacts
  <1>2. N \in Nat /\ N \in T
    <2>1. N \in Nat /\ N + 1 = k0
      BY <1>1
    <2> QED  BY <2>1
  <1>3. ASSUME NEW n \in 1..N, n \in T PROVE n - 1 \in T
    <2>1. /\ n \in Nat /\ n - 1 \in Nat /\ (n - 1) + 1 = n /\ n \in 1..Len(s)
          /\ n + 1 \in 1..k0 /\ n + 1 \in 1..Len(s) + 1
      BY <1>1
    <2>2. Extends(C[n + 1], t)
      BY <1>3, <2>1
    <2>3. C[n + 1] \in Result /\ C[n] = Resumed(f, s, n, C[n + 1], NodeMeaning(f))
      BY <1>1, <2>1
    <2>4. Extends(C[n], t)
      BY <1>1, <2>1, <2>2, <2>3, ResumedLaws
    <2> QED  BY <2>1, <2>4
  <1>4. 0 \in T
    <2> HIDE DEF T, N
    <2> QED  BY <1>2, <1>3, Downward
  <1>5. 0 + 1 \in 1..k0
    BY <1>1
  <1>6. Extends(C[0 + 1], t)
    BY <1>4, <1>5
  <1> QED  BY <1>1, <1>6

\* A part that is broken breaks the flow.
LEMMA BreaksFlow ==
    ASSUME NEW f, NEW s, NEW tr, NEW C, Going(f, s, tr, C),
           NEW k0 \in 1..Len(s) + 1, ~C[k0].ok
    PROVE  ~Meaning(f).ok
  <1> DEFINE T == {n \in Nat : n + 1 \in 1..k0 => ~C[n + 1].ok}
             N == k0 - 1
  <1>1. /\ f \in Flows /\ GoodStack(s) /\ Shaped(f, s) /\ Len(s) > 0 /\ Len(s) \in Nat
        /\ \A k \in 1..Len(s) : C[k] = Resumed(f, s, k, C[k + 1], NodeMeaning(f))
        /\ C[1] = Meaning(f)
        /\ \A k \in 1..Len(s) + 1 : C[k] \in Result
    BY GoingFacts
  <1>2. N \in Nat /\ N \in T
    <2>1. N \in Nat /\ N + 1 = k0
      BY <1>1
    <2> QED  BY <2>1
  <1>3. ASSUME NEW n \in 1..N, n \in T PROVE n - 1 \in T
    <2>1. /\ n \in Nat /\ n - 1 \in Nat /\ (n - 1) + 1 = n /\ n \in 1..Len(s)
          /\ n + 1 \in 1..k0 /\ n + 1 \in 1..Len(s) + 1
      BY <1>1
    <2>2. ~C[n + 1].ok
      BY <1>3, <2>1
    <2>3. C[n + 1] \in Result /\ C[n] = Resumed(f, s, n, C[n + 1], NodeMeaning(f))
      BY <1>1, <2>1
    <2>4. tr \in Seq(Branch)
      BY GoingFacts
    <2>5. Resumed(f, s, n, C[n + 1], NodeMeaning(f)).ok => C[n + 1].ok
      BY <1>1, <2>1, <2>3, <2>4, ResumedLaws
    <2>6. ~C[n].ok
      BY <2>2, <2>3, <2>5
    <2> QED  BY <2>1, <2>6
  <1>4. 0 \in T
    <2> HIDE DEF T, N
    <2> QED  BY <1>2, <1>3, Downward
  <1>5. 0 + 1 \in 1..k0
    BY <1>1
  <1>6. ~C[0 + 1].ok
    BY <1>4, <1>5
  <1> QED  BY <1>1, <1>6

\* What a run comes to through a frame is the same when the stack has changed
\* elsewhere.
LEMMA SameResumed ==
    ASSUME NEW f, NEW s, NEW t, NEW k, NEW r, NEW m, t[k] = s[k],
           s[k].phase # "import" \/ (/\ k < Len(s) <=> k < Len(t)
                                     /\ t[OwnerOf(t, k)].made = s[OwnerOf(s, k)].made)
    PROVE  Resumed(f, t, k, r, m) = Resumed(f, s, k, r, m)
  BY DEF Resumed, TargetsAt

\* A stack t that differs from s from frame n on, where what the run comes to does
\* not differ below.
Rebuilds(f, s, C, n, t, tr2, E) ==
    /\ Len(t) \in Nat /\ Len(t) > 0 /\ t[1].phase = "entries" /\ tr2 \in Seq(Branch)
    /\ n \in 1..Len(s) /\ n <= Len(t) + 1 /\ \A k \in 1..n - 1 : t[k] = s[k]
    /\ n = Len(t) + 1 => s[n - 1].phase # "import"
    /\ E \in [1..Len(t) + 1 -> Result] /\ \A k \in 1..n : E[k] = C[k]
    /\ \A k \in n..Len(t) : E[k] = Resumed(f, t, k, E[k + 1], NodeMeaning(f))
    /\ E[Len(t) + 1] = Begun(t[OwnerOf(t, Len(t))].made, tr2)

\* It is enough to rebuild it from where the stack changed.
LEMMA Rebuilt ==
    ASSUME NEW f, NEW s, NEW tr, NEW C, Going(f, s, tr, C),
           NEW n, NEW t, NEW tr2, NEW E, Rebuilds(f, s, C, n, t, tr2, E)
    PROVE  Follows(f, t, tr2, E, NodeMeaning(f))
  <1> USE DEF Rebuilds
  <1> DEFINE m == NodeMeaning(f)
  <1>1. /\ Len(s) \in Nat /\ s[1].phase = "entries" /\ C[1] = Meaning(f)
        /\ \A k \in 1..Len(s) : C[k] = Resumed(f, s, k, C[k + 1], m)
    BY GoingFacts
  <1> HIDE DEF m
  <1>2. ASSUME NEW k \in 1..n - 1 PROVE E[k] = Resumed(f, t, k, E[k + 1], m)
    <2>1. /\ k \in 1..n /\ k + 1 \in 1..n /\ k \in 1..Len(s) /\ k < Len(s) /\ k \in Nat /\ k >= 1
          /\ n \in Nat
      BY <1>1
    <2>2. E[k] = C[k] /\ E[k + 1] = C[k + 1] /\ t[k] = s[k]
      BY <2>1
    <2>3. C[k] = Resumed(f, s, k, C[k + 1], m)
      BY <1>1, <2>1
    <2>4. CASE s[k].phase = "import"
      <3>1. k < Len(t)
        <4>1. n = Len(t) + 1 => k # n - 1
          BY <2>4
        <4> QED  BY <2>1, <4>1
      <3>2. \A l \in 1..k : l \in 1..n - 1
        BY <2>1
      <3>3. \A l \in 1..k : s[l].phase = t[l].phase
        BY <3>2
      <3>4. OwnerOf(s, k) = OwnerOf(t, k)
        BY <1>1, <2>1, <3>3, SameOwner
      <3>5. OwnerOf(s, k) \in 1..k
        BY <1>1, <2>1, OwnerExists
      <3>6. t[OwnerOf(t, k)].made = s[OwnerOf(s, k)].made
        BY <3>2, <3>4, <3>5
      <3> QED  BY <2>1, <2>2, <2>3, <3>1, <3>6, SameResumed
    <2>5. CASE s[k].phase # "import"
      BY <2>2, <2>3, <2>5, SameResumed
    <2> QED  BY <2>4, <2>5
  <1>3. ASSUME NEW k \in 1..Len(t) PROVE E[k] = Resumed(f, t, k, E[k + 1], m)
    <2>1. k \in 1..n - 1 \/ k \in n..Len(t)
      BY <1>1
    <2> QED  BY <1>2, <2>1 DEF m
  <1>4. E[1] = Meaning(f)
    <2>1. 1 \in 1..n
      BY <1>1
    <2> QED  BY <1>1, <2>1
  <1> QED  BY <1>3, <1>4 DEF Follows, m

-----------------------------------------------------------------------------
(* The steps of the innermost call. *)

-----------------------------------------------------------------------------
(* The innermost call goes on. *)

\* The innermost call of s becomes g, and what is left stays the same.
TopChange(f, s, tr, C, n, g, t, tr2) ==
    /\ Going(f, s, tr, C) /\ n = Len(s) /\ s[n].phase # "entries" /\ g.phase # "entries"
    /\ t = [s EXCEPT ![n] = g] /\ GoodStack(t) /\ ShapedFrame(f, t, n) /\ tr2 \in Seq(Branch)
    /\ \A p \in Seq(Branch) : AndThen(Begun(p, tr), Left(f, s[n], NodeMeaning(f)))
                                = AndThen(Begun(p, tr2), Left(f, g, NodeMeaning(f)))

\* The innermost call changes and comes to the same.
LEMMA TopChanges ==
    ASSUME NEW f, NEW s, NEW tr, NEW C, NEW n, NEW g, NEW t, NEW tr2,
           TopChange(f, s, tr, C, n, g, t, tr2)
    PROVE  \E E : Going(f, t, tr2, E)
  <1> USE DEF TopChange
  <1> DEFINE m == NodeMeaning(f)
             o == OwnerOf(s, n)
             p == s[o].made
             E == [C EXCEPT ![n + 1] = Begun(p, tr2)]
  <1>1. /\ f \in Flows /\ GoodStack(s) /\ Shaped(f, s) /\ n > 0 /\ n \in Nat /\ n \in 1..n
        /\ s[1].phase = "entries" /\ C \in [1..n + 1 -> Result] /\ p \in Seq(Branch)
        /\ o \in 1..n /\ C[n + 1] = Begun(p, tr) /\ C[n] = Resumed(f, s, n, C[n + 1], m)
    BY GoingFacts
  <1>2. n > 1
    BY <1>1
  <1>3. /\ s \in Seq(FrameType) /\ Len(t) = n /\ t[n] = g
        /\ \A k \in 1..n - 1 : t[k] = s[k]
    BY <1>1 DEF GoodStack
  <1>4. o \in 1..n - 1
    <2>1. s[o].phase = "entries"
      BY <1>1, OwnerExists DEF Owns
    <2> QED  BY <1>1, <2>1
  <1>5. OwnerOf(t, n) = o
    <2>1. Owns(s, o, n)
      BY <1>1, OwnerExists
    <2>2. \A l \in o + 1..n : l = n \/ l \in 1..n - 1
      BY <1>1
    <2>3. Owns(t, o, n)
      BY <1>3, <1>4, <2>1, <2>2 DEF Owns
    <2>4. t[1].phase = "entries"
      BY <1>1, <1>2, <1>3
    <2>5. n >= 1 /\ n \in Nat
      BY <1>1
    <2> HIDE DEF o
    <2> QED  BY <2>3, <2>4, <2>5, OwnerExists
  <1>6. t[OwnerOf(t, n)].made = p
    BY <1>3, <1>4, <1>5
  <1>7. Begun(p, tr2) \in Result
    BY <1>1, BegunType
  <1> HIDE DEF p, o, m
  <1>8. /\ E \in [1..n + 1 -> Result] /\ E[n + 1] = Begun(p, tr2)
        /\ \A k \in 1..n : E[k] = C[k]
    BY <1>1, <1>7
  <1> HIDE DEF E
  <1>9. E[n] = Resumed(f, t, n, E[n + 1], m)
    <2>1. C[n] = AndThen(Begun(p, tr), Left(f, s[n], m))
      BY <1>1 DEF Resumed
    <2>2. Resumed(f, t, n, E[n + 1], m) = AndThen(Begun(p, tr2), Left(f, g, m))
      BY <1>3, <1>8 DEF Resumed
    <2> QED  BY <1>1, <1>8, <2>1, <2>2 DEF m
  <1>10. Follows(f, t, tr2, E, NodeMeaning(f))
    <2>1. t[1].phase = "entries"
      BY <1>1, <1>2, <1>3
    <2>2. n # n + 1 /\ n <= n + 1 /\ n \in 1..Len(s) /\ Len(t) \in Nat /\ Len(t) > 0
      BY <1>1, <1>3
    <2>3. ASSUME NEW k \in n..Len(t) PROVE E[k] = Resumed(f, t, k, E[k + 1], m)
      <3>1. k = n
        BY <1>1, <1>3
      <3> QED  BY <1>9, <3>1
    <2>4. /\ E \in [1..Len(t) + 1 -> Result]
          /\ E[Len(t) + 1] = Begun(t[OwnerOf(t, Len(t))].made, tr2)
          /\ n <= Len(t) + 1 /\ n # Len(t) + 1
      BY <1>3, <1>6, <1>8, <2>2
    <2>5. \A k \in 1..n - 1 : t[k] = s[k]
      BY <1>3
    <2>6. \A k \in 1..n : E[k] = C[k]
      BY <1>8
    <2>7. \A k \in n..Len(t) : E[k] = Resumed(f, t, k, E[k + 1], NodeMeaning(f))
      BY <2>3 DEF m
    <2> HIDE DEF m
    <2>8. Rebuilds(f, s, C, n, t, tr2, E)
      BY <2>1, <2>2, <2>4, <2>5, <2>6, <2>7 DEF Rebuilds
    <2> QED  BY <2>8, Rebuilt
  <1>11. Shaped(f, t)
    <2>1. ASSUME NEW k \in 1..n PROVE ShapedFrame(f, t, k)
      <3>1. CASE k = n
        BY <3>1
      <3>2. CASE k # n
        <4>1. k \in 1..n - 1 /\ (k > 1 => k - 1 \in 1..n - 1) /\ (k > 1 \/ k = 1)
          BY <1>1, <3>2
        <4>2. t[k] = s[k] /\ (k > 1 => t[k - 1] = s[k - 1])
          BY <1>3, <4>1
        <4>3. ShapedFrame(f, s, k)
          BY <1>1 DEF Shaped
        <4> QED  BY <1>3, <4>1, <4>2, <4>3 DEF ShapedFrame
      <3> QED  BY <3>1, <3>2
    <2> QED  BY <1>3, <2>1 DEF Shaped
  <1> QED  BY <1>1, <1>3, <1>10, <1>11 DEF Going

\* The links, from one branch on.
LEMMA LinksAt ==
    ASSUME NEW f \in Flows, NEW n \in Nodes, NEW bs \in Seq(Branch), NEW i \in Nat \ {0},
           NEW m \in [Nodes -> Result], f.links[n] # <<>>
    PROVE  InTurnFrom(Links(f, n, bs, m), i)
             = IF i > Len(bs) THEN Nothing
               ELSE AndThen(InTurnFrom(BehindAll(bs[i], AllOf(f.links[n], m)), 1),
                            InTurnFrom(Links(f, n, bs, m), i + 1))
  <1> DEFINE L == Links(f, n, bs, m)
             A == AllOf(f.links[n], m)
  <1>1. L \in Seq(Result) /\ Len(L) = Len(bs) /\ Len(bs) \in Nat
    BY LinksType
  <1>2. A \in Seq(Result)
    BY FlowFields, AllOfType
  <1>3. \A k \in 1..Len(bs) : L[k] = Behind(bs[k], InTurn(A))
    BY DEF Links
  <1> HIDE DEF L, A
  <1>4. CASE i > Len(bs)
    <2>1. i \notin 1..Len(L)
      BY <1>1, <1>4
    <2> QED  BY <1>1, <1>4, <2>1, InTurnStep DEF L
  <1>5. CASE ~(i > Len(bs))
    <2>1. i \in 1..Len(bs) /\ bs[i] \in Branch /\ i \in Nat
      BY <1>1, <1>5
    <2>2. L[i] = InTurnFrom(BehindAll(bs[i], A), 1)
      BY <1>2, <1>3, <2>1, BehindInTurn DEF InTurn
    <2>3. InTurnFrom(L, i) = AndThen(L[i], InTurnFrom(L, i + 1))
      BY <1>1, <2>1, InTurnStep
    <2> QED  BY <1>5, <2>2, <2>3 DEF L, A
  <1> QED  BY <1>4, <1>5

\* A node begins with its links.
LEMMA LinksBegin ==
    ASSUME NEW f \in Flows, NEW g, g.node \in Nodes, NEW bs \in Seq(Branch),
           g.active = bs, g.i = 1, g.j = 1, NEW m \in [Nat -> [Nodes -> Result]],
           g.depth + 1 \in Nat
    PROVE  LeftToLink(f, g, m) = AndLinks(f, g.node, Begun(bs, <<>>), m[g.depth + 1])
  <1> DEFINE M == m[g.depth + 1]
             n == g.node
             L == Links(f, n, bs, M)
  <1>1. M \in [Nodes -> Result]
    OBVIOUS
  <1>2. L \in Seq(Result) /\ Len(L) = Len(bs)
    BY <1>1, LinksType
  <1>3. AndLinks(f, n, Begun(bs, <<>>), M) = InTurn(L)
    <2>1. AndLinks(f, n, Begun(bs, <<>>), M) = AndThen(Begun(<<>>, <<>>), InTurn(L))
      BY DEF AndLinks, Onto, Begun
    <2>2. InTurn(L) \in Result
      BY <1>2, InTurnType DEF InTurn
    <2> QED  BY <2>1, <2>2, AndNothing, SmallResults
  <1>4. CASE f.links[n] = <<>>
    <2>1. \A k \in 1..Len(bs) : L[k] = Just(bs[k])
      BY <1>4 DEF Links
    <2>2. InTurn(L) = Begun(bs, <<>>)
      BY <1>2, <2>1, InTurnOf
    <2> QED  BY <1>3, <1>4, <2>2 DEF LeftToLink
  <1>5. CASE f.links[n] # <<>>
    <2>1. 1 \in Nat \ {0}
      OBVIOUS
    <2>2. InTurnFrom(L, 1)
            = IF 1 > Len(bs) THEN Nothing
              ELSE AndThen(InTurnFrom(BehindAll(bs[1], AllOf(f.links[n], M)), 1),
                           InTurnFrom(L, 1 + 1))
      BY <1>1, <1>5, <2>1, LinksAt
    <2> QED  BY <1>3, <1>5, <2>2 DEF LeftToLink, InTurn
  <1> QED  BY <1>4, <1>5

\* A node begins with its command, or with its links when it has none.
LEMMA NodeBegins ==
    ASSUME NEW f \in Flows, NEW g, g.node \in Nodes, NEW bs \in Seq(Branch),
           g.active = bs, g.made = <<>>, g.i = 1, g.j = 1,
           g.phase = IF g.node \in f.execs THEN "exec" ELSE "links",
           NEW m \in [Nat -> [Nodes -> Result]], g.depth + 1 \in Nat
    PROVE  Left(f, g, m) = AfterImported(f, g.node, Begun(bs, <<>>), m[g.depth + 1])
  <1> DEFINE M == m[g.depth + 1]
             n == g.node
             X == Commands(f, n, bs)
  <1>1. M \in [Nodes -> Result] /\ X \in Seq(Result) /\ Len(X) = Len(bs)
    BY CommandsType
  <1>2. Onto(Begun(bs, <<>>), X) = AndThen(Begun(<<>>, <<>>), InTurn(X))
    BY DEF Onto, Begun
  <1>3. AfterImported(f, n, Begun(bs, <<>>), M) = AndLinks(f, n, Onto(Begun(bs, <<>>), X), M)
    <2>1. Begun(bs, <<>>).outs = bs
      BY DEF Begun
    <2> QED  BY <2>1 DEF AfterImported
  <1>4. CASE n \in f.execs
    <2>1. Left(f, g, m) = LeftToExec(f, g, <<>>, 1, m)
      BY <1>4 DEF Left, Inside
    <2> QED  BY <1>2, <1>3, <2>1 DEF LeftToExec, InTurn
  <1>5. CASE n \notin f.execs
    <2>1. Left(f, g, m) = LeftToLink(f, g, m)
      BY <1>5 DEF Left, Inside
    <2>2. \A k \in 1..Len(bs) : X[k] = Just(bs[k])
      BY <1>5 DEF Commands
    <2>3. InTurn(X) = Begun(bs, <<>>)
      BY <1>1, <2>2, InTurnOf
    <2>4. <<>> \in Seq(Branch)
      OBVIOUS
    <2>5. AndThen(Begun(<<>>, <<>>), Begun(bs, <<>>)) = Begun(bs, <<>>)
      BY <2>4, BegunType, AndNothing, SmallResults
    <2> HIDE DEF X
    <2>6. LeftToLink(f, g, m) = AndLinks(f, n, Begun(bs, <<>>), M)
      BY LinksBegin
    <2> QED  BY <1>2, <1>3, <2>1, <2>3, <2>5, <2>6
  <1> QED  BY <1>4, <1>5

\* What is known of the innermost call.
LEMMA GoingTop ==
    ASSUME NEW f, NEW s, NEW tr, NEW C, Going(f, s, tr, C), NEW n, n = Len(s)
    PROVE  /\ f \in Flows /\ GoodStack(s) /\ Shaped(f, s) /\ n > 0 /\ n \in Nat /\ n \in 1..n
           /\ n \in 1..n + 1 /\ n + 1 \in 1..n + 1
           /\ tr \in Seq(Branch) /\ s \in Seq(FrameType) /\ s[1].phase = "entries"
           /\ C \in [1..n + 1 -> Result]
           /\ C[n] = Resumed(f, s, n, C[n + 1], NodeMeaning(f))
           /\ C[n + 1] = Begun(s[OwnerOf(s, n)].made, tr)
           /\ C[n] \in Result /\ C[n + 1] \in Result
           /\ OwnerOf(s, n) \in 1..n /\ s[OwnerOf(s, n)].made \in Seq(Branch)
           /\ ShapedFrame(f, s, n) /\ GoodFrame(n, s[n]) /\ s[n].depth = n - 2
  <1>1. /\ f \in Flows /\ GoodStack(s) /\ Shaped(f, s) /\ n > 0 /\ n \in Nat
        /\ tr \in Seq(Branch) /\ s[1].phase = "entries"
        /\ C \in [1..n + 1 -> Result]
        /\ C[n + 1] = Begun(s[OwnerOf(s, n)].made, tr)
        /\ \A k \in 1..n : C[k] = Resumed(f, s, k, C[k + 1], NodeMeaning(f))
        /\ OwnerOf(s, n) \in 1..n /\ s[OwnerOf(s, n)].made \in Seq(Branch)
    BY GoingFacts
  <1>2. n \in 1..n /\ n \in 1..n + 1 /\ n + 1 \in 1..n + 1
    BY <1>1
  <1>3. C[n] = Resumed(f, s, n, C[n + 1], NodeMeaning(f)) /\ C[n] \in Result /\ C[n + 1] \in Result
    BY <1>1, <1>2
  <1>4. s \in Seq(FrameType) /\ ShapedFrame(f, s, n) /\ GoodFrame(n, s[n])
    BY <1>1, <1>2 DEF Shaped, GoodStack
  <1>5. s[n].depth = n - 2
    BY <1>4 DEF GoodFrame
  <1> QED  BY <1>1, <1>2, <1>3, <1>4, <1>5

\* A call that goes on in its place keeps the shape.
LEMMA TopShaped ==
    ASSUME NEW f, NEW s, NEW n, n = Len(s), n \in Nat, n > 0, s \in Seq(FrameType), Shaped(f, s),
           s[n].phase # "entries", NEW g, g.phase # "entries", g.node = s[n].node,
           NEW t, t = [s EXCEPT ![n] = g],
           g.phase # "links" => g.j = 1,
           g.phase \in {"enter", "import"} => Len(g.active) = 1,
           g.phase = "import" => /\ f.child[g.node] # <<>>
                                 /\ (g.i = 1 /\ g.made = <<>>) \/ g.i = 2,
           g.phase \in Inside => g.node \in f.execs,
           (g.phase = "links" /\ f.links[g.node] # <<>>) => g.j <= Len(f.links[g.node])
    PROVE  ShapedFrame(f, t, n)
  <1>1. n \in 1..n /\ ShapedFrame(f, s, n)
    BY DEF Shaped
  <1>2. n # 1 /\ s[n - 1].phase # "import" /\ s[n].node \in Nodes
    BY <1>1 DEF ShapedFrame
  <1>3. n > 1 /\ n - 1 \in 1..n /\ n - 1 # n
    BY <1>2
  <1>4. Len(t) = n /\ t[n] = g /\ t[n - 1] = s[n - 1]
    BY <1>3
  <1> QED  BY <1>1, <1>2, <1>4 DEF ShapedFrame

\* A failing part makes the whole fail.
LEMMA AndThenFails ==
    ASSUME NEW r \in Result, NEW s \in Result, ~s.ok
    PROVE  ~AndThen(r, s).ok
  BY AndThenFields

\* What a node within the bound means.
LEMMA EnterMeans ==
    ASSUME NEW f \in Flows, NEW n \in Nodes, NEW d \in Nat, d <= MaxDepth, NEW b \in Branch
    PROVE  LET m == NodeMeaning(f)
               I == Imported(f, n, m[d + 2])
           IN  /\ Behind(b, m[d][n]) = AfterImported(f, n, Behind(b, I), m[d + 1])
               /\ f.child[n] = <<>> => Behind(b, I) = Begun(<<b>>, <<>>)
  <1> DEFINE m == NodeMeaning(f)
             I == Imported(f, n, m[d + 2])
  <1>1. m \in [Nat -> [Nodes -> Result]] /\ d + 1 \in Nat /\ d + 2 \in Nat
    BY NodeType
  <1>2. m[d + 1] \in [Nodes -> Result] /\ m[d + 2] \in [Nodes -> Result]
    BY <1>1
  <1>3. I \in Result
    BY <1>2, ImportedType
  <1>4. ~(d > MaxDepth)
    BY FlowAssumption
  <1>5. m[d][n] = AfterImported(f, n, I, m[d + 1])
    BY <1>4, NodeMeans
  <1>6. f.child[n] = <<>> => I = Just(<<>>)
    BY DEF Imported
  <1>7. <<>> \in Branch /\ b \o <<>> = b
    BY DEF Branch
  <1> HIDE DEF I
  <1>8. Behind(b, m[d][n]) = AfterImported(f, n, Behind(b, I), m[d + 1])
    BY <1>2, <1>3, <1>5, AfterImportedLaws
  <1>9. Behind(b, Just(<<>>)) = Just(b) /\ Just(b) = Begun(<<b>>, <<>>)
    <2>1. Behind(b, Just(<<>>)) = Just(b \o <<>>)
      BY <1>3, <1>7, BehindSmall
    <2> QED  BY <1>7, <2>1, SmallResults
  <1> QED  BY <1>6, <1>8, <1>9 DEF I

\* The frame of kc_flow_run_node once it is past its checks.
Entered(f, fr) ==
    [fr EXCEPT !.phase = IF f.child[fr.node] # <<>> THEN "import"
                         ELSE IF fr.node \in f.execs THEN "exec" ELSE "links"]

\* kc_flow_run_node is called: what is left is what the node means there.
LEMMA EnterGoesOn ==
    ASSUME NEW f, NEW s, NEW tr, NEW C, Going(f, s, tr, C), NEW n, n = Len(s),
           s[n].phase = "enter", s[n].depth <= MaxDepth,
           NEW t, t = [s EXCEPT ![n] = Entered(f, s[n])], GoodStack(t)
    PROVE  \E E : Going(f, t, tr, E)
  <1> DEFINE m == NodeMeaning(f)
             fr == s[n]
             nd == fr.node
             d == fr.depth
             b == fr.active[1]
             g == Entered(f, fr)
             I == Imported(f, nd, m[d + 2])
  <1>1. /\ f \in Flows /\ GoodStack(s) /\ Shaped(f, s) /\ n > 0 /\ n \in Nat /\ n \in 1..n
        /\ tr \in Seq(Branch) /\ s \in Seq(FrameType)
    BY GoingTop
  <1>2. /\ fr \in FrameType /\ fr.depth = n - 2 /\ nd \in Nodes /\ n > 1
        /\ fr.made = <<>> /\ fr.i = 1 /\ ShapedFrame(f, s, n)
    BY <1>1, FrameFacts DEF GoodStack, GoodFrame
  <1>3. fr.j = 1 /\ Len(fr.active) = 1
    BY <1>2 DEF ShapedFrame
  <1>4. b \in Branch /\ fr.active = <<b>>
    BY <1>1, OnlyBranch
  <1>5. /\ g \in FrameType /\ g.node = nd /\ g.active = <<b>> /\ g.made = <<>> /\ g.i = 1 /\ g.j = 1
        /\ g.depth = d /\ Len(g.active) = 1
        /\ g.phase = IF f.child[nd] # <<>> THEN "import"
                     ELSE IF nd \in f.execs THEN "exec" ELSE "links"
    BY <1>2, <1>3, <1>4 DEF FrameType, Phases, Entered
  <1>6. d \in Nat /\ d + 1 \in Nat /\ d + 2 \in Nat /\ d <= MaxDepth
    BY <1>2
  <1>7. t = [s EXCEPT ![n] = g] /\ s[n] = fr /\ fr.phase = "enter"
    OBVIOUS
  <1>8. m \in [Nat -> [Nodes -> Result]] /\ m = NodeMeaning(f)
    BY <1>1, NodeType
  <1>9. Left(f, fr, m) = Behind(b, m[d][nd])
    BY DEF Left, LeftToEnter
  <1>10. Left(f, g, m) = AfterImported(f, nd, Behind(b, I), m[d + 1])
    <2> HIDE DEF m, nd, d, b, fr, g
    <2>1. CASE f.child[nd] # <<>>
      <3>1. g.phase = "import" /\ g.active[1] = b
        BY <1>5, <2>1
      <3>2. Left(f, g, m) = LeftToImport(f, g, m)
        BY <3>1 DEF Left
      <3> QED  BY <1>5, <3>1, <3>2 DEF LeftToImport
    <2>2. CASE f.child[nd] = <<>>
      <3>1. Behind(b, I) = Begun(<<b>>, <<>>)
        BY <1>1, <1>2, <1>4, <1>6, <2>2, EnterMeans DEF m
      <3>2. <<b>> \in Seq(Branch)
        BY <1>4
      <3>3. g.phase = IF g.node \in f.execs THEN "exec" ELSE "links"
        BY <1>5, <2>2
      <3>4. g.node \in Nodes /\ g.depth + 1 \in Nat
        BY <1>2, <1>5, <1>6
      <3> HIDE DEF I
      <3>5. Left(f, g, m) = AfterImported(f, g.node, Begun(<<b>>, <<>>), m[g.depth + 1])
        BY <1>1, <1>5, <1>8, <3>2, <3>3, <3>4, NodeBegins
      <3> QED  BY <1>5, <3>1, <3>5
    <2> QED  BY <2>1, <2>2
  <1> HIDE DEF m, nd, d, b, fr, g
  <1>11. Left(f, fr, m) = Left(f, g, m)
    <2> HIDE DEF I
    <2>1. Behind(b, m[d][nd]) = AfterImported(f, nd, Behind(b, I), m[d + 1])
      <3>1. f \in Flows /\ nd \in Nodes /\ d \in Nat /\ d <= MaxDepth /\ b \in Branch
        BY <1>1, <1>2, <1>4, <1>6, <1>8
      <3> QED  BY <3>1, EnterMeans DEF I, m
    <2> QED  BY <1>9, <1>10, <2>1
  <1>12. /\ g.phase # "entries" /\ (g.phase = "import" => f.child[g.node] # <<>>)
         /\ g.phase \in Inside => g.node \in f.execs
    BY <1>5 DEF Inside
  <1>13. f.links[nd] # <<>> => 1 <= Len(f.links[nd])
    <2>1. f.links[nd] \in Seq(STRING)
      BY <1>1, <1>2, FlowFields
    <2> QED  BY <2>1
  <1>14. ShapedFrame(f, t, n)
    <2>1. fr.phase # "entries" /\ g.node = fr.node
      BY <1>5, <1>7 DEF nd
    <2>2. (g.phase = "links" /\ f.links[g.node] # <<>>) => g.j <= Len(f.links[g.node])
      BY <1>5, <1>13
    <2> QED  BY <1>1, <1>5, <1>7, <1>12, <2>1, <2>2, TopShaped
  <1>15. \A p \in Seq(Branch) : AndThen(Begun(p, tr), Left(f, s[n], NodeMeaning(f)))
                                  = AndThen(Begun(p, tr), Left(f, g, NodeMeaning(f)))
    BY <1>7, <1>8, <1>11
  <1>16. s[n].phase # "entries" /\ g.phase # "entries" /\ tr \in Seq(Branch)
    BY <1>1, <1>7, <1>12
  <1>17. t = [s EXCEPT ![n] = g]
    BY <1>7
  <1>18. TopChange(f, s, tr, C, n, g, t, tr)
    BY <1>14, <1>15, <1>16, <1>17 DEF TopChange
  <1> QED  BY <1>18, TopChanges

\* Past the bound a node means nothing but an error.
LEMMA EnterTooDeep ==
    ASSUME NEW f, NEW s, NEW tr, NEW C, Going(f, s, tr, C), NEW n, n = Len(s),
           s[n].phase = "enter", s[n].depth > MaxDepth
    PROVE  ~Meaning(f).ok
  <1> DEFINE m == NodeMeaning(f)
             b == s[n].active[1]
  <1>1. /\ f \in Flows /\ GoodStack(s) /\ Shaped(f, s) /\ n > 0 /\ n \in Nat /\ n \in 1..n
        /\ C[n] = Resumed(f, s, n, C[n + 1], m) /\ C[n + 1] \in Result
        /\ n \in 1..n + 1 /\ n + 1 \in 1..n + 1
    BY GoingTop
  <1>2. s[n].depth = n - 2 /\ s[n].node \in Nodes /\ n > 1
    BY <1>1, FrameFacts
  <1>3. s[n].depth \in Nat
    BY <1>2
  <1>4. m[s[n].depth][s[n].node] = Broken
    BY <1>1, <1>2, <1>3, NodeMeans
  <1>5. b \in Branch
    BY <1>1, OnlyBranch
  <1>6. Left(f, s[n], m) = Broken
    BY <1>4, <1>5, BehindSmall, SmallResults DEF Left, LeftToEnter
  <1>7. C[n] = AndThen(C[n + 1], Broken)
    BY <1>1, <1>6 DEF Resumed
  <1> HIDE DEF m, b
  <1>8. ~AndThen(C[n + 1], Broken).ok
    BY <1>1, AndThenFails, SmallResults
  <1> QED  BY <1>1, <1>7, <1>8, BreaksFlow

\* The frame of a node that goes on to its next phase with what it made.
Moved(fr, phase) ==
    [fr EXCEPT !.phase = phase, !.active = fr.made, !.made = <<>>, !.i = 1]

\* What is left of a node between two of its phases.
LEMMA TopFields ==
    ASSUME NEW f, NEW s, NEW tr, NEW C, Going(f, s, tr, C), NEW n, n = Len(s),
           s[n].phase # "entries"
    PROVE  /\ f \in Flows /\ n \in Nat /\ n > 1 /\ tr \in Seq(Branch)
           /\ s[n] \in FrameType /\ s[n].node \in Nodes
           /\ s[n].active \in Seq(Branch) /\ s[n].made \in Seq(Branch)
           /\ Len(s[n].active) \in Nat /\ Len(s[n].made) \in Nat
           /\ s[n].i \in Nat \ {0} /\ s[n].j \in Nat \ {0} /\ s[n].depth = n - 2
           /\ s[n].depth \in Nat /\ s[n].depth + 1 \in Nat /\ s[n].depth + 2 \in Nat
           /\ NodeMeaning(f) \in [Nat -> [Nodes -> Result]]
           /\ s[n].phase # "links" => s[n].j = 1
           /\ s[n].phase \in Inside => s[n].node \in f.execs
           /\ f.links[s[n].node] \in Seq(STRING)
           /\ f.links[s[n].node] # <<>> => 1 <= Len(f.links[s[n].node])
  <1>1. /\ f \in Flows /\ GoodStack(s) /\ Shaped(f, s) /\ n > 0 /\ n \in Nat /\ n \in 1..n
        /\ tr \in Seq(Branch) /\ s[n].depth = n - 2 /\ ShapedFrame(f, s, n)
    BY GoingTop
  <1>2. /\ s[n] \in FrameType /\ s[n].node \in Nodes /\ n > 1
        /\ s[n].active \in Seq(Branch) /\ s[n].made \in Seq(Branch)
        /\ s[n].i \in Nat \ {0} /\ s[n].j \in Nat \ {0}
    BY <1>1, FrameFacts
  <1>3. s[n].depth \in Nat /\ s[n].depth + 1 \in Nat /\ s[n].depth + 2 \in Nat
    BY <1>1, <1>2
  <1>4. /\ s[n].phase # "links" => s[n].j = 1
        /\ s[n].phase \in Inside => s[n].node \in f.execs
    BY <1>1 DEF ShapedFrame
  <1>5. f.links[s[n].node] \in Seq(STRING)
    BY <1>1, <1>2, FlowFields
  <1>6. f.links[s[n].node] # <<>> => 1 <= Len(f.links[s[n].node])
    BY <1>5
  <1>7. NodeMeaning(f) \in [Nat -> [Nodes -> Result]]
    BY <1>1, NodeType
  <1>8. Len(s[n].active) \in Nat /\ Len(s[n].made) \in Nat
    BY <1>2
  <1> QED  BY <1>1, <1>2, <1>3, <1>4, <1>5, <1>6, <1>7, <1>8

\* The innermost call goes on in its place, and what is left stays the same.
TopNext(f, s, tr, C, n, g, t, tr2) ==
    /\ Going(f, s, tr, C) /\ n = Len(s) /\ s[n].phase # "entries"
    /\ g.phase \in {"exec", "template", "command", "ran", "links"}
    /\ g.phase \in Inside => g.node \in f.execs
    /\ g.node = s[n].node /\ g.j = 1
    /\ t = [s EXCEPT ![n] = g] /\ GoodStack(t) /\ tr2 \in Seq(Branch)
    /\ \A p \in Seq(Branch) : AndThen(Begun(p, tr), Left(f, s[n], NodeMeaning(f)))
                                = AndThen(Begun(p, tr2), Left(f, g, NodeMeaning(f)))

\* The innermost call goes on with the next part of its node.
LEMMA TopGoesOn ==
    ASSUME NEW f, NEW s, NEW tr, NEW C, NEW n, NEW g, NEW t, NEW tr2,
           TopNext(f, s, tr, C, n, g, t, tr2)
    PROVE  \E E : Going(f, t, tr2, E)
  <1> USE DEF TopNext
  <1>1. /\ n \in Nat /\ n > 0 /\ s \in Seq(FrameType) /\ Shaped(f, s)
        /\ (f.links[g.node] # <<>> => g.j <= Len(f.links[g.node]))
    BY GoingTop, TopFields
  <1>2. g.phase # "import" /\ g.phase # "enter" /\ g.phase # "entries"
    OBVIOUS
  <1>3. ShapedFrame(f, t, n)
    BY <1>1, <1>2, TopShaped
  <1>4. TopChange(f, s, tr, C, n, g, t, tr2)
    BY <1>2, <1>3 DEF TopChange
  <1> QED  BY <1>4, TopChanges

\* All branches are through the import: the command, or the links, are next.
LEMMA ImportGoesOn ==
    ASSUME NEW f, NEW s, NEW tr, NEW C, Going(f, s, tr, C), NEW n, n = Len(s),
           s[n].phase = "import", s[n].i # 1,
           NEW t, t = [s EXCEPT ![n] =
                         Moved(s[n], IF s[n].node \in f.execs THEN "exec" ELSE "links")],
           GoodStack(t)
    PROVE  \E E : Going(f, t, tr, E)
  <1> DEFINE m == NodeMeaning(f)
             fr == s[n]
             g == Moved(fr, IF fr.node \in f.execs THEN "exec" ELSE "links")
  <1>1. /\ f \in Flows /\ n \in Nat /\ n > 1 /\ tr \in Seq(Branch)
        /\ fr \in FrameType /\ fr.node \in Nodes /\ fr.active \in Seq(Branch)
        /\ fr.made \in Seq(Branch) /\ fr.j = 1 /\ fr.depth + 1 \in Nat
        /\ m \in [Nat -> [Nodes -> Result]]
    BY TopFields
  <1>2. /\ g.node = fr.node /\ g.active = fr.made /\ g.made = <<>> /\ g.i = 1 /\ g.j = 1
        /\ g.depth = fr.depth /\ g.phase = IF fr.node \in f.execs THEN "exec" ELSE "links"
    BY <1>1 DEF FrameType, Moved
  <1>3. t = [s EXCEPT ![n] = g] /\ s[n] = fr /\ m = NodeMeaning(f) /\ fr.phase = "import"
        /\ fr.i # 1
    OBVIOUS
  <1> HIDE DEF m, fr, g
  <1>4. Left(f, fr, m) = AfterImported(f, fr.node, Begun(fr.made, <<>>), m[fr.depth + 1])
    BY <1>3 DEF Left, LeftToImport
  <1>5. Left(f, g, m) = AfterImported(f, g.node, Begun(fr.made, <<>>), m[g.depth + 1])
    <2>1. g.node \in Nodes /\ g.depth + 1 \in Nat
          /\ g.phase = IF g.node \in f.execs THEN "exec" ELSE "links"
      BY <1>1, <1>2
    <2> QED  BY <1>1, <1>2, <2>1, NodeBegins
  <1>6. \A p \in Seq(Branch) : AndThen(Begun(p, tr), Left(f, s[n], NodeMeaning(f)))
                                 = AndThen(Begun(p, tr), Left(f, g, NodeMeaning(f)))
    BY <1>2, <1>3, <1>4, <1>5
  <1>7. /\ g.phase # "entries" /\ g.phase \in {"exec", "template", "command", "ran", "links"}
        /\ g.phase \in Inside => g.node \in f.execs
    BY <1>2 DEF Inside
  <1>8. s[n].phase # "entries" /\ g.node = s[n].node /\ t = [s EXCEPT ![n] = g] /\ g.j = 1
    BY <1>2, <1>3
  <1>9. TopNext(f, s, tr, C, n, g, t, tr)
    BY <1>1, <1>6, <1>7, <1>8 DEF TopNext
  <1> QED  BY <1>9, TopGoesOn

\* The command is through with all branches: the links are next.
LEMMA ExecEnds ==
    ASSUME NEW f, NEW s, NEW tr, NEW C, Going(f, s, tr, C), NEW n, n = Len(s),
           s[n].phase = "exec", s[n].i > Len(s[n].active),
           NEW t, t = [s EXCEPT ![n] = Moved(s[n], "links")], GoodStack(t)
    PROVE  \E E : Going(f, t, tr, E)
  <1> DEFINE m == NodeMeaning(f)
             fr == s[n]
             g == Moved(fr, "links")
             X == Commands(f, fr.node, fr.active)
             B == Begun(fr.made, <<>>)
  <1>1. /\ f \in Flows /\ n \in Nat /\ n > 1 /\ tr \in Seq(Branch)
        /\ fr \in FrameType /\ fr.node \in Nodes /\ fr.active \in Seq(Branch)
        /\ fr.made \in Seq(Branch) /\ fr.j = 1 /\ fr.depth + 1 \in Nat /\ fr.i \in Nat
        /\ m \in [Nat -> [Nodes -> Result]] /\ Len(fr.active) \in Nat
    BY TopFields
  <1>2. /\ g.node = fr.node /\ g.active = fr.made /\ g.made = <<>> /\ g.i = 1 /\ g.j = 1
        /\ g.depth = fr.depth /\ g.phase = "links"
    BY <1>1 DEF FrameType, Moved
  <1>3. t = [s EXCEPT ![n] = g] /\ s[n] = fr /\ m = NodeMeaning(f) /\ fr.phase = "exec"
        /\ fr.i > Len(fr.active)
    OBVIOUS
  <1> HIDE DEF m, fr, g
  <1>4. InTurnFrom(X, fr.i) = Nothing
    <2>1. X \in Seq(Result) /\ Len(X) = Len(fr.active)
      BY <1>1, CommandsType
    <2>2. fr.i \notin 1..Len(X)
      BY <1>1, <1>3, <2>1
    <2> HIDE DEF X
    <2> QED  BY <1>1, <2>1, <2>2, InTurnStep
  <1>5. Left(f, fr, m) = AndLinks(f, fr.node, B, m[fr.depth + 1])
    <2>1. B \in Result
      <3>1. <<>> \in Seq(Branch)
        OBVIOUS
      <3> QED  BY <1>1, <3>1, BegunType
    <2>2. Left(f, fr, m) = LeftToExec(f, fr, fr.made, fr.i, m)
      BY <1>3 DEF Left, Inside
    <2>3. LeftToExec(f, fr, fr.made, fr.i, m)
            = AndLinks(f, fr.node, AndThen(B, InTurnFrom(X, fr.i)), m[fr.depth + 1])
      BY DEF LeftToExec
    <2> HIDE DEF B, X
    <2> QED  BY <1>4, <2>1, <2>2, <2>3, AndNothing
  <1>6. Left(f, g, m) = AndLinks(f, g.node, Begun(fr.made, <<>>), m[g.depth + 1])
    <2>1. Left(f, g, m) = LeftToLink(f, g, m)
      BY <1>2 DEF Left, Inside
    <2>2. g.node \in Nodes /\ g.depth + 1 \in Nat
      BY <1>1, <1>2
    <2>3. LeftToLink(f, g, m) = AndLinks(f, g.node, Begun(fr.made, <<>>), m[g.depth + 1])
      BY <1>1, <1>2, <2>2, LinksBegin
    <2> QED  BY <2>1, <2>3
  <1>7. \A p \in Seq(Branch) : AndThen(Begun(p, tr), Left(f, s[n], NodeMeaning(f)))
                                 = AndThen(Begun(p, tr), Left(f, g, NodeMeaning(f)))
    BY <1>2, <1>3, <1>5, <1>6
  <1>8. /\ g.phase # "entries" /\ g.phase \in {"exec", "template", "command", "ran", "links"}
        /\ g.phase \in Inside => g.node \in f.execs
    BY <1>2 DEF Inside
  <1>9. s[n].phase # "entries" /\ g.node = s[n].node /\ t = [s EXCEPT ![n] = g] /\ g.j = 1
    BY <1>2, <1>3
  <1>10. TopNext(f, s, tr, C, n, g, t, tr)
    BY <1>1, <1>7, <1>8, <1>9 DEF TopNext
  <1> QED  BY <1>10, TopGoesOn

\* What is left of a command does not depend on how far the call itself is.
LEMMA SameLeftToExec ==
    ASSUME NEW f, NEW fr, NEW g, g.node = fr.node, g.active = fr.active, g.depth = fr.depth,
           NEW made, NEW i, NEW m
    PROVE  LeftToExec(f, g, made, i, m) = LeftToExec(f, fr, made, i, m)
  BY DEF LeftToExec

\* The text of the command is made, or it may start.
LEMMA InsideGoesOn ==
    ASSUME NEW f, NEW s, NEW tr, NEW C, Going(f, s, tr, C), NEW n, n = Len(s),
           s[n].phase \in {"exec", "template"}, NEW phase \in {"template", "command"},
           NEW t, t = [s EXCEPT ![n] = [s[n] EXCEPT !.phase = phase]], GoodStack(t)
    PROVE  \E E : Going(f, t, tr, E)
  <1> DEFINE m == NodeMeaning(f)
             fr == s[n]
             g == [fr EXCEPT !.phase = phase]
  <1>1. /\ f \in Flows /\ n \in Nat /\ n > 1 /\ tr \in Seq(Branch)
        /\ fr \in FrameType /\ fr.phase \in {"exec", "template"} /\ fr.j = 1 /\ fr.node \in f.execs
    BY TopFields DEF Inside
  <1>2. /\ g.node = fr.node /\ g.active = fr.active /\ g.made = fr.made /\ g.i = fr.i /\ g.j = 1
        /\ g.depth = fr.depth /\ g.phase = phase
    BY <1>1 DEF FrameType
  <1>3. t = [s EXCEPT ![n] = g] /\ s[n] = fr /\ m = NodeMeaning(f)
    OBVIOUS
  <1> HIDE DEF m, fr, g
  <1>4. Left(f, fr, m) = Left(f, g, m)
    <2>1. Left(f, fr, m) = LeftToExec(f, fr, fr.made, fr.i, m)
      BY <1>1 DEF Left, Inside
    <2>2. Left(f, g, m) = LeftToExec(f, g, g.made, g.i, m)
      BY <1>2 DEF Left, Inside
    <2> QED  BY <1>2, <2>1, <2>2, SameLeftToExec
  <1>5. \A p \in Seq(Branch) : AndThen(Begun(p, tr), Left(f, s[n], NodeMeaning(f)))
                                 = AndThen(Begun(p, tr), Left(f, g, NodeMeaning(f)))
    BY <1>3, <1>4
  <1>6. /\ g.phase \in {"exec", "template", "command", "ran", "links"}
        /\ g.phase \in Inside => g.node \in f.execs
        /\ s[n].phase # "entries" /\ g.node = s[n].node
    BY <1>1, <1>2, <1>3 DEF Inside
  <1>7. TopNext(f, s, tr, C, n, g, t, tr)
    BY <1>1, <1>2, <1>3, <1>5, <1>6 DEF TopNext
  <1> QED  BY <1>7, TopGoesOn

\* The output of the command becomes a branch.
LEMMA RanGoesOn ==
    ASSUME NEW f, NEW s, NEW tr, NEW C, Going(f, s, tr, C), NEW n, n = Len(s),
           s[n].phase = "ran", NEW g, g \in FrameType,
           g.phase = "exec", g.node = s[n].node, g.active = s[n].active, g.depth = s[n].depth,
           g.j = s[n].j, g.i = s[n].i + 1,
           g.made = Append(s[n].made, Through(s[n].active[s[n].i], s[n].node)),
           NEW t, t = [s EXCEPT ![n] = g], GoodStack(t)
    PROVE  \E E : Going(f, t, tr, E)
  <1> DEFINE m == NodeMeaning(f)
             fr == s[n]
  <1>1. /\ f \in Flows /\ n \in Nat /\ n > 1 /\ tr \in Seq(Branch)
        /\ fr.phase = "ran" /\ fr.j = 1 /\ fr.node \in f.execs
    <2>1. Going(f, s, tr, C) /\ n = Len(s) /\ s[n].phase = "ran"
      OBVIOUS
    <2>2. /\ f \in Flows /\ n \in Nat /\ n > 1 /\ tr \in Seq(Branch)
          /\ s[n].phase # "links" => s[n].j = 1
          /\ s[n].phase \in Inside => s[n].node \in f.execs
      BY ONLY <2>1, TopFields
    <2> QED  BY <2>1, <2>2 DEF Inside
  <1>2. Left(f, fr, m) = LeftToExec(f, fr, g.made, g.i, m)
    BY <1>1 DEF Left
  <1>3. Left(f, g, m) = LeftToExec(f, g, g.made, g.i, m)
    BY <1>1 DEF Left, Inside
  <1>4. Left(f, fr, m) = Left(f, g, m)
    <2> HIDE DEF m
    <2> QED  BY <1>2, <1>3, SameLeftToExec
  <1>5. \A p \in Seq(Branch) : AndThen(Begun(p, tr), Left(f, s[n], NodeMeaning(f)))
                                 = AndThen(Begun(p, tr), Left(f, g, NodeMeaning(f)))
    BY <1>4
  <1>6. /\ g.phase \in {"exec", "template", "command", "ran", "links"}
        /\ g.phase \in Inside => g.node \in f.execs
        /\ s[n].phase # "entries" /\ g.node = s[n].node /\ g.j = 1
    BY <1>1 DEF Inside
  <1>7. TopNext(f, s, tr, C, n, g, t, tr)
    BY <1>1, <1>5, <1>6 DEF TopNext
  <1> QED  BY <1>7, TopGoesOn

-----------------------------------------------------------------------------
(* The command. *)

\* The branch that the command of a frame makes, what it comes to, and what comes
\* behind it.
Made(fr) == Through(fr.active[fr.i], fr.node)
\* What the next command comes to, and what is left behind it.
Now(f, fr) == Commands(f, fr.node, fr.active)[fr.i]
Rest(f, fr) == InTurnFrom(Commands(f, fr.node, fr.active), fr.i + 1)

\* The command of a node, with what is left behind it.
LEMMA CommandMeans ==
    ASSUME NEW f, NEW s, NEW tr, NEW C, Going(f, s, tr, C), NEW n, n = Len(s),
           s[n].phase = "command"
    PROVE  /\ Made(s[n]) \in Branch /\ <<Made(s[n])>> \in Seq(Branch)
           /\ Now(f, s[n]) \in Result /\ Rest(f, s[n]) \in Result
           /\ Now(f, s[n]).trace = <<Made(s[n])>>
           /\ s[n].node \in f.failing => ~Now(f, s[n]).ok
           /\ s[n].node \notin f.failing => Now(f, s[n]) = Begun(<<Made(s[n])>>, <<Made(s[n])>>)
           /\ Left(f, s[n], NodeMeaning(f))
                = AndLinks(f, s[n].node,
                    AndThen(Begun(s[n].made, <<>>), AndThen(Now(f, s[n]), Rest(f, s[n]))),
                    NodeMeaning(f)[s[n].depth + 1])
  <1> DEFINE m == NodeMeaning(f)
             fr == s[n]
             x == Made(fr)
             X == Commands(f, fr.node, fr.active)
  <1>1. /\ f \in Flows /\ fr.phase = "command" /\ fr.node \in f.execs /\ fr.node \in Nodes
        /\ fr.active \in Seq(Branch) /\ fr.made \in Seq(Branch) /\ fr.i \in Nat \ {0}
        /\ Len(fr.active) \in Nat
    BY TopFields DEF Inside
  <1>2. fr.i \in 1..Len(fr.active)
    <2>1. GoodFrame(n, fr)
      BY GoingTop
    <2>2. fr.i <= Len(fr.active)
      BY <1>1, <2>1 DEF GoodFrame, Inside
    <2> QED  BY <1>1, <2>2
  <1>3. Left(f, fr, m) = LeftToExec(f, fr, fr.made, fr.i, m)
    BY <1>1 DEF Left, Inside
  <1>4. LeftToExec(f, fr, fr.made, fr.i, m)
          = AndLinks(f, fr.node, AndThen(Begun(fr.made, <<>>), InTurnFrom(X, fr.i)), m[fr.depth + 1])
    BY DEF LeftToExec
  <1>5. X \in Seq(Result) /\ Len(X) = Len(fr.active)
    <2> HIDE DEF fr
    <2> QED  BY <1>1, CommandsType
  <1>6. x \in Branch
    <2>1. fr.active[fr.i] \in Branch
      BY <1>1, <1>2
    <2> HIDE DEF fr
    <2> QED  BY <1>1, <2>1 DEF Made, Through, Branch
  <1>7. X[fr.i] = [ok |-> fr.node \notin f.failing, outs |-> <<x>>, trace |-> <<x>>]
    <2>1. fr.i \in DOMAIN fr.active
      BY <1>1, <1>2
    <2> HIDE DEF fr
    <2> QED  BY <1>1, <2>1 DEF Commands, Made, Through
  <1>8. InTurnFrom(X, fr.i) = AndThen(X[fr.i], InTurnFrom(X, fr.i + 1))
        /\ InTurnFrom(X, fr.i + 1) \in Result
    <2>1. fr.i \in Nat /\ fr.i + 1 \in Nat /\ fr.i \in 1..Len(X)
      BY <1>1, <1>2, <1>5
    <2> HIDE DEF X, fr
    <2> QED  BY <1>5, <2>1, InTurnStep, InTurnType
  <1>9. <<x>> \in Seq(Branch) /\ fr.i \in 1..Len(X)
    BY <1>2, <1>5, <1>6
  <1>10. X[fr.i] \in Result
    BY <1>5, <1>9
  <1> HIDE DEF X, x, fr, m
  <1>11. X[fr.i].trace = <<x>>
    BY <1>7
  <1>12. fr.node \in f.failing => ~X[fr.i].ok
    <2> SUFFICES ASSUME fr.node \in f.failing PROVE ~X[fr.i].ok
      OBVIOUS
    <2>1. X[fr.i] = [ok |-> FALSE, outs |-> <<x>>, trace |-> <<x>>]
      BY <1>7
    <2> QED  BY <2>1
  <1>13. fr.node \notin f.failing => X[fr.i] = Begun(<<x>>, <<x>>)
    BY <1>7 DEF Begun
  <1>14. Now(f, fr) = X[fr.i] /\ Rest(f, fr) = InTurnFrom(X, fr.i + 1)
    BY DEF Now, Rest, X
  <1>15. Left(f, fr, m)
          = AndLinks(f, fr.node,
                     AndThen(Begun(fr.made, <<>>), AndThen(Now(f, fr), Rest(f, fr))),
                     m[fr.depth + 1])
    BY <1>3, <1>4, <1>8, <1>14
  <1> QED  BY <1>6, <1>8, <1>9, <1>10, <1>11, <1>12, <1>13, <1>14, <1>15 DEF x, fr, m

\* A branch that is made is one more branch and one more command.
LEMMA MakesOne ==
    ASSUME NEW a \in Seq(Branch), NEW tr \in Seq(Branch), NEW x \in Branch
    PROVE  /\ AndThen(Begun(a, <<>>), Begun(<<x>>, <<x>>))
                = AndThen(Traced(<<x>>), Begun(Append(a, x), <<>>))
           /\ AndThen(Begun(a, tr), Traced(<<x>>)) = Begun(a, Append(tr, x))
           /\ Append(a, x) \in Seq(Branch) /\ Append(tr, x) \in Seq(Branch)
           /\ Append(tr, x) = tr \o <<x>> /\ <<x>> \in Seq(Branch)
  <1>1. /\ <<x>> \in Seq(Branch) /\ <<>> \in Seq(Branch)
        /\ Append(a, x) \in Seq(Branch) /\ Append(tr, x) \in Seq(Branch)
    OBVIOUS
  <1>2. \A c \in Seq(Branch) : Append(c, x) = c \o <<x>>
    <2>1. ASSUME NEW c \in Seq(Branch) PROVE Append(c, x) = c \o <<x>>
      <3> DEFINE l == Append(c, x)
                 r == c \o <<x>>
      <3>1. /\ l \in Seq(Branch) /\ r \in Seq(Branch) /\ Len(c) \in Nat
            /\ Len(l) = Len(c) + 1 /\ Len(r) = Len(c) + 1
        BY <1>1
      <3>2. ASSUME NEW k \in 1..Len(l) PROVE l[k] = r[k]
        BY <1>1, <3>1
      <3> HIDE DEF l, r
      <3>3. l = r
        BY <3>1, <3>2, SameSeq
      <3> QED  BY <3>3 DEF l, r
    <2> QED  BY <2>1
  <1>3. /\ AndThen(Begun(a, <<>>), Begun(<<x>>, <<x>>)) = Begun(a \o <<x>>, <<>> \o <<x>>)
        /\ AndThen(Begun(<<>>, <<x>>), Begun(Append(a, x), <<>>))
             = Begun(<<>> \o Append(a, x), <<x>> \o <<>>)
        /\ AndThen(Begun(a, tr), Begun(<<>>, <<x>>)) = Begun(a \o <<>>, tr \o <<x>>)
    <2>1. PICK y \in Seq(Branch) : y = <<x>>
      BY <1>1
    <2>2. PICK ax \in Seq(Branch) : ax = Append(a, x)
      BY <1>1
    <2>3. PICK e \in Seq(Branch) : e = <<>>
      BY <1>1
    <2>4. /\ AndThen(Begun(a, e), Begun(y, y)) = Begun(a \o y, e \o y)
          /\ AndThen(Begun(e, y), Begun(ax, e)) = Begun(e \o ax, y \o e)
          /\ AndThen(Begun(a, tr), Begun(e, y)) = Begun(a \o e, tr \o y)
      BY BegunThen
    <2> QED  BY <2>1, <2>2, <2>3, <2>4
  <1>4. /\ <<>> \o <<x>> = <<x>> /\ <<x>> \o <<>> = <<x>> /\ a \o <<>> = a
        /\ <<>> \o Append(a, x) = Append(a, x)
    BY <1>1, JoinBranches
  <1>5. a \o <<x>> = Append(a, x) /\ tr \o <<x>> = Append(tr, x)
    BY <1>2
  <1> QED  BY <1>1, <1>3, <1>4, <1>5 DEF Traced

\* A command begins and succeeds.
LEMMA CommandGoesOn ==
    ASSUME NEW f, NEW s, NEW tr, NEW C, Going(f, s, tr, C), NEW n, n = Len(s),
           s[n].phase = "command", s[n].node \notin f.failing,
           NEW t, t = [s EXCEPT ![n] = [s[n] EXCEPT !.phase = "ran"]], GoodStack(t),
           NEW x, x = Made(s[n])
    PROVE  \E E : Going(f, t, Append(tr, x), E)
  <1> DEFINE m == NodeMeaning(f)
             fr == s[n]
             g == [fr EXCEPT !.phase = "ran"]
             now == Now(f, fr)
             rest == Rest(f, fr)
             M == m[fr.depth + 1]
             Y == AndThen(Begun(Append(fr.made, x), <<>>), rest)
             L == AndLinks(f, fr.node, Y, M)
  <1>1. /\ f \in Flows /\ n \in Nat /\ n > 1 /\ tr \in Seq(Branch)
        /\ fr \in FrameType /\ fr.phase = "command" /\ fr.j = 1 /\ fr.node \in f.execs
        /\ fr.node \in Nodes /\ fr.made \in Seq(Branch)
        /\ m \in [Nat -> [Nodes -> Result]] /\ fr.depth + 1 \in Nat
    BY TopFields DEF Inside
  <1>2. /\ g.node = fr.node /\ g.active = fr.active /\ g.made = fr.made /\ g.i = fr.i /\ g.j = 1
        /\ g.depth = fr.depth /\ g.phase = "ran"
    BY <1>1 DEF FrameType
  <1>3. /\ rest \in Result /\ x \in Branch
        /\ Left(f, fr, m)
             = AndLinks(f, fr.node, AndThen(Begun(fr.made, <<>>), AndThen(now, rest)), M)
    <2>1. rest \in Result /\ x \in Branch
      <3>1. Going(f, s, tr, C) /\ n = Len(s) /\ s[n].phase = "command"
        OBVIOUS
      <3>2. Rest(f, s[n]) \in Result /\ Made(s[n]) \in Branch
        BY ONLY <3>1, CommandMeans
      <3> QED  BY <3>2
    <2>2. Left(f, fr, m)
            = AndLinks(f, fr.node, AndThen(Begun(fr.made, <<>>), AndThen(now, rest)), M)
      <3>1. Going(f, s, tr, C) /\ n = Len(s) /\ s[n].phase = "command"
        OBVIOUS
      <3>2. Left(f, s[n], NodeMeaning(f))
              = AndLinks(f, s[n].node,
                  AndThen(Begun(s[n].made, <<>>), AndThen(Now(f, s[n]), Rest(f, s[n]))),
                  NodeMeaning(f)[s[n].depth + 1])
        BY ONLY <3>1, CommandMeans
      <3> QED  BY <3>2
    <2> QED  BY <2>1, <2>2
  <1>4. now = Begun(<<x>>, <<x>>)
    <2>1. Going(f, s, tr, C) /\ n = Len(s) /\ s[n].phase = "command" /\ s[n].node \notin f.failing
      OBVIOUS
    <2>2. Now(f, s[n]) = Begun(<<Made(s[n])>>, <<Made(s[n])>>)
      BY ONLY <2>1, CommandMeans
    <2> QED  BY <2>2
  <1>5. Left(f, g, m) = L
    <2>1. Left(f, g, m)
            = LeftToExec(f, g, Append(g.made, Through(g.active[g.i], g.node)), g.i + 1, m)
      BY <1>2 DEF Left
    <2>2. Append(g.made, Through(g.active[g.i], g.node)) = Append(fr.made, x)
      BY <1>2 DEF Made
    <2> HIDE DEF g, fr
    <2> QED  BY <1>2, <2>1, <2>2 DEF LeftToExec, rest, Rest
  <1>6. M \in [Nodes -> Result]
    BY <1>1
  <1>7. t = [s EXCEPT ![n] = g] /\ s[n] = fr /\ m = NodeMeaning(f)
    OBVIOUS
  <1> HIDE DEF m, fr, g, now, rest, M
  <1>8. AndThen(Begun(fr.made, <<>>), AndThen(now, rest)) = AndThen(Traced(<<x>>), Y)
        /\ Y \in Result /\ <<x>> \in Seq(Branch) /\ Traced(<<x>>) \in Result
    <2>1. /\ <<x>> \in Seq(Branch) /\ <<>> \in Seq(Branch) /\ Append(fr.made, x) \in Seq(Branch)
      BY <1>1, <1>3, MakesOne
    <2>2. /\ Begun(fr.made, <<>>) \in Result /\ Begun(<<x>>, <<x>>) \in Result
          /\ Begun(Append(fr.made, x), <<>>) \in Result /\ Traced(<<x>>) \in Result
      BY <1>1, <2>1, BegunType DEF Traced
    <2>3. AndThen(Begun(fr.made, <<>>), Begun(<<x>>, <<x>>))
            = AndThen(Traced(<<x>>), Begun(Append(fr.made, x), <<>>))
      BY <1>1, <1>3, MakesOne
    <2>4. AndThen(Begun(fr.made, <<>>), AndThen(Begun(<<x>>, <<x>>), rest))
            = AndThen(AndThen(Begun(fr.made, <<>>), Begun(<<x>>, <<x>>)), rest)
      BY <1>3, <2>2, AndThenAssoc
    <2>5. AndThen(AndThen(Traced(<<x>>), Begun(Append(fr.made, x), <<>>)), rest)
            = AndThen(Traced(<<x>>), Y)
      BY <1>3, <2>2, AndThenAssoc
    <2>6. Y \in Result
      BY <1>3, <2>2, AndThenFields
    <2> HIDE DEF Y
    <2> QED  BY <1>4, <2>1, <2>2, <2>3, <2>4, <2>5, <2>6
  <1> HIDE DEF Y
  <1>9. Left(f, fr, m) = AndThen(Traced(<<x>>), L) /\ L \in Result
    <2>3. f \in Flows /\ fr.node \in Nodes /\ M \in [Nodes -> Result] /\ Y \in Result
      BY <1>1, <1>6, <1>8
    <2>1. /\ AndLinks(f, fr.node, Y, M) \in Result
          /\ \A q \in Seq(Branch) : AndLinks(f, fr.node, AndThen(Traced(q), Y), M)
                                      = AndThen(Traced(q), AndLinks(f, fr.node, Y, M))
      BY <2>3, AndLinksLaws, Zenon
    <2>2. Left(f, fr, m) = AndLinks(f, fr.node, AndThen(Traced(<<x>>), Y), M)
      BY <1>3, <1>8
    <2> QED  BY <1>8, <2>1, <2>2
  <1> HIDE DEF L
  <1>10. ASSUME NEW p \in Seq(Branch)
         PROVE  AndThen(Begun(p, tr), Left(f, s[n], NodeMeaning(f)))
                  = AndThen(Begun(p, Append(tr, x)), Left(f, g, NodeMeaning(f)))
    <2>1. Begun(p, tr) \in Result
      BY <1>1, BegunType
    <2>2. AndThen(Begun(p, tr), AndThen(Traced(<<x>>), L))
            = AndThen(AndThen(Begun(p, tr), Traced(<<x>>)), L)
      BY <1>8, <1>9, <2>1, AndThenAssoc
    <2>3. AndThen(Begun(p, tr), Traced(<<x>>)) = Begun(p, Append(tr, x))
      BY <1>1, <1>3, MakesOne
    <2> QED  BY <1>5, <1>7, <1>9, <2>2, <2>3
  <1>11. /\ g.phase \in {"exec", "template", "command", "ran", "links"}
         /\ g.phase \in Inside => g.node \in f.execs
         /\ s[n].phase # "entries" /\ g.node = s[n].node
    BY <1>1, <1>2, <1>7 DEF Inside
  <1>12. Append(tr, x) \in Seq(Branch)
    BY <1>1, <1>3
  <1>13. TopNext(f, s, tr, C, n, g, t, Append(tr, x))
    BY <1>1, <1>2, <1>7, <1>10, <1>11, <1>12 DEF TopNext
  <1> QED  BY <1>13, TopGoesOn

\* A command that fails is begun, and ends the flow.
LEMMA CommandBreaks ==
    ASSUME NEW f, NEW s, NEW tr, NEW C, Going(f, s, tr, C), NEW n, n = Len(s),
           s[n].phase = "command",
           NEW x, x = Made(s[n])
    PROVE  /\ s[n].node \in f.failing => ~Meaning(f).ok
           /\ Extends(Meaning(f), Append(tr, x))
  <1> DEFINE m == NodeMeaning(f)
             fr == s[n]
             now == Now(f, fr)
             rest == Rest(f, fr)
             M == m[fr.depth + 1]
             B == Begun(fr.made, <<>>)
             Z == AndThen(B, AndThen(now, rest))
             p == s[OwnerOf(s, n)].made
  <1>1. /\ f \in Flows /\ n \in Nat /\ n > 1 /\ tr \in Seq(Branch)
        /\ fr.phase = "command" /\ fr.node \in Nodes /\ fr.made \in Seq(Branch)
        /\ m \in [Nat -> [Nodes -> Result]] /\ fr.depth + 1 \in Nat
    BY TopFields
  <1>2. /\ rest \in Result /\ x \in Branch /\ <<x>> \in Seq(Branch)
        /\ now \in Result /\ now.trace = <<x>>
        /\ fr.node \in f.failing => ~now.ok
        /\ Left(f, fr, m) = AndLinks(f, fr.node, Z, M)
    <2>1. Going(f, s, tr, C) /\ n = Len(s) /\ s[n].phase = "command"
      OBVIOUS
    <2>2. /\ Made(s[n]) \in Branch /\ <<Made(s[n])>> \in Seq(Branch)
          /\ Now(f, s[n]) \in Result /\ Rest(f, s[n]) \in Result
          /\ Now(f, s[n]).trace = <<Made(s[n])>>
          /\ s[n].node \in f.failing => ~Now(f, s[n]).ok
      BY ONLY <2>1, CommandMeans
    <2>3. Left(f, s[n], NodeMeaning(f))
            = AndLinks(f, s[n].node,
                AndThen(Begun(s[n].made, <<>>), AndThen(Now(f, s[n]), Rest(f, s[n]))),
                NodeMeaning(f)[s[n].depth + 1])
      BY ONLY <2>1, CommandMeans
    <2> QED  BY <2>2, <2>3
  <1>3. /\ n \in 1..Len(s) + 1 /\ p \in Seq(Branch)
        /\ C[n] = Resumed(f, s, n, C[n + 1], m) /\ C[n + 1] = Begun(p, tr)
        /\ C[n] \in Result
    BY GoingTop
  <1>4. C[n] = AndThen(Begun(p, tr), Left(f, fr, m))
    BY <1>1, <1>3 DEF Resumed
  <1>5. M \in [Nodes -> Result]
    BY <1>1
  <1> HIDE DEF m, fr, now, rest, M, p
  <1>7. B \in Result /\ B.ok /\ B.trace = <<>>
    <2>1. <<>> \in Seq(Branch)
      OBVIOUS
    <2> QED  BY <1>1, <2>1, BegunType
  <1> HIDE DEF B
  <1>8. AndThen(now, rest) \in Result /\ Extends(AndThen(now, rest), <<x>>)
        /\ (fr.node \in f.failing => ~AndThen(now, rest).ok)
    BY <1>2, AndThenFields, ExtendsAll
  <1>9. Z \in Result /\ Extends(Z, <<x>>) /\ (fr.node \in f.failing => ~Z.ok)
    <2>1. Z \in Result /\ (fr.node \in f.failing => ~Z.ok)
      BY <1>7, <1>8, AndThenFields
    <2>2. Extends(Z, <<x>>)
      BY <1>1, <1>2, <1>8, ExtendsAll DEF B
    <2> QED  BY <2>1, <2>2
  <1> HIDE DEF Z
  <1> DEFINE Q == AndLinks(f, fr.node, Z, M)
  <1>10. Q \in Result /\ Extends(Q, <<x>>) /\ (fr.node \in f.failing => ~Q.ok)
    <2>1. Q \in Result /\ (~Z.ok => Q = Z)
      BY <1>1, <1>5, <1>9, AndLinksLaws
    <2>2. Extends(Q, <<x>>)
      <3>1. Links(f, fr.node, Z.outs, M) \in Seq(Result)
        BY <1>1, <1>5, <1>9, ResultFields, LinksType
      <3>2. Q = Onto(Z, Links(f, fr.node, Z.outs, M))
        BY DEF AndLinks
      <3> HIDE DEF Q
      <3> QED  BY <1>2, <1>9, <3>1, <3>2, OntoExtends
    <2> HIDE DEF Q
    <2> QED  BY <1>9, <2>1, <2>2
  <1>11. C[n] = AndThen(Begun(p, tr), Q)
    BY <1>2, <1>4
  <1> HIDE DEF Q
  <1>12. Begun(p, tr) \in Result /\ Begun(p, tr).ok /\ Begun(p, tr).trace = tr
    BY <1>1, <1>3, BegunType
  <1>13. fr.node \in f.failing => ~Meaning(f).ok
    <2>1. fr.node \in f.failing => ~C[n].ok
      BY <1>10, <1>11, <1>12, AndThenFails
    <2> QED  BY <1>3, <2>1, BreaksFlow
  <1>14. Extends(C[n], Append(tr, x))
    <2>1. PICK u \in Seq(Branch) : Q.trace = <<x>> \o u
      BY <1>10 DEF Extends
    <2>2. C[n].trace = tr \o (<<x>> \o u)
      <3>1. AndThen(Begun(p, tr), Q).trace = tr \o Q.trace
        <4> DEFINE r == Begun(p, tr)
        <4>1. r \in Result /\ r.ok /\ r.trace = tr
          BY <1>12
        <4> HIDE DEF r
        <4>2. AndThen(r, Q).trace = tr \o Q.trace
          BY <1>10, <4>1, AndThenFields
        <4> QED  BY <4>2 DEF r
      <3> QED  BY <1>11, <2>1, <3>1
    <2>3. tr \o (<<x>> \o u) = (tr \o <<x>>) \o u
      <3>1. PICK y \in Seq(Branch) : y = <<x>>
        BY <1>2
      <3>2. (tr \o y) \o u = tr \o (y \o u)
        <4>1. tr \in Seq(Branch) /\ y \in Seq(Branch) /\ u \in Seq(Branch)
          BY <1>1
        <4> QED  BY ONLY <4>1, JoinBranches
      <3> QED  BY <3>1, <3>2
    <2>4. tr \o <<x>> = Append(tr, x)
      BY <1>1, <1>2, <1>3, MakesOne
    <2> QED  BY <2>1, <2>2, <2>3, <2>4 DEF Extends
  <1>15. Extends(Meaning(f), Append(tr, x))
    <2>1. Append(tr, x) \in Seq(Branch)
      BY <1>1, <1>2
    <2> QED  BY <1>3, <1>14, <2>1, RanFollows
  <1> QED  BY <1>13, <1>15 DEF fr

-----------------------------------------------------------------------------
(* The steps that call. *)

-----------------------------------------------------------------------------
(* A call. *)

\* The innermost call of s becomes g and calls h, which comes to v.
Push(f, s, tr, C, n, g, h, t, v) ==
    /\ Going(f, s, tr, C) /\ n = Len(s)
    /\ t = Append([s EXCEPT ![n] = g], h) /\ GoodStack(t)
    /\ g.phase = s[n].phase /\ ShapedFrame(f, t, n) /\ ShapedFrame(f, t, n + 1)
    /\ v \in Result
    /\ v = Resumed(f, t, n + 1, Begun(t[OwnerOf(t, n + 1)].made, tr), NodeMeaning(f))
    /\ C[n] = Resumed(f, t, n, v, NodeMeaning(f))

\* The stack behind a call.
LEMMA PushFields ==
    ASSUME NEW s \in Seq(FrameType), NEW n, n = Len(s), n \in Nat, n > 0,
           NEW g \in FrameType, NEW h \in FrameType, g.phase = s[n].phase,
           NEW t, t = Append([s EXCEPT ![n] = g], h), s[1].phase = "entries"
    PROVE  /\ Len(t) = n + 1 /\ t[n] = g /\ t[n + 1] = h
           /\ \A k \in 1..n - 1 : t[k] = s[k]
           /\ t[1].phase = "entries" /\ \A k \in 1..n : t[k].phase = s[k].phase
  <1> DEFINE u == [s EXCEPT ![n] = g]
  <1>1. u \in Seq(FrameType) /\ Len(u) = n /\ u[n] = g /\ \A k \in 1..n - 1 : u[k] = s[k]
    OBVIOUS
  <1> HIDE DEF u
  <1>2. Len(Append(u, h)) = n + 1 /\ Append(u, h)[n + 1] = h
        /\ \A k \in 1..n : Append(u, h)[k] = u[k]
    BY <1>1
  <1>3. Len(t) = n + 1 /\ t[n + 1] = h /\ \A k \in 1..n : t[k] = u[k]
    BY <1>2 DEF u
  <1>4. n \in 1..n /\ 1 \in 1..n /\ \A k \in 1..n : k = n \/ k \in 1..n - 1
    OBVIOUS
  <1>5. \A k \in 1..n - 1 : k \in 1..n
    OBVIOUS
  <1>6. t[n] = g /\ \A k \in 1..n - 1 : t[k] = s[k]
    BY <1>1, <1>3, <1>4, <1>5
  <1>7. \A k \in 1..n : t[k].phase = s[k].phase
    BY <1>4, <1>6
  <1> QED  BY <1>3, <1>4, <1>6, <1>7

\* A call on top of the innermost one comes to what it was to come to.
LEMMA Pushes ==
    ASSUME NEW f, NEW s, NEW tr, NEW C, NEW n, NEW g, NEW h, NEW t, NEW v,
           Push(f, s, tr, C, n, g, h, t, v), g \in FrameType, h \in FrameType
    PROVE  \E E : Going(f, t, tr, E)
  <1> USE DEF Push
  <1> DEFINE m == NodeMeaning(f)
             o == OwnerOf(t, n + 1)
             B == Begun(t[o].made, tr)
             E == [k \in 1..n + 2 |-> IF k <= n THEN C[k] ELSE IF k = n + 1 THEN v ELSE B]
  <1>1. /\ f \in Flows /\ GoodStack(s) /\ Shaped(f, s) /\ n > 0 /\ n \in Nat /\ n \in 1..n
        /\ s \in Seq(FrameType) /\ s[1].phase = "entries" /\ C \in [1..n + 1 -> Result]
        /\ tr \in Seq(Branch)
    BY GoingTop
  <1>2. /\ Len(t) = n + 1 /\ t[n] = g /\ t[n + 1] = h
        /\ \A k \in 1..n - 1 : t[k] = s[k]
        /\ t[1].phase = "entries" /\ GoodStack(t)
    BY <1>1, PushFields
  <1>3. Shaped(f, t)
    <2>1. ASSUME NEW k \in 1..n + 1 PROVE ShapedFrame(f, t, k)
      <3>1. CASE k \in {n, n + 1}
        BY <3>1
      <3>2. CASE k \notin {n, n + 1}
        <4>1. k \in 1..n - 1 /\ (k > 1 => k - 1 \in 1..n - 1) /\ k # Len(s)
          BY <1>1, <3>2
        <4>2. t[k] = s[k] /\ (k > 1 => t[k - 1] = s[k - 1])
          BY <1>2, <4>1
        <4>3. ShapedFrame(f, s, k)
          <5>1. k \in 1..Len(s)
            BY <1>1, <4>1
          <5> QED  BY <1>1, <5>1 DEF Shaped
        <4>4. s[k].phase = "import" => s[k].i = 1 /\ s[k].made = <<>>
          BY <4>1, <4>3 DEF ShapedFrame
        <4> QED  BY <4>2, <4>3, <4>4 DEF ShapedFrame
      <3> QED  BY <3>1, <3>2
    <2> QED  BY <1>2, <2>1 DEF Shaped
  <1>4. B \in Result
    <2>1. n + 1 \in Nat /\ n + 1 >= 1
      BY <1>1
    <2>2. o \in 1..n + 1
      BY <1>2, <2>1, OwnerExists
    <2>3. o \in 1..Len(t) /\ Len(t) > 0
      BY <1>1, <1>2, <2>2
    <2> HIDE DEF o
    <2>4. t[o].made \in Seq(Branch)
      BY <1>1, <1>2, <1>3, <2>3, FrameFacts
    <2> QED  BY <1>1, <2>4, BegunType
  <1>5. v \in Result
    OBVIOUS
  <1> HIDE DEF B
  <1>6. /\ E \in [1..n + 2 -> Result] /\ E[n + 1] = v /\ E[n + 2] = B
        /\ \A k \in 1..n : E[k] = C[k]
    <2>1. ASSUME NEW k \in 1..n + 2 PROVE E[k] \in Result
      <3>1. k <= n => k \in 1..n + 1
        BY <1>1
      <3>2. k <= n => C[k] \in Result
        BY <1>1, <3>1
      <3> QED  BY <1>4, <1>5, <3>2
    <2>2. E \in [1..n + 2 -> Result]
      BY <2>1
    <2>3. /\ n + 1 \in 1..n + 2 /\ n + 2 \in 1..n + 2 /\ \A k \in 1..n : k \in 1..n + 2 /\ k <= n
          /\ ~(n + 1 <= n) /\ ~(n + 2 <= n) /\ n + 2 # n + 1
      BY <1>1
    <2>4. E[n + 1] = v /\ E[n + 2] = B /\ \A k \in 1..n : E[k] = C[k]
      BY <2>3
    <2> QED  BY <2>2, <2>4
  <1> HIDE DEF E
  <1>7. Rebuilds(f, s, C, n, t, tr, E)
    <2>1. ASSUME NEW k \in n..Len(t) PROVE E[k] = Resumed(f, t, k, E[k + 1], NodeMeaning(f))
      <3>1. k = n \/ k = n + 1
        BY <1>1, <1>2
      <3>2. CASE k = n
        BY <1>1, <1>6, <3>2
      <3>3. CASE k = n + 1
        <4>1. k + 1 = n + 2
          BY <1>1, <3>3
        <4> QED  BY <1>6, <3>3, <4>1 DEF B
      <3> QED  BY <3>1, <3>2, <3>3
    <2>2. /\ Len(t) \in Nat /\ Len(t) > 0 /\ n \in 1..Len(s) /\ n <= Len(t) + 1
          /\ n # Len(t) + 1 /\ Len(t) + 1 = n + 2
      BY <1>1, <1>2
    <2>3. E[Len(t) + 1] = Begun(t[OwnerOf(t, Len(t))].made, tr)
      BY <1>2, <1>6, <2>2 DEF B
    <2> QED  BY <1>1, <1>2, <1>6, <2>1, <2>2, <2>3 DEF Rebuilds
  <1>8. Follows(f, t, tr, E, NodeMeaning(f))
    BY <1>7, Rebuilt
  <1>9. Len(t) > 0
    BY <1>1, <1>2
  <1> QED  BY <1>1, <1>2, <1>3, <1>8, <1>9 DEF Going

\* What a node means for a branch.
LEMMA CallMeans ==
    ASSUME NEW f \in Flows, NEW b \in Branch, NEW n \in Nodes, NEW d \in Nat,
           NEW h, h.phase = "enter", h.node = n, h.active = <<b>>, h.depth = d
    PROVE  /\ Left(f, h, NodeMeaning(f)) = Behind(b, NodeMeaning(f)[d][n])
           /\ Behind(b, NodeMeaning(f)[d][n]) \in Result
           /\ NodeMeaning(f)[d] \in [Nodes -> Result]
  <1> DEFINE m == NodeMeaning(f)
  <1>1. m \in [Nat -> [Nodes -> Result]]
    BY NodeType
  <1> HIDE DEF m
  <1>2. m[d][n] \in Result
    BY <1>1
  <1>3. Behind(b, m[d][n]) \in Result
    BY <1>2, BehindFields
  <1>4. Left(f, h, m) = Behind(b, m[d][n])
    BY DEF Left, LeftToEnter
  <1> QED  BY <1>1, <1>3, <1>4 DEF m

\* A branch goes to one target after the other.
LEMMA TargetStep ==
    ASSUME NEW b \in Branch, NEW T \in Seq(STRING), NEW M \in [Nodes -> Result],
           NEW i \in Nat \ {0}, NEW parts, parts = BehindAll(b, AllOf(T, M))
    PROVE  /\ parts \in Seq(Result)
           /\ InTurnFrom(parts, i) \in Result /\ InTurnFrom(parts, i + 1) \in Result
           /\ i > Len(T) => InTurnFrom(parts, i) = Nothing
           /\ (i <= Len(T) /\ T[i] \in Nodes) =>
                InTurnFrom(parts, i) = AndThen(Behind(b, M[T[i]]), InTurnFrom(parts, i + 1))
           /\ (i <= Len(T) /\ T[i] \notin Nodes) => ~InTurnFrom(parts, i).ok
  <1> DEFINE A == AllOf(T, M)
  <1>1. /\ A \in Seq(Result) /\ Len(A) = Len(T) /\ Len(T) \in Nat
        /\ \A k \in 1..Len(T) : A[k] = IF T[k] \in Nodes THEN M[T[k]] ELSE Broken
    BY AllOfType
  <1> HIDE DEF A
  <1>2. /\ parts \in Seq(Result) /\ Len(parts) = Len(A)
        /\ \A k \in 1..Len(A) : parts[k] = Behind(b, A[k])
    BY <1>1, BehindAllType DEF A
  <1>3. i \in Nat /\ i + 1 \in Nat
    OBVIOUS
  <1>4. InTurnFrom(parts, i) \in Result /\ InTurnFrom(parts, i + 1) \in Result
    BY <1>2, <1>3, InTurnType
  <1>5. ASSUME i > Len(T) PROVE InTurnFrom(parts, i) = Nothing
    <2>1. i \notin 1..Len(parts)
      BY <1>1, <1>2, <1>5
    <2> QED  BY <1>2, <1>3, <2>1, InTurnStep
  <1>6. ASSUME i <= Len(T)
        PROVE  /\ InTurnFrom(parts, i) = AndThen(parts[i], InTurnFrom(parts, i + 1))
               /\ parts[i] = Behind(b, A[i])
               /\ A[i] = IF T[i] \in Nodes THEN M[T[i]] ELSE Broken
    <2>1. i \in 1..Len(parts) /\ i \in 1..Len(T) /\ i \in 1..Len(A)
      BY <1>1, <1>2, <1>6
    <2> QED  BY <1>1, <1>2, <1>3, <2>1, InTurnStep
  <1>7. ASSUME i <= Len(T), T[i] \notin Nodes PROVE ~InTurnFrom(parts, i).ok
    <2>1. InTurnFrom(parts, i) = AndThen(Broken, InTurnFrom(parts, i + 1))
      <3>1. Behind(b, Broken) = Broken
        BY BehindSmall, SmallResults
      <3> QED  BY <1>6, <1>7, <3>1
    <2>2. AndThen(Broken, InTurnFrom(parts, i + 1)) = Broken
      BY DEF AndThen, Broken
    <2> QED  BY <2>1, <2>2, SmallResults
  <1>8. ASSUME i <= Len(T), T[i] \in Nodes
        PROVE  InTurnFrom(parts, i) = AndThen(Behind(b, M[T[i]]), InTurnFrom(parts, i + 1))
    BY <1>6, <1>8
  <1> QED  BY <1>2, <1>4, <1>5, <1>7, <1>8

\* The loop over the entries of a flow: what is left of it begins with the next
\* entry.
LEMMA EntriesLeft ==
    ASSUME NEW f, NEW s, NEW tr, NEW C, Going(f, s, tr, C), NEW n, n = Len(s),
           s[n].phase = "entries",
           NEW b, b = s[n].active[1], NEW T, T = TargetsAt(f, s, n), NEW i, i = s[n].i,
           NEW M, M = NodeMeaning(f)[s[n].depth + 1], NEW parts, parts = BehindAll(b, AllOf(T, M))
    PROVE  /\ b \in Branch /\ s[n].active = <<b>> /\ T \in Seq(STRING) /\ i \in Nat \ {0}
           /\ s[n].depth = n - 2 /\ s[n].depth + 1 \in Nat /\ M \in [Nodes -> Result]
           /\ s[n].made \in Seq(Branch) /\ Len(s[n].made) <= MaxBranches
           /\ OwnerOf(s, n) = n /\ C[n + 1] = Begun(s[n].made, tr) /\ C[n + 1] \in Result
           /\ C[n] = Within(AndThen(C[n + 1], InTurnFrom(parts, i)))
  <1>1. /\ f \in Flows /\ GoodStack(s) /\ Shaped(f, s) /\ n > 0 /\ n \in Nat /\ n \in 1..n
        /\ s[1].phase = "entries" /\ s[n].depth = n - 2
        /\ C[n] = Resumed(f, s, n, C[n + 1], NodeMeaning(f))
        /\ C[n + 1] = Begun(s[OwnerOf(s, n)].made, tr) /\ C[n + 1] \in Result
    BY GoingTop
  <1>2. b \in Branch /\ s[n].active = <<b>> /\ T \in Seq(STRING)
    BY <1>1, OnlyBranch, TargetsType
  <1>3. i \in Nat \ {0} /\ s[n].made \in Seq(Branch) /\ Len(s[n].made) <= MaxBranches
    BY <1>1, FrameFacts
  <1>4. s[n].depth + 1 \in Nat
    BY <1>1
  <1>5. M \in [Nodes -> Result]
    BY <1>1, <1>4, NodeType
  <1>6. OwnerOf(s, n) = n
    <2>1. n >= 1
      BY <1>1
    <2> QED  BY <1>1, <2>1, OwnerItself
  <1>7. C[n] = Within(AndThen(C[n + 1], InTurnFrom(parts, i)))
    BY <1>1 DEF Resumed
  <1> QED  BY <1>1, <1>2, <1>3, <1>4, <1>5, <1>6, <1>7

\* kc_flow_run_node is called for the next entry.
LEMMA EntryCalls ==
    ASSUME NEW f, NEW s, NEW tr, NEW C, Going(f, s, tr, C), NEW n, n = Len(s),
           s[n].phase = "entries", s[n].i <= Len(TargetsAt(f, s, n)),
           TargetsAt(f, s, n)[s[n].i] \in Nodes,
           NEW g \in FrameType, g.phase = "entries", g.node = s[n].node, g.active = s[n].active,
           g.made = s[n].made, g.i = s[n].i + 1, g.j = s[n].j, g.depth = s[n].depth,
           NEW h \in FrameType, h.phase = "enter", h.node = TargetsAt(f, s, n)[s[n].i],
           h.active = s[n].active, h.depth = s[n].depth + 1, h.j = 1,
           NEW t, t = Append([s EXCEPT ![n] = g], h), GoodStack(t)
    PROVE  \E E : Going(f, t, tr, E)
  <1> DEFINE m == NodeMeaning(f)
  <1>1. PICK b : b = s[n].active[1]
    OBVIOUS
  <1>2. PICK T : T = TargetsAt(f, s, n)
    OBVIOUS
  <1>3. PICK M : M = m[s[n].depth + 1]
    OBVIOUS
  <1>4. PICK parts : parts = BehindAll(b, AllOf(T, M))
    OBVIOUS
  <1>5. PICK i : i = s[n].i
    OBVIOUS
  <1>6. /\ b \in Branch /\ s[n].active = <<b>> /\ T \in Seq(STRING) /\ i \in Nat \ {0}
        /\ s[n].depth = n - 2 /\ s[n].depth + 1 \in Nat /\ M \in [Nodes -> Result]
        /\ s[n].made \in Seq(Branch)
        /\ OwnerOf(s, n) = n /\ C[n + 1] = Begun(s[n].made, tr) /\ C[n + 1] \in Result
        /\ C[n] = Within(AndThen(C[n + 1], InTurnFrom(parts, i)))
    BY <1>1, <1>2, <1>3, <1>4, <1>5, EntriesLeft
  <1>7. /\ f \in Flows /\ n > 0 /\ n \in Nat /\ s \in Seq(FrameType) /\ s[1].phase = "entries"
        /\ ShapedFrame(f, s, n) /\ tr \in Seq(Branch)
    BY GoingTop
  <1>8. /\ Len(t) = n + 1 /\ t[n] = g /\ t[n + 1] = h /\ \A k \in 1..n - 1 : t[k] = s[k]
        /\ t[1].phase = "entries"
    BY <1>7, PushFields
  <1> DEFINE X == Behind(b, M[T[i]])
             v == AndThen(C[n + 1], X)
             rest == InTurnFrom(parts, i + 1)
  <1>9. X \in Result /\ Left(f, h, m) = X
    <2>1. /\ h.phase = "enter" /\ h.node = T[i] /\ h.active = <<b>> /\ T[i] \in Nodes
          /\ h.depth \in Nat /\ M = m[h.depth]
      BY <1>2, <1>3, <1>5, <1>6
    <2>2. PICK e \in Nodes : e = T[i]
      BY <2>1
    <2>3. PICK d \in Nat : d = h.depth
      BY <2>1
    <2>4. Left(f, h, m) = Behind(b, m[d][e]) /\ Behind(b, m[d][e]) \in Result
      <3>1. h.phase = "enter" /\ h.node = e /\ h.active = <<b>> /\ h.depth = d
        BY <2>1, <2>2, <2>3
      <3> QED  BY ONLY <1>6, <1>7, <3>1, CallMeans
    <2> HIDE DEF m
    <2> QED  BY <2>1, <2>2, <2>3, <2>4
  <1>10. rest \in Result /\ InTurnFrom(parts, i) = AndThen(X, rest)
    <2>1. i <= Len(T) /\ T[i] \in Nodes
      BY <1>2, <1>5
    <2> QED  BY <1>4, <1>6, <2>1, TargetStep
  <1> HIDE DEF X, rest
  <1>11. v \in Result
    BY <1>6, <1>9, AndThenFields
  <1>12. t[OwnerOf(t, n + 1)].made = s[n].made
    <2>1. n + 1 \in Nat /\ n >= 1
      BY <1>7
    <2>2. OwnerOf(t, n) = n
      <3>1. t[n].phase = "entries"
        BY <1>8
      <3> QED  BY <1>7, <1>8, <2>1, <3>1, OwnerItself
    <2>3. OwnerOf(t, n + 1) = OwnerOf(t, n)
      BY <1>7, <1>8, <2>1, OwnerBelow
    <2> QED  BY <1>8, <2>2, <2>3
  <1>13. v = Resumed(f, t, n + 1, Begun(t[OwnerOf(t, n + 1)].made, tr), m)
    BY <1>6, <1>8, <1>9, <1>12 DEF Resumed
  <1>14. C[n] = Resumed(f, t, n, v, m)
    <2>1. AndThen(C[n + 1], AndThen(X, rest)) = AndThen(v, rest)
      BY <1>6, <1>9, <1>10, AndThenAssoc
    <2>2. TargetsAt(f, t, n) = T
      BY <1>2, <1>8 DEF TargetsAt
    <2>3. parts = BehindAll(t[n].active[1], AllOf(TargetsAt(f, t, n), m[t[n].depth + 1]))
      BY <1>1, <1>3, <1>4, <1>8, <2>2
    <2>4. t[n].phase = "entries" /\ t[n].i = i + 1
      BY <1>5, <1>8
    <2>5. Resumed(f, t, n, v, m) = Within(AndThen(v, rest))
      BY <2>3, <2>4 DEF Resumed, rest
    <2> HIDE DEF v
    <2> QED  BY <1>6, <1>10, <2>1, <2>5 DEF v
  <1>15. ShapedFrame(f, t, n)
    <2>1. n > 1 => t[n - 1] = s[n - 1]
      <3>1. n > 1 => n - 1 \in 1..n - 1
        BY <1>7
      <3> QED  BY <1>8, <3>1
    <2>2. s[n].j = 1 /\ Len(s[n].active) = 1
      BY <1>6, <1>7 DEF ShapedFrame
    <2>3. n > 1 => s[n].node \in Nodes
      BY <1>7 DEF ShapedFrame
    <2>4. (n = 1 \/ s[n - 1].phase = "import") /\ (n > 1 \/ n = 1)
      BY <1>7 DEF ShapedFrame
    <2>5. g.j = 1
      BY <2>2
    <2> QED  BY <1>8, <2>1, <2>2, <2>3, <2>4, <2>5 DEF ShapedFrame, Inside
  <1>16. ShapedFrame(f, t, n + 1)
    <2>1. n + 1 # 1 /\ (n + 1) - 1 = n
      BY <1>7
    <2>2. h.node \in Nodes /\ Len(h.active) = 1
      BY <1>6
    <2>3. t[(n + 1) - 1].phase = "entries"
      BY <1>8, <2>1
    <2> QED  BY <1>8, <2>1, <2>2, <2>3 DEF ShapedFrame, Inside
  <1> HIDE DEF v
  <1>17. Push(f, s, tr, C, n, g, h, t, v)
    BY <1>11, <1>13, <1>14, <1>15, <1>16 DEF Push
  <1> QED  BY <1>17, Pushes

\* An entry that names no node breaks the flow.
LEMMA EntryBreaks ==
    ASSUME NEW f, NEW s, NEW tr, NEW C, Going(f, s, tr, C), NEW n, n = Len(s),
           s[n].phase = "entries", s[n].i <= Len(TargetsAt(f, s, n)),
           TargetsAt(f, s, n)[s[n].i] \notin Nodes
    PROVE  ~Meaning(f).ok
  <1>1. PICK b : b = s[n].active[1]
    OBVIOUS
  <1>2. PICK T : T = TargetsAt(f, s, n)
    OBVIOUS
  <1>3. PICK M : M = NodeMeaning(f)[s[n].depth + 1]
    OBVIOUS
  <1>4. PICK parts : parts = BehindAll(b, AllOf(T, M))
    OBVIOUS
  <1>5. PICK i : i = s[n].i
    OBVIOUS
  <1>6. /\ b \in Branch /\ T \in Seq(STRING) /\ i \in Nat \ {0}
        /\ M \in [Nodes -> Result] /\ C[n + 1] \in Result
        /\ C[n] = Within(AndThen(C[n + 1], InTurnFrom(parts, i)))
    BY <1>1, <1>2, <1>3, <1>4, <1>5, EntriesLeft
  <1>7. InTurnFrom(parts, i) \in Result /\ ~InTurnFrom(parts, i).ok
    <2>1. i <= Len(T) /\ T[i] \notin Nodes
      BY <1>2, <1>5
    <2> QED  BY <1>4, <1>6, <2>1, TargetStep
  <1>8. ~AndThen(C[n + 1], InTurnFrom(parts, i)).ok
    BY <1>6, <1>7, AndThenFails
  <1>9. ~C[n].ok
    BY <1>6, <1>8 DEF Within
  <1>10. n \in 1..Len(s) + 1
    BY GoingTop
  <1> QED  BY <1>9, <1>10, BreaksFlow

\* The loop over the links of a branch: the branch, the targets, what they mean,
\* and what comes behind them.
Linking(f, s, n, b, T, M, parts, rest) ==
    /\ s[n].phase = "links" /\ f.links[s[n].node] # <<>> /\ s[n].i <= Len(s[n].active)
    /\ b = s[n].active[s[n].i] /\ T = f.links[s[n].node]
    /\ M = NodeMeaning(f)[s[n].depth + 1] /\ parts = BehindAll(b, AllOf(T, M))
    /\ rest = InTurnFrom(Links(f, s[n].node, s[n].active, M), s[n].i + 1)

\* What is left begins with the next link.
LEMMA LinkLeft ==
    ASSUME NEW f, NEW s, NEW tr, NEW C, Going(f, s, tr, C), NEW n, n = Len(s),
           NEW b, NEW T, NEW M, NEW parts, NEW rest, Linking(f, s, n, b, T, M, parts, rest)
    PROVE  /\ b \in Branch /\ T \in Seq(STRING) /\ M \in [Nodes -> Result] /\ rest \in Result
           /\ s[n].j \in Nat \ {0} /\ s[n].j <= Len(T) /\ s[n].i \in Nat \ {0}
           /\ s[n].active \in Seq(Branch) /\ s[n].node \in Nodes /\ n > 1
           /\ s[n].depth + 1 \in Nat
           /\ Left(f, s[n], NodeMeaning(f)) = AndThen(InTurnFrom(parts, s[n].j), rest)
  <1> USE DEF Linking
  <1>1. /\ f \in Flows /\ n \in Nat /\ n > 1 /\ s[n].node \in Nodes
        /\ s[n].active \in Seq(Branch) /\ s[n].i \in Nat \ {0} /\ s[n].j \in Nat \ {0}
        /\ s[n].depth + 1 \in Nat /\ NodeMeaning(f) \in [Nat -> [Nodes -> Result]]
        /\ T \in Seq(STRING)
    BY TopFields
  <1>2. b \in Branch
    <2>1. s[n].i \in 1..Len(s[n].active)
      BY <1>1
    <2> QED  BY <1>1, <2>1
  <1>3. M \in [Nodes -> Result]
    BY <1>1
  <1>4. s[n].j <= Len(T)
    BY GoingTop DEF ShapedFrame
  <1>5. rest \in Result
    <2>1. Links(f, s[n].node, s[n].active, M) \in Seq(Result)
      BY <1>1, <1>3, LinksType
    <2>2. s[n].i + 1 \in Nat
      BY <1>1
    <2> QED  BY <2>1, <2>2, InTurnType
  <1>6. Left(f, s[n], NodeMeaning(f)) = LeftToLink(f, s[n], NodeMeaning(f))
    BY DEF Left, Inside
  <1>7. ~(s[n].i > Len(s[n].active))
    BY <1>1
  <1>8. LeftToLink(f, s[n], NodeMeaning(f)) = AndThen(InTurnFrom(parts, s[n].j), rest)
    BY <1>7 DEF LeftToLink
  <1> QED  BY <1>1, <1>2, <1>3, <1>4, <1>5, <1>6, <1>8

\* Where the loop goes on.
NextLinkOf(fr, g, T) ==
    /\ g.phase = "links" /\ g.node = fr.node /\ g.active = fr.active /\ g.made = fr.made
    /\ g.depth = fr.depth
    /\ IF fr.j < Len(T) THEN g.j = fr.j + 1 /\ g.i = fr.i ELSE g.j = 1 /\ g.i = fr.i + 1

\* kc_flow_run_node is called for the next link.
LEMMA LinkCalls ==
    ASSUME NEW f, NEW s, NEW tr, NEW C, Going(f, s, tr, C), NEW n, n = Len(s),
           s[n].phase = "links", f.links[s[n].node] # <<>>, s[n].i <= Len(s[n].active),
           f.links[s[n].node][s[n].j] \in Nodes,
           NEW g \in FrameType, NextLinkOf(s[n], g, f.links[s[n].node]),
           NEW h \in FrameType, h.phase = "enter", h.node = f.links[s[n].node][s[n].j],
           h.active = <<s[n].active[s[n].i]>>, h.depth = s[n].depth + 1, h.j = 1,
           NEW t, t = Append([s EXCEPT ![n] = g], h), GoodStack(t)
    PROVE  \E E : Going(f, t, tr, E)
  <1> DEFINE m == NodeMeaning(f)
  <1>0. PICK nd : nd = s[n].node
    OBVIOUS
  <1>1. PICK b : b = s[n].active[s[n].i]
    OBVIOUS
  <1>2. PICK T : T = f.links[s[n].node]
    OBVIOUS
  <1>3. PICK M : M = m[s[n].depth + 1]
    OBVIOUS
  <1>4. PICK parts : parts = BehindAll(b, AllOf(T, M))
    OBVIOUS
  <1>5. PICK rest : rest = InTurnFrom(Links(f, s[n].node, s[n].active, M), s[n].i + 1)
    OBVIOUS
  <1>6. PICK i : i = s[n].i
    OBVIOUS
  <1>7. PICK j : j = s[n].j
    OBVIOUS
  <1>8. /\ b \in Branch /\ T \in Seq(STRING) /\ M \in [Nodes -> Result] /\ rest \in Result
        /\ j \in Nat \ {0} /\ j <= Len(T) /\ i \in Nat \ {0} /\ Len(T) \in Nat
        /\ s[n].active \in Seq(Branch) /\ nd \in Nodes /\ n > 1 /\ s[n].depth + 1 \in Nat
        /\ Left(f, s[n], m) = AndThen(InTurnFrom(parts, j), rest)
    <2>1. /\ b \in Branch /\ T \in Seq(STRING) /\ M \in [Nodes -> Result] /\ rest \in Result
          /\ s[n].j \in Nat \ {0} /\ s[n].j <= Len(T) /\ s[n].i \in Nat \ {0}
          /\ s[n].active \in Seq(Branch) /\ s[n].node \in Nodes /\ n > 1
          /\ s[n].depth + 1 \in Nat
          /\ Left(f, s[n], NodeMeaning(f)) = AndThen(InTurnFrom(parts, s[n].j), rest)
      <3>1. Linking(f, s, n, b, T, M, parts, rest)
        BY <1>1, <1>2, <1>3, <1>4, <1>5 DEF Linking
      <3> HIDE DEF m
      <3> QED  BY ONLY Going(f, s, tr, C), n = Len(s), <3>1, LinkLeft
    <2> QED  BY <1>0, <1>6, <1>7, <2>1
  <1>9. /\ f \in Flows /\ n \in Nat /\ n > 0 /\ s \in Seq(FrameType) /\ s[1].phase = "entries"
        /\ ShapedFrame(f, s, n) /\ tr \in Seq(Branch) /\ C[n + 1] \in Result
        /\ C[n] = Resumed(f, s, n, C[n + 1], m)
        /\ C[n + 1] = Begun(s[OwnerOf(s, n)].made, tr) /\ OwnerOf(s, n) \in 1..n
        /\ m \in [Nat -> [Nodes -> Result]]
    <2>1. f \in Flows
      BY GoingTop
    <2>2. m \in [Nat -> [Nodes -> Result]]
      BY <2>1, NodeType
    <2> QED  BY <2>2, GoingTop
  <1>10. g.phase = s[n].phase
    BY DEF NextLinkOf
  <1>11. /\ Len(t) = n + 1 /\ t[n] = g /\ t[n + 1] = h /\ \A k \in 1..n - 1 : t[k] = s[k]
         /\ t[1].phase = "entries" /\ \A k \in 1..n : t[k].phase = s[k].phase
    <2>1. s \in Seq(FrameType) /\ n = Len(s) /\ n \in Nat /\ n > 0 /\ s[1].phase = "entries"
      BY <1>9
    <2>2. /\ g \in FrameType /\ h \in FrameType /\ g.phase = s[n].phase
          /\ t = Append([s EXCEPT ![n] = g], h)
      BY <1>10
    <2> QED  BY ONLY <2>1, <2>2, PushFields
  <1> DEFINE X == Behind(b, M[T[j]])
             v == AndThen(C[n + 1], X)
  <1>12. X \in Result /\ Left(f, h, m) = X
    <2>1. /\ h.phase = "enter" /\ h.node = T[j] /\ h.active = <<b>> /\ T[j] \in Nodes
          /\ h.depth \in Nat /\ M = m[h.depth]
      BY <1>1, <1>2, <1>3, <1>7, <1>8
    <2>2. PICK e \in Nodes : e = T[j]
      BY <2>1
    <2>3. PICK d \in Nat : d = h.depth
      BY <2>1
    <2>4. Left(f, h, m) = Behind(b, m[d][e]) /\ Behind(b, m[d][e]) \in Result
      <3>1. h.phase = "enter" /\ h.node = e /\ h.active = <<b>> /\ h.depth = d
        BY <2>1, <2>2, <2>3
      <3>2. f \in Flows /\ b \in Branch
        BY <1>8, <1>9
      <3> QED  BY ONLY <3>1, <3>2, e \in Nodes, d \in Nat, CallMeans
    <2> HIDE DEF m
    <2> QED  BY <2>1, <2>2, <2>3, <2>4
  <1>13. Left(f, s[n], m) = AndThen(X, Left(f, g, m)) /\ Left(f, g, m) \in Result
    <2>1. /\ parts \in Seq(Result) /\ InTurnFrom(parts, j) = AndThen(X, InTurnFrom(parts, j + 1))
          /\ InTurnFrom(parts, j + 1) \in Result
      <3>1. T[j] \in Nodes
        BY <1>2, <1>7
      <3>2. /\ parts = BehindAll(b, AllOf(T, M)) /\ b \in Branch /\ T \in Seq(STRING)
            /\ M \in [Nodes -> Result] /\ j \in Nat \ {0} /\ j <= Len(T)
        BY <1>4, <1>8
      <3>3. parts \in Seq(Result) /\ InTurnFrom(parts, j + 1) \in Result
        BY ONLY <3>2, TargetStep
      <3>4. InTurnFrom(parts, j) = AndThen(Behind(b, M[T[j]]), InTurnFrom(parts, j + 1))
        BY ONLY <3>1, <3>2, TargetStep
      <3> QED  BY <3>3, <3>4
    <2>2. /\ g.phase = "links" /\ g.node = nd /\ g.active = s[n].active /\ g.depth = s[n].depth
          /\ (j < Len(T) => g.j = j + 1 /\ g.i = i)
          /\ (~(j < Len(T)) => g.j = 1 /\ g.i = i + 1)
      BY <1>0, <1>2, <1>6, <1>7 DEF NextLinkOf
    <2>3. Left(f, g, m) = LeftToLink(f, g, m)
      BY <2>2 DEF Left, Inside
    <2>4. rest = InTurnFrom(Links(f, nd, s[n].active, M), i + 1)
      BY <1>0, <1>5, <1>6
    <2>5. T = f.links[g.node] /\ T # <<>> /\ M = m[g.depth + 1] /\ b = s[n].active[i]
          /\ i <= Len(s[n].active) /\ Len(s[n].active) \in Nat
      BY <1>0, <1>1, <1>2, <1>3, <1>6, <1>8, <2>2
    <2> HIDE DEF X, m
    <2>6. CASE j < Len(T)
      <3>1. g.j = j + 1 /\ g.i = i /\ ~(g.i > Len(g.active))
        BY <1>8, <2>2, <2>5, <2>6
      <3>2. LeftToLink(f, g, m) = AndThen(InTurnFrom(parts, j + 1), rest)
        BY <1>4, <2>2, <2>4, <2>5, <3>1 DEF LeftToLink
      <3>3. AndThen(AndThen(X, InTurnFrom(parts, j + 1)), rest)
              = AndThen(X, AndThen(InTurnFrom(parts, j + 1), rest))
        BY <1>8, <1>12, <2>1, AndThenAssoc
      <3>4. AndThen(InTurnFrom(parts, j + 1), rest) \in Result
        BY <1>8, <2>1, AndThenFields
      <3> QED  BY <1>8, <2>1, <2>3, <3>2, <3>3, <3>4
    <2>7. CASE ~(j < Len(T))
      <3>1. j + 1 > Len(T) /\ j + 1 \in Nat \ {0} /\ i + 1 \in Nat \ {0}
        BY <1>8, <2>7
      <3>2. InTurnFrom(parts, j + 1) = Nothing
        BY <1>4, <1>8, <3>1, TargetStep
      <3>3. Left(f, s[n], m) = AndThen(X, rest)
        <4>1. AndThen(X, Nothing) = X
          BY <1>12, AndNothing
        <4> QED  BY <1>8, <2>1, <3>2, <4>1
      <3>4. rest = IF i + 1 > Len(s[n].active) THEN Nothing
                   ELSE AndThen(InTurnFrom(BehindAll(s[n].active[i + 1], AllOf(f.links[nd], M)), 1),
                                InTurnFrom(Links(f, nd, s[n].active, M), (i + 1) + 1))
        <4>1. f.links[nd] # <<>>
          BY <2>2, <2>5
        <4>2. PICK bs : bs = s[n].active
          OBVIOUS
        <4>3. PICK l : l = i + 1
          OBVIOUS
        <4>4. /\ f \in Flows /\ nd \in Nodes /\ bs \in Seq(Branch) /\ l \in Nat \ {0}
              /\ M \in [Nodes -> Result] /\ f.links[nd] # <<>>
          BY <1>8, <1>9, <3>1, <4>1, <4>2, <4>3
        <4>5. InTurnFrom(Links(f, nd, bs, M), l)
                = IF l > Len(bs) THEN Nothing
                  ELSE AndThen(InTurnFrom(BehindAll(bs[l], AllOf(f.links[nd], M)), 1),
                               InTurnFrom(Links(f, nd, bs, M), l + 1))
          BY ONLY <4>4, LinksAt
        <4> QED  BY <2>4, <4>2, <4>3, <4>5
      <3>5. LeftToLink(f, g, m) = rest
        <4>1. g.j = 1 /\ g.i = i + 1
          BY <2>2, <2>7
        <4> QED  BY <2>2, <2>5, <3>4, <4>1 DEF LeftToLink
      <3> QED  BY <1>8, <2>3, <3>3, <3>5
    <2> QED  BY <2>6, <2>7
  <1> HIDE DEF X
  <1>14. v \in Result
    BY <1>9, <1>12, AndThenFields
  <1>15. t[OwnerOf(t, n + 1)].made = s[OwnerOf(s, n)].made
    <2>1. n + 1 \in Nat /\ n >= 1
      BY <1>9
    <2>2. OwnerOf(s, n) = OwnerOf(t, n)
      <3>1. \A k \in 1..n : s[k].phase = t[k].phase
        BY <1>11
      <3>2. s[1].phase = "entries" /\ n \in Nat /\ n >= 1
        BY <1>9, <2>1
      <3> QED  BY ONLY <3>1, <3>2, SameOwner
    <2>3. OwnerOf(t, n + 1) = OwnerOf(t, n)
      BY <1>9, <1>11, <2>1, OwnerBelow
    <2>4. OwnerOf(s, n) \in 1..n - 1
      <3>1. Owns(s, OwnerOf(s, n), n)
        BY <1>9, <2>1, OwnerExists
      <3>2. OwnerOf(s, n) # n
        BY <3>1 DEF Owns
      <3> QED  BY <1>9, <3>2
    <2> QED  BY <1>11, <2>2, <2>3, <2>4
  <1>16. v = Resumed(f, t, n + 1, Begun(t[OwnerOf(t, n + 1)].made, tr), m)
    BY <1>9, <1>11, <1>12, <1>15 DEF Resumed
  <1>17. C[n] = Resumed(f, t, n, v, m)
    <2>1. C[n] = AndThen(C[n + 1], Left(f, s[n], m))
      BY <1>9 DEF Resumed
    <2>2. g.phase = "links"
      BY DEF NextLinkOf
    <2>3. Resumed(f, t, n, v, m) = AndThen(v, Left(f, g, m))
      BY <1>11, <2>2 DEF Resumed
    <2> HIDE DEF m
    <2>4. AndThen(C[n + 1], AndThen(X, Left(f, g, m))) = AndThen(v, Left(f, g, m))
      BY <1>9, <1>12, <1>13, AndThenAssoc
    <2> HIDE DEF v
    <2> QED  BY <1>13, <2>1, <2>3, <2>4
  <1>18. ShapedFrame(f, t, n)
    <2>1. t[n - 1] = s[n - 1]
      <3>1. n - 1 \in 1..n - 1
        BY <1>8, <1>9
      <3> QED  BY <1>11, <3>1
    <2>2. n # 1 /\ s[n - 1].phase # "import"
      BY <1>9 DEF ShapedFrame
    <2>3. g.phase = "links" /\ g.node = nd /\ (IF j < Len(T) THEN g.j = j + 1 ELSE g.j = 1)
      BY <1>0, <1>2, <1>7 DEF NextLinkOf
    <2>4. g.j <= Len(T)
      BY <1>8, <2>3
    <2>5. T = f.links[g.node]
      BY <1>0, <1>2, <2>3
    <2> QED  BY <1>8, <1>11, <2>1, <2>2, <2>3, <2>4, <2>5 DEF ShapedFrame, Inside
  <1>19. ShapedFrame(f, t, n + 1)
    <2>1. n + 1 # 1 /\ (n + 1) - 1 = n
      BY <1>9
    <2>2. h.node \in Nodes /\ Len(h.active) = 1
      OBVIOUS
    <2>3. t[(n + 1) - 1].phase = "links"
      BY <1>10, <1>11, <2>1
    <2> QED  BY <1>11, <2>1, <2>2, <2>3 DEF ShapedFrame, Inside
  <1> HIDE DEF v
  <1>20. Push(f, s, tr, C, n, g, h, t, v)
    BY <1>10, <1>14, <1>16, <1>17, <1>18, <1>19 DEF Push
  <1> QED  BY <1>20, Pushes

\* A link that names no node breaks the flow.
LEMMA LinkBreaks ==
    ASSUME NEW f, NEW s, NEW tr, NEW C, Going(f, s, tr, C), NEW n, n = Len(s),
           s[n].phase = "links", f.links[s[n].node] # <<>>, s[n].i <= Len(s[n].active),
           f.links[s[n].node][s[n].j] \notin Nodes
    PROVE  ~Meaning(f).ok
  <1> DEFINE m == NodeMeaning(f)
  <1>1. PICK b : b = s[n].active[s[n].i]
    OBVIOUS
  <1>2. PICK T : T = f.links[s[n].node]
    OBVIOUS
  <1>3. PICK M : M = m[s[n].depth + 1]
    OBVIOUS
  <1>4. PICK parts : parts = BehindAll(b, AllOf(T, M))
    OBVIOUS
  <1>5. PICK rest : rest = InTurnFrom(Links(f, s[n].node, s[n].active, M), s[n].i + 1)
    OBVIOUS
  <1>6. PICK j : j = s[n].j
    OBVIOUS
  <1>7. /\ b \in Branch /\ T \in Seq(STRING) /\ M \in [Nodes -> Result] /\ rest \in Result
        /\ j \in Nat \ {0} /\ j <= Len(T)
        /\ Left(f, s[n], m) = AndThen(InTurnFrom(parts, j), rest)
    <2>1. Linking(f, s, n, b, T, M, parts, rest)
      BY <1>1, <1>2, <1>3, <1>4, <1>5 DEF Linking
    <2>2. /\ b \in Branch /\ T \in Seq(STRING) /\ M \in [Nodes -> Result] /\ rest \in Result
          /\ s[n].j \in Nat \ {0} /\ s[n].j <= Len(T)
          /\ Left(f, s[n], m) = AndThen(InTurnFrom(parts, s[n].j), rest)
      BY <2>1, LinkLeft
    <2> QED  BY <1>6, <2>2
  <1>8. InTurnFrom(parts, j) \in Result /\ ~InTurnFrom(parts, j).ok
    <2>1. T[j] \notin Nodes
      BY <1>2, <1>6
    <2> QED  BY <1>4, <1>7, <2>1, TargetStep
  <1>9. AndThen(InTurnFrom(parts, j), rest) \in Result /\ ~AndThen(InTurnFrom(parts, j), rest).ok
    BY <1>7, <1>8, AndThenFields
  <1>10. C[n + 1] \in Result /\ n \in 1..Len(s) + 1 /\ C[n] = Resumed(f, s, n, C[n + 1], m)
    BY GoingTop
  <1>11. C[n] = AndThen(C[n + 1], Left(f, s[n], m))
    BY <1>10 DEF Resumed
  <1> HIDE DEF m
  <1>12. ~C[n].ok
    BY <1>7, <1>9, <1>10, <1>11, AndThenFails
  <1> QED  BY <1>10, <1>12, BreaksFlow

\* The bound on what is collected does not look at what ran before.
LEMMA WithinTraced ==
    ASSUME NEW tr \in Seq(Branch), NEW r \in Result
    PROVE  Within(AndThen(Traced(tr), r)) = AndThen(Traced(tr), Within(r))
  <1>1. PICK q : q = AndThen(Traced(tr), r)
    OBVIOUS
  <1>2. q \in Result /\ q.outs = r.outs /\ q.trace = tr \o r.trace
    BY <1>1, TracedThen
  <1>3. CASE Len(r.outs) > MaxBranches
    <2>1. PICK w : w = [ok |-> FALSE, outs |-> r.outs, trace |-> r.trace]
      OBVIOUS
    <2>2. w \in Result /\ ~w.ok /\ w.outs = r.outs /\ w.trace = r.trace
      BY <2>1, ResultFields DEF Result
    <2>3. PICK a : a = AndThen(Traced(tr), w)
      OBVIOUS
    <2>4. a \in Result /\ ~a.ok /\ a.outs = r.outs /\ a.trace = tr \o r.trace
      <3>1. /\ AndThen(Traced(tr), w) \in Result /\ ~AndThen(Traced(tr), w).ok
            /\ AndThen(Traced(tr), w).outs = w.outs
            /\ AndThen(Traced(tr), w).trace = tr \o w.trace
        BY ONLY <2>2, tr \in Seq(Branch), TracedThen
      <3> QED  BY <2>2, <2>3, <3>1
    <2>5. a.ok = FALSE
      BY <2>4, ResultFields
    <2>6. a = [ok |-> FALSE, outs |-> r.outs, trace |-> tr \o r.trace]
      BY <2>4, <2>5, ResultFields
    <2>7. Within(q) = [ok |-> FALSE, outs |-> r.outs, trace |-> tr \o r.trace]
      BY <1>2, <1>3 DEF Within
    <2>8. Within(r) = w
      BY <1>3, <2>1 DEF Within
    <2> QED  BY <1>1, <2>3, <2>6, <2>7, <2>8
  <1>4. CASE ~(Len(r.outs) > MaxBranches)
    <2>1. Within(q) = q /\ Within(r) = r
      BY <1>2, <1>4 DEF Within
    <2> QED  BY <1>1, <2>1
  <1> QED  BY <1>3, <1>4

\* kc_flow_run_child is called for the branch of an import: what comes out of it is
\* what the flow means there, and what is left is what the node makes of it.
LEMMA ImportCalls ==
    ASSUME NEW f, NEW s, NEW tr, NEW C, Going(f, s, tr, C), NEW n, n = Len(s),
           s[n].phase = "import", s[n].i = 1,
           NEW h \in FrameType, h.phase = "entries", h.node = s[n].node, h.made = <<>>,
           h.active = s[n].active, h.depth = s[n].depth + 1, h.i = 1, h.j = 1,
           NEW t, t = Append([s EXCEPT ![n] = s[n]], h), GoodStack(t)
    PROVE  \E E : Going(f, t, tr, E)
  <1> DEFINE m == NodeMeaning(f)
  <1>1. PICK nd : nd = s[n].node
    OBVIOUS
  <1>2. PICK b : b = s[n].active[1]
    OBVIOUS
  <1>3. PICK d : d = s[n].depth
    OBVIOUS
  <1>4. /\ f \in Flows /\ n \in Nat /\ n > 0 /\ n > 1 /\ s \in Seq(FrameType)
        /\ s[1].phase = "entries" /\ ShapedFrame(f, s, n) /\ tr \in Seq(Branch)
        /\ C[n] = Resumed(f, s, n, C[n + 1], m)
        /\ C[n + 1] = Begun(s[OwnerOf(s, n)].made, tr) /\ OwnerOf(s, n) \in 1..n
        /\ s[OwnerOf(s, n)].made \in Seq(Branch) /\ n \in 1..n
    <2>1. n > 1
      BY TopFields
    <2> QED  BY <2>1, GoingTop
  <1>5. /\ nd \in Nodes /\ d \in Nat /\ d + 1 \in Nat /\ d + 2 \in Nat
        /\ m \in [Nat -> [Nodes -> Result]] /\ s[n] \in FrameType
    BY <1>1, <1>3, TopFields
  <1>6. b \in Branch /\ s[n].active = <<b>>
    BY <1>2, <1>4, OnlyBranch, GoingTop
  <1>7. f.child[nd] # <<>> /\ f.child[nd] \in Seq(STRING) /\ s[n].made = <<>>
    <2>1. f.child[nd] # <<>> /\ s[n].made = <<>>
      BY <1>1, <1>4 DEF ShapedFrame
    <2> QED  BY <1>4, <1>5, <2>1, FlowFields
  <1>8. PICK A : A = AllOf(f.child[nd], m[d + 2])
    OBVIOUS
  <1>9. A \in Seq(Result) /\ m[d + 1] \in [Nodes -> Result]
    BY <1>5, <1>7, <1>8, AllOfType
  <1>10. PICK I : I = InTurn(A)
    OBVIOUS
  <1>11. I \in Result /\ Imported(f, nd, m[d + 2]) = Within(I)
    <2>1. I \in Result
      BY <1>9, <1>10, InTurnType DEF InTurn
    <2> QED  BY <1>7, <1>8, <1>10, <2>1 DEF Imported
  <1>12. PICK W : W = Behind(b, Within(I))
    OBVIOUS
  <1>13. /\ W \in Result /\ W = Within(Behind(b, I)) /\ Behind(b, I) \in Result
         /\ Within(I) \in Result
    BY <1>6, <1>11, <1>12, BehindWithin, BehindFields
  <1>14. Left(f, s[n], m) = AfterImported(f, nd, W, m[d + 1])
    <2>1. Left(f, s[n], m) = LeftToImport(f, s[n], m)
      BY DEF Left
    <2>2. LeftToImport(f, s[n], m)
            = AfterImported(f, nd, Behind(b, Imported(f, nd, m[d + 2])), m[d + 1])
      BY <1>1, <1>2, <1>3 DEF LeftToImport
    <2> QED  BY <1>11, <1>12, <2>1, <2>2
  <1> DEFINE v == AndThen(Traced(tr), W)
             p == s[OwnerOf(s, n)].made
  <1>15. /\ Len(t) = n + 1 /\ t[n] = s[n] /\ t[n + 1] = h /\ \A k \in 1..n - 1 : t[k] = s[k]
         /\ t[1].phase = "entries" /\ \A k \in 1..n : t[k].phase = s[k].phase
    <2>1. PICK g : g = s[n]
      OBVIOUS
    <2>2. /\ t = Append([s EXCEPT ![n] = g], h) /\ g \in FrameType /\ g.phase = s[n].phase
          /\ h \in FrameType /\ s \in Seq(FrameType) /\ n = Len(s) /\ n \in Nat /\ n > 0
          /\ s[1].phase = "entries"
      BY <1>4, <1>5, <2>1
    <2>3. /\ Len(t) = n + 1 /\ t[n] = g /\ t[n + 1] = h /\ \A k \in 1..n - 1 : t[k] = s[k]
          /\ t[1].phase = "entries" /\ \A k \in 1..n : t[k].phase = s[k].phase
      BY ONLY <2>2, PushFields
    <2> QED  BY <2>1, <2>3
  <1>16. v \in Result
    BY <1>4, <1>13, TracedThen
  <1>17. t[OwnerOf(t, n + 1)].made = <<>>
    <2>1. n + 1 \in Nat /\ n + 1 >= 1 /\ t[n + 1].phase = "entries" /\ t[1].phase = "entries"
      BY <1>4, <1>15
    <2>2. OwnerOf(t, n + 1) = n + 1
      BY <2>1, OwnerItself
    <2> QED  BY <1>15, <2>2
  <1>18. v = Resumed(f, t, n + 1, Begun(t[OwnerOf(t, n + 1)].made, tr), m)
    <2>1. TargetsAt(f, t, n + 1) = f.child[nd]
      <3>1. n + 1 # 1
        BY <1>4
      <3> QED  BY <1>1, <1>15, <3>1 DEF TargetsAt
    <2>2. /\ t[n + 1].active[1] = b /\ t[n + 1].i = 1 /\ t[n + 1].phase = "entries"
          /\ t[n + 1].depth + 1 = d + 2
      BY <1>3, <1>5, <1>6, <1>15
    <2>3. Resumed(f, t, n + 1, Begun(<<>>, tr), m)
            = Within(AndThen(Traced(tr), InTurnFrom(BehindAll(b, A), 1)))
      BY <1>8, <2>1, <2>2 DEF Resumed, Traced
    <2>4. InTurnFrom(BehindAll(b, A), 1) = Behind(b, I)
      BY <1>6, <1>9, <1>10, BehindInTurn DEF InTurn
    <2>5. Within(AndThen(Traced(tr), Behind(b, I))) = AndThen(Traced(tr), Within(Behind(b, I)))
      <3>1. PICK r \in Result : r = Behind(b, I)
        BY <1>13
      <3>2. Within(AndThen(Traced(tr), r)) = AndThen(Traced(tr), Within(r))
        BY <1>4, WithinTraced
      <3> QED  BY <3>1, <3>2
    <2> HIDE DEF m
    <2> QED  BY <1>13, <1>17, <2>3, <2>4, <2>5
  <1> HIDE DEF v
  <1>19. C[n] = Resumed(f, t, n, v, m)
    <2>1. PICK Q : Q = AfterImported(f, nd, W, m[d + 1])
      OBVIOUS
    <2>2. Q \in Result /\ AfterImported(f, nd, v, m[d + 1]) = AndThen(Traced(tr), Q)
      BY <1>4, <1>5, <1>9, <1>13, <2>1, AfterImportedLaws DEF v
    <2>3. t[OwnerOf(t, n)].made = p
      <3>1. n >= 1 /\ \A k \in 1..n : s[k].phase = t[k].phase
        BY <1>4, <1>15
      <3>2. OwnerOf(s, n) = OwnerOf(t, n)
        <4>1. s[1].phase = "entries" /\ n \in Nat
          BY <1>4
        <4> QED  BY ONLY <3>1, <4>1, SameOwner
      <3>3. PICK o : o = OwnerOf(s, n)
        OBVIOUS
      <3>4. o \in 1..n - 1 \/ o = n
        BY <1>4, <3>3
      <3>5. t[o] = s[o]
        BY <1>15, <3>4
      <3> QED  BY <3>2, <3>3, <3>5
    <2>4. n < Len(t)
      BY <1>4, <1>15
    <2>5. Resumed(f, t, n, v, m)
            = AndThen(Begun(p, <<>>), AfterImported(f, nd, v, m[d + 1]))
      BY <1>1, <1>3, <1>15, <2>3, <2>4 DEF Resumed
    <2>6. C[n] = AndThen(Begun(p, tr), Left(f, s[n], m))
      BY <1>4 DEF Resumed
    <2>7. p \in Seq(Branch)
      BY <1>4
    <2> HIDE DEF m, p
    <2>8. <<>> \in Seq(Branch)
      OBVIOUS
    <2>9. Begun(p, <<>>) \in Result /\ Traced(tr) \in Result
      BY <1>4, <2>7, <2>8, BegunType DEF Traced
    <2>10. AndThen(Begun(p, <<>>), Traced(tr)) = Begun(p, tr)
      <3>1. PICK e \in Seq(Branch) : e = <<>>
        BY <2>8
      <3>2. AndThen(Begun(p, e), Begun(e, tr)) = Begun(p \o e, e \o tr)
        BY <1>4, <2>7, BegunThen
      <3>3. p \o <<>> = p /\ <<>> \o tr = tr
        BY <1>4, <2>7, JoinBranches
      <3> QED  BY <3>1, <3>2, <3>3 DEF Traced
    <2>11. AndThen(Begun(p, <<>>), AndThen(Traced(tr), Q)) = AndThen(Begun(p, tr), Q)
      BY <2>2, <2>9, <2>10, AndThenAssoc
    <2> QED  BY <1>14, <2>1, <2>2, <2>5, <2>6, <2>11
  <1>20. ShapedFrame(f, t, n)
    <2>1. t[n - 1] = s[n - 1]
      <3>1. n - 1 \in 1..n - 1
        BY <1>4
      <3> QED  BY <1>15, <3>1
    <2> QED  BY <1>4, <1>7, <1>15, <2>1 DEF ShapedFrame, Inside
  <1>21. ShapedFrame(f, t, n + 1)
    <2>1. n + 1 # 1 /\ (n + 1) - 1 = n
      BY <1>4
    <2>2. h.node \in Nodes /\ Len(h.active) = 1
      BY <1>1, <1>5, <1>6
    <2>3. t[(n + 1) - 1].phase = "import"
      BY <1>15, <2>1
    <2> QED  BY <1>15, <2>1, <2>2, <2>3 DEF ShapedFrame, Inside
  <1>22. Push(f, s, tr, C, n, s[n], h, t, v)
    BY <1>16, <1>18, <1>19, <1>20, <1>21 DEF Push
  <1> QED  BY <1>5, <1>22, Pushes

-----------------------------------------------------------------------------
(* The steps that return. *)

\* The stack without its innermost call, where frame j may have changed.
Pop(f, s, n, t, j) ==
    /\ Shaped(f, s) /\ n = Len(s) /\ n \in Nat /\ n > 1 /\ GoodStack(t)
    /\ Len(t) = n - 1 /\ \A k \in 1..n - 1 : t[k].phase = s[k].phase
    /\ \A k \in 1..n - 1 : k # j => t[k] = s[k]
    /\ j \in 1..n - 1 => ShapedFrame(f, t, j)

\* The frames below are what they were.
LEMMA PopShaped ==
    ASSUME NEW f, NEW s, NEW n, NEW t, NEW j, Pop(f, s, n, t, j)
    PROVE  Shaped(f, t)
  <1>1. /\ n \in Nat /\ n > 1 /\ Len(t) = n - 1 /\ Len(s) = n
        /\ \A k \in 1..n - 1 : t[k].phase = s[k].phase
        /\ \A k \in 1..n - 1 : k # j => t[k] = s[k]
        /\ (j \in 1..n - 1 => ShapedFrame(f, t, j))
        /\ \A k \in 1..n : ShapedFrame(f, s, k)
    BY DEF Pop, Shaped
  <1>2. SUFFICES ASSUME NEW k \in 1..n - 1, k # j PROVE ShapedFrame(f, t, k)
    BY <1>1 DEF Shaped
  <1>3. ShapedFrame(f, s, k) /\ t[k] = s[k] /\ k # n /\ k \in Nat
    BY <1>1, <1>2
  <1>4. k # 1 => t[k - 1].phase = s[k - 1].phase
    <2>1. k # 1 => k - 1 \in 1..n - 1
      BY <1>1
    <2> QED  BY <1>1, <2>1
  <1>5. Len(t) = n - 1 /\ Len(s) = n
    BY <1>1
  <1> QED  BY ONLY <1>3, <1>4, <1>5 DEF ShapedFrame

\* The innermost call is over and nothing is left of it.
LEMMA PopFields ==
    ASSUME NEW s \in Seq(FrameType), Len(s) > 1
    PROVE  /\ Len(Front(s)) = Len(s) - 1
           /\ \A k \in 1..Len(s) - 1 : Front(s)[k] = s[k]
  <1>1. Front(s) = [k \in 1..Len(s) - 1 |-> s[k]]
    BY DEF Front
  <1>2. Len(Front(s)) = Len(s) - 1
    BY <1>1
  <1> QED  BY <1>1, <1>2

\* All links of a node are through.
LEMMA LinksEnd ==
    ASSUME NEW f, NEW s, NEW tr, NEW C, Going(f, s, tr, C), NEW n, n = Len(s),
           s[n].phase = "links", f.links[s[n].node] # <<>>, s[n].i > Len(s[n].active),
           NEW t, t = Front(s)
    PROVE  \E E : Going(f, t, tr, E)
  <1> DEFINE m == NodeMeaning(f)
             E == [k \in 1..n |-> C[k]]
  <1>1. /\ f \in Flows /\ n \in Nat /\ s \in Seq(FrameType) /\ GoodStack(s) /\ Shaped(f, s)
        /\ tr \in Seq(Branch) /\ s[1].phase = "entries" /\ ShapedFrame(f, s, n)
        /\ C \in [1..n + 1 -> Result]
        /\ C[n] = Resumed(f, s, n, C[n + 1], m) /\ C[n + 1] \in Result
        /\ C[n + 1] = Begun(s[OwnerOf(s, n)].made, tr)
    BY GoingTop
  <1>2. n > 1
    BY TopFields
  <1>3. Len(t) = n - 1 /\ \A k \in 1..n - 1 : t[k] = s[k]
    <2>1. s \in Seq(FrameType) /\ Len(s) > 1
      BY <1>1, <1>2
    <2>2. Len(Front(s)) = Len(s) - 1 /\ \A k \in 1..Len(s) - 1 : Front(s)[k] = s[k]
      BY ONLY <2>1, PopFields
    <2> QED  BY <2>2
  <1>4. C[n] = C[n + 1]
    <2>1. Left(f, s[n], m) = Nothing
      BY DEF Left, LeftToLink, Inside
    <2>2. C[n] = AndThen(C[n + 1], Nothing)
      BY <1>1, <2>1 DEF Resumed
    <2> QED  BY <1>1, <2>2, AndNothing
  <1>5. s[n - 1].phase # "import"
    BY <1>1, <1>2 DEF ShapedFrame
  <1>6. t[OwnerOf(t, n - 1)].made = s[OwnerOf(s, n)].made
    <2>1. PICK k : k = n - 1
      OBVIOUS
    <2>2. k \in Nat /\ k >= 1 /\ k + 1 = n /\ k \in 1..n - 1
      BY <1>1, <1>2, <2>1
    <2>3. OwnerOf(s, n) = OwnerOf(s, k)
      <3>1. s[k + 1].phase # "entries"
        BY <2>2
      <3> QED  BY ONLY <1>1, <2>2, <3>1, OwnerBelow
    <2>4. \A l \in 1..k : s[l].phase = t[l].phase
      BY <1>3, <2>1
    <2>5. OwnerOf(s, k) = OwnerOf(t, k) /\ OwnerOf(s, k) \in 1..k
      <3>1. s[1].phase = "entries" /\ k \in Nat /\ k >= 1
        BY <1>1, <2>2
      <3>2. OwnerOf(s, k) = OwnerOf(t, k)
        BY ONLY <2>4, <3>1, SameOwner
      <3>3. OwnerOf(s, k) \in 1..k
        BY ONLY <3>1, OwnerExists
      <3> QED  BY <3>2, <3>3
    <2> QED  BY <1>3, <2>1, <2>3, <2>5
  <1>7. Rebuilds(f, s, C, n, t, tr, E)
    <2>1. E \in [1..n -> Result] /\ \A k \in 1..n : E[k] = C[k]
      BY <1>1
    <2>2. E[n] = Begun(t[OwnerOf(t, n - 1)].made, tr)
      BY <1>1, <1>2, <1>4, <1>6
    <2>3. t[1].phase = "entries" /\ n \in 1..Len(s) /\ (n - 1) + 1 = n /\ n - 1 > 0 /\ n - 1 \in Nat
      BY <1>1, <1>2, <1>3
    <2>4. n <= n /\ n..n - 1 = {}
      BY <1>1
    <2> HIDE DEF E
    <2> QED  BY <1>1, <1>3, <1>5, <2>1, <2>2, <2>3, <2>4 DEF Rebuilds
  <1>8. Follows(f, t, tr, E, m)
    BY <1>7, Rebuilt
  <1>9. GoodStack(t)
    BY <1>1, <1>2, ReturnGood
  <1>10. Shaped(f, t)
    <2>1. Pop(f, s, n, t, 0)
      BY <1>1, <1>2, <1>3, <1>9 DEF Pop
    <2> QED  BY <2>1, PopShaped
  <1> HIDE DEF E
  <1> QED  BY <1>1, <1>2, <1>3, <1>8, <1>9, <1>10 DEF Going

\* All entries of the innermost call are through: the run has come to what was made.
LEMMA EntriesOver ==
    ASSUME NEW f, NEW s, NEW tr, NEW C, Going(f, s, tr, C), NEW n, n = Len(s),
           s[n].phase = "entries", s[n].i > Len(TargetsAt(f, s, n))
    PROVE  C[n] = Begun(s[n].made, tr) /\ s[n].made \in Seq(Branch) /\ tr \in Seq(Branch)
  <1>1. PICK b : b = s[n].active[1]
    OBVIOUS
  <1>2. PICK T : T = TargetsAt(f, s, n)
    OBVIOUS
  <1>3. PICK i : i = s[n].i
    OBVIOUS
  <1>4. PICK M : M = NodeMeaning(f)[s[n].depth + 1]
    OBVIOUS
  <1>5. PICK parts : parts = BehindAll(b, AllOf(T, M))
    OBVIOUS
  <1>6. /\ b \in Branch /\ T \in Seq(STRING) /\ i \in Nat \ {0}
        /\ M \in [Nodes -> Result]
        /\ s[n].made \in Seq(Branch) /\ Len(s[n].made) <= MaxBranches
        /\ C[n + 1] = Begun(s[n].made, tr) /\ C[n + 1] \in Result
        /\ C[n] = Within(AndThen(C[n + 1], InTurnFrom(parts, i)))
    BY <1>1, <1>2, <1>3, <1>4, <1>5, EntriesLeft
  <1>7. InTurnFrom(parts, i) = Nothing
    <2>1. i > Len(T)
      BY <1>2, <1>3
    <2> QED  BY <1>5, <1>6, <2>1, TargetStep
  <1>8. C[n] = Within(C[n + 1])
    BY <1>6, <1>7, AndNothing
  <1>9. tr \in Seq(Branch) /\ s[n].made \in Seq(Branch) /\ Len(s[n].made) \in Nat
    BY <1>6, GoingTop
  <1>10. C[n + 1].outs = s[n].made
    <2>1. Begun(s[n].made, tr).outs = s[n].made
      BY ONLY <1>9, BegunType
    <2> QED  BY <1>6, <2>1
  <1>11. Within(C[n + 1]) = C[n + 1]
    BY <1>6, <1>9, <1>10, FlowAssumption DEF Within
  <1> QED  BY <1>6, <1>8, <1>9, <1>11

\* kc_flow_run_loaded returns: the flow comes to what the run has made.
LEMMA RunOver ==
    ASSUME NEW f, NEW s, NEW tr, NEW C, Going(f, s, tr, C), NEW n, n = Len(s), n <= 1,
           s[n].i > Len(TargetsAt(f, s, n))
    PROVE  Meaning(f).ok /\ Meaning(f).outs = s[n].made /\ Meaning(f).trace = tr
  <1>1. s[1].phase = "entries" /\ C[1] = Meaning(f)
    BY GoingFacts
  <1>2. s[n].phase = "entries" /\ C[n] = Meaning(f)
    <2>1. n = 1
      BY GoingTop
    <2> QED  BY <1>1, <2>1
  <1>3. C[n] = Begun(s[n].made, tr) /\ s[n].made \in Seq(Branch) /\ tr \in Seq(Branch)
    BY <1>2, EntriesOver
  <1>4. PICK made : made = s[n].made
    OBVIOUS
  <1>5. made \in Seq(Branch) /\ tr \in Seq(Branch) /\ Meaning(f) = Begun(made, tr)
    BY <1>2, <1>3, <1>4
  <1>6. /\ Begun(made, tr).ok = TRUE /\ Begun(made, tr).outs = made
        /\ Begun(made, tr).trace = tr
    BY ONLY <1>5, BegunType
  <1> QED  BY <1>4, <1>5, <1>6

\* kc_flow_run_child returns: what it has made is what came out of the import.
LEMMA ChildReturns ==
    ASSUME NEW f, NEW s, NEW tr, NEW C, Going(f, s, tr, C), NEW n, n = Len(s), n > 1,
           s[n].phase = "entries", s[n].i > Len(TargetsAt(f, s, n)),
           NEW g \in FrameType, g.phase = s[n - 1].phase, g.node = s[n - 1].node,
           g.active = s[n - 1].active, g.made = s[n].made, g.i = s[n - 1].i + 1,
           g.j = s[n - 1].j, g.depth = s[n - 1].depth,
           NEW t, GoodStack(t), Len(t) = n - 1, t[n - 1] = g, \A k \in 1..n - 2 : t[k] = s[k]
    PROVE  \E E : Going(f, t, tr, E)
  <1> DEFINE m == NodeMeaning(f)
  <1>1. /\ f \in Flows /\ n \in Nat /\ s \in Seq(FrameType) /\ GoodStack(s) /\ Shaped(f, s)
        /\ tr \in Seq(Branch) /\ s[1].phase = "entries" /\ ShapedFrame(f, s, n)
        /\ C \in [1..n + 1 -> Result]
        /\ m \in [Nat -> [Nodes -> Result]]
    BY GoingTop, NodeType
  <1>2. PICK l : l = n - 1
    OBVIOUS
  <1>3. l \in Nat /\ l >= 1 /\ l + 1 = n /\ l \in 1..Len(s) /\ l < Len(s) /\ l # Len(s) /\ n # 1
    BY <1>1, <1>2
  <1>4. /\ s[l].phase = "import"
        /\ s[l].node \in Nodes /\ s[l].depth = l - 2 /\ ShapedFrame(f, s, l) /\ l > 1
        /\ s[l].i \in Nat \ {0}
    <2>1. s[l].phase = "import"
      BY <1>1, <1>2, <1>3 DEF ShapedFrame
    <2>2. /\ s[l].phase # "entries" => s[l].node \in Nodes /\ l > 1
          /\ s[l].depth = l - 2 /\ ShapedFrame(f, s, l) /\ s[l].i \in Nat \ {0}
      <3>1. Len(s) > 0
        BY <1>1
      <3> QED  BY <1>1, <1>3, <3>1, FrameFacts
    <2> QED  BY <2>1, <2>2
  <1>5. s[l].i = 1 /\ f.child[s[l].node] # <<>> /\ Len(s[l].active) = 1
    BY <1>3, <1>4 DEF ShapedFrame
  <1>6. C[n] = Begun(s[n].made, tr) /\ s[n].made \in Seq(Branch)
    BY EntriesOver
  <1>7. PICK p : p = s[OwnerOf(s, l)].made
    OBVIOUS
  <1>8. /\ OwnerOf(s, l) \in 1..l - 1 /\ p \in Seq(Branch)
        /\ t[OwnerOf(t, l)].made = p
    <2>1. OwnerOf(s, l) \in 1..l /\ Owns(s, OwnerOf(s, l), l)
      BY <1>1, <1>3, OwnerExists
    <2>2. OwnerOf(s, l) # l
      BY <1>4, <2>1 DEF Owns
    <2>3. OwnerOf(s, l) \in 1..l - 1
      BY <1>3, <2>1, <2>2
    <2>4. \A k \in 1..l : s[k].phase = t[k].phase
      <3>1. \A k \in 1..l : k \in 1..n - 2 \/ k = l
        BY <1>1, <1>2, <1>3
      <3>2. s[l].phase = t[l].phase
        BY <1>2
      <3> QED  BY <3>1, <3>2
    <2>5. OwnerOf(s, l) = OwnerOf(t, l)
      BY ONLY <1>1, <1>3, <2>4, SameOwner
    <2>6. t[OwnerOf(s, l)] = s[OwnerOf(s, l)]
      BY <1>2, <2>3
    <2>7. p \in Seq(Branch)
      <3>1. OwnerOf(s, l) \in 1..Len(s)
        BY <1>3, <2>3
      <3>2. s[OwnerOf(s, l)] \in FrameType
        BY <1>1, <3>1
      <3> QED  BY <1>7, <3>2, Fields
    <2> QED  BY <1>7, <2>3, <2>5, <2>6, <2>7
  <1>9. PICK M : M = m[s[l].depth + 1]
    OBVIOUS
  <1>10. M \in [Nodes -> Result] /\ s[l].depth + 1 \in Nat
    BY <1>1, <1>3, <1>4, <1>9
  <1>11. PICK B : B = Begun(s[n].made, <<>>)
    OBVIOUS
  <1>12. PICK Q : Q = AfterImported(f, s[l].node, B, M)
    OBVIOUS
  <1>13. PICK e \in Seq(Branch) : e = <<>>
    <2>1. <<>> \in Seq(Branch)
      OBVIOUS
    <2> QED  BY <2>1
  <1>14. /\ B \in Result /\ Q \in Result
         /\ AfterImported(f, s[l].node, AndThen(Traced(tr), B), M) = AndThen(Traced(tr), Q)
    <2>1. B \in Result
      BY <1>6, <1>11, <1>13, BegunType
    <2>2. PICK x : x = s[l].node
      OBVIOUS
    <2>3. f \in Flows /\ x \in Nodes /\ M \in [Nodes -> Result] /\ tr \in Seq(Branch)
      BY <1>1, <1>4, <1>10, <2>2
    <2>4. /\ AfterImported(f, x, B, M) \in Result
          /\ AfterImported(f, x, AndThen(Traced(tr), B), M)
               = AndThen(Traced(tr), AfterImported(f, x, B, M))
      BY ONLY <2>1, <2>3, AfterImportedLaws
    <2> QED  BY <1>12, <2>1, <2>2, <2>4
  <1>15. AndThen(Traced(tr), B) = Begun(s[n].made, tr)
    <2>1. AndThen(Begun(e, tr), Begun(s[n].made, e)) = Begun(e \o s[n].made, tr \o e)
      <3>1. s[n].made \in Seq(Branch) /\ tr \in Seq(Branch) /\ e \in Seq(Branch)
        BY <1>1, <1>6
      <3> QED  BY ONLY <3>1, BegunThen
    <2>2. <<>> \o s[n].made = s[n].made /\ tr \o <<>> = tr
      BY <1>1, <1>6, JoinBranches
    <2> QED  BY <1>11, <1>13, <2>1, <2>2 DEF Traced
  <1>16. C[l] = AndThen(Begun(p, e), AndThen(Traced(tr), Q))
    <2>1. C[l] = Resumed(f, s, l, C[l + 1], m)
      BY <1>3, GoingFacts
    <2>2. C[l] = AndThen(Begun(p, <<>>), AfterImported(f, s[l].node, C[n], M))
      BY <1>3, <1>4, <1>7, <1>9, <2>1 DEF Resumed
    <2> HIDE DEF m
    <2> QED  BY <1>6, <1>13, <1>14, <1>15, <2>2
  <1>17. C[l] = AndThen(Begun(p, tr), Q)
    <2>1. Begun(p, e) \in Result /\ Traced(tr) \in Result
      BY <1>1, <1>8, <1>13, BegunType DEF Traced
    <2>2. AndThen(Begun(p, e), Begun(e, tr)) = Begun(p \o e, e \o tr)
      <3>1. p \in Seq(Branch) /\ tr \in Seq(Branch) /\ e \in Seq(Branch)
        BY <1>1, <1>8
      <3> QED  BY ONLY <3>1, BegunThen
    <2>3. p \o <<>> = p /\ <<>> \o tr = tr
      BY <1>1, <1>8, JoinBranches
    <2>4. AndThen(Begun(p, e), Traced(tr)) = Begun(p, tr)
      BY <1>13, <2>2, <2>3 DEF Traced
    <2> HIDE DEF m
    <2> QED  BY <1>14, <1>16, <2>1, <2>4, AndThenAssoc
  <1> DEFINE E == [k \in 1..n |-> IF k = n THEN Begun(p, tr) ELSE C[k]]
  <1>18. E \in [1..n -> Result] /\ E[n] = Begun(p, tr) /\ \A k \in 1..l : E[k] = C[k]
    <2>1. Begun(p, tr) \in Result
      BY <1>1, <1>8, BegunType
    <2>2. \A k \in 1..l : k \in 1..n /\ k # n
      BY <1>1, <1>2, <1>3
    <2> QED  BY <1>1, <1>3, <2>1, <2>2
  <1> HIDE DEF E
  <1>19. E[l] = Resumed(f, t, l, E[l + 1], m)
    <2>1. ~(l < Len(t)) /\ t[l] = g
      BY <1>2, <1>3
    <2>2. g.phase = "import" /\ g.i # 1
      <3>1. s[l].i + 1 # 1
        BY <1>4
      <3> QED  BY <1>2, <1>4, <3>1
    <2>3. Left(f, g, m) = Q
      <3>1. Left(f, g, m) = LeftToImport(f, g, m)
        BY <2>2 DEF Left
      <3>2. LeftToImport(f, g, m) = AfterImported(f, g.node, Begun(g.made, <<>>), m[g.depth + 1])
        BY <2>2 DEF LeftToImport
      <3> HIDE DEF m
      <3> QED  BY <1>2, <1>9, <1>11, <1>12, <3>1, <3>2
    <2>4. Resumed(f, t, l, E[l + 1], m) = AndThen(E[l + 1], Left(f, g, m))
      BY <2>1, <2>2 DEF Resumed
    <2>5. E[l + 1] = Begun(p, tr) /\ E[l] = C[l]
      BY <1>3, <1>18
    <2> HIDE DEF m
    <2> QED  BY <1>17, <2>3, <2>4, <2>5
  <1>20. Rebuilds(f, s, C, l, t, tr, E)
    <2>1. t[1].phase = "entries"
      <3>1. 1 \in 1..n - 2
        BY <1>1, <1>3, <1>4
      <3> QED  BY <1>1, <3>1
    <2>2. Len(t) = l /\ Len(t) \in Nat /\ Len(t) > 0 /\ l # Len(t) + 1 /\ l <= Len(t) + 1
      BY <1>2, <1>3
    <2>3. \A k \in 1..l - 1 : t[k] = s[k]
      BY <1>2, <1>3
    <2>4. \A k \in l..l : k = l
      BY <1>3
    <2>5. E[Len(t) + 1] = Begun(t[OwnerOf(t, Len(t))].made, tr)
      BY <1>3, <1>8, <1>18, <2>2
    <2>6. \A k \in l..Len(t) : E[k] = Resumed(f, t, k, E[k + 1], NodeMeaning(f))
      BY <1>19, <2>2, <2>4
    <2>7. E \in [1..Len(t) + 1 -> Result]
      BY <1>3, <1>18, <2>2
    <2> HIDE DEF m
    <2> QED  BY <1>1, <1>3, <1>18, <2>1, <2>2, <2>3, <2>5, <2>6, <2>7 DEF Rebuilds
  <1>21. Follows(f, t, tr, E, m)
    BY <1>20, Rebuilt
  <1>22. ShapedFrame(f, t, l)
    <2>1. l # 1 /\ l - 1 \in 1..n - 2
      <3>1. l \in Nat /\ l > 1 /\ n \in Nat /\ l + 1 = n
        BY <1>1, <1>3, <1>4
      <3> QED  BY ONLY <3>1
    <2>2. t[l - 1] = s[l - 1] /\ t[l] = g /\ l = Len(t)
      BY <1>2, <2>1
    <2>3. g.i = 2 /\ g.phase = "import" /\ g.node = s[l].node /\ g.active = s[l].active
          /\ g.j = s[l].j
      BY <1>2, <1>4, <1>5
    <2> QED  BY ONLY <1>4, <1>5, <2>1, <2>2, <2>3 DEF ShapedFrame, Inside
  <1>23. Shaped(f, t)
    <2>1. \A k \in 1..n - 1 : t[k].phase = s[k].phase /\ (k # l => t[k] = s[k])
      <3>1. \A k \in 1..n - 1 : k \in 1..n - 2 \/ k = l
        BY <1>1, <1>2
      <3> QED  BY <1>2, <3>1
    <2>2. Pop(f, s, n, t, l)
      BY <1>1, <1>22, <2>1 DEF Pop
    <2> QED  BY <2>2, PopShaped
  <1>24. Len(t) > 0
    BY <1>2, <1>3
  <1> HIDE DEF m
  <1> QED  BY <1>1, <1>21, <1>23, <1>24 DEF Going, m

\* A call that imports a flow waits for its entries.
Waits(s) == \A k \in 1..Len(s) - 1 : s[k].phase = "import" => s[k + 1].phase = "entries"

\* A node without links: what is left of it is to hand its branches over.
LEMMA LeafMeans ==
    ASSUME NEW f, NEW s, NEW tr, NEW C, Going(f, s, tr, C), NEW n, n = Len(s),
           s[n].phase = "links", f.links[s[n].node] = <<>>,
           NEW o, o = OwnerOf(s, n), NEW p, p = s[o].made, NEW a, a = s[n].active
    PROVE  /\ p \in Seq(Branch) /\ a \in Seq(Branch) /\ p \o a \in Seq(Branch)
           /\ Len(p \o a) = Len(p) + Len(a) /\ tr \in Seq(Branch)
           /\ C[n] = Begun(p \o a, tr)
           /\ o \in 1..n - 1 /\ s[o].phase = "entries" /\ n \in Nat /\ n > 1
           /\ Owns(s, o, n) /\ Waits(s)
           /\ OwnerOf(s, n - 1) = o
  <1> DEFINE m == NodeMeaning(f)
  <1>1. /\ f \in Flows /\ n \in Nat /\ s \in Seq(FrameType) /\ GoodStack(s) /\ Shaped(f, s)
        /\ tr \in Seq(Branch) /\ s[1].phase = "entries" /\ ShapedFrame(f, s, n)
        /\ C[n] = Resumed(f, s, n, C[n + 1], m) /\ C[n + 1] \in Result
        /\ C[n + 1] = Begun(s[OwnerOf(s, n)].made, tr)
        /\ s[OwnerOf(s, n)].made \in Seq(Branch) /\ n >= 1
    BY GoingTop
  <1>2. n > 1 /\ s[n].active \in Seq(Branch)
    BY TopFields
  <1>3. p \in Seq(Branch) /\ a \in Seq(Branch)
    BY <1>1, <1>2
  <1>4. p \o a \in Seq(Branch) /\ Len(p \o a) = Len(p) + Len(a)
    BY ONLY <1>3, JoinType
  <1>5. C[n] = Begun(p \o a, tr)
    <2>1. PICK e \in Seq(Branch) : e = <<>>
      <3>1. <<>> \in Seq(Branch)
        OBVIOUS
      <3> QED  BY <3>1
    <2>2. Left(f, s[n], m) = Begun(a, <<>>)
      BY DEF Left, LeftToLink, Inside
    <2>3. C[n] = AndThen(C[n + 1], Begun(a, e))
      BY <1>1, <2>1, <2>2 DEF Resumed
    <2>4. AndThen(Begun(p, tr), Begun(a, e)) = Begun(p \o a, tr \o e)
      <3>1. tr \in Seq(Branch) /\ e \in Seq(Branch)
        BY <1>1
      <3> QED  BY ONLY <1>3, <3>1, BegunThen
    <2>5. tr \o e = tr
      BY <1>1, <2>1, JoinBranches
    <2>6. C[n + 1] = Begun(p, tr)
      BY <1>1
    <2> HIDE DEF m
    <2> QED  BY <2>3, <2>4, <2>5, <2>6
  <1>6. o \in 1..n /\ Owns(s, o, n)
    BY <1>1, OwnerExists
  <1>7. o # n
    BY <1>6 DEF Owns
  <1>8. o \in 1..n - 1
    BY <1>1, <1>6, <1>7
  <1>9. Waits(s)
    <2>1. SUFFICES ASSUME NEW k \in 1..n - 1, s[k].phase = "import"
                   PROVE  s[k + 1].phase = "entries"
      BY DEF Waits
    <2>2. PICK l : l = k + 1
      OBVIOUS
    <2>3. l \in 1..Len(s) /\ l - 1 = k /\ l # 1
      BY <1>1, <2>2
    <2>4. ShapedFrame(f, s, l)
      BY <1>1, <2>3 DEF Shaped
    <2> QED  BY <2>1, <2>2, <2>3, <2>4 DEF ShapedFrame
  <1>10. OwnerOf(s, n - 1) = o
    <2>1. PICK k : k = n - 1
      OBVIOUS
    <2>2. k \in Nat /\ k >= 1 /\ k + 1 = n
      BY <1>1, <1>2, <2>1
    <2>3. s[k + 1].phase # "entries"
      BY <2>2
    <2>4. OwnerOf(s, k + 1) = OwnerOf(s, k)
      BY ONLY <1>1, <2>2, <2>3, OwnerBelow
    <2> QED  BY <2>1, <2>2, <2>4
  <1>11. s[o].phase = "entries"
    BY <1>6 DEF Owns
  <1> HIDE DEF m
  <1> QED  BY <1>1, <1>2, <1>3, <1>4, <1>5, <1>6, <1>8, <1>9, <1>10, <1>11

\* A node without links hands its branches to frame o, of the flow it is in: g is what
\* becomes of that frame.
LeafReturn(f, s, tr, C, n, o, g, t) ==
    /\ Going(f, s, tr, C) /\ n = Len(s) /\ s[n].phase = "links" /\ f.links[s[n].node] = <<>>
    /\ o = OwnerOf(s, n) /\ g \in FrameType
    /\ g.phase = s[o].phase /\ g.node = s[o].node /\ g.active = s[o].active
    /\ g.made = s[o].made \o s[n].active /\ g.i = s[o].i /\ g.j = s[o].j /\ g.depth = s[o].depth
    /\ GoodStack(t) /\ Len(t) = n - 1 /\ t[o] = g /\ \A k \in 1..n - 1 : k # o => t[k] = s[k]

LEMMA LeafReturns ==
    ASSUME NEW f, NEW s, NEW tr, NEW C, NEW n, NEW o, NEW g, NEW t,
           LeafReturn(f, s, tr, C, n, o, g, t)
    PROVE  \E E : Going(f, t, tr, E)
  <1>0. /\ Going(f, s, tr, C) /\ n = Len(s) /\ s[n].phase = "links" /\ f.links[s[n].node] = <<>>
        /\ o = OwnerOf(s, n) /\ g \in FrameType
        /\ g.phase = s[o].phase /\ g.node = s[o].node /\ g.active = s[o].active
        /\ g.made = s[o].made \o s[n].active /\ g.i = s[o].i /\ g.j = s[o].j
        /\ g.depth = s[o].depth
        /\ GoodStack(t) /\ Len(t) = n - 1 /\ t[o] = g /\ \A k \in 1..n - 1 : k # o => t[k] = s[k]
    BY DEF LeafReturn
  <1> DEFINE m == NodeMeaning(f)
             E == [k \in 1..n |-> C[k]]
  <1>1. PICK p : p = s[o].made
    OBVIOUS
  <1>2. PICK a : a = s[n].active
    OBVIOUS
  <1>3. /\ p \o a \in Seq(Branch) /\ tr \in Seq(Branch)
        /\ C[n] = Begun(p \o a, tr)
        /\ o \in 1..n - 1 /\ s[o].phase = "entries" /\ n \in Nat /\ n > 1
        /\ \A k \in o + 1..n : s[k].phase # "entries"
        /\ \A k \in 1..n - 1 : s[k].phase = "import" => s[k + 1].phase = "entries"
        /\ OwnerOf(s, n - 1) = o
    <2>1. Going(f, s, tr, C)
      BY <1>0
    <2>2. n = Len(s)
      BY <1>0
    <2>3. s[n].phase = "links" /\ f.links[s[n].node] = <<>>
      BY <1>0
    <2>4. o = OwnerOf(s, n)
      BY <1>0
    <2>5. p \o a \in Seq(Branch) /\ tr \in Seq(Branch)
      BY ONLY <1>1, <1>2, <2>1, <2>2, <2>3, <2>4, LeafMeans
    <2>6. C[n] = Begun(p \o a, tr)
      BY ONLY <1>1, <1>2, <2>1, <2>2, <2>3, <2>4, LeafMeans
    <2>7. /\ o \in 1..n - 1 /\ s[o].phase = "entries" /\ n \in Nat /\ n > 1
          /\ OwnerOf(s, n - 1) = o
      BY ONLY <1>1, <1>2, <2>1, <2>2, <2>3, <2>4, LeafMeans
    <2>8. Owns(s, o, n) /\ Waits(s)
      BY ONLY <1>1, <1>2, <2>1, <2>2, <2>3, <2>4, LeafMeans
    <2> QED  BY <2>2, <2>5, <2>6, <2>7, <2>8 DEF Owns, Waits
  <1> USE <1>0
  <1>4. /\ f \in Flows /\ s \in Seq(FrameType) /\ GoodStack(s) /\ Shaped(f, s)
        /\ s[1].phase = "entries" /\ C \in [1..n + 1 -> Result]
        /\ \A k \in 1..n : C[k] = Resumed(f, s, k, C[k + 1], m)
        /\ C[1] = Meaning(f)
    <2>1. /\ f \in Flows /\ GoodStack(s) /\ Shaped(f, s) /\ s[1].phase = "entries"
          /\ C \in [1..Len(s) + 1 -> Result] /\ C[1] = Meaning(f)
          /\ \A k \in 1..Len(s) : C[k] = Resumed(f, s, k, C[k + 1], m)
      <3>1. Going(f, s, tr, C)
        OBVIOUS
      <3> QED  BY ONLY <3>1, GoingFacts
    <2>2. s \in Seq(FrameType)
      BY GoingTop
    <2> QED  BY <2>1, <2>2
  <1>5. \A k \in 1..n - 1 : s[k].phase = t[k].phase
    OBVIOUS
  <1>6. \A k \in 1..n - 1 : OwnerOf(s, k) = OwnerOf(t, k)
    <2>1. SUFFICES ASSUME NEW k \in 1..n - 1 PROVE OwnerOf(s, k) = OwnerOf(t, k)
      OBVIOUS
    <2>2. k \in Nat /\ k >= 1 /\ \A l \in 1..k : s[l].phase = t[l].phase
      BY <1>3, <1>5
    <2> QED  BY ONLY <1>4, <2>2, SameOwner
  <1>7. n - 1 \in 1..n - 1 /\ n \in 1..n /\ n \in 1..n + 1
    BY <1>3
  <1>8. \A k \in 1..n - 1 : Resumed(f, t, k, C[k + 1], m) = Resumed(f, s, k, C[k + 1], m)
    <2>1. SUFFICES ASSUME NEW k \in 1..n - 1
                   PROVE  Resumed(f, t, k, C[k + 1], m) = Resumed(f, s, k, C[k + 1], m)
      OBVIOUS
    <2>2. CASE k = o
      <3>1. t[k].phase = "entries" /\ s[k].phase = "entries"
        BY <1>3, <2>2
      <3>2. TargetsAt(f, t, k) = TargetsAt(f, s, k)
        BY <2>2 DEF TargetsAt
      <3>3. t[k].active = s[k].active /\ t[k].depth = s[k].depth /\ t[k].i = s[k].i
        BY <2>2
      <3> HIDE DEF m
      <3> QED  BY <3>1, <3>2, <3>3 DEF Resumed
    <2>3. CASE k # o /\ s[k].phase # "import"
      <3>1. t[k] = s[k]
        BY <2>3
      <3> QED  BY ONLY <2>3, <3>1, SameResumed
    <2>4. CASE k # o /\ s[k].phase = "import"
      <3>1. t[k] = s[k] /\ s[k + 1].phase = "entries"
        BY <1>3, <2>4
      <3>2. k < n - 1
        <4>1. k # n - 1
          BY <1>3, <3>1
        <4> QED  BY <1>3, <4>1
      <3>3. k < Len(s) <=> k < Len(t)
        BY <1>3, <3>2
      <3>4. OwnerOf(s, k) # o
        <4>1. SUFFICES ASSUME OwnerOf(s, k) = o PROVE FALSE
          OBVIOUS
        <4>2. OwnerOf(s, k) \in 1..k
          <5>1. k \in Nat /\ k >= 1
            BY <1>3
          <5> QED  BY <1>4, <5>1, OwnerExists
        <4>3. o \in Nat /\ k \in Nat /\ n \in Nat /\ o <= k
          BY <1>3, <4>1, <4>2
        <4>4. k + 1 \in o + 1..n
          BY <3>2, <4>3
        <4> QED  BY <1>3, <3>1, <4>4
      <3>5. t[OwnerOf(t, k)].made = s[OwnerOf(s, k)].made
        <4>1. OwnerOf(s, k) \in 1..k
          <5>1. k \in Nat /\ k >= 1
            BY <1>3
          <5> QED  BY <1>4, <5>1, OwnerExists
        <4>2. OwnerOf(s, k) \in 1..n - 1
          BY <1>3, <3>2, <4>1
        <4> QED  BY <1>6, <3>4, <4>2
      <3> QED  BY ONLY <3>1, <3>3, <3>5, SameResumed
    <2> QED  BY <2>2, <2>3, <2>4
  <1>9. E \in [1..n -> Result] /\ \A k \in 1..n : E[k] = C[k]
    BY <1>3, <1>4
  <1> HIDE DEF E
  <1>10. \A k \in 1..n - 1 : E[k] = Resumed(f, t, k, E[k + 1], m)
    <2>1. SUFFICES ASSUME NEW k \in 1..n - 1 PROVE E[k] = Resumed(f, t, k, E[k + 1], m)
      OBVIOUS
    <2>2. k \in 1..n /\ k + 1 \in 1..n
      BY <1>3
    <2>3. E[k] = C[k] /\ E[k + 1] = C[k + 1]
      BY <1>9, <2>2
    <2>4. C[k] = Resumed(f, s, k, C[k + 1], m)
      BY <1>4, <2>2
    <2> HIDE DEF m
    <2> QED  BY <1>8, <2>3, <2>4
  <1>11. E[n] = Begun(t[OwnerOf(t, n - 1)].made, tr)
    <2>1. OwnerOf(t, n - 1) = o
      BY <1>3, <1>6, <1>7
    <2>2. t[o].made = p \o a
      BY <1>1, <1>2
    <2> QED  BY <1>3, <1>7, <1>9, <2>1, <2>2
  <1>12. Follows(f, t, tr, E, m)
    <2>1. (n - 1) + 1 = n /\ 1 \in 1..n
      BY <1>3
    <2> HIDE DEF m
    <2> QED  BY <1>4, <1>9, <1>10, <1>11, <2>1 DEF Follows
  <1>13. Shaped(f, t)
    <2>1. ShapedFrame(f, s, o)
      BY <1>3, <1>4 DEF Shaped
    <2>2. o # 1 => t[o - 1].phase = s[o - 1].phase
      <3>1. o # 1 => o - 1 \in 1..n - 1
        BY <1>3
      <3> QED  BY <1>5, <3>1
    <2>3. ShapedFrame(f, t, o)
      BY <1>3, <2>1, <2>2 DEF ShapedFrame, Inside
    <2>4. Pop(f, s, n, t, o)
      BY <1>3, <1>4, <1>5, <2>3 DEF Pop
    <2> QED  BY <2>4, PopShaped
  <1>14. Len(t) > 0
    BY <1>3
  <1> HIDE DEF m
  <1> QED  BY <1>3, <1>4, <1>12, <1>13, <1>14 DEF Going, m

\* More branches come out than may be collected, or something failed before.
Large(r) == ~r.ok \/ Len(r.outs) > MaxBranches

\* Too many branches stay too many, until they are counted.
LEMMA LargeThen ==
    ASSUME NEW r \in Result, NEW s \in Result, Large(r)
    PROVE  /\ Large(AndThen(r, s)) /\ AndThen(r, s) \in Result
           /\ ~Within(r).ok
  <1>1. AndThen(r, s) \in Result
    BY AndThenFields
  <1>2. CASE ~r.ok
    <2>1. AndThen(r, s) = r
      BY <1>2, AndThenFields
    <2>2. ~Within(r).ok
      BY <1>2 DEF Within
    <2> QED  BY <1>1, <2>1, <2>2
  <1>3. CASE r.ok
    <2>1. AndThen(r, s).outs = r.outs \o s.outs
      BY <1>3, AndThenFields
    <2>2. r.outs \in Seq(Branch) /\ s.outs \in Seq(Branch)
      BY ResultFields
    <2>3. /\ Len(r.outs \o s.outs) = Len(r.outs) + Len(s.outs)
          /\ Len(r.outs) \in Nat /\ Len(s.outs) \in Nat
      BY <2>2, JoinType
    <2>4. Len(r.outs) > MaxBranches /\ MaxBranches \in Nat
      BY <1>3, FlowAssumption DEF Large
    <2>5. Len(r.outs \o s.outs) > MaxBranches
      <3>1. \A x, y, z, b \in Nat : x = y + z /\ y > b => x > b
        OBVIOUS
      <3>2. Len(r.outs \o s.outs) \in Nat
        BY <2>2, JoinType
      <3> QED  BY ONLY <2>3, <2>4, <3>1, <3>2
    <2>6. ~Within(r).ok
      BY <2>4 DEF Within
    <2> QED  BY <1>1, <2>1, <2>5, <2>6 DEF Large
  <1> QED  BY <1>2, <1>3

\* A node without links has more branches than the flow it is in can take.
LEMMA LeafBreaks ==
    ASSUME NEW f, NEW s, NEW tr, NEW C, Going(f, s, tr, C), NEW n, n = Len(s),
           s[n].phase = "links", f.links[s[n].node] = <<>>,
           NEW o, o = OwnerOf(s, n), Len(s[o].made) + Len(s[n].active) > MaxBranches
    PROVE  ~Meaning(f).ok
  <1> DEFINE m == NodeMeaning(f)
  <1>1. PICK p : p = s[o].made
    OBVIOUS
  <1>2. PICK a : a = s[n].active
    OBVIOUS
  <1>3. /\ p \o a \in Seq(Branch) /\ tr \in Seq(Branch)
        /\ Len(p \o a) = Len(p) + Len(a)
        /\ C[n] = Begun(p \o a, tr)
        /\ o \in 1..n - 1 /\ s[o].phase = "entries" /\ n \in Nat /\ n > 1
        /\ \A k \in o + 1..n : s[k].phase # "entries"
        /\ \A k \in 1..n - 1 : s[k].phase = "import" => s[k + 1].phase = "entries"
    <2>1. /\ Going(f, s, tr, C) /\ n = Len(s) /\ s[n].phase = "links"
          /\ f.links[s[n].node] = <<>> /\ o = OwnerOf(s, n)
      OBVIOUS
    <2>2. /\ p \o a \in Seq(Branch) /\ tr \in Seq(Branch) /\ Len(p \o a) = Len(p) + Len(a)
          /\ C[n] = Begun(p \o a, tr)
      BY ONLY <1>1, <1>2, <2>1, LeafMeans
    <2>3. /\ o \in 1..n - 1 /\ s[o].phase = "entries" /\ n \in Nat /\ n > 1
      BY ONLY <1>1, <1>2, <2>1, LeafMeans
    <2>4. Owns(s, o, n) /\ Waits(s)
      BY ONLY <1>1, <1>2, <2>1, LeafMeans
    <2> QED  BY <2>1, <2>2, <2>3, <2>4 DEF Owns, Waits
  <1>4. /\ f \in Flows /\ GoodStack(s) /\ Shaped(f, s) /\ n > 0
        /\ \A k \in 1..n : C[k] = Resumed(f, s, k, C[k + 1], m)
        /\ \A k \in 1..n + 1 : C[k] \in Result
    BY <1>3, GoingFacts
  <1> DEFINE T == {k \in Nat : k > o => Large(C[k])}
  <1>5. n \in T
    <2>1. PICK x : x = p \o a
      OBVIOUS
    <2>2. x \in Seq(Branch) /\ tr \in Seq(Branch) /\ C[n] = Begun(x, tr) /\ Len(x) = Len(p) + Len(a)
      BY <1>3, <2>1
    <2>3. Begun(x, tr).outs = x
      BY ONLY <2>2, BegunType
    <2>4. Len(C[n].outs) > MaxBranches
      BY <1>1, <1>2, <2>2, <2>3
    <2> QED  BY <1>3, <2>4 DEF Large
  <1>6. \A k \in 1..n : k \in T => k - 1 \in T
    <2>1. SUFFICES ASSUME NEW k \in 1..n, k \in T, k - 1 > o PROVE Large(C[k - 1])
      <3>1. \A k \in 1..n : k - 1 \in Nat /\ (k - 1 \in T <=> (k - 1 > o => Large(C[k - 1])))
        BY <1>3
      <3> QED  BY <3>1
    <2>2. PICK l : l = k - 1
      OBVIOUS
    <2>3. l \in 1..n - 1 /\ l \in o + 1..n /\ l \in 1..n /\ l + 1 = k /\ l + 1 \in o + 1..n
          /\ l \in 1..n + 1 /\ l + 1 \in 1..n + 1
      BY <1>3, <2>1, <2>2
    <2>4. s[l].phase # "entries" /\ s[l].phase # "import"
      BY <1>3, <2>3
    <2>5. C[l] = AndThen(C[l + 1], Left(f, s[l], m))
      BY <1>4, <2>3, <2>4 DEF Resumed
    <2>6. Left(f, s[l], m) \in Result
      BY <1>4, <2>3, <2>4, LeftType
    <2>7. Large(C[l + 1])
      <3>1. k > o
        BY <1>3, <2>1
      <3>2. Large(C[k])
        BY <2>1, <3>1
      <3> QED  BY <2>3, <3>2
    <2>8. C[l + 1] \in Result
      BY <1>4, <2>3
    <2> HIDE DEF m, T
    <2> QED  BY <2>2, <2>5, <2>6, <2>7, <2>8, LargeThen
  <1>7. Large(C[o + 1])
    <2>1. \A k \in 0..n : k \in T
      <3> HIDE DEF T
      <3> QED  BY <1>3, <1>5, <1>6, Downward
    <2>2. o + 1 \in 0..n /\ o + 1 > o
      BY <1>3
    <2>3. o + 1 \in T
      BY <2>1, <2>2
    <2> QED  BY <2>2, <2>3
  <1>8. ~C[o].ok
    <2>1. o \in 1..n /\ o + 1 \in 1..n + 1
      BY <1>3
    <2>2. PICK b : b = s[o].active[1]
      OBVIOUS
    <2>3. PICK parts : parts = BehindAll(b, AllOf(TargetsAt(f, s, o), m[s[o].depth + 1]))
      OBVIOUS
    <2>4. C[o] = Within(AndThen(C[o + 1], InTurnFrom(parts, s[o].i)))
      BY <1>3, <1>4, <2>1, <2>2, <2>3 DEF Resumed
    <2>5. InTurnFrom(parts, s[o].i) \in Result
      <3>1. /\ s[o].depth = o - 2 /\ s[o].i \in Nat \ {0} /\ o \in Nat /\ o >= 1
        BY <1>3, <1>4, <2>1, FrameFacts
      <3>2. s[o].depth + 1 \in Nat
        BY <3>1
      <3>3. m[s[o].depth + 1] \in [Nodes -> Result]
        BY <1>4, <3>2, Around
      <3>4. b \in Branch
        BY <1>3, <1>4, <2>1, <2>2, OnlyBranch
      <3>5. TargetsAt(f, s, o) \in Seq(STRING)
        BY <1>4, <2>1, TargetsType
      <3>6. PICK M : M = m[s[o].depth + 1]
        OBVIOUS
      <3>7. PICK S : S = TargetsAt(f, s, o)
        OBVIOUS
      <3>8. PICK i : i = s[o].i
        OBVIOUS
      <3>9. b \in Branch /\ S \in Seq(STRING) /\ M \in [Nodes -> Result] /\ i \in Nat \ {0}
            /\ parts = BehindAll(b, AllOf(S, M))
        BY <2>3, <3>1, <3>3, <3>4, <3>5, <3>6, <3>7, <3>8
      <3>10. InTurnFrom(parts, i) \in Result
        BY ONLY <3>9, TargetStep
      <3> QED  BY <3>8, <3>10
    <2>6. C[o + 1] \in Result
      BY <1>4, <2>1
    <2>7. PICK q : q = AndThen(C[o + 1], InTurnFrom(parts, s[o].i))
      OBVIOUS
    <2>8. Large(q) /\ q \in Result
      BY <1>7, <2>5, <2>6, <2>7, LargeThen
    <2>9. ~Within(q).ok
      BY <2>8, LargeThen
    <2> QED  BY <2>4, <2>7, <2>9
  <1>9. o \in 1..Len(s) + 1
    BY <1>3
  <1> HIDE DEF m, T
  <1> QED  BY <1>8, <1>9, BreaksFlow

\* kc_flow_run_loaded begins with the first entry of a flow that could be read.
LEMMA Loads ==
    ASSUME NEW f \in Flows, f.readable,
           NEW h \in FrameType, h.phase = "entries", h.active = <<<<>>>>, h.made = <<>>,
           h.i = 1, h.j = 1, h.depth = -1,
           NEW t, t = <<h>>, GoodStack(t)
    PROVE  \E E : Going(f, t, <<>>, E)
  <1> DEFINE m == NodeMeaning(f)
             E == [k \in 1..2 |-> IF k = 1 THEN Meaning(f) ELSE Nothing]
  <1>1. Len(t) = 1 /\ t[1] = h /\ t[1].phase = "entries"
    OBVIOUS
  <1>2. OwnerOf(t, 1) = 1
    <2>1. PICK k \in Nat : k = 1
      OBVIOUS
    <2>2. k >= 1 /\ t[k].phase = "entries"
      BY <1>1, <2>1
    <2> QED  BY ONLY <1>1, <2>1, <2>2, OwnerItself
  <1>3. m \in [Nat -> [Nodes -> Result]] /\ m[0] \in [Nodes -> Result]
    BY NodeType
  <1>4. PICK A : A = AllOf(f.entries, m[0])
    OBVIOUS
  <1>5. A \in Seq(Result)
    BY <1>3, <1>4, AllOfType, FlowAssumption
  <1>6. InTurn(A) \in Result
    BY <1>5, InTurnType DEF InTurn
  <1>7. Meaning(f) = Within(InTurn(A))
    BY <1>4 DEF Meaning
  <1>8. PICK e \in Branch : e = <<>>
    <2>1. <<>> \in Seq(Nodes)
      OBVIOUS
    <2> QED  BY <2>1 DEF Branch
  <1>9. Meaning(f) \in Result
    <2>1. Within(InTurn(A)) \in Result
      BY <1>6, <1>8, BehindWithin
    <2> QED  BY <1>7, <2>1
  <1>10. InTurnFrom(BehindAll(<<>>, A), 1) = InTurn(A)
    <2>1. Behind(e, InTurnFrom(A, 1)) = InTurnFrom(BehindAll(e, A), 1)
      BY <1>5, BehindInTurn
    <2>2. Behind(<<>>, InTurn(A)) = InTurn(A)
      BY <1>6, <1>8, BehindSmall
    <2> QED  BY <1>8, <2>1, <2>2 DEF InTurn
  <1>11. E[1] = Resumed(f, t, 1, E[2], m)
    <2>1. TargetsAt(f, t, 1) = f.entries /\ h.active[1] = <<>>
      BY DEF TargetsAt
    <2>2. -1 + 1 = 0
      OBVIOUS
    <2>3. Resumed(f, t, 1, Nothing, m) = Within(AndThen(Nothing, InTurnFrom(BehindAll(<<>>, A), 1)))
      BY <1>1, <1>4, <2>1, <2>2 DEF Resumed
    <2>4. AndThen(Nothing, InTurn(A)) = InTurn(A)
      BY <1>6, AndNothing
    <2>5. E[1] = Meaning(f) /\ E[2] = Nothing
      OBVIOUS
    <2> HIDE DEF m, E
    <2> QED  BY <1>7, <1>10, <2>3, <2>4, <2>5
  <1>12. E[2] = Begun(t[OwnerOf(t, Len(t))].made, <<>>)
    <2>1. Nothing = Begun(<<>>, <<>>)
      BY DEF Nothing
    <2> QED  BY <1>1, <1>2, <2>1
  <1>13. Follows(f, t, <<>>, E, m)
    <2>1. E \in [1..2 -> Result] /\ E[1] = Meaning(f)
      BY <1>9, SmallResults
    <2>2. \A k \in 1..1 : E[k] = Resumed(f, t, k, E[k + 1], m)
      BY <1>11
    <2>3. 1 + 1 = 2
      OBVIOUS
    <2> HIDE DEF m, E
    <2> QED  BY <1>1, <1>12, <2>1, <2>2, <2>3 DEF Follows
  <1>14. Shaped(f, t)
    <2>1. ShapedFrame(f, t, 1)
      BY <1>1 DEF ShapedFrame, Inside
    <2> QED  BY <1>1, <2>1 DEF Shaped
  <1>15. <<>> \in Seq(Branch) /\ Len(t) > 0
    OBVIOUS
  <1> HIDE DEF m, E
  <1> QED  BY <1>13, <1>14, <1>15 DEF Going, m

-----------------------------------------------------------------------------
(* The steps of the worker. *)

\* A flow means something.
LEMMA MeaningType ==
    ASSUME NEW f \in Flows
    PROVE  Meaning(f) \in Result /\ Extends(Meaning(f), <<>>)
  <1>1. Meaning(f) \in Result
    <2>1. CASE ~f.readable
      BY <2>1, SmallResults DEF Meaning
    <2>2. CASE f.readable
      <3>1. PICK A : A = AllOf(f.entries, NodeMeaning(f)[0])
        OBVIOUS
      <3>2. A \in Seq(Result)
        <4>1. NodeMeaning(f)[0] \in [Nodes -> Result]
          BY NodeType
        <4> QED  BY <3>1, <4>1, AllOfType, FlowAssumption
      <3>3. InTurn(A) \in Result
        BY <3>2, InTurnType DEF InTurn
      <3>4. PICK e \in Branch : e = <<>>
        <4>1. <<>> \in Seq(Nodes)
          OBVIOUS
        <4> QED  BY <4>1 DEF Branch
      <3>5. Within(InTurn(A)) \in Result
        BY <3>3, <3>4, BehindWithin
      <3>6. Meaning(f) = Within(InTurn(A))
        BY <2>2, <3>1 DEF Meaning
      <3> QED  BY <3>5, <3>6
    <2> QED  BY <2>1, <2>2
  <1>2. PICK u : u = Meaning(f).trace
    OBVIOUS
  <1>3. u \in Seq(Branch)
    BY <1>1, <1>2, ResultFields
  <1>4. <<>> \o u = u
    BY <1>3, JoinBranches
  <1> QED  BY <1>1, <1>2, <1>3, <1>4 DEF Extends

\* The run so far is what the flow means so far: while the worker goes on, what it
\* has made and what is left of its calls come to the meaning of the flow.
Promised ==
    /\ status = "none" =>
         IF stack = <<>> THEN ran = <<>>
         ELSE flow.readable /\ \E C : Going(flow, stack, ran, C)
    /\ status = "ok" => Meaning(flow).ok /\ output = Meaning(flow).outs
    /\ status = "error" => ~Meaning(flow).ok
    /\ Extends(Meaning(flow), ran)

\* Nothing ran.
LEMMA InitPromised == Init => Promised
  BY MeaningType DEF Init, Promised

\* The innermost call of a worker that goes on.
LEMMA Calls ==
    ASSUME IInv, Promised, Working, Depth > 0
    PROVE  /\ flow.readable /\ flow \in Flows /\ ran \in Seq(Branch)
           /\ \E C : Going(flow, stack, ran, C)
           /\ Top = stack[Len(stack)] /\ Depth = Len(stack)
  <1>1. stack # <<>>
    BY Inner
  <1> QED  BY <1>1 DEF Promised, Working, IInv, TypeOK, Top, Depth

\* A step that begins no command ends the run with an error of the flow, or because
\* it is stopped, or goes on as the flow means.
LEMMA Keeps ==
    ASSUME IInv, Promised, Working, Worker, Quiet,
           \/ Fail("error") /\ ~Meaning(flow).ok
           \/ Fail("stopped")
           \/ /\ UNCHANGED <<status, output>> /\ flow.readable
              /\ \E E : Going(flow, stack', ran, E)
    PROVE  Promised'
  <1>1. flow' = flow /\ ran' = ran
    BY DEF Worker, Quiet
  <1>2. PICK f : f = flow
    OBVIOUS
  <1>3. PICK tr : tr = ran
    OBVIOUS
  <1>4. Extends(Meaning(f), tr)
    BY <1>2, <1>3 DEF Promised
  <1>5. CASE Fail("error") /\ ~Meaning(flow).ok
    <2>1. status' = "error" /\ ~Meaning(f).ok
      BY <1>2, <1>5 DEF Fail
    <2> QED  BY <1>1, <1>2, <1>3, <1>4, <2>1 DEF Promised
  <1>6. CASE Fail("stopped")
    <2>1. status' = "stopped"
      BY <1>6 DEF Fail
    <2> QED  BY <1>1, <1>2, <1>3, <1>4, <2>1 DEF Promised
  <1>7. CASE /\ UNCHANGED <<status, output>> /\ flow.readable
             /\ \E E : Going(flow, stack', ran, E)
    <2>1. status' = "none"
      BY <1>7 DEF Working
    <2>2. PICK E : Going(f, stack', tr, E)
      BY <1>2, <1>3, <1>7
    <2>3. PICK t : t = stack'
      OBVIOUS
    <2>4. Going(f, t, tr, E) /\ f.readable
      BY <1>2, <1>7, <2>2, <2>3
    <2>5. t # <<>>
      BY <2>4 DEF Going
    <2> QED  BY <1>1, <1>2, <1>3, <1>4, <2>1, <2>3, <2>4, <2>5 DEF Promised
  <1> QED  BY <1>5, <1>6, <1>7

\* Every step of the worker keeps the promise.
LEMMA EnterMeaning == ASSUME IInv, IInv', Promised, Enter PROVE Promised'
  <1>1. Working /\ Depth > 0 /\ Top.phase = "enter" /\ Worker /\ Quiet
    BY DEF Enter
  <1>2. PICK f : f = flow
    OBVIOUS
  <1>3. PICK s : s = stack
    OBVIOUS
  <1>4. PICK tr : tr = ran
    OBVIOUS
  <1>5. PICK t : t = stack'
    OBVIOUS
  <1>6. PICK C : Going(f, s, tr, C)
    BY <1>1, <1>2, <1>3, <1>4, Calls
  <1>7. PICK n : n = Len(s)
    OBVIOUS
  <1>8. /\ Top = s[n] /\ Depth = n /\ f.readable /\ s[n].phase = "enter"
        /\ f \in Flows
    BY <1>1, <1>2, <1>3, <1>7, Calls
  <1>9. CASE stop /\ Fail("stopped")
    BY <1>1, <1>9, Keeps
  <1>10. CASE Top.depth > MaxDepth /\ Fail("error")
    <2>1. ~Meaning(f).ok
      <3>1. s[n].depth > MaxDepth
        BY <1>8, <1>10
      <3> QED  BY ONLY <1>6, <1>7, <1>8, <3>1, EnterTooDeep
    <2> QED  BY <1>1, <1>2, <1>10, <2>1, Keeps
  <1>11. CASE ~(Top.depth > MaxDepth) /\
             Onward([stack EXCEPT ![Depth].phase =
                IF flow.child[Top.node] # <<>> THEN "import" ELSE AfterImport(Top.node)])
    <2>1. t = [s EXCEPT ![n] = Entered(f, s[n])]
      BY <1>2, <1>3, <1>5, <1>7, <1>8, <1>11 DEF Onward, Entered, AfterImport, Top, Depth
    <2>2. s[n].depth <= MaxDepth
      <3>1. s[n].depth \in Int /\ MaxDepth \in Nat
        BY <1>1, <1>8, Numbers
      <3> QED  BY <1>8, <1>11, <3>1
    <2>3. GoodStack(t)
      BY <1>5 DEF IInv
    <2>4. PICK E : Going(f, t, tr, E)
      BY ONLY <1>6, <1>7, <1>8, <2>1, <2>2, <2>3, EnterGoesOn
    <2>5. UNCHANGED <<status, output>> /\ flow.readable /\ \E X : Going(flow, stack', ran, X)
      BY <1>2, <1>4, <1>5, <1>8, <1>11, <2>4 DEF Onward
    <2> QED  BY <1>1, <2>5, Keeps
  <1> QED  BY <1>9, <1>10, <1>11 DEF Enter

LEMMA ImportMeaning == ASSUME IInv, IInv', Promised, Import PROVE Promised'
  <1>1. Working /\ Depth > 0 /\ Top.phase = "import" /\ Worker /\ Quiet
    BY DEF Import
  <1>2. PICK f : f = flow
    OBVIOUS
  <1>3. PICK s : s = stack
    OBVIOUS
  <1>4. PICK tr : tr = ran
    OBVIOUS
  <1>5. PICK t : t = stack'
    OBVIOUS
  <1>6. PICK C : Going(f, s, tr, C)
    BY <1>1, <1>2, <1>3, <1>4, Calls
  <1>7. PICK n : n = Len(s)
    OBVIOUS
  <1>8. /\ Top = s[n] /\ Depth = n /\ f.readable /\ s[n].phase = "import"
        /\ f \in Flows
    BY <1>1, <1>2, <1>3, <1>7, Calls
  <1>9. CASE stop /\ Fail("stopped")
    BY <1>1, <1>9, Keeps
  <1>10. CASE Top.i > Len(Top.active) /\ NextPhase(AfterImport(Top.node))
    <2>1. t = [s EXCEPT ![n] = Moved(s[n], IF s[n].node \in f.execs THEN "exec" ELSE "links")]
      BY <1>2, <1>3, <1>5, <1>7, <1>8, <1>10
         DEF NextPhase, Onward, Moved, AfterImport, Top, Depth
    <2>2. s[n].i # 1
      <3>1. Len(s[n].active) = 1
        BY <1>6, <1>7, <1>8, GoingTop DEF ShapedFrame
      <3> QED  BY <1>8, <1>10, <3>1
    <2>8. GoodStack(t)
      BY <1>5 DEF IInv
    <2>9. PICK E : Going(f, t, tr, E)
      BY ONLY <1>6, <1>7, <1>8, <2>1, <2>2, <2>8, ImportGoesOn
    <2>10. UNCHANGED <<status, output>> /\ flow.readable /\ \E X : Going(flow, stack', ran, X)
      BY <1>2, <1>4, <1>5, <1>8, <1>10, <2>9 DEF Onward, NextPhase
    <2> QED  BY <1>1, <2>10, Keeps
  <1>11. CASE /\ ~(Top.i > Len(Top.active))
              /\ Onward(Call(stack, Frame("entries", Top.node, <<Top.active[Top.i]>>,
                                          Top.made, Top.depth + 1)))
    <2>1. PICK h : h = Frame("entries", s[n].node, <<s[n].active[s[n].i]>>, s[n].made,
                             s[n].depth + 1)
      OBVIOUS
    <2>2. s[n].i = 1 /\ s[n].made = <<>> /\ s[n].active = <<s[n].active[1]>>
      <3>1. /\ Len(s[n].active) = 1
            /\ (s[n].i = 1 /\ s[n].made = <<>>) \/ s[n].i = 2
        BY <1>6, <1>7, <1>8, GoingTop DEF ShapedFrame
      <3>2. s[n].active \in Seq(Branch) /\ s[n].i \in Nat \ {0}
        BY <1>6, <1>7, <1>8, TopFields
      <3>3. s[n].i = 1
        BY <1>8, <1>11, <3>1, <3>2
      <3> QED  BY <3>1, <3>2, <3>3
    <2>3. /\ h.phase = "entries" /\ h.node = s[n].node /\ h.made = <<>>
          /\ h.active = s[n].active /\ h.depth = s[n].depth + 1 /\ h.i = 1 /\ h.j = 1
      BY <2>1, <2>2 DEF Frame
    <2>4. t = Append(s, h)
      BY <1>3, <1>5, <1>8, <1>11, <2>1 DEF Onward, Call
    <2>5. s = [s EXCEPT ![n] = s[n]] /\ Len(t) = n + 1 /\ t[n + 1] = h /\ n \in Nat
      <3>1. s \in Seq(FrameType) /\ n \in Nat
        BY <1>6, <1>7, GoingTop
      <3> QED  BY <1>7, <2>4, <3>1
    <2>6. t = Append([s EXCEPT ![n] = s[n]], h)
      BY <2>4, <2>5
    <2>8. GoodStack(t)
      BY <1>5 DEF IInv
    <2>7. h \in FrameType
      <3>1. t \in Seq(FrameType) /\ n + 1 \in 1..Len(t)
        BY <2>5, <2>8 DEF GoodStack
      <3> QED  BY <2>5, <3>1
    <2>9. PICK E : Going(f, t, tr, E)
      BY ONLY <1>6, <1>7, <1>8, <2>2, <2>3, <2>6, <2>7, <2>8, ImportCalls
    <2>10. UNCHANGED <<status, output>> /\ flow.readable /\ \E X : Going(flow, stack', ran, X)
      BY <1>2, <1>4, <1>5, <1>8, <1>11, <2>9 DEF Onward
    <2> QED  BY <1>1, <2>10, Keeps
  <1> QED  BY <1>9, <1>10, <1>11 DEF Import

LEMMA ExecMeaning == ASSUME IInv, IInv', Promised, Exec PROVE Promised'
  <1>1. Working /\ Depth > 0 /\ Top.phase = "exec" /\ Worker /\ Quiet
    BY DEF Exec
  <1>2. PICK f : f = flow
    OBVIOUS
  <1>3. PICK s : s = stack
    OBVIOUS
  <1>4. PICK tr : tr = ran
    OBVIOUS
  <1>5. PICK t : t = stack'
    OBVIOUS
  <1>6. PICK C : Going(f, s, tr, C)
    BY <1>1, <1>2, <1>3, <1>4, Calls
  <1>7. PICK n : n = Len(s)
    OBVIOUS
  <1>8. /\ Top = s[n] /\ Depth = n /\ f.readable /\ s[n].phase = "exec"
        /\ f \in Flows
    BY <1>1, <1>2, <1>3, <1>7, Calls
  <1>9. CASE stop /\ Fail("stopped")
    BY <1>1, <1>9, Keeps
  <1>10. CASE Top.i > Len(Top.active) /\ NextPhase("links")
    <2>1. t = [s EXCEPT ![n] = Moved(s[n], "links")] /\ s[n].i > Len(s[n].active)
      BY <1>2, <1>3, <1>5, <1>7, <1>8, <1>10 DEF NextPhase, Onward, Moved, Top, Depth
    <2>8. GoodStack(t)
      BY <1>5 DEF IInv
    <2>9. PICK E : Going(f, t, tr, E)
      BY ONLY <1>6, <1>7, <1>8, <2>1, <2>8, ExecEnds
    <2>10. UNCHANGED <<status, output>> /\ flow.readable /\ \E X : Going(flow, stack', ran, X)
      BY <1>2, <1>4, <1>5, <1>8, <1>10, <2>9 DEF Onward, NextPhase
    <2> QED  BY <1>1, <2>10, Keeps
  <1>11. CASE Onward([stack EXCEPT ![Depth].phase = "template"])
    <2>1. PICK phase : phase = "template"
      OBVIOUS
    <2>2. t = [s EXCEPT ![n] = [s[n] EXCEPT !.phase = phase]] /\ phase \in {"template", "command"}
          /\ s[n].phase \in {"exec", "template"}
      BY <1>3, <1>5, <1>7, <1>8, <1>11, <2>1 DEF Onward, Top, Depth
    <2>8. GoodStack(t)
      BY <1>5 DEF IInv
    <2>9. PICK E : Going(f, t, tr, E)
      BY ONLY <1>6, <1>7, <1>8, <2>2, <2>8, InsideGoesOn
    <2>10. UNCHANGED <<status, output>> /\ flow.readable /\ \E X : Going(flow, stack', ran, X)
      BY <1>2, <1>4, <1>5, <1>8, <1>11, <2>9 DEF Onward
    <2> QED  BY <1>1, <2>10, Keeps
  <1> QED  BY <1>9, <1>10, <1>11 DEF Exec

LEMMA TemplateMeaning == ASSUME IInv, IInv', Promised, Template PROVE Promised'
  <1>1. Working /\ Depth > 0 /\ Top.phase = "template" /\ Worker /\ Quiet
    BY DEF Template
  <1>2. PICK f : f = flow
    OBVIOUS
  <1>3. PICK s : s = stack
    OBVIOUS
  <1>4. PICK tr : tr = ran
    OBVIOUS
  <1>5. PICK t : t = stack'
    OBVIOUS
  <1>6. PICK C : Going(f, s, tr, C)
    BY <1>1, <1>2, <1>3, <1>4, Calls
  <1>7. PICK n : n = Len(s)
    OBVIOUS
  <1>8. /\ Top = s[n] /\ Depth = n /\ f.readable /\ s[n].phase = "template"
        /\ f \in Flows
    BY <1>1, <1>2, <1>3, <1>7, Calls
  <1>9. CASE stop /\ Fail("stopped")
    BY <1>1, <1>9, Keeps
  <1>11. CASE Onward([stack EXCEPT ![Depth].phase = "command"])
    <2>1. PICK phase : phase = "command"
      OBVIOUS
    <2>2. t = [s EXCEPT ![n] = [s[n] EXCEPT !.phase = phase]] /\ phase \in {"template", "command"}
          /\ s[n].phase \in {"exec", "template"}
      BY <1>3, <1>5, <1>7, <1>8, <1>11, <2>1 DEF Onward, Top, Depth
    <2>8. GoodStack(t)
      BY <1>5 DEF IInv
    <2>9. PICK E : Going(f, t, tr, E)
      BY ONLY <1>6, <1>7, <1>8, <2>2, <2>8, InsideGoesOn
    <2>10. UNCHANGED <<status, output>> /\ flow.readable /\ \E X : Going(flow, stack', ran, X)
      BY <1>2, <1>4, <1>5, <1>8, <1>11, <2>9 DEF Onward
    <2> QED  BY <1>1, <2>10, Keeps
  <1> QED  BY <1>9, <1>11 DEF Template

LEMMA RanMeaning == ASSUME IInv, IInv', Promised, Ran PROVE Promised'
  <1>1. Working /\ Depth > 0 /\ Top.phase = "ran" /\ Worker /\ Quiet
    BY DEF Ran
  <1>2. PICK f : f = flow
    OBVIOUS
  <1>3. PICK s : s = stack
    OBVIOUS
  <1>4. PICK tr : tr = ran
    OBVIOUS
  <1>5. PICK t : t = stack'
    OBVIOUS
  <1>6. PICK C : Going(f, s, tr, C)
    BY <1>1, <1>2, <1>3, <1>4, Calls
  <1>7. PICK n : n = Len(s)
    OBVIOUS
  <1>8. /\ Top = s[n] /\ Depth = n /\ f.readable /\ s[n].phase = "ran"
        /\ f \in Flows
    BY <1>1, <1>2, <1>3, <1>7, Calls
  <1>9. CASE stop /\ Fail("stopped")
    BY <1>1, <1>9, Keeps
  <1>10. CASE Onward([stack EXCEPT ![Depth] =
                [@ EXCEPT !.phase = "exec",
                          !.made = Append(Top.made, Through(Top.active[Top.i], Top.node)),
                          !.i = Top.i + 1]])
    <2>1. PICK g : g = [s[n] EXCEPT !.phase = "exec",
                          !.made = Append(s[n].made, Through(s[n].active[s[n].i], s[n].node)),
                          !.i = s[n].i + 1]
      OBVIOUS
    <2>2. t = [s EXCEPT ![n] = g]
      BY <1>3, <1>5, <1>7, <1>8, <1>10, <2>1 DEF Onward, Top, Depth
    <2>3. s \in Seq(FrameType) /\ n \in Nat /\ n > 0
      BY <1>6, <1>7, GoingTop
    <2>4. s[n] \in FrameType /\ n \in 1..Len(s)
      BY <1>7, <2>3
    <2>5. /\ g.phase = "exec" /\ g.node = s[n].node /\ g.active = s[n].active
          /\ g.depth = s[n].depth /\ g.j = s[n].j /\ g.i = s[n].i + 1
          /\ g.made = Append(s[n].made, Through(s[n].active[s[n].i], s[n].node))
      BY <2>1, <2>4 DEF FrameType
    <2>8. GoodStack(t)
      BY <1>5 DEF IInv
    <2>6. g \in FrameType
      <3>1. t \in Seq(FrameType) /\ n \in 1..Len(t) /\ t[n] = g
        BY <2>2, <2>3, <2>4, <2>8 DEF GoodStack
      <3> QED  BY <3>1
    <2>9. PICK E : Going(f, t, tr, E)
      BY ONLY <1>6, <1>7, <1>8, <2>2, <2>5, <2>6, <2>8, RanGoesOn
    <2>10. UNCHANGED <<status, output>> /\ flow.readable /\ \E X : Going(flow, stack', ran, X)
      BY <1>2, <1>4, <1>5, <1>8, <1>10, <2>9 DEF Onward
    <2> QED  BY <1>1, <2>10, Keeps
  <1> QED  BY <1>9, <1>10 DEF Ran

LEMMA LoadMeaning == ASSUME IInv, IInv', Promised, Load PROVE Promised'
  <1>1. Working /\ stack = <<>> /\ Worker /\ Quiet
    BY DEF Load
  <1>2. PICK f : f = flow
    OBVIOUS
  <1>3. PICK t : t = stack'
    OBVIOUS
  <1>4. f \in Flows /\ ran = <<>>
    BY <1>1, <1>2 DEF IInv, TypeOK, Promised, Working
  <1>5. CASE ~flow.readable /\ Fail("error")
    <2>1. Meaning(f) = Broken
      BY <1>2, <1>5 DEF Meaning
    <2>2. ~Meaning(f).ok
      BY <2>1, SmallResults
    <2> QED  BY <1>1, <1>2, <1>5, <2>2, Keeps
  <1>6. CASE flow.readable /\ Onward(<<Frame("entries", "", <<<<>>>>, <<>>, -1)>>)
    <2>1. PICK h : h = Frame("entries", "", <<<<>>>>, <<>>, -1)
      OBVIOUS
    <2>2. t = <<h>>
      BY <1>3, <1>6, <2>1 DEF Onward
    <2>3. /\ h.phase = "entries" /\ h.active = <<<<>>>> /\ h.made = <<>>
          /\ h.i = 1 /\ h.j = 1 /\ h.depth = -1
      BY <2>1 DEF Frame
    <2>4. GoodStack(t)
      BY <1>3 DEF IInv
    <2>5. h \in FrameType
      <3>1. t \in Seq(FrameType) /\ Len(t) = 1 /\ t[1] = h
        BY <2>2, <2>4 DEF GoodStack
      <3> QED  BY <3>1
    <2>6. f.readable
      BY <1>2, <1>6
    <2>7. PICK E : Going(f, t, <<>>, E)
      BY ONLY <1>4, <2>2, <2>3, <2>4, <2>5, <2>6, Loads
    <2>8. UNCHANGED <<status, output>> /\ flow.readable /\ \E X : Going(flow, stack', ran, X)
      BY <1>2, <1>3, <1>4, <1>6, <2>7 DEF Onward
    <2> QED  BY <1>1, <2>8, Keeps
  <1> QED  BY <1>5, <1>6 DEF Load

LEMMA EntryMeaning == ASSUME IInv, IInv', Promised, Entry PROVE Promised'
  <1>1. Working /\ Depth > 0 /\ Top.phase = "entries" /\ Worker /\ Quiet
    BY DEF Entry
  <1>2. PICK f : f = flow
    OBVIOUS
  <1>3. PICK s : s = stack
    OBVIOUS
  <1>4. PICK tr : tr = ran
    OBVIOUS
  <1>5. PICK t : t = stack'
    OBVIOUS
  <1>6. PICK C : Going(f, s, tr, C)
    BY <1>1, <1>2, <1>3, <1>4, Calls
  <1>7. PICK n : n = Len(s)
    OBVIOUS
  <1>8. /\ Top = s[n] /\ Depth = n /\ f.readable /\ s[n].phase = "entries"
        /\ f \in Flows
    BY <1>1, <1>2, <1>3, <1>7, Calls
  <1>9. Targets = TargetsAt(f, s, n) /\ s[n].i <= Len(TargetsAt(f, s, n))
    BY <1>2, <1>3, <1>7, <1>8 DEF Entry, Targets, TargetsAt, Top, Depth
  <1>10. CASE stop /\ Fail("stopped")
    BY <1>1, <1>10, Keeps
  <1>11. CASE Targets[Top.i] \notin Nodes /\ Fail("error")
    <2>1. TargetsAt(f, s, n)[s[n].i] \notin Nodes
      BY <1>8, <1>9, <1>11
    <2>2. ~Meaning(f).ok
      BY ONLY <1>6, <1>7, <1>8, <1>9, <2>1, EntryBreaks
    <2> QED  BY <1>1, <1>2, <1>11, <2>2, Keeps
  <1>12. CASE /\ Targets[Top.i] \in Nodes
              /\ Onward(Call([stack EXCEPT ![Depth].i = @ + 1],
                        Frame("enter", Targets[Top.i], Top.active, <<>>, Top.depth + 1)))
    <2>1. PICK g : g = [s[n] EXCEPT !.i = s[n].i + 1]
      OBVIOUS
    <2>2. PICK h : h = Frame("enter", TargetsAt(f, s, n)[s[n].i], s[n].active, <<>>, s[n].depth + 1)
      OBVIOUS
    <2>3. t = Append([s EXCEPT ![n] = g], h)
      BY <1>3, <1>5, <1>8, <1>9, <1>12, <2>1, <2>2 DEF Onward, Call, Top
    <2>4. s \in Seq(FrameType) /\ n \in Nat /\ n > 0 /\ s[n] \in FrameType
      <3>1. s \in Seq(FrameType) /\ n \in Nat /\ n > 0
        BY <1>6, <1>7, GoingTop
      <3> QED  BY <1>7, <3>1
    <2>5. /\ g.phase = "entries" /\ g.node = s[n].node /\ g.active = s[n].active
          /\ g.made = s[n].made /\ g.i = s[n].i + 1 /\ g.j = s[n].j /\ g.depth = s[n].depth
          /\ g \in FrameType
      <3>1. g \in FrameType
        BY <2>1, <2>4, NextIndex
      <3> QED  BY <1>8, <2>1, <2>4, <3>1 DEF FrameType
    <2>6. /\ h.phase = "enter" /\ h.node = TargetsAt(f, s, n)[s[n].i]
          /\ h.active = s[n].active /\ h.depth = s[n].depth + 1 /\ h.j = 1
      BY <2>2 DEF Frame
    <2>7. GoodStack(t)
      BY <1>5 DEF IInv
    <2>8. h \in FrameType
      <3>1. Len(t) = n + 1 /\ t[n + 1] = h
        BY <1>7, <2>3, <2>4
      <3>2. t \in Seq(FrameType) /\ n + 1 \in 1..n + 1
        BY <2>4, <2>7 DEF GoodStack
      <3> QED  BY <3>1, <3>2
    <2>9. TargetsAt(f, s, n)[s[n].i] \in Nodes
      BY <1>8, <1>9, <1>12
    <2>10. PICK E : Going(f, t, tr, E)
      BY ONLY <1>6, <1>7, <1>8, <1>9, <2>3, <2>5, <2>6, <2>7, <2>8, <2>9, EntryCalls
    <2>11. UNCHANGED <<status, output>> /\ flow.readable /\ \E X : Going(flow, stack', ran, X)
      BY <1>2, <1>4, <1>5, <1>8, <1>12, <2>10 DEF Onward
    <2> QED  BY <1>1, <2>11, Keeps
  <1> QED  BY <1>10, <1>11, <1>12 DEF Entry

LEMMA LinkMeaning == ASSUME IInv, IInv', Promised, Link PROVE Promised'
  <1>1. Working /\ Depth > 0 /\ Top.phase = "links" /\ Worker /\ Quiet
    BY DEF Link
  <1>2. PICK f : f = flow
    OBVIOUS
  <1>3. PICK s : s = stack
    OBVIOUS
  <1>4. PICK tr : tr = ran
    OBVIOUS
  <1>5. PICK t : t = stack'
    OBVIOUS
  <1>6. PICK C : Going(f, s, tr, C)
    BY <1>1, <1>2, <1>3, <1>4, Calls
  <1>7. PICK n : n = Len(s)
    OBVIOUS
  <1>8. /\ Top = s[n] /\ Depth = n /\ f.readable /\ s[n].phase = "links"
        /\ f \in Flows
    BY <1>1, <1>2, <1>3, <1>7, Calls
  <1>9. f.links[s[n].node] # <<>>
    BY <1>2, <1>8 DEF Link
  <1>10. CASE Top.i > Len(Top.active) /\ Onward(Front(stack))
    <2>1. t = Front(s) /\ s[n].i > Len(s[n].active)
      BY <1>3, <1>5, <1>8, <1>10 DEF Onward
    <2>2. PICK E : Going(f, t, tr, E)
      BY ONLY <1>6, <1>7, <1>8, <1>9, <2>1, LinksEnd
    <2>3. UNCHANGED <<status, output>> /\ flow.readable /\ \E X : Going(flow, stack', ran, X)
      BY <1>2, <1>4, <1>5, <1>8, <1>10, <2>2 DEF Onward
    <2> QED  BY <1>1, <2>3, Keeps
  <1>11. CASE stop /\ Fail("stopped")
    BY <1>1, <1>11, Keeps
  <1>12. CASE ~(Top.i > Len(Top.active)) /\ ~stop
    <2>1. PICK target : target = f.links[s[n].node][s[n].j]
      OBVIOUS
    <2>2. s[n].i <= Len(s[n].active)
      <3>1. s[n].i \in Nat /\ Len(s[n].active) \in Nat
        BY <1>6, <1>7, <1>8, TopFields
      <3> QED  BY <1>8, <1>12, <3>1
    <2>3. flow.links[Top.node][Top.j] = target
      BY <1>2, <1>8, <2>1
    <2>4. CASE target \notin Nodes /\ Fail("error")
      <3>1. f.links[s[n].node][s[n].j] \notin Nodes
        BY <2>1, <2>4
      <3>2. ~Meaning(f).ok
        BY ONLY <1>6, <1>7, <1>8, <1>9, <2>2, <3>1, LinkBreaks
      <3> QED  BY <1>1, <1>2, <2>4, <3>2, Keeps
    <2>5. CASE /\ target \in Nodes
               /\ Onward(Call([stack EXCEPT ![Depth] = NextLink(@)],
                              Frame("enter", target, <<Top.active[Top.i]>>, <<>>, Top.depth + 1)))
      <3>1. PICK g : g = NextLink(s[n])
        OBVIOUS
      <3>2. PICK h : h = Frame("enter", target, <<s[n].active[s[n].i]>>, <<>>, s[n].depth + 1)
        OBVIOUS
      <3>3. t = Append([s EXCEPT ![n] = g], h)
        BY <1>3, <1>5, <1>8, <2>5, <3>1, <3>2 DEF Onward, Call, Top
      <3>4. s \in Seq(FrameType) /\ n \in Nat /\ n > 0 /\ s[n] \in FrameType
        <4>1. s \in Seq(FrameType) /\ n \in Nat /\ n > 0
          BY <1>6, <1>7, GoingTop
        <4> QED  BY <1>7, <4>1
      <3>5. NextLinkOf(s[n], g, f.links[s[n].node])
        <4>1. g = IF s[n].j < Len(f.links[s[n].node]) THEN [s[n] EXCEPT !.j = @ + 1]
                  ELSE [s[n] EXCEPT !.i = @ + 1, !.j = 1]
          BY <1>2, <3>1 DEF NextLink
        <4> QED  BY <1>8, <3>4, <4>1 DEF NextLinkOf, FrameType
      <3>6. /\ h.phase = "enter" /\ h.node = f.links[s[n].node][s[n].j]
            /\ h.active = <<s[n].active[s[n].i]>> /\ h.depth = s[n].depth + 1 /\ h.j = 1
        BY <2>1, <3>2 DEF Frame
      <3>7. GoodStack(t)
        BY <1>5 DEF IInv
      <3>8. h \in FrameType /\ g \in FrameType
        <4>1. Len(t) = n + 1 /\ t[n + 1] = h /\ t[n] = g
          BY <1>7, <3>3, <3>4
        <4>2. t \in Seq(FrameType) /\ n + 1 \in 1..n + 1 /\ n \in 1..n + 1
          BY <3>4, <3>7 DEF GoodStack
        <4> QED  BY <4>1, <4>2
      <3>9. f.links[s[n].node][s[n].j] \in Nodes
        BY <2>1, <2>5
      <3>10. PICK E : Going(f, t, tr, E)
        BY ONLY <1>6, <1>7, <1>8, <1>9, <2>2, <3>3, <3>5, <3>6, <3>7, <3>8, <3>9, LinkCalls
      <3>11. UNCHANGED <<status, output>> /\ flow.readable /\ \E X : Going(flow, stack', ran, X)
        BY <1>2, <1>4, <1>5, <1>8, <2>5, <3>10 DEF Onward
      <3> QED  BY <1>1, <3>11, Keeps
    <2> QED  BY <1>12, <2>3, <2>4, <2>5 DEF Link
  <1> QED  BY <1>10, <1>11, <1>12 DEF Link

\* The steps that return.
LEMMA LeaveMeaning == ASSUME IInv, IInv', Promised, Leave PROVE Promised'
  <1>1. Working /\ Depth > 0 /\ Top.phase = "entries" /\ Worker /\ Quiet
    BY DEF Leave
  <1>2. PICK f : f = flow
    OBVIOUS
  <1>3. PICK s : s = stack
    OBVIOUS
  <1>4. PICK tr : tr = ran
    OBVIOUS
  <1>5. PICK t : t = stack'
    OBVIOUS
  <1>6. PICK C : Going(f, s, tr, C)
    BY <1>1, <1>2, <1>3, <1>4, Calls
  <1>7. PICK n : n = Len(s)
    OBVIOUS
  <1>8. /\ Top = s[n] /\ Depth = n /\ f.readable /\ s[n].phase = "entries"
        /\ f \in Flows
    BY <1>1, <1>2, <1>3, <1>7, Calls
  <1>9. Targets = TargetsAt(f, s, n) /\ s[n].i > Len(TargetsAt(f, s, n))
    BY <1>2, <1>3, <1>7, <1>8 DEF Leave, Targets, TargetsAt, Top, Depth
  <1>10. CASE Depth = 1 /\ status' = "ok" /\ output' = Top.made /\ stack' = <<>>
    <2>1. n <= 1
      BY <1>8, <1>10
    <2>2. Meaning(f).ok /\ Meaning(f).outs = s[n].made
      BY ONLY <1>6, <1>7, <1>9, <2>1, RunOver
    <2>3. status' = "ok" /\ output' = s[n].made /\ flow' = f /\ ran' = ran
      BY <1>1, <1>2, <1>8, <1>10 DEF Worker, Quiet
    <2>4. Extends(Meaning(f), ran)
      BY <1>2 DEF Promised
    <2> QED  BY <2>2, <2>3, <2>4 DEF Promised
  <1>11. CASE Depth # 1 /\ Onward([Front(stack) EXCEPT ![Depth - 1] = Returned(@, Top.made)])
    <2>1. s \in Seq(FrameType) /\ n \in Nat /\ n > 1
      <3>1. s \in Seq(FrameType) /\ n \in Nat /\ n > 0
        BY <1>6, <1>7, GoingTop
      <3> QED  BY <1>8, <1>11, <3>1
    <2>2. PICK l : l = n - 1
      OBVIOUS
    <2>3. l \in 1..n - 1 /\ l \in 1..Len(s) /\ s[l] \in FrameType
      BY <1>7, <2>1, <2>2
    <2>4. PICK u : u = Front(s)
      OBVIOUS
    <2>5. Len(u) = n - 1 /\ (\A k \in 1..n - 1 : u[k] = s[k]) /\ u \in Seq(FrameType)
      <3>1. Len(u) = n - 1 /\ (\A k \in 1..n - 1 : u[k] = s[k])
        <4>1. s \in Seq(FrameType) /\ Len(s) > 1
          BY <1>7, <2>1
        <4>2. Len(Front(s)) = Len(s) - 1 /\ \A k \in 1..Len(s) - 1 : Front(s)[k] = s[k]
          BY ONLY <4>1, PopFields
        <4> QED  BY <1>7, <2>4, <4>2
      <3>2. GoodStack(Front(s))
        <4>1. GoodStack(s) /\ s # <<>>
          BY <1>6, <1>7, <2>1, GoingTop
        <4> QED  BY <4>1, ReturnGood
      <3> QED  BY <2>4, <3>1, <3>2 DEF GoodStack
    <2>6. PICK g : g = [s[l] EXCEPT !.made = s[n].made, !.i = s[l].i + 1]
      OBVIOUS
    <2>7. t = [u EXCEPT ![l] = g]
      <3>1. t = [u EXCEPT ![l] = Returned(u[l], s[n].made)]
        BY <1>3, <1>5, <1>8, <1>11, <2>2, <2>4 DEF Onward
      <3>2. Returned(u[l], s[n].made) = g
        BY <2>3, <2>5, <2>6 DEF Returned
      <3> QED  BY <3>1, <3>2
    <2>8. Len(t) = n - 1 /\ t[n - 1] = g /\ \A k \in 1..n - 2 : t[k] = s[k]
      <3>1. Len(t) = n - 1 /\ t[l] = g /\ \A k \in 1..n - 1 : k # l => t[k] = u[k]
        BY <2>3, <2>5, <2>7
      <3>2. \A k \in 1..n - 2 : k \in 1..n - 1 /\ k # l
        BY <2>1, <2>2
      <3> QED  BY <2>2, <2>5, <3>1, <3>2
    <2>9. GoodStack(t)
      BY <1>5 DEF IInv
    <2>10. /\ g.phase = s[n - 1].phase /\ g.node = s[n - 1].node
           /\ g.active = s[n - 1].active /\ g.made = s[n].made /\ g.i = s[n - 1].i + 1
           /\ g.j = s[n - 1].j /\ g.depth = s[n - 1].depth /\ g \in FrameType
      <3>1. /\ g.phase = s[l].phase /\ g.node = s[l].node
            /\ g.active = s[l].active /\ g.made = s[n].made /\ g.i = s[l].i + 1
            /\ g.j = s[l].j /\ g.depth = s[l].depth
        BY <2>3, <2>6 DEF FrameType
      <3>2. t \in Seq(FrameType)
        BY <2>9 DEF GoodStack
      <3>3. g \in FrameType
        BY <2>2, <2>3, <2>8, <3>2
      <3> QED  BY <2>2, <3>1, <3>3
    <2>11. PICK E : Going(f, t, tr, E)
      BY ONLY <1>6, <1>7, <1>8, <1>9, <2>1, <2>8, <2>9, <2>10, ChildReturns
    <2>12. UNCHANGED <<status, output>> /\ flow.readable /\ \E X : Going(flow, stack', ran, X)
      BY <1>2, <1>4, <1>5, <1>8, <1>11, <2>11 DEF Onward
    <2> QED  BY <1>1, <2>12, Keeps
  <1> QED  BY <1>10, <1>11 DEF Leave

\* The frame that collects the output of the innermost call.
LEMMA OwnerIs ==
    ASSUME GoodStack(stack), Depth > 0, stack[1].phase = "entries"
    PROVE  Owner = OwnerOf(stack, Len(stack))
  <1>1. Len(stack) \in Nat /\ Len(stack) >= 1 /\ Depth = Len(stack)
    BY DEF GoodStack, Depth
  <1>2. PICK o : o = OwnerOf(stack, Len(stack))
    OBVIOUS
  <1>3. /\ o \in 1..Len(stack) /\ Owns(stack, o, Len(stack))
        /\ \A q : Owns(stack, q, Len(stack)) => q = o
    BY <1>1, <1>2, OwnerExists
  <1>4. /\ o \in 1..Depth /\ stack[o].phase = "entries"
        /\ \A l \in o + 1..Depth : stack[l].phase # "entries"
    BY <1>1, <1>3 DEF Owns
  <1>5. Owner \in 1..Depth /\ stack[Owner].phase = "entries"
        /\ \A l \in Owner + 1..Depth : stack[l].phase # "entries"
    BY <1>4 DEF Owner
  <1>6. Owns(stack, Owner, Len(stack))
    BY <1>1, <1>5 DEF Owns
  <1> QED  BY <1>2, <1>3, <1>6

LEMMA LeafMeaning == ASSUME IInv, IInv', Promised, Leaf PROVE Promised'
  <1>1. Working /\ Depth > 0 /\ Top.phase = "links" /\ Worker /\ Quiet
    BY DEF Leaf
  <1>2. PICK f : f = flow
    OBVIOUS
  <1>3. PICK s : s = stack
    OBVIOUS
  <1>4. PICK tr : tr = ran
    OBVIOUS
  <1>5. PICK t : t = stack'
    OBVIOUS
  <1>6. PICK C : Going(f, s, tr, C)
    BY <1>1, <1>2, <1>3, <1>4, Calls
  <1>7. PICK n : n = Len(s)
    OBVIOUS
  <1>8. /\ Top = s[n] /\ Depth = n /\ f.readable /\ s[n].phase = "links"
        /\ f \in Flows
    BY <1>1, <1>2, <1>3, <1>7, Calls
  <1>9. CASE stop /\ Fail("stopped")
    BY <1>1, <1>9, Keeps
  <1>10. PICK o : o = OwnerOf(s, n)
    OBVIOUS
  <1>11. /\ f.links[s[n].node] = <<>> /\ Owner = o /\ GoodStack(s) /\ s[1].phase = "entries"
         /\ s \in Seq(FrameType) /\ n \in Nat
    <2>1. GoodStack(s) /\ s[1].phase = "entries" /\ s \in Seq(FrameType) /\ n \in Nat
      BY <1>6, <1>7, GoingTop
    <2>2. Owner = o
      BY <1>1, <1>3, <1>7, <1>10, <2>1, OwnerIs
    <2> QED  BY <1>2, <1>8, <2>1, <2>2 DEF Leaf
  <1>12. PICK p : p = s[o].made
    OBVIOUS
  <1>13. PICK a : a = s[n].active
    OBVIOUS
  <1>14. /\ o \in 1..n - 1 /\ n > 1 /\ s[n].active \in Seq(Branch)
         /\ p \in Seq(Branch) /\ a \in Seq(Branch)
    BY ONLY <1>6, <1>7, <1>8, <1>10, <1>11, <1>12, <1>13, LeafMeans
  <1>15. CASE Len(stack[Owner].made) + Len(Top.active) > MaxBranches /\ Fail("error")
    <2>1. Len(s[o].made) + Len(s[n].active) > MaxBranches
      BY <1>3, <1>8, <1>11, <1>15
    <2>2. ~Meaning(f).ok
      BY ONLY <1>6, <1>7, <1>8, <1>10, <1>11, <2>1, LeafBreaks
    <2> QED  BY <1>1, <1>2, <1>15, <2>2, Keeps
  <1>16. CASE Onward(Front([stack EXCEPT ![Owner].made = @ \o Top.active]))
    <2>1. PICK g : g = [s[o] EXCEPT !.made = s[o].made \o s[n].active]
      OBVIOUS
    <2>2. PICK u : u = [s EXCEPT ![o] = g]
      OBVIOUS
    <2>3. o \in 1..Len(s) /\ s[o] \in FrameType /\ o \in 1..n - 1
      BY <1>7, <1>11, <1>14
    <2>4. t = Front(u)
      BY <1>3, <1>5, <1>8, <1>11, <1>16, <2>1, <2>2 DEF Onward
    <2>5. g \in FrameType
      <3>1. s[o].made \o s[n].active \in Seq(Branch)
        BY <1>12, <1>13, <1>14, Joined
      <3> QED  BY <2>1, <2>3, <3>1, WithMade
    <2>6. /\ g.phase = s[o].phase /\ g.node = s[o].node
          /\ g.active = s[o].active /\ g.made = s[o].made \o s[n].active /\ g.i = s[o].i
          /\ g.j = s[o].j /\ g.depth = s[o].depth
      BY <2>1, <2>3 DEF FrameType
    <2>7. u \in Seq(FrameType) /\ Len(u) = n /\ u[o] = g /\ \A k \in 1..n : k # o => u[k] = s[k]
      BY <1>7, <1>11, <2>2, <2>3, <2>5
    <2>8. Len(t) = n - 1 /\ \A k \in 1..n - 1 : t[k] = u[k]
      <3>1. u \in Seq(FrameType) /\ Len(u) > 1
        BY <1>11, <1>14, <2>7
      <3>2. Len(Front(u)) = Len(u) - 1 /\ \A k \in 1..Len(u) - 1 : Front(u)[k] = u[k]
        BY ONLY <3>1, PopFields
      <3> QED  BY <2>4, <2>7, <3>2
    <2>9. Len(t) = n - 1 /\ t[o] = g /\ \A k \in 1..n - 1 : k # o => t[k] = s[k]
      <3>1. \A k \in 1..n - 1 : k \in 1..n
        BY <1>11
      <3> QED  BY <2>3, <2>7, <2>8, <3>1
    <2>10. GoodStack(t)
      BY <1>5 DEF IInv
    <2>13. PICK E : Going(f, t, tr, E)
      <3>1. LeafReturn(f, s, tr, C, n, o, g, t)
        BY <1>6, <1>7, <1>8, <1>10, <1>11, <2>5, <2>6, <2>9, <2>10 DEF LeafReturn
      <3> QED  BY ONLY <3>1, LeafReturns
    <2>12. UNCHANGED <<status, output>> /\ flow.readable /\ \E X : Going(flow, stack', ran, X)
      BY <1>2, <1>4, <1>5, <1>8, <1>16, <2>13 DEF Onward
    <2> QED  BY <1>1, <2>12, Keeps
  <1> QED  BY <1>9, <1>15, <1>16 DEF Leaf

\* A command that begins is the next one, whether or not it fails.
LEMMA CommandMeaning == ASSUME IInv, IInv', Promised, Command PROVE Promised'
  <1>1. Working /\ Depth > 0 /\ Top.phase = "command" /\ Worker
    BY DEF Command
  <1>2. PICK f : f = flow
    OBVIOUS
  <1>3. PICK s : s = stack
    OBVIOUS
  <1>4. PICK tr : tr = ran
    OBVIOUS
  <1>5. PICK t : t = stack'
    OBVIOUS
  <1>6. PICK C : Going(f, s, tr, C)
    BY <1>1, <1>2, <1>3, <1>4, Calls
  <1>7. PICK n : n = Len(s)
    OBVIOUS
  <1>8. /\ Top = s[n] /\ Depth = n /\ f.readable /\ s[n].phase = "command"
        /\ f \in Flows
    BY <1>1, <1>2, <1>3, <1>7, Calls
  <1>9. PICK x : x = Made(s[n])
    OBVIOUS
  <1>10. ran' = Append(tr, x) /\ flow' = f
    BY <1>1, <1>2, <1>4, <1>8, <1>9 DEF Command, Made, Worker
  <1>11. /\ s[n].node \in f.failing => ~Meaning(f).ok
         /\ Extends(Meaning(f), Append(tr, x))
    BY ONLY <1>6, <1>7, <1>8, <1>9, CommandBreaks
  <1>12. PICK y : y = Append(tr, x)
    OBVIOUS
  <1>13. ran' = y /\ flow' = f /\ Extends(Meaning(f), y)
    BY <1>10, <1>11, <1>12
  <1>14. CASE Top.node \in flow.failing /\ Fail("error")
    <2>1. status' = "error" /\ ~Meaning(f).ok
      BY <1>2, <1>8, <1>11, <1>14 DEF Fail
    <2> QED  BY <1>13, <2>1 DEF Promised
  <1>15. CASE Top.node \notin flow.failing /\ Onward([stack EXCEPT ![Depth].phase = "ran"])
    <2>1. t = [s EXCEPT ![n] = [s[n] EXCEPT !.phase = "ran"]]
      BY <1>3, <1>5, <1>7, <1>8, <1>15 DEF Onward, Top, Depth
    <2>2. GoodStack(t) /\ s[n].node \notin f.failing
      BY <1>2, <1>5, <1>8, <1>15 DEF IInv
    <2>3. PICK E : Going(f, t, Append(tr, x), E)
      BY ONLY <1>6, <1>7, <1>8, <1>9, <2>1, <2>2, CommandGoesOn
    <2>4. Going(f, t, y, E)
      BY <1>12, <2>3
    <2>5. t # <<>>
      BY <2>4 DEF Going
    <2>6. status' = "none" /\ stack' = t
      BY <1>1, <1>5, <1>15 DEF Onward, Working
    <2> QED  BY <1>8, <1>13, <2>4, <2>5, <2>6 DEF Promised
  <1> QED  BY <1>14, <1>15 DEF Command

\* The application and the callback leave the run alone.
LEMMA OtherMeaning ==
    ASSUME Promised, Run \/ Stop \/ Close \/ Closed \/ Tell \/ End \/ UNCHANGED vars
    PROVE  Promised'
  <1>1. UNCHANGED <<flow, stack, status, output, ran>>
    BY DEF Run, Stop, Close, Closed, Tell, End, vars, workVars, Worker
  <1>2. PICK f : f = flow
    OBVIOUS
  <1>3. PICK s : s = stack
    OBVIOUS
  <1>4. PICK tr : tr = ran
    OBVIOUS
  <1> QED  BY <1>1, <1>2, <1>3, <1>4 DEF Promised

LEMMA NextPromised == IInv /\ IInv' /\ Promised /\ [Next]_vars => Promised'
  <1> SUFFICES ASSUME IInv, IInv', Promised, [Next]_vars PROVE Promised'
    OBVIOUS
  <1>1. CASE Run \/ Stop \/ Close \/ Closed \/ Tell \/ End \/ UNCHANGED vars
    BY <1>1, OtherMeaning
  <1>2. CASE Load
    BY <1>2, LoadMeaning
  <1>3. CASE Entry
    BY <1>3, EntryMeaning
  <1>4. CASE Leave
    BY <1>4, LeaveMeaning
  <1>5. CASE Enter
    BY <1>5, EnterMeaning
  <1>6. CASE Import
    BY <1>6, ImportMeaning
  <1>7. CASE Exec
    BY <1>7, ExecMeaning
  <1>8. CASE Template
    BY <1>8, TemplateMeaning
  <1>9. CASE Command
    BY <1>9, CommandMeaning
  <1>10. CASE Ran
    BY <1>10, RanMeaning
  <1>11. CASE Link
    BY <1>11, LinkMeaning
  <1>12. CASE Leaf
    BY <1>12, LeafMeaning
  <1> QED
    BY <1>1, <1>2, <1>3, <1>4, <1>5, <1>6, <1>7, <1>8, <1>9, <1>10, <1>11, <1>12 DEF Next, Step

\* Wherever a run is, what its calls have made and what is left of them come to what
\* the document means: kc_flow_run_node and kc_flow_run_child, with their frames,
\* branch arrays and early returns, compute the depth-first reading of the flow.
THEOREM KeepsPromise == Spec => []Promised
  <1>1. Init => Promised
    BY InitPromised
  <1>2. IInv /\ IInv' /\ Promised /\ [Next]_vars => Promised'
    BY NextPromised
  <1> QED  BY <1>1, <1>2, Inductive, PTL DEF Spec

\* What the handler is told.
LEMMA TrueToTheFlow ==
    ASSUME IInv, Promised PROVE TerminalIsTrue
  <1>1. told \in {<<>>, <<[status |-> status, output |-> output]>>}
        /\ (app = "closed" => thread = "over" /\ told # <<>>)
        /\ (told # <<>> => status \in {"ok", "error", "stopped"})
    BY DEF IInv, OneCallback, TypeOK
  <1>2. CASE told = <<>>
    BY <1>1, <1>2 DEF TerminalIsTrue
  <1>3. CASE told # <<>>
    <2>1. Len(told) = 1 /\ told[1].status = status /\ told[1].output = output
      BY <1>1, <1>3
    <2>2. /\ status = "ok" => Meaning(flow).ok /\ output = Meaning(flow).outs
          /\ status = "error" => ~Meaning(flow).ok /\ output = <<>>
          /\ status = "stopped" => stop /\ output = <<>>
      BY DEF Promised, IInv, OneCallback
    <2>3. \A k \in 1..1 : k = 1
      OBVIOUS
    <2>4. told[1].status \in {"ok", "error", "stopped"}
      BY <1>1, <1>3, <2>1
    <2>5. PICK r : r = told[1]
      OBVIOUS
    <2>6. PICK x : x = r.status
      OBVIOUS
    <2>7. /\ x = "ok" => Meaning(flow).ok /\ r.output = Meaning(flow).outs
          /\ x = "error" => ~Meaning(flow).ok /\ r.output = <<>>
          /\ x = "stopped" => stop /\ r.output = <<>>
          /\ x \in {"ok", "error", "stopped"}
      BY <2>1, <2>2, <2>4, <2>5, <2>6
    <2>8. (CASE x = "ok"      -> Meaning(flow).ok /\ r.output = Meaning(flow).outs
            [] x = "error"   -> ~Meaning(flow).ok /\ r.output = <<>>
            [] x = "stopped" -> stop /\ r.output = <<>>)
      BY ONLY <2>7
    <2>9. TerminalIsTrue
      <3>1. \A k \in 1..Len(told) :
              (CASE told[k].status = "ok" ->
                      Meaning(flow).ok /\ told[k].output = Meaning(flow).outs
                 [] told[k].status = "error" -> ~Meaning(flow).ok /\ told[k].output = <<>>
                 [] told[k].status = "stopped" -> stop /\ told[k].output = <<>>)
        <4>1. TAKE k \in 1..Len(told)
        <4>2. told[k] = r /\ told[k].status = x
          BY <2>1, <2>3, <2>5, <2>6
        <4> QED  BY ONLY <2>8, <4>2
      <3>2. Len(told) <= 1 /\ (app = "closed" => Len(told) = 1 /\ thread = "over")
        BY <1>1, <2>1
      <3> QED  BY ONLY <3>1, <3>2 DEF TerminalIsTrue
    <2> QED  BY <2>9
  <1> QED  BY <1>2, <1>3

\* The handler of kc_flow_run is called once, before the close returns, and told the
\* truth: a result is the whole output of the flow in the order of the document, an
\* error is one of the flow, and only a run that was asked to stop is stopped.
THEOREM TerminalTellsTruth == Spec => []TerminalIsTrue
  <1>1. IInv /\ Promised => TerminalIsTrue
    BY TrueToTheFlow
  <1> QED  BY <1>1, Inductive, KeepsPromise, PTL

\* What a sequence begins with.
LEMMA InOrder ==
    ASSUME NEW a \in Seq(Branch), NEW u \in Seq(Branch)
    PROVE  IsPrefix(a, a \o u)
  <1>1. PICK b : b = a \o u
    OBVIOUS
  <1>2. /\ b \in Seq(Branch) /\ Len(b) = Len(a) + Len(u) /\ Len(a) \in Nat /\ Len(u) \in Nat
        /\ \A k \in 1..Len(a) : b[k] = a[k]
    BY <1>1
  <1>3. Len(a) <= Len(b)
    BY <1>2
  <1>4. SubSeq(b, 1, Len(a)) = a
    BY <1>2, <1>3
  <1> QED  BY <1>1, <1>2, <1>3, <1>4 DEF IsPrefix

\* The commands kc_flow_run_command has begun are the first ones of the depth-first
\* reading, each for the branch it has there: none is run twice, left out or run early.
THEOREM CommandsFollow == Spec => []CommandsInOrder
  <1>1. IInv /\ Promised => CommandsInOrder
    <2> SUFFICES ASSUME IInv, Promised PROVE CommandsInOrder
      OBVIOUS
    <2>1. PICK u \in Seq(Branch) : Meaning(flow).trace = ran \o u
      BY DEF Promised, Extends
    <2>2. ran \in Seq(Branch)
      BY DEF IInv, TypeOK
    <2>3. IsPrefix(ran, ran \o u)
      BY <2>2, InOrder
    <2> QED  BY <2>1, <2>3 DEF CommandsInOrder
  <1> QED  BY <1>1, Inductive, KeepsPromise, PTL

=============================================================================
