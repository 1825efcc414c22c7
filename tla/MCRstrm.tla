------------------------------ MODULE MCRstrm ------------------------------
(* Instances of Rstrm for TLC. *)
EXTENDS Rstrm, TLC

CONSTANTS a, b

MCEnds == {a, b}

\* What end a sends; who shuts down and who closes; what fails.
Case(sends, parts, shutters, closers, faults) ==
    [send |-> (a :> sends) @@ (b :> 0), parts |-> parts,
     shutters |-> shutters, closers |-> closers,
     bad |-> faults.bad, refused |-> faults.rest, nomem |-> faults.rest,
     foreign |-> FALSE]

NoFaults == [bad |-> 0, rest |-> 0]
Foreign  == [bad |-> 1, rest |-> 0]
Faults   == [bad |-> 1, rest |-> 1]

\* Two sends and both ends shutting down; one send, one end shutting down, the
\* other closing, and everything failing once.
SafetyLoads == {Case(2, {1, 2}, {a, b}, {}, NoFaults),
                Case(1, {1}, {a}, {b}, Faults)}

\* Two sends and a shutdown; a send, a foreign datagram and a close.
LivenessLoads == {Case(2, {1}, {a}, {}, NoFaults),
                  Case(1, {1}, {}, {b}, Foreign)}

=============================================================================
