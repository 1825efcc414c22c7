------------------------------- MODULE MCKcp -------------------------------
(* Instances of Kcp for TLC. *)
EXTENDS KcpWidth, TLC

CONSTANTS a, b

MCEnds == {a, b}

\* Three or six messages one way.
ThreeOneWay == (a :> 3) @@ (b :> 0)
SixOneWay   == (a :> 6) @@ (b :> 0)

\* Two messages over every kind of network, or enough segments to use every
\* number that is kept, all messages of two, over one that loses nothing.
ShortOrLong ==
    msgs[a] > 2 => losses = 0 /\ Len(stream[a]) = 2 * msgs[a]

=============================================================================
