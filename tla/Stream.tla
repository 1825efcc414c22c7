------------------------------- MODULE Stream -------------------------------
(***************************************************************************)
(* What librstrm promises to the application at each end: the parts that   *)
(* the peer's kc_rstrm_send took, in order and without a gap, then at most *)
(* one eof, which comes after everything the peer has sent before its      *)
(* shutdown; an error is the last callback; and silence once the stream is *)
(* closed.                                                                 *)
(***************************************************************************)
EXTENDS Integers, Sequences, FiniteSets

CONSTANTS Ends, Sizes

VARIABLES
    taken,   \* parts kc_rstrm_send has taken at each end
    shut,    \* ends that have shut down
    quiet,   \* ends at which no callback may follow
    told     \* callbacks made at each end

streamVars == <<taken, shut, quiet, told>>

Far(e) == CHOOSE p \in Ends : p # e

Told(e, kind) == {i \in 1..Len(told[e]) : told[e][i].kind = kind}

\* Parts given to the receive callback of e.
Given(e) == Cardinality(Told(e, "data"))

StreamInit ==
    /\ taken = [e \in Ends |-> 0]
    /\ shut  = {} /\ quiet = {}
    /\ told  = [e \in Ends |-> <<>>]

Take(e, k) ==
    /\ e \notin shut
    /\ taken' = [taken EXCEPT ![e] = @ + k]
    /\ UNCHANGED <<shut, quiet, told>>

Shut(e) ==
    /\ shut' = shut \cup {e}
    /\ UNCHANGED <<taken, quiet, told>>

Hush(e) ==
    /\ quiet' = quiet \cup {e}
    /\ UNCHANGED <<taken, shut, told>>

\* One callback at an end that is neither closed nor broken.
Tell(e, kind, part) ==
    /\ e \notin quiet /\ Told(e, "error") = {}
    /\ told' = [told EXCEPT ![e] = Append(@, [kind |-> kind, part |-> part])]
    /\ UNCHANGED <<taken, shut, quiet>>

TellData(e) ==
    /\ Told(e, "eof") = {} /\ Given(e) < taken[Far(e)]
    /\ Tell(e, "data", Given(e) + 1)

TellEof(e) ==
    /\ Told(e, "eof") = {} /\ Far(e) \in shut /\ Given(e) = taken[Far(e)]
    /\ Tell(e, "eof", 0)

StreamNext ==
    \E e \in Ends :
        \/ \E k \in Sizes : Take(e, k)
        \/ Shut(e) \/ Hush(e)
        \/ TellData(e) \/ TellEof(e) \/ Tell(e, "drain", 0) \/ Tell(e, "error", 0)

StreamSpec == StreamInit /\ [][StreamNext]_streamVars

=============================================================================
