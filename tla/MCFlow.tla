------------------------------- MODULE MCFlow -------------------------------
(* Flows for TLC. *)
EXTENDS Flow, TLC

MCNodes == {"a", "b", "c", "x"}

\* A flow with some links, commands and one import.
FlowOf(entries, links, execs, child) ==
    [entries |-> entries, readable |-> TRUE, failing |-> {}, execs |-> execs,
     links |-> [n \in MCNodes |-> IF n \in DOMAIN links THEN links[n] ELSE <<>>],
     child |-> [n \in MCNodes |-> IF n \in DOMAIN child THEN child[n] ELSE <<>>]]

NoImport == "a" :> <<>>

\* The import gives two branches, each runs a command and goes two ways.
Wide == FlowOf(<<"a">>, "a" :> <<"b", "c">>, {"a", "b", "x"}, "a" :> <<"x", "c">>)

\* Two entries that meet.
Join == FlowOf(<<"a", "b">>, ("a" :> <<"c">>) @@ ("b" :> <<"c">>), {"a", "c"}, NoImport)

\* A computed link that leads back, and a flow that imports itself.
Loop   == FlowOf(<<"a">>, "a" :> <<"a">>, {"a"}, NoImport)
Inward == FlowOf(<<"b", "a">>, NoImport, {"b"}, "a" :> <<"b", "a">>)

\* A computed link to no node; a command that fails on the way.
Astray == FlowOf(<<"a">>, "a" :> <<"b", "nowhere">>, {"b"}, NoImport)
Faulty == [Wide EXCEPT !.failing = {"b"}]

\* More branches than there is room for; nothing to read.
Crowd  == FlowOf(<<"a", "a">>, "a" :> <<"b", "c", "b">>, {}, NoImport)
Absent == [Wide EXCEPT !.readable = FALSE]

\* Every flow of two nodes, with at most two links each, where one may import
\* the other, once or twice, and where the second may fail.
Ways == UNION {[1..k -> {"a", "b", "nowhere"}] : k \in 0..2}
Small ==
    {[FlowOf(<<"a">>, ("a" :> la) @@ ("b" :> lb), execs, "a" :> child)
        EXCEPT !.failing = failing] :
        la \in Ways, lb \in Ways, child \in {<<>>, <<"b">>, <<"b", "b">>},
        execs \in SUBSET {"a", "b"}, failing \in {{}, {"b"}}}

MCFlows == {f \in Small : f.failing \subseteq f.execs} \cup {Wide, Join, Loop, Inward, Astray, Faulty, Crowd, Absent}

=============================================================================
