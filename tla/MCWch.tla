-------------------------------- MODULE MCWch --------------------------------
(* Loads of the watcher for TLC. *)
EXTENDS Wch

CONSTANTS m1, m2

MCManagers == {m1, m2}

None == [managers |-> {m1}, updates |-> 0, deletes |-> 0, events |-> 0, short |-> 0,
         fail |-> 0, crash |-> 0]

\* Three events, with a write that is short and one that fails.
Events == [None EXCEPT !.updates = 1, !.events = 3, !.short = 1, !.fail = 1]

\* Events before and after the watcher is replaced.
Replaced == [None EXCEPT !.updates = 2, !.events = 2, !.short = 1]

\* Events of a watcher that is deleted and created again, and of one that a
\* manager deletes while another replaces it.
Recreated == [None EXCEPT !.updates = 2, !.deletes = 1, !.events = 2]
Raced     == [None EXCEPT !.managers = MCManagers, !.updates = 1, !.deletes = 1,
                          !.events = 2]

\* Calls of which a step fails, or whose process dies.
Lifecycle == [None EXCEPT !.updates = 3, !.deletes = 1, !.fail = 1, !.crash = 1]

MCLoads == {Events, Replaced, Recreated, Raced, Lifecycle}

\* Every event of a behaviour that is appended while a handler is subscribed
\* reaches it (kc_wch_subscription_worker).
MaxEvents == 3
EventsReach == \A r \in 1..MaxEvents : EventReaches(r)

=============================================================================
