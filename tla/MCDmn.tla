-------------------------------- MODULE MCDmn --------------------------------
(* Loads of the daemon for TLC. *)
EXTENDS Dmn

CONSTANTS c1, c2, c3, m1, m2

MCClients  == {c1, c2, c3}
MCManagers == {m1, m2}

None == [creates |-> 0, deletes |-> 0, clients |-> {}, vanish |-> 0, backend |-> 0,
         manager |-> 0, config |-> 0]

\* Three clients at a daemon that stays, one of which may die, or two and a
\* backend that fails.
Exchanges == [None EXCEPT !.creates = 1, !.clients = {c1, c2, c3}, !.vanish = 1]
Broken    == [None EXCEPT !.creates = 1, !.clients = {c1, c2}, !.vanish = 1,
                          !.backend = 1]

\* Calls of two managers, one of which may die, or a step of which may fail
\* before another create or a delete.
Lifecycle == [None EXCEPT !.creates = 2, !.deletes = 1, !.manager = 1]
Undone    == [None EXCEPT !.creates = 2, !.manager = 1, !.config = 1]
Deleted   == [None EXCEPT !.creates = 1, !.deletes = 1, !.manager = 1, !.config = 1]

\* A client that may die while its daemon is replaced, and two while it is
\* deleted.
Replaced == [None EXCEPT !.creates = 2, !.clients = {c1}, !.vanish = 1]
Gone     == [None EXCEPT !.creates = 1, !.deletes = 1, !.clients = {c1, c2}]

MCLoads == {Exchanges, Broken, Lifecycle, Undone, Deleted, Replaced, Gone}

=============================================================================
