# A verification project for kclib

kclib is a collection of thirty independent C libraries under `proj/lib*.c`
(catalogued in `doc/catalog.md`). They do not call one another: an application
composes them through callbacks, typically `netl` or `stun` under `rstrm` under
`tls` under `http`. Each library therefore is a system of its own, and this
project takes them one at a time, beginning with those whose correctness
depends on orders of events that tests do not produce.

What is there: the ARQ protocol under `librstrm` (**Kcp**, refined to the
abstract **Pipe**), the byte stream of `librstrm` itself (**Rstrm**, refined to
the abstract **Stream**), the trust stores of `libpact` (**Pact**), the TCP
interface of `libnetl` (**Netl**), a run of `libflow` (**Flow**), the daemon of
`libdmn` (**Dmn**) and the watcher of `libwch` (**Wch**); with machine-checked
proofs for all seven. All paths below are relative to the
repository, `KCP` abbreviates `proj/librstrm.c/lib/kcp/ikcp.c`.

## 1. Inventory

### Network and protocols

| Component | State | Operations | Hard behaviours | What makes it correct |
| :--- | :--- | :--- | :--- | :--- |
| **kcp** (`KCP`, driven by librstrm) | send queue and buffer, receive buffer and queue, `snd_una`, `snd_nxt`, `rcv_nxt`, windows, ack list, probe flags | `ikcp_send`, `ikcp_input`, `ikcp_update`/`ikcp_flush`, `ikcp_recv`, `ikcp_waitsnd` | datagrams lost, duplicated, reordered, late; windows that are stale; zero-window probes | in-order exactly-once delivery; nothing forgotten before it is received; bounded memory; progress |
| **librstrm** | send queue, input queue, flags (`local_shutdown`, `local_fin_sent`, `local_fin_acked`, `remote_eof`, `full_latched`, `failed`, `error_delivered`, `closing`, `self_release`), a worker thread, a mutex | open, send, input, shutdown, shutdown_complete, close; callbacks receive, eof, drain, error, transport | API calls and callbacks against the worker; close from a callback; failure in the middle of a batch of events; backpressure | order of callbacks; eof after all data; one release; silence after close; drain and shutdown complete |
| **libnetl** | an interface with a listening and an outgoing socket, one worker per socket, peers with send queues, a poll batch of pointers to peers | open, send, close, peer_send, peer_close; the worker's accept, receive, flush, finish | two workers and the application on one interface; close from a callback while a poll batch is processed; a peer stored after its worker runs; a worker that joins itself | no callback after close or after disconnect; no peer used after it is freed; a closed peer's queue goes out first; joins terminate; every socket released once |
| **libstun** | a transaction (id, attempts, deadline), the last mapping | client, client_receive, send, poll, read, refresh, keepalive; server, server_receive | a late answer to an old transaction; refresh during retransmission | an answer is only taken for the transaction it belongs to; bounded attempts |
| **libtls** | an mbedtls session (external), pending ciphertext and plaintext, event queue, close flags | send, receive, close, handshake pump | ciphertext of concurrent calls is dispatched after the unlock; close_notify against pending data | records leave in the order they were produced; one close_notify, nothing after it |
| **libhttp** | a parser (start line, headers, body or chunks) and builders | parser_open, write, close; request, response | input split at any byte; pipelined messages | the result does not depend on how the input is split |

### Cryptography and trust

| Component | State | Operations | Hard behaviours | What makes it correct |
| :--- | :--- | :--- | :--- | :--- |
| **libpact** | two stores of record files (pending, peer, local), no locks | invite, join, confirm, revoke, seal, unseal, size | processes interleave between file operations and die between them; removals fail half way | one-use invitations; a confirmed relationship works both ways; an invitation is not stranded; revoke is final |
| **libpow** | none between calls; a challenge has a lifetime | challenge, solve, verify | expiry at the boundary | a solution is accepted exactly while the challenge lives |

### System and processes

| Component | State | Operations | Hard behaviours | What makes it correct |
| :--- | :--- | :--- | :--- | :--- |
| **libdmn** | a resident server with a backend; its socket, pid file, backend's pid file and configuration | open, create, set_cmd, set_eot, delete, send_data, send_signal, list, close; the serve loop and its bridge | a client that vanishes leaves its answer in the backend's pipe; a pid file that cannot be written; a backend that has just ended is taken for alive; a death between fork and pid file; two managers at once | an answer goes to who asked, whole or not at all; the files name what runs; a delete stops it |
| **libinit** | the platform's service registrations | create, get, list, delete | external commands | out of reach: the behaviour is the service manager's |
| **libwch** | an append-only event file, a resident watcher with registration and pid file, subscribers with an offset | create, set_path, set_cmd, set_recursive, delete, on, list, open, close; the resident's append, the subscriber's poll | short and failing writes; the file is emptied or removed while a resident appends and a subscriber reads | a subscriber sees whole records, in order, none left out; one resident |
| **libmmap** | one file and one mapping | open, get, set, save, del, close | a crash within a save that truncates in place | either the old value or the new one |
| **libflow** | a flow file; a run with its branches, a stop flag, a worker thread | open, set, unset, run, run_stop, run_close, close; the worker's recursion over nodes, imports, commands and links | stop against the last step, close against a run that ends; links and imports that lead back to themselves; too many branches | one callback that tells the truth; commands in the order of the document; few after a stop; the recursion ends |

### Search and text, parsing and transformation

| Component | State | Operations | Hard behaviours | What makes it correct |
| :--- | :--- | :--- | :--- | :--- |
| **libhnsw** | vectors and a layered graph under a read-write lock | add, build, search | search against build | every vector reachable; the neighbour lists bounded |
| **libbm25** | postings, vocabulary | add, build, search, export, import, save, load | save and load | what is loaded is what was saved |
| **libleven**, **libngram** | none | distance, traverse | limits, empty input | equal to the definition |
| **libregex** | a compiled program | open, match, search | empty matches, captures | equal to the definition on bounded patterns |
| **liblng**, **libtpm** | built-in or given profiles | detect, score | none | a score |
| **libemb** | a model of ggml (vendored) | embed | none of its own | external |
| **libmdp**, **libtpl**, **libmin**, **libb64** | none between calls | parse, render, minify, encode | nesting limits | text to text |

### User interface and reference

**libwvw**, **libmenu**, **libtray** and **libppn** drive the platform's toolkit
(windows, launchers, status icon, notifications): their behaviour is the
platform's, and they stay out. **libdemo** is the blueprint for new libraries.

`PROJECT.json` lists all of them with their status, and under `hazards` what is
hard to test at the line where it bites.

## 2. The modules

| Module | Models | Lines |
| :--- | :--- | :--- |
| `Kcp` | the ARQ at both ends, and the datagram network between them | `KCP` |
| `KcpWidth` | how `Kcp`'s numbers are kept in 32 bits and compared | `KCP:136` |
| `Pipe` | what the ARQ promises: two FIFOs and a count of unacknowledged segments | abstract |
| `Rstrm` | two byte streams over that promise, with their workers and callbacks | `proj/librstrm.c/src/librstrm.c` |
| `Stream` | what the callbacks of a byte stream promise to the application | abstract |
| `Pact` | one invitation in the two trust stores, processes and crashes | `proj/libpact.c/src/libpact.c` |
| `Netl` | one TCP interface: its two sockets, their workers and peers, the calls of the application | `proj/libnetl.c/src/libnetl.c` |
| `Flow` | one run of a flow: the worker and the application's stop and close | `proj/libflow.c/src/libflow.c` |
| `Dmn` | one named daemon: its managers, servers, backends and clients | `proj/libdmn.c/src/libdmn.c` |
| `Wch` | one named watcher: its managers, residents, event file and a subscriber | `proj/libwch.c/src/libwch.c` |
| `KcpProofs` | theorems about `Kcp`: types, in-order delivery, nothing forgotten, and that it implements `Pipe` | |
| `KcpBounds` | theorems about `Kcp`: the windows bound memory, nothing stalls, 32 bits suffice | |
| `RstrmProofs` | theorems about `Rstrm`: types, one release, that it implements `Stream`, a complete shutdown is true, no false protocol error | |
| `PactProofs`, `NetlProofs`, `FlowProofs` | theorems about `Pact`, `Netl` and `Flow` | |
| `DmnProofs`, `WchProofs` | theorems about `Dmn` and `Wch` | |
| `MCKcp`, `MCRstrm`, `MCPact`, `MCNetl`, `MCFlow`, `MCDmn`, `MCWch` | finite instances for TLC | |

`Stream` stands on `Pipe` by way of `Rstrm`: `Kcp` implements `Pipe`, and what
`Rstrm` assumes of the ARQ below it is that pipe. The other modules stand alone,
as their libraries do.

### Kcp

An action is one call of the ikcp API at one end; the two ends interleave.

| Action | Code |
| :--- | :--- |
| `Send(e, n)` | `ikcp_send` of a message of `n` fragments; refused when it could not sit whole in a receive queue (`Fits`) |
| `Flush(e, cw, resend, ask)` | `ikcp_update` with `ikcp_flush`: the acks, the probes, what the window lets out of `snd_queue`, the repeats |
| `Input(m)` inside `Arrive`, `ArriveTwice` | `ikcp_input` with one segment: `rmt_wnd`, `ikcp_parse_una`, `ikcp_shrink_buf`, then per command `ikcp_parse_ack`, `ikcp_parse_data`, the window probe |
| `Recv(e)` | `ikcp_recv`: the first complete message, then the move from `rcv_buf`, then the announcement of a re-opened window |
| `Lose(m)` and the choice of `m` | the network (external): loss, duplication, reordering, delay |

`stream` and `delivered` are histories: what the caller handed over and what it
was given back. The lists of the code are functions from numbers to segments,
where the list order is the order of the numbers.

What is abstracted: time (which of the old segments a flush repeats is any
subset, which covers the timer and the fast retransmit; the window-probe timer
is any moment at which the announced window is zero); the congestion window
(any value up to the send window); a datagram carries one segment (`ikcp_flush`
packs several, which the network then delivers at once - an interleaving that
the model has too); the segment sizes.

### Pipe

`Accept`, `Transfer`, `Read`: messages are accepted whole, an end holds more and
more of its peer's segments and forgets its own only when the peer holds them,
and the reader is given whole messages in order. `Kcp!ImplementsPipe`
instantiates it with `held <- what rcv_nxt and rcv_buf say was received` and
`unacked <- snd_buf and what has no number yet`.

### Rstrm

The stream does not look into the ARQ, so `Rstrm` uses its promise: `wire` is
what was handed to `ikcp_send`, `out` how much of it has left, `acked` how much
is acknowledged, `read` how much the peer has read, and these only grow, each
at most up to the one before it.

An action is one region between a lock and the unlock that follows, or one
callback. The worker goes through `pc`:

| `pc` | In `rstrm_worker` | Actions |
| :--- | :--- | :--- |
| `loop` | top of the loop, lock held for the pass | `Exit`, `ReportError`, `RefuseInput`, `Feed`, `FeedNoMem` |
| `collect` | `rstrm_collect_receive_locked`, still locked (no API call may enter) | `Collect`, `CollectUnexpected`, `CollectNoMem`, `Unlock` |
| `emit` | `rstrm_dispatch_emits`, unlocked | `Emit`, `EmitRefused` |
| `check`, `call`, `in` | `rstrm_dispatch_events`: the check under the lock, the callback about to be made, the callback running | `Check`, `Call` |
| `done` | the thread has ended | |

The API (`Send`, `Shutdown`, `Input`, `CloseOutside` with `CloseJoined`,
`CloseInside`) runs from any thread whenever the mutex is free; `CloseInside`
runs in a callback, where `kc_rstrm_close` sees that it is on the worker.

### Stream

What `librstrm.h` promises: `TellData` gives the parts of the peer's sends in
order and without a gap, `TellEof` comes once and after all of them, an error is
the last callback, and an end that is `quiet` hears no more. `Rstrm!Stream`
instantiates it with `taken <- accepted`, `shut <- shutdown`, `told <- got`, and
as quiet the ends whose close has returned or was made in a callback.

### Pact

The state is the six record files (`file[store][kind]`, a kind being `pending`,
`peer` or `local`), each absent, torn (truncated or half-written: every reader
refuses it) or whole with a key; and for each process the call it is in and the
next file operation of that call. Every file operation is an action of its own,
since there is no lock: `Open` (truncates), `Write`, `WriteFails`, `Commit`
(the unlink of the pending record on which `kc_pact_confirm` succeeds), `Undo`
(the clean-up of a failed call, one file at a time), `DropLocal`, `DropPeer`,
`Look` and `DropPending` (`kc_pact_revoke`). `Crash` ends a call anywhere and
leaves the files as they are. The cryptography is a key: a join draws one, its
confirmation carries it, and two peer records match when they hold the same.

All files are named by a random UID of the invitation, so invitations share
no file, and one of them is the general case.

### Netl

A peer is a pair of its socket and a number. `peer[p]` follows the life of the
structure (`none`, `open`, `closed` when it is out of the list, `freed`), so
that every use of a freed pointer would show. An action is a region under the
socket's mutex, a system call, or one end of a callback.

| Action | Code |
| :--- | :--- |
| `ShouldStop`, `Reap` | the head of `kc_netl_worker_run`, `kc_netl_close_requested_peers` |
| `Build`, `Poll`, `PollFails` | the poll set with the events asked for (`Asked`), the poll and what it reports (`Ready`); the batch is the set of pointers that the worker keeps |
| `Accept`, `AcceptFails` | `kc_netl_accept_peer` and what follows a failure |
| `Receive`, `Flush`, `FlushFails` with `FinishFailed`, `HangUp` | one peer of the batch: one event of it is served, input first |
| `Finish`, `Notify`, `Return` | `kc_netl_peer_finish`: out of the list under the lock, the interface's own disconnect handler and the callback, the release |
| `Fail` | `kc_netl_fail`, after which the worker ends |
| `Ends` | the end of the thread, which releases a socket that its own worker has closed |
| `PeerSend`, `PeerClose` | `kc_netl_peer_send`, `kc_netl_peer_close`, from any thread |
| `SendCall`, `Look`, `StopOutgoing`, `JoinOutgoing`, `Connect`, `Store`, `Use`, `UseQueue` | `kc_netl_send`, which replaces a lost connection; it reads `interface->peer` twice, without a lock |
| `CloseCall`, `StopOutgoing`, `JoinOutgoing`, `StopListening`, `JoinListening`, `Free` | `kc_netl_close`, from the application's thread or from a callback |

The remote ends (`Remote`) send, stop sending, or break the connection. The two
branches of the worker (all peers of a listening socket, the one peer of an
outgoing one) are one set of actions: they differ in what is polled and in
where the worker ends. Assumed of the application: it makes one call of
`kc_netl_send` or `kc_netl_close` at a time, uses a peer only until its
disconnect callback, and uses nothing once it closes (`Known`).

### Flow

The recursion of `kc_flow_run_node` and `kc_flow_run_child` is a stack of frames,
and an action is the stretch of `kc_flow_run_worker` from one look at
`stop_requested` to the next, which are the only places where another thread's
`kc_flow_run_stop` can be seen.

| Action | Code |
| :--- | :--- |
| `Run`, `Stop`, `Close`, `Closed` | `kc_flow_run`, `kc_flow_run_stop`, `kc_flow_run_close` before and after its join |
| `Load` | `kc_flow_load` when the worker starts |
| `Entry`, `Leave` | the loop over the entries of the flow (`kc_flow_run_loaded`) or of a child flow (`kc_flow_run_child`) |
| `Enter`, `Import` | `kc_flow_run_node`: its stop and depth checks, the child flow for each branch |
| `Exec`, `Template`, `Command`, `Ran` | the command of a node for each branch, around `kc_flow_run_command` |
| `Link`, `Leaf` | the links of a node for each branch, or its output (`kc_flow_branches_copy`) |
| `Tell`, `End` | the callback and the end of the thread |

A branch, in the code the bytes that travel, is here the sequence of the commands
they went through, so that the order and the place of every command can be told
apart. `Meaning` is the reading of a flow without a worker, a stack or a stop,
against which outputs and commands are compared: what a node means at a depth
(`NodeMeaning`, a recursive function) is what its import means two deeper, then its
command for each branch, then its links one deeper, put together by `AndThen`,
which stops at the first failure.

### Dmn

Files name servers and backends by a number; an action is one system call of one
process, or the stretch between two that others can see.

| Actions | Code |
| :--- | :--- |
| `Begin`, `Kill`, `Unlink`, `KillBackend`, `ForgetBackend`, `Forget`, `Fork`, `Ready`, `Register`, `Configure`, `Unconfigure` | `kc_dmn_run_update` with `kc_dmn_update_posix` (create, set_cmd, set_eot) and `kc_dmn_run_delete`, the undo of a create that fails included |
| `Clear`, `Bind`, `Start`, `Note`, `Accept` | the server: `kc_dmn_bind_listen`, `kc_dmn_backend_start`, the loop of `kc_dmn_serve_loop` |
| `ReadRequest`, `ReadEnd`, `Relay`, `RelayEnd`, `CloseClient`, `StopBackend` | `kc_dmn_bridge_client`, and the replacement of a backend |
| `Connect`, `Ask`, `Finish` | `kc_dmn_send_data` |
| `ServerDies`, `ManagerDies`, `Vanish`, `BackendFails` | a kill that takes effect; a process that dies |
| `Answer`, `EndOfInput`, `Reset` | the backend command and the sockets of the system (external) |

A request is asked for as a whole once its marker is written; an answer is two
pieces, the second with the marker, and a read takes one or both, also pieces of
two answers at once. SIGTERM is a flag (`doomed`) that takes effect later. The
histories `raced`, `orphaned`, `broken` and `deserted` record that two managers
overlapped, a manager died, a backend failed or was replaced, a client left
between its request and its answer; `stray` holds the servers that a create has
started and whose pid file it could not write (`libdmn.c:995`, after which
`kc_dmn_create` returns at once). The fork, the bind and the writes of the pid
files and of the configuration may fail.

### Wch

The event file is a sequence of cells, a record being a header and as many cells
as its path is long, so that a file can be cut anywhere. `files` are all that
ever existed (an unlinked file stays open in whoever writes to it), `name` is the
one at the path.

| Actions | Code |
| :--- | :--- |
| `Begin`, `Stop`, `Register`, `Reset`, `Fork`, `WritePid`, `RemoveMeta`, `RemoveEvents` | `kc_wch_run_update` (create, set_*) and `kc_wch_run_delete` |
| `Serve`, `Open`, `Write`, `WriteFails`, `Die` | the resident: `kc_wch_serve_resident`, `kc_wch_append_event` |
| `On`, `Look`, `ReadHead`, `ReadBody`, `Call`, `End`, `Close` | `kc_wch_on`, `kc_wch_subscription_worker` with `kc_wch_read_event`, `kc_wch_close` |
| `ManagerDies` | a crash within a call |

What the reader finds where no header is may be any size: one the file refutes,
one no path has (the thread ends), or one that happens to fit.

## 3. What the runs check

| Run | Question | What it shows |
| :--- | :--- | :--- |
| `kcp_safe` | two messages of one or two fragments, a send window smaller than the receive window, a loss, a duplication, datagrams of a flush reordered and late; six messages of two fragments without a loss, their numbers kept modulo ten | `InOrder`, `NoLossAfterAck`, `NoStall`, `BoundedMemory`; `WidthSuffices`: kept numbers compare as unbounded ones, but for a datagram overtaken by half of them; `ImplementsPipe`: messages come out whole and what is held stays held |
| `kcp_live` | three segments through a window of two, a loss, fair timers | `AllDelivered`, `Drains`: neither a lost ack nor a lost window announcement stops the stream for good |
| `rstrm_safe` | two sends of one or two records and two shutdowns; or a send, a shutdown, a close from outside or inside, a foreign datagram, a refused one and a failed allocation | `ImplementsStream`: the callbacks are those of `Stream`; `CompleteIsTrue`, `NoFalseEproto`, `ReleasedOnce` |
| `rstrm_live` | buffers of one part, fair scheduling; two sends and a shutdown, or a send, a foreign datagram and a close | `DrainComes`, `ShutdownCompletes`, `FailureTold`, `CloseReturns` |
| `pact_safe` | two processes on the same stores, at once or in turn, two crashes, a failed write and a failed removal | `NotStranded`, `Connected`, `RevokedIsOff`, `OneUse` |
| `netl_tcp` | two accepted and two outgoing connections, one that ends, sends, closes from outside and inside | `FinalDisconnect`, `BatchAlive`, `GracefulClose`, `ReleasedAfterWorker`, `AllReleased`, `SilentAfterClose` |
| `netl_live` | two accepted connections and an outgoing one, one failure, fair workers | `ErrorIsLast`, `CloseReturns`, `DisconnectComes` |
| `flow` | every flow of two nodes with up to two links each, an import of one by the other and a failing command, and eight larger ones (joins, loops, self-imports, links to no node, too many branches, an unreadable file); stop or close at any point | `TerminalIsTrue`, `CommandsInOrder`, `StopsSoon`, `RunEnds` |
| `dmn` | seven loads: three clients of which one may die; a backend that fails; managers that create, replace and delete, one of which may die, or a step of which fails before another create or a delete; clients during a replacement or a delete | `OwnAnswer`, `AnswerWhole`, `Registered`, `Served` |
| `wch` | five loads: short and failing writes, a replacement, a delete and a new create, two managers at once, calls that fail or die | `EventsInOrder`, `OneResident`, `EventsReach` |
| `pact_lost`, `netl_stale` | expected violations | the findings below |

The type invariants of Kcp, Rstrm, Pact, Netl and Flow and the inductive invariants of
their proofs are theorems (section 4), so no run repeats them.

### Findings

1. **A confirmation undone by its rival** (`pact_lost`, `Establishes`). Two
   confirms of one invitation in two processes both pass `pending_read`; one
   commits, and the other's clean-up (`libpact.c:1802`) removes the records that
   the first one wrote. Once both calls are over, which `Establishes` waits for,
   the invitation is spent and the relationship is gone.
   `NotStranded` and `Connected` are therefore stated of calls that do not
   overlap, where they hold, crashes included; `OneUse` holds for any number.
2. **A freed peer that is not forgotten** (`netl_stale`, `Forgotten`).
   `kc_netl_socket_connect` starts the worker of a new connection before it
   stores the peer in `interface->peer` (`libnetl.c:1354`). If the connection
   ends first, the worker finds nothing to forget (`libnetl.c:1530`), frees the
   peer, and the store brings it back: the next `kc_netl_send` does not connect
   but uses the freed peer.

### Limits of what holds

Each of these bounds a property above, where it is stated as a precondition:

* `FailureTold` needs the allocation of the error event to succeed: the worker
  ignores the result of `rstrm_event_push` and sets `error_delivered` all the
  same (`librstrm.c:663`). `Rstrm` has that failure (`ReportError`), and with
  memory for no event the property fails.
* `RevokedIsOff` needs the removals to succeed: after a confirm that died both
  the peer and the pending record are there, and a revoke that removes one and
  fails on the other returns `KC_PACT_OK` (`libpact.c:1995`). It holds for calls
  that overlap and for calls that die or fail, not for both together: the undo of
  a confirm that fails may run beside a revoke.
* `NotStranded` and `Connected` are said of calls that do not overlap (`raced`),
  because of the first finding.
* `GracefulClose` is said of a connection that the remote end has not ended:
  when the end of its input is in the poll batch already while another thread
  calls `kc_netl_peer_close`, the peer goes with its queue.
* `ErrorIsLast` is said of one socket: the other one's worker goes on.
* `SilentAfterClose` excludes a close from a callback of the listening socket,
  whose batch goes on with callbacks that are given the freed interface
  (`libnetl.c:956`, `1519`).
* A client that goes between its marker and its answer (`deserted`) leaves the
  answer to whoever comes next: nothing in the stream separates the two
  (`libdmn.c:924`). `OwnAnswer` is said of runs without such a client, and so is
  the part of `AnswerWhole` that says whose the answer is; that an answer has its
  end is said whatever clients do. A client that goes *before* its marker is not
  excluded. `AnswerWhole` excludes a backend that failed or was replaced
  (`broken`), after which the answer ends where it ended.
* `Registered` is said of managers that come one after the other. After one has
  died within its call (`orphaned`) a create still yields a socket with a running
  server, but an orphan may run that no file names, and a server that the dead
  manager forked may still unlink and bind the path until it has settled. Without
  any death, a create that cannot write the pid file leaves its server running
  (`stray`; `libdmn.c:995`, `1498`): later calls take the path from it, and none
  stops it.
* `EventsInOrder` and `EventsReach` exclude what the format cannot tell
  (`blurred`): two residents' writes that mix or a record that is never completed,
  a file emptied between a record's header and its body, a subscription that
  starts within a record, and a replaced file that has grown past the reader's
  offset before the reader looks.
* `OneResident` is said of managers that neither overlap nor die: a resident
  whose manager dies before it writes the pid file is named by nothing and no
  later call stops it (`libwch.c:2313`).
* `Flow` has flow files that do not change during a run; the code reads a child
  file again for every branch that imports it (`libflow.c:3162`).
* `UseQueue`: `kc_netl_send` reads `interface->peer` without a lock and may
  hand a peer to `kc_netl_peer_send` that its worker has freed since. The model
  assumes no effect of that call.

### Bounds, and why they are enough

* Kcp: the windows are 2 and 3 instead of 64 and 128. The interesting cases are
  a window that is full, one that is empty, a segment beyond it and a run that
  moves only partly; all happen from 2 on. With two messages of up to two
  fragments there is one message behind and one cut in the middle. Messages go
  one way, acknowledgments and probes both. `MaxNet` bounds the
  datagrams in flight when a flush starts, not what a flush sends: at 1 those of
  one flush are reordered, lost and doubled among themselves and grow old while the
  ends go on, but those of two flushes of one end do not meet. That they may is
  what the theorems cover, for any `MaxNet`. One loss and one duplication suffice, since the
  proofs show that more change nothing for safety. `Half` is 5
  instead of 2^31, the least that holds both windows, so the twelve segments of
  six messages use every kept number and go on. The constraint `ShortOrLong`
  keeps the long loads to messages of two fragments and no loss.
* Rstrm, Dmn and Wch choose what a behaviour may do - who sends, calls, shuts
  down, closes, what fails and dies, and how often - in `Init`, from a set of
  loads. One run then covers several stories without the product of all of
  them.
* Rstrm: limits of one or two parts; a send of two records can be cut by the
  segment limit. One fault of each kind: the first failure is the one kept.
* Pact: two processes (every race of the code is between two), two joins (the
  one that is confirmed and one that is not), two crashes, a failed write and a
  failed removal, since a crash in a retry after a crash is the longest story the
  records can tell. `MaxIssued` says after how many confirmations the code is
  not joined again. `SYMMETRY` permutes the processes, which the module does not
  tell apart; the run has no liveness.
* Netl: two accepted peers make a batch of two and a peer that is closed while
  another one is called back; two outgoing connections are one and its
  replacement, as there is never a third at a time. A chunk of input, two of
  output and one connection that ends let an end of input meet a queue that is
  empty, partly sent or full. `CloseInside` is whether callbacks may close the
  interface.
* Flow: a depth of 4 instead of 64 and 5 branches instead of the code's limit:
  imports within imports, loops and limits are all met. Beyond two nodes, the
  larger flows have the shapes that need more: two links after an import of two
  entries, entries that meet, a self-import beside another entry.
* Dmn: three clients are one that leaves, one that inherits and one behind it;
  two creates are a daemon and its replacement, while a third manager call is
  the delete. One death and one fault of each kind.
* Wch: three records of one or two cells, so that a record can be cut after its
  header and within its path; two managers; one short write, one failure and one
  death.

Runs set `CHECK_DEADLOCK FALSE` because they may stop: everything was sent and
read, or every stream closed, or the budgets are spent.

### Fairness

* Kcp: the worker wakes at least every 20 ms (`RSTRM_INTERVAL_MS`) and calls
  `ikcp_update`, so a flush keeps happening; while a segment stays
  unacknowledged its timer expires, and while the peer's window is zero the
  probe timer does; a reader reads what is complete. The datagrams that are not
  lost arrive. The flushes are strongly fair only because the bound `MaxNet`
  may disable one for a while; nothing in the code does. The losses are finite
  in number, never chosen by fairness.
* Rstrm: the worker never waits longer than its interval, so it takes steps
  for ever, and callbacks return. That the ARQ gets on while both streams run
  is what `kcp_live` shows of it, and is stated here as strong fairness of the
  datagrams and of the passes that use them - strong because an API call may
  hold the mutex each time. Nothing is assumed of the application: it need not
  send, shut down or close.
* Pact has no liveness: nothing in the library retries.
* Flow: the worker takes its next step, and the join returns once the thread is
  over. Commands return (`kc_flow_run_command` waits for its child). Nobody has
  to stop or close a run.
* Dmn: processes run: some server that has a step takes one, so does a backend and
  a client that has connected. No manager has to go on, and no client has to
  connect. The backend answers what it reads and ends with its input.
* Wch: a resident goes on with a record it has begun and dies of its signal, the
  subscription's thread polls (`kc_wch_subscription_worker` sleeps a fixed time).
  Managers may stop where they are, and no change has to happen.
* Netl: a worker never waits longer than `KC_NETL_POLL_TIMEOUT_MS` and callbacks
  return, so it keeps taking steps; a call that has begun goes on. That a poll
  finds room to write, and that the flush which follows sends what is queued, is
  strong fairness: each happens again and again on a connection that is read,
  but other steps lie between. Nothing is assumed of the remote ends, nor of the
  application.

## 4. What is proved

For every value of the constants that the `ASSUME`s allow, i.e. any windows
from 1, any number of messages, fragments, losses, duplicates and datagrams in
flight (`EndsAssumption`: exactly two ends; `WndAssumption`; `LoadAssumption`):

* `KcpProofs!Inductive`: `Spec => []IInv`
* `KcpProofs!TypeCorrect`, `InOrderAlways`, `NoLoss`: `TypeOK`, `InOrder`, `NoLossAfterAck`
* `KcpBounds!BoundsInductive`: `Spec => []BInv`; `MemoryBounded`, `NeverStalls`:
  `BoundedMemory`, `NoStall`
* `KcpBounds!WidthAlways`: `Spec => []WidthSuffices`, for windows that together are
  at most half of the numbers (`WidthAssumption`; in the code 64 and 128 against
  2^31)
* `KcpProofs!Refines`: `Spec => ImplementsPipe`

`InOrder` is not inductive: it says nothing of what has not been read yet. The
invariant `IInv` says where everything is: `SenderOK` (`snd_queue` is exactly
the part of the stream from `snd_nxt` on, and a segment in `snd_buf` is the one
of the stream with its number), `ReceiverOK` (what was read, then `rcv_queue`,
then a gap, then `rcv_buf`: all from the peer's stream, at their place, below
the peer's `snd_nxt`), `AcksOK` (only what was received is acknowledged),
`DatagramOK` (what a datagram said when it left was true and stays true however
late it arrives: its `una` is at most the `rcv_nxt` of who sent it, its segment
is the original, the number it acknowledges was received) and `NoLossAfterAck`
itself. `DatagramOK` is what makes reordering and duplication harmless: each
conjunct is monotone. The proof has a lemma per action, split into the sender,
the receiver and the datagrams; the arithmetic of prefixes and windows is in
lemmas about `Follows`, `Remains`, `Copies` and `Window`.

`BInv` stands on `IInv`: per end, `snd_buf` within `snd_wnd` of an exact `snd_una`
(`ShrinkLeast`, from the well-foundedness of the numbers), and `KeptWithin`, which
ties the length of `rcv_queue`, the span of `rcv_buf` and "full when the next one
waits" together: one lemma, `KeptMoves`, serves `ikcp_parse_data` and `ikcp_recv`.

`WidthAlways` rests on both. `Near` is the arithmetic: two numbers closer than
`Half` are told apart, with their order, by the signed difference of their
remainders. `NumbersInUse` says how far apart the numbers get: `snd_nxt` is within
`snd_wnd` of `snd_una` (why `SentBound` has it: `snd_una` never goes back), and
`snd_una` within `rcv_wnd` of the peer's `rcv_nxt`, since what left `snd_buf` was
received (`NoLossAfterAck`) and what is received is within the window. So every
comparison is of numbers at most both windows apart, but for those of a datagram
that was late, which the property excludes once half of the numbers have overtaken
it: nothing in `KCP` rejects one (a conversation has no time-out for its
datagrams), and 2^31 segments later the network is assumed to have dropped it.

The refinement maps `ikcp_send` to `Accept`, an arrival to `Transfer` (what is new
is below the peer's stream, what is dropped is held: `AckStep` with `Numbering`),
`ikcp_recv` to `Read` (the segments read are the stream's next ones, since the
queue follows what was read, and all are held), and a flush or a loss to a stutter:
numbering a segment moves it from the rest of the stream to `snd_buf`, and it is
unacknowledged in both.

For any limits of the queue and of the ARQ below it, and any loads - how many
sends of how many records, which ends shut down and close, how many foreign
datagrams, refusals and failed allocations (`EndsAssumption`,
`LimitsAssumption`: a low mark is not above its high mark; `LoadsAssumption`):

* `RstrmProofs!Inductive`: `Spec => []IInv`
* `RstrmProofs!TypeCorrect`, `OneRelease`: `TypeOK`, `ReleasedOnce`
* `RstrmProofs!Refines`: `Spec => ImplementsStream`
* `RstrmProofs!ShakenAlways`: `Spec => []Shaken`
* `RstrmProofs!NeverFalseEproto`, `CompleteTellsTruth`: `NoFalseEproto`, `CompleteIsTrue`

`IInv` has three parts per end besides the types. `Control` says where the worker
is when the mutex is free, and that only a close, which leaves a mark, lets
somebody release the stream: this carries `ReleasedOnce`. `SentOK` places every
part that was taken: the `n`-th one is in the wire where `n` parts have been
counted or, from there on, in the queue, and a FIN comes after all of them.
`ToldOK` looks at `Said`, the callbacks made followed by those still to be made:
they are `InTurn`, i.e. the parts read with none left out, an eof after all of
them, an error last; only an end that has failed or is closing may have left
parts out. Counting is the cardinality of a set of places, so that no recursion
over sequences is needed.

The refinement maps `kc_rstrm_send` to `Take`, `kc_rstrm_shutdown` to `Shut`,
`kc_rstrm_close` from outside (once it has joined the worker) and from a callback
to `Hush`, a callback to `TellData`, `TellEof` or `Tell`, and every other step of
the worker to a stutter. It needs `InTurn` for the next event, and `CountHits`: that a
count is reached at some place, by the least such place.

`Shaken` is a second invariant on top of `IInv`: `Marked` (one FIN and one answer
in each wire, to a FIN that was read), `Noted` (an end knows of the peer's eof or
of its acknowledgment only because it has read the record) and `Honest` (only a
foreign datagram breaks the protocol). The records of a peer that follows
the protocol then come in the order `rstrm_collect_receive_locked` expects.

For any set of processes and any number of joins and faults (`BoundsAssumption`):

* `PactProofs!Inductive`: `Spec => []IInv`
* `PactProofs!TypeCorrect`, `ConfirmedOnce`: `TypeOK`, `OneUse`
* `PactProofs!TrustInductive`: `Spec => []TInv`
* `PactProofs!NeverStranded`, `ConnectedBothWays`, `RevokedStaysOff`: `NotStranded`,
  `Connected`, `RevokedIsOff`

`OneUse` rests on `Spent`: once a confirm has succeeded the pending record is
absent, and it stays so since only an invite writes one, there is only one
invite, and it is over when the code is out (`OneInvite`). The unlink then
decides among concurrent confirms: only one finds the file.

`TInv` relates the two stores to the calls under way. Without races
(`Sequential`) each call's step says which records it has written or removed so
far, so that a call which fails or dies anywhere leaves what the properties ask
for: `InviterOK` (until a revoke the invitation is there or the relationship
stands, and a confirm takes the invitation last), `JoinerOK` (the records of the
last join stand once its confirmation is out) and `RevokeOK`. With races, but
with calls that neither fail nor die (`Racing`), `RevokedIsOff` needs more: a
peer record next to the invitation belongs to a confirm that is not over, and
which will undo it if the revoke was faster; `Taking` says so at each step of the
revoke. `Known` keeps the keys apart: those in the records come from a join whose
confirmation was returned.

For any number of connections, chunks, hang-ups and failures, with or without
closes from callbacks (`BoundsAssumption`):

* `NetlProofs!Inductive`: `Spec => []IInv`
* `NetlProofs!TypeCorrect`, `NoFreedPeer`, `DisconnectIsLast`, `ReleasedLast`:
  `TypeOK`, `BatchAlive`, `FinalDisconnect`, `ReleasedAfterWorker`
* `NetlProofs!ErrorEnds`, `ClosesGracefully`: `ErrorIsLast`, `GracefulClose`
* `NetlProofs!ClosingInductive`: `Spec => []CInv`; `EverythingReleased`,
  `SilentClosed`: `AllReleased`, `SilentAfterClose`

None of the state properties is inductive. `BatchAlive` needs to know that a worker
reaches the head of its loop with no pointers left and that the peer being
finished is in no batch (`WorkerOK`); `FinalDisconnect` that a closed peer is
the one its own worker is finishing, and that a disconnect is made in that state
only (`LifeOK`); `ReleasedAfterWorker` that a socket without a worker has no
peers (`SocketOK`). A step disturbs one socket at most (`LocalStep`), so the
proof looks at the worker that moves and at its peers.

`ErrorIsLast` and `SilentAfterClose` are action properties: the first from the
worker's place after its error, the second from the calls that the threads have
under way. `GracefulClose` stands on what leads to `kc_netl_peer_finish`: a
hang-up in a batch, or a flush that failed, is of a connection that is broken
already (`LineOK`), so that a peer whose connection is up is closed with nothing
left to send (`Gone`). `AllReleased` is about the close of the interface beside
the workers: at each step of a close `ClosingOK` says which of the sockets the
interface still has, and `OutgoingOK` that an outgoing socket which it no longer
has, and which runs still, was closed from a callback of its own (`Winding`): its
worker reads no further and releases it on the way out (`SelfOK`).

For every set of flows, loops and self-imports included, and any bounds on depth
and branches (`FlowAssumption`):

* `FlowProofs!Inductive`: `Spec => []IInv`
* `FlowProofs!TypeCorrect`, `BoundedAlways`, `StopsSoonAlways`, `CalledOnce`: `TypeOK`,
  `Bounded`, `StopsSoon`, and one callback at most, before the release
* `FlowProofs!KeepsPromise`: `Spec => []Promised`; from it `TerminalTellsTruth`:
  `TerminalIsTrue`, and `CommandsFollow`: `CommandsInOrder`

`IInv` has three parts besides the types. `GoodStack` says of each frame
that its depth is its place in the stack (so that the bound on depth bounds the
stack), that it has no more branches than the limit and, inside a command's loop,
has made one for each it is through with, and that a frame which waits for another
is in a loop over entries, branches or links (so that a leaf, whichever frame it
hands its branches to, disturbs none). `Looked` is the
argument for `StopsSoon`: a command that is about to begin is the only one that
may have missed the stop, and after one has begun late the next action is `Ran`,
which looks at the flag. `OneCallback` relates the thread, the status and the
callbacks: told once, with the status and output the run ended with, before the
thread is over and the run is released.

That the worker computes what the document means is `Promised`, an invariant on
top of `IInv`. `Meaning` reads a flow all at once; the worker has, at any moment,
the commands it has begun (`ran`), the branches it has made and a stack of calls
that wait for one another. `Promised` says that these come to `Meaning` in the
end: there is a sequence of results `C`, one for each frame and one past the top
(`Going`, `Follows`), such that

* past the top it is what there is: the branches the collecting frame has, behind
  the commands begun so far;
* `C[k]` is `C[k + 1]` continued with what is left of the call in frame `k`
  (`Resumed`): of a node, by its phase, the import, the commands from the current
  branch on, the links from the current one on (`Left`); of a list of entries, the
  ones not yet entered and then the check of the limit;
* `C[1]` is `Meaning(flow)`.

A step changes the top frame, pushes one or pops one, and leaves `C` alone below
it (`TopChange`, `Push`, `Pop`, and for a leaf, which hands its branches to a frame
further down, `LeafReturn`); so each action's lemma is an equation about one frame,
that what was left before the step is what the step did and what is left after it.
A call that fails has a broken `C`, and broken stays broken down to `C[1]`
(`AndThen`), which is why an error is one of the flow. The order of the commands
follows since `ran` begins the trace of every `C[k]`, hence that of the meaning
(`Extends`), also in a run that ends early. `Shaped` says which calls wait for
which and is part of the invariant (a list of entries above an import, a link
counter within the links).

`InTurnFrom` and `NodeMeaning` are functions that call themselves on a later part
and on a greater depth. That they have the values their equations say is proved by
making a solution from where the recursion ends (past the last part, past
`MaxDepth`) down to 0, one value at a time (`FromExists`, `NodeExists`). `Downward`
is the induction this takes, over sets of naturals: a set that lacked a number
would lack a least one (`NatLessThanWellFounded`). The rest is algebra of results:
`AndThen` is associative with `Nothing` as unit, and `Behind` distributes over it.

For any number of clients and managers, any calls and any faults
(`LoadsAssumption`):

* `DmnProofs!Inductive`: `Spec => []SInv`; `TypeCorrect`: `TypeOK`
* `DmnProofs!OwnInductive`: `Spec => []AInv`; `OwnAnswers`: `OwnAnswer`
* `DmnProofs!WholeInductive`, `EndsInductive`: `Spec => []WInv`, `Spec => []EInv`;
  `AnswersWhole`: `AnswerWhole`
* `DmnProofs!OrderInductive`, `RegistryInductive`: `Spec => []OrderInv`,
  `Spec => []RegistryInv`; `RegisteredAlways`: `Registered`

`SInv` is the wiring: a server that uses a backend has one of its own and knows
whether it has closed its input (`BackendOK`, `InputOK`), a client is in one queue
or at one server (`QueueOK`), and a server that has not bound its path is named
and used by nobody (`UnboundOK`). Three invariants of increasing strength stand
on it. `AInv`, as long as no client has left between its marker and its answer:
the pipes of the backend are empty before the next request is read (`Fresh`), and
hold the rest of one answer after it (`Turn`); a client that leaves *before* its
marker does no harm since its server closes the backend's input and replaces
the backend before the next client. `WInv`, as long as moreover no backend has
failed or was killed: what the client has got, what is in the pipe and what is
still to be answered make up its answer, and the server leaves the exchange only
after the marker. `EInv` is what remains of it whatever clients leave behind: a
client is hung up on, or its call returns, without the end of an answer only
after a backend has failed or was killed. For `Registered`, `OrderInv` holds also after managers have
died within their calls: one call at a time (`Alone`), and once a call waits for
its server the path names one that nobody has killed, or a server is still
binding it or has failed to. `RegistryInv`, without such deaths, says for each
step of a call (`Stage`) which servers are up and what the three files name, all
but the `stray` ones, which go on and which no call has under its hands; that
a server which starts always has a manager waiting for it is what keeps the next
call from meeting it. A step of a server changes none of this except for
unlinking and binding the path (`Steady`).

For any managers, residents, event lengths and faults (`WchAssumption`):

* `WchProofs!Inductive`: `Spec => []IInv`; `TypeCorrect`: `TypeOK`
* `WchProofs!OneAtATime`: `OneResident`
* `WchProofs!ToldInOrder`: `EventsInOrder`

`OneResident` follows from `SInv`, which says for each step of a call which
residents are up (`CallOK`). `EventsInOrder` is about bytes that a resident
writes in pieces and a reader takes in pieces, while a manager may empty the file
between any two of them. `Sound` says of the content of a file that each cell is
at its place behind the header of its record and that records follow one another
whole, the last one perhaps not; `Owned` that one resident completes it;
`ReaderOK` where the reader's offset is in that content, also when the file was
emptied behind it (`unseen`); `ToldOK` that the handler was given exactly the
records which start between where the reader began and where it is, in the order
of the file. All of it holds until one of the events that the format cannot
survive (`blurred`), which the model records where they happen.

Only model-checked: liveness (`AllDelivered`, `Drains`, `DrainComes`,
`ShutdownCompletes`, `FailureTold`, `CloseReturns`, `DisconnectComes`, `RunEnds`,
`Served`, `EventsReach`), which the prover does not reach. Every invariant and
action property that a passing run checks is a theorem.

## 5. Not modelled

Of the modelled components:

* Kcp: round-trip estimation and time-outs, slow start, the wrap of times at 2^32
  (that of segment numbers is `KcpWidth`), stream mode, `ikcp_setmtu`, the
  dead-link counter (which librstrm does not use).
* Rstrm: the encoding of records and the sizes of datagrams, the platform's
  thread primitives, `kc_rstrm_open` before the worker starts. A stream that its
  own callback closes is in; one that the application closes twice, which the
  header forbids, is out.
* Pact: the Noise handshake and the sealed messages, except for whose key they
  need; the codes' text; directories and permissions.
* Netl: the UDP path and directed sends, `taken` peers (the command line's),
  the resolution of addresses and the attempts on several of them, memory for
  accepted peers except as a failure of the accept.
* Flow: the parser and the templates; values; that links and entries are computed
  by commands at run time (here they are fixed targets that may name no node);
  edits of the files during a run; signals to commands and the text of errors;
  `kc_flow_set` and `kc_flow_unset`, which lay values over the file's, in memory.
* Dmn: the capacities of the pipes (a backend that answers before it has read, and
  a server that writes without reading, may wait for each other: `libdmn.c:784`);
  a server whose backend does not start, and which then ends (`libdmn.c:914`, `928`);
  a number of which only a part was written to a pid file; the marker's contents,
  and handles that were opened before `kc_dmn_set_eot`; a configuration that is cut
  by a crash; a SIGPIPE in the client's process; listing, signals and the Windows build.
* Wch: how the platform reports changes, and the command that a change runs; a
  second `kc_wch_on` on one handle (`libwch.c:3216`); a resident whose manager died
  is modelled, but what stops it is not, for nothing does; listing and the
  Windows build.

Of the components without a module:

* `libtls` is a pump around mbedtls: which records a step produces, when a
  `close_notify` is due and what a failure means is decided inside the vendored
  library, so that a model would check its own assumptions. Its one race is
  recorded as a hazard: records made under the lock are dispatched after the
  unlock (`libtls.c:1242`).
* `libstun` is used from one thread; its exposure is a late answer after a refresh
  (`libstun.c:1418`), recorded as a hazard.
* `libhttp`, `libtpl`, `libmdp`, `libmin`, `libregex`, `libb64`, `libleven`,
  `libngram`, `libpow` compute text or numbers from text or numbers, without
  state between calls other than a parser's position.
* `libhnsw`, `libbm25`, `liblng`, `libtpm`, `libemb` are data and scores, whose
  right answer is not defined by anything but themselves.
* `libmmap` keeps one value and writes it in place, which is a hazard that `Pact`
  has in the same form.
* `libinit`, `libwvw`, `libmenu`, `libtray`, `libppn` drive the platform.

By far the largest part of the repository is vendored (ggml, mbedtls, WebView2
headers): none of it is modelled except `KCP`, which librstrm runs in its own
process and on which its promises rest.

## 6. What could come next

1. An abstract specification of a daemon for `Dmn` to implement: one request, one
   answer, one client at a time.
2. `Netl` over UDP: the one queue of datagrams, directed sends.
