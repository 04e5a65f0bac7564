# A TLA+ model of Chops Net IP

Chops Net IP is a header-only C++ library on top of the Networking TS (asio).
An application makes *net entities* (TCP acceptor, TCP connector, UDP entity)
through `net_ip`, starts them with an io state change callback and an error
callback, and does I/O on the *io handlers* (`tcp_io`, `udp_entity_io`) that the
callback hands over. One thread runs completion handlers (`worker`); any thread
may call the entities and the io interfaces.

## Inventory

| Component (`src/include/net_ip/`) | State | Operations | What makes it correct |
|---|---|---|---|
| `detail/output_queue.hpp` | queue, two atomic counters | add, take | FIFO; counters agree with the queue, wrapped |
| `detail/io_common.hpp` | io started (atomic), write in progress, queue | start_write_setup, get_next_element, set/stop | at most one write, none forgotten |
| `detail/tcp_io.hpp` | socket, read state, io_common | start_io, stop_io, send, close, read and write handlers | in-order sending, lost connections noticed, handler released |
| `detail/net_entity_common.hpp` | started (atomic), callbacks | start, stop, call callbacks | callbacks paired |
| `detail/tcp_acceptor.hpp` | listening socket, container of handlers | start, stop, accept chain, notify_me | container exact, never deaf, stop ends everything |
| `detail/tcp_connector.hpp` | socket, resolver, timer, handler, shutting-down flag | start, stop, resolve, connect, retry, notify_me | one chain of attempts, retried until stopped |
| `detail/udp_entity_io.hpp` | both commons, socket, default destination | start, start_io, send, stop_io, stop, handlers | as tcp_io, and usable again after a stop |
| `endpoints_resolver.hpp` | resolver | make_endpoints, cancel | (used by the connector and by `net_ip`) |
| `net_ip.hpp` | three containers of entities, a mutex | make_*, remove, remove_all, stop_all | stop_all reaches what is listed, no lock-up, removed entities go away |
| `basic_net_entity.hpp`, `basic_io_interface.hpp` | weak pointers | forward or throw, compare | an expired object is reported, never used |
| `component/simple_variable_len_msg_frame.hpp`, read handlers of `detail/tcp_io.hpp` | header seen, read size, byte vector | frame, deliver | whole messages, in order, whatever the arrival of bytes |
| `component/send_to_all.hpp` | collection of io handles, a mutex | add, remove, send, statistics | one order for all, nobody skipped |
| `component/io_interface_delivery.hpp`, `component/io_state_change.hpp` | wait queue, promises, read parameters | start functions, state change callbacks | begins before ends, promises set, waiters woken |
| `component/worker.hpp` | io_context, work guard, thread | start, stop, reset | reset returns when there is no work |
| `component/error_delivery.hpp`, `net_ip_error.hpp` | | format and queue errors | (no state) |

The parts interact by direct calls (entity to handler), by the notifier callback
(handler to entity: `m_notifier_cb` is the entity's `notify_me`), by handlers
posted to the io_context, and by callbacks into the application, which may call
back into the library.

What is hard here: calls from several threads between two accesses to a flag;
application code that runs in the middle of `stop`, `notify_me` and the accept
and connect handlers; handlers of operations that were aborted, or had already
completed, when the entity was stopped and perhaps started again; write errors
that are swallowed. `PROJECT.json` lists these hazards at their lines.

## Modules

| Module | Models | Uses |
|---|---|---|
| `OutputQueue` | output_queue | |
| `IoCommon` | io_common | `OutputQueue` |
| `SendChannel` | abstract: FIFO channel that may break once | |
| `DatagramChannel` | abstract: FIFO channel that a failure breaks until it is opened again | |
| `TcpIo` | tcp_io | `IoCommon`, implements `SendChannel` |
| `NetEntityCommon` | net_entity_common | |
| `TcpHandlers` | the tcp_io objects as their entity sees them | `NetEntityCommon` |
| `TcpAcceptor`, `TcpConnector` | the TCP entities | `TcpHandlers`; the acceptor `EraseWhere` |
| `UdpEntityIo` | udp_entity_io | `IoCommon`, `NetEntityCommon`, implements `DatagramChannel` |
| `MsgFrame` | read handlers of tcp_io, simple_variable_len_msg_frame | implements `SendChannel` |
| `IoInterface` | basic_io_interface | |
| `SendToAll` | send_to_all | `IoInterface`, `EraseWhere` |
| `IoInterfaceDelivery` | io_interface_delivery, io_state_change, the end of the run thread | `TcpHandlers` |
| `NetIp` | net_ip, basic_net_entity, worker | `EraseWhere` |
| `EraseWhere` | erase_where, from a utility library | |
| `TcpIoProofs` | theorems about `TcpIo` and `MsgFrame` | both, `SequenceLemmas` |
| `TcpAcceptorProofs`, `TcpConnectorProofs`, `UdpEntityIoProofs`, `SendToAllProofs`, `NetIpProofs`, `IoInterfaceDeliveryProofs` | theorems about the module of that name | it, `SequenceLemmas` |
| `SequenceLemmas` | lemmas about sequences, and induction, for the proofs | `EraseWhere` |
| `MC*` | values of constants for TLC | |

Two abstract specifications say what a handler promises. In `SendChannel` buffers
are accepted in some order and come out in that order, each once, until the channel
breaks. `TcpIo` implements it (accepted is what `start_write_setup` took, wire what
was written, broken a failed write) and so, on the reading side, does `MsgFrame`
(accepted is what the peer sent, wire what the message handler was given, broken the
teardown). `DatagramChannel` is for an entity that can be started again: a failure
breaks it and may lose buffers not yet sent, a start opens it again, and what goes out
is in order and each once all the time. `UdpEntityIo` implements it, with `Passed`
(accepted buffers neither queued nor in a write that can still succeed) for the
position and the starts for the openings. Whether anything does go out after a restart
is another question, which the run `UdpRestart` asks.

**State.** Variables keep the names of the C++ members. `pc` says where a thread
is inside a call. `posted`, `reads`, `writes`, `accepts`, `ops` are the
outstanding asynchronous operations: *pending* in the kernel, then *done*
(*ready*) or *failed* with the handler waiting for the run thread. Closing a
socket or cancelling a timer fails what is pending and leaves alone what has
completed; this is how asio behaves and is where most of the trouble comes from.
They are sequences although the code means to have at most one of most of them,
so that "at most one" can be violated.

**Steps.** What a thread does between two accesses to state shared with another
thread is one step. A call is split at the exchange of an atomic flag, at a
socket close that other threads can observe, and after each callback into the
application: a call that the application makes inside a callback then is a call
by another thread while the first waits at its next step. The run thread starts
a handler only when it is idle.

**History.** In `TcpIo` and `UdpEntityIo`, `accepted` is what
`start_write_setup` took, `wire` what was written in full, `broken` that a write
failed. `up` and `down` count state change callbacks with true and false.
`must` in `TcpAcceptor` is the set of handlers started when a stop began.
`overlapped` in `TcpAcceptor` records that a stop fell between the exchange of the
flag in a start and the opening of the socket, in `TcpConnector` that a start fell
between the exchange of the flag in a stop and its close; `leftover` in
`IoInterfaceDelivery` that a start met attempts of an earlier one. They restrict
nothing.

**Data left out.** Contents of messages (but `MsgFrame` has bytes), endpoints
(UDP keeps whether a destination was given), error codes, socket options. In
`TcpIo` a completed read ends in the next read or, if the message handler is
unhappy, in the end of the connection; `MsgFrame` refines what happens in between.
An entity in `NetIp` is its started flag, one outstanding operation (an accept, a
connect, or a wait, which is a resolve or the reconnect timer) and one connection
(made and not started, reading, its read over, or closed and still referred to). What
survives a stop survives it there too: an accept or a timer that is over, a connection
on which start_io was not called. In `IoInterfaceDelivery` the connector is a number of
chains of attempts and what it reports: a stop ends as many chains as it happens to.
The detail of both is in `TcpAcceptor`, `TcpConnector` and `UdpEntityIo`.

**Environment.** An application calls `start_io` only on a handler it was told
of; `TcpIo` alone lets it call start_io again after a stop. Starts and stops may
overlap in any way. A failing assertion ends the program, or goes unnoticed where
assertions are compiled out. A UDP socket that an earlier stop
left open cannot be opened again (already open, or its address is in use).
In `TcpAcceptor` an access to `m_io_handlers`, and in `NetIp` one to a
container, is one atomic step. The message handler of `MsgFrame` ends the
connection on an empty message in the passing run, as that of
`example/var_len_msg` does. In `NetIp` a state change callback may call `remove`
on its entity, under `stop_all` too; an entity is started once there, and an acceptor
has one connection at a time. In `IoInterfaceDelivery` a start waits until the callback
it replaces is not running: replacing a running one is a data race.

## Runs

A module's type invariant is checked as a part of one invariant of its run:
`AcceptorInv` (with `ContainerExact`), `ConnectorInv` (`OneChain`), `UdpInv`
(`OneOfEach`), `FrameInv` (`FrameInStep`), `CollectionInv` (`SameOrder`),
`StopAllInv` (`StopAllStops`) and `DeliveryInv` (`BeginBeforeEnd`).
In `TcpIo` it is proved only (`TypeCorrect`), and so are `WriteSerialized`, `WirePrefix`
and `NothingAfterBroken`, which `QueueInv` and `ChannelSpec` imply.

| Run | Bounds | Shows |
|---|---|---|
| `TcpIo` | 3 buffers, 2 threads + run thread, 2 start_io calls, counters modulo 4, fair | one write at a time, order kept, counters exact, a read always posted, refinement of `SendChannel` (nothing after a failed write); what is accepted goes out or the socket closes, a dead peer leads to a close, a closed handler lets go |
| `TcpAcceptor` | 2 connections, 2 threads, 1 start, 1 accept error, fair | container exact, stop closes all started connections, never deaf, lost connections are reported, a stopped acceptor releases its socket unless the stop fell into the start |
| `TcpConnector` | 2 connections, 2 threads, 2 starts, name resolution, a reconnect time, fair | never stalled unless a start fell into a stop, one chain of attempts before a restart, retries continue, stop ends them, lost connections are reported |
| `UdpEntityIo` | 3 buffers (one with its own destination), 2 threads, 2 starts, 1 error, counters modulo 2 | one write at a time, refinement of `DatagramChannel` over restarts, an open reported closed at most once, a failed write stops the entity |
| `MsgFrame` | 3 messages of up to 3 body bytes over two byte values, three read modes, any arrival of bytes, fair | read size and frame state agree, whole messages in order (refinement of `SendChannel`), none left behind |
| `SendToAll` | 2 interfaces, 2 buffers, 2 threads + run thread, connections lost inside start_io too, fair | same order everywhere, a send that returns reached all, exceptions only for stale handles, a live handle leaves only at its own end, callbacks get the mutex |
| `IoInterfaceDelivery` | 3 start functions, 2 starts, 2 threads + run thread, fair | begins before ends; unless a start meets attempts of an earlier one, no connection reads with a moved-from message handler and the promise of a beginning is set once; whoever waits for an end is woken |
| `NetIp` | 1 acceptor, 1 connector, 1 UDP entity, any 2 of them made, 1 application thread + run thread, fair | stop_all stops what was listed, whoever waits for the mutex gets it unless a callback under `stop_all` called `remove`, reset returns and stopped and removed entities go away unless a connection is left that no stop ended |
| `UdpRestart`, `MsgFrameEmpty`, `FutureTwice`, `ConnectorAssert` | small | the four violations below |

Why the bounds are enough to be interesting: three buffers put one on the wire
and two in the queue, so the order of the queue matters, and sizes 1, 2, 3 wrap
the byte counter at 4; two application threads and the run thread give all
overlaps of start, stop and a failing handler; two starts let the handlers of
the first meet the second; two connections let stop walk over one while another
ends. The acceptor has one start in its run, for the sake of the liveness properties;
its invariants are proved for any number. Bodies of 3 bytes over two byte values use both bytes of the header, so byte
order and sign matter, and contain proper prefixes of the delimiter; three
messages leave one to be cut wrongly after another was. Two of three entities
give every pair of kinds: a stop_all with a second entity still to stop, a UDP
insertion racing a removal, a callback of one while another is removed. One
application thread is enough there for a callback in each of two threads that waits for
the mutex, and a second would multiply the states by more than TLC can do in minutes;
`StopAllInv`, where threads compete most, is proved for any number. Thread
symmetry is used only where no liveness property is checked. Threads and peers
may do nothing for ever, so deadlock is not checked; `NetIp` has its own property
about waiting for the mutex, and `SendToAll` too.

**Fairness.** A thread inside a call goes on; the run thread runs handlers that
are ready (the io_context queue is FIFO, hence strong fairness where a handler's
thread may be busy in between); the kernel reports a dead connection, ends a
resolve, a connect or a wait. In `TcpIo` a write ends, which for a connection that is
alive means that the peer reads: without that `Drains` cannot hold of any code. Nothing
else is asked of peers, and nothing of the application.

### Where the code and its documentation differ

Four runs expect a violation; the traces are short.

* `UdpRestart`: a stop with a write outstanding leaves `m_write_in_progress`
  set; after the next start everything sent is queued and nothing written. The
  property is about a restarted entity that nobody is about to stop
  (`basic_net_entity.hpp:165`: start, stop, start).
* `ConnectorAssert`: `tcp_connector::close` resets `m_io_handler` before the read it
  aborts calls `notify_me`, whose assertion then fails (`tcp_connector.hpp:226`).
* `MsgFrameEmpty`: a header that announces an empty body leaves the frame object
  expecting a body; the next header is taken for one and is delivered alone
  (`basic_io_interface.hpp:306` promises full messages).
* `FutureTwice`: `stop_io` notifies the entity and the read it aborts does so
  again; the second `set_value` on the stop promise throws in the run thread
  (`io_interface_delivery.hpp:24-25` says there is a single change for IO stop).

Divergences seen on the way: the models do the same, no run asks about them.

* Two ends are reported for one connection (`doc/release.md:16` says one): the
  cause of `FutureTwice`, for acceptor and connector alike.
* The aborted accept of an earlier start calls `stop()` on the restarted acceptor
  (`basic_net_entity.hpp:165` allows start, stop, start).
* A `stop()` between the exchange of the flag in an acceptor's `start()` and the opening
  of the socket finds nothing to close: the acceptor listens without being started, and
  no stop can close it (the exception of `StopReleases`).
* A connector's `start()` between the exchange of the flag in a stop and its `close()`
  has its operation cancelled and its retry refused by the shutting-down flag: started,
  with nothing under way (the exception of `NeverStalled`). The application may well
  call it there, when it is told of a lost connection by the state change callback:
  `net_ip.hpp:213-215` leaves the restart to it, and `notify_me` stops only afterwards.
* An expired reconnect timer is beyond `cancel`: the connector connects once more
  after stop (`net_ip.hpp:212-213`). A start that follows at once resets the
  shutting-down flag while the aborted connect is still to be handled: two
  chains of attempts, two connections through one callback. The second connection
  reads with a message handler that was moved from (`io_state_change.hpp:70`), and sets
  the promise of the beginning a second time, which throws in the run thread
  (`leftover` in `HandlerIntact` and `ErrorOnlyBySecondEnd`).
* A reconnect time of 0, the default, retries at once (`tcp_connector.hpp:203`) where
  `net_ip.hpp:221-222` says no reconnects are attempted. `RetryContinues` is stated for
  times above 0 only.
* `stop()` drops (connector) or keeps (acceptor) a connection on which start_io
  was not called, without the callback with false. The acceptor and the connection it
  keeps refer to each other (`tcp_acceptor.hpp:121-123`), as do a connector and a
  connection made after its stop: neither is ever destroyed, removed or not. If start_io
  is called on such a connection, or on a UDP entity stopped before start_io, its read is
  ended by no stop, and `worker::reset` waits for it (`Orphan` and `held` in
  `ResetReturns` and `Reclaimed`).
* `stop_all` misses a UDP entity whose insertion is only posted, and the removal
  of such an entity is undone by the insertion. The insertion (`net_ip.hpp:351`)
  appends without the mutex, and the acceptor's `stop` copies `m_io_handlers`
  unlocked while the run thread changes it: data races, which the models take
  as atomic steps.
* An end that another thread, or start_io on a lost connection in the callback,
  reports before `send_to_all` has added the beginning leaves a handle in the collection for ever; the next send throws, and
  `get_total_output_queue_stats`, which is noexcept, ends the program.

## Proofs

Every invariant, every action property and every refinement that a passing run
checks is also a theorem, for all values of the constants: any set of threads,
buffers, connections and entities, any number of starts and of errors, any width
of the counters, any delimiter and size of messages. What is assumed of the
constants is in the `ASSUME`s of the modules and says no more than that the run
thread is not an application thread, that bounds are natural numbers, that
connections are numbered, and that a length fits into its header.

An invariant is proved by induction with one lemma per action or group of
actions. Few are inductive as the runs check them, so each proof module states a
stronger one first, which was model-checked before it was proved.

**`TcpIoProofs`, sending** (`TcpIo`).
* `TypeCorrect`, `ReadAlwaysPosted`: `TypeOK` is inductive, `ReadPosted` with it.
* `QueueCorrect`: `WriteSerialized` and `WirePrefix` are not inductive. One has to
  know that with the flag clear the queue is empty and all accepted buffers are
  written, that a pending write is the buffer just after those written with the
  queue following it, and that after a completed one the queue follows what is
  written. `QueueInv` says this; `run_send` and `handle_write` move between these
  cases, `write_completes` advances the position.
* `WritesSerialized`, `WrittenInOrder`: `WriteSerialized` and `WirePrefix` from it.
* `ImplementsChannel`: initial states map to initial states; a step is `Accept`
  (run_send of a started handler), `Deliver` (write_completes, which needs
  `QueueInv`), `Break`, or a stutter. `NothingFollowsFailure` is the action
  property `NothingAfterBroken`.
* `StatsExact`: both counters against the length of the queue and the sum of its
  sizes. It rests on two facts of arithmetic modulo the word (a sum, and a
  difference of words, have the remainder one expects) and on what `TotalBytes`
  of a queue is after an append and a pop, both by induction over the queue.

**`TcpIoProofs`, reading** (`MsgFrame`).
* `FramesInStep` and `WholeMessages` (the refinement `MessageChannel`). The
  invariant says that the bytes read and the bytes on their way, one after the
  other, are the messages that were sent and not yet delivered (`StreamInv`, with
  the positions where they are cut), that each message tells its length in the
  way the reader expects (`SentInv`), and how much of a message has been read when
  a header was seen (`SizeInv`). Then the next message begins the stream; its
  header, its fixed size or its first delimiter (`DelimiterEndsFirst`: no earlier
  one, even if a read brings in bytes of later messages) gives the number of bytes
  that are delivered, and the rest of the stream is the other messages
  (`RestIsMade`).
* Hypothesis `EmptyEnds`: the message handler ends the connection on an empty
  message. Without it both are false, see `MsgFrameEmpty`.

**`TcpAcceptorProofs`.** `ContainerIsExact`, `StopClosesAll`, `AcceptorListens`.
The invariant adds to `ContainerExact` how far a connection has got when a
thread holds it inside the accept handler or `notify_me` (`LifeInv`), and what a
thread inside `stop()` has still to close: everything it must while it copies the
container, then what is in the copy or in its hands (`StopInv`). `NeverDeaf` needs
only the types.

**`TcpConnectorProofs`.** `OneChainOnly`: the chain of attempts is in one place
(an operation, a thread about to post one, or a connection), until a restart.
`NotStalled` has no hypothesis on who starts and stops when; its invariant `StallInv`
speaks, like the property, of the time until a start overlaps a stop. Until then a
stop in progress finds the connector stopped, the shutting-down mark is gone once the
start has posted its operation, and the cancelled wait of an earlier start is not all
there is.

**`UdpEntityIoProofs`.** `QueueCorrect`: the queue is the end of what was accepted, and a
write that can still succeed is the buffer just before it, over restarts.
`ImplementsChannel` from it: an acceptance that starts a write on a closed socket is
`Accept` with a loss, a stop or a failed write `Break`, a start `Reopen`. `ClosedOnce` counts: every start_io that set the flag is answered by one
close that is to come, being made, or reported (`CloseInv`). `OneOperationOfEach`,
`NoWakeupLost` and `FailuresStop` speak of the time before a restart, because
afterwards they are false (`RestartSends`); they need that one thread opens the
socket and starts io once (`OnceInv`) and that a write in progress that did not
fail is outstanding (`WakeInv`).

**`SendToAllProofs`.** `SendersAgree`: while a thread is in the loop of send it holds
the mutex, has posted its buffer to exactly the interfaces before its place, and
nothing was posted behind it (`LoopInv`). `ThrowsOnlyStale`: a handle that is gone
was reported or dropped, and one that was reported is stored only if its end
overtook its beginning (`LifeInv`), be it in another thread or inside start_io.
`ReachesAll` and `LeavesOnlyByItself` are action
properties; the second is about `erase_where` with an equality under which all
expired handles are one.

**`NetIpProofs`.** `StopAllStopsAll`: every entity that stop_all found started and that
is started still is ahead of it in its walk. That an entity is started once is a
part of the model and used here: one that were started again behind the walk
would be running when stop_all returns.

**`IoInterfaceDeliveryProofs`.** `BeginsBeforeEnds`, `HandlersIntact`,
`ErrorsOnlyBySecondEnd`, for any number of connections per start. As long as no start
has met attempts of an earlier one, there is one chain of attempts (`ChainInv`), and
the promise and the message handler of a start are untouched until its callback has
delivered (`OnceInv`). Besides: with one start there is one connection (`MadeInv`), a
connection that reads was told of, or is about to be (`ReadInv`), and an end is reported
after its beginning (`EndInv`).

**Induction over data.** The library's induction rules take an operator as a
parameter, which the provers cannot instantiate. `SequenceLemmas` therefore proves
induction for a set of numbers (`SetInduction`, from the well-foundedness of <),
and with it that the recursive functions inside `EraseWhere` and `TotalBytes` have
a solution and what it is.

Only model-checked: the liveness properties, since fairness and ENABLED are beyond
the prover (`BrokenCloses`, `Drains`, `Released`, `LostIsReported`, `StopReleases`,
`RetryContinues`, `StopEndsAttempts`, `AllDelivered`, `CallbackReturns`, `WaitsEnd`,
`ResetReturns`, `Reclaimed`, `EndIsDelivered`).

## Not modelled, and the plan

The state of the library is modelled and its safety proved. What could be added:
the safety half of the liveness arguments (that the step a property waits for is
possible in every state in which it is due), and a composition of `TcpIo` with the
entities, which see it as `TcpHandlers`.

Not modelled, and why:

* `component/error_delivery.hpp` and `net_ip_error.hpp`: error texts and code
  tables, pushed to a queue of the application or printed; no state of their own.
* Socket options, the blocking overload of the resolver: no state of their own.
* The wait queue variants of delivery for UDP entities and acceptors: the same
  callback as for the connector, with another entity behind it.
* A reader of the two queue counters in two loads: nothing promises that the
  numbers belong together.
* The destruction of `net_ip` with a UDP insertion still posted, which refers to it
  by a plain pointer: the class has no destructor of its own to model.
* asio, shared buffers and the wait queue: third-party code, modelled only as far
  as the code above relies on them.
