---------------------------- MODULE TcpAcceptor ----------------------------
(***************************************************************************)
(* detail/tcp_acceptor.hpp: a listening entity and the connections it has  *)
(* accepted.  Application threads call start, stop, and start_io/stop_io   *)
(* on a connection they were told of; the run thread runs the handlers.    *)
(* A call the application makes inside one of its callbacks is a call by   *)
(* another thread while the calling one waits at its next step, so the     *)
(* code is split after every callback and around every use of              *)
(* m_io_handlers.                                                          *)
(***************************************************************************)
EXTENDS TcpHandlers, EraseWhere, SequencesExt

CONSTANTS Threads, RunThread,
          MaxStarts,   \* bound: start calls that succeed
          MaxErrors    \* bound: accept errors the kernel reports on its own

VARIABLES m_acceptor,     \* "open" or "closed"
          accepts,        \* outstanding async_accepts: pending, ready or failed
          m_io_handlers,  \* the container
          pc,             \* where each thread is, [at, h, todo, back]
          starts,         \* successful starts so far
          errors,         \* accept errors so far
          must,           \* must[p]: handlers started when p began to stop
          overlapped      \* a stop came between a start's exchange and the opening

stopVars == <<must, overlapped>>
vars == <<entityVars, handlerVars, chgVars, m_acceptor, accepts, m_io_handlers, pc,
          starts, errors, stopVars>>

ASSUME HandlerAssumption == Handler \subseteq Nat \ {0}
ASSUME BoundAssumption == MaxStarts \in Nat /\ MaxErrors \in Nat
ASSUME RunAssumption == RunThread \notin Threads

Procs == Threads \cup {RunThread}
None  == 0   \* no handler: handlers are numbered from 1

Idle == [at |-> "idle", h |-> None, todo |-> << >>, back |-> "idle"]
At(p, where) == pc' = [pc EXCEPT ![p].at = where]

PcAt == {"idle", "open", "stop", "copy", "loop", "close", "notify", "erase",
         "push", "chg_true", "start_accept"}

AcceptSt == {"pending", "ready", "failed"}

TypeOK ==
    /\ HandlersTypeOK
    /\ m_acceptor \in {"open", "closed"}
    /\ accepts \in Seq(AcceptSt)
    /\ m_io_handlers \in Seq(Handler)
    /\ pc \in [Procs -> [at : PcAt, h : Handler \cup {None}, todo : Seq(Handler),
                         back : {"idle", "loop"}]]
    /\ starts \in 0 .. MaxStarts /\ errors \in 0 .. MaxErrors
    /\ must \in [Procs -> SUBSET Handler] /\ overlapped \in BOOLEAN

Init ==
    /\ HandlersInit
    /\ m_acceptor = "closed" /\ accepts = << >>
    /\ m_io_handlers = << >>
    /\ pc = [p \in Procs |-> Idle]
    /\ starts = 0 /\ errors = 0
    /\ must = [p \in Procs |-> {}] /\ overlapped = FALSE

\* Closing the listening socket aborts the accepts that are pending.
Aborted == [i \in DOMAIN accepts |->
              IF accepts[i] = "pending" THEN "failed" ELSE accepts[i]]

\* async_accept, which fails on a closed socket.
AsyncAccept(others, sock) ==
    accepts' = Append(others, IF sock = "open" THEN "pending" ELSE "failed")

-----------------------------------------------------------------------------
(* start and stop.                                                         *)

start(t) ==
    /\ pc[t].at = "idle" /\ starts < MaxStarts
    /\ entity_start
    /\ starts' = starts + 1
    /\ At(t, "open")
    /\ UNCHANGED <<handlerVars, chgVars, m_acceptor, accepts, m_io_handlers, errors, stopVars>>

\* The new listening socket replaces the old one; its constructor may throw,
\* which is reported and answered by stop().
open_acceptor(t) ==
    /\ pc[t].at = "open"
    /\ \/ /\ m_acceptor' = "open"
          /\ AsyncAccept(Aborted, "open")
          /\ At(t, "idle")
       \/ /\ At(t, "stop")
          /\ UNCHANGED <<m_acceptor, accepts>>
    /\ UNCHANGED <<entityVars, handlerVars, chgVars, m_io_handlers, starts, errors, stopVars>>

app_stop(t) ==
    /\ pc[t].at = "idle" /\ m_started
    /\ At(t, "stop")
    /\ UNCHANGED <<entityVars, handlerVars, chgVars, m_acceptor, accepts, m_io_handlers,
                   starts, errors, stopVars>>

stop(p) ==
    /\ pc[p].at = "stop"
    /\ \/ /\ entity_stop
          /\ must' = [must EXCEPT ![p] = {h \in Handler : io[h] = "started"}]
          /\ overlapped' = (overlapped \/ \E q \in Procs : pc[q].at = "open")
          /\ At(p, "copy")
       \/ /\ ~m_started
          /\ pc' = [pc EXCEPT ![p] = Idle]
          /\ UNCHANGED <<m_started, stopVars>>
    /\ UNCHANGED <<handlerVars, chgVars, m_acceptor, accepts, m_io_handlers, starts, errors>>

\* auto iohs = m_io_handlers
stop_copy(p) ==
    /\ pc[p].at = "copy"
    /\ pc' = [pc EXCEPT ![p].at = "loop", ![p].todo = m_io_handlers]
    /\ UNCHANGED <<entityVars, handlerVars, chgVars, m_acceptor, accepts, m_io_handlers,
                   starts, errors, stopVars>>

\* Walking the container itself: what follows an erased handler is skipped.
stop_loop_mutLive(p) ==
    /\ pc[p].at = "loop"
    /\ IF pc[p].todo = << >>
         THEN At(p, "close")
         ELSE LET h == Head(pc[p].todo) IN
              pc' = [pc EXCEPT ![p].todo = IF io[h] = "started" THEN SubSeq(@, 3, Len(@))
                                                                ELSE Tail(@),
                               ![p].h = h,
                               ![p].at = IF io[h] = "started" THEN "notify" ELSE "loop",
                               ![p].back = "loop"]
    /\ UNCHANGED <<entityVars, handlerVars, chgVars, m_acceptor, accepts, m_io_handlers,
                   starts, errors, stopVars>>

\* One round of the loop: stop_io does nothing to a handler not started.
stop_loop(p) ==
    /\ pc[p].at = "loop"
    /\ IF pc[p].todo = << >>
         THEN At(p, "close")
         ELSE LET h == Head(pc[p].todo) IN
              pc' = [pc EXCEPT ![p].todo = Tail(@),
                               ![p].h = h,
                               ![p].at = IF io[h] = "started" THEN "notify" ELSE "loop",
                               ![p].back = "loop"]
    /\ UNCHANGED <<entityVars, handlerVars, chgVars, m_acceptor, accepts, m_io_handlers,
                   starts, errors, stopVars>>

stop_close_mutForgotten(p) ==
    /\ pc[p].at = "close"
    /\ must' = [must EXCEPT ![p] = {}]
    /\ pc' = [pc EXCEPT ![p] = Idle]
    /\ UNCHANGED <<entityVars, handlerVars, chgVars, m_acceptor, accepts, m_io_handlers,
                   starts, errors, overlapped>>

stop_close(p) ==
    /\ pc[p].at = "close"
    /\ m_acceptor' = "closed"
    /\ accepts' = Aborted
    /\ must' = [must EXCEPT ![p] = {}]
    /\ pc' = [pc EXCEPT ![p] = Idle]
    /\ UNCHANGED <<entityVars, handlerVars, chgVars, m_io_handlers, starts, errors,
                   overlapped>>

-----------------------------------------------------------------------------
(* notify_me, called by whichever thread runs into the end of a connection.*)

Notify(p, h) == pc' = [pc EXCEPT ![p].at = "notify", ![p].h = h, ![p].back = "idle"]

notify_close(p) ==
    /\ pc[p].at = "notify"
    /\ close_io(pc[p].h)
    /\ At(p, "erase")
    /\ UNCHANGED <<entityVars, chgVars, m_acceptor, accepts, m_io_handlers, starts,
                   errors, stopVars>>

notify_erase_mutKeep(p) ==
    /\ pc[p].at = "erase"
    /\ call_io_state_chg_cb(pc[p].h, FALSE)
    /\ pc' = [pc EXCEPT ![p].at = pc[p].back, ![p].h = None]
    /\ UNCHANGED <<entityVars, handlerVars, m_acceptor, accepts, m_io_handlers, starts,
                   errors, stopVars>>

notify_erase(p) ==
    /\ pc[p].at = "erase"
    /\ m_io_handlers' = EraseWhere(m_io_handlers, {pc[p].h})
    /\ call_io_state_chg_cb(pc[p].h, FALSE)
    /\ pc' = [pc EXCEPT ![p].at = pc[p].back, ![p].h = None]
    /\ UNCHANGED <<entityVars, handlerVars, m_acceptor, accepts, starts, errors, stopVars>>

-----------------------------------------------------------------------------
(* The accept handler.                                                     *)

\* A connection: the tcp_io is made; it is stored, announced, and the next
\* accept is posted in the steps that follow.
handle_accept(i) ==
    /\ pc[RunThread].at = "idle" /\ accepts[i] = "ready"
    /\ accepts' = RemoveAt(accepts, i)
    /\ \E h \in Handler :
         /\ \A g \in Handler : g < h => io[g] # "none"
         /\ make_tcp_io(h)
         /\ pc' = [pc EXCEPT ![RunThread].at = "push", ![RunThread].h = h]
    /\ UNCHANGED <<entityVars, chgVars, m_acceptor, m_io_handlers, starts, errors, stopVars>>

push_handler ==
    /\ pc[RunThread].at = "push"
    /\ m_io_handlers' = Append(m_io_handlers, pc[RunThread].h)
    /\ At(RunThread, "chg_true")
    /\ UNCHANGED <<entityVars, handlerVars, chgVars, m_acceptor, accepts, starts, errors, stopVars>>

announce ==
    /\ pc[RunThread].at = "chg_true"
    /\ call_io_state_chg_cb(pc[RunThread].h, TRUE)
    /\ At(RunThread, "start_accept")
    /\ UNCHANGED <<entityVars, handlerVars, m_acceptor, accepts, m_io_handlers, starts,
                   errors, stopVars>>

start_accept_mutForgotten ==
    /\ pc[RunThread].at = "start_accept"
    /\ pc' = [pc EXCEPT ![RunThread] = Idle]
    /\ UNCHANGED <<entityVars, handlerVars, chgVars, m_acceptor, accepts, m_io_handlers,
                   starts, errors, stopVars>>

start_accept ==
    /\ pc[RunThread].at = "start_accept"
    /\ AsyncAccept(accepts, m_acceptor)
    /\ pc' = [pc EXCEPT ![RunThread] = Idle]
    /\ UNCHANGED <<entityVars, handlerVars, chgVars, m_acceptor, m_io_handlers, starts,
                   errors, stopVars>>

\* An error, the abort of an accept included: it is reported and stop() called.
handle_accept_error(i) ==
    /\ pc[RunThread].at = "idle" /\ accepts[i] = "failed"
    /\ accepts' = RemoveAt(accepts, i)
    /\ At(RunThread, "stop")
    /\ UNCHANGED <<entityVars, handlerVars, chgVars, m_acceptor, m_io_handlers, starts,
                   errors, stopVars>>

-----------------------------------------------------------------------------
(* The connections: the application's calls, the read handler, the peer.   *)

app_start_io(t, h) ==
    /\ pc[t].at = "idle" /\ up[h] > 0
    /\ \/ start_io_ok(h) /\ UNCHANGED pc
       \/ start_io_lost(h) /\ Notify(t, h)
    /\ UNCHANGED <<entityVars, chgVars, m_acceptor, accepts, m_io_handlers, starts, errors, stopVars>>

app_stop_io(t, h) ==
    /\ pc[t].at = "idle" /\ up[h] > 0 /\ io[h] = "started"
    /\ Notify(t, h)
    /\ UNCHANGED <<entityVars, handlerVars, chgVars, m_acceptor, accepts, m_io_handlers,
                   starts, errors, stopVars>>

handle_read_mutSilent(h) ==
    /\ pc[RunThread].at = "idle"
    /\ read_again(h) \/ read_over(h)
    /\ UNCHANGED <<entityVars, chgVars, m_acceptor, accepts, m_io_handlers, pc, starts,
                   errors, stopVars>>

handle_read(h) ==
    /\ pc[RunThread].at = "idle"
    /\ \/ read_again(h) /\ UNCHANGED pc
       \/ read_over(h) /\ Notify(RunThread, h)
    /\ UNCHANGED <<entityVars, chgVars, m_acceptor, accepts, m_io_handlers, starts, errors, stopVars>>

\* Bound: no more connections than Handler has elements.
HandlerLeft == Cardinality({i \in DOMAIN accepts : accepts[i] = "ready"})
                   < Cardinality({h \in Handler : io[h] = "none"})

\* The kernel: a connection arrives, an accept fails, a read ends.
connection_arrives(i) ==
    /\ accepts[i] = "pending"
    /\ HandlerLeft
    /\ accepts' = [accepts EXCEPT ![i] = "ready"]
    /\ UNCHANGED <<entityVars, handlerVars, chgVars, m_acceptor, m_io_handlers, pc, starts,
                   errors, stopVars>>

accept_fails(i) ==
    /\ accepts[i] = "pending" /\ errors < MaxErrors
    /\ errors' = errors + 1
    /\ accepts' = [accepts EXCEPT ![i] = "failed"]
    /\ UNCHANGED <<entityVars, handlerVars, chgVars, m_acceptor, m_io_handlers, pc, starts, stopVars>>

kernel_read(h) ==
    /\ read_ends(h)
    /\ UNCHANGED <<entityVars, chgVars, m_acceptor, accepts, m_io_handlers, pc, starts,
                   errors, stopVars>>

-----------------------------------------------------------------------------

AppStep(t) == \/ start(t) \/ app_stop(t)
              \/ \E h \in Handler : app_start_io(t, h) \/ app_stop_io(t, h)

InCall(p) == \/ open_acceptor(p) \/ stop(p) \/ stop_copy(p) \/ stop_loop(p)
             \/ stop_close(p) \/ notify_close(p) \/ notify_erase(p)

InAccept == push_handler \/ announce \/ start_accept

RunStep == \/ \E i \in DOMAIN accepts : handle_accept(i) \/ handle_accept_error(i)
           \/ \E h \in Handler : handle_read(h)

KernelStep == \/ \E i \in DOMAIN accepts : connection_arrives(i) \/ accept_fails(i)
              \/ \E h \in Handler : kernel_read(h)

Next == \/ \E t \in Threads : AppStep(t)
        \/ \E p \in Procs : InCall(p)
        \/ InAccept
        \/ RunStep
        \/ KernelStep

Spec == Init /\ [][Next]_vars

\* Threads inside a call go on and the run thread runs the handlers that are
\* ready.  Neither the application nor the peers need to do anything.
Fairness ==
    /\ \A p \in Procs : WF_vars(InCall(p))
    /\ WF_vars(InAccept)
    /\ WF_vars(\E i \in DOMAIN accepts : handle_accept(i) \/ handle_accept_error(i))
    /\ \A h \in Handler : WF_vars(handle_read(h) /\ read[h] = "failed")

FairSpec == Spec /\ Fairness

-----------------------------------------------------------------------------
(* Properties.                                                             *)

Stored(h) == Contains(m_io_handlers, h)

\* The container holds each live connection once: one that is not closed is
\* there from push_back on, one that is closed is on its way out in some
\* thread's notify_me, however stop, stop_io and read errors interleave.
ContainerExact ==
    /\ IsInjective(m_io_handlers)
    /\ \A h \in Handler :
         /\ io[h] \in {"created", "started"} =>
              \/ Stored(h)
              \/ pc[RunThread].at = "push" /\ pc[RunThread].h = h
         /\ io[h] = "closed" /\ Stored(h) =>
              \E p \in Procs : pc[p].at = "erase" /\ pc[p].h = h

\* Types are kept, and the container is exact: appended by the accept handler,
\* erased by notify_me in whichever thread ends a connection.
AcceptorInv == TypeOK /\ ContainerExact

\* Every connection the application started before stop() is closed by the
\* time stop() closes the listening socket, although each stop_io erases from
\* the container that stop() walks through.
StopClosesStarted ==
    \A p \in Procs : pc[p].at = "close" => \A h \in must[p] : io[h] = "closed"

\* A started acceptor is never deaf: an accept is outstanding, or a thread is
\* on its way to post one or to stop.
NeverDeaf ==
    m_started => \/ accepts # << >>
                 \/ \E p \in Procs : pc[p].at \in {"open", "stop", "push", "chg_true",
                                                   "start_accept"}

\* A connection whose read failed leaves the container and is reported.
LostIsReported ==
    \A h \in Handler : read[h] = "failed" ~> ~Stored(h) /\ down[h] > 0

\* A stopped acceptor that is not started again ends up with its listening
\* socket closed and no accept outstanding, so that it can be destroyed; unless a
\* stop() came between the exchange of the flag in start() and the opening of the
\* socket, which nothing closes then.
StopReleases ==
    (~m_started /\ starts = MaxStarts)
        ~> (overlapped \/ (m_acceptor = "closed" /\ accepts = << >>))

=============================================================================
