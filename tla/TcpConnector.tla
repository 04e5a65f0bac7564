---------------------------- MODULE TcpConnector ----------------------------
(***************************************************************************)
(* detail/tcp_connector.hpp: an active connect with name resolution,       *)
(* retries on a timer, and at most one tcp_io.  As in TcpAcceptor a call   *)
(* is split after every callback into the application and between the      *)
(* exchange of m_started and what depends on it.                           *)
(***************************************************************************)
EXTENDS TcpHandlers, SequencesExt

CONSTANTS Threads, RunThread,
          Resolve,        \* endpoints must be looked up (host and port given)
          ReconnTime,     \* m_reconn_time, in milliseconds
          MaxStarts       \* bound: start calls that succeed

ASSUME HandlerAssumption == Handler \subseteq Nat \ {0}   \* 0 is None
ASSUME RunAssumption == RunThread \notin Threads
ASSUME ParameterAssumption == Resolve \in BOOLEAN /\ ReconnTime \in Nat
ASSUME BoundAssumption == MaxStarts \in Nat

VARIABLES m_endpoints,     \* TRUE when the container of endpoints is not empty
          m_io_handler,    \* the tcp_io, or None
          m_shutting_down,
          ops,             \* outstanding resolves, connects and waits, [kind, st]
          pc,              \* where each thread is, [at, h]
          starts,          \* successful starts so far
          overlapped,      \* a start came between a stop's exchange and its close
          aborted          \* an assertion has ended the program

connVars == <<m_endpoints, m_io_handler, m_shutting_down>>
histVars == <<starts, overlapped>>
vars == <<entityVars, handlerVars, chgVars, connVars, ops, pc, histVars, aborted>>

Procs == Threads \cup {RunThread}
None  == 0

Idle == [at |-> "idle", h |-> None]
At(p, where) == pc' = [pc EXCEPT ![p].at = where]
Busy(p) == pc[p].at # "idle"

Kind == {"resolve", "connect", "timer"}
Op   == [kind : Kind, st : {"pending", "ready", "failed"}]

PcAt == {"idle", "start", "stop", "close", "entity_stop", "retry", "notify", "chg_false"}

TypeOK ==
    /\ HandlersTypeOK
    /\ m_endpoints \in BOOLEAN /\ m_shutting_down \in BOOLEAN
    /\ m_io_handler \in Handler \cup {None}
    /\ ops \in Seq(Op)
    /\ pc \in [Procs -> [at : PcAt, h : Handler \cup {None}]]
    /\ starts \in 0 .. MaxStarts /\ overlapped \in BOOLEAN /\ aborted \in BOOLEAN

Init ==
    /\ HandlersInit
    /\ m_endpoints = ~Resolve
    /\ m_io_handler = None /\ m_shutting_down = FALSE
    /\ ops = << >>
    /\ pc = [p \in Procs |-> Idle]
    /\ starts = 0 /\ overlapped = FALSE /\ aborted = FALSE

\* The operation o once it is over.
Ended(o, st) == [kind |-> o.kind, st |-> st]

\* The operations os, those like a member of which failed by operation_aborted.
Abort(os, which) == [i \in DOMAIN os |->
                       IF os[i] \in which THEN Ended(os[i], "failed") ELSE os[i]]

PendingOp(kind) == [kind |-> kind, st |-> "pending"]

\* The resolver's asynchronous make_endpoints.
make_endpoints == ops' = Append(ops, PendingOp("resolve"))

\* async_connect closes the socket it is given, and with it a connect pending.
start_connect(others) ==
    ops' = Append(Abort(others, {PendingOp("connect")}), PendingOp("connect"))

\* Dropping the last shared_ptr destroys a tcp_io that has no read posted.
Dropped(h) == IF h # None /\ io[h] = "created" THEN [io EXCEPT ![h] = "closed"] ELSE io

-----------------------------------------------------------------------------
(* start and stop.                                                         *)

start(t) ==
    /\ pc[t].at = "idle" /\ starts < MaxStarts
    /\ entity_start
    /\ starts' = starts + 1
    /\ overlapped' = (overlapped \/ \E p \in Procs : pc[p].at = "close")
    /\ At(t, "start")
    /\ UNCHANGED <<handlerVars, chgVars, connVars, ops, aborted>>

start_body(t) ==
    /\ pc[t].at = "start"
    /\ m_shutting_down' = FALSE
    /\ IF m_endpoints THEN start_connect(ops) ELSE make_endpoints
    /\ At(t, "idle")
    /\ UNCHANGED <<entityVars, handlerVars, chgVars, m_endpoints, m_io_handler, histVars, aborted>>

app_stop(t) ==
    /\ pc[t].at = "idle" /\ m_started
    /\ At(t, "stop")
    /\ UNCHANGED <<entityVars, handlerVars, chgVars, connVars, ops, histVars, aborted>>

stop(p) ==
    /\ pc[p].at = "stop"
    /\ \/ entity_stop /\ At(p, "close")
       \/ ~m_started /\ UNCHANGED m_started /\ pc' = [pc EXCEPT ![p] = Idle]
    /\ UNCHANGED <<handlerVars, chgVars, connVars, ops, histVars, aborted>>

\* What close() cancels: the resolve while there are no endpoints, the timer
\* only if there is no io handler, and, with the socket, a connect that is
\* pending or whose composed handler has not seen the socket closed yet.
Cancelled == {o \in Op :
    \/ o = PendingOp("resolve") /\ ~m_endpoints
    \/ o = PendingOp("timer") /\ m_io_handler = None
    \/ o.kind = "connect"}

close(p) ==
    /\ pc[p].at = "close"
    /\ m_shutting_down' = TRUE
    /\ m_io_handler' = None
    /\ IF m_io_handler # None /\ io[m_io_handler] = "started"
         THEN close_io(m_io_handler)
         ELSE io' = Dropped(m_io_handler) /\ UNCHANGED read
    /\ ops' = Abort(ops, Cancelled)
    /\ pc' = [pc EXCEPT ![p] = Idle]
    /\ UNCHANGED <<entityVars, chgVars, m_endpoints, histVars, aborted>>

-----------------------------------------------------------------------------
(* Handlers of the run thread.                                             *)

Handling(i, kind) ==
    pc[RunThread].at = "idle" /\ ops[i].kind = kind /\ ops[i].st # "pending"

handle_resolve(i) ==
    /\ Handling(i, "resolve")
    /\ \/ /\ ops[i].st = "failed"
          /\ ops' = RemoveAt(ops, i)
          /\ At(RunThread, "entity_stop")
          /\ UNCHANGED m_endpoints
       \/ /\ ops[i].st = "ready"
          /\ m_endpoints' = TRUE
          /\ start_connect(RemoveAt(ops, i))
          /\ UNCHANGED pc
    /\ UNCHANGED <<entityVars, handlerVars, chgVars, m_io_handler, m_shutting_down, histVars, aborted>>

\* m_entity_common.stop() after an error was reported: the flag and no more.
stop_entity_only ==
    /\ pc[RunThread].at = "entity_stop"
    /\ m_started' = FALSE
    /\ pc' = [pc EXCEPT ![RunThread] = Idle]
    /\ UNCHANGED <<handlerVars, chgVars, connVars, ops, histVars, aborted>>

\* A connect failed: the error is reported, retry decides what next.
handle_connect_error(i) ==
    /\ Handling(i, "connect") /\ ops[i].st = "failed"
    /\ ops' = RemoveAt(ops, i)
    /\ At(RunThread, "retry")
    /\ UNCHANGED <<entityVars, handlerVars, chgVars, connVars, histVars, aborted>>

retry_mutGiveUp ==
    /\ pc[RunThread].at = "retry"
    /\ At(RunThread, "idle")
    /\ UNCHANGED <<entityVars, handlerVars, chgVars, connVars, ops, histVars, aborted>>

retry_mutBoth ==
    /\ pc[RunThread].at = "retry"
    /\ At(RunThread, "idle")
    /\ IF ~m_started \/ m_shutting_down THEN UNCHANGED ops
         ELSE start_connect(Append(ops, PendingOp("timer")))
    /\ UNCHANGED <<entityVars, handlerVars, chgVars, connVars, histVars, aborted>>

retry_mutNoCheck ==
    /\ pc[RunThread].at = "retry"
    /\ At(RunThread, "idle")
    /\ ops' = Append(ops, PendingOp("timer"))
    /\ UNCHANGED <<entityVars, handlerVars, chgVars, connVars, histVars, aborted>>

\* expires_after cancels a wait that is pending; it may throw.  The wait is for
\* ReconnTime, and there is one whatever its value; how long it takes is not
\* modelled.
retry ==
    /\ pc[RunThread].at = "retry"
    /\ \/ /\ ~m_started \/ m_shutting_down
          /\ At(RunThread, "idle")
          /\ UNCHANGED ops
       \/ /\ m_started /\ ~m_shutting_down
          /\ At(RunThread, "idle")
          /\ ops' = Append(Abort(ops, {PendingOp("timer")}), PendingOp("timer"))
       \/ /\ m_started /\ ~m_shutting_down
          /\ At(RunThread, "entity_stop")
          /\ UNCHANGED ops
    /\ UNCHANGED <<entityVars, handlerVars, chgVars, connVars, histVars, aborted>>

handle_timer(i) ==
    /\ Handling(i, "timer")
    /\ \/ ops[i].st = "failed" /\ ops' = RemoveAt(ops, i)
       \/ ops[i].st = "ready" /\ start_connect(RemoveAt(ops, i))
    /\ UNCHANGED <<entityVars, handlerVars, chgVars, connVars, pc, histVars, aborted>>

\* Connected: the new tcp_io takes the place of whatever was there.
handle_connect(i) ==
    /\ Handling(i, "connect") /\ ops[i].st = "ready"
    /\ ops' = RemoveAt(ops, i)
    /\ \E h \in Handler :
         /\ io[h] = "none" /\ \A g \in Handler : g < h => io[g] # "none"
         /\ io' = [Dropped(m_io_handler) EXCEPT ![h] = "created"]
         /\ m_io_handler' = h
         /\ call_io_state_chg_cb(h, TRUE)
    /\ UNCHANGED <<entityVars, read, m_endpoints, m_shutting_down, pc, histVars, aborted>>

-----------------------------------------------------------------------------
(* notify_me, and the connection's own steps.                              *)

Notify(p, h) == pc' = [pc EXCEPT ![p] = [at |-> "notify", h |-> h]]

\* The assertion that the notifier is m_io_handler comes first; when it fails it
\* ends the program, or goes unnoticed where assertions are compiled out.
notify_close(p) ==
    /\ pc[p].at = "notify"
    /\ \/ /\ close_io(pc[p].h)
          /\ At(p, "chg_false")
          /\ UNCHANGED aborted
       \/ /\ pc[p].h # m_io_handler
          /\ aborted' = TRUE
          /\ UNCHANGED <<handlerVars, pc>>
    /\ UNCHANGED <<entityVars, chgVars, connVars, ops, histVars>>

notify_chg(p) ==
    /\ pc[p].at = "chg_false"
    /\ call_io_state_chg_cb(pc[p].h, FALSE)
    /\ pc' = [pc EXCEPT ![p] = [at |-> "stop", h |-> None]]
    /\ UNCHANGED <<entityVars, handlerVars, connVars, ops, histVars, aborted>>

app_start_io(t, h) ==
    /\ pc[t].at = "idle" /\ up[h] > 0
    /\ \/ start_io_ok(h) /\ UNCHANGED pc
       \/ start_io_lost(h) /\ Notify(t, h)
    /\ UNCHANGED <<entityVars, chgVars, connVars, ops, histVars, aborted>>

app_stop_io(t, h) ==
    /\ pc[t].at = "idle" /\ up[h] > 0 /\ io[h] = "started"
    /\ Notify(t, h)
    /\ UNCHANGED <<entityVars, handlerVars, chgVars, connVars, ops, histVars, aborted>>

handle_read_mutSilent(h) ==
    /\ pc[RunThread].at = "idle"
    /\ read_again(h) \/ read_over(h)
    /\ UNCHANGED <<entityVars, chgVars, connVars, ops, pc, histVars, aborted>>

handle_read(h) ==
    /\ pc[RunThread].at = "idle"
    /\ \/ read_again(h) /\ UNCHANGED pc
       \/ read_over(h) /\ Notify(RunThread, h)
    /\ UNCHANGED <<entityVars, chgVars, connVars, ops, histVars, aborted>>

\* Bound: no more connections than Handler has elements.
HandlerLeft ==
    Cardinality({i \in DOMAIN ops : ops[i] = [kind |-> "connect", st |-> "ready"]})
        < Cardinality({h \in Handler : io[h] = "none"})

\* The kernel, the resolver and the clock.
op_ends(i) ==
    /\ ops[i].st = "pending"
    /\ \E st \in {"ready", "failed"} :
         /\ st = "failed" => ops[i].kind # "timer"
         /\ st = "ready" /\ ops[i].kind = "connect" => HandlerLeft
         /\ ops' = [ops EXCEPT ![i] = Ended(@, st)]
    /\ UNCHANGED <<entityVars, handlerVars, chgVars, connVars, pc, histVars, aborted>>

kernel_read(h) ==
    /\ read_ends(h)
    /\ UNCHANGED <<entityVars, chgVars, connVars, ops, pc, histVars, aborted>>

-----------------------------------------------------------------------------

AppStep(t) == \/ start(t) \/ app_stop(t)
              \/ \E h \in Handler : app_start_io(t, h) \/ app_stop_io(t, h)

InCall(p) == start_body(p) \/ stop(p) \/ close(p) \/ notify_close(p) \/ notify_chg(p)

InHandler == stop_entity_only \/ retry

RunOp(i) == \/ handle_resolve(i) \/ handle_connect_error(i)
            \/ handle_connect(i) \/ handle_timer(i)

Step == \/ \E t \in Threads : AppStep(t)
        \/ \E p \in Procs : InCall(p)
        \/ InHandler
        \/ \E i \in DOMAIN ops : RunOp(i) \/ op_ends(i)
        \/ \E h \in Handler : handle_read(h) \/ kernel_read(h)

Next == ~aborted /\ Step

Spec == Init /\ [][Next]_vars

\* Threads inside a call go on, the run thread runs every handler that is
\* ready, and a resolve, a connect or a wait does not take for ever.
Fairness ==
    /\ \A p \in Procs : WF_vars(~aborted /\ InCall(p))
    /\ WF_vars(~aborted /\ InHandler)
    /\ SF_vars(~aborted /\ \E i \in DOMAIN ops : RunOp(i))
    /\ WF_vars(~aborted /\ \E i \in DOMAIN ops : op_ends(i))
    /\ \A h \in Handler : SF_vars(~aborted /\ handle_read(h) /\ read[h] = "failed")

FairSpec == Spec /\ Fairness

-----------------------------------------------------------------------------
(* Properties.                                                             *)

Alive(h) == h # None /\ io[h] # "closed"

\* A started connector is never stuck: it is resolving, connecting or waiting
\* to, or it has a connection, or a thread is in the middle of a call.  The one
\* exception is a start() that came between the exchange of the flag in a stop()
\* and its close(), which then undoes what the start has begun.
NeverStalled ==
    m_started /\ ~overlapped => \/ ops # << >>
                                \/ Alive(m_io_handler)
                                \/ \E p \in Procs : Busy(p)

\* Until it is started again, a connector runs one chain of attempts, which has
\* ended when there is a connection.
OneChain == starts <= 1 =>
    /\ Len(ops) <= 1
    /\ \A h \in Handler : up[h] > 0 => ops = << >> /\ \A g \in Handler : up[g] > 0 => g = h

\* Types are kept, and resolve, connect and retry follow one another in one chain.
ConnectorInv == TypeOK /\ OneChain

\* With a reconnect time, a failed connect of a connector that stays started is
\* followed by another attempt.
RetryContinues == ReconnTime > 0 =>
    ((m_started /\ \E i \in DOMAIN ops : ops[i].kind = "connect" /\ ops[i].st = "failed")
        ~> (\/ \E i \in DOMAIN ops : ops[i].kind = "connect" /\ ops[i].st = "pending"
            \/ ~m_started \/ overlapped \/ aborted))

\* After the last stop the chain of attempts comes to an end, even if it is
\* the wait or the resolve, already over, that the stop did not cancel.
StopEndsAttempts == (~m_started /\ starts = MaxStarts) ~> (ops = << >> \/ aborted)

\* A connection whose read failed is reported to the application, unless the
\* assertion of notify_me ends the program.
LostIsReported == \A h \in Handler : read[h] = "failed" ~> (down[h] > 0 \/ aborted)

-----------------------------------------------------------------------------

\* The assertion at the head of notify_me: "iop == m_io_handler".
AssertionHolds == ~aborted

=============================================================================
