------------------------------- MODULE NetIp -------------------------------
(***************************************************************************)
(* net_ip.hpp with basic_net_entity.hpp and component/worker.hpp: the      *)
(* containers that keep net entities alive, the mutex that guards them,    *)
(* the weak handles of the application, and the worker thread that runs    *)
(* handlers until it is stopped or has nothing left to do.                 *)
(*                                                                         *)
(* A net entity is reduced to its started flag, its outstanding accept,    *)
(* resolve, connect or timer, and its connection: see TcpAcceptor,         *)
(* TcpConnector and UdpEntityIo, whose stop is one step here.  The state   *)
(* change callback, and the error callback of stop, may call remove on the *)
(* entity.                                                                 *)
(* An access to a container is one step, also the unguarded push_back of a *)
(* UDP entity, which in the code is a data race.                           *)
(***************************************************************************)
EXTENDS Naturals, FiniteSets, EraseWhere, SequencesExt

CONSTANTS Acceptors, Connectors, Udps,   \* the entities the application makes
          Threads, RunThread,
          MaxMade                        \* bound: entities made in one behaviour

ASSUME RunAssumption == RunThread \notin Threads

VARIABLES m_acceptors, m_connectors, m_udp_entities,   \* the containers
          m_mutex,     \* the thread that holds it, or Free
          posted,      \* UDP entities whose insertion is posted, in order
          made,        \* entities made so far
          m_started,   \* entities whose started flag is set
          used,        \* entities started so far (bound: each one once)
          op,          \* op[e]: the operation [kind, st] that is to get a connection
          io,          \* io[e]: the connection, or the UDP entity's own io
          held,        \* entities that refer to their connection, as it does to them
          pc,          \* where each thread is: [at, e, todo]
          due,         \* due[t]: started and listed when t's stop_all took the mutex
          m_wg,        \* the work guard is held
          m_ioc        \* "running", "stopped" (io_context::stop), "returned" (from run)

containers == <<m_acceptors, m_connectors, m_udp_entities>>
workerVars == <<m_wg, m_ioc>>
netVars == <<op, io, held>>
vars == <<containers, m_mutex, posted, made, m_started, used, netVars, pc, due,
          workerVars>>

Entity == Acceptors \cup Connectors \cup Udps
Procs  == Threads \cup {RunThread}
Free   == "free"
ASSUME FreeAssumption == Free \notin Procs
None   == "none"
Idle   == [at |-> "idle", e |-> None, todo |-> << >>]

NoOp   == [kind |-> "none", st |-> "none"]
OpType == {NoOp} \cup [kind : {"accept", "connect", "wait"},
                       st : {"pending", "done", "failed"}]
\* "over": the read is, and its handler is queued; "closed": the handler has run.
IoType == {"none", "created", "reading", "over", "closed"}

PcAt == {"idle", "callback", "remove", "callback_remove", "stop_all", "join"}

TypeOK ==
    /\ m_acceptors \in Seq(Acceptors) /\ m_connectors \in Seq(Connectors)
    /\ m_udp_entities \in Seq(Udps) /\ posted \in Seq(Udps)
    /\ m_mutex \in Procs \cup {Free}
    /\ made \subseteq Entity /\ m_started \subseteq made /\ used \subseteq made
    /\ op \in [Entity -> OpType] /\ io \in [Entity -> IoType] /\ held \subseteq Entity
    /\ pc \in [Procs -> [at : PcAt, e : Entity \cup {None}, todo : Seq(Entity)]]
    /\ due \in [Threads -> SUBSET Entity]
    /\ m_wg \in BOOLEAN /\ m_ioc \in {"running", "stopped", "returned"}

Init ==
    /\ m_acceptors = << >> /\ m_connectors = << >> /\ m_udp_entities = << >>
    /\ m_mutex = Free
    /\ posted = << >> /\ made = {} /\ m_started = {} /\ used = {}
    /\ op = [e \in Entity |-> NoOp] /\ io = [e \in Entity |-> "none"] /\ held = {}
    /\ pc = [p \in Procs |-> Idle]
    /\ due = [t \in Threads |-> {}]
    /\ m_wg = TRUE /\ m_ioc = "running"

Listed(e) == Contains(m_acceptors \o m_connectors \o m_udp_entities, e)

InCallback(p, e) == pc[p].e = e /\ pc[p].at \in {"callback", "callback_remove"}

\* A handle is valid while the entity is in a container, in the handler that is
\* to insert it, in the handler of an operation or a read, in a call in progress,
\* or referred to by a connection it refers to.
is_valid(e) == \/ Listed(e) \/ Contains(posted, e) \/ op[e] # NoOp
               \/ io[e] \in {"reading", "over"} \/ e \in held
               \/ \E p \in Procs : InCallback(p, e)

-----------------------------------------------------------------------------
(* Making and removing entities.                                           *)

CanMake(e) == e \notin made /\ Cardinality(made) < MaxMade

make_tcp_acceptor(t, e) ==
    /\ pc[t].at = "idle" /\ CanMake(e) /\ m_mutex = Free
    /\ made' = made \cup {e}
    /\ m_acceptors' = Append(m_acceptors, e)
    /\ UNCHANGED <<m_connectors, m_udp_entities, m_mutex, posted, m_started, used,
                   netVars, pc, due, workerVars>>

make_tcp_connector(t, e) ==
    /\ pc[t].at = "idle" /\ CanMake(e) /\ m_mutex = Free
    /\ made' = made \cup {e}
    /\ m_connectors' = Append(m_connectors, e)
    /\ UNCHANGED <<m_acceptors, m_udp_entities, m_mutex, posted, m_started, used,
                   netVars, pc, due, workerVars>>

\* A UDP entity is inserted by the run thread, later, without the mutex.
make_udp_unicast(t, e) ==
    /\ pc[t].at = "idle" /\ CanMake(e)
    /\ made' = made \cup {e}
    /\ posted' = Append(posted, e)
    /\ UNCHANGED <<containers, m_mutex, m_started, used, netVars, pc, due, workerVars>>

Running == m_ioc = "running" /\ pc[RunThread].at = "idle"

insert_udp ==
    /\ Running /\ posted # << >>
    /\ m_udp_entities' = Append(m_udp_entities, Head(posted))
    /\ posted' = Tail(posted)
    /\ UNCHANGED <<m_acceptors, m_connectors, m_mutex, made, m_started, used, netVars,
                   pc, due, workerVars>>

Without(s, e) == EraseWhere(s, {e})

app_remove(t, e) ==
    /\ pc[t].at = "idle" /\ e \in made
    /\ pc' = [pc EXCEPT ![t].at = "remove", ![t].e = e]
    /\ UNCHANGED <<containers, m_mutex, posted, made, m_started, used, netVars, due,
                   workerVars>>

Removing(p) == pc[p].at \in {"remove", "callback_remove"}

\* A connection that only its callback refers to goes with it.
Leave(p) ==
    io' = [e \in Entity |->
             IF p = RunThread /\ pc[p].e = e /\ e \in Connectors \ held /\ io[e] = "created"
               THEN "none" ELSE io[e]]

\* remove, with a handle that may be expired, waits for the mutex: for ever, in a
\* callback that stop_all called.
remove(p) ==
    /\ Removing(p) /\ m_mutex = Free
    /\ m_acceptors' = Without(m_acceptors, pc[p].e)
    /\ m_connectors' = Without(m_connectors, pc[p].e)
    /\ m_udp_entities' = Without(m_udp_entities, pc[p].e)
    /\ pc' = [pc EXCEPT ![p] = Idle]
    /\ Leave(p)
    /\ UNCHANGED <<m_mutex, posted, made, m_started, used, op, held, due, workerVars>>

remove_all(t) ==
    /\ pc[t].at = "idle" /\ m_mutex = Free
    /\ m_acceptors' = << >> /\ m_connectors' = << >> /\ m_udp_entities' = << >>
    /\ UNCHANGED <<m_mutex, posted, made, m_started, used, netVars, pc, due,
                   workerVars>>

-----------------------------------------------------------------------------
(* Starting and stopping entities.                                         *)

Pending(k) == [kind |-> k, st |-> "pending"]
Failed(k)  == [kind |-> k, st |-> "failed"]

\* The socket cannot be opened, and the entity stops; or the first accept, resolve
\* or connect is on its way, or the UDP entity is open.
start(t, e) ==
    /\ pc[t].at = "idle" /\ e \in made \ used /\ is_valid(e)
    /\ used' = used \cup {e}
    /\ \/ e \notin Connectors /\ UNCHANGED <<m_started, op, io>>
       \/ /\ m_started' = m_started \cup {e}
          /\ \/ /\ e \in Acceptors /\ UNCHANGED io
                /\ op' = [op EXCEPT ![e] = Pending("accept")]
             \/ /\ e \in Connectors /\ UNCHANGED io
                /\ \E k \in {"wait", "connect"} : op' = [op EXCEPT ![e] = Pending(k)]
             \/ /\ e \in Udps /\ UNCHANGED op
                /\ io' = [io EXCEPT ![e] = "created"]
    /\ UNCHANGED <<containers, m_mutex, posted, made, held, pc, due, workerVars>>

\* What the entity's stop does to its connection: a read is aborted.  One that was not
\* started is left alone by an acceptor and a UDP entity, and destroyed with a
\* connector's reference, unless its callback is running.
StopIo(e) ==
    /\ io' = [io EXCEPT ![e] =
                CASE @ = "reading" -> "over"
                  [] /\ @ = "created" /\ e \in Connectors
                     /\ ~InCallback(RunThread, e)           -> "none"
                  [] OTHER -> @]
    /\ held' = IF e \in Connectors \/ io[e] \in {"reading", "over"}
                 THEN held \ {e} ELSE held

StopEntity_mutNoAbort(e) == m_started' = m_started \ {e} /\ UNCHANGED netVars

\* The entity's stop.  An operation is aborted, or was already over.
StopEntity(e) ==
    /\ m_started' = m_started \ {e}
    /\ op' = [op EXCEPT ![e].st = IF @ = "pending" THEN "failed" ELSE @]
    /\ StopIo(e)

\* stop through a handle, up to the state change callback.
stop(t, e) ==
    /\ pc[t].at = "idle" /\ is_valid(e) /\ e \in m_started
    /\ StopEntity(e)
    /\ pc' = [pc EXCEPT ![t].at = "callback", ![t].e = e]
    /\ UNCHANGED <<containers, m_mutex, posted, made, used, due, workerVars>>

\* The callback does nothing (more), or calls remove.
callback(p) ==
    /\ pc[p].at = "callback"
    /\ \/ pc' = [pc EXCEPT ![p].at = "callback_remove"] /\ UNCHANGED io
       \/ /\ m_mutex # p
          /\ pc' = [pc EXCEPT ![p] = Idle]
          /\ Leave(p)
       \/ /\ m_mutex = p
          /\ pc' = [pc EXCEPT ![p].at = "stop_all", ![p].e = None]
          /\ UNCHANGED io
    /\ UNCHANGED <<containers, m_mutex, posted, made, m_started, used, op, held, due,
                   workerVars>>

\* How the end of a connection leaves it: erased by the acceptor; a connector stops,
\* and drops it, unless it is already stopped.
EndIo(e) ==
    /\ held' = IF e \in Acceptors \/ e \in m_started THEN held \ {e} ELSE held
    /\ io' = [io EXCEPT ![e] = IF e \in held' THEN "closed" ELSE "none"]
    /\ m_started' = IF e \in Acceptors THEN m_started ELSE m_started \ {e}
    /\ UNCHANGED op

\* start_io, by whoever has the connection, also of a stopped entity.  A TCP connection
\* may be lost already: it ends in this thread.
start_io(p, e) ==
    /\ \/ p \in Threads /\ pc[p].at = "idle" /\ (e \in held \/ (e \in Udps /\ is_valid(e)))
       \/ p = RunThread /\ pc[p].at = "callback" /\ pc[p].e = e
    /\ io[e] = "created"
    /\ \/ /\ io' = [io EXCEPT ![e] = "reading"]
          /\ UNCHANGED <<m_started, op, held, pc>>
       \/ /\ e \notin Udps /\ EndIo(e)
          /\ pc' = [pc EXCEPT ![p].at = "callback", ![p].e = e]
    /\ UNCHANGED <<containers, m_mutex, posted, made, used, due, workerVars>>

stop_all(t) ==
    /\ pc[t].at = "idle" /\ m_mutex = Free
    /\ m_mutex' = t
    /\ due' = [due EXCEPT ![t] = {e \in m_started : Listed(e)}]
    /\ pc' = [pc EXCEPT ![t].at = "stop_all",
                        ![t].todo = m_udp_entities \o m_connectors \o m_acceptors]
    /\ UNCHANGED <<containers, posted, made, m_started, used, netVars, workerVars>>

stop_next_mutFirstOnly(t) ==
    /\ pc[t].at = "stop_all" /\ pc[t].todo # << >>
    /\ LET e == Head(pc[t].todo) IN
         IF e \in m_started
           THEN /\ StopEntity(e)
                /\ pc' = [pc EXCEPT ![t].at = "callback", ![t].e = e, ![t].todo = << >>]
           ELSE /\ pc' = [pc EXCEPT ![t].todo = Tail(@)]
                /\ UNCHANGED <<m_started, netVars>>
    /\ UNCHANGED <<containers, m_mutex, posted, made, used, due, workerVars>>

\* One round of one of the three loops, with the mutex held.
stop_next(t) ==
    /\ pc[t].at = "stop_all" /\ pc[t].todo # << >>
    /\ LET e == Head(pc[t].todo) IN
         IF e \in m_started
           THEN /\ StopEntity(e)
                /\ pc' = [pc EXCEPT ![t].at = "callback", ![t].e = e, ![t].todo = Tail(@)]
           ELSE /\ pc' = [pc EXCEPT ![t].todo = Tail(@)]
                /\ UNCHANGED <<m_started, netVars>>
    /\ UNCHANGED <<containers, m_mutex, posted, made, used, due, workerVars>>

stop_all_returns_mutKeepLock(t) ==
    /\ pc[t].at = "stop_all" /\ pc[t].todo = << >>
    /\ due' = [due EXCEPT ![t] = {}]
    /\ pc' = [pc EXCEPT ![t] = Idle]
    /\ UNCHANGED <<containers, m_mutex, posted, made, m_started, used, netVars,
                   workerVars>>

stop_all_returns(t) ==
    /\ pc[t].at = "stop_all" /\ pc[t].todo = << >>
    /\ m_mutex' = Free
    /\ due' = [due EXCEPT ![t] = {}]
    /\ pc' = [pc EXCEPT ![t] = Idle]
    /\ UNCHANGED <<containers, posted, made, m_started, used, netVars, workerVars>>

-----------------------------------------------------------------------------
(* The run thread.                                                         *)

\* The kernel ends an accept, a resolve or a connect, or the timer expires.
\* Bound: an acceptor has one connection at a time.
op_ends(e) ==
    /\ op[e].st = "pending"
    /\ \E st \in {"done", "failed"} :
         /\ st = "done" /\ op[e].kind = "accept" => io[e] = "none" /\ e \notin held
         /\ op' = [op EXCEPT ![e].st = st]
    /\ UNCHANGED <<containers, m_mutex, posted, made, m_started, used, io, held, pc,
                   due, workerVars>>

\* The peer is gone, the message handler wants no more, or stop_io was called.
read_ends(e) ==
    /\ io[e] = "reading"
    /\ io' = [io EXCEPT ![e] = "over"]
    /\ UNCHANGED <<containers, m_mutex, posted, made, m_started, used, op, held, pc,
                   due, workerVars>>

\* A connection was accepted or made, also when the entity is stopped by now.
NewConnection(e, next) ==
    /\ op' = [op EXCEPT ![e] = next]
    /\ io' = [io EXCEPT ![e] = "created"]
    /\ held' = held \cup {e}
    /\ pc' = [pc EXCEPT ![RunThread].at = "callback", ![RunThread].e = e]
    /\ UNCHANGED m_started

\* The next accept is posted after the callback; on a closed acceptor it fails.
handle_accept(e) ==
    \/ /\ op[e].st = "done"
       /\ NewConnection(e, IF e \in m_started THEN Pending("accept") ELSE Failed("accept"))
    \/ /\ op[e].st = "failed" /\ e \in m_started
       /\ m_started' = m_started \ {e}
       /\ op' = [op EXCEPT ![e] = NoOp]
       /\ StopIo(e)
       /\ pc' = [pc EXCEPT ![RunThread].at = "callback", ![RunThread].e = e]
    \/ /\ op[e].st = "failed" /\ e \notin m_started
       /\ op' = [op EXCEPT ![e] = NoOp]
       /\ UNCHANGED <<m_started, io, held, pc>>

\* A finished resolve or an expired timer goes on to connect, stopped or not.
handle_wait(e) ==
    /\ op' = [op EXCEPT ![e] = IF @.st = "done" THEN Pending("connect") ELSE NoOp]
    /\ m_started' = IF op[e].st = "failed" THEN m_started \ {e} ELSE m_started
    /\ UNCHANGED <<io, held, pc>>

handle_connect_mutNoCheck(e) ==
    \/ op[e].st = "done" /\ NewConnection(e, NoOp)
    \/ /\ op[e].st = "failed"
       /\ op' = [op EXCEPT ![e] = Pending("wait")]
       /\ UNCHANGED <<m_started, io, held, pc>>

\* A failed connect is tried again later, if the connector is started.
handle_connect(e) ==
    \/ op[e].st = "done" /\ NewConnection(e, NoOp)
    \/ /\ op[e].st = "failed"
       /\ op' = [op EXCEPT ![e] = IF e \in m_started THEN Pending("wait") ELSE NoOp]
       /\ UNCHANGED <<m_started, io, held, pc>>

handle_op(e) ==
    /\ Running /\ op[e].st \in {"done", "failed"}
    /\ \/ op[e].kind = "accept" /\ handle_accept(e)
       \/ op[e].kind = "wait" /\ handle_wait(e)
       \/ op[e].kind = "connect" /\ handle_connect(e)
    /\ UNCHANGED <<containers, m_mutex, posted, made, used, due, workerVars>>

\* The handler of a read that is over; a connector or a UDP entity stops.
handle_read(e) ==
    /\ Running /\ io[e] = "over"
    /\ EndIo(e)
    /\ pc' = [pc EXCEPT ![RunThread].at = "callback", ![RunThread].e = e]
    /\ UNCHANGED <<containers, m_mutex, posted, made, used, due, workerVars>>

\* io_context::run returns when it was stopped, or is out of work.
run_returns ==
    /\ pc[RunThread].at = "idle" /\ m_ioc # "returned"
    /\ \/ m_ioc = "stopped"
       \/ ~m_wg /\ posted = << >>
          /\ \A e \in Entity : op[e] = NoOp /\ io[e] \notin {"reading", "over"}
    /\ m_ioc' = "returned"
    /\ UNCHANGED <<containers, m_mutex, posted, made, m_started, used, netVars, pc, due,
                   m_wg>>

\* worker::stop and worker::reset, up to the join.
worker_stop(t) ==
    /\ pc[t].at = "idle" /\ m_ioc = "running" /\ \A u \in Threads : pc[u].at # "join"
    /\ m_ioc' = "stopped"
    /\ pc' = [pc EXCEPT ![t].at = "join"]
    /\ UNCHANGED <<containers, m_mutex, posted, made, m_started, used, netVars, due,
                   m_wg>>

worker_reset(t) ==
    /\ pc[t].at = "idle" /\ m_ioc = "running" /\ \A u \in Threads : pc[u].at # "join"
    /\ m_wg' = FALSE
    /\ pc' = [pc EXCEPT ![t].at = "join"]
    /\ UNCHANGED <<containers, m_mutex, posted, made, m_started, used, netVars, due,
                   m_ioc>>

join(t) ==
    /\ pc[t].at = "join" /\ m_ioc = "returned"
    /\ pc' = [pc EXCEPT ![t] = Idle]
    /\ UNCHANGED <<containers, m_mutex, posted, made, m_started, used, netVars, due,
                   workerVars>>

-----------------------------------------------------------------------------

AppStep(t) ==
    \/ \E e \in Acceptors : make_tcp_acceptor(t, e)
    \/ \E e \in Connectors : make_tcp_connector(t, e)
    \/ \E e \in Udps : make_udp_unicast(t, e)
    \/ \E e \in Entity : app_remove(t, e) \/ start(t, e) \/ start_io(t, e) \/ stop(t, e)
    \/ remove_all(t) \/ stop_all(t) \/ worker_stop(t) \/ worker_reset(t)

InCall(p) == \/ remove(p) \/ callback(p)
             \/ p \in Threads /\ (stop_next(p) \/ stop_all_returns(p) \/ join(p))

RunStep == insert_udp \/ (\E e \in Entity : handle_op(e) \/ handle_read(e)) \/ run_returns

Next == \/ \E t \in Threads : AppStep(t)
        \/ \E p \in Procs : InCall(p)
        \/ RunStep
        \/ \E e \in Entity : start_io(RunThread, e) \/ op_ends(e) \/ read_ends(e)

Spec == Init /\ [][Next]_vars

\* Threads inside a call go on, one that waits for the mutex gets it in the end
\* (hence strong fairness), the run thread runs the handlers that are queued, and
\* resolves, connects and timers of a connector end; nobody need connect to an
\* acceptor or leave a connection.
Fairness == /\ \A t \in Threads : SF_vars(InCall(t))
            /\ SF_vars(RunStep \/ InCall(RunThread))
            /\ \A e \in Connectors : WF_vars(op_ends(e))

FairSpec == Spec /\ Fairness

-----------------------------------------------------------------------------
(* Properties.                                                             *)

\* A callback that stop_all calls, with the mutex held, and that calls remove:
\* the thread waits for itself.
SelfWait == \E t \in Threads : m_mutex = t /\ Removing(t)

\* An entity that was started, and inserted, when stop_all took the mutex is
\* stopped when stop_all has walked through the containers.
StopAllStops ==
    \A t \in Threads : pc[t].at = "stop_all" /\ pc[t].todo = << >> =>
        due[t] \cap m_started = {}

\* Types are kept, and stop_all leaves nothing started that it found started.
StopAllInv == TypeOK /\ StopAllStops

\* Whoever waits for the mutex gets it, unless a callback under stop_all called
\* remove.  (A callback that calls make_* or stop_all there locks up as well.)
WaitsEnd == \A p \in Procs : Removing(p) ~> (~Removing(p) \/ SelfWait)

\* The entity reads from a connection that its stop did not end: one made, or started,
\* after the stop.
Orphan(e) == e \notin m_started /\ io[e] = "reading"

\* reset returns once all entities are stopped, unless one is started again or reads
\* from a connection that its stop did not end: whatever else stop leaves behind, an
\* expired timer, a resolve, a connect or a queued accept, comes to an end.
ResetReturns ==
    \A t \in Threads : (pc[t].at = "join" /\ m_started = {})
        ~> (pc[t].at # "join" \/ m_started # {} \/ SelfWait \/ \E e \in Entity : Orphan(e))

\* With all entities stopped, one that was removed is destroyed and its handles
\* expire, as long as the run thread runs, unless it is left with a connection that
\* its stop did not end.
Reclaimed ==
    \A e \in Entity :
        (m_started = {} /\ e \in used /\ ~Listed(e) /\ ~Contains(posted, e))
          ~> (\/ ~is_valid(e) \/ m_started # {} \/ SelfWait \/ m_ioc # "running"
              \/ Orphan(e) \/ e \in held)

=============================================================================
