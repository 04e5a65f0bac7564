---------------------------- MODULE NetIpProofs ----------------------------
(***************************************************************************)
(* Proofs about NetIp, for every set of entities and of threads.           *)
(***************************************************************************)
EXTENDS NetIp, SequenceLemmas

\* The inductive strengthening of StopAllStops.  The thread that holds the mutex
\* is in stop_all, or in a callback that stop_all called, and every entity it
\* found started that is started still is ahead of it.
WalkOf(t) ==
    /\ m_mutex = t =>
         /\ pc[t].at \in {"stop_all", "callback", "callback_remove"}
         /\ due[t] \subseteq used
         /\ \A e \in due[t] \cap m_started : Contains(pc[t].todo, e)
    /\ pc[t].at = "stop_all" => m_mutex = t

WalkInv == m_started \subseteq used /\ \A t \in Threads : WalkOf(t)

IInv == TypeOK /\ WalkInv

-----------------------------------------------------------------------------
(* How the actions move a thread.                                          *)

PcType == [at : PcAt, e : Entity \cup {None}, todo : Seq(Entity)]

NetType == op \in [Entity -> OpType] /\ io \in [Entity -> IoType] /\ held \subseteq Entity

USE DEF netVars

\* The step of one thread leaves the others where they are.
Others(p) == \A q \in Procs : q # p => pc'[q] = pc[q]

LEMMA MoveIdle ==
    ASSUME pc \in [Procs -> PcType], NEW p \in Procs, pc' = [pc EXCEPT ![p] = Idle]
    PROVE  pc' \in [Procs -> PcType] /\ Others(p) /\ pc'[p].at = "idle"
  <1>1. Idle \in PcType /\ Idle.at = "idle"
    BY DEF Idle, PcType, PcAt, None
  <1> QED
    BY <1>1 DEF Others

LEMMA MoveAt ==
    ASSUME pc \in [Procs -> PcType], NEW p \in Procs, NEW w \in PcAt,
           pc' = [pc EXCEPT ![p].at = w]
    PROVE  /\ pc' \in [Procs -> PcType] /\ Others(p)
           /\ pc'[p].at = w /\ pc'[p].todo = pc[p].todo
  BY DEF PcType, Others

LEMMA MoveEntity ==
    ASSUME pc \in [Procs -> PcType], NEW p \in Procs, NEW w \in PcAt,
           NEW e \in Entity \cup {None}, pc' = [pc EXCEPT ![p].at = w, ![p].e = e]
    PROVE  /\ pc' \in [Procs -> PcType] /\ Others(p)
           /\ pc'[p].at = w /\ pc'[p].todo = pc[p].todo
  BY DEF PcType, Others

LEMMA MoveWalk ==
    ASSUME pc \in [Procs -> PcType], NEW p \in Procs, NEW s \in Seq(Entity),
           pc' = [pc EXCEPT ![p].at = "stop_all", ![p].todo = s]
    PROVE  /\ pc' \in [Procs -> PcType] /\ Others(p)
           /\ pc'[p].at = "stop_all" /\ pc'[p].todo = s
  BY DEF PcType, Others, PcAt

LEMMA MoveOn ==
    ASSUME pc \in [Procs -> PcType], NEW p \in Procs, pc[p].todo # << >>,
           pc' = [pc EXCEPT ![p].todo = Tail(@)]
    PROVE  /\ pc' \in [Procs -> PcType] /\ Others(p)
           /\ pc'[p].at = pc[p].at /\ pc'[p].todo = Tail(pc[p].todo)
  <1>1. Tail(pc[p].todo) \in Seq(Entity)
    BY DEF PcType
  <1> QED
    BY <1>1 DEF PcType, Others

LEMMA MoveCallback ==
    ASSUME pc \in [Procs -> PcType], NEW p \in Procs, pc[p].todo # << >>, NEW e \in Entity,
           pc' = [pc EXCEPT ![p].at = "callback", ![p].e = e, ![p].todo = Tail(@)]
    PROVE  /\ pc' \in [Procs -> PcType] /\ Others(p)
           /\ pc'[p].at = "callback" /\ pc'[p].todo = Tail(pc[p].todo)
  <1>1. Tail(pc[p].todo) \in Seq(Entity)
    BY DEF PcType
  <1> QED
    BY <1>1 DEF PcType, Others, PcAt

-----------------------------------------------------------------------------
(* What a step leaves alone.                                               *)

LEMMA PcKnown == TypeOK => /\ pc \in [Procs -> PcType] /\ RunThread \in Procs
                           /\ \A t \in Threads : t \in Procs
  BY DEF TypeOK, PcType, Procs

\* A step that starts nothing and leaves the thread that holds the mutex in place.
LEMMA WalkKept ==
    ASSUME TypeOK, WalkInv, NEW p \in Procs, Others(p), p \in Threads => WalkOf(p)',
           m_started' \subseteq m_started, used' = used,
           \A t \in Threads : t # p => due'[t] = due[t] /\ (m_mutex' = t <=> m_mutex = t)
    PROVE  WalkInv'
  <1>1. ASSUME NEW t \in Threads, t # p PROVE WalkOf(t)'
    <2>1. pc'[t] = pc[t] /\ WalkOf(t) /\ due'[t] = due[t] /\ (m_mutex' = t <=> m_mutex = t)
      BY <1>1, PcKnown DEF Others, WalkInv
    <2> QED
      BY <2>1 DEF WalkOf
  <1>2. \A t \in Threads : WalkOf(t)'
    BY <1>1
  <1>3. m_started' \subseteq used'
    BY DEF WalkInv
  <1> QED
    BY <1>2, <1>3 DEF WalkInv

\* A step of a thread that does not hold the mutex, nor takes it.  The run thread
\* never does.
LEMMA WalkAside ==
    ASSUME TypeOK, WalkInv, NEW p \in Procs, Others(p),
           p \in Threads => m_mutex # p /\ pc'[p].at # "stop_all",
           m_started' \subseteq m_started, UNCHANGED <<used, due, m_mutex>>
    PROVE  WalkInv'
  <1>1. p \in Threads => WalkOf(p)'
    BY DEF WalkOf
  <1> QED
    BY <1>1, WalkKept

\* A step of no thread.
LEMMA WalkStill ==
    ASSUME TypeOK, WalkInv, m_started' \subseteq m_started, UNCHANGED <<used, due, m_mutex, pc>>
    PROVE  WalkInv'
  BY DEF WalkInv, WalkOf

\* A thread outside stop_all and the callbacks does not hold the mutex.
LEMMA NotHolding ==
    ASSUME WalkInv, NEW p \in Threads, pc[p].at \notin {"stop_all", "callback", "callback_remove"}
    PROVE  m_mutex # p
  BY DEF WalkInv, WalkOf

\* Lists of entities.
LEMMA EntitySeqs ==
    ASSUME NEW s, s \in Seq(Acceptors) \/ s \in Seq(Connectors) \/ s \in Seq(Udps)
    PROVE  s \in Seq(Entity)
  BY DEF Entity

LEMMA ConcatElements ==
    ASSUME NEW a \in Seq(Entity), NEW b \in Seq(Entity)
    PROVE  /\ a \o b \in Seq(Entity)
           /\ \A x : Contains(a \o b, x) <=> Contains(a, x) \/ Contains(b, x)
  <1>1. /\ Len(a) \in Nat /\ Len(b) \in Nat /\ DOMAIN a = 1 .. Len(a) /\ DOMAIN b = 1 .. Len(b)
        /\ DOMAIN (a \o b) = 1 .. Len(a) + Len(b)
    OBVIOUS
  <1>2. \A i \in 1 .. Len(a) : i \in 1 .. Len(a) + Len(b) /\ (a \o b)[i] = a[i]
    OBVIOUS
  <1>3. \A i \in 1 .. Len(b) : Len(a) + i \in 1 .. Len(a) + Len(b) /\ (a \o b)[Len(a) + i] = b[i]
    OBVIOUS
  <1>4. ASSUME NEW i \in 1 .. Len(a) + Len(b)
        PROVE  \/ i \in 1 .. Len(a) /\ (a \o b)[i] = a[i]
               \/ i - Len(a) \in 1 .. Len(b) /\ (a \o b)[i] = b[i - Len(a)]
    <2>1. CASE i <= Len(a)
      BY <1>1, <1>2, <2>1
    <2>2. CASE ~(i <= Len(a))
      BY <1>1, <2>2
    <2> QED
      BY <2>1, <2>2
  <1>5. \A x : Contains(a \o b, x) <=> Contains(a, x) \/ Contains(b, x)
    BY <1>1, <1>2, <1>3, <1>4 DEF Contains
  <1> QED
    BY <1>5

-----------------------------------------------------------------------------
(* The application's steps.                                                *)

LEMMA MakeStep ==
    ASSUME IInv, NEW t \in Threads, NEW e \in Entity,
           \/ e \in Acceptors /\ make_tcp_acceptor(t, e)
           \/ e \in Connectors /\ make_tcp_connector(t, e)
           \/ e \in Udps /\ make_udp_unicast(t, e)
    PROVE  IInv'
  <1>1. UNCHANGED <<m_started, used, due, m_mutex, pc, netVars, workerVars>> /\ made' = made \cup {e}
    BY DEF make_tcp_acceptor, make_tcp_connector, make_udp_unicast
  <1>2. /\ m_acceptors' \in Seq(Acceptors) /\ m_connectors' \in Seq(Connectors)
        /\ m_udp_entities' \in Seq(Udps) /\ posted' \in Seq(Udps)
    <2>1. /\ m_acceptors \in Seq(Acceptors) /\ m_connectors \in Seq(Connectors)
          /\ m_udp_entities \in Seq(Udps) /\ posted \in Seq(Udps)
      BY DEF IInv, TypeOK
    <2>2. CASE e \in Acceptors /\ make_tcp_acceptor(t, e)
      BY <2>1, <2>2 DEF make_tcp_acceptor
    <2>3. CASE e \in Connectors /\ make_tcp_connector(t, e)
      BY <2>1, <2>3 DEF make_tcp_connector
    <2>4. CASE e \in Udps /\ make_udp_unicast(t, e)
      BY <2>1, <2>4 DEF make_udp_unicast, containers
    <2> QED
      BY <2>2, <2>3, <2>4
  <1>3. TypeOK'
    BY <1>1, <1>2 DEF IInv, TypeOK, workerVars
  <1> QED
    BY <1>1, <1>3, WalkStill DEF IInv

LEMMA AppRemoveStep ==
    ASSUME IInv, NEW t \in Threads, NEW e \in Entity, app_remove(t, e)
    PROVE  IInv'
  <1>1. /\ pc' \in [Procs -> PcType] /\ Others(t) /\ pc'[t].at = "remove" /\ t \in Procs
    BY PcKnown, MoveEntity DEF IInv, app_remove, PcAt
  <1>2. m_mutex # t
    BY NotHolding DEF IInv, app_remove
  <1>3. TypeOK'
    BY <1>1 DEF IInv, TypeOK, PcType, app_remove, containers, workerVars
  <1> QED
    BY <1>1, <1>2, <1>3, WalkAside DEF IInv, app_remove

LEMMA RemoveAllStep ==
    ASSUME IInv, NEW t \in Threads, remove_all(t)
    PROVE  IInv'
  <1>1. /\ m_acceptors' \in Seq(Acceptors) /\ m_connectors' \in Seq(Connectors)
        /\ m_udp_entities' \in Seq(Udps)
    BY DEF remove_all
  <1>2. TypeOK'
    BY <1>1 DEF IInv, TypeOK, remove_all, workerVars
  <1> QED
    BY <1>2, WalkStill DEF IInv, remove_all

\* The values that the operations and the connections take.
LEMMA Kinds ==
    /\ NoOp \in OpType
    /\ \A k \in {"accept", "connect", "wait"} :
         Pending(k) \in OpType /\ Failed(k) \in OpType /\ Pending(k).st = "pending"
    /\ \A o \in OpType, st \in {"done", "failed"} :
         o.st \in {"pending", "done", "failed"} => [o EXCEPT !.st = st] \in OpType
    /\ {"none", "created", "reading", "over", "closed"} \subseteq IoType
  BY DEF NoOp, OpType, Pending, Failed, IoType

LEMMA StopIoType ==
    ASSUME TypeOK, NEW e \in Entity, StopIo(e)
    PROVE  io' \in [Entity -> IoType] /\ held' \subseteq Entity
  <1>1. io \in [Entity -> IoType] /\ held \subseteq Entity
    BY DEF TypeOK
  <1>2. \E v \in IoType : io' = [io EXCEPT ![e] = v]
    BY <1>1, Kinds DEF StopIo
  <1>3. held' \subseteq held
    BY DEF StopIo
  <1> QED
    BY <1>1, <1>2, <1>3

LEMMA EndIoType ==
    ASSUME TypeOK, NEW e \in Entity, EndIo(e)
    PROVE  NetType' /\ m_started' \subseteq m_started
  <1>1. NetType
    BY DEF TypeOK, NetType
  <1>2. /\ held' \subseteq held /\ m_started' \subseteq m_started /\ op' = op
        /\ \E v \in IoType : io' = [io EXCEPT ![e] = v]
    BY Kinds DEF EndIo
  <1> QED
    BY <1>1, <1>2 DEF NetType

LEMMA LeaveType ==
    ASSUME TypeOK, NEW p \in Procs, Leave(p)
    PROVE  io' \in [Entity -> IoType]
  BY Kinds DEF TypeOK, Leave

\* An entity that is started now was not found started by a stop_all in progress:
\* an entity is started once.
LEMMA StartStep ==
    ASSUME IInv, NEW t \in Threads, NEW e \in Entity, start(t, e)
    PROVE  IInv'
  <1>1. /\ UNCHANGED <<containers, m_mutex, posted, made, pc, due, workerVars>>
        /\ m_started' = m_started \/ m_started' = m_started \cup {e}
        /\ used' = used \cup {e} /\ e \in made /\ e \notin used
    BY DEF start
  <1>a. NetType'
    BY Kinds DEF IInv, TypeOK, NetType, start
  <1>2. TypeOK'
    BY <1>1, <1>a DEF IInv, TypeOK, NetType, containers, workerVars
  <1>3. ASSUME NEW u \in Threads PROVE WalkOf(u)'
    BY <1>1 DEF IInv, WalkInv, WalkOf
  <1> QED
    BY <1>1, <1>2, <1>3 DEF IInv, WalkInv

LEMMA StopEntityType ==
    ASSUME TypeOK, NEW e \in Entity, StopEntity(e), made' = made
    PROVE  /\ m_started' \subseteq made' /\ m_started' \subseteq m_started /\ e \notin m_started'
           /\ NetType'
  <1>1. io' \in [Entity -> IoType] /\ held' \subseteq Entity
    BY StopIoType DEF StopEntity
  <1>2. op' \in [Entity -> OpType]
    <2>1. op \in [Entity -> OpType] /\ op[e] \in OpType
      BY DEF TypeOK
    <2>2. CASE op[e].st = "pending"
      <3>1. [op[e] EXCEPT !.st = "failed"] \in OpType
        BY <2>1, <2>2, Kinds
      <3>2. op' = [op EXCEPT ![e] = [op[e] EXCEPT !.st = "failed"]]
        BY <2>1, <2>2 DEF StopEntity
      <3> QED
        BY <2>1, <3>1, <3>2
    <2>3. CASE op[e].st # "pending"
      <3>1. op' = op
        BY <2>1, <2>3 DEF StopEntity, OpType, NoOp
      <3> QED
        BY <2>1, <3>1
    <2> QED
      BY <2>2, <2>3
  <1> QED
    BY <1>1, <1>2 DEF TypeOK, StopEntity, NetType

LEMMA StopStep ==
    ASSUME IInv, NEW t \in Threads, NEW e \in Entity, stop(t, e)
    PROVE  IInv'
  <1>1. /\ pc' \in [Procs -> PcType] /\ Others(t) /\ pc'[t].at = "callback" /\ t \in Procs
    BY PcKnown, MoveEntity DEF IInv, stop, PcAt
  <1>2. m_mutex # t
    BY NotHolding DEF IInv, stop
  <1>3. /\ m_started' \subseteq made' /\ m_started' \subseteq m_started
        /\ NetType'
    BY StopEntityType DEF IInv, stop
  <1>4. TypeOK'
    BY <1>1, <1>3 DEF IInv, TypeOK, NetType, PcType, stop, containers, workerVars
  <1> QED
    BY <1>1, <1>2, <1>3, <1>4, WalkAside DEF IInv, stop

\* stop_all takes the mutex and has all entities that are listed ahead of it.
LEMMA StopAllStep ==
    ASSUME IInv, NEW t \in Threads, stop_all(t)
    PROVE  IInv'
  <1> DEFINE s == m_udp_entities \o m_connectors \o m_acceptors
  <1>1. m_udp_entities \in Seq(Entity) /\ m_connectors \in Seq(Entity) /\ m_acceptors \in Seq(Entity)
    BY EntitySeqs DEF IInv, TypeOK
  <1>2. s \in Seq(Entity) /\ \A x : Listed(x) => Contains(s, x)
    <2>1. /\ m_udp_entities \o m_connectors \in Seq(Entity) /\ s \in Seq(Entity)
          /\ \A x : Contains(s, x) <=> \/ Contains(m_udp_entities, x)
                                       \/ Contains(m_connectors, x) \/ Contains(m_acceptors, x)
      BY <1>1, ConcatElements
    <2> HIDE DEF s
    <2>2. \A x : Listed(x) <=> \/ Contains(m_acceptors, x)
                               \/ Contains(m_connectors, x) \/ Contains(m_udp_entities, x)
      <3>1. m_acceptors \o m_connectors \in Seq(Entity)
        BY <1>1
      <3> QED
        BY <1>1, <3>1, ConcatElements DEF Listed
    <2> QED
      BY <2>1, <2>2
  <1>3. /\ m_mutex = Free /\ m_mutex' = t /\ pc[t].at = "idle"
        /\ due' = [due EXCEPT ![t] = {e \in m_started : Listed(e)}]
        /\ pc' = [pc EXCEPT ![t].at = "stop_all", ![t].todo = s]
        /\ UNCHANGED <<containers, posted, made, m_started, used, netVars, workerVars>>
    BY DEF stop_all
  <1> HIDE DEF s
  <1>4. /\ pc' \in [Procs -> PcType] /\ Others(t) /\ t \in Procs
        /\ pc'[t].at = "stop_all" /\ pc'[t].todo = s
    BY <1>2, <1>3, PcKnown, MoveWalk DEF IInv
  <1>5. m_started \subseteq Entity /\ due \in [Threads -> SUBSET Entity]
    BY DEF IInv, TypeOK
  <1>6. due' \in [Threads -> SUBSET Entity] /\ due'[t] = {e \in m_started : Listed(e)}
        /\ \A u \in Threads : u # t => due'[u] = due[u]
    BY <1>3, <1>5
  <1>7. TypeOK'
    BY <1>3, <1>4, <1>6 DEF IInv, TypeOK, PcType, containers, workerVars
  <1>8. WalkOf(t)'
    <2>1. due'[t] \subseteq m_started /\ \A e \in due'[t] : Contains(pc'[t].todo, e)
      BY <1>2, <1>4, <1>6
    <2> QED
      BY <1>3, <1>4, <2>1 DEF WalkOf, IInv, WalkInv
  <1>9. \A u \in Threads : u # t => (m_mutex' = u <=> m_mutex = u)
    BY <1>3, FreeAssumption, PcKnown DEF IInv
  <1> QED
    BY <1>3, <1>4, <1>6, <1>7, <1>8, <1>9, WalkKept DEF IInv

LEMMA WorkerStep ==
    ASSUME IInv, NEW t \in Threads, worker_stop(t) \/ worker_reset(t)
    PROVE  IInv'
  <1>1. /\ pc' \in [Procs -> PcType] /\ Others(t) /\ pc'[t].at = "join" /\ t \in Procs
        /\ pc[t].at = "idle"
    BY PcKnown, MoveAt DEF IInv, worker_stop, worker_reset, PcAt
  <1>2. m_mutex # t
    BY <1>1, NotHolding DEF IInv
  <1>3. TypeOK'
    BY <1>1 DEF IInv, TypeOK, PcType, worker_stop, worker_reset, containers
  <1> QED
    BY <1>1, <1>2, <1>3, WalkAside DEF IInv, worker_stop, worker_reset

-----------------------------------------------------------------------------
(* Inside a call, and the run thread.                                      *)

LEMMA RemoveStep ==
    ASSUME IInv, NEW p \in Procs, remove(p)
    PROVE  IInv'
  <1>1. /\ pc' \in [Procs -> PcType] /\ Others(p) /\ pc'[p].at = "idle"
    BY PcKnown, MoveIdle DEF IInv, remove
  <1>2. m_mutex # p
    BY FreeAssumption DEF remove
  <1>3. /\ m_acceptors' \in Seq(Acceptors) /\ m_connectors' \in Seq(Connectors)
        /\ m_udp_entities' \in Seq(Udps)
    BY EraseWhereElements DEF IInv, TypeOK, remove, Without
  <1>a. io' \in [Entity -> IoType]
    BY LeaveType DEF IInv, remove
  <1>4. TypeOK'
    BY <1>1, <1>3, <1>a DEF IInv, TypeOK, PcType, remove, workerVars
  <1> QED
    BY <1>1, <1>2, <1>4, WalkAside DEF IInv, remove

LEMMA CallbackStep ==
    ASSUME IInv, NEW p \in Procs, callback(p)
    PROVE  IInv'
  <1>1. /\ UNCHANGED <<containers, m_mutex, posted, made, m_started, used, op, held, due, workerVars>>
        /\ pc[p].at = "callback"
    BY DEF callback
  <1>a. io' \in [Entity -> IoType]
    BY LeaveType DEF IInv, TypeOK, callback
  <1>2. /\ pc' \in [Procs -> PcType] /\ Others(p)
        /\ \/ pc'[p].at = "callback_remove" /\ pc'[p].todo = pc[p].todo
           \/ m_mutex # p /\ pc'[p].at = "idle"
           \/ m_mutex = p /\ pc'[p].at = "stop_all" /\ pc'[p].todo = pc[p].todo
    <2>1. pc \in [Procs -> PcType] /\ None \in Entity \cup {None}
      BY PcKnown DEF IInv
    <2>2. CASE pc' = [pc EXCEPT ![p].at = "callback_remove"]
      BY <2>1, <2>2, MoveAt DEF PcAt
    <2>3. CASE m_mutex # p /\ pc' = [pc EXCEPT ![p] = Idle]
      BY <2>1, <2>3, MoveIdle
    <2>4. CASE m_mutex = p /\ pc' = [pc EXCEPT ![p].at = "stop_all", ![p].e = None]
      BY <2>1, <2>4, MoveEntity DEF PcAt
    <2> QED
      BY <2>2, <2>3, <2>4 DEF callback
  <1>3. TypeOK'
    BY <1>1, <1>2, <1>a DEF IInv, TypeOK, PcType, containers, workerVars
  <1>4. ASSUME p \in Threads PROVE WalkOf(p)'
    <2>1. WalkOf(p)
      BY <1>4 DEF IInv, WalkInv
    <2> QED
      BY <1>1, <1>2, <2>1 DEF WalkOf
  <1> QED
    BY <1>1, <1>2, <1>3, <1>4, WalkKept DEF IInv

\* One round of a loop of stop_all: the entity that is no longer ahead is stopped.
LEMMA StopNextStep ==
    ASSUME IInv, NEW t \in Threads, stop_next(t)
    PROVE  IInv'
  <1> DEFINE e == Head(pc[t].todo)
  <1>1. /\ pc \in [Procs -> PcType] /\ t \in Procs /\ pc[t].todo \in Seq(Entity)
        /\ pc[t].at = "stop_all" /\ pc[t].todo # << >>
        /\ UNCHANGED <<containers, m_mutex, posted, made, used, due, workerVars>>
    BY PcKnown DEF IInv, stop_next, PcType
  <1>2. e \in Entity /\ \A x : Contains(pc[t].todo, x) => x = e \/ Contains(Tail(pc[t].todo), x)
    BY <1>1, HeadOrTail
  <1> HIDE DEF e
  <1>3. /\ pc' \in [Procs -> PcType] /\ Others(t) /\ pc'[t].at \in {"callback", "stop_all"}
        /\ pc'[t].todo = Tail(pc[t].todo)
        /\ m_started' \subseteq m_started /\ e \notin m_started'
        /\ NetType'
    <2>1. CASE e \in m_started
      <3>1. /\ StopEntity(e)
            /\ pc' = [pc EXCEPT ![t].at = "callback", ![t].e = e, ![t].todo = Tail(@)]
        BY <2>1 DEF stop_next, e
      <3> QED
        BY <1>1, <1>2, <3>1, MoveCallback, StopEntityType DEF IInv
    <2>2. CASE e \notin m_started
      <3>1. pc' = [pc EXCEPT ![t].todo = Tail(@)] /\ UNCHANGED <<m_started, netVars>>
        BY <2>2 DEF stop_next, e
      <3> QED
        BY <1>1, <2>2, <3>1, MoveOn DEF IInv, TypeOK, NetType
    <2> QED
      BY <2>1, <2>2
  <1>4. TypeOK'
    BY <1>1, <1>3 DEF IInv, TypeOK, NetType, PcType, containers, workerVars
  <1>5. WalkOf(t)'
    <2>1. WalkOf(t) /\ m_mutex = t
      BY <1>1 DEF IInv, WalkInv, WalkOf
    <2>2. \A x \in due[t] \cap m_started' : Contains(Tail(pc[t].todo), x)
      BY <1>2, <1>3, <2>1 DEF WalkOf
    <2> QED
      BY <1>1, <1>3, <2>1, <2>2 DEF WalkOf
  <1> QED
    BY <1>1, <1>3, <1>4, <1>5, WalkKept DEF IInv

LEMMA ReturnsStep ==
    ASSUME IInv, NEW t \in Threads, stop_all_returns(t)
    PROVE  IInv'
  <1>1. /\ pc' \in [Procs -> PcType] /\ Others(t) /\ pc'[t].at = "idle" /\ t \in Procs
    BY PcKnown, MoveIdle DEF IInv, stop_all_returns
  <1>2. /\ m_mutex' = Free /\ due' = [due EXCEPT ![t] = {}] /\ pc[t].at = "stop_all"
        /\ UNCHANGED <<containers, posted, made, m_started, used, netVars, workerVars>>
    BY DEF stop_all_returns
  <1>3. due' \in [Threads -> SUBSET Entity] /\ \A u \in Threads : u # t => due'[u] = due[u]
    BY <1>2 DEF IInv, TypeOK
  <1>4. TypeOK'
    BY <1>1, <1>2, <1>3 DEF IInv, TypeOK, PcType, containers, workerVars
  <1>5. m_mutex = t
    BY <1>2 DEF IInv, WalkInv, WalkOf
  <1>6. Free # t /\ \A u \in Threads : u # t => (m_mutex' = u <=> m_mutex = u)
    BY <1>1, <1>2, <1>5, FreeAssumption, PcKnown DEF IInv
  <1>7. WalkOf(t)'
    BY <1>1, <1>2, <1>6 DEF WalkOf
  <1> QED
    BY <1>1, <1>2, <1>3, <1>4, <1>6, <1>7, WalkKept DEF IInv

LEMMA JoinStep ==
    ASSUME IInv, NEW t \in Threads, join(t)
    PROVE  IInv'
  <1>1. /\ pc' \in [Procs -> PcType] /\ Others(t) /\ pc'[t].at = "idle" /\ t \in Procs
    BY PcKnown, MoveIdle DEF IInv, join
  <1>2. m_mutex # t
    BY NotHolding DEF IInv, join
  <1>3. TypeOK'
    BY <1>1 DEF IInv, TypeOK, PcType, join, containers, workerVars
  <1> QED
    BY <1>1, <1>2, <1>3, WalkAside DEF IInv, join

LEMMA InsertStep ==
    ASSUME IInv, insert_udp
    PROVE  IInv'
  <1>1. posted \in Seq(Udps) /\ posted # << >> /\ m_udp_entities \in Seq(Udps)
    BY DEF IInv, TypeOK, insert_udp
  <1>2. Head(posted) \in Udps /\ Tail(posted) \in Seq(Udps)
    BY <1>1, HeadOrTail
  <1>3. m_udp_entities' \in Seq(Udps) /\ posted' \in Seq(Udps)
    BY <1>1, <1>2 DEF insert_udp
  <1>4. TypeOK'
    BY <1>3 DEF IInv, TypeOK, insert_udp, workerVars
  <1> QED
    BY <1>4, WalkStill DEF IInv, insert_udp

\* A step that moves at most one thread, to a callback, and stops entities at most.
LEMMA CallbackBegins ==
    ASSUME IInv, NEW p \in Procs, p \in Threads => pc[p].at = "idle", NEW e \in Entity,
           pc' = pc \/ pc' = [pc EXCEPT ![p].at = "callback", ![p].e = e],
           NetType', m_started' \subseteq m_started,
           UNCHANGED <<containers, m_mutex, posted, made, used, due, workerVars>>
    PROVE  IInv'
  <1>1. /\ pc' \in [Procs -> PcType] /\ Others(p)
        /\ pc'[p].at = pc[p].at \/ pc'[p].at = "callback"
    <2>1. pc \in [Procs -> PcType]
      BY PcKnown DEF IInv
    <2>2. CASE pc' = pc
      BY <2>1, <2>2 DEF Others
    <2>3. CASE pc' = [pc EXCEPT ![p].at = "callback", ![p].e = e]
      BY <2>1, <2>3, MoveEntity DEF PcAt
    <2> QED
      BY <2>2, <2>3
  <1>2. p \in Threads => m_mutex # p /\ pc'[p].at # "stop_all"
    BY <1>1, NotHolding DEF IInv
  <1>3. TypeOK'
    BY <1>1 DEF IInv, TypeOK, NetType, PcType, containers, workerVars
  <1> QED
    BY <1>1, <1>2, <1>3, WalkAside DEF IInv

LEMMA StartIoStep ==
    ASSUME IInv, NEW p \in Procs, NEW e \in Entity, start_io(p, e)
    PROVE  IInv'
  <1>1. NetType /\ TypeOK
    BY DEF IInv, TypeOK, NetType
  <1>2. NetType' /\ m_started' \subseteq m_started
    <2>1. CASE EndIo(e)
      BY <1>1, <2>1, EndIoType
    <2>2. CASE io' = [io EXCEPT ![e] = "reading"] /\ UNCHANGED <<m_started, op, held, pc>>
      BY <1>1, <2>2, Kinds DEF NetType
    <2> QED
      BY <2>1, <2>2 DEF start_io
  <1>3. p \in Threads => pc[p].at = "idle"
    BY RunAssumption DEF start_io
  <1>4. pc' = pc \/ pc' = [pc EXCEPT ![p].at = "callback", ![p].e = e]
    BY DEF start_io
  <1> QED
    BY <1>2, <1>3, <1>4, CallbackBegins DEF start_io

\* The kernel's steps.
LEMMA EndsStep ==
    ASSUME IInv, NEW e \in Entity, op_ends(e) \/ read_ends(e)
    PROVE  IInv'
  <1>1. NetType /\ RunThread \in Procs
    BY DEF IInv, TypeOK, NetType, Procs
  <1>2. NetType'
    <2>1. CASE op_ends(e)
      <3>1. PICK st \in {"done", "failed"} : op' = [op EXCEPT ![e].st = st]
        BY <2>1 DEF op_ends
      <3>2. op[e] \in OpType /\ op[e].st = "pending"
        BY <1>1, <2>1 DEF NetType, op_ends
      <3>3. [op[e] EXCEPT !.st = st] \in OpType
        BY <3>2, Kinds
      <3>4. op' = [op EXCEPT ![e] = [op[e] EXCEPT !.st = st]]
        BY <1>1, <3>1 DEF NetType
      <3> QED
        BY <1>1, <2>1, <3>3, <3>4 DEF NetType, op_ends
    <2>2. CASE read_ends(e)
      BY <1>1, <2>2, Kinds DEF NetType, read_ends
    <2> QED
      BY <2>1, <2>2
  <1> QED
    BY <1>1, <1>2, CallbackBegins, RunAssumption DEF op_ends, read_ends

LEMMA NewConnectionStep ==
    ASSUME NetType, NEW e \in Entity, NEW next \in OpType, NewConnection(e, next)
    PROVE  NetType' /\ m_started' = m_started
  BY Kinds DEF NetType, NewConnection

LEMMA HandleStep ==
    ASSUME IInv, NEW e \in Entity, handle_op(e) \/ handle_read(e)
    PROVE  IInv'
  <1>1. NetType /\ TypeOK /\ RunThread \in Procs
    BY DEF IInv, TypeOK, NetType, Procs
  <1>2. pc' = pc \/ pc' = [pc EXCEPT ![RunThread].at = "callback", ![RunThread].e = e]
    BY DEF handle_op, handle_read, handle_accept, handle_wait, handle_connect, NewConnection
  <1>3. NetType' /\ m_started' \subseteq m_started
    <2>1. CASE handle_read(e)
      BY <1>1, <2>1, EndIoType DEF handle_read
    <2>2. CASE handle_accept(e)
      <3>1. ASSUME NEW next \in OpType, NewConnection(e, next)
            PROVE  NetType' /\ m_started' \subseteq m_started
        BY <1>1, <3>1, NewConnectionStep
      <3>2. CASE op' = [op EXCEPT ![e] = NoOp] /\ StopIo(e) /\ m_started' = m_started \ {e}
        BY <1>1, <3>2, StopIoType, Kinds DEF NetType
      <3>3. CASE op' = [op EXCEPT ![e] = NoOp] /\ UNCHANGED <<m_started, io, held, pc>>
        BY <1>1, <3>3, Kinds DEF NetType
      <3> QED
        BY <2>2, <3>1, <3>2, <3>3, Kinds DEF handle_accept
    <2>3. CASE handle_wait(e)
      <3>1. \E v \in OpType : op' = [op EXCEPT ![e] = v]
        BY <1>1, <2>3, Kinds DEF handle_wait, NetType
      <3>2. UNCHANGED <<io, held>> /\ m_started' \subseteq m_started
        BY <2>3 DEF handle_wait
      <3> QED
        BY <1>1, <3>1, <3>2 DEF NetType
    <2>4. CASE handle_connect(e)
      <3>1. CASE NewConnection(e, NoOp)
        BY <1>1, <3>1, NewConnectionStep, Kinds
      <3>2. CASE ~NewConnection(e, NoOp)
        <4>1. \E v \in OpType : op' = [op EXCEPT ![e] = v]
          BY <2>4, <3>2, Kinds DEF handle_connect
        <4>2. UNCHANGED <<io, held, m_started>>
          BY <2>4, <3>2 DEF handle_connect
        <4> QED
          BY <1>1, <4>1, <4>2 DEF NetType
      <3> QED
        BY <3>1, <3>2
    <2> QED
      BY <2>1, <2>2, <2>3, <2>4 DEF handle_op
  <1>4. UNCHANGED <<containers, m_mutex, posted, made, used, due, workerVars>>
    BY DEF handle_op, handle_read
  <1> QED
    BY <1>1, <1>2, <1>3, <1>4, CallbackBegins, RunAssumption

LEMMA RunReturnsStep ==
    ASSUME IInv, run_returns
    PROVE  IInv'
  <1>1. TypeOK'
    BY DEF IInv, TypeOK, run_returns, containers
  <1> QED
    BY <1>1, WalkStill DEF IInv, run_returns

-----------------------------------------------------------------------------

LEMMA InitHolds == Init => IInv
  <1> SUFFICES ASSUME Init PROVE IInv
    OBVIOUS
  <1> USE DEF Init
  <1>1. pc \in [Procs -> PcType] /\ \A p \in Procs : pc[p].at = "idle"
    <2>1. Idle \in PcType /\ Idle.at = "idle"
      BY DEF Idle, PcType, PcAt, None
    <2> QED
      BY <2>1
  <1>2. TypeOK
    BY <1>1, Kinds DEF TypeOK, PcType
  <1>3. \A t \in Threads : m_mutex # t /\ pc[t].at = "idle"
    BY <1>1, FreeAssumption DEF Procs
  <1>4. WalkInv
    BY <1>3 DEF WalkInv, WalkOf
  <1> QED
    BY <1>2, <1>4 DEF IInv

LEMMA NextHolds == IInv /\ [Next]_vars => IInv'
  <1> SUFFICES ASSUME IInv, [Next]_vars PROVE IInv'
    OBVIOUS
  <1>1. CASE UNCHANGED vars
    <2>1. TypeOK'
      BY <1>1 DEF IInv, TypeOK, vars, containers, workerVars
    <2> QED
      BY <1>1, <2>1, WalkStill DEF IInv, vars
  <1>2. ASSUME NEW t \in Threads, AppStep(t) PROVE IInv'
    <2>1. \A e : e \in Acceptors \/ e \in Connectors \/ e \in Udps => e \in Entity
      BY DEF Entity
    <2> QED
      BY <1>2, <2>1, MakeStep, AppRemoveStep, RemoveAllStep, StartStep, StopStep, StopAllStep,
         WorkerStep, StartIoStep, PcKnown DEF AppStep, IInv
  <1>3. ASSUME NEW p \in Procs, InCall(p) PROVE IInv'
    BY <1>3, RemoveStep, CallbackStep, StopNextStep, ReturnsStep, JoinStep DEF InCall
  <1>4. ASSUME RunStep PROVE IInv'
    BY <1>4, InsertStep, HandleStep, RunReturnsStep DEF RunStep
  <1> QED
    BY <1>1, <1>2, <1>3, <1>4, StartIoStep, EndsStep, PcKnown DEF Next, IInv

\* The containers and the threads keep their types, and when stop_all (net_ip.hpp)
\* has walked through the containers, every entity it found started is stopped,
\* whatever other threads, the run thread and the callbacks do meanwhile.
THEOREM StopAllStopsAll == Spec => []StopAllInv
  <1>1. IInv => StopAllInv
    <2> SUFFICES ASSUME IInv, NEW t \in Threads, pc[t].at = "stop_all", pc[t].todo = << >>,
                        NEW e \in due[t] \cap m_started
                 PROVE  FALSE
      BY DEF IInv, StopAllInv, StopAllStops
    <2>1. Contains(pc[t].todo, e)
      BY DEF IInv, WalkInv, WalkOf
    <2> QED
      BY <2>1 DEF Contains
  <1> QED
    BY <1>1, InitHolds, NextHolds, PTL DEF Spec

=============================================================================
