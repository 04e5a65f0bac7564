------------------------- MODULE TcpConnectorProofs -------------------------
(***************************************************************************)
(* Proofs about TcpConnector, for every set of connections and of threads, *)
(* every number of starts, and endpoints given or to be resolved.          *)
(***************************************************************************)
EXTENDS TcpConnector, SequenceLemmas

-----------------------------------------------------------------------------
(* The inductive strengthening of ConnectorInv and NeverStalled.           *)

\* A thread inside notify_me holds a connection.
HoldsInv == \A p \in Procs : pc[p].at \in {"notify", "chg_false"} => pc[p].h \in Handler

\* A thread that is about to post the next operation of the chain of attempts.
InChain(p) == pc[p].at \in {"start", "retry"}

\* The chain of attempts is in one place: an operation, a thread that is about to
\* post one, or a connection.
ChainInv == starts <= 1 =>
    /\ Len(ops) <= 1
    /\ \A p \in Procs : InChain(p) => ops = << >> /\ \A q \in Procs : InChain(q) => q = p
    /\ \A h \in Handler : up[h] > 0 =>
         /\ ops = << >>
         /\ \A p \in Procs : ~InChain(p)
         /\ \A g \in Handler : up[g] > 0 => g = h
    /\ starts = 0 => /\ ops = << >>
                     /\ \A p \in Procs : ~InChain(p)
                     /\ \A h \in Handler : ~(up[h] > 0)

\* An operation whose handler goes on, unlike that of a cancelled wait.
GoesOn(o) == o # Ended(PendingOp("timer"), "failed")
AliveOp == \E i \in DOMAIN ops : GoesOn(ops[i])

\* Until a start overlaps a stop: a stop in progress finds the connector
\* stopped, the mark that stop leaves is gone once start has posted an operation,
\* and not only the cancelled wait of an earlier start is outstanding.
StallInv ==
    /\ \A p \in Procs : pc[p].at = "close" => ~m_started
    /\ m_started /\ m_shutting_down => \E p \in Procs : pc[p].at = "start"
    /\ m_started => AliveOp \/ Alive(m_io_handler) \/ \E p \in Procs : Busy(p)

IInv == TypeOK /\ HoldsInv /\ ChainInv

-----------------------------------------------------------------------------
(* How the actions move a thread.                                          *)

USE DEF histVars

PcType == [at : PcAt, h : Handler \cup {None}]

\* The step of one thread leaves the others where they are.
Others(p) == \A q \in Procs : q # p => pc'[q] = pc[q]

LEMMA MoveAt ==
    ASSUME pc \in [Procs -> PcType], NEW p \in Procs, NEW w \in PcAt, At(p, w)
    PROVE  pc' \in [Procs -> PcType] /\ Others(p) /\ pc'[p].at = w /\ pc'[p].h = pc[p].h
  BY DEF At, PcType, Others

LEMMA MoveIdle ==
    ASSUME pc \in [Procs -> PcType], NEW p \in Procs, pc' = [pc EXCEPT ![p] = Idle]
    PROVE  pc' \in [Procs -> PcType] /\ Others(p) /\ pc'[p].at = "idle"
  BY DEF Idle, PcType, Others, PcAt, None

LEMMA MoveNotify ==
    ASSUME pc \in [Procs -> PcType], NEW p \in Procs, NEW h \in Handler, Notify(p, h)
    PROVE  pc' \in [Procs -> PcType] /\ Others(p) /\ pc'[p].at = "notify" /\ pc'[p].h = h
  BY DEF Notify, PcType, Others, PcAt

LEMMA MoveStop ==
    ASSUME pc \in [Procs -> PcType], NEW p \in Procs,
           pc' = [pc EXCEPT ![p] = [at |-> "stop", h |-> None]]
    PROVE  pc' \in [Procs -> PcType] /\ Others(p) /\ pc'[p].at = "stop"
  BY DEF PcType, Others, PcAt, None

-----------------------------------------------------------------------------
(* The outstanding operations.                                             *)

LEMMA PendingType == \A k \in Kind : PendingOp(k) \in Op
  BY DEF PendingOp, Op

LEMMA EndedType ==
    ASSUME NEW o \in Op, NEW st \in {"ready", "failed"}
    PROVE  Ended(o, st) \in Op /\ Ended(o, st).kind = o.kind /\ Ended(o, st).st = st
  BY DEF Ended, Op

\* Aborting operations ends some and removes none.
LEMMA AbortSeq ==
    ASSUME NEW os \in Seq(Op), NEW which
    PROVE  Abort(os, which) \in Seq(Op) /\ Len(Abort(os, which)) = Len(os)
  <1>1. Len(os) \in Nat /\ DOMAIN os = 1 .. Len(os)
    OBVIOUS
  <1>2. \A i \in 1 .. Len(os) : os[i] \in Op /\ Ended(os[i], "failed") \in Op
    BY EndedType
  <1>3. Abort(os, which) \in [1 .. Len(os) -> Op]
    BY <1>1, <1>2 DEF Abort
  <1>4. Abort(os, which) \in Seq(Op)
    BY <1>1, <1>3, MapSeq
  <1>5. DOMAIN Abort(os, which) = 1 .. Len(os)
    BY <1>1 DEF Abort
  <1> QED
    BY <1>1, <1>4, <1>5

\* Posting an operation that is alive.
LEMMA PostAlive ==
    ASSUME NEW os \in Seq(Op), NEW k \in Kind, ops' = Append(os, PendingOp(k))
    PROVE  ops' \in Seq(Op) /\ Len(ops') = Len(os) + 1 /\ AliveOp'
  <1>1. PendingOp(k) \in Op
    BY PendingType
  <1>2. ops' \in Seq(Op) /\ Len(ops') = Len(os) + 1 /\ ops'[Len(os) + 1] = PendingOp(k)
    BY <1>1
  <1>3. Len(os) + 1 \in DOMAIN ops'
    BY <1>2
  <1>4. GoesOn(PendingOp(k))
    BY DEF GoesOn, PendingOp, Ended
  <1> QED
    BY <1>2, <1>3, <1>4 DEF AliveOp

LEMMA StartConnect ==
    ASSUME NEW os \in Seq(Op), start_connect(os)
    PROVE  ops' \in Seq(Op) /\ Len(ops') = Len(os) + 1 /\ AliveOp'
  <1>1. "connect" \in Kind
    BY DEF Kind
  <1>2. Abort(os, {PendingOp("connect")}) \in Seq(Op)
        /\ Len(Abort(os, {PendingOp("connect")})) = Len(os)
    BY AbortSeq
  <1> QED
    BY <1>1, <1>2, PostAlive DEF start_connect

\* What start posts, and what retry does.
LEMMA StartPosts ==
    ASSUME TypeOK, NEW t \in Procs, start_body(t)
    PROVE  ops' \in Seq(Op) /\ Len(ops') = Len(ops) + 1 /\ AliveOp'
  <1>1. ops \in Seq(Op) /\ "resolve" \in Kind
    BY DEF TypeOK, Kind
  <1>2. start_connect(ops) \/ make_endpoints
    BY DEF start_body
  <1> QED
    BY <1>1, <1>2, StartConnect, PostAlive DEF make_endpoints

LEMMA RetryPosts ==
    ASSUME TypeOK, ops' = Append(Abort(ops, {PendingOp("timer")}), PendingOp("timer"))
    PROVE  ops' \in Seq(Op) /\ Len(ops') = Len(ops) + 1 /\ AliveOp'
  <1>1. "timer" \in Kind /\ ops \in Seq(Op)
    BY DEF Kind, TypeOK
  <1>2. Abort(ops, {PendingOp("timer")}) \in Seq(Op)
        /\ Len(Abort(ops, {PendingOp("timer")})) = Len(ops)
    BY <1>1, AbortSeq
  <1> QED
    BY <1>1, <1>2, PostAlive

\* An operation that is over makes place for the next one of the chain.
LEMMA ReplacedOp ==
    ASSUME TypeOK, NEW i \in DOMAIN ops, start_connect(RemoveAt(ops, i))
    PROVE  ops' \in Seq(Op) /\ Len(ops') = Len(ops) /\ AliveOp'
  <1>1. RemoveAt(ops, i) \in Seq(Op) /\ Len(RemoveAt(ops, i)) = Len(ops) - 1 /\ Len(ops) \in Nat
    BY RemoveAtType, RemoveAtElements DEF TypeOK
  <1>2. ops' \in Seq(Op) /\ Len(ops') = Len(RemoveAt(ops, i)) + 1 /\ AliveOp'
    BY <1>1, StartConnect
  <1> QED
    BY <1>1, <1>2

\* An operation that is over is removed; a cancelled wait is not missed.
LEMMA RemovedOp ==
    ASSUME TypeOK, NEW i \in DOMAIN ops, ops' = RemoveAt(ops, i)
    PROVE  /\ ops' \in Seq(Op) /\ Len(ops') = Len(ops) - 1
           /\ ~GoesOn(ops[i]) /\ AliveOp => AliveOp'
  <1>1. ops \in Seq(Op)
    BY DEF TypeOK
  <1>2. ops' \in Seq(Op) /\ Len(ops') = Len(ops) - 1
    BY <1>1, RemoveAtType, RemoveAtElements
  <1>3. ASSUME ~GoesOn(ops[i]), AliveOp PROVE AliveOp'
    <2>1. PICK j \in DOMAIN ops : GoesOn(ops[j])
      BY <1>3 DEF AliveOp
    <2>2. Contains(ops, ops[j]) /\ ops[j] # ops[i]
      BY <1>3, <2>1 DEF Contains
    <2>3. Contains(ops', ops[j])
      BY <1>1, <2>2, RemoveAtElements
    <2> QED
      BY <2>1, <2>3 DEF Contains, AliveOp
  <1> QED
    BY <1>2, <1>3

\* An operation that ends stays in its place; a wait ends only by being ready.
LEMMA EndedOp ==
    ASSUME TypeOK, NEW i \in DOMAIN ops, op_ends(i)
    PROVE  ops' \in Seq(Op) /\ Len(ops') = Len(ops) /\ (AliveOp => AliveOp')
  <1>1. ops \in Seq(Op) /\ ops[i] \in Op /\ i \in 1 .. Len(ops)
    BY DEF TypeOK
  <1>2. PICK st \in {"ready", "failed"} :
          (st = "failed" => ops[i].kind # "timer") /\ ops' = [ops EXCEPT ![i] = Ended(ops[i], st)]
    BY <1>1 DEF op_ends
  <1> DEFINE e == Ended(ops[i], st)
  <1>3. e \in Op /\ e.kind = ops[i].kind /\ e.st = st
    BY <1>1, EndedType
  <1>4. GoesOn(e)
    BY <1>2, <1>3 DEF GoesOn, Ended, PendingOp
  <1> HIDE DEF e
  <1>5. ops' = [ops EXCEPT ![i] = e]
    BY <1>2 DEF e
  <1>6. ops' \in Seq(Op) /\ Len(ops') = Len(ops)
    BY <1>1, <1>3, <1>5, ExceptSeq
  <1>7. i \in DOMAIN ops' /\ ops'[i] = e
    BY <1>1, <1>5
  <1> QED
    BY <1>4, <1>6, <1>7 DEF AliveOp

-----------------------------------------------------------------------------
(* Types, and what a thread inside notify_me holds.                        *)

\* The two are kept by a step of p that leaves the operations well formed.
LEMMA TypeKept ==
    ASSUME TypeOK, HoldsInv, NEW p \in Procs, Others(p), HandlersTypeOK',
           pc' \in [Procs -> PcType],
           pc'[p].at \in {"notify", "chg_false"} => pc'[p].h \in Handler,
           m_endpoints' \in BOOLEAN, m_shutting_down' \in BOOLEAN,
           m_io_handler' \in Handler \cup {None}, ops' \in Seq(Op),
           starts' \in 0 .. MaxStarts, overlapped' \in BOOLEAN, aborted' \in BOOLEAN
    PROVE  TypeOK' /\ HoldsInv'
  <1>1. TypeOK'
    BY DEF TypeOK, PcType
  <1>2. HoldsInv'
    BY DEF HoldsInv, Others
  <1> QED
    BY <1>1, <1>2

\* The assertion at the head of notify_me fails: nothing else happens any more.
Fails(p) == aborted' = TRUE /\ UNCHANGED <<handlerVars, pc>>

\* What close_io and the drop of a handler leave.
LEMMA CloseType ==
    ASSUME HandlersTypeOK, NEW h \in Handler, close_io(h)
    PROVE  io' \in [Handler -> {"none", "created", "started", "closed"}]
           /\ read' \in [Handler -> {"none", "pending", "ready", "failed"}]
  BY DEF HandlersTypeOK, close_io, handlerVars

LEMMA DroppedType ==
    ASSUME HandlersTypeOK, NEW h
    PROVE  Dropped(h) \in [Handler -> {"none", "created", "started", "closed"}]
  BY DEF HandlersTypeOK, Dropped

LEMMA ChgType ==
    ASSUME HandlersTypeOK, NEW h \in Handler, NEW starting \in BOOLEAN,
           call_io_state_chg_cb(h, starting)
    PROVE  up' \in [Handler -> Nat] /\ down' \in [Handler -> Nat]
  BY DEF HandlersTypeOK, EntityTypeOK, call_io_state_chg_cb

LEMMA AppType ==
    ASSUME TypeOK, HoldsInv, NEW t \in Threads, AppStep(t)
    PROVE  TypeOK' /\ HoldsInv'
  <1>1. t \in Procs /\ pc \in [Procs -> PcType] /\ ops \in Seq(Op) /\ HandlersTypeOK
    BY DEF Procs, TypeOK, PcType
  <1>2. CASE start(t)
    <2>1. pc' \in [Procs -> PcType] /\ Others(t) /\ pc'[t].at = "start"
      BY <1>1, <1>2, MoveAt DEF start, PcAt
    <2>2. starts' \in 0 .. MaxStarts /\ overlapped' \in BOOLEAN
      BY <1>2, BoundAssumption DEF start, TypeOK
    <2>3. HandlersTypeOK'
      BY <1>1, <1>2 DEF start, entity_start, HandlersTypeOK, EntityTypeOK, handlerVars, chgVars
    <2> QED
      BY <1>1, <1>2, <2>1, <2>2, <2>3, TypeKept DEF start, connVars, TypeOK
  <1>3. CASE app_stop(t)
    <2>1. pc' \in [Procs -> PcType] /\ Others(t) /\ pc'[t].at = "stop"
      BY <1>1, <1>3, MoveAt DEF app_stop, PcAt
    <2>2. HandlersTypeOK'
      BY <1>1, <1>3 DEF app_stop, HandlersTypeOK, EntityTypeOK, entityVars, handlerVars, chgVars
    <2> QED
      BY <1>1, <1>3, <2>1, <2>2, TypeKept DEF app_stop, connVars, TypeOK
  <1>4. ASSUME NEW h \in Handler, app_start_io(t, h) PROVE TypeOK' /\ HoldsInv'
    <2>1. /\ pc' \in [Procs -> PcType] /\ Others(t)
          /\ pc'[t].at \in {"notify", "chg_false"} => pc'[t].h \in Handler
      <3>1. CASE UNCHANGED pc
        BY <1>1, <3>1 DEF HoldsInv, Others
      <3>2. CASE Notify(t, h)
        BY <1>1, <3>2, MoveNotify
      <3> QED
        BY <1>4, <3>1, <3>2 DEF app_start_io
    <2>2. HandlersTypeOK'
      BY <1>1, <1>4 DEF app_start_io, start_io_ok, start_io_lost, HandlersTypeOK, EntityTypeOK,
                        entityVars, chgVars
    <2> QED
      BY <1>1, <1>4, <2>1, <2>2, TypeKept DEF app_start_io, connVars, TypeOK
  <1>5. ASSUME NEW h \in Handler, app_stop_io(t, h) PROVE TypeOK' /\ HoldsInv'
    <2>1. pc' \in [Procs -> PcType] /\ Others(t) /\ pc'[t].h \in Handler
      BY <1>1, <1>5, MoveNotify DEF app_stop_io
    <2>2. HandlersTypeOK'
      BY <1>1, <1>5 DEF app_stop_io, HandlersTypeOK, EntityTypeOK, entityVars, handlerVars, chgVars
    <2> QED
      BY <1>1, <1>5, <2>1, <2>2, TypeKept DEF app_stop_io, connVars, TypeOK
  <1> QED
    BY <1>2, <1>3, <1>4, <1>5 DEF AppStep

LEMMA CallType ==
    ASSUME TypeOK, HoldsInv, NEW p \in Procs, InCall(p)
    PROVE  TypeOK' /\ HoldsInv'
  <1>1. pc \in [Procs -> PcType] /\ ops \in Seq(Op) /\ HandlersTypeOK
    BY DEF TypeOK, PcType
  <1>2. CASE start_body(p)
    <2>1. pc' \in [Procs -> PcType] /\ Others(p) /\ pc'[p].at = "idle"
      BY <1>1, <1>2, MoveAt DEF start_body, PcAt
    <2>2. ops' \in Seq(Op)
      BY <1>2, StartPosts
    <2>3. HandlersTypeOK'
      BY <1>1, <1>2 DEF start_body, HandlersTypeOK, EntityTypeOK, entityVars, handlerVars, chgVars
    <2> QED
      BY <1>2, <2>1, <2>2, <2>3, TypeKept DEF start_body, TypeOK
  <1>3. CASE stop(p)
    <2>1. pc' \in [Procs -> PcType] /\ Others(p) /\ pc'[p].at \in {"close", "idle"}
      BY <1>1, <1>3, MoveAt, MoveIdle DEF stop, PcAt
    <2>2. HandlersTypeOK'
      BY <1>1, <1>3 DEF stop, entity_stop, HandlersTypeOK, EntityTypeOK, handlerVars, chgVars
    <2> QED
      BY <1>1, <1>3, <2>1, <2>2, TypeKept DEF stop, connVars, TypeOK
  <1>4. CASE close(p)
    <2>1. pc' \in [Procs -> PcType] /\ Others(p) /\ pc'[p].at = "idle"
      BY <1>1, <1>4, MoveIdle DEF close
    <2>2. ops' \in Seq(Op)
      BY <1>1, <1>4, AbortSeq DEF close
    <2>3. io' \in [Handler -> {"none", "created", "started", "closed"}]
          /\ read' \in [Handler -> {"none", "pending", "ready", "failed"}]
      <3>1. CASE m_io_handler # None /\ io[m_io_handler] = "started"
        <4>1. m_io_handler \in Handler /\ close_io(m_io_handler)
          BY <1>4, <3>1 DEF close, TypeOK
        <4> QED
          BY <1>1, <4>1, CloseType
      <3>2. CASE ~(m_io_handler # None /\ io[m_io_handler] = "started")
        <4>1. io' = Dropped(m_io_handler) /\ read' = read
          BY <1>4, <3>2 DEF close
        <4> QED
          BY <1>1, <4>1, DroppedType DEF HandlersTypeOK
      <3> QED
        BY <3>1, <3>2
    <2>4. HandlersTypeOK'
      BY <1>1, <1>4, <2>3 DEF close, HandlersTypeOK, EntityTypeOK, entityVars, chgVars
    <2> QED
      BY <1>4, <2>1, <2>2, <2>4, TypeKept DEF close, TypeOK
  <1>5. CASE notify_close(p) /\ ~Fails(p)
    <2>1. /\ pc' \in [Procs -> PcType] /\ Others(p)
          /\ pc'[p].at = "chg_false" /\ pc'[p].h = pc[p].h /\ pc[p].h \in Handler
      BY <1>1, <1>5, MoveAt DEF notify_close, Fails, PcAt, HoldsInv
    <2>2. HandlersTypeOK'
      <3>1. close_io(pc[p].h) /\ aborted' = aborted
        BY <1>5 DEF notify_close, Fails
      <3>2. io' \in [Handler -> {"none", "created", "started", "closed"}]
            /\ read' \in [Handler -> {"none", "pending", "ready", "failed"}]
        BY <1>1, <2>1, <3>1, CloseType
      <3> QED
        BY <1>1, <1>5, <3>2 DEF notify_close, HandlersTypeOK, EntityTypeOK, entityVars, chgVars
    <2> QED
      BY <1>1, <1>5, <2>1, <2>2, TypeKept DEF notify_close, Fails, connVars, TypeOK
  <1>7. CASE notify_close(p) /\ Fails(p)
    <2>1. HandlersTypeOK'
      BY <1>1, <1>7 DEF notify_close, Fails, HandlersTypeOK, EntityTypeOK, entityVars,
                        handlerVars, chgVars
    <2> QED
      BY <1>7, <2>1 DEF notify_close, Fails, HoldsInv, TypeOK, connVars
  <1>6. CASE notify_chg(p)
    <2>1. pc' \in [Procs -> PcType] /\ Others(p) /\ pc'[p].at = "stop" /\ pc[p].h \in Handler
      BY <1>1, <1>6, MoveStop DEF notify_chg, HoldsInv
    <2>2. HandlersTypeOK'
      <3>1. call_io_state_chg_cb(pc[p].h, FALSE)
        BY <1>6 DEF notify_chg
      <3>2. up' \in [Handler -> Nat] /\ down' \in [Handler -> Nat]
        BY <1>1, <2>1, <3>1, ChgType
      <3> QED
        BY <1>1, <1>6, <3>2 DEF notify_chg, HandlersTypeOK, EntityTypeOK, entityVars, handlerVars
    <2> QED
      BY <1>1, <1>6, <2>1, <2>2, TypeKept DEF notify_chg, connVars, TypeOK
  <1> QED
    BY <1>2, <1>3, <1>4, <1>5, <1>6, <1>7 DEF InCall

LEMMA HandlerType ==
    ASSUME TypeOK, HoldsInv, InHandler
    PROVE  TypeOK' /\ HoldsInv'
  <1>1. /\ pc \in [Procs -> PcType] /\ ops \in Seq(Op) /\ HandlersTypeOK
        /\ RunThread \in Procs
    BY DEF TypeOK, PcType, Procs
  <1>2. CASE stop_entity_only
    <2>1. pc' \in [Procs -> PcType] /\ Others(RunThread) /\ pc'[RunThread].at = "idle"
      BY <1>1, <1>2, MoveIdle DEF stop_entity_only
    <2>2. HandlersTypeOK'
      BY <1>1, <1>2 DEF stop_entity_only, HandlersTypeOK, EntityTypeOK, handlerVars, chgVars
    <2> QED
      BY <1>1, <1>2, <2>1, <2>2, TypeKept DEF stop_entity_only, connVars, TypeOK
  <1>3. CASE retry
    <2>1. /\ pc' \in [Procs -> PcType] /\ Others(RunThread)
          /\ pc'[RunThread].at \in {"idle", "entity_stop"}
      BY <1>1, <1>3, MoveAt DEF retry, PcAt
    <2>2. ops' \in Seq(Op)
      BY <1>1, <1>3, RetryPosts DEF retry
    <2>3. HandlersTypeOK'
      BY <1>1, <1>3 DEF retry, HandlersTypeOK, EntityTypeOK, entityVars, handlerVars, chgVars
    <2> QED
      BY <1>1, <1>3, <2>1, <2>2, <2>3, TypeKept DEF retry, connVars, TypeOK
  <1> QED
    BY <1>2, <1>3 DEF InHandler

LEMMA OpType ==
    ASSUME TypeOK, HoldsInv, NEW i \in DOMAIN ops, RunOp(i) \/ op_ends(i)
    PROVE  TypeOK' /\ HoldsInv'
  <1>1. /\ pc \in [Procs -> PcType] /\ ops \in Seq(Op) /\ HandlersTypeOK
        /\ RunThread \in Procs
    BY DEF TypeOK, PcType, Procs
  <1>2. CASE handle_resolve(i)
    <2>1. /\ pc' \in [Procs -> PcType] /\ Others(RunThread)
          /\ pc'[RunThread].at \in {"idle", "entity_stop"}
      <3>1. CASE At(RunThread, "entity_stop")
        BY <1>1, <3>1, MoveAt DEF PcAt
      <3>2. CASE UNCHANGED pc
        BY <1>1, <1>2, <3>2 DEF handle_resolve, Handling, Others
      <3> QED
        BY <1>2, <3>1, <3>2 DEF handle_resolve
    <2>2. ops' \in Seq(Op)
      BY <1>1, <1>2, RemovedOp, ReplacedOp DEF handle_resolve
    <2>3. HandlersTypeOK'
      BY <1>1, <1>2 DEF handle_resolve, HandlersTypeOK, EntityTypeOK, entityVars, handlerVars,
                        chgVars
    <2> QED
      BY <1>1, <1>2, <2>1, <2>2, <2>3, TypeKept DEF handle_resolve, TypeOK
  <1>3. CASE handle_connect_error(i)
    <2>1. pc' \in [Procs -> PcType] /\ Others(RunThread) /\ pc'[RunThread].at = "retry"
      BY <1>1, <1>3, MoveAt DEF handle_connect_error, PcAt
    <2>2. ops' \in Seq(Op)
      BY <1>3, RemovedOp DEF handle_connect_error
    <2>3. HandlersTypeOK'
      BY <1>1, <1>3 DEF handle_connect_error, HandlersTypeOK, EntityTypeOK, entityVars,
                        handlerVars, chgVars
    <2> QED
      BY <1>1, <1>3, <2>1, <2>2, <2>3, TypeKept DEF handle_connect_error, connVars, TypeOK
  <1>4. CASE handle_connect(i)
    <2>1. PICK h \in Handler : /\ io' = [Dropped(m_io_handler) EXCEPT ![h] = "created"]
                               /\ m_io_handler' = h
                               /\ call_io_state_chg_cb(h, TRUE)
      BY <1>4 DEF handle_connect
    <2>2. io' \in [Handler -> {"none", "created", "started", "closed"}]
      BY <1>1, <2>1, DroppedType
    <2>3. up' \in [Handler -> Nat] /\ down' \in [Handler -> Nat]
      BY <1>1, <2>1, ChgType
    <2>4. HandlersTypeOK'
      BY <1>1, <1>4, <2>2, <2>3 DEF handle_connect, HandlersTypeOK, EntityTypeOK, entityVars
    <2>5. ops' \in Seq(Op)
      BY <1>4, RemovedOp DEF handle_connect
    <2>6. Others(RunThread) /\ pc'[RunThread].at = "idle"
      BY <1>4 DEF handle_connect, Handling, Others
    <2> QED
      BY <1>1, <1>4, <2>1, <2>4, <2>5, <2>6, TypeKept DEF handle_connect, TypeOK
  <1>5. CASE handle_timer(i)
    <2>1. Others(RunThread) /\ pc'[RunThread].at = "idle"
      BY <1>5 DEF handle_timer, Handling, Others
    <2>2. ops' \in Seq(Op)
      BY <1>5, RemovedOp, ReplacedOp DEF handle_timer
    <2>3. HandlersTypeOK'
      BY <1>1, <1>5 DEF handle_timer, HandlersTypeOK, EntityTypeOK, entityVars, handlerVars,
                        chgVars
    <2> QED
      BY <1>1, <1>5, <2>1, <2>2, <2>3, TypeKept DEF handle_timer, connVars, TypeOK
  <1>6. CASE op_ends(i)
    <2>1. Others(RunThread) /\ pc' = pc
      BY <1>6 DEF op_ends, Others
    <2>2. ops' \in Seq(Op)
      BY <1>6, EndedOp
    <2>3. HandlersTypeOK'
      BY <1>1, <1>6 DEF op_ends, HandlersTypeOK, EntityTypeOK, entityVars, handlerVars, chgVars
    <2>4. pc'[RunThread].at \in {"notify", "chg_false"} => pc'[RunThread].h \in Handler
      BY <1>1, <2>1 DEF HoldsInv
    <2> QED
      BY <1>1, <1>6, <2>1, <2>2, <2>3, <2>4, TypeKept DEF op_ends, connVars, TypeOK
  <1> QED
    BY <1>2, <1>3, <1>4, <1>5, <1>6 DEF RunOp

LEMMA ReadType ==
    ASSUME TypeOK, HoldsInv, NEW h \in Handler, handle_read(h) \/ kernel_read(h)
    PROVE  TypeOK' /\ HoldsInv'
  <1>1. /\ pc \in [Procs -> PcType] /\ ops \in Seq(Op) /\ HandlersTypeOK
        /\ RunThread \in Procs
    BY DEF TypeOK, PcType, Procs
  <1>2. CASE handle_read(h)
    <2>1. /\ pc' \in [Procs -> PcType] /\ Others(RunThread)
          /\ pc'[RunThread].at \in {"notify", "chg_false"} => pc'[RunThread].h \in Handler
      <3>1. CASE UNCHANGED pc
        BY <1>1, <3>1 DEF HoldsInv, Others
      <3>2. CASE Notify(RunThread, h)
        BY <1>1, <3>2, MoveNotify
      <3> QED
        BY <1>2, <3>1, <3>2 DEF handle_read
    <2>2. HandlersTypeOK'
      BY <1>1, <1>2 DEF handle_read, read_again, read_over, HandlersTypeOK, EntityTypeOK,
                        entityVars, chgVars
    <2> QED
      BY <1>1, <1>2, <2>1, <2>2, TypeKept DEF handle_read, connVars, TypeOK
  <1>3. CASE kernel_read(h)
    <2>1. Others(RunThread) /\ pc' = pc
      BY <1>3 DEF kernel_read, Others
    <2>2. HandlersTypeOK'
      BY <1>1, <1>3 DEF kernel_read, read_ends, HandlersTypeOK, EntityTypeOK, entityVars, chgVars
    <2>3. pc'[RunThread].at \in {"notify", "chg_false"} => pc'[RunThread].h \in Handler
      BY <1>1, <2>1 DEF HoldsInv
    <2> QED
      BY <1>1, <1>3, <2>1, <2>2, <2>3, TypeKept DEF kernel_read, connVars, TypeOK
  <1> QED
    BY <1>2, <1>3

LEMMA TypeStep ==
    ASSUME TypeOK, HoldsInv, [Next]_vars
    PROVE  TypeOK' /\ HoldsInv'
  <1>1. CASE UNCHANGED vars
    <2>1. HandlersTypeOK'
      BY <1>1 DEF TypeOK, HandlersTypeOK, EntityTypeOK, vars, entityVars, handlerVars, chgVars
    <2> QED
      BY <1>1, <2>1 DEF TypeOK, HoldsInv, vars, connVars
  <1>2. CASE Next
    BY <1>2, AppType, CallType, HandlerType, OpType, ReadType DEF Next, Step
  <1> QED
    BY <1>1, <1>2

-----------------------------------------------------------------------------
(* One chain of attempts.                                                  *)

LEMMA NoOps == TypeOK => (ops = << >> <=> Len(ops) = 0) /\ Len(ops) \in Nat
  BY DEF TypeOK

\* A step that posts no operation, puts no thread into the chain and makes no
\* connection keeps the chain in one place.
LEMMA ChainKept ==
    ASSUME TypeOK, TypeOK', ChainInv, starts' = starts, up' = up, Len(ops') <= Len(ops),
           \A q \in Procs : InChain(q)' => InChain(q)
    PROVE  ChainInv'
  <1>1. ops = << >> => ops' = << >>
    BY NoOps DEF TypeOK
  <1>2. Len(ops) <= 1 => Len(ops') <= 1
    BY DEF TypeOK
  <1> HIDE DEF InChain
  <1> QED
    BY <1>1, <1>2 DEF ChainInv

\* The thread that is in the chain posts an operation and leaves it.
LEMMA ChainPosts ==
    ASSUME TypeOK, TypeOK', ChainInv, NEW p \in Procs, InChain(p), Others(p), ~InChain(p)',
           starts' = starts, up' = up, Len(ops') = Len(ops) + 1
    PROVE  ChainInv'
  <1> SUFFICES ASSUME starts <= 1 PROVE ChainInv'
    BY DEF ChainInv
  <1>1. /\ ops = << >> /\ \A q \in Procs : InChain(q) => q = p
        /\ \A h \in Handler : ~(up[h] > 0)
        /\ starts # 0
    BY DEF ChainInv
  <1>2. Len(ops') = 1
    BY <1>1, NoOps
  <1>3. \A q \in Procs : ~InChain(q)'
    BY <1>1 DEF Others, InChain
  <1> QED
    BY <1>1, <1>2, <1>3 DEF ChainInv

\* An operation that is over passes the chain on.
LEMMA ChainOver ==
    ASSUME TypeOK, ChainInv, starts <= 1, NEW i \in DOMAIN ops
    PROVE  /\ RemoveAt(ops, i) = << >>
           /\ \A p \in Procs : ~InChain(p)
           /\ \A h \in Handler : ~(up[h] > 0)
           /\ starts # 0
  <1>1. ops \in Seq(Op) /\ ops # << >> /\ Len(ops) <= 1
    BY DEF TypeOK, ChainInv
  <1>2. RemoveAt(ops, i) = << >>
    BY <1>1, RemoveOnly
  <1> QED
    BY <1>1, <1>2 DEF ChainInv

LEMMA ChainApp ==
    ASSUME TypeOK, TypeOK', ChainInv, NEW t \in Threads, AppStep(t)
    PROVE  ChainInv'
  <1>1. t \in Procs /\ pc \in [Procs -> PcType]
    BY DEF Procs, TypeOK, PcType
  <1>2. CASE start(t)
    <2>1. Others(t) /\ pc'[t].at = "start" /\ ops' = ops /\ up' = up /\ starts' = starts + 1
      BY <1>1, <1>2, MoveAt DEF start, PcAt, chgVars
    <2> SUFFICES ASSUME starts' <= 1 PROVE ChainInv'
      BY DEF ChainInv
    <2>2. starts = 0 /\ starts <= 1
      BY <2>1 DEF TypeOK
    <2>3. ops = << >> /\ (\A p \in Procs : ~InChain(p)) /\ \A h \in Handler : ~(up[h] > 0)
      BY <2>2 DEF ChainInv
    <2>4. \A q \in Procs : InChain(q)' => q = t
      BY <2>1, <2>3 DEF Others, InChain
    <2>5. Len(ops') <= 1 /\ ops' = << >> /\ starts' # 0
      BY <2>1, <2>2, <2>3
    <2> QED
      BY <2>1, <2>3, <2>4, <2>5 DEF ChainInv
  <1>3. CASE app_stop(t)
    <2>1. Others(t) /\ pc'[t].at = "stop"
      BY <1>1, <1>3, MoveAt DEF app_stop, PcAt
    <2>2. \A q \in Procs : InChain(q)' => InChain(q)
      BY <2>1 DEF Others, InChain
    <2> QED
      BY <1>3, <2>2, NoOps, ChainKept DEF app_stop, chgVars
  <1>4. ASSUME NEW h \in Handler, app_start_io(t, h) PROVE ChainInv'
    <2>1. UNCHANGED pc \/ (Others(t) /\ pc'[t].at = "notify")
      BY <1>1, <1>4, MoveNotify DEF app_start_io
    <2>2. \A q \in Procs : InChain(q)' => InChain(q)
      BY <2>1 DEF Others, InChain
    <2> QED
      BY <1>4, <2>2, NoOps, ChainKept DEF app_start_io, chgVars
  <1>5. ASSUME NEW h \in Handler, app_stop_io(t, h) PROVE ChainInv'
    <2>1. Others(t) /\ pc'[t].at = "notify"
      BY <1>1, <1>5, MoveNotify DEF app_stop_io
    <2>2. \A q \in Procs : InChain(q)' => InChain(q)
      BY <2>1 DEF Others, InChain
    <2> QED
      BY <1>5, <2>2, NoOps, ChainKept DEF app_stop_io, chgVars
  <1> QED
    BY <1>2, <1>3, <1>4, <1>5 DEF AppStep

LEMMA ChainCall ==
    ASSUME TypeOK, HoldsInv, TypeOK', ChainInv, NEW p \in Procs, InCall(p)
    PROVE  ChainInv'
  <1>1. pc \in [Procs -> PcType] /\ ops \in Seq(Op)
    BY DEF TypeOK, PcType
  <1>2. CASE start_body(p)
    <2>1. Others(p) /\ pc[p].at = "start" /\ pc'[p].at = "idle"
      BY <1>1, <1>2, MoveAt DEF start_body, PcAt
    <2>2. InChain(p) /\ ~InChain(p)'
      BY <2>1 DEF InChain
    <2>3. Len(ops') = Len(ops) + 1
      BY <1>2, StartPosts
    <2> QED
      BY <1>2, <2>1, <2>2, <2>3, ChainPosts DEF start_body, chgVars
  <1>3. CASE stop(p)
    <2>1. Others(p) /\ pc'[p].at \in {"close", "idle"}
      BY <1>1, <1>3, MoveAt, MoveIdle DEF stop, PcAt
    <2>2. \A q \in Procs : InChain(q)' => InChain(q)
      BY <2>1 DEF Others, InChain
    <2> QED
      BY <1>3, <2>2, NoOps, ChainKept DEF stop, chgVars
  <1>4. CASE close(p)
    <2>1. Others(p) /\ pc'[p].at = "idle"
      BY <1>1, <1>4, MoveIdle DEF close
    <2>2. \A q \in Procs : InChain(q)' => InChain(q)
      BY <2>1 DEF Others, InChain
    <2>3. Len(ops') = Len(ops)
      BY <1>1, <1>4, AbortSeq DEF close
    <2> QED
      BY <1>4, <2>2, <2>3, NoOps, ChainKept DEF close, chgVars
  <1>5. CASE notify_close(p)
    <2>1. UNCHANGED pc \/ (Others(p) /\ pc'[p].at = "chg_false")
      BY <1>1, <1>5, MoveAt DEF notify_close, PcAt
    <2>2. \A q \in Procs : InChain(q)' => InChain(q)
      BY <2>1 DEF Others, InChain
    <2> QED
      BY <1>5, <2>2, NoOps, ChainKept DEF notify_close, chgVars
  <1>6. CASE notify_chg(p)
    <2>1. Others(p) /\ pc'[p].at = "stop"
      BY <1>1, <1>6, MoveStop DEF notify_chg
    <2>2. \A q \in Procs : InChain(q)' => InChain(q)
      BY <2>1 DEF Others, InChain
    <2> QED
      BY <1>6, <2>2, NoOps, ChainKept DEF notify_chg, call_io_state_chg_cb
  <1> QED
    BY <1>2, <1>3, <1>4, <1>5, <1>6 DEF InCall

LEMMA ChainHandler ==
    ASSUME TypeOK, TypeOK', ChainInv, InHandler
    PROVE  ChainInv'
  <1>1. pc \in [Procs -> PcType] /\ RunThread \in Procs
    BY DEF TypeOK, PcType, Procs
  <1>2. CASE stop_entity_only
    <2>1. Others(RunThread) /\ pc'[RunThread].at = "idle"
      BY <1>1, <1>2, MoveIdle DEF stop_entity_only
    <2>2. \A q \in Procs : InChain(q)' => InChain(q)
      BY <2>1 DEF Others, InChain
    <2> QED
      BY <1>2, <2>2, NoOps, ChainKept DEF stop_entity_only, chgVars
  <1>3. CASE retry
    <2>1. Others(RunThread) /\ pc'[RunThread].at \in {"idle", "entity_stop"}
      BY <1>1, <1>3, MoveAt DEF retry, PcAt
    <2>2. /\ InChain(RunThread) /\ ~InChain(RunThread)'
          /\ \A q \in Procs : InChain(q)' => InChain(q)
      BY <1>3, <2>1 DEF retry, Others, InChain
    <2>3. CASE UNCHANGED ops
      BY <1>3, <2>2, <2>3, NoOps, ChainKept DEF retry, chgVars
    <2>4. CASE ops' = Append(Abort(ops, {PendingOp("timer")}), PendingOp("timer"))
      <3>1. Len(ops') = Len(ops) + 1
        BY <2>4, RetryPosts
      <3> QED
        BY <1>1, <1>3, <2>1, <2>2, <3>1, ChainPosts DEF retry, chgVars
    <2> QED
      BY <1>3, <2>3, <2>4 DEF retry
  <1> QED
    BY <1>2, <1>3 DEF InHandler

LEMMA ChainOp ==
    ASSUME TypeOK, TypeOK', ChainInv, NEW i \in DOMAIN ops, RunOp(i) \/ op_ends(i)
    PROVE  ChainInv'
  <1>1. /\ pc \in [Procs -> PcType] /\ RunThread \in Procs /\ ops \in Seq(Op)
        /\ Len(ops) \in Nat
    BY DEF TypeOK, PcType, Procs
  <1>2. CASE handle_resolve(i)
    <2>1. UNCHANGED pc \/ (Others(RunThread) /\ pc'[RunThread].at = "entity_stop")
      BY <1>1, <1>2, MoveAt DEF handle_resolve, PcAt
    <2>2. \A q \in Procs : InChain(q)' => InChain(q)
      BY <2>1 DEF Others, InChain
    <2>3. Len(ops') = Len(ops) \/ Len(ops') = Len(ops) - 1
      BY <1>2, RemovedOp, ReplacedOp DEF handle_resolve
    <2>4. Len(ops') <= Len(ops)
      BY <1>1, <2>3
    <2> QED
      BY <1>2, <2>2, <2>4, ChainKept DEF handle_resolve, chgVars
  <1>3. CASE handle_connect_error(i)
    <2>1. Others(RunThread) /\ pc'[RunThread].at = "retry"
      BY <1>1, <1>3, MoveAt DEF handle_connect_error, PcAt
    <2>2. ops' = RemoveAt(ops, i) /\ up' = up /\ starts' = starts
      BY <1>3 DEF handle_connect_error, chgVars
    <2> SUFFICES ASSUME starts <= 1 PROVE ChainInv'
      BY <2>2 DEF ChainInv
    <2>3. /\ RemoveAt(ops, i) = << >> /\ starts # 0
          /\ (\A p \in Procs : ~InChain(p)) /\ \A h \in Handler : ~(up[h] > 0)
      BY ChainOver
    <2>4. \A q \in Procs : InChain(q)' => q = RunThread
      BY <2>1, <2>3 DEF Others, InChain
    <2>5. Len(ops') <= 1 /\ ops' = << >>
      BY <2>2, <2>3
    <2> QED
      BY <2>2, <2>3, <2>4, <2>5 DEF ChainInv
  <1>4. CASE handle_connect(i)
    <2>1. PICK h \in Handler : call_io_state_chg_cb(h, TRUE)
      BY <1>4 DEF handle_connect
    <2>2. ops' = RemoveAt(ops, i) /\ pc' = pc /\ starts' = starts
      BY <1>4 DEF handle_connect
    <2> SUFFICES ASSUME starts <= 1 PROVE ChainInv'
      BY <2>2 DEF ChainInv
    <2>3. /\ RemoveAt(ops, i) = << >> /\ starts # 0
          /\ (\A p \in Procs : ~InChain(p)) /\ \A g \in Handler : ~(up[g] > 0)
      BY ChainOver
    <2>4. \A g \in Handler : g # h => up'[g] = up[g]
      BY <2>1 DEF call_io_state_chg_cb, TypeOK, HandlersTypeOK, EntityTypeOK
    <2>5. \A g \in Handler : up'[g] > 0 => g = h
      BY <2>3, <2>4
    <2>6. \A q \in Procs : ~InChain(q)'
      BY <2>2, <2>3 DEF InChain
    <2>7. Len(ops') <= 1 /\ ops' = << >>
      BY <2>2, <2>3
    <2> QED
      BY <2>2, <2>3, <2>5, <2>6, <2>7 DEF ChainInv
  <1>5. CASE handle_timer(i)
    <2>1. Len(ops') = Len(ops) \/ Len(ops') = Len(ops) - 1
      BY <1>5, RemovedOp, ReplacedOp DEF handle_timer
    <2>2. Len(ops') <= Len(ops)
      BY <1>1, <2>1
    <2>3. \A q \in Procs : InChain(q)' => InChain(q)
      BY <1>5 DEF handle_timer, InChain
    <2> QED
      BY <1>5, <2>2, <2>3, ChainKept DEF handle_timer, chgVars
  <1>6. CASE op_ends(i)
    <2>1. Len(ops') <= Len(ops)
      BY <1>1, <1>6, EndedOp
    <2>2. \A q \in Procs : InChain(q)' => InChain(q)
      BY <1>6 DEF op_ends, InChain
    <2> QED
      BY <1>6, <2>1, <2>2, ChainKept DEF op_ends, chgVars
  <1> QED
    BY <1>2, <1>3, <1>4, <1>5, <1>6 DEF RunOp

LEMMA ChainRead ==
    ASSUME TypeOK, TypeOK', ChainInv, NEW h \in Handler, handle_read(h) \/ kernel_read(h)
    PROVE  ChainInv'
  <1>1. pc \in [Procs -> PcType] /\ RunThread \in Procs
    BY DEF TypeOK, PcType, Procs
  <1>2. UNCHANGED pc \/ (Others(RunThread) /\ pc'[RunThread].at = "notify")
    BY <1>1, MoveNotify DEF handle_read, kernel_read
  <1>3. \A q \in Procs : InChain(q)' => InChain(q)
    BY <1>2 DEF Others, InChain
  <1>4. ops' = ops /\ up' = up /\ starts' = starts
    BY DEF handle_read, kernel_read, chgVars
  <1> QED
    BY <1>3, <1>4, NoOps, ChainKept

LEMMA ChainStep ==
    ASSUME IInv, [Next]_vars
    PROVE  IInv'
  <1>1. TypeOK' /\ HoldsInv'
    BY TypeStep DEF IInv
  <1>2. CASE UNCHANGED vars
    <2>1. \A q \in Procs : InChain(q)' => InChain(q)
      BY <1>2 DEF vars, InChain
    <2>2. ops' = ops /\ up' = up /\ starts' = starts
      BY <1>2 DEF vars, chgVars
    <2> QED
      BY <1>1, <2>1, <2>2, NoOps, ChainKept DEF IInv
  <1>3. CASE Next
    BY <1>1, <1>3, ChainApp, ChainCall, ChainHandler, ChainOp, ChainRead DEF Next, Step, IInv
  <1> QED
    BY <1>2, <1>3

LEMMA InitHolds == Init => IInv
  <1> SUFFICES ASSUME Init PROVE IInv
    OBVIOUS
  <1> USE DEF Init, HandlersInit, EntityInit
  <1>1. TypeOK
    <2>1. pc \in [Procs -> [at : PcAt, h : Handler \cup {None}]]
      BY DEF Idle, PcAt, None
    <2>2. ops \in Seq(Op)
      OBVIOUS
    <2>3. starts \in 0 .. MaxStarts /\ m_endpoints \in BOOLEAN
      BY BoundAssumption, ParameterAssumption
    <2> QED
      BY <2>1, <2>2, <2>3 DEF TypeOK, HandlersTypeOK, EntityTypeOK
  <1>2. \A p \in Procs : pc[p].at = "idle"
    BY DEF Idle
  <1>3. HoldsInv
    BY <1>2 DEF HoldsInv
  <1>4. (\A p \in Procs : ~InChain(p)) /\ \A h \in Handler : ~(up[h] > 0)
    BY <1>2 DEF InChain
  <1>5. ops = << >> /\ Len(ops) <= 1
    OBVIOUS
  <1>6. ChainInv
    BY <1>4, <1>5 DEF ChainInv
  <1> QED
    BY <1>1, <1>3, <1>6 DEF IInv

\* The connector's state keeps its types, and until it is started again it has at
\* most one resolve, connect or wait outstanding, and none beside a connection:
\* resolve, connect and retry (tcp_connector.hpp) pass one chain of attempts on.
THEOREM OneChainOnly == Spec => []ConnectorInv
  <1>1. IInv => ConnectorInv
    BY DEF IInv, ChainInv, ConnectorInv, OneChain
  <1> QED
    BY <1>1, InitHolds, ChainStep, PTL DEF Spec

-----------------------------------------------------------------------------
(* A started connector is not stuck until a start overlaps a stop.         *)

\* The connector's connection stays as alive as it was.
IoKept == Alive(m_io_handler) => Alive(m_io_handler)'

LEMMA IoSame ==
    ASSUME m_io_handler' = m_io_handler, io' = io \/ \E h \in Handler : start_io_ok(h) \/ start_io_lost(h),
           HandlersTypeOK, m_io_handler \in Handler \cup {None}
    PROVE  IoKept
  BY DEF IoKept, Alive, start_io_ok, start_io_lost, HandlersTypeOK

\* A step of p that starts nothing, forgets nothing and leaves p busy if it was.
LEMMA StallKept ==
    ASSUME TypeOK, StallInv, NEW p \in Procs, Others(p),
           m_started' => m_started, m_shutting_down' = m_shutting_down,
           IoKept \/ Busy(p)', AliveOp => AliveOp',
           pc'[p].at = "close" => pc[p].at = "close",
           pc[p].at = "start" => pc'[p].at = "start",
           Busy(p) => Busy(p)'
    PROVE  StallInv'
  <1>1. \A q \in Procs : pc'[q].at = "close" => ~m_started'
    BY DEF StallInv, Others
  <1>2. \A q \in Procs : pc[q].at = "start" => pc'[q].at = "start"
    BY DEF Others
  <1>3. \A q \in Procs : Busy(q) => Busy(q)'
    BY DEF Others, Busy
  <1> HIDE DEF Busy, AliveOp, Alive, IoKept
  <1> QED
    BY <1>1, <1>2, <1>3 DEF StallInv, IoKept

\* A step of p out of a stop or an error: the connector is stopped.
LEMMA StallStopped ==
    ASSUME StallInv, NEW p \in Procs, Others(p), ~m_started'
    PROVE  StallInv'
  BY DEF StallInv

LEMMA StallApp ==
    ASSUME TypeOK, StallInv, ~overlapped', NEW t \in Threads, AppStep(t)
    PROVE  StallInv'
  <1>1. t \in Procs /\ pc \in [Procs -> PcType]
    BY DEF Procs, TypeOK, PcType
  <1>2. CASE start(t)
    <2>1. Others(t) /\ pc'[t].at = "start"
      BY <1>1, <1>2, MoveAt DEF start, PcAt
    <2>2. \A q \in Procs : pc[q].at # "close"
      BY <1>2 DEF start
    <2>3. \A q \in Procs : pc'[q].at # "close"
      BY <2>1, <2>2 DEF Others
    <2>4. Busy(t)'
      BY <2>1 DEF Busy
    <2> QED
      BY <1>1, <2>1, <2>3, <2>4 DEF StallInv
  <1>3. CASE app_stop(t)
    <2>1. Others(t) /\ pc[t].at = "idle" /\ pc'[t].at = "stop"
      BY <1>1, <1>3, MoveAt DEF app_stop, PcAt
    <2>2. (AliveOp => AliveOp') /\ Busy(t)'
      BY <1>3, <2>1 DEF app_stop, AliveOp, Busy
    <2> QED
      BY <1>1, <1>3, <2>1, <2>2, StallKept DEF app_stop, entityVars, connVars
  <1>4. ASSUME NEW h \in Handler, app_start_io(t, h) PROVE StallInv'
    <2>1. /\ Others(t) /\ pc[t].at = "idle" /\ pc'[t].at \in {"idle", "notify"}
      BY <1>1, <1>4, MoveNotify DEF app_start_io, Others
    <2>2. (AliveOp => AliveOp') /\ (Busy(t) => Busy(t)')
      BY <1>4, <2>1 DEF app_start_io, AliveOp, Busy
    <2>3. IoKept
      BY <1>4, IoSame DEF app_start_io, connVars, TypeOK
    <2> QED
      BY <1>1, <1>4, <2>1, <2>2, <2>3, StallKept DEF app_start_io, entityVars, connVars
  <1>5. ASSUME NEW h \in Handler, app_stop_io(t, h) PROVE StallInv'
    <2>1. Others(t) /\ pc[t].at = "idle" /\ pc'[t].at = "notify"
      BY <1>1, <1>5, MoveNotify DEF app_stop_io
    <2>2. (AliveOp => AliveOp') /\ Busy(t)'
      BY <1>5, <2>1 DEF app_stop_io, AliveOp, Busy
    <2> QED
      BY <1>1, <1>5, <2>1, <2>2, StallKept DEF app_stop_io, entityVars, connVars
  <1> QED
    BY <1>2, <1>3, <1>4, <1>5 DEF AppStep

LEMMA StallCall ==
    ASSUME TypeOK, StallInv, NEW p \in Procs, InCall(p)
    PROVE  StallInv'
  <1>1. pc \in [Procs -> PcType]
    BY DEF TypeOK, PcType
  <1>2. CASE start_body(p)
    <2>1. Others(p) /\ pc'[p].at = "idle"
      BY <1>1, <1>2, MoveAt DEF start_body, PcAt
    <2>2. AliveOp' /\ ~m_shutting_down' /\ m_started' = m_started
      BY <1>2, StartPosts DEF start_body, entityVars
    <2>3. \A q \in Procs : pc'[q].at = "close" => ~m_started'
      BY <2>1, <2>2 DEF StallInv, Others
    <2> QED
      BY <2>2, <2>3 DEF StallInv
  <1>3. CASE stop(p)
    <2>1. Others(p) /\ ~m_started'
      BY <1>1, <1>3, MoveAt, MoveIdle DEF stop, entity_stop, PcAt
    <2> QED
      BY <2>1, StallStopped
  <1>4. CASE close(p)
    <2>1. Others(p) /\ ~m_started'
      BY <1>1, <1>4, MoveIdle DEF close, StallInv, entityVars
    <2> QED
      BY <2>1, StallStopped
  <1>5. CASE notify_close(p)
    <2>1. /\ Others(p) /\ pc[p].at = "notify"
          /\ pc'[p].at \in {"notify", "chg_false"}
      BY <1>1, <1>5, MoveAt DEF notify_close, PcAt, Others
    <2>2. (AliveOp => AliveOp') /\ Busy(p)'
      BY <1>5, <2>1 DEF notify_close, AliveOp, Busy
    <2> QED
      BY <1>5, <2>1, <2>2, StallKept DEF notify_close, entityVars, connVars
  <1>6. CASE notify_chg(p)
    <2>1. Others(p) /\ pc[p].at = "chg_false" /\ pc'[p].at = "stop"
      BY <1>1, <1>6, MoveStop DEF notify_chg
    <2>2. (AliveOp => AliveOp') /\ Busy(p)'
      BY <1>6, <2>1 DEF notify_chg, AliveOp, Busy
    <2> QED
      BY <1>6, <2>1, <2>2, StallKept DEF notify_chg, entityVars, connVars
  <1> QED
    BY <1>2, <1>3, <1>4, <1>5, <1>6 DEF InCall

LEMMA StallHandler ==
    ASSUME TypeOK, StallInv, InHandler
    PROVE  StallInv'
  <1>1. pc \in [Procs -> PcType] /\ RunThread \in Procs
    BY DEF TypeOK, PcType, Procs
  <1>2. CASE stop_entity_only
    <2>1. Others(RunThread) /\ ~m_started'
      BY <1>1, <1>2, MoveIdle DEF stop_entity_only
    <2> QED
      BY <1>1, <2>1, StallStopped
  <1>3. CASE retry
    <2>1. /\ Others(RunThread) /\ pc[RunThread].at = "retry"
          /\ pc'[RunThread].at \in {"idle", "entity_stop"}
      BY <1>1, <1>3, MoveAt DEF retry, PcAt
    <2>2. UNCHANGED <<m_started, m_shutting_down>>
      BY <1>3 DEF retry, entityVars, connVars
    <2>3. \A q \in Procs : pc'[q].at = "close" => ~m_started'
      BY <2>1, <2>2 DEF StallInv, Others
    <2>4. m_started' /\ m_shutting_down' => \E q \in Procs : pc'[q].at = "start"
      BY <1>1, <2>1, <2>2 DEF StallInv, Others
    <2>5. m_started' => AliveOp' \/ \E q \in Procs : Busy(q)'
      <3> SUFFICES ASSUME m_started PROVE AliveOp' \/ \E q \in Procs : Busy(q)'
        BY <2>2
      <3>1. CASE m_shutting_down
        BY <2>2, <2>4, <3>1 DEF Busy
      <3>2. CASE ~m_shutting_down
        <4>1. CASE ops' = Append(Abort(ops, {PendingOp("timer")}), PendingOp("timer"))
          BY <4>1, RetryPosts
        <4>2. CASE At(RunThread, "entity_stop")
          <5>1. pc'[RunThread].at = "entity_stop"
            BY <1>1, <4>2, MoveAt DEF PcAt
          <5> QED
            BY <1>1, <5>1 DEF Busy
        <4> QED
          BY <1>3, <3>2, <4>1, <4>2 DEF retry
      <3> QED
        BY <3>1, <3>2
    <2> QED
      BY <2>3, <2>4, <2>5 DEF StallInv
  <1> QED
    BY <1>2, <1>3 DEF InHandler

LEMMA StallOp ==
    ASSUME TypeOK, StallInv, NEW i \in DOMAIN ops, RunOp(i) \/ op_ends(i)
    PROVE  StallInv'
  <1>1. pc \in [Procs -> PcType] /\ RunThread \in Procs /\ ops[i] \in Op
    BY DEF TypeOK, PcType, Procs
  <1> DEFINE Kept == UNCHANGED <<m_started, m_shutting_down>> /\ IoKept
  <1> USE DEF handlerVars
  <1>7. io' = io /\ m_io_handler' = m_io_handler => IoKept
    BY IoSame DEF TypeOK
  <1>2. CASE handle_resolve(i)
    <2>1. Others(RunThread) /\ pc[RunThread].at = "idle" /\ Kept
      BY <1>1, <1>2, <1>7, MoveAt DEF handle_resolve, Handling, PcAt, Others, entityVars
    <2>2. CASE At(RunThread, "entity_stop")
      <3>1. pc'[RunThread].at = "entity_stop"
        BY <1>1, <2>2, MoveAt DEF PcAt
      <3>2. Busy(RunThread)' /\ \A q \in Procs : pc'[q].at = "close" => ~m_started'
        BY <2>1, <3>1 DEF Busy, StallInv, Others
      <3>3. \A q \in Procs : pc[q].at = "start" => pc'[q].at = "start"
        BY <2>1 DEF Others
      <3> QED
        BY <1>1, <2>1, <3>2, <3>3 DEF StallInv
    <2>3. CASE UNCHANGED pc /\ start_connect(RemoveAt(ops, i))
      <3>1. AliveOp'
        BY <2>3, ReplacedOp
      <3>2. Busy(RunThread) => Busy(RunThread)'
        BY <2>3 DEF Busy
      <3> QED
        BY <1>1, <2>1, <2>3, <3>1, <3>2, StallKept
    <2> QED
      BY <1>2, <2>2, <2>3 DEF handle_resolve
  <1>3. CASE handle_connect_error(i)
    <2>1. /\ Others(RunThread) /\ pc[RunThread].at = "idle" /\ pc'[RunThread].at = "retry"
          /\ Kept
      BY <1>1, <1>3, <1>7, MoveAt DEF handle_connect_error, Handling, PcAt, entityVars, connVars
    <2>2. Busy(RunThread)' /\ \A q \in Procs : pc'[q].at = "close" => ~m_started'
      BY <2>1 DEF Busy, StallInv, Others
    <2>3. \A q \in Procs : pc[q].at = "start" => pc'[q].at = "start"
      BY <2>1 DEF Others
    <2> QED
      BY <1>1, <2>1, <2>2, <2>3 DEF StallInv
  <1>4. CASE handle_connect(i)
    <2>1. PICK h \in Handler : /\ m_io_handler' = h
                               /\ io' = [Dropped(m_io_handler) EXCEPT ![h] = "created"]
      BY <1>4 DEF handle_connect
    <2>2. Alive(m_io_handler)'
      <3>1. Dropped(m_io_handler) \in [Handler -> {"none", "created", "started", "closed"}]
        BY DroppedType DEF TypeOK
      <3>2. io'[h] = "created"
        BY <2>1, <3>1
      <3> QED
        BY <2>1, <3>2, HandlerAssumption DEF None, Alive
    <2>3. UNCHANGED <<pc, m_started, m_shutting_down>>
      BY <1>4 DEF handle_connect, entityVars
    <2> QED
      BY <2>2, <2>3 DEF StallInv
  <1>5. CASE handle_timer(i)
    <2>1. UNCHANGED pc /\ Kept
      BY <1>5, <1>7 DEF handle_timer, entityVars, connVars
    <2>2. AliveOp => AliveOp'
      <3>1. CASE start_connect(RemoveAt(ops, i))
        BY <3>1, ReplacedOp
      <3>2. CASE ops[i].st = "failed" /\ ops' = RemoveAt(ops, i)
        <4>1. ~GoesOn(ops[i])
          BY <1>1, <1>5, <3>2 DEF handle_timer, Handling, GoesOn, Ended, PendingOp, Op
        <4> QED
          BY <3>2, <4>1, RemovedOp
      <3> QED
        BY <1>5, <3>1, <3>2 DEF handle_timer
    <2>3. Others(RunThread) /\ (Busy(RunThread) => Busy(RunThread)')
      BY <2>1 DEF Others, Busy
    <2> QED
      BY <1>1, <2>1, <2>2, <2>3, StallKept
  <1>6. CASE op_ends(i)
    <2>1. UNCHANGED pc /\ Kept
      BY <1>6, <1>7 DEF op_ends, entityVars, connVars
    <2>2. AliveOp => AliveOp'
      BY <1>6, EndedOp
    <2>3. Others(RunThread) /\ (Busy(RunThread) => Busy(RunThread)')
      BY <2>1 DEF Others, Busy
    <2> QED
      BY <1>1, <2>1, <2>2, <2>3, StallKept
  <1> QED
    BY <1>2, <1>3, <1>4, <1>5, <1>6 DEF RunOp

LEMMA StallRead ==
    ASSUME TypeOK, StallInv, NEW h \in Handler, handle_read(h) \/ kernel_read(h)
    PROVE  StallInv'
  <1>1. pc \in [Procs -> PcType] /\ RunThread \in Procs
    BY DEF TypeOK, PcType, Procs
  <1>2. /\ Others(RunThread)
        /\ pc'[RunThread] = pc[RunThread]
             \/ (pc[RunThread].at = "idle" /\ pc'[RunThread].at = "notify")
    BY <1>1, MoveNotify DEF handle_read, kernel_read, Others
  <1>3. UNCHANGED <<m_started, m_shutting_down, m_io_handler, ops, io>>
    BY DEF handle_read, kernel_read, read_again, read_over, read_ends, entityVars, connVars
  <1>5. IoKept
    BY <1>3, IoSame DEF TypeOK
  <1>4. (AliveOp => AliveOp') /\ (Busy(RunThread) => Busy(RunThread)')
    BY <1>2, <1>3 DEF AliveOp, Busy
  <1> QED
    BY <1>1, <1>2, <1>3, <1>4, <1>5, StallKept

\* An overlap of start and stop is not forgotten.
LEMMA OnceOverlapped == overlapped /\ [Next]_vars => overlapped'
  <1> SUFFICES ASSUME overlapped, [Next]_vars PROVE overlapped'
    OBVIOUS
  <1>1. ASSUME NEW t \in Threads, AppStep(t) PROVE overlapped'
    BY <1>1 DEF AppStep, start, app_stop, app_start_io, app_stop_io
  <1>2. ASSUME NEW p \in Procs, InCall(p) PROVE overlapped'
    BY <1>2 DEF InCall, start_body, stop, close, notify_close, notify_chg
  <1>3. ASSUME InHandler PROVE overlapped'
    BY <1>3 DEF InHandler, stop_entity_only, retry
  <1>4. ASSUME NEW i \in DOMAIN ops, RunOp(i) \/ op_ends(i) PROVE overlapped'
    BY <1>4 DEF RunOp, handle_resolve, handle_connect_error, handle_connect, handle_timer, op_ends
  <1>5. ASSUME NEW h \in Handler, handle_read(h) \/ kernel_read(h) PROVE overlapped'
    BY <1>5 DEF handle_read, kernel_read
  <1>6. CASE UNCHANGED vars
    BY <1>6 DEF vars
  <1> QED
    BY <1>1, <1>2, <1>3, <1>4, <1>5, <1>6 DEF Next, Step

\* A started connector is resolving, connecting or waiting to, or has a
\* connection that is not closed, or a thread is in the middle of a call
\* (tcp_connector.hpp), whatever is started and stopped by whom, until a start
\* comes between the exchange of the flag in a stop and its close: then the close
\* cancels what the start posted, and retry gives up.
THEOREM NotStalled == Spec => []NeverStalled
  <1>1. Init => StallInv
    BY DEF Init, HandlersInit, EntityInit, StallInv, Idle
  <1>2. IInv /\ (overlapped \/ StallInv) /\ [Next]_vars => (overlapped \/ StallInv)'
    <2> SUFFICES ASSUME IInv, StallInv, ~overlapped', [Next]_vars PROVE StallInv'
      BY OnceOverlapped
    <2>1. TypeOK
      BY DEF IInv
    <2>2. CASE UNCHANGED vars
      BY <2>2 DEF vars, entityVars, connVars, handlerVars, StallInv, AliveOp, Alive, Busy
    <2>3. CASE Next
      BY <2>1, <2>3, StallApp, StallCall, StallHandler, StallOp, StallRead DEF Next, Step
    <2> QED
      BY <2>2, <2>3
  <1>3. overlapped \/ StallInv => NeverStalled
    BY DEF StallInv, NeverStalled, AliveOp
  <1> QED
    BY <1>1, <1>2, <1>3, InitHolds, ChainStep, PTL DEF Spec

=============================================================================
