------------------------- MODULE TcpAcceptorProofs -------------------------
(***************************************************************************)
(* Proofs about TcpAcceptor, for every set of connections and of threads   *)
(* and every number of starts and accept errors.                           *)
(***************************************************************************)
EXTENDS TcpAcceptor, SequenceLemmas

USE DEF stopVars

-----------------------------------------------------------------------------
(* The inductive strengthening of ContainerExact and StopClosesStarted.    *)

\* A connection not yet made has left no trace, one read from was started.
HandlerLife(h) ==
    /\ io[h] = "none" => ~Stored(h) /\ up[h] = 0
    /\ read[h] # "none" => io[h] \in {"started", "closed"}

\* A thread inside notify_me holds a connection that was started, and after the
\* close one that is closed.
ProcLife(p) ==
    /\ pc[p].at = "notify" => pc[p].h \in Handler /\ io[pc[p].h] \in {"started", "closed"}
    /\ pc[p].at = "erase" => pc[p].h \in Handler /\ io[pc[p].h] = "closed"

\* The connection being stored is not known to the application, which therefore
\* cannot start or end it.
RunLife ==
    /\ pc[RunThread].at = "push" =>
         /\ pc[RunThread].h \in Handler
         /\ io[pc[RunThread].h] = "created"
         /\ up[pc[RunThread].h] = 0
         /\ ~Stored(pc[RunThread].h)
    /\ pc[RunThread].at = "chg_true" =>
         pc[RunThread].h \in Handler /\ io[pc[RunThread].h] # "none"

LifeInv == /\ \A h \in Handler : HandlerLife(h)
           /\ \A p \in Procs : ProcLife(p)
           /\ RunLife

InLoop(p) == \/ pc[p].at = "loop"
             \/ pc[p].at \in {"notify", "erase"} /\ pc[p].back = "loop"

\* What p, inside stop(), has still to close: all of must[p] while the container
\* is being copied, then what is in the copy or in p's hands.
StopOf(p) ==
    /\ pc[p].at = "copy" => \A h \in must[p] : io[h] \in {"started", "closed"}
    /\ InLoop(p) =>
         \A h \in must[p] :
           \/ io[h] = "closed"
           \/ io[h] = "started" /\ Contains(pc[p].todo, h)
           \/ io[h] = "started" /\ pc[p].at = "notify" /\ pc[p].h = h
    /\ pc[p].at = "close" => \A h \in must[p] : io[h] = "closed"

StopInv == \A p \in Procs : StopOf(p)

IInv == AcceptorInv /\ LifeInv /\ StopInv

-----------------------------------------------------------------------------
(* How the actions move a thread.                                          *)

PcType == [at : PcAt, h : Handler \cup {None}, todo : Seq(Handler), back : {"idle", "loop"}]

\* The step of one thread leaves the others where they are.
Others(p) == \A q \in Procs : q # p => pc'[q] = pc[q]

LEMMA MoveAt ==
    ASSUME pc \in [Procs -> PcType], NEW p \in Procs, NEW w \in PcAt, At(p, w)
    PROVE  /\ pc' \in [Procs -> PcType] /\ Others(p)
           /\ pc'[p].at = w /\ pc'[p].h = pc[p].h
           /\ pc'[p].todo = pc[p].todo /\ pc'[p].back = pc[p].back
  BY DEF At, PcType, Others

LEMMA MoveNotify ==
    ASSUME pc \in [Procs -> PcType], NEW p \in Procs, NEW h \in Handler, Notify(p, h)
    PROVE  /\ pc' \in [Procs -> PcType] /\ Others(p)
           /\ pc'[p].at = "notify" /\ pc'[p].h = h /\ pc'[p].back = "idle"
  BY DEF Notify, PcType, Others, PcAt

LEMMA MoveIdle ==
    ASSUME pc \in [Procs -> PcType], NEW p \in Procs, pc' = [pc EXCEPT ![p] = Idle]
    PROVE  pc' \in [Procs -> PcType] /\ Others(p) /\ pc'[p].at = "idle"
  BY DEF Idle, PcType, Others, PcAt, None

LEMMA MoveCopy ==
    ASSUME pc \in [Procs -> PcType], m_io_handlers \in Seq(Handler), NEW p \in Procs,
           pc' = [pc EXCEPT ![p].at = "loop", ![p].todo = m_io_handlers]
    PROVE  /\ pc' \in [Procs -> PcType] /\ Others(p)
           /\ pc'[p].at = "loop" /\ pc'[p].todo = m_io_handlers
  BY DEF PcType, Others, PcAt

LEMMA MoveLoop ==
    ASSUME pc \in [Procs -> PcType], NEW p \in Procs, pc[p].todo # << >>,
           NEW h \in Handler, h = Head(pc[p].todo), NEW w \in {"notify", "loop"},
           pc' = [pc EXCEPT ![p].todo = Tail(@), ![p].h = h, ![p].at = w, ![p].back = "loop"]
    PROVE  /\ pc' \in [Procs -> PcType] /\ Others(p)
           /\ pc'[p].at = w /\ pc'[p].h = h
           /\ pc'[p].todo = Tail(pc[p].todo) /\ pc'[p].back = "loop"
  <1>1. pc[p].todo \in Seq(Handler) /\ Tail(pc[p].todo) \in Seq(Handler)
    BY DEF PcType
  <1>2. w \in PcAt
    BY DEF PcAt
  <1> QED
    BY <1>1, <1>2 DEF PcType, Others

LEMMA MoveBack ==
    ASSUME pc \in [Procs -> PcType], NEW p \in Procs,
           pc' = [pc EXCEPT ![p].at = pc[p].back, ![p].h = None]
    PROVE  /\ pc' \in [Procs -> PcType] /\ Others(p)
           /\ pc'[p].at = pc[p].back
           /\ pc'[p].todo = pc[p].todo /\ pc'[p].back = pc[p].back
  BY DEF PcType, Others, PcAt, None

LEMMA MovePush ==
    ASSUME pc \in [Procs -> PcType], NEW p \in Procs, NEW h \in Handler,
           pc' = [pc EXCEPT ![p].at = "push", ![p].h = h]
    PROVE  /\ pc' \in [Procs -> PcType] /\ Others(p)
           /\ pc'[p].at = "push" /\ pc'[p].h = h
  BY DEF PcType, Others, PcAt

-----------------------------------------------------------------------------
(* What a step leaves alone.                                               *)

\* A connection only moves on: once started it is started or closed.
IoGrows == \A h \in Handler : /\ io[h] = "closed" => io'[h] = "closed"
                              /\ io[h] = "started" => io'[h] \in {"started", "closed"}

\* What ContainerExact says of one connection.
ExactOf(h) ==
    /\ io[h] \in {"created", "started"} =>
         Stored(h) \/ (pc[RunThread].at = "push" /\ pc[RunThread].h = h)
    /\ io[h] = "closed" /\ Stored(h) =>
         \E p \in Procs : pc[p].at = "erase" /\ pc[p].h = h

\* It is kept by a step that leaves the connection, the container and the threads
\* that are to push or to erase where they were.
LEMMA ExactKept ==
    ASSUME ContainerExact, NEW g \in Handler, io'[g] = io[g], m_io_handlers' = m_io_handlers,
           \A q \in Procs : pc[q].at = "erase" => pc'[q] = pc[q],
           pc[RunThread].at = "push" => pc'[RunThread] = pc[RunThread]
    PROVE  ExactOf(g)'
  <1>1. ExactOf(g)
    BY DEF ContainerExact, ExactOf
  <1>2. Stored(g)' = Stored(g)
    BY DEF Stored
  <1>3. CASE io[g] = "closed" /\ Stored(g)
    <2>1. PICK q \in Procs : pc[q].at = "erase" /\ pc[q].h = g
      BY <1>1, <1>3 DEF ExactOf
    <2>2. pc'[q].at = "erase" /\ pc'[q].h = g
      BY <2>1
    <2> QED
      BY <1>3, <2>2 DEF ExactOf
  <1>4. CASE ~(io[g] = "closed" /\ Stored(g))
    <2>1. io[g] \in {"created", "started"} =>
             Stored(g)' \/ (pc'[RunThread].at = "push" /\ pc'[RunThread].h = g)
      BY <1>1, <1>2 DEF ExactOf
    <2> QED
      BY <1>2, <1>4, <2>1 DEF ExactOf
  <1> QED
    BY <1>3, <1>4

\* A thread inside stop() is not disturbed by what other threads do.
LEMMA StopKept ==
    ASSUME TypeOK, NEW q \in Procs, StopOf(q), IoGrows, pc'[q] = pc[q], must'[q] = must[q]
    PROVE  StopOf(q)'
  <1>1. must[q] \subseteq Handler
    BY DEF TypeOK
  <1>2. InLoop(q)' = InLoop(q)
    BY DEF InLoop
  <1> QED
    BY <1>1, <1>2 DEF StopOf, IoGrows

\* The steps that touch neither the connections nor the container, except that
\* a read that is outstanding goes on or ends.
Quiet == /\ UNCHANGED <<io, up, m_io_handlers>>
         /\ \A h \in Handler : read[h] = "none" => read'[h] = "none"

LEMMA QuietLife ==
    ASSUME IInv, NEW p \in Procs, Quiet, Others(p),
           pc[p].at \notin {"erase", "push"}, ProcLife(p)',
           pc'[p].at \notin {"push", "chg_true"}
    PROVE  (ContainerExact /\ LifeInv)'
  <1> USE DEF IInv, AcceptorInv, LifeInv
  <1>0. RunThread \in Procs
    BY DEF Procs
  <1>1. ContainerExact'
    BY <1>0 DEF ContainerExact, Quiet, Others, Stored
  <1>2. \A h \in Handler : HandlerLife(h)'
    BY DEF HandlerLife, Quiet, Stored
  <1>3. \A q \in Procs : ProcLife(q)'
    BY DEF ProcLife, Quiet, Others
  <1>4. RunLife'
    BY <1>0 DEF RunLife, Quiet, Others, Stored
  <1> QED
    BY <1>1, <1>2, <1>3, <1>4

LEMMA QuietStep ==
    ASSUME IInv, NEW p \in Procs, Quiet, Others(p), TypeOK',
           pc[p].at \notin {"erase", "push"}, pc'[p].at \notin {"push", "chg_true"},
           ProcLife(p)', StopOf(p)', \A q \in Procs : q # p => must'[q] = must[q]
    PROVE  IInv'
  <1>1. (ContainerExact /\ LifeInv)'
    BY QuietLife
  <1>2. IoGrows
    BY DEF IoGrows, Quiet
  <1>3. ASSUME NEW q \in Procs PROVE StopOf(q)'
    <2>1. CASE q # p
      BY <1>2, <2>1, StopKept DEF IInv, AcceptorInv, StopInv, Others
    <2> QED
      BY <2>1
  <1> QED
    BY <1>1, <1>3 DEF IInv, AcceptorInv, StopInv

\* The same, for a thread that is not inside a stop afterwards.
LEMMA QuietMove ==
    ASSUME IInv, NEW p \in Procs, Quiet, Others(p), TypeOK',
           pc[p].at \notin {"erase", "push"}, pc'[p].at \in {"idle", "open", "stop"},
           \A q \in Procs : q # p => must'[q] = must[q]
    PROVE  IInv'
  <1>1. ProcLife(p)' /\ StopOf(p)'
    BY DEF ProcLife, StopOf, InLoop
  <1> QED
    BY <1>1, QuietStep

\* The same, for a step that moves no thread.
LEMMA QuietStill ==
    ASSUME IInv, Quiet, TypeOK', UNCHANGED <<pc, must>>
    PROVE  IInv'
  <1>1. ContainerExact'
    BY DEF IInv, AcceptorInv, ContainerExact, Quiet, Stored
  <1>2. \A h \in Handler : HandlerLife(h)'
    BY DEF IInv, LifeInv, HandlerLife, Quiet, Stored
  <1>3. \A q \in Procs : ProcLife(q)'
    BY DEF IInv, LifeInv, ProcLife, Quiet
  <1>4. RunLife'
    BY DEF IInv, LifeInv, RunLife, Quiet, Stored
  <1>5. StopInv'
    BY DEF IInv, StopInv, StopOf, InLoop, Quiet
  <1> QED
    BY <1>1, <1>2, <1>3, <1>4, <1>5 DEF IInv, AcceptorInv, LifeInv

-----------------------------------------------------------------------------
(* The calls start and stop.                                               *)

\* Closing the listening socket leaves as many accepts outstanding.
LEMMA AbortedType ==
    ASSUME accepts \in Seq(AcceptSt)
    PROVE  Aborted \in Seq(AcceptSt) /\ Len(Aborted) = Len(accepts)
  <1>1. Len(accepts) \in Nat /\ DOMAIN accepts = 1 .. Len(accepts)
    OBVIOUS
  <1>2. Aborted \in [1 .. Len(accepts) -> AcceptSt]
    BY <1>1 DEF Aborted, AcceptSt
  <1> QED
    BY <1>1, <1>2, MapSeq

LEMMA StartStep ==
    ASSUME IInv, NEW p \in Procs, start(p) \/ app_stop(p)
    PROVE  IInv'
  <1>0. PICK w \in {"open", "stop"} : pc[p].at = "idle" /\ At(p, w)
    BY DEF start, app_stop
  <1>1. pc \in [Procs -> PcType] /\ w \in PcAt
    BY DEF IInv, AcceptorInv, TypeOK, PcType, PcAt
  <1>2. pc' \in [Procs -> PcType] /\ Others(p) /\ pc'[p].at = w
    BY <1>0, <1>1, MoveAt
  <1>3. starts' \in 0 .. MaxStarts /\ m_started' \in BOOLEAN
    <2>1. starts \in 0 .. MaxStarts /\ m_started \in BOOLEAN
      BY DEF IInv, AcceptorInv, TypeOK, HandlersTypeOK, EntityTypeOK
    <2>2. CASE start(p)
      <3>1. starts < MaxStarts /\ starts' = starts + 1 /\ m_started' = TRUE
        BY <2>2 DEF start, entity_start
      <3> QED
        BY <2>1, <3>1, BoundAssumption
    <2>3. CASE app_stop(p)
      <3>1. starts' = starts /\ m_started' = m_started
        BY <2>3 DEF app_stop, entityVars
      <3> QED
        BY <2>1, <3>1
    <2> QED
      BY <2>2, <2>3
  <1>4. Quiet /\ UNCHANGED <<read, down, m_acceptor, accepts, errors, must, overlapped>>
    BY DEF start, app_stop, Quiet, handlerVars, chgVars
  <1>5. TypeOK'
    BY <1>2, <1>3, <1>4 DEF IInv, AcceptorInv, TypeOK, PcType, HandlersTypeOK, EntityTypeOK,
       Quiet
  <1> QED
    BY <1>0, <1>2, <1>4, <1>5, QuietMove

LEMMA OpenStep ==
    ASSUME IInv, NEW p \in Procs, open_acceptor(p)
    PROVE  IInv'
  <1>0. PICK w \in {"idle", "stop"} : pc[p].at = "open" /\ At(p, w)
    BY DEF open_acceptor
  <1>1. pc \in [Procs -> PcType] /\ w \in PcAt
    BY DEF IInv, AcceptorInv, TypeOK, PcType, PcAt
  <1>2. pc' \in [Procs -> PcType] /\ Others(p) /\ pc'[p].at = w
    BY <1>0, <1>1, MoveAt
  <1>3. accepts' \in Seq(AcceptSt) /\ m_acceptor' \in {"open", "closed"}
    <2>1. accepts \in Seq(AcceptSt) /\ m_acceptor \in {"open", "closed"}
      BY DEF IInv, AcceptorInv, TypeOK
    <2>2. \/ accepts' = Append(Aborted, "pending") /\ m_acceptor' = "open"
          \/ accepts' = accepts /\ m_acceptor' = m_acceptor
      BY DEF open_acceptor, AsyncAccept
    <2>3. "pending" \in AcceptSt
      BY DEF AcceptSt
    <2> QED
      BY <2>1, <2>2, <2>3, AbortedType
  <1>4. Quiet /\ UNCHANGED <<read, m_started, down, starts, errors, must, overlapped>>
    BY DEF open_acceptor, Quiet, handlerVars, chgVars, entityVars
  <1>5. TypeOK'
    BY <1>2, <1>3, <1>4 DEF IInv, AcceptorInv, TypeOK, PcType, HandlersTypeOK, EntityTypeOK,
       Quiet
  <1> QED
    BY <1>0, <1>2, <1>4, <1>5, QuietMove

LEMMA StopStep ==
    ASSUME IInv, NEW p \in Procs, stop(p)
    PROVE  IInv'
  <1> USE DEF IInv, AcceptorInv, TypeOK, HandlersTypeOK, EntityTypeOK
  <1>0. pc[p].at = "stop" /\ pc \in [Procs -> PcType]
    BY DEF stop, PcType
  <1>1. Quiet /\ UNCHANGED <<read, down, m_acceptor, accepts, starts, errors>>
        /\ overlapped' \in BOOLEAN
    BY DEF stop, Quiet, handlerVars, chgVars
  <1>2. CASE entity_stop /\ must' = [must EXCEPT ![p] = {h \in Handler : io[h] = "started"}]
             /\ At(p, "copy")
    <2>1. pc' \in [Procs -> PcType] /\ Others(p) /\ pc'[p].at = "copy"
      BY <1>0, <1>2, MoveAt DEF PcAt
    <2>2. TypeOK'
      BY <1>1, <1>2, <2>1 DEF PcType, Quiet, entity_stop
    <2>3. ProcLife(p)' /\ StopOf(p)'
      BY <1>1, <1>2, <2>1 DEF ProcLife, StopOf, InLoop, Quiet
    <2> QED
      BY <1>0, <1>1, <1>2, <2>1, <2>2, <2>3, QuietStep
  <1>3. CASE pc' = [pc EXCEPT ![p] = Idle] /\ UNCHANGED <<m_started, stopVars>>
    <2>1. pc' \in [Procs -> PcType] /\ Others(p) /\ pc'[p].at = "idle"
      BY <1>0, <1>3, MoveIdle
    <2>2. TypeOK'
      BY <1>1, <1>3, <2>1 DEF PcType, Quiet
    <2> QED
      BY <1>0, <1>1, <1>3, <2>1, <2>2, QuietMove
  <1> QED
    BY <1>2, <1>3 DEF stop

LEMMA CopyStep ==
    ASSUME IInv, NEW p \in Procs, stop_copy(p)
    PROVE  IInv'
  <1> USE DEF IInv, AcceptorInv, TypeOK, HandlersTypeOK, EntityTypeOK
  <1>0. pc[p].at = "copy" /\ pc \in [Procs -> PcType]
    BY DEF stop_copy, PcType
  <1>1. Quiet /\ UNCHANGED <<read, m_started, down, m_acceptor, accepts,
                             starts, errors, must, overlapped>>
    BY DEF stop_copy, Quiet, handlerVars, chgVars, entityVars
  <1>2. /\ pc' \in [Procs -> PcType] /\ Others(p)
        /\ pc'[p].at = "loop" /\ pc'[p].todo = m_io_handlers
    BY <1>0, MoveCopy DEF stop_copy
  <1>3. TypeOK'
    BY <1>1, <1>2 DEF PcType, Quiet
  <1>4. ASSUME NEW h \in must[p]
        PROVE  io[h] = "closed" \/ (io[h] = "started" /\ Contains(m_io_handlers, h))
    <2>1. h \in Handler /\ io[h] \in {"started", "closed"}
      BY <1>0 DEF StopInv, StopOf
    <2>2. pc[RunThread].at = "push" /\ pc[RunThread].h = h => io[h] = "created"
      BY DEF LifeInv, RunLife
    <2> QED
      BY <2>1, <2>2 DEF ContainerExact, Stored
  <1>5. ProcLife(p)' /\ StopOf(p)'
    BY <1>1, <1>2, <1>4 DEF ProcLife, StopOf, Quiet
  <1> QED
    BY <1>0, <1>1, <1>2, <1>3, <1>5, QuietStep

LEMMA LoopStep ==
    ASSUME IInv, NEW p \in Procs, stop_loop(p)
    PROVE  IInv'
  <1> USE DEF IInv, AcceptorInv, TypeOK, HandlersTypeOK, EntityTypeOK
  <1>0. pc[p].at = "loop" /\ pc \in [Procs -> PcType] /\ pc[p].todo \in Seq(Handler)
    BY DEF stop_loop, PcType
  <1>1. Quiet /\ UNCHANGED <<read, m_started, down, m_acceptor, accepts,
                             starts, errors, must, overlapped>>
    BY DEF stop_loop, Quiet, handlerVars, chgVars, entityVars
  <1>2. \A h \in must[p] : io[h] = "closed" \/ (io[h] = "started" /\ Contains(pc[p].todo, h))
    BY <1>0 DEF StopInv, StopOf, InLoop
  <1>3. CASE pc[p].todo = << >> /\ At(p, "close")
    <2>1. pc' \in [Procs -> PcType] /\ Others(p) /\ pc'[p].at = "close"
      BY <1>0, <1>3, MoveAt DEF PcAt
    <2>2. TypeOK'
      BY <1>1, <2>1 DEF PcType, Quiet
    <2>3. \A h : ~Contains(pc[p].todo, h)
      BY <1>3 DEF Contains
    <2>4. ProcLife(p)' /\ StopOf(p)'
      BY <1>1, <1>2, <2>1, <2>3 DEF ProcLife, StopOf, InLoop, Quiet
    <2> QED
      BY <1>0, <1>1, <2>1, <2>2, <2>4, QuietStep
  <1>4. CASE pc[p].todo # << >>
    <2> DEFINE h == Head(pc[p].todo)
               w == IF io[h] = "started" THEN "notify" ELSE "loop"
    <2>1. h \in Handler /\ \A g : Contains(pc[p].todo, g) => g = h \/ Contains(Tail(pc[p].todo), g)
      BY <1>0, <1>4, HeadOrTail
    <2>2. pc' = [pc EXCEPT ![p].todo = Tail(@), ![p].h = h, ![p].at = w, ![p].back = "loop"]
      BY <1>4, Zenon DEF stop_loop
    <2>3. w \in {"notify", "loop"} /\ (w = "notify" <=> io[h] = "started")
      OBVIOUS
    <2> HIDE DEF h, w
    <2>4. /\ pc' \in [Procs -> PcType] /\ Others(p)
          /\ pc'[p].at = w /\ pc'[p].h = h
          /\ pc'[p].todo = Tail(pc[p].todo) /\ pc'[p].back = "loop"
      BY <1>0, <1>4, <2>1, <2>2, <2>3, MoveLoop DEF h
    <2>5. TypeOK'
      BY <1>1, <2>4 DEF PcType, Quiet
    <2>6. ProcLife(p)'
      BY <1>1, <2>1, <2>3, <2>4 DEF ProcLife, Quiet
    <2>7. StopOf(p)'
      BY <1>1, <1>2, <2>1, <2>3, <2>4 DEF StopOf, InLoop, Quiet
    <2> QED
      BY <1>0, <1>1, <2>3, <2>4, <2>5, <2>6, <2>7, QuietStep
  <1> QED
    BY <1>3, <1>4 DEF stop_loop

LEMMA CloseStep ==
    ASSUME IInv, NEW p \in Procs, stop_close(p)
    PROVE  IInv'
  <1> USE DEF IInv, AcceptorInv, TypeOK, HandlersTypeOK, EntityTypeOK
  <1>0. pc[p].at = "close" /\ pc \in [Procs -> PcType]
    BY DEF stop_close, PcType
  <1>1. Quiet /\ UNCHANGED <<read, m_started, down, starts, errors, overlapped>>
    BY DEF stop_close, Quiet, handlerVars, chgVars, entityVars
  <1>2. pc' \in [Procs -> PcType] /\ Others(p) /\ pc'[p].at = "idle"
    BY <1>0, MoveIdle DEF stop_close
  <1>3. accepts' \in Seq(AcceptSt) /\ m_acceptor' \in {"open", "closed"}
    BY AbortedType DEF stop_close
  <1>4. must' \in [Procs -> SUBSET Handler] /\ \A q \in Procs : q # p => must'[q] = must[q]
    BY DEF stop_close
  <1>5. TypeOK'
    BY <1>1, <1>2, <1>3, <1>4 DEF PcType, Quiet
  <1> QED
    BY <1>0, <1>1, <1>2, <1>4, <1>5, QuietMove

-----------------------------------------------------------------------------
(* notify_me.                                                              *)

LEMMA NotifyCloseStep ==
    ASSUME IInv, NEW p \in Procs, notify_close(p)
    PROVE  IInv'
  <1> USE DEF IInv, AcceptorInv, TypeOK, HandlersTypeOK, EntityTypeOK
  <1> DEFINE h == pc[p].h
  <1>0. pc[p].at = "notify" /\ pc \in [Procs -> PcType] /\ RunThread \in Procs
    BY DEF notify_close, PcType, Procs
  <1>1. UNCHANGED <<m_started, up, down, m_acceptor, accepts, m_io_handlers,
                    starts, errors, must, overlapped>>
    BY DEF notify_close, chgVars, entityVars
  <1>2. h \in Handler /\ io[h] \in {"started", "closed"}
    BY <1>0 DEF LifeInv, ProcLife
  <1>3. /\ pc' \in [Procs -> PcType] /\ Others(p)
        /\ pc'[p].at = "erase" /\ pc'[p].h = h
        /\ pc'[p].todo = pc[p].todo /\ pc'[p].back = pc[p].back
    BY <1>0, MoveAt DEF notify_close, PcAt
  <1> HIDE DEF h
  <1>4. /\ io' \in [Handler -> {"none", "created", "started", "closed"}]
        /\ io'[h] = "closed" /\ \A g \in Handler : g # h => io'[g] = io[g]
        /\ read' \in [Handler -> {"none", "pending", "ready", "failed"}]
        /\ \A g \in Handler : read[g] = "none" <=> read'[g] = "none"
    <2>1. close_io(h)
      BY DEF notify_close, h
    <2> QED
      BY <1>2, <2>1 DEF close_io, handlerVars
  <1>5. TypeOK'
    BY <1>1, <1>3, <1>4 DEF PcType
  <1> USE DEF Others
  <1>6. ContainerExact'
    <2>1. IsInjective(m_io_handlers')
      BY <1>1 DEF ContainerExact
    <2>2. ASSUME NEW g \in Handler, io'[g] \in {"created", "started"}
          PROVE  Stored(g)' \/ (pc'[RunThread].at = "push" /\ pc'[RunThread].h = g)
      <3>1. g # h /\ io'[g] = io[g]
        BY <1>4, <2>2
      <3>2. Stored(g) \/ (pc[RunThread].at = "push" /\ pc[RunThread].h = g)
        BY <2>2, <3>1 DEF ContainerExact
      <3>3. pc[RunThread].at = "push" => pc'[RunThread] = pc[RunThread]
        BY <1>0, <1>3
      <3> QED
        BY <1>1, <3>2, <3>3 DEF Stored
    <2>3. ASSUME NEW g \in Handler, io'[g] = "closed", Stored(g)'
          PROVE  \E q \in Procs : pc'[q].at = "erase" /\ pc'[q].h = g
      <3>1. CASE g = h
        BY <1>3, <3>1
      <3>2. CASE g # h
        <4>1. io[g] = "closed" /\ Stored(g)
          BY <1>1, <1>4, <2>3, <3>2 DEF Stored
        <4>2. PICK q \in Procs : pc[q].at = "erase" /\ pc[q].h = g
          BY <4>1 DEF ContainerExact
        <4>3. pc'[q] = pc[q]
          BY <1>0, <1>3, <4>2
        <4> QED
          BY <4>2, <4>3
      <3> QED
        BY <3>1, <3>2
    <2> QED
      BY <2>1, <2>2, <2>3 DEF ContainerExact
  <1>7. \A g \in Handler : HandlerLife(g)'
    BY <1>1, <1>2, <1>4 DEF LifeInv, HandlerLife, Stored
  <1>8. ASSUME NEW q \in Procs PROVE ProcLife(q)'
    <2>1. CASE q = p
      BY <1>2, <1>3, <1>4, <2>1 DEF ProcLife
    <2>2. CASE q # p
      <3>1. ProcLife(q) /\ pc'[q] = pc[q]
        BY <1>3, <2>2 DEF LifeInv
      <3> QED
        BY <1>4, <3>1 DEF ProcLife
    <2> QED
      BY <2>1, <2>2
  <1>9. RunLife'
    <2>1. CASE p = RunThread
      BY <1>3, <2>1 DEF RunLife
    <2>2. CASE p # RunThread
      <3>1. RunLife /\ pc'[RunThread] = pc[RunThread]
        BY <1>0, <1>3, <2>2 DEF LifeInv
      <3> QED
        BY <1>1, <1>2, <1>4, <3>1 DEF RunLife, Stored
    <2> QED
      BY <2>1, <2>2
  <1>10. IoGrows
    BY <1>2, <1>4 DEF IoGrows
  <1>11. StopOf(p)'
    <2>1. must[p] \subseteq Handler /\ must'[p] = must[p]
      BY <1>1
    <2>2. InLoop(p)' <=> InLoop(p)
      BY <1>0, <1>3 DEF InLoop
    <2>3. StopOf(p)
      BY DEF StopInv
    <2>4. ASSUME InLoop(p), NEW g \in must[p]
          PROVE  io'[g] = "closed" \/ (io'[g] = "started" /\ Contains(pc'[p].todo, g))
      <3>1. \/ io[g] = "closed" \/ (io[g] = "started" /\ Contains(pc[p].todo, g))
            \/ g = h
        BY <2>3, <2>4 DEF StopOf, h
      <3> QED
        BY <1>3, <1>4, <2>1, <3>1
    <2> QED
      BY <1>3, <2>1, <2>2, <2>4 DEF StopOf
  <1>12. StopInv'
    BY <1>1, <1>3, <1>10, <1>11, StopKept DEF StopInv, Others
  <1> QED
    BY <1>5, <1>6, <1>7, <1>8, <1>9, <1>12 DEF LifeInv

LEMMA NotifyEraseStep ==
    ASSUME IInv, NEW p \in Procs, notify_erase(p)
    PROVE  IInv'
  <1> USE DEF IInv, AcceptorInv, TypeOK, HandlersTypeOK, EntityTypeOK
  <1> DEFINE h == pc[p].h
  <1>0. pc[p].at = "erase" /\ pc \in [Procs -> PcType] /\ RunThread \in Procs
    BY DEF notify_erase, PcType, Procs
  <1>1. UNCHANGED <<m_started, io, read, up, m_acceptor, accepts,
                    starts, errors, must, overlapped>>
    BY DEF notify_erase, handlerVars, entityVars, call_io_state_chg_cb
  <1>2. h \in Handler /\ io[h] = "closed"
    BY <1>0 DEF LifeInv, ProcLife
  <1>3. /\ pc' \in [Procs -> PcType] /\ Others(p)
        /\ pc'[p].at = pc[p].back
        /\ pc'[p].todo = pc[p].todo /\ pc'[p].back = pc[p].back
        /\ pc[p].back \in {"idle", "loop"}
    BY <1>0, MoveBack DEF notify_erase
  <1>4. /\ m_io_handlers' \in Seq(Handler)
        /\ \A g : Stored(g)' <=> g # h /\ Stored(g)
        /\ IsInjective(m_io_handlers')
    <2>1. m_io_handlers' = EraseWhere(m_io_handlers, {h}) /\ m_io_handlers \in Seq(Handler)
      BY DEF notify_erase
    <2>2. \A g : g \notin {h} <=> g # h
      OBVIOUS
    <2>3. IsInjective(m_io_handlers)
      BY DEF ContainerExact
    <2> HIDE DEF h
    <2> QED
      BY <2>1, <2>2, <2>3, EraseWhereElements DEF Stored
  <1>5. down' \in [Handler -> Nat]
    <2>1. down \in [Handler -> Nat] /\ down' = [down EXCEPT ![h] = @ + 1]
      BY DEF notify_erase, call_io_state_chg_cb
    <2> QED
      BY <1>2, <2>1
  <1> HIDE DEF h
  <1>6. TypeOK'
    BY <1>1, <1>3, <1>4, <1>5 DEF PcType
  <1> USE DEF Others
  <1>7. ContainerExact'
    <2>1. ASSUME NEW g \in Handler, io[g] \in {"created", "started"}
          PROVE  Stored(g)' \/ (pc'[RunThread].at = "push" /\ pc'[RunThread].h = g)
      <3>1. g # h
        BY <1>2, <2>1
      <3>2. Stored(g) \/ (pc[RunThread].at = "push" /\ pc[RunThread].h = g)
        BY <2>1 DEF ContainerExact
      <3>3. pc[RunThread].at = "push" => pc'[RunThread] = pc[RunThread]
        BY <1>0, <1>3
      <3> QED
        BY <1>4, <3>1, <3>2, <3>3
    <2>2. ASSUME NEW g \in Handler, io[g] = "closed", Stored(g)'
          PROVE  \E q \in Procs : pc'[q].at = "erase" /\ pc'[q].h = g
      <3>1. g # h /\ Stored(g)
        BY <1>4, <2>2
      <3>2. PICK q \in Procs : pc[q].at = "erase" /\ pc[q].h = g
        BY <2>2, <3>1 DEF ContainerExact
      <3>3. pc'[q] = pc[q]
        BY <1>3, <3>1, <3>2 DEF h
      <3> QED
        BY <3>2, <3>3
    <2> QED
      BY <1>1, <1>4, <2>1, <2>2 DEF ContainerExact
  <1>8. \A g \in Handler : HandlerLife(g)'
    BY <1>1, <1>4 DEF LifeInv, HandlerLife
  <1>9. ASSUME NEW q \in Procs PROVE ProcLife(q)'
    <2>1. CASE q = p
      BY <1>3, <2>1 DEF ProcLife
    <2>2. CASE q # p
      <3>1. ProcLife(q) /\ pc'[q] = pc[q]
        BY <1>3, <2>2 DEF LifeInv
      <3> QED
        BY <1>1, <3>1 DEF ProcLife
    <2> QED
      BY <2>1, <2>2
  <1>10. RunLife'
    <2>1. CASE p = RunThread
      BY <1>3, <2>1 DEF RunLife
    <2>2. CASE p # RunThread
      <3>1. RunLife /\ pc'[RunThread] = pc[RunThread]
        BY <1>0, <1>3, <2>2 DEF LifeInv
      <3> QED
        BY <1>1, <1>4, <3>1 DEF RunLife
    <2> QED
      BY <2>1, <2>2
  <1>11. IoGrows
    BY <1>1 DEF IoGrows
  <1>12. StopOf(p)'
    <2>1. StopOf(p)
      BY DEF StopInv
    <2>2. InLoop(p)' => InLoop(p)
      BY <1>0, <1>3 DEF InLoop
    <2> QED
      BY <1>0, <1>1, <1>3, <2>1, <2>2 DEF StopOf
  <1>13. StopInv'
    BY <1>1, <1>3, <1>11, <1>12, StopKept DEF StopInv
  <1> QED
    BY <1>6, <1>7, <1>8, <1>9, <1>10, <1>13 DEF LifeInv

-----------------------------------------------------------------------------
(* The accept handler.                                                     *)

LEMMA PushStep ==
    ASSUME IInv, push_handler
    PROVE  IInv'
  <1> USE DEF IInv, AcceptorInv, TypeOK, HandlersTypeOK, EntityTypeOK
  <1> DEFINE h == pc[RunThread].h
  <1>0. pc[RunThread].at = "push" /\ pc \in [Procs -> PcType] /\ RunThread \in Procs
    BY DEF push_handler, PcType, Procs
  <1>1. UNCHANGED <<m_started, io, read, up, down, m_acceptor, accepts,
                    starts, errors, must, overlapped>>
    BY DEF push_handler, handlerVars, entityVars, chgVars
  <1>2. h \in Handler /\ io[h] = "created" /\ ~Stored(h)
    BY <1>0 DEF LifeInv, RunLife
  <1>3. /\ pc' \in [Procs -> PcType] /\ Others(RunThread)
        /\ pc'[RunThread].at = "chg_true" /\ pc'[RunThread].h = h
    BY <1>0, MoveAt DEF push_handler, PcAt
  <1> HIDE DEF h
  <1>4. /\ m_io_handlers' \in Seq(Handler)
        /\ \A g : Stored(g)' <=> Stored(g) \/ g = h
        /\ IsInjective(m_io_handlers')
    <2>1. m_io_handlers' = Append(m_io_handlers, h) /\ m_io_handlers \in Seq(Handler)
      BY DEF push_handler, h
    <2>2. IsInjective(m_io_handlers)
      BY DEF ContainerExact
    <2> QED
      BY <1>2, <2>1, <2>2, AppendElements DEF Stored
  <1>5. TypeOK'
    BY <1>1, <1>3, <1>4 DEF PcType
  <1> USE DEF Others
  <1>6. ContainerExact'
    <2>1. ASSUME NEW g \in Handler, io[g] \in {"created", "started"} PROVE Stored(g)'
      BY <1>4, <2>1 DEF ContainerExact, h
    <2>2. ASSUME NEW g \in Handler, io[g] = "closed", Stored(g)'
          PROVE  \E q \in Procs : pc'[q].at = "erase" /\ pc'[q].h = g
      <3>1. Stored(g)
        BY <1>2, <1>4, <2>2
      <3>2. PICK q \in Procs : pc[q].at = "erase" /\ pc[q].h = g
        BY <2>2, <3>1 DEF ContainerExact
      <3>3. pc'[q] = pc[q]
        BY <1>0, <1>3, <3>2
      <3> QED
        BY <3>2, <3>3
    <2> QED
      BY <1>1, <1>4, <2>1, <2>2 DEF ContainerExact
  <1>7. \A g \in Handler : HandlerLife(g)'
    BY <1>1, <1>2, <1>4 DEF LifeInv, HandlerLife
  <1>8. \A q \in Procs : ProcLife(q)'
    BY <1>1, <1>3 DEF LifeInv, ProcLife
  <1>9. RunLife'
    BY <1>1, <1>2, <1>3 DEF RunLife
  <1>10. IoGrows
    BY <1>1 DEF IoGrows
  <1>11. StopOf(RunThread)'
    BY <1>3 DEF StopOf, InLoop
  <1>12. StopInv'
    BY <1>1, <1>3, <1>10, <1>11, StopKept DEF StopInv
  <1> QED
    BY <1>5, <1>6, <1>7, <1>8, <1>9, <1>12 DEF LifeInv

LEMMA AnnounceStep ==
    ASSUME IInv, announce
    PROVE  IInv'
  <1> USE DEF IInv, AcceptorInv, TypeOK, HandlersTypeOK, EntityTypeOK
  <1> DEFINE h == pc[RunThread].h
  <1>0. pc[RunThread].at = "chg_true" /\ pc \in [Procs -> PcType] /\ RunThread \in Procs
    BY DEF announce, PcType, Procs
  <1>1. UNCHANGED <<m_started, io, read, down, m_io_handlers, m_acceptor, accepts, starts,
                    errors, must, overlapped>>
    BY DEF announce, handlerVars, entityVars, call_io_state_chg_cb
  <1>2. h \in Handler /\ io[h] # "none"
    BY <1>0 DEF LifeInv, RunLife
  <1>3. pc' \in [Procs -> PcType] /\ Others(RunThread) /\ pc'[RunThread].at = "start_accept"
    BY <1>0, MoveAt DEF announce, PcAt
  <1>4. up' \in [Handler -> Nat] /\ \A g \in Handler : g # h => up'[g] = up[g]
    <2>1. up \in [Handler -> Nat] /\ up' = [up EXCEPT ![h] = @ + 1]
      BY DEF announce, call_io_state_chg_cb
    <2> QED
      BY <1>2, <2>1
  <1> HIDE DEF h
  <1>5. TypeOK'
    BY <1>1, <1>3, <1>4 DEF PcType
  <1> USE DEF Others
  <1>6. ContainerExact'
    <2>1. \A q \in Procs : pc[q].at = "erase" => pc'[q] = pc[q]
      BY <1>0, <1>3
    <2>2. \A g \in Handler : ExactOf(g)'
      BY <1>0, <1>1, <2>1, ExactKept
    <2> QED
      BY <1>1, <2>2 DEF ContainerExact, ExactOf
  <1>7. \A g \in Handler : HandlerLife(g)'
    BY <1>1, <1>2, <1>4 DEF LifeInv, HandlerLife, Stored
  <1>8. \A q \in Procs : ProcLife(q)'
    BY <1>1, <1>3 DEF LifeInv, ProcLife
  <1>9. RunLife'
    BY <1>3 DEF RunLife
  <1>10. IoGrows
    BY <1>1 DEF IoGrows
  <1>11. StopOf(RunThread)'
    BY <1>3 DEF StopOf, InLoop
  <1>12. StopInv'
    BY <1>1, <1>3, <1>10, <1>11, StopKept DEF StopInv
  <1> QED
    BY <1>5, <1>6, <1>7, <1>8, <1>9, <1>12 DEF LifeInv

LEMMA StartAcceptStep ==
    ASSUME IInv, start_accept
    PROVE  IInv'
  <1> USE DEF IInv, AcceptorInv, TypeOK, HandlersTypeOK, EntityTypeOK
  <1>0. pc[RunThread].at = "start_accept" /\ pc \in [Procs -> PcType] /\ RunThread \in Procs
    BY DEF start_accept, PcType, Procs
  <1>1. Quiet /\ UNCHANGED <<read, m_started, down, m_acceptor,
                             starts, errors, must, overlapped>>
    BY DEF start_accept, Quiet, handlerVars, entityVars, chgVars
  <1>2. pc' \in [Procs -> PcType] /\ Others(RunThread) /\ pc'[RunThread].at = "idle"
    BY <1>0, MoveIdle DEF start_accept
  <1>3. accepts' \in Seq(AcceptSt)
    <2>1. PICK a \in AcceptSt : accepts' = Append(accepts, a)
      BY DEF start_accept, AsyncAccept, AcceptSt
    <2> QED
      BY <2>1
  <1>4. TypeOK'
    BY <1>1, <1>2, <1>3 DEF PcType, Quiet
  <1> QED
    BY <1>0, <1>1, <1>2, <1>4, QuietMove

LEMMA AcceptErrorStep ==
    ASSUME IInv, NEW i \in DOMAIN accepts, handle_accept_error(i)
    PROVE  IInv'
  <1> USE DEF IInv, AcceptorInv, TypeOK, HandlersTypeOK, EntityTypeOK
  <1>0. pc[RunThread].at = "idle" /\ pc \in [Procs -> PcType] /\ RunThread \in Procs
    BY DEF handle_accept_error, PcType, Procs
  <1>1. Quiet /\ UNCHANGED <<read, m_started, down, m_acceptor,
                             starts, errors, must, overlapped>>
    BY DEF handle_accept_error, Quiet, handlerVars, entityVars, chgVars
  <1>2. pc' \in [Procs -> PcType] /\ Others(RunThread) /\ pc'[RunThread].at = "stop"
    BY <1>0, MoveAt DEF handle_accept_error, PcAt
  <1>3. accepts' \in Seq(AcceptSt)
    BY RemoveAtType DEF handle_accept_error
  <1>4. TypeOK'
    BY <1>1, <1>2, <1>3 DEF PcType, Quiet
  <1> QED
    BY <1>0, <1>1, <1>2, <1>4, QuietMove

LEMMA AcceptStep ==
    ASSUME IInv, NEW i \in DOMAIN accepts, handle_accept(i)
    PROVE  IInv'
  <1> USE DEF IInv, AcceptorInv, TypeOK, HandlersTypeOK, EntityTypeOK
  <1>0. pc[RunThread].at = "idle" /\ pc \in [Procs -> PcType] /\ RunThread \in Procs
    BY DEF handle_accept, PcType, Procs
  <1>1. UNCHANGED <<m_started, up, down, m_io_handlers, m_acceptor,
                    starts, errors, must, overlapped>>
    BY DEF handle_accept, entityVars, chgVars
  <1>2. PICK h \in Handler : /\ make_tcp_io(h)
                             /\ pc' = [pc EXCEPT ![RunThread].at = "push", ![RunThread].h = h]
    BY Zenon DEF handle_accept
  <1>3. /\ pc' \in [Procs -> PcType] /\ Others(RunThread)
        /\ pc'[RunThread].at = "push" /\ pc'[RunThread].h = h
    BY <1>0, <1>2, MovePush
  <1>4. /\ io[h] = "none" /\ io'[h] = "created" /\ read' = read
        /\ io' \in [Handler -> {"none", "created", "started", "closed"}]
        /\ \A g \in Handler : g # h => io'[g] = io[g]
    <2>1. make_tcp_io(h)
      BY <1>2
    <2> QED
      BY <2>1 DEF make_tcp_io
  <1>5. accepts' \in Seq(AcceptSt)
    BY RemoveAtType DEF handle_accept
  <1>6. TypeOK'
    BY <1>1, <1>3, <1>4, <1>5 DEF PcType
  <1>7. ~Stored(h) /\ up[h] = 0
    BY <1>4 DEF LifeInv, HandlerLife
  <1> USE DEF Others
  <1>8. ContainerExact'
    <2>1. \A q \in Procs : pc[q].at = "erase" => pc'[q] = pc[q]
      BY <1>0, <1>3
    <2>2. IsInjective(m_io_handlers')
      BY <1>1 DEF ContainerExact
    <2>3. ASSUME NEW g \in Handler
          PROVE  ExactOf(g)'
      <3>1. CASE g = h
        BY <1>3, <1>4, <3>1 DEF ExactOf
      <3>2. CASE g # h
        BY <1>0, <1>1, <1>4, <2>1, <3>2, ExactKept
      <3> QED
        BY <3>1, <3>2
    <2> QED
      BY <2>2, <2>3 DEF ContainerExact, ExactOf
  <1>9. \A g \in Handler : HandlerLife(g)'
    BY <1>1, <1>4 DEF LifeInv, HandlerLife, Stored
  <1>10. ASSUME NEW q \in Procs PROVE ProcLife(q)'
    <2>1. CASE q = RunThread
      BY <1>3, <2>1 DEF ProcLife
    <2>2. CASE q # RunThread
      <3>1. ProcLife(q) /\ pc'[q] = pc[q]
        BY <1>3, <2>2 DEF LifeInv
      <3> QED
        BY <1>4, <3>1 DEF ProcLife
    <2> QED
      BY <2>1, <2>2
  <1>11. RunLife'
    BY <1>1, <1>3, <1>4, <1>7 DEF RunLife, Stored
  <1>12. IoGrows
    BY <1>4 DEF IoGrows
  <1>13. StopOf(RunThread)'
    BY <1>3 DEF StopOf, InLoop
  <1>14. StopInv'
    BY <1>1, <1>3, <1>12, <1>13, StopKept DEF StopInv
  <1> QED
    BY <1>6, <1>8, <1>9, <1>10, <1>11, <1>14 DEF LifeInv

-----------------------------------------------------------------------------
(* The connections and the kernel.                                         *)

LEMMA StartIoStep ==
    ASSUME IInv, NEW t \in Procs, NEW h \in Handler, app_start_io(t, h)
    PROVE  IInv'
  <1> USE DEF IInv, AcceptorInv, TypeOK, HandlersTypeOK, EntityTypeOK
  <1>0. pc[t].at = "idle" /\ pc \in [Procs -> PcType] /\ RunThread \in Procs /\ up[h] > 0
    BY DEF app_start_io, PcType, Procs
  <1>1. UNCHANGED <<m_started, up, down, m_io_handlers, m_acceptor, accepts,
                    starts, errors, must, overlapped>>
    BY DEF app_start_io, entityVars, chgVars
  <1>2. /\ pc' \in [Procs -> PcType] /\ Others(t)
        /\ \/ pc'[t].at = "idle"
           \/ pc'[t].at = "notify" /\ pc'[t].h = h /\ pc'[t].back = "idle"
    <2>1. CASE pc' = pc
      BY <1>0, <2>1 DEF Others
    <2>2. CASE Notify(t, h)
      BY <1>0, <2>2, MoveNotify
    <2> QED
      BY <2>1, <2>2 DEF app_start_io
  <1>3. /\ io[h] = "created" /\ io'[h] = "started"
        /\ io' \in [Handler -> {"none", "created", "started", "closed"}]
        /\ \A g \in Handler : g # h => io'[g] = io[g] /\ read'[g] = read[g]
        /\ read' \in [Handler -> {"none", "pending", "ready", "failed"}]
    <2>1. /\ io \in [Handler -> {"none", "created", "started", "closed"}]
          /\ read \in [Handler -> {"none", "pending", "ready", "failed"}]
      OBVIOUS
    <2>2. /\ io[h] = "created" /\ io' = [io EXCEPT ![h] = "started"]
          /\ \/ read' = [read EXCEPT ![h] = "pending"]
             \/ read' = read
      BY DEF app_start_io, start_io_ok, start_io_lost
    <2> QED
      BY <2>1, <2>2
  <1>4. TypeOK'
    BY <1>1, <1>2, <1>3 DEF PcType
  <1>5. ~(pc[RunThread].at = "push" /\ pc[RunThread].h = h)
    BY <1>0 DEF LifeInv, RunLife
  <1> USE DEF Others
  <1>6. ContainerExact'
    <2>1. \A q \in Procs : pc[q].at = "erase" => pc'[q] = pc[q]
      BY <1>0, <1>2
    <2>2. pc[RunThread].at = "push" => pc'[RunThread] = pc[RunThread]
      BY <1>0, <1>2
    <2>3. IsInjective(m_io_handlers')
      BY <1>1 DEF ContainerExact
    <2>4. ASSUME NEW g \in Handler
          PROVE  ExactOf(g)'
      <3>1. CASE g = h
        BY <1>1, <1>3, <1>5, <3>1 DEF ContainerExact, Stored, ExactOf
      <3>2. CASE g # h
        BY <1>1, <1>3, <2>1, <2>2, <3>2, ExactKept
      <3> QED
        BY <3>1, <3>2
    <2> QED
      BY <2>3, <2>4 DEF ContainerExact, ExactOf
  <1>7. \A g \in Handler : HandlerLife(g)'
    BY <1>1, <1>3 DEF LifeInv, HandlerLife, Stored
  <1>8. ASSUME NEW q \in Procs PROVE ProcLife(q)'
    <2>1. CASE q = t
      BY <1>2, <1>3, <2>1 DEF ProcLife
    <2>2. CASE q # t
      <3>1. ProcLife(q) /\ pc'[q] = pc[q]
        BY <1>2, <2>2 DEF LifeInv
      <3> QED
        BY <1>3, <3>1 DEF ProcLife
    <2> QED
      BY <2>1, <2>2
  <1>9. RunLife'
    <2>1. CASE t = RunThread
      BY <1>2, <2>1 DEF RunLife
    <2>2. CASE t # RunThread
      <3>1. RunLife /\ pc'[RunThread] = pc[RunThread]
        BY <1>0, <1>2, <2>2 DEF LifeInv
      <3> QED
        BY <1>1, <1>3, <1>5, <3>1 DEF RunLife, Stored
    <2> QED
      BY <2>1, <2>2
  <1>10. IoGrows
    BY <1>3 DEF IoGrows
  <1>11. StopOf(t)'
    BY <1>2 DEF StopOf, InLoop
  <1>12. StopInv'
    BY <1>1, <1>2, <1>10, <1>11, StopKept DEF StopInv
  <1> QED
    BY <1>4, <1>6, <1>7, <1>8, <1>9, <1>12 DEF LifeInv

LEMMA StopIoStep ==
    ASSUME IInv, NEW t \in Procs, NEW h \in Handler, app_stop_io(t, h)
    PROVE  IInv'
  <1> USE DEF IInv, AcceptorInv, TypeOK, HandlersTypeOK, EntityTypeOK
  <1>0. pc[t].at = "idle" /\ pc \in [Procs -> PcType] /\ io[h] = "started"
    BY DEF app_stop_io, PcType
  <1>1. Quiet /\ UNCHANGED <<read, m_started, down, m_acceptor, accepts,
                             starts, errors, must, overlapped>>
    BY DEF app_stop_io, Quiet, handlerVars, entityVars, chgVars
  <1>2. /\ pc' \in [Procs -> PcType] /\ Others(t)
        /\ pc'[t].at = "notify" /\ pc'[t].h = h /\ pc'[t].back = "idle"
    BY <1>0, MoveNotify DEF app_stop_io
  <1>3. TypeOK'
    BY <1>1, <1>2 DEF PcType, Quiet
  <1>4. ProcLife(t)' /\ StopOf(t)'
    BY <1>0, <1>1, <1>2 DEF ProcLife, StopOf, InLoop, Quiet
  <1> QED
    BY <1>0, <1>1, <1>2, <1>3, <1>4, QuietStep

LEMMA ReadStep ==
    ASSUME IInv, NEW h \in Handler, handle_read(h)
    PROVE  IInv'
  <1> USE DEF IInv, AcceptorInv, TypeOK, HandlersTypeOK, EntityTypeOK
  <1>0. pc[RunThread].at = "idle" /\ pc \in [Procs -> PcType] /\ RunThread \in Procs
    BY DEF handle_read, PcType, Procs
  <1>1. UNCHANGED <<io, up, m_io_handlers, m_started, down, m_acceptor, accepts, starts,
                    errors, must, overlapped>>
    BY DEF handle_read, entityVars, chgVars, read_again, read_over
  <1>2. /\ read[h] # "none"
        /\ read' \in [Handler -> {"none", "pending", "ready", "failed"}]
        /\ \A g \in Handler : read[g] = "none" => read'[g] = "none"
    <2>1. read \in [Handler -> {"none", "pending", "ready", "failed"}]
      OBVIOUS
    <2>2. /\ read[h] \in {"ready", "failed"}
          /\ \E r \in {"none", "pending", "failed"} : read' = [read EXCEPT ![h] = r]
      BY DEF handle_read, read_again, read_over
    <2> QED
      BY <2>1, <2>2
  <1>3. Quiet
    BY <1>1, <1>2 DEF Quiet
  <1>4. io[h] \in {"started", "closed"}
    BY <1>2 DEF LifeInv, HandlerLife
  <1>5. CASE pc' = pc
    <2>1. TypeOK'
      BY <1>1, <1>2, <1>5
    <2> QED
      BY <1>1, <1>3, <1>5, <2>1, QuietStill
  <1>6. CASE Notify(RunThread, h)
    <2>1. /\ pc' \in [Procs -> PcType] /\ Others(RunThread)
          /\ pc'[RunThread].at = "notify" /\ pc'[RunThread].h = h /\ pc'[RunThread].back = "idle"
      BY <1>0, <1>6, MoveNotify
    <2>2. TypeOK'
      BY <1>1, <1>2, <2>1 DEF PcType
    <2>3. ProcLife(RunThread)' /\ StopOf(RunThread)'
      BY <1>1, <1>4, <2>1 DEF ProcLife, StopOf, InLoop
    <2> QED
      BY <1>0, <1>1, <1>3, <2>1, <2>2, <2>3, QuietStep
  <1> QED
    BY <1>5, <1>6 DEF handle_read

LEMMA KernelSteps ==
    ASSUME IInv, KernelStep
    PROVE  IInv'
  <1> USE DEF IInv, AcceptorInv, TypeOK, HandlersTypeOK, EntityTypeOK, handlerVars,
              entityVars, chgVars
  <1>1. ASSUME NEW i \in DOMAIN accepts, connection_arrives(i) PROVE IInv'
    <2>1. accepts' \in Seq(AcceptSt)
      BY <1>1 DEF connection_arrives, AcceptSt
    <2>2. TypeOK'
      BY <1>1, <2>1 DEF connection_arrives
    <2> QED
      BY <1>1, <2>2, QuietStill DEF connection_arrives, Quiet
  <1>2. ASSUME NEW i \in DOMAIN accepts, accept_fails(i) PROVE IInv'
    <2>1. accepts' \in Seq(AcceptSt)
      BY <1>2 DEF accept_fails, AcceptSt
    <2>2. errors' \in 0 .. MaxErrors
      BY <1>2, BoundAssumption DEF accept_fails
    <2>3. TypeOK'
      BY <1>2, <2>1, <2>2 DEF accept_fails
    <2> QED
      BY <1>2, <2>3, QuietStill DEF accept_fails, Quiet
  <1>3. ASSUME NEW h \in Handler, kernel_read(h) PROVE IInv'
    <2>1. /\ read' \in [Handler -> {"none", "pending", "ready", "failed"}]
          /\ \A g \in Handler : read[g] = "none" => read'[g] = "none"
      BY <1>3 DEF kernel_read, read_ends
    <2>2. TypeOK'
      BY <1>3, <2>1 DEF kernel_read, read_ends
    <2> QED
      BY <1>3, <2>1, <2>2, QuietStill DEF kernel_read, read_ends, Quiet
  <1> QED
    BY <1>1, <1>2, <1>3 DEF KernelStep

-----------------------------------------------------------------------------
(* The theorems.                                                           *)

LEMMA InitIInv == Init => IInv
  <1> SUFFICES ASSUME Init PROVE IInv
    OBVIOUS
  <1>1. HandlersTypeOK
    BY DEF Init, HandlersInit, HandlersTypeOK, EntityInit, EntityTypeOK
  <1>2. pc \in [Procs -> PcType] /\ \A p \in Procs : pc[p].at = "idle"
    BY DEF Init, Idle, PcType, PcAt, None
  <1>7. starts \in 0 .. MaxStarts /\ errors \in 0 .. MaxErrors
    BY BoundAssumption DEF Init
  <1>8. must \in [Procs -> SUBSET Handler] /\ overlapped \in BOOLEAN
    BY DEF Init
  <1>3. TypeOK
    BY <1>1, <1>2, <1>7, <1>8 DEF Init, TypeOK, PcType
  <1>4. RunThread \in Procs
    BY DEF Procs
  <1>5. /\ \A h \in Handler : io[h] = "none" /\ read[h] = "none" /\ up[h] = 0
        /\ \A h \in Handler : ~Stored(h)
        /\ IsInjective(m_io_handlers)
    BY DEF Init, HandlersInit, EntityInit, Stored, Contains, IsInjective
  <1>6. ContainerExact /\ LifeInv /\ StopInv
    BY <1>2, <1>4, <1>5 DEF ContainerExact, LifeInv, HandlerLife, ProcLife, RunLife, StopInv,
       StopOf, InLoop
  <1> QED
    BY <1>3, <1>6 DEF IInv, AcceptorInv

LEMMA NextIInv == IInv /\ [Next]_vars => IInv'
  <1> SUFFICES ASSUME IInv, [Next]_vars PROVE IInv'
    OBVIOUS
  <1>0. RunThread \in Procs /\ Threads \subseteq Procs
    BY DEF Procs
  <1>1. ASSUME NEW t \in Threads, AppStep(t) PROVE IInv'
    BY <1>0, <1>1, StartStep, StartIoStep, StopIoStep DEF AppStep
  <1>2. ASSUME NEW p \in Procs, InCall(p) PROVE IInv'
    BY <1>2, OpenStep, StopStep, CopyStep, LoopStep, CloseStep, NotifyCloseStep,
       NotifyEraseStep DEF InCall
  <1>3. CASE InAccept
    BY <1>3, PushStep, AnnounceStep, StartAcceptStep DEF InAccept
  <1>4. CASE RunStep
    BY <1>4, AcceptStep, AcceptErrorStep, ReadStep DEF RunStep
  <1>5. CASE KernelStep
    BY <1>5, KernelSteps
  <1>6. CASE UNCHANGED vars
    BY <1>6 DEF vars, entityVars, handlerVars, chgVars, IInv, AcceptorInv, TypeOK,
       HandlersTypeOK, EntityTypeOK, ContainerExact, Stored, LifeInv, HandlerLife, ProcLife,
       RunLife, StopInv, StopOf, InLoop
  <1> QED
    BY <1>1, <1>2, <1>3, <1>4, <1>5, <1>6 DEF Next

\* The container of an acceptor holds every live connection exactly once: what
\* the accept handler's push_back and the erases of notify_me, in whichever
\* thread, leave in m_io_handlers.
THEOREM ContainerIsExact == Spec => []AcceptorInv
  <1>1. IInv => AcceptorInv
    BY DEF IInv
  <1> QED
    BY <1>1, InitIInv, NextIInv, PTL DEF Spec

\* When stop() closes the listening socket, every connection that was started
\* when it cleared m_started is closed: walking through a copy misses none.
THEOREM StopClosesAll == Spec => []StopClosesStarted
  <1>1. IInv => StopClosesStarted
    BY DEF IInv, StopInv, StopOf, StopClosesStarted
  <1> QED
    BY <1>1, InitIInv, NextIInv, PTL DEF Spec

-----------------------------------------------------------------------------
(* A started acceptor is never deaf.                                       *)

\* Where a thread is that will post an accept or stop the acceptor.
OnItsWay == {"open", "stop", "push", "chg_true", "start_accept"}

LEMMA DeafKept ==
    ASSUME NeverDeaf, m_started' => m_started, accepts # << >> => accepts' # << >>,
           \A q \in Procs : pc[q].at \in OnItsWay => pc'[q].at \in OnItsWay
    PROVE  NeverDeaf'
  BY DEF NeverDeaf, OnItsWay

\* A thread that was not on its way moves on.
LEMMA DeafMove ==
    ASSUME NeverDeaf, NEW p \in Procs, Others(p), pc[p].at \notin OnItsWay,
           m_started' => m_started, accepts # << >> => accepts' # << >>
    PROVE  NeverDeaf'
  <1>1. \A q \in Procs : pc[q].at \in OnItsWay => pc'[q].at \in OnItsWay
    BY DEF Others
  <1> QED
    BY <1>1, DeafKept

\* A thread is on its way after the step.
LEMMA DeafGoes ==
    ASSUME NEW p \in Procs, pc'[p].at \in OnItsWay
    PROVE  NeverDeaf'
  BY DEF NeverDeaf, OnItsWay

LEMMA DeafCall ==
    ASSUME TypeOK, NeverDeaf, NEW p \in Procs, start(p) \/ app_stop(p) \/ InCall(p)
    PROVE  NeverDeaf'
  <1>0. pc \in [Procs -> PcType] /\ accepts \in Seq(AcceptSt) /\ m_io_handlers \in Seq(Handler)
    BY DEF TypeOK, PcType
  <1>1. CASE start(p) \/ app_stop(p)
    <2>1. PICK w \in {"open", "stop"} : At(p, w)
      BY <1>1 DEF start, app_stop
    <2>2. w \in PcAt /\ w \in OnItsWay
      BY DEF PcAt, OnItsWay
    <2>3. pc'[p].at = w
      BY <1>0, <2>1, <2>2, MoveAt
    <2> QED
      BY <2>2, <2>3, DeafGoes
  <1>2. CASE open_acceptor(p)
    <2>1. CASE At(p, "stop")
      <3>1. pc'[p].at = "stop"
        BY <1>0, <2>1, MoveAt DEF PcAt
      <3> QED
        BY <3>1, DeafGoes DEF OnItsWay
    <2>2. CASE accepts' = Append(Aborted, "pending")
      <3>1. accepts' # << >>
        BY <1>0, <2>2, AbortedType
      <3> QED
        BY <3>1 DEF NeverDeaf
    <2> QED
      BY <1>2, <2>1, <2>2 DEF open_acceptor, AsyncAccept
  <1>3. CASE stop(p)
    <2>1. ~m_started'
      BY <1>3 DEF stop, entity_stop
    <2> QED
      BY <2>1 DEF NeverDeaf
  <1>4. CASE stop_copy(p)
    <2>1. Others(p)
      BY <1>0, <1>4, MoveCopy DEF stop_copy
    <2> QED
      BY <1>4, <2>1, DeafMove DEF stop_copy, entityVars, OnItsWay
  <1>5. CASE stop_loop(p)
    <2>1. Others(p)
      <3>1. CASE At(p, "close")
        BY <1>0, <3>1, MoveAt DEF PcAt
      <3>2. CASE pc[p].todo # << >>
        <4> DEFINE h == Head(pc[p].todo)
                   w == IF io[h] = "started" THEN "notify" ELSE "loop"
        <4>1. pc' = [pc EXCEPT ![p].todo = Tail(@), ![p].h = h, ![p].at = w, ![p].back = "loop"]
          BY <1>5, <3>2, Zenon DEF stop_loop
        <4>2. pc[p].todo \in Seq(Handler)
          BY <1>0 DEF PcType
        <4>3. h \in Handler /\ w \in {"notify", "loop"}
          BY <3>2, <4>2, HeadOrTail
        <4> HIDE DEF h, w
        <4> QED
          BY <1>0, <3>2, <4>1, <4>3, MoveLoop DEF h
      <3> QED
        BY <1>5, <3>1, <3>2 DEF stop_loop
    <2> QED
      BY <1>5, <2>1, DeafMove DEF stop_loop, entityVars, OnItsWay
  <1>6. CASE stop_close(p)
    <2>1. Others(p)
      BY <1>0, <1>6, MoveIdle DEF stop_close
    <2>2. accepts # << >> => accepts' # << >>
      <3>1. accepts' = Aborted
        BY <1>6 DEF stop_close
      <3> QED
        BY <1>0, <3>1, AbortedType
    <2>3. pc[p].at \notin OnItsWay /\ m_started' = m_started
      BY <1>6 DEF stop_close, entityVars, OnItsWay
    <2> QED
      BY <2>1, <2>2, <2>3, DeafMove
  <1>7. CASE notify_close(p)
    <2>1. Others(p)
      BY <1>0, <1>7, MoveAt DEF notify_close, PcAt
    <2> QED
      BY <1>7, <2>1, DeafMove DEF notify_close, entityVars, OnItsWay
  <1>8. CASE notify_erase(p)
    <2>1. Others(p)
      BY <1>0, <1>8, MoveBack DEF notify_erase
    <2> QED
      BY <1>8, <2>1, DeafMove DEF notify_erase, entityVars, OnItsWay
  <1> QED
    BY <1>1, <1>2, <1>3, <1>4, <1>5, <1>6, <1>7, <1>8 DEF InCall

LEMMA DeafHandlers ==
    ASSUME TypeOK, NeverDeaf, InAccept \/ RunStep \/ KernelStep
    PROVE  NeverDeaf'
  <1>0. /\ pc \in [Procs -> PcType] /\ accepts \in Seq(AcceptSt) /\ RunThread \in Procs
        /\ m_acceptor \in {"open", "closed"}
    BY DEF TypeOK, PcType, Procs
  <1>1. CASE push_handler \/ announce
    <2>1. PICK w \in {"chg_true", "start_accept"} : At(RunThread, w)
      BY <1>1 DEF push_handler, announce
    <2>2. w \in PcAt /\ w \in OnItsWay
      BY DEF PcAt, OnItsWay
    <2>3. pc'[RunThread].at = w
      BY <1>0, <2>1, <2>2, MoveAt
    <2> QED
      BY <1>0, <2>2, <2>3, DeafGoes
  <1>2. CASE start_accept
    <2>1. PICK a \in AcceptSt : accepts' = Append(accepts, a)
      BY <1>2 DEF start_accept, AsyncAccept, AcceptSt
    <2>2. accepts' # << >>
      BY <1>0, <2>1
    <2> QED
      BY <2>2 DEF NeverDeaf
  <1>3. ASSUME NEW i \in DOMAIN accepts, handle_accept(i) PROVE NeverDeaf'
    <2>1. PICK h \in Handler : pc' = [pc EXCEPT ![RunThread].at = "push", ![RunThread].h = h]
      BY <1>3, Zenon DEF handle_accept
    <2>2. pc'[RunThread].at = "push"
      BY <1>0, <2>1, MovePush
    <2> QED
      BY <1>0, <2>2, DeafGoes DEF OnItsWay
  <1>4. ASSUME NEW i \in DOMAIN accepts, handle_accept_error(i) PROVE NeverDeaf'
    <2>1. pc'[RunThread].at = "stop"
      BY <1>0, <1>4, MoveAt DEF handle_accept_error, PcAt
    <2> QED
      BY <1>0, <2>1, DeafGoes DEF OnItsWay
  <1>5. ASSUME NEW h \in Handler, handle_read(h) PROVE NeverDeaf'
    <2>1. Others(RunThread)
      <3>1. CASE pc' = pc
        BY <3>1 DEF Others
      <3>2. CASE Notify(RunThread, h)
        BY <1>0, <3>2, MoveNotify
      <3> QED
        BY <1>5, <3>1, <3>2 DEF handle_read
    <2>2. UNCHANGED <<m_started, accepts>> /\ pc[RunThread].at = "idle"
      BY <1>5 DEF handle_read, entityVars
    <2> QED
      BY <1>0, <2>1, <2>2, DeafMove DEF OnItsWay
  <1>6. CASE KernelStep
    <2>1. m_started' = m_started /\ pc' = pc
      BY <1>6 DEF KernelStep, connection_arrives, accept_fails, kernel_read, entityVars
    <2>2. accepts # << >> => accepts' # << >>
      <3>1. \/ accepts' = accepts
            \/ \E i \in DOMAIN accepts, a \in AcceptSt : accepts' = [accepts EXCEPT ![i] = a]
        BY <1>6 DEF KernelStep, connection_arrives, accept_fails, kernel_read, AcceptSt
      <3>2. DOMAIN accepts' = DOMAIN accepts
        BY <1>0, <3>1
      <3>3. accepts # << >> => 1 \in DOMAIN accepts
        BY <1>0
      <3> QED
        BY <3>2, <3>3
    <2> QED
      BY <2>1, <2>2, DeafKept
  <1> QED
    BY <1>1, <1>2, <1>3, <1>4, <1>5, <1>6 DEF InAccept, RunStep

LEMMA DeafIo ==
    ASSUME TypeOK, NeverDeaf, NEW t \in Procs, NEW h \in Handler,
           app_start_io(t, h) \/ app_stop_io(t, h)
    PROVE  NeverDeaf'
  <1>0. pc \in [Procs -> PcType]
    BY DEF TypeOK, PcType
  <1>1. Others(t)
    <2>1. CASE pc' = pc
      BY <2>1 DEF Others
    <2>2. CASE Notify(t, h)
      BY <1>0, <2>2, MoveNotify
    <2> QED
      BY <2>1, <2>2 DEF app_start_io, app_stop_io
  <1>2. UNCHANGED <<m_started, accepts>> /\ pc[t].at = "idle"
    BY DEF app_start_io, app_stop_io, entityVars
  <1> QED
    BY <1>1, <1>2, DeafMove DEF OnItsWay

\* A started acceptor always has an accept outstanding, or a thread on its way
\* to post one or to stop it, whatever start, stop and accept errors overlap.
THEOREM AcceptorListens == Spec => []NeverDeaf
  <1>1. Init => NeverDeaf
    BY DEF Init, HandlersInit, EntityInit, NeverDeaf
  <1>2. IInv => TypeOK
    BY DEF IInv, AcceptorInv
  <1>3. TypeOK /\ NeverDeaf /\ [Next]_vars => NeverDeaf'
    <2> SUFFICES ASSUME TypeOK, NeverDeaf, [Next]_vars PROVE NeverDeaf'
      OBVIOUS
    <2>0. Threads \subseteq Procs
      BY DEF Procs
    <2>1. ASSUME NEW t \in Threads, AppStep(t) PROVE NeverDeaf'
      BY <2>0, <2>1, DeafCall, DeafIo DEF AppStep
    <2>2. ASSUME NEW p \in Procs, InCall(p) PROVE NeverDeaf'
      BY <2>2, DeafCall
    <2>3. CASE InAccept \/ RunStep \/ KernelStep
      BY <2>3, DeafHandlers
    <2>4. CASE UNCHANGED vars
      BY <2>4 DEF vars, entityVars, NeverDeaf
    <2> QED
      BY <2>1, <2>2, <2>3, <2>4 DEF Next
  <1> QED
    BY <1>1, <1>2, <1>3, InitIInv, NextIInv, PTL DEF Spec

=============================================================================
