-------------------------- MODULE SendToAllProofs --------------------------
(***************************************************************************)
(* Proofs about SendToAll, for every set of io handlers, of buffers and of *)
(* threads.                                                                *)
(***************************************************************************)
EXTENDS SendToAll, SequenceLemmas

-----------------------------------------------------------------------------
(* The inductive strengthening of CollectionInv and ThrowsOnlyIfStale.     *)

\* A callback refers to a handler that is alive, and one that is about to store
\* a handle is in the run thread, where connections begin.
HeldOf(p) ==
    /\ pc[p].at \in {"add", "remove", "add_remove"} => pc[p].h \in Io /\ is_valid(pc[p].h)
    /\ pc[p].at \in {"add", "add_remove"} => p = RunThread /\ ~Stored(pc[p].h)

HeldInv == \A p \in Procs : HeldOf(p)

\* A handler not yet made has left no trace; one that is gone was reported or
\* dropped; one that was reported is stored, or about to be, only if its end
\* overtook its beginning.
LifeOf(h) ==
    /\ life[h] = "none" => ~Stored(h) /\ h \notin reported
    /\ life[h] = "expired" => h \in reported \cup dropped
    /\ h \in reported /\ (Stored(h) \/ Adding(h)) => h \in overtaken

LifeInv == IsInjective(m_io_intfs) /\ \A h \in Io : LifeOf(h)

\* A thread inside send holds the mutex.  It has posted its buffer to exactly the
\* interfaces before its place in the collection, and nothing was posted after it.
LoopOf(t) ==
    pc[t].at = "loop" =>
      /\ m_mutex = t
      /\ pc[t].buf \in Buf /\ pc[t].i # 0
      /\ \A k \in DOMAIN m_io_intfs : k < pc[t].i => Contains(posted[m_io_intfs[k]], pc[t].buf)
      /\ \A h \in Io : \A k \in DOMAIN posted[h] : posted[h][k] = pc[t].buf =>
           /\ k = Len(posted[h])
           /\ \E j \in DOMAIN m_io_intfs : j < pc[t].i /\ m_io_intfs[j] = h

LoopInv == \A t \in Procs : LoopOf(t)

IInv == TypeOK /\ HeldInv /\ LifeInv /\ LoopInv /\ SameOrder /\ ThrowsOnlyIfStale

-----------------------------------------------------------------------------
(* How the actions move a thread.                                          *)

PcType == [at : PcAt, h : Io \cup {None}, i : Nat, buf : Buf \cup {None}]

\* The step of one thread leaves the others where they are.
Others(p) == \A q \in Procs : q # p => pc'[q] = pc[q]

LEMMA MoveTo ==
    ASSUME pc \in [Procs -> PcType], NEW p \in Procs, NEW w \in PcAt, NEW h \in Io,
           pc' = [pc EXCEPT ![p].at = w, ![p].h = h]
    PROVE  pc' \in [Procs -> PcType] /\ Others(p) /\ pc'[p].at = w /\ pc'[p].h = h
  BY DEF PcType, Others

LEMMA MoveIdle ==
    ASSUME pc \in [Procs -> PcType], NEW p \in Procs, pc' = [pc EXCEPT ![p] = Idle]
    PROVE  pc' \in [Procs -> PcType] /\ Others(p) /\ pc'[p].at = "idle"
  BY DEF Idle, PcType, Others, PcAt, None

LEMMA MoveBack ==
    ASSUME pc \in [Procs -> PcType], NEW p \in Procs, Return(p)
    PROVE  /\ pc' \in [Procs -> PcType] /\ Others(p)
           /\ \/ pc'[p].at = "idle"
              \/ pc[p].at = "add_remove" /\ pc'[p].at = "add" /\ pc'[p].h = pc[p].h
  <1>1. CASE pc[p].at = "add_remove"
    <2>1. [pc[p] EXCEPT !.at = "add"] \in PcType
      BY DEF PcType, PcAt
    <2>2. pc' = [pc EXCEPT ![p] = [pc[p] EXCEPT !.at = "add"]]
      BY <1>1 DEF Return
    <2> QED
      BY <1>1, <2>1, <2>2 DEF Others, PcType
  <1>2. CASE pc[p].at # "add_remove"
    <2>1. pc' = [pc EXCEPT ![p] = Idle]
      BY <1>2 DEF Return
    <2> QED
      BY <2>1, MoveIdle
  <1> QED
    BY <1>1, <1>2

LEMMA MoveLoop ==
    ASSUME pc \in [Procs -> PcType], NEW p \in Procs, NEW b \in Buf,
           pc' = [pc EXCEPT ![p] = [at |-> "loop", h |-> None, i |-> 1, buf |-> b]]
    PROVE  /\ pc' \in [Procs -> PcType] /\ Others(p)
           /\ pc'[p].at = "loop" /\ pc'[p].i = 1 /\ pc'[p].buf = b
  BY DEF PcType, Others, PcAt, None

LEMMA MoveNext ==
    ASSUME pc \in [Procs -> PcType], NEW p \in Procs, pc' = [pc EXCEPT ![p].i = @ + 1]
    PROVE  /\ pc' \in [Procs -> PcType] /\ Others(p)
           /\ pc'[p].at = pc[p].at /\ pc'[p].h = pc[p].h
           /\ pc'[p].i = pc[p].i + 1 /\ pc'[p].buf = pc[p].buf
  BY DEF PcType, Others

-----------------------------------------------------------------------------
(* What a step leaves alone.                                               *)

LEMMA PcKnown == TypeOK => pc \in [Procs -> PcType] /\ RunThread \in Procs
  BY DEF TypeOK, PcType, Procs

\* Nobody is inside send while the mutex is free.
LEMMA NoLoop ==
    ASSUME LoopInv, m_mutex = Free
    PROVE  \A q \in Procs : pc[q].at # "loop"
  BY FreeAssumption DEF LoopInv, LoopOf

\* The interfaces and what was posted to them stay as they are.
Still == UNCHANGED <<m_io_intfs, posted>>

LEMMA LoopKept ==
    ASSUME LoopInv, NEW p \in Procs, Others(p), Still,
           \A q \in Procs : q # p /\ pc[q].at = "loop" => m_mutex' = m_mutex,
           LoopOf(p)'
    PROVE  LoopInv'
  <1>1. ASSUME NEW q \in Procs, q # p PROVE LoopOf(q)'
    BY <1>1 DEF LoopInv, LoopOf, Others, Still
  <1> QED
    BY <1>1 DEF LoopInv

\* The same for a step out of, or far from, the loop.
LEMMA LoopQuiet ==
    ASSUME LoopInv, NEW p \in Procs, Others(p), Still, m_mutex' = m_mutex,
           pc'[p].at # "loop"
    PROVE  LoopInv'
  <1>1. LoopOf(p)'
    BY DEF LoopOf
  <1> QED
    BY <1>1, LoopKept

\* Nobody is inside send after the step of a thread outside it.
LEMMA LoopFree ==
    ASSUME LoopInv, m_mutex = Free, NEW p \in Procs, Others(p), pc'[p].at # "loop"
    PROVE  LoopInv'
  <1>1. \A q \in Procs : pc'[q].at # "loop"
    BY NoLoop DEF Others
  <1> QED
    BY <1>1 DEF LoopInv, LoopOf

LEMMA HeldKept ==
    ASSUME HeldInv, NEW p \in Procs, Others(p), HeldOf(p)',
           \A q \in Procs : q # p /\ pc[q].at \in {"add", "remove", "add_remove"} /\ life[pc[q].h] = "live"
              => life'[pc[q].h] = "live",
           \A q \in Procs : q # p /\ pc[q].at \in {"add", "add_remove"} /\ ~Stored(pc[q].h)
              => ~Contains(m_io_intfs', pc[q].h)
    PROVE  HeldInv'
  <1>1. ASSUME NEW q \in Procs, q # p PROVE HeldOf(q)'
    <2>1. HeldOf(q) /\ pc'[q] = pc[q]
      BY <1>1 DEF HeldInv, Others
    <2> QED
      BY <1>1, <2>1 DEF HeldOf, is_valid, Stored
  <1> QED
    BY <1>1 DEF HeldInv

\* A step of p that stores nothing and changes no handler's life.
LEMMA HeldQuiet ==
    ASSUME HeldInv, NEW p \in Procs, Others(p), pc'[p].at \in {"idle", "loop"},
           UNCHANGED <<life, m_io_intfs>>
    PROVE  HeldInv'
  <1>1. HeldOf(p)'
    BY DEF HeldOf
  <1> QED
    BY <1>1, HeldKept DEF Stored

\* A step that neither adds a handle nor reports, drops or makes a handler.
LEMMA LifeQuiet ==
    ASSUME LifeInv, UNCHANGED <<life, m_io_intfs, reported, dropped, overtaken>>,
           \A h \in Io : Adding(h)' => Adding(h)
    PROVE  LifeInv'
  <1>1. ASSUME NEW h \in Io PROVE LifeOf(h)'
    BY DEF LifeInv, LifeOf, Stored
  <1> QED
    BY <1>1 DEF LifeInv

\* The order in which buffers were posted is a matter of posted alone.
LEMMA OrderKept == ASSUME SameOrder, posted' = posted PROVE SameOrder'
  BY DEF SameOrder, Before

\* An exception that was excusable stays so.
LEMMA ThrowKept ==
    ASSUME ThrowsOnlyIfStale, UNCHANGED <<threw, terminated>>, dropped \subseteq dropped',
           overtaken \subseteq overtaken'
    PROVE  ThrowsOnlyIfStale'
  BY DEF ThrowsOnlyIfStale

\* A handle in the collection that is no longer valid was dropped or overtaken.
LEMMA StaleStored ==
    ASSUME TypeOK, LifeInv, NEW k \in DOMAIN m_io_intfs, ~is_valid(m_io_intfs[k])
    PROVE  dropped \cup overtaken # {}
  <1> DEFINE h == m_io_intfs[k]
  <1>1. h \in Io /\ Stored(h)
    BY DEF TypeOK, Stored, Contains
  <1>2. LifeOf(h)
    BY <1>1 DEF LifeInv
  <1>3. life[h] = "expired"
    BY <1>1, <1>2 DEF LifeOf, is_valid, TypeOK, IoTypeOK
  <1> QED
    BY <1>1, <1>2, <1>3 DEF LifeOf

-----------------------------------------------------------------------------
(* The entity.                                                             *)

LEMMA BeginsStep ==
    ASSUME IInv, NEW h \in Io, io_begins(h)
    PROVE  IInv'
  <1> USE DEF IInv
  <1>1. /\ pc' \in [Procs -> PcType] /\ Others(RunThread) /\ RunThread \in Procs
        /\ pc'[RunThread].at = "add" /\ pc'[RunThread].h = h
    BY PcKnown, MoveTo DEF io_begins, PcAt
  <1>2. TypeOK'
    BY <1>1 DEF io_begins, TypeOK, IoTypeOK, PcType
  <1>3. /\ life[h] = "none" /\ life'[h] = "live"
        /\ \A g \in Io : g # h => life'[g] = life[g]
        /\ ~Stored(h) /\ h \notin reported
    BY DEF io_begins, TypeOK, IoTypeOK, LifeInv, LifeOf
  <1>4. HeldInv'
    <2>1. HeldOf(RunThread)'
      BY <1>1, <1>3 DEF HeldOf, is_valid, Stored, io_begins
    <2>2. \A q \in Procs : pc[q].at \in {"add", "remove", "add_remove"} => life'[pc[q].h] = "live"
      BY <1>3 DEF HeldInv, HeldOf, is_valid
    <2> QED
      BY <1>1, <2>1, <2>2, HeldKept DEF io_begins, Stored
  <1>5. LifeInv'
    <2>1. ASSUME NEW g \in Io PROVE LifeOf(g)'
      <3>1. CASE g = h
        BY <1>3, <3>1 DEF LifeOf, io_begins
      <3>2. CASE g # h
        <4>1. ~Adding(g)'
          BY <1>1, <3>2 DEF Adding
        <4> QED
          BY <1>3, <3>2, <4>1 DEF LifeInv, LifeOf, Stored, io_begins
      <3> QED
        BY <3>1, <3>2
    <2> QED
      BY <2>1 DEF LifeInv, io_begins
  <1>6. LoopInv'
    BY <1>1, LoopQuiet DEF io_begins, Still
  <1> QED
    BY <1>2, <1>4, <1>5, <1>6, OrderKept, ThrowKept DEF io_begins

LEMMA EndsStep ==
    ASSUME IInv, NEW p \in Procs, NEW h \in Io, io_ends(p, h)
    PROVE  IInv'
  <1> USE DEF IInv
  <1>1. /\ pc' \in [Procs -> PcType] /\ Others(p)
        /\ pc'[p].at = "remove" /\ pc'[p].h = h
    BY PcKnown, MoveTo DEF io_ends, PcAt
  <1>2. TypeOK'
    BY <1>1 DEF io_ends, TypeOK, IoTypeOK, PcType, ioVars
  <1>3. HeldInv'
    <2>1. HeldOf(p)'
      BY <1>1 DEF HeldOf, is_valid, io_ends, ioVars
    <2> QED
      BY <1>1, <2>1, HeldKept DEF io_ends, ioVars, Stored
  <1>4. LifeInv'
    <2>1. \A g \in Io : Adding(g)' => Adding(g)
      BY <1>1, PcKnown DEF Adding, Others
    <2> QED
      BY <2>1, LifeQuiet DEF io_ends, ioVars
  <1>5. LoopInv'
    BY <1>1, LoopQuiet DEF io_ends, Still, ioVars
  <1> QED
    BY <1>2, <1>3, <1>4, <1>5, OrderKept, ThrowKept DEF io_ends, ioVars

\* The end of a handler's life, reported or not.
LEMMA GoneStep ==
    ASSUME IInv, NEW h \in Io, released(h) \/ drop(h)
    PROVE  IInv'
  <1> USE DEF IInv
  <1>1. LetGo(h) /\ expire(h) /\ (h \in reported \/ dropped' = dropped \cup {h})
    BY DEF released, drop
  <1>2. /\ UNCHANGED <<m_io_intfs, m_mutex, pc, reported, overtaken, threw, terminated>>
        /\ dropped \subseteq dropped' /\ dropped' \subseteq dropped \cup {h}
    BY DEF released, drop
  <1>3. /\ life[h] = "live" /\ life'[h] = "expired"
        /\ \A g \in Io : g # h => life'[g] = life[g]
        /\ posted' = posted
    BY <1>1 DEF expire, is_valid, TypeOK, IoTypeOK
  <1>4. TypeOK'
    BY <1>1, <1>2 DEF expire, TypeOK, IoTypeOK
  <1>5. RunThread \in Procs /\ Others(RunThread)
    BY <1>2 DEF Procs, Others
  <1>6. HeldInv'
    <2>1. \A q \in Procs : pc[q].at \in {"add", "remove", "add_remove"} => life'[pc[q].h] = "live"
      BY <1>1, <1>3 DEF HeldInv, HeldOf, is_valid, LetGo
    <2>2. HeldOf(RunThread)'
      BY <1>2, <1>5, <2>1 DEF HeldInv, HeldOf, is_valid, Stored
    <2> QED
      BY <1>2, <1>5, <2>1, <2>2, HeldKept DEF Stored
  <1>7. LifeInv'
    <2>1. ASSUME NEW g \in Io PROVE LifeOf(g)'
      <3>1. Adding(g)' = Adding(g) /\ Stored(g)' = Stored(g)
        BY <1>2 DEF Adding, Stored
      <3>2. CASE g = h
        BY <1>1, <1>2, <1>3, <3>1, <3>2 DEF LifeInv, LifeOf
      <3>3. CASE g # h
        BY <1>2, <1>3, <3>1, <3>3 DEF LifeInv, LifeOf
      <3> QED
        BY <3>2, <3>3
    <2> QED
      BY <1>2, <2>1 DEF LifeInv
  <1>8. LoopInv'
    <2>1. LoopOf(RunThread)'
      BY <1>2, <1>3, <1>5 DEF LoopInv, LoopOf
    <2> QED
      BY <1>2, <1>3, <1>5, <2>1, LoopKept DEF Still
  <1> QED
    BY <1>2, <1>3, <1>4, <1>6, <1>7, <1>8, OrderKept, ThrowKept

\* The end that start_io finds is reported in the same thread.
LEMMA StartIoStep ==
    ASSUME IInv, NEW p \in Procs, NEW h \in Io, app_start_io(p, h)
    PROVE  IInv'
  <1> USE DEF IInv
  <1>1. /\ UNCHANGED <<life, posted, m_io_intfs, m_mutex, reported, dropped, overtaken,
                       threw, terminated>>
        /\ started' = started \cup {h} /\ is_valid(h)
        /\ pc[p].at = "idle" \/ (pc[p].at = "add" /\ pc[p].h = h)
    BY DEF app_start_io, io_start_io
  <1>2. CASE pc' = pc
    <2>1. TypeOK'
      BY <1>1, <1>2 DEF TypeOK, IoTypeOK
    <2>2. HeldInv' /\ LoopInv'
      BY <1>1, <1>2 DEF HeldInv, HeldOf, LoopInv, LoopOf, is_valid, Stored
    <2>3. LifeInv'
      BY <1>1, <1>2, LifeQuiet DEF Adding
    <2> QED
      BY <1>1, <2>1, <2>2, <2>3, OrderKept, ThrowKept
  <1>3. CASE pc' # pc
    <2> DEFINE w == IF pc[p].at = "add" THEN "add_remove" ELSE "remove"
    <2>1. w \in PcAt /\ pc' = [pc EXCEPT ![p].at = w, ![p].h = h]
      BY <1>3 DEF app_start_io, PcAt
    <2>2. \/ w = "remove" /\ pc[p].at = "idle"
          \/ w = "add_remove" /\ pc[p].at = "add" /\ pc[p].h = h
      BY <1>1
    <2> HIDE DEF w
    <2>3. pc' \in [Procs -> PcType] /\ Others(p) /\ pc'[p].at = w /\ pc'[p].h = h
      BY <2>1, PcKnown, MoveTo
    <2>4. TypeOK'
      BY <1>1, <2>3 DEF TypeOK, IoTypeOK, PcType
    <2>5. HeldInv'
      <3>1. HeldOf(p)'
        BY <1>1, <2>2, <2>3 DEF HeldInv, HeldOf, is_valid, Stored
      <3> QED
        BY <1>1, <2>3, <3>1, HeldKept DEF Stored
    <2>6. LifeInv'
      <3>1. \A g \in Io : Adding(g)' => Adding(g)
        BY <2>2, <2>3, PcKnown DEF Adding, Others
      <3> QED
        BY <1>1, <3>1, LifeQuiet
    <2>7. LoopInv'
      BY <1>1, <2>2, <2>3, LoopQuiet DEF Still
    <2> QED
      BY <1>1, <2>4, <2>5, <2>6, <2>7, OrderKept, ThrowKept
  <1> QED
    BY <1>2, <1>3

-----------------------------------------------------------------------------
(* The collection.                                                         *)

LEMMA AddStep ==
    ASSUME IInv, add_io_interface
    PROVE  IInv'
  <1> USE DEF IInv
  <1> DEFINE h == pc[RunThread].h
  <1>1. /\ pc' \in [Procs -> PcType] /\ Others(RunThread) /\ RunThread \in Procs
        /\ pc'[RunThread].at = "idle"
    BY PcKnown, MoveIdle DEF add_io_interface
  <1>2. h \in Io /\ is_valid(h) /\ ~Stored(h) /\ Adding(h) /\ m_io_intfs \in Seq(Io)
    BY <1>1 DEF add_io_interface, HeldInv, HeldOf, Adding, TypeOK
  <1> HIDE DEF h
  <1>3. m_io_intfs' = Append(m_io_intfs, h)
    BY DEF add_io_interface, h
  <1>4. /\ m_io_intfs' \in Seq(Io) /\ IsInjective(m_io_intfs')
        /\ \A x : Contains(m_io_intfs', x) <=> Contains(m_io_intfs, x) \/ x = h
    BY <1>2, <1>3, AppendElements DEF Stored, LifeInv
  <1>5. TypeOK'
    BY <1>1, <1>4 DEF add_io_interface, TypeOK, IoTypeOK, PcType, ioVars
  <1>6. HeldInv'
    <2>1. HeldOf(RunThread)'
      BY <1>1 DEF HeldOf
    <2>2. \A q \in Procs : q # RunThread => pc[q].at \notin {"add", "add_remove"}
      BY DEF HeldInv, HeldOf
    <2> QED
      BY <1>1, <2>1, <2>2, HeldKept DEF add_io_interface, ioVars
  <1>7. LifeInv'
    <2>1. ASSUME NEW g \in Io PROVE LifeOf(g)'
      <3>1. ~Adding(g)' /\ (Stored(g)' <=> Stored(g) \/ g = h)
        BY <1>1, <1>4 DEF Adding, Stored
      <3>2. UNCHANGED <<life, reported, dropped, overtaken>>
        BY DEF add_io_interface, ioVars
      <3>3. LifeOf(g)
        BY DEF LifeInv
      <3> QED
        BY <1>2, <3>1, <3>2, <3>3 DEF LifeOf, is_valid
    <2> QED
      BY <1>4, <2>1 DEF LifeInv
  <1>8. LoopInv'
    BY <1>1, LoopFree DEF add_io_interface
  <1> QED
    BY <1>5, <1>6, <1>7, <1>8, OrderKept, ThrowKept DEF add_io_interface, ioVars

\* What erase_where does to the collection.
LEMMA ErasedElements ==
    ASSUME TypeOK, LifeInv, NEW io
    PROVE  /\ Erased(io) \in Seq(Io) /\ IsInjective(Erased(io))
           /\ \A x \in Io : Contains(Erased(io), x) <=> Stored(x) /\ ~Equal(x, io)
           /\ \A x : Contains(Erased(io), x) => Stored(x)
  <1>1. m_io_intfs \in Seq(Io) /\ IsInjective(m_io_intfs)
    BY DEF TypeOK, LifeInv
  <1> QED
    BY <1>1, EraseWhereElements DEF Erased, Stored

LEMMA RemoveStep ==
    ASSUME IInv, NEW p \in Procs, remove_io_interface(p)
    PROVE  IInv'
  <1> USE DEF IInv
  <1> DEFINE h == pc[p].h
  <1>1. /\ pc' \in [Procs -> PcType] /\ Others(p) /\ RunThread \in Procs
        /\ \/ pc'[p].at = "idle"
           \/ pc[p].at = "add_remove" /\ pc'[p].at = "add" /\ pc'[p].h = h
    BY PcKnown, MoveBack DEF remove_io_interface
  <1>2. h \in Io /\ is_valid(h)
    BY DEF remove_io_interface, Removing, HeldInv, HeldOf
  <1>3. /\ reported' = reported \cup {h} /\ m_io_intfs' = Erased(h) /\ UNCHANGED ioVars
        /\ UNCHANGED <<m_mutex, dropped, threw, terminated>>
        /\ overtaken \subseteq overtaken' /\ overtaken' \subseteq overtaken \cup {h}
        /\ Adding(h) => h \in overtaken'
    BY DEF remove_io_interface
  <1> HIDE DEF h
  <1>4. /\ m_io_intfs' \in Seq(Io) /\ IsInjective(m_io_intfs')
        /\ \A x \in Io : Stored(x)' => Stored(x) /\ x # h
        /\ \A x : Contains(m_io_intfs', x) => Stored(x)
    BY <1>2, <1>3, ErasedElements DEF Stored, Equal
  <1>5. TypeOK'
    BY <1>1, <1>2, <1>3, <1>4 DEF TypeOK, IoTypeOK, PcType, ioVars
  <1>6. HeldInv'
    <2>1. HeldOf(p)'
      BY <1>1, <1>2, <1>3, <1>4 DEF HeldInv, HeldOf, is_valid, Stored, ioVars, h
    <2> QED
      BY <1>1, <1>3, <1>4, <2>1, HeldKept DEF ioVars
  <1>7. LifeInv'
    <2>1. ASSUME NEW g \in Io PROVE LifeOf(g)'
      <3>1. LifeOf(g) /\ (Stored(g)' => Stored(g) /\ g # h)
        BY <1>4 DEF LifeInv
      <3>2. Adding(g)' => Adding(g)
        BY <1>1 DEF Adding, Others, h
      <3>3. Adding(h) => h \in overtaken'
        BY <1>3
      <3>4. life' = life /\ life[h] = "live"
        BY <1>2, <1>3 DEF ioVars, is_valid
      <3>5. CASE g = h
        BY <1>3, <3>1, <3>2, <3>3, <3>4, <3>5 DEF LifeOf
      <3>6. CASE g # h
        BY <1>3, <3>1, <3>2, <3>4, <3>6 DEF LifeOf
      <3> QED
        BY <3>5, <3>6
    <2> QED
      BY <1>4, <2>1 DEF LifeInv
  <1>8. LoopInv'
    BY <1>1, LoopFree DEF remove_io_interface
  <1> QED
    BY <1>3, <1>5, <1>6, <1>7, <1>8, OrderKept, ThrowKept DEF ioVars

LEMMA AppRemoveStep ==
    ASSUME IInv, NEW t \in Threads, NEW h \in Io, app_remove(t, h)
    PROVE  IInv'
  <1> USE DEF IInv
  <1>1. /\ m_io_intfs' = Erased(h) /\ m_mutex = Free
        /\ UNCHANGED <<ioVars, m_mutex, pc, reported, dropped, overtaken, threw, terminated>>
    BY DEF app_remove
  <1>2. /\ m_io_intfs' \in Seq(Io) /\ IsInjective(m_io_intfs')
        /\ \A x : Contains(m_io_intfs', x) => Stored(x)
    BY <1>1, ErasedElements
  <1>3. TypeOK'
    BY <1>1, <1>2 DEF TypeOK, IoTypeOK, ioVars
  <1>4. RunThread \in Procs /\ Others(RunThread)
    BY <1>1 DEF Procs, Others
  <1>5. HeldInv'
    BY <1>1, <1>2 DEF HeldInv, HeldOf, is_valid, Stored, ioVars
  <1>6. LifeInv'
    <2>1. ASSUME NEW g \in Io PROVE LifeOf(g)'
      <3>1. LifeOf(g) /\ (Stored(g)' => Stored(g)) /\ Adding(g)' = Adding(g)
        BY <1>1, <1>2 DEF LifeInv, Stored, Adding
      <3> QED
        BY <1>1, <3>1 DEF LifeOf, ioVars
    <2> QED
      BY <1>2, <2>1 DEF LifeInv
  <1>7. LoopInv'
    <2>1. pc'[RunThread].at # "loop"
      BY <1>1, <1>4, NoLoop
    <2> QED
      BY <1>1, <1>4, <2>1, LoopFree
  <1> QED
    BY <1>1, <1>3, <1>5, <1>6, <1>7, OrderKept, ThrowKept DEF ioVars

-----------------------------------------------------------------------------
(* Sending.                                                                *)

\* A step of t in or into the loop, or out of it, that touches only the mutex.
LEMMA LoopMove ==
    ASSUME IInv, NEW t \in Procs, Others(t), pc'[t].at \in {"idle", "loop"},
           UNCHANGED <<life, m_io_intfs, reported, dropped, overtaken>>
    PROVE  HeldInv' /\ LifeInv'
  <1>1. HeldInv'
    BY HeldQuiet DEF IInv
  <1>2. \A g \in Io : Adding(g)' => Adding(g)
    BY PcKnown DEF IInv, Adding, Others
  <1> QED
    BY <1>1, <1>2, LifeQuiet DEF IInv

LEMMA SendStep ==
    ASSUME IInv, NEW t \in Threads, NEW b \in Buf, send(t, b)
    PROVE  IInv'
  <1> USE DEF IInv
  <1>1. t \in Procs
    BY DEF Procs
  <1>2. /\ pc' \in [Procs -> PcType] /\ Others(t)
        /\ pc'[t].at = "loop" /\ pc'[t].i = 1 /\ pc'[t].buf = b
    BY <1>1, PcKnown, MoveLoop DEF send
  <1>3. /\ m_mutex = Free /\ m_mutex' = t /\ Unsent(b)
        /\ UNCHANGED <<ioVars, m_io_intfs, reported, dropped, overtaken, threw, terminated>>
    BY DEF send
  <1>4. TypeOK'
    BY <1>1, <1>2, <1>3 DEF TypeOK, IoTypeOK, PcType, ioVars
  <1>5. HeldInv' /\ LifeInv'
    BY <1>1, <1>2, <1>3, LoopMove DEF ioVars
  <1>6. LoopInv'
    <2>1. \A q \in Procs : q # t => pc'[q].at # "loop"
      BY <1>2, <1>3, NoLoop DEF Others
    <2>2. \A k \in DOMAIN m_io_intfs : ~(k < 1)
      BY DEF TypeOK
    <2>3. \A h \in Io : \A k \in DOMAIN posted[h] : posted[h][k] # b
      BY <1>3 DEF Unsent
    <2>4. LoopOf(t)'
      BY <1>2, <1>3, <2>2, <2>3 DEF LoopOf, ioVars
    <2> QED
      BY <2>1, <2>4 DEF LoopInv, LoopOf
  <1> QED
    BY <1>3, <1>4, <1>5, <1>6, OrderKept, ThrowKept DEF ioVars

\* What one round of the loop does to the interfaces: b goes to h, for the first
\* time.
PostsOnly(h, b) ==
    /\ posted \in [Io -> Seq(Buf)]
    /\ posted'[h] = Append(posted[h], b)
    /\ \A g \in Io : g # h => posted'[g] = posted[g]
    /\ ~Contains(posted[h], b)

LEMMA OnePosted ==
    ASSUME IInv, NEW t \in Procs, send_one(t)
    PROVE  /\ pc[t].i \in Nat /\ pc[t].i \in DOMAIN m_io_intfs
           /\ m_io_intfs[pc[t].i] \in Io /\ pc[t].buf \in Buf
           /\ posted' \in [Io -> Seq(Buf)]
           /\ PostsOnly(m_io_intfs[pc[t].i], pc[t].buf)
  <1> DEFINE b == pc[t].buf
             n == pc[t].i
             h == m_io_intfs[n]
  <1>1. LoopOf(t) /\ n \in Nat /\ m_io_intfs \in Seq(Io) /\ pc[t].at = "loop"
    BY PcKnown DEF IInv, LoopInv, send_one, TypeOK, PcType
  <1>2. n # 0 /\ b \in Buf
    BY <1>1 DEF LoopOf
  <1>3. posted' = [posted EXCEPT ![h] = Append(@, b)] /\ posted \in [Io -> Seq(Buf)]
    BY DEF send_one, io_send, IInv, TypeOK, IoTypeOK
  <1>4. n \in DOMAIN m_io_intfs /\ h \in Io
    BY <1>1, <1>2 DEF send_one
  <1>5. ~Contains(posted[h], b)
    <2> SUFFICES ASSUME Contains(posted[h], b) PROVE FALSE
      OBVIOUS
    <2>1. PICK k \in DOMAIN posted[h] : posted[h][k] = b
      BY DEF Contains
    <2>2. PICK j \in DOMAIN m_io_intfs : j < n /\ m_io_intfs[j] = h
      BY <1>1, <1>4, <2>1 DEF LoopOf
    <2>3. j = n
      BY <1>4, <2>2 DEF IInv, LifeInv, IsInjective
    <2> QED
      BY <1>1, <2>2, <2>3
  <1> HIDE DEF h, b
  <1>6. posted' \in [Io -> Seq(Buf)]
    BY <1>2, <1>3, <1>4
  <1>7. posted'[h] = Append(posted[h], b) /\ \A g \in Io : g # h => posted'[g] = posted[g]
    BY <1>3, <1>4
  <1> QED
    BY <1>1, <1>2, <1>3, <1>4, <1>5, <1>6, <1>7 DEF PostsOnly, h, b

\* An appended buffer comes after the others.
LEMMA AppendBefore ==
    ASSUME NEW s \in Seq(Buf), NEW b \in Buf, NEW x \in Buf, NEW y \in Buf,
           Before(x, y, Append(s, b))
    PROVE  Before(x, y, s) \/ (y = b /\ Contains(s, x))
  <1> DEFINE a == Append(s, b)
  <1>1. /\ Len(s) \in Nat /\ DOMAIN s = 1 .. Len(s) /\ DOMAIN a = 1 .. Len(s) + 1
        /\ a[Len(s) + 1] = b /\ \A i \in 1 .. Len(s) : a[i] = s[i]
    OBVIOUS
  <1> HIDE DEF a
  <1>2. PICK j \in DOMAIN a, k \in DOMAIN a : j < k /\ a[j] = x /\ a[k] = y
    BY DEF Before, a
  <1>3. j \in 1 .. Len(s) /\ (k \in 1 .. Len(s) \/ k = Len(s) + 1)
    BY <1>1, <1>2
  <1> QED
    BY <1>1, <1>2, <1>3 DEF Before, Contains

\* Two senders agree on the order: a buffer that goes to one more interface is the
\* last one wherever it is.
LEMMA OrderStep ==
    ASSUME IInv, NEW t \in Procs, send_one(t)
    PROVE  SameOrder'
  <1> DEFINE b == pc[t].buf
             h == m_io_intfs[pc[t].i]
  <1>1. h \in Io /\ b \in Buf /\ PostsOnly(h, b)
    BY OnePosted
  <1>2. \A g \in Io : \A k \in DOMAIN posted[g] : posted[g][k] = b => k = Len(posted[g])
    BY DEF IInv, LoopInv, LoopOf, send_one
  <1> HIDE DEF b, h
  <1>3. \A g \in Io : \A x \in Buf : ~Before(b, x, posted[g])
    <2> SUFFICES ASSUME NEW g \in Io, NEW x \in Buf, Before(b, x, posted[g]) PROVE FALSE
      OBVIOUS
    <2>1. PICK j \in DOMAIN posted[g], k \in DOMAIN posted[g] : j < k /\ posted[g][j] = b
      BY DEF Before
    <2>2. j = Len(posted[g])
      BY <1>2, <2>1
    <2>3. posted[g] \in Seq(Buf)
      BY <1>1 DEF PostsOnly
    <2> QED
      BY <2>1, <2>2, <2>3
  <1>4. ASSUME NEW g \in Io, NEW x \in Buf, NEW y \in Buf, Before(x, y, posted'[g])
        PROVE  Before(x, y, posted[g]) \/ (g = h /\ y = b /\ x # b)
    <2>1. CASE g # h
      BY <1>1, <1>4, <2>1 DEF PostsOnly
    <2>2. CASE g = h
      <3>1. posted[h] \in Seq(Buf) /\ Before(x, y, Append(posted[h], b)) /\ ~Contains(posted[h], b)
        BY <1>1, <1>4, <2>2 DEF PostsOnly
      <3> QED
        BY <1>1, <2>2, <3>1, AppendBefore
    <2> QED
      BY <2>1, <2>2
  <1>5. ASSUME NEW f \in Io, NEW g \in Io, NEW x \in Buf, NEW y \in Buf,
               Before(x, y, posted'[f]), Before(y, x, posted'[g])
        PROVE  FALSE
    <2>1. ~(Before(x, y, posted[f]) /\ Before(y, x, posted[g]))
      BY DEF IInv, SameOrder
    <2>2. Before(x, y, posted[f]) \/ (y = b /\ x # b)
      BY <1>4, <1>5
    <2>3. Before(y, x, posted[g]) \/ (x = b /\ y # b)
      BY <1>4, <1>5
    <2> QED
      BY <1>3, <2>1, <2>2, <2>3
  <1> QED
    BY <1>5 DEF SameOrder

LEMMA SendOneStep ==
    ASSUME IInv, NEW t \in Procs, send_one(t)
    PROVE  IInv'
  <1> DEFINE b == pc[t].buf
             n == pc[t].i
             h == m_io_intfs[n]
  <1>1. /\ n \in Nat /\ n \in DOMAIN m_io_intfs /\ h \in Io /\ b \in Buf
        /\ posted' \in [Io -> Seq(Buf)] /\ PostsOnly(h, b)
    BY OnePosted
  <1>2. /\ pc' \in [Procs -> PcType] /\ Others(t) /\ pc[t].at = "loop"
        /\ pc'[t].at = "loop" /\ pc'[t].i = n + 1 /\ pc'[t].buf = b
    BY PcKnown, MoveNext DEF send_one, IInv
  <1>3. UNCHANGED <<life, started, m_io_intfs, m_mutex, reported, dropped, overtaken, threw,
                    terminated>>
    BY DEF send_one, io_send
  <1>4. LoopOf(t) /\ \A q \in Procs : q # t => pc[q].at # "loop"
    <2>1. \A q \in Procs : LoopOf(q)
      BY DEF IInv, LoopInv
    <2> QED
      BY <1>2, <2>1 DEF LoopOf
  <1>5. TypeOK'
    BY <1>1, <1>2, <1>3 DEF IInv, TypeOK, IoTypeOK, PcType
  <1>6. HeldInv' /\ LifeInv'
    BY <1>2, <1>3, LoopMove
  <1>7. LoopInv'
    <2> HIDE DEF b, n, h
    <2>1. /\ m_mutex = t /\ n # 0
          /\ \A k \in DOMAIN m_io_intfs : k < n => Contains(posted[m_io_intfs[k]], b)
          /\ \A g \in Io : \A k \in DOMAIN posted[g] : posted[g][k] = b =>
               k = Len(posted[g]) /\ \E j \in DOMAIN m_io_intfs : j < n /\ m_io_intfs[j] = g
      BY <1>2, <1>4 DEF LoopOf, b, n
    <2>2. \A x : Contains(posted'[h], x) <=> Contains(posted[h], x) \/ x = b
      BY <1>1, AppendElements DEF PostsOnly
    <2>3. \A k \in DOMAIN m_io_intfs : m_io_intfs[k] \in Io /\ k \in Nat
      BY DEF IInv, TypeOK
    <2>4. ASSUME NEW k \in DOMAIN m_io_intfs, k < n + 1
          PROVE  Contains(posted'[m_io_intfs[k]], b)
      <3>1. CASE m_io_intfs[k] = h
        BY <2>2, <3>1
      <3>2. CASE m_io_intfs[k] # h
        <4>1. k # n
          BY <3>2 DEF h
        <4>2. k < n
          BY <1>1, <2>3, <2>4, <4>1
        <4> QED
          BY <1>1, <2>1, <2>3, <3>2, <4>2 DEF PostsOnly
      <3> QED
        BY <3>1, <3>2
    <2>5. ASSUME NEW g \in Io, NEW k \in DOMAIN posted'[g], posted'[g][k] = b
          PROVE  k = Len(posted'[g]) /\ \E j \in DOMAIN m_io_intfs : j < n + 1 /\ m_io_intfs[j] = g
      <3>1. CASE g = h
        <4>1. posted[h] \in Seq(Buf) /\ posted'[h] = Append(posted[h], b) /\ ~Contains(posted[h], b)
          BY <1>1 DEF PostsOnly
        <4>2. k = Len(posted'[h])
          BY <1>1, <2>5, <3>1, <4>1 DEF Contains
        <4>3. n < n + 1 /\ m_io_intfs[n] = g /\ n \in DOMAIN m_io_intfs
          BY <1>1, <3>1 DEF h
        <4> QED
          BY <3>1, <4>2, <4>3
      <3>2. CASE g # h
        <4>1. posted'[g] = posted[g]
          BY <1>1, <3>2 DEF PostsOnly
        <4>2. k = Len(posted[g]) /\ \E j \in DOMAIN m_io_intfs : j < n /\ m_io_intfs[j] = g
          BY <2>1, <2>5, <4>1
        <4> QED
          BY <1>1, <2>3, <4>1, <4>2
      <3> QED
        BY <3>1, <3>2
    <2>6. n + 1 # 0
      BY <1>1
    <2>7. LoopOf(t)'
      BY <1>1, <1>2, <1>3, <2>1, <2>4, <2>5, <2>6 DEF LoopOf
    <2> QED
      BY <1>2, <1>4, <2>7 DEF LoopInv, LoopOf, Others
  <1>8. ThrowsOnlyIfStale'
    BY <1>3, ThrowKept DEF IInv
  <1> QED
    BY <1>5, <1>6, <1>7, <1>8, OrderStep DEF IInv

\* send leaves the loop, at its end or by an exception: the mutex is free again.
LEMMA LeaveStep ==
    ASSUME IInv, NEW t \in Procs, send_throws(t) \/ send_returns(t)
    PROVE  IInv'
  <1> USE DEF IInv
  <1>1. /\ pc[t].at = "loop" /\ m_mutex' = Free
        /\ UNCHANGED <<ioVars, m_io_intfs, reported, dropped, overtaken, terminated>>
    BY DEF send_throws, send_returns
  <1>2. pc' \in [Procs -> PcType] /\ Others(t) /\ pc'[t].at = "idle"
    BY PcKnown, MoveIdle DEF send_throws, send_returns
  <1>3. LoopOf(t) /\ pc[t].buf \in Buf /\ \A q \in Procs : q # t => pc[q].at # "loop"
    <2>1. \A q \in Procs : LoopOf(q)
      BY DEF LoopInv
    <2> QED
      BY <1>1, <2>1 DEF LoopOf
  <1>4. ThrowsOnlyIfStale' /\ threw' \subseteq Buf
    <2>1. CASE send_returns(t)
      BY <2>1, ThrowKept DEF send_returns, TypeOK
    <2>2. CASE send_throws(t)
      <3>1. pc[t].i \in DOMAIN m_io_intfs /\ ~is_valid(m_io_intfs[pc[t].i])
        BY <1>1, <1>3, <2>2, PcKnown DEF send_throws, LoopOf, TypeOK, PcType
      <3>2. dropped \cup overtaken # {}
        BY <3>1, StaleStored
      <3> QED
        BY <1>1, <1>3, <2>2, <3>2 DEF send_throws, TypeOK, ThrowsOnlyIfStale
    <2> QED
      BY <2>1, <2>2
  <1>5. TypeOK'
    BY <1>1, <1>2, <1>4 DEF TypeOK, IoTypeOK, PcType, ioVars
  <1>6. HeldInv' /\ LifeInv'
    BY <1>1, <1>2, LoopMove DEF ioVars
  <1>7. LoopInv'
    BY <1>2, <1>3 DEF LoopInv, LoopOf, Others
  <1> QED
    BY <1>1, <1>4, <1>5, <1>6, <1>7, OrderKept DEF ioVars

LEMMA StatsStep ==
    ASSUME IInv, NEW t \in Threads, get_total_output_queue_stats(t)
    PROVE  IInv'
  <1> USE DEF IInv
  <1>1. /\ UNCHANGED <<ioVars, m_io_intfs, m_mutex, pc, reported, dropped, overtaken, threw>>
        /\ terminated' = (\E k \in DOMAIN m_io_intfs : ~is_valid(m_io_intfs[k]))
    BY DEF get_total_output_queue_stats
  <1>2. TypeOK'
    BY <1>1 DEF TypeOK, IoTypeOK, ioVars
  <1>3. HeldInv' /\ LoopInv'
    BY <1>1 DEF HeldInv, HeldOf, LoopInv, LoopOf, is_valid, Stored, ioVars
  <1>4. LifeInv'
    <2>1. \A g \in Io : Adding(g)' => Adding(g)
      BY <1>1 DEF Adding
    <2> QED
      BY <1>1, <2>1, LifeQuiet DEF ioVars
  <1>5. ThrowsOnlyIfStale'
    <2>1. terminated' => dropped \cup overtaken # {}
      BY <1>1, StaleStored
    <2> QED
      BY <1>1, <2>1 DEF ThrowsOnlyIfStale
  <1> QED
    BY <1>1, <1>2, <1>3, <1>4, <1>5, OrderKept DEF ioVars

-----------------------------------------------------------------------------
(* The theorems.                                                           *)

LEMMA InitHolds == Init => IInv
  <1> SUFFICES ASSUME Init PROVE IInv
    OBVIOUS
  <1> USE DEF Init, IoInit
  <1>1. \A p \in Procs : pc[p].at = "idle"
    BY DEF Idle
  <1>2. TypeOK
    <2>1. pc \in [Procs -> [at : PcAt, h : Io \cup {None}, i : Nat, buf : Buf \cup {None}]]
      BY DEF Idle, PcAt, None
    <2>2. m_io_intfs \in Seq(Io) /\ posted \in [Io -> Seq(Buf)]
      OBVIOUS
    <2>3. life \in [Io -> {"none", "live", "expired"}]
      OBVIOUS
    <2> QED
      BY <2>1, <2>2, <2>3 DEF TypeOK, IoTypeOK
  <1>3. \A x : ~Contains(m_io_intfs, x)
    BY DEF Contains
  <1>4. HeldInv /\ LoopInv
    BY <1>1 DEF HeldInv, HeldOf, LoopInv, LoopOf
  <1>5. LifeInv
    BY <1>3 DEF LifeInv, LifeOf, Stored, IsInjective
  <1>6. SameOrder
    BY DEF SameOrder, Before
  <1>7. ThrowsOnlyIfStale
    BY DEF ThrowsOnlyIfStale
  <1> QED
    BY <1>2, <1>4, <1>5, <1>6, <1>7 DEF IInv

LEMMA NextHolds == IInv /\ [Next]_vars => IInv'
  <1> SUFFICES ASSUME IInv, [Next]_vars PROVE IInv'
    OBVIOUS
  <1>1. CASE UNCHANGED vars
    <2> USE <1>1 DEF vars, ioVars
    <2>1. TypeOK'
      BY DEF IInv, TypeOK, IoTypeOK
    <2>2. HeldInv' /\ LoopInv'
      BY DEF IInv, HeldInv, HeldOf, LoopInv, LoopOf, is_valid, Stored
    <2>3. LifeInv'
      BY DEF IInv, LifeInv, LifeOf, Stored, Adding
    <2>4. SameOrder' /\ ThrowsOnlyIfStale'
      BY OrderKept, ThrowKept DEF IInv
    <2> QED
      BY <2>1, <2>2, <2>3, <2>4 DEF IInv
  <1>2. CASE Next
    BY <1>2, BeginsStep, EndsStep, GoneStep, StartIoStep, AddStep, RemoveStep, AppRemoveStep,
       SendStep, SendOneStep, LeaveStep, StatsStep DEF Next, Step, InCall
  <1> QED
    BY <1>1, <1>2

\* The collection keeps its types, and any two interfaces agree on the order of two
\* buffers, whoever sent them: send (send_to_all.hpp) holds the mutex for its loop.
THEOREM SendersAgree == Spec => []CollectionInv
  <1>1. IInv => CollectionInv
    BY DEF IInv, CollectionInv
  <1> QED
    BY <1>1, InitHolds, NextHolds, PTL DEF Spec

\* A send throws, and get_total_output_queue_stats terminates the program
\* (send_to_all.hpp), only after a connection was dropped without a report or ended
\* before its beginning was fully reported.
THEOREM ThrowsOnlyStale == Spec => []ThrowsOnlyIfStale
  <1>1. IInv => ThrowsOnlyIfStale
    BY DEF IInv
  <1> QED
    BY <1>1, InitHolds, NextHolds, PTL DEF Spec

\* A send that returns has reached every interface in the collection.
THEOREM ReachesAll == Spec => AllOrThrow
  <1>1. ASSUME IInv
        PROVE  \A t \in Threads : send_returns(t) =>
                 \A k \in DOMAIN m_io_intfs : Contains(posted[m_io_intfs[k]], pc[t].buf)
    <2> SUFFICES ASSUME NEW t \in Threads, send_returns(t), NEW k \in DOMAIN m_io_intfs
                 PROVE  Contains(posted[m_io_intfs[k]], pc[t].buf)
      OBVIOUS
    <2>1. t \in Procs /\ LoopOf(t) /\ pc[t].i \in Nat
      BY <1>1, PcKnown DEF Procs, IInv, LoopInv, PcType
    <2>2. k < pc[t].i
      BY <1>1, <2>1 DEF send_returns, IInv, TypeOK
    <2> QED
      BY <2>1, <2>2 DEF LoopOf, send_returns
  <1> QED
    BY <1>1, InitHolds, NextHolds, PTL DEF Spec, AllOrThrow

\* A handle that is valid leaves the collection only when its own end is reported,
\* although operator== (basic_io_interface.hpp) takes all expired handles for equal.
THEOREM LeavesOnlyByItself == Spec => LeavesByItself
  <1>1. ASSUME IInv, [Next]_vars, NEW h \in Io, Stored(h), ~Stored(h)', is_valid(h)
        PROVE  h \in reported'
    <2>1. m_io_intfs' # m_io_intfs
      BY <1>1 DEF Stored
    <2>2. \/ add_io_interface
          \/ \E p \in Procs : remove_io_interface(p)
          \/ \E t \in Threads, g \in Io : app_remove(t, g)
      BY <1>1, <2>1 DEF Next, Step, InCall, vars, io_begins, released, drop, io_ends, send,
             get_total_output_queue_stats, app_start_io, send_one, send_throws, send_returns
    <2>3. TypeOK /\ LifeInv /\ m_io_intfs \in Seq(Io)
      BY <1>1 DEF IInv, TypeOK
    <2>4. CASE add_io_interface
      <3>1. RunThread \in Procs /\ HeldOf(RunThread)
        BY <1>1 DEF Procs, IInv, HeldInv
      <3>2. pc[RunThread].h \in Io
        BY <2>4, <3>1 DEF add_io_interface, HeldOf
      <3> QED
        BY <1>1, <2>3, <2>4, <3>2, AppendElements DEF add_io_interface, Stored
    <2>5. ASSUME NEW p \in Procs, remove_io_interface(p) PROVE h \in reported'
      <3>1. is_valid(pc[p].h)
        BY <1>1, <2>5 DEF IInv, HeldInv, HeldOf, remove_io_interface, Removing
      <3>2. Equal(h, pc[p].h)
        BY <1>1, <2>3, <2>5, ErasedElements DEF remove_io_interface, Stored
      <3> QED
        BY <1>1, <2>5, <3>1, <3>2 DEF Equal, remove_io_interface
    <2>6. ASSUME NEW t \in Threads, NEW g \in Io, app_remove(t, g) PROVE h \in reported'
      <3>1. ~is_valid(g)
        BY <2>6 DEF app_remove, is_valid
      <3>2. Equal(h, g)
        BY <1>1, <2>3, <2>6, ErasedElements DEF app_remove, Stored
      <3> QED
        BY <1>1, <3>1, <3>2 DEF Equal
    <2> QED
      BY <2>2, <2>4, <2>5, <2>6
  <1>2. IInv /\ [Next]_vars =>
          [\A h \in Io : Stored(h) /\ ~Stored(h)' /\ is_valid(h) => h \in reported']_vars
    BY <1>1
  <1> QED
    BY <1>2, InitHolds, NextHolds, PTL DEF Spec, LeavesByItself

=============================================================================
