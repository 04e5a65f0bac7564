--------------------- MODULE IoInterfaceDeliveryProofs ---------------------
(***************************************************************************)
(* Proofs about IoInterfaceDelivery, for every number of starts, every set *)
(* of application threads and every start function.                        *)
(***************************************************************************)
EXTENDS IoInterfaceDelivery, SequenceLemmas

\* The queue told of the beginning of h.
Begun(h) == \E k \in DOMAIN wq : wq[k] = [h |-> h, starting |-> TRUE]

\* The callback for a new connection is running, or has called notify_me.
Opening == pc[RunThread].at \in {"callback", "deliver"} \/ pc[RunThread].back

\* A call that needs a connection has one that was made; only the run thread
\* is ever inside the callback for a new one.
PlaceInv ==
    \A p \in Procs :
        /\ pc[p].at \in {"callback", "deliver", "notify", "chg_false"} \/ pc[p].back =>
               pc[p].h \in Handler /\ io[pc[p].h] # "none"
        /\ pc[p].at \in {"callback", "deliver"} \/ pc[p].back => p = RunThread
        /\ pc[p].back => pc[p].at \in {"notify", "chg_false", "stop", "close"}

\* Someone is going to connect: a chain of attempts, or a start that begins one.
Chain == attempts > 0 \/ \E p \in Procs : pc[p].at = "start"

\* Nothing is made before the first start, and only one connection before the
\* second.
MadeInv ==
    /\ Chain \/ (\E h \in Handler : io[h] # "none") => starts \in Start
    /\ leftover => starts > 1
    /\ starts = 1 /\ Chain => \A h \in Handler : io[h] = "none"
    /\ starts = 1 => \A g, h \in Handler : io[g] # "none" /\ io[h] # "none" => g = h

\* As long as no start finds a chain of attempts of an earlier one, there is at
\* most one.
ChainInv ==
    ~leftover => /\ attempts <= 1
                 /\ \A p, q \in Procs : pc[p].at = "start" /\ pc[q].at = "start" => p = q
                 /\ \A p \in Procs : pc[p].at = "start" => attempts = 0

\* Until the callback of the last start has delivered, its promise is not set
\* and no second connection is on its way; until it has called start_io, its
\* message handler is in place.
OnceInv ==
    ~leftover => /\ Opening => ~Chain
                 /\ Opening \/ Chain => start_prom[starts] = Unset
                 /\ pc[RunThread].at = "callback" \/ Chain => ~io_start_moved

\* The promises of later starts are not touched; with one start the promise of
\* the end is set only by an end that was reported.
PromiseInv ==
    /\ \A n \in Start : n > starts => start_prom[n] = Unset /\ stop_prom[n] = Unset
    /\ mode = "wait_queue" => \A n \in Start : start_prom[n] \notin Handler
    /\ \A n \in Start : starts = 1 /\ stop_prom[n] # Unset =>
           \E h \in Handler : io[h] # "none" /\ down[h] >= 1

\* A connection that reads was begun with an intact message handler, and the queue
\* told of it or is about to.
ReadInv ==
    \A h \in Handler : read[h] # "none" =>
        /\ io[h] # "none" /\ (~leftover => h \in intact)
        /\ mode = "wait_queue" =>
               Begun(h) \/ (pc[RunThread].at = "deliver" /\ pc[RunThread].h = h)

\* An end is reported after the beginning, or of a connection lost in start_io.
EndInv ==
    \A p \in Procs : pc[p].at \in {"notify", "chg_false"} =>
        pc[p].h \in lost \/ (mode = "wait_queue" => Begun(pc[p].h))

IInv == /\ TypeOK
        /\ PlaceInv
        /\ MadeInv
        /\ ChainInv
        /\ OnceInv
        /\ PromiseInv
        /\ ReadInv
        /\ EndInv
        /\ BeginBeforeEnd
        /\ ErrorOnlyBySecondEnd

USE DEF histVars

-----------------------------------------------------------------------------
(* Threads moving from place to place.                                     *)

\* p is now at a, with connection h and the return b; the others did not move.
MovedTo(p, a, h, b) ==
    /\ pc' \in [Procs -> Place]
    /\ pc'[p].at = a /\ pc'[p].h = h /\ pc'[p].back = b
    /\ \A x \in Procs : x # p => pc'[x] = pc[x]

LEMMA PcFields ==
    ASSUME TypeOK, NEW p \in Procs
    PROVE  pc[p] \in Place /\ pc[p].at \in PcAt /\ pc[p].h \in Handler \cup {None}
             /\ pc[p].back \in BOOLEAN
  <1>1. pc[p] \in Place
    BY DEF TypeOK
  <1> QED
    BY <1>1 DEF Place

LEMMA Put ==
    ASSUME TypeOK, NEW p \in Procs, NEW l \in Place, pc' = [pc EXCEPT ![p] = l]
    PROVE  MovedTo(p, l.at, l.h, l.back)
  BY DEF TypeOK, MovedTo

LEMMA MoveIdle ==
    ASSUME TypeOK, NEW p \in Procs, pc' = [pc EXCEPT ![p] = Idle]
    PROVE  MovedTo(p, "idle", None, FALSE)
  <1>1. Idle \in Place
    BY DEF Idle, Place, PcAt
  <1>2. MovedTo(p, Idle.at, Idle.h, Idle.back)
    BY <1>1, Put
  <1> QED
    BY <1>2 DEF Idle

LEMMA MoveAt ==
    ASSUME TypeOK, NEW p \in Procs, NEW a \in PcAt, At(p, a)
    PROVE  MovedTo(p, a, pc[p].h, pc[p].back)
  <1> DEFINE l == [pc[p] EXCEPT !.at = a]
  <1>1. l \in Place /\ l.at = a /\ l.h = pc[p].h /\ l.back = pc[p].back
    BY PcFields DEF Place
  <1>2. pc' = [pc EXCEPT ![p] = l]
    BY DEF At, TypeOK
  <1> HIDE DEF l
  <1>3. MovedTo(p, l.at, l.h, l.back)
    BY <1>1, <1>2, Put
  <1> QED
    BY <1>1, <1>3

LEMMA MoveWith ==
    ASSUME TypeOK, NEW p \in Procs, NEW a \in PcAt, NEW h \in Handler,
           pc' = [pc EXCEPT ![p].at = a, ![p].h = h]
    PROVE  MovedTo(p, a, h, pc[p].back)
  <1> DEFINE l == [pc[p] EXCEPT !.at = a, !.h = h]
  <1>1. l \in Place /\ l.at = a /\ l.h = h /\ l.back = pc[p].back
    BY PcFields DEF Place
  <1>2. pc' = [pc EXCEPT ![p] = l]
    BY DEF TypeOK
  <1> HIDE DEF l
  <1>3. MovedTo(p, l.at, l.h, l.back)
    BY <1>1, <1>2, Put
  <1> QED
    BY <1>1, <1>3

LEMMA MoveBack ==
    ASSUME TypeOK, NEW p \in Procs, NEW a \in PcAt, NEW b \in BOOLEAN,
           pc' = [pc EXCEPT ![p].at = a, ![p].back = b]
    PROVE  MovedTo(p, a, pc[p].h, b)
  <1> DEFINE l == [pc[p] EXCEPT !.at = a, !.back = b]
  <1>1. l \in Place /\ l.at = a /\ l.h = pc[p].h /\ l.back = b
    BY PcFields DEF Place
  <1>2. pc' = [pc EXCEPT ![p] = l]
    BY DEF TypeOK
  <1> HIDE DEF l
  <1>3. MovedTo(p, l.at, l.h, l.back)
    BY <1>1, <1>2, Put
  <1> QED
    BY <1>1, <1>3

LEMMA MoveReturn ==
    ASSUME TypeOK, NEW p \in Procs, Return(p)
    PROVE  \/ pc[p].back /\ MovedTo(p, "deliver", pc[p].h, FALSE)
           \/ ~pc[p].back /\ MovedTo(p, "idle", None, FALSE)
  <1>1. CASE pc[p].back
    <2> DEFINE l == [pc[p] EXCEPT !.at = "deliver", !.back = FALSE]
    <2>1. l \in Place /\ l.at = "deliver" /\ l.h = pc[p].h /\ l.back = FALSE
      BY PcFields DEF Place, PcAt
    <2>2. pc' = [pc EXCEPT ![p] = l]
      BY <1>1 DEF Return, TypeOK
    <2> HIDE DEF l
    <2>3. MovedTo(p, l.at, l.h, l.back)
      BY <2>1, <2>2, Put
    <2> QED
      BY <1>1, <2>1, <2>3
  <1>2. CASE ~pc[p].back
    <2>1. pc' = [pc EXCEPT ![p] = Idle]
      BY <1>2 DEF Return, TypeOK
    <2> QED
      BY <1>2, <2>1, MoveIdle
  <1> QED
    BY <1>1, <1>2, PcFields

-----------------------------------------------------------------------------
(* The connections.                                                        *)

\* The connections keep their types, none is unmade, and no read is started.
Tamer ==
    /\ io' \in [Handler -> {"none", "created", "started", "closed"}]
    /\ read' \in [Handler -> {"none", "pending", "ready", "failed"}]
    /\ \A h \in Handler : (io'[h] = "none") <=> (io[h] = "none")
    /\ \A h \in Handler : read'[h] # "none" => read[h] # "none"

LEMMA CloseTamer ==
    ASSUME TypeOK, NEW h \in Handler, close_io(h)
    PROVE  Tamer
  <1>1. /\ io \in [Handler -> {"none", "created", "started", "closed"}]
        /\ read \in [Handler -> {"none", "pending", "ready", "failed"}]
    BY DEF TypeOK, HandlersTypeOK
  <1>2. CASE UNCHANGED handlerVars
    BY <1>1, <1>2 DEF handlerVars, Tamer
  <1>3. CASE io[h] = "started"
    <2>1. /\ io' = [io EXCEPT ![h] = "closed"]
          /\ read' = [read EXCEPT ![h] = IF @ = "pending" THEN "failed" ELSE @]
      BY <1>3 DEF close_io
    <2> QED
      BY <1>1, <1>3, <2>1 DEF Tamer
  <1> QED
    BY <1>2, <1>3 DEF close_io

LEMMA SameTamer ==
    ASSUME TypeOK, UNCHANGED handlerVars
    PROVE  Tamer
  BY DEF TypeOK, HandlersTypeOK, handlerVars, Tamer

\* What a state change callback with FALSE counts.
LEMMA DownCounts ==
    ASSUME TypeOK, NEW h \in Handler, call_io_state_chg_cb(h, FALSE)
    PROVE  /\ up' = up /\ down' \in [Handler -> Nat]
           /\ down'[h] = down[h] + 1 /\ down[h] \in Nat
           /\ \A g \in Handler : down'[g] >= down[g]
  <1>1. down \in [Handler -> Nat]
    BY DEF TypeOK, HandlersTypeOK, EntityTypeOK
  <1>2. up' = up /\ down' = [down EXCEPT ![h] = down[h] + 1]
    BY <1>1 DEF call_io_state_chg_cb
  <1>3. down[h] + 1 \in Nat
    BY <1>1
  <1>4. \A g \in Handler : down'[g] = IF g = h THEN down[h] + 1 ELSE down[g]
    BY <1>1, <1>2
  <1> QED
    BY <1>1, <1>2, <1>3, <1>4

\* What one more entry in the queue changes.
LEMMA PushQueue ==
    ASSUME TypeOK, NEW g \in Handler, NEW b \in BOOLEAN, push(g, b)
    PROVE  /\ wq' \in Seq([h : Handler, starting : BOOLEAN])
           /\ \A h : Begun(h) => Begun(h)'
           /\ b => Begun(g)'
           /\ BeginBeforeEnd /\ lost' = lost /\ (b \/ g \in lost \/ Begun(g)) => BeginBeforeEnd'
  <1> DEFINE e == [h |-> g, starting |-> b]
             n == Len(wq)
  <1>1. wq \in Seq([h : Handler, starting : BOOLEAN]) /\ e \in [h : Handler, starting : BOOLEAN]
    BY DEF TypeOK
  <1>2. /\ wq' \in Seq([h : Handler, starting : BOOLEAN]) /\ n \in Nat
        /\ DOMAIN wq = 1 .. n /\ DOMAIN wq' = 1 .. n + 1
        /\ wq'[n + 1] = e /\ \A k \in 1 .. n : wq'[k] = wq[k]
    BY <1>1 DEF push
  <1>3. e.h = g /\ e.starting = b
    OBVIOUS
  <1>4. b => e = [h |-> g, starting |-> TRUE]
    OBVIOUS
  <1> HIDE DEF n, e
  <1>5. \A k \in 1 .. n : k \in 1 .. n + 1
    BY <1>2
  <1>6. n + 1 \in 1 .. n + 1 /\ \A k \in 1 .. n + 1 : k \in 1 .. n \/ k = n + 1
    BY <1>2
  <1>7. \A h : Begun(h) => Begun(h)'
    BY <1>2, <1>5 DEF Begun
  <1>8. b => Begun(g)'
    BY <1>2, <1>4, <1>6 DEF Begun
  <1>9. ASSUME BeginBeforeEnd, lost' = lost, b \/ g \in lost \/ Begun(g) PROVE BeginBeforeEnd'
    <2> SUFFICES ASSUME NEW k \in DOMAIN wq', ~wq'[k].starting
                 PROVE  \/ wq'[k].h \in lost'
                        \/ \E j \in 1 .. k - 1 : wq'[j] = [h |-> wq'[k].h, starting |-> TRUE]
      BY DEF BeginBeforeEnd
    <2>1. CASE k \in 1 .. n
      <3>1. wq'[k] = wq[k] /\ ~wq[k].starting
        BY <1>2, <2>1
      <3>2. \/ wq[k].h \in lost
            \/ \E j \in 1 .. k - 1 : wq[j] = [h |-> wq[k].h, starting |-> TRUE]
        BY <1>2, <1>9, <2>1, <3>1 DEF BeginBeforeEnd
      <3>3. \A j \in 1 .. k - 1 : j \in 1 .. n
        BY <1>2, <2>1
      <3> QED
        BY <1>2, <1>9, <3>1, <3>2, <3>3
    <2>2. CASE k = n + 1
      <3>1. wq'[k].h = g /\ ~b
        BY <1>2, <1>3, <2>2
      <3>2. g \in lost \/ Begun(g)
        BY <1>9, <3>1
      <3>3. 1 .. k - 1 = 1 .. n
        BY <1>2, <2>2
      <3>4. Begun(g) => \E j \in 1 .. k - 1 : wq'[j] = [h |-> g, starting |-> TRUE]
        BY <1>2, <3>3 DEF Begun
      <3> QED
        BY <1>9, <3>1, <3>2, <3>4
    <2> QED
      BY <1>2, <1>6, <2>1, <2>2
  <1> QED
    BY <1>2, <1>7, <1>8, <1>9

-----------------------------------------------------------------------------
(* Steps of the calls and handlers that begin no connection.               *)

\* The place p moves to is one that PlaceInv, OnceInv, ReadInv and EndInv allow.
Allowed(p, a, h, b) ==
    /\ a \in {"callback", "deliver", "notify", "chg_false"} \/ b => h \in Handler /\ io[h] # "none"
    /\ a \in {"callback", "deliver"} \/ b => p = RunThread /\ Opening
    /\ b => a \in {"notify", "chg_false", "stop", "close"}
    /\ a = "callback" => pc[p].at = "callback"
    /\ a = "start" => pc[p].at = "start"
    /\ a \in {"notify", "chg_false"} => h \in lost \/ (mode = "wait_queue" => Begun(h))
    /\ p = RunThread /\ pc[p].at = "deliver" => a = "deliver" /\ h = pc[p].h

\* The chains of attempts are not more than before, or p begins one.
FewerChains(p, a) ==
    /\ attempts' \in Nat
    /\ attempts' <= attempts \/ (pc[p].at = "start" /\ a # "start" /\ attempts' = attempts + 1)

LEMMA SameChains ==
    ASSUME IInv, attempts' = attempts, NEW p, NEW a
    PROVE  FewerChains(p, a)
  BY DEF IInv, TypeOK, FewerChains

\* The chains, over a step that does not begin a start.
LEMMA ChainMoves ==
    ASSUME TypeOK, MadeInv, ChainInv, NEW p \in Procs, NEW a, NEW g, NEW b,
           MovedTo(p, a, g, b), a = "start" => pc[p].at = "start", FewerChains(p, a),
           UNCHANGED <<starts, leftover>>,
           \A h \in Handler : (io'[h] = "none") <=> (io[h] = "none")
    PROVE  MadeInv' /\ ChainInv' /\ (Chain' => Chain)
  <1>1. /\ \A x \in Procs : pc'[x].at = "start" => pc[x].at = "start"
        /\ pc'[p].at = a /\ attempts \in Nat /\ attempts' \in Nat
    BY DEF MovedTo, TypeOK, FewerChains
  <1>2. Chain' => Chain
    <2>1. CASE attempts' <= attempts
      BY <1>1, <2>1 DEF Chain
    <2>2. CASE pc[p].at = "start"
      BY <2>2 DEF Chain
    <2> QED
      BY <2>1, <2>2 DEF FewerChains
  <1>3. MadeInv'
    BY <1>2 DEF MadeInv
  <1>4. ChainInv'
    <2> SUFFICES ASSUME ~leftover
                 PROVE  /\ attempts' <= 1
                        /\ \A x, y \in Procs : pc'[x].at = "start" /\ pc'[y].at = "start" => x = y
                        /\ \A x \in Procs : pc'[x].at = "start" => attempts' = 0
      BY DEF ChainInv
    <2>1. \A x, y \in Procs : pc'[x].at = "start" /\ pc'[y].at = "start" => x = y
      BY <1>1 DEF ChainInv
    <2>2. CASE attempts' <= attempts
      <3>1. attempts' <= 1
        BY <1>1, <2>2 DEF ChainInv
      <3>2. ASSUME NEW x \in Procs, pc'[x].at = "start" PROVE attempts' = 0
        <4>1. attempts = 0
          BY <1>1, <3>2 DEF ChainInv
        <4> QED
          BY <1>1, <2>2, <4>1
      <3> QED
        BY <2>1, <3>1, <3>2
    <2>3. CASE pc[p].at = "start" /\ a # "start" /\ attempts' = attempts + 1
      <3>1. attempts = 0
        BY <2>3 DEF ChainInv
      <3>2. ASSUME NEW x \in Procs, pc'[x].at = "start" PROVE FALSE
        BY <1>1, <2>3, <3>2 DEF ChainInv
      <3> QED
        BY <2>1, <2>3, <3>1, <3>2
    <2> QED
      BY <2>2, <2>3 DEF FewerChains
  <1> QED
    BY <1>2, <1>3, <1>4

LEMMA CallMoves ==
    ASSUME IInv, NEW p \in Procs, NEW a, NEW g, NEW b, MovedTo(p, a, g, b),
           Allowed(p, a, g, b), Tamer, HandlersTypeOK',
           FewerChains(p, a), m_io_handler' \in Handler \cup {None}, aborted' \in BOOLEAN,
           UNCHANGED <<mode, starts, start_prom, histVars, startVars>>,
           wq' \in Seq([h : Handler, starting : BOOLEAN]), \A h : Begun(h) => Begun(h)',
           stop_prom' \in [Start -> Handler \cup {Unset, Broken}], threw' \subseteq Procs,
           PromiseInv', BeginBeforeEnd', ErrorOnlyBySecondEnd'
    PROVE  IInv'
  <1> USE DEF IInv, Procs
  <1>1. RunThread \in Procs
    OBVIOUS
  <1>2. /\ \A x \in Procs : x # p => pc'[x] = pc[x]
        /\ pc'[p].at = a /\ pc'[p].h = g /\ pc'[p].back = b
    BY DEF MovedTo
  <1>3. \A h \in Handler : (io'[h] = "none") <=> (io[h] = "none")
    BY DEF Tamer
  <1>4. TypeOK'
    BY DEF TypeOK, MovedTo, startVars, FewerChains
  <1>5. PlaceInv'
    <2> SUFFICES ASSUME NEW x \in Procs
                 PROVE  /\ pc'[x].at \in {"callback", "deliver", "notify", "chg_false"} \/ pc'[x].back =>
                             pc'[x].h \in Handler /\ io'[pc'[x].h] # "none"
                        /\ pc'[x].at \in {"callback", "deliver"} \/ pc'[x].back => x = RunThread
                        /\ pc'[x].back => pc'[x].at \in {"notify", "chg_false", "stop", "close"}
      BY DEF PlaceInv
    <2>1. CASE x = p
      BY <1>2, <1>3, <2>1 DEF Allowed
    <2>2. CASE x # p
      <3>1. pc'[x] = pc[x]
        BY <1>2, <2>2
      <3> QED
        BY <1>3, <3>1 DEF PlaceInv
    <2> QED
      BY <2>1, <2>2
  <1>6. MadeInv' /\ ChainInv' /\ (Chain' => Chain)
    BY <1>3, ChainMoves DEF Allowed
  <1>7. Opening' => Opening
    <2>1. CASE RunThread = p
      BY <1>2, <2>1 DEF Opening, Allowed
    <2>2. CASE RunThread # p
      BY <1>1, <1>2, <2>2 DEF Opening
    <2> QED
      BY <2>1, <2>2
  <1>8. pc'[RunThread].at = "callback" => pc[RunThread].at = "callback"
    BY <1>1, <1>2 DEF Allowed
  <1>9. OnceInv'
    BY <1>6, <1>7, <1>8 DEF OnceInv, startVars
  <1>10. pc[RunThread].at = "deliver" =>
             pc'[RunThread].at = "deliver" /\ pc'[RunThread].h = pc[RunThread].h
    BY <1>1, <1>2 DEF Allowed
  <1>11. ReadInv'
    <2> SUFFICES ASSUME NEW h \in Handler, read'[h] # "none"
                 PROVE  /\ io'[h] # "none" /\ (~leftover' => h \in intact')
                        /\ mode' = "wait_queue" =>
                             Begun(h)' \/ (pc'[RunThread].at = "deliver" /\ pc'[RunThread].h = h)
      BY DEF ReadInv
    <2>1. read[h] # "none"
      BY DEF Tamer
    <2> QED
      BY <1>3, <1>10, <2>1 DEF ReadInv, startVars
  <1>12. EndInv'
    <2> SUFFICES ASSUME NEW x \in Procs, pc'[x].at \in {"notify", "chg_false"}
                 PROVE  (pc[x].h \in lost \/ (mode = "wait_queue" => Begun(pc[x].h)))'
      BY DEF EndInv
    <2>1. CASE x = p
      BY <1>2, <2>1 DEF Allowed, Begun
    <2>2. CASE x # p
      <3>1. pc'[x] = pc[x]
        BY <1>2, <2>2
      <3>2. pc[x].h \in lost \/ (mode = "wait_queue" => Begun(pc[x].h))
        BY <3>1 DEF EndInv
      <3> QED
        BY <3>1, <3>2 DEF Begun
    <2> QED
      BY <2>1, <2>2
  <1> QED
    BY <1>4, <1>5, <1>6, <1>9, <1>11, <1>12

\* The same for a step that tells the application nothing.
LEMMA SilentMoves ==
    ASSUME IInv, NEW p \in Procs, NEW a, NEW g, NEW b, MovedTo(p, a, g, b),
           Allowed(p, a, g, b), Tamer, m_started' \in BOOLEAN,
           FewerChains(p, a), m_io_handler' \in Handler \cup {None}, aborted' \in BOOLEAN,
           UNCHANGED <<chgVars, mode, starts, deliveryVars, histVars, startVars, threw>>
    PROVE  IInv'
  <1> USE DEF IInv, chgVars, deliveryVars
  <1>1. HandlersTypeOK'
    BY DEF TypeOK, HandlersTypeOK, EntityTypeOK, Tamer
  <1>2. /\ wq' \in Seq([h : Handler, starting : BOOLEAN]) /\ threw' \subseteq Procs
        /\ stop_prom' \in [Start -> Handler \cup {Unset, Broken}]
    BY DEF TypeOK
  <1>3. \A h : Begun(h) => Begun(h)'
    BY DEF Begun
  <1>4. PromiseInv'
    BY DEF PromiseInv, Tamer
  <1>5. BeginBeforeEnd'
    BY DEF BeginBeforeEnd
  <1>6. ErrorOnlyBySecondEnd'
    BY DEF ErrorOnlyBySecondEnd
  <1> HIDE DEF IInv
  <1> QED
    BY <1>1, <1>2, <1>3, <1>4, <1>5, <1>6, CallMoves

LEMMA StopIoCall ==
    ASSUME IInv, NEW t \in Threads, NEW h \in Handler, app_stop_io(t, h)
    PROVE  IInv'
  <1>1. t \in Procs /\ t # RunThread /\ RunThread \in Procs
    BY RunAssumption DEF Procs
  <1>2. MovedTo(t, "notify", h, pc[t].back)
    BY <1>1, MoveWith DEF IInv, app_stop_io, PcAt
  <1>3. ~pc[t].back
    BY <1>1 DEF IInv, PlaceInv
  <1>4. mode = "wait_queue" => Begun(h)
    BY DEF IInv, PromiseInv, app_stop_io, Known, Begun
  <1>5. Allowed(t, "notify", h, pc[t].back)
    BY <1>1, <1>3, <1>4 DEF Allowed, app_stop_io
  <1>6. Tamer
    BY SameTamer DEF IInv, app_stop_io
  <1>7. /\ m_started' \in BOOLEAN /\ attempts' \in Nat /\ attempts' = attempts
        /\ m_io_handler' \in Handler \cup {None} /\ aborted' \in BOOLEAN
    BY DEF IInv, TypeOK, HandlersTypeOK, EntityTypeOK, app_stop_io, entityVars
  <1>8. UNCHANGED <<chgVars, mode, starts, deliveryVars, histVars, startVars, threw>>
    BY DEF app_stop_io
  <1> QED
    BY <1>1, <1>2, <1>5, <1>6, <1>7, <1>8, SameChains, SilentMoves

LEMMA StopCall ==
    ASSUME IInv, NEW t \in Threads, app_stop(t)
    PROVE  IInv'
  <1>1. t \in Procs /\ t # RunThread /\ RunThread \in Procs
    BY RunAssumption DEF Procs
  <1>2. MovedTo(t, "stop", pc[t].h, pc[t].back)
    BY <1>1, MoveAt DEF IInv, app_stop, PcAt
  <1>3. ~pc[t].back
    BY <1>1 DEF IInv, PlaceInv
  <1>5. Allowed(t, "stop", pc[t].h, pc[t].back)
    BY <1>1, <1>3 DEF Allowed
  <1>6. Tamer
    BY SameTamer DEF IInv, app_stop
  <1>7. /\ m_started' \in BOOLEAN /\ attempts' \in Nat /\ attempts' = attempts
        /\ m_io_handler' \in Handler \cup {None} /\ aborted' \in BOOLEAN
    BY DEF IInv, TypeOK, HandlersTypeOK, EntityTypeOK, app_stop, entityVars
  <1>8. UNCHANGED <<chgVars, mode, starts, deliveryVars, histVars, startVars, threw>>
    BY DEF app_stop
  <1> QED
    BY <1>1, <1>2, <1>5, <1>6, <1>7, <1>8, SameChains, SilentMoves

LEMMA ReadFails ==
    ASSUME IInv, NEW h \in Handler, kernel_read_fails(h)
    PROVE  IInv'
  <1> DEFINE r == RunThread
  <1>1. r \in Procs /\ TypeOK
    BY DEF IInv, Procs
  <1>2. MovedTo(r, pc[r].at, pc[r].h, pc[r].back)
    BY <1>1 DEF TypeOK, MovedTo, kernel_read_fails
  <1>5. Allowed(r, pc[r].at, pc[r].h, pc[r].back)
    BY <1>1 DEF IInv, PlaceInv, EndInv, Allowed, Opening
  <1>6. Tamer
    <2>1. /\ io \in [Handler -> {"none", "created", "started", "closed"}]
          /\ read \in [Handler -> {"none", "pending", "ready", "failed"}]
      BY <1>1 DEF TypeOK, HandlersTypeOK
    <2> QED
      BY <2>1 DEF kernel_read_fails, Tamer
  <1>7. /\ m_started' \in BOOLEAN /\ attempts' \in Nat /\ attempts' = attempts
        /\ m_io_handler' \in Handler \cup {None} /\ aborted' \in BOOLEAN
    BY <1>1 DEF TypeOK, HandlersTypeOK, EntityTypeOK, kernel_read_fails, entityVars
  <1>8. UNCHANGED <<chgVars, mode, starts, deliveryVars, histVars, startVars, threw>>
    BY DEF kernel_read_fails
  <1> QED
    BY <1>1, <1>2, <1>5, <1>6, <1>7, <1>8, SameChains, SilentMoves

LEMMA ReadHandled ==
    ASSUME IInv, NEW h \in Handler, handle_read(h)
    PROVE  IInv'
  <1> DEFINE r == RunThread
  <1>1. r \in Procs /\ TypeOK
    BY DEF IInv, Procs
  <1>2. MovedTo(r, "notify", h, pc[r].back)
    BY <1>1, MoveWith DEF handle_read, PcAt
  <1>3. /\ ~pc[r].back /\ pc[r].at = "idle" /\ read[h] # "none"
    BY <1>1 DEF IInv, PlaceInv, handle_read, read_over
  <1>4. io[h] # "none" /\ (mode = "wait_queue" => Begun(h))
    BY <1>3 DEF IInv, ReadInv
  <1>5. Allowed(r, "notify", h, pc[r].back)
    BY <1>1, <1>3, <1>4 DEF Allowed
  <1>6. Tamer
    <2>1. /\ io \in [Handler -> {"none", "created", "started", "closed"}]
          /\ read \in [Handler -> {"none", "pending", "ready", "failed"}]
      BY <1>1 DEF TypeOK, HandlersTypeOK
    <2> QED
      BY <2>1 DEF handle_read, read_over, Tamer
  <1>7. /\ m_started' \in BOOLEAN /\ attempts' \in Nat /\ attempts' = attempts
        /\ m_io_handler' \in Handler \cup {None} /\ aborted' \in BOOLEAN
    BY <1>1 DEF TypeOK, HandlersTypeOK, EntityTypeOK, handle_read, entityVars
  <1>8. UNCHANGED <<chgVars, mode, starts, deliveryVars, histVars, startVars, threw>>
    BY DEF handle_read
  <1> QED
    BY <1>1, <1>2, <1>5, <1>6, <1>7, <1>8, SameChains, SilentMoves

\* A step that moves nobody.
LEMMA RunStays ==
    ASSUME IInv, pc' = pc
    PROVE  /\ RunThread \in Procs
           /\ MovedTo(RunThread, pc[RunThread].at, pc[RunThread].h, pc[RunThread].back)
           /\ Allowed(RunThread, pc[RunThread].at, pc[RunThread].h, pc[RunThread].back)
  <1>1. RunThread \in Procs
    BY DEF Procs
  <1>2. MovedTo(RunThread, pc[RunThread].at, pc[RunThread].h, pc[RunThread].back)
    BY <1>1 DEF IInv, TypeOK, MovedTo
  <1>3. Allowed(RunThread, pc[RunThread].at, pc[RunThread].h, pc[RunThread].back)
    BY <1>1 DEF IInv, PlaceInv, EndInv, Allowed, Opening
  <1> QED
    BY <1>1, <1>2, <1>3

LEMMA AttemptFails ==
    ASSUME IInv, attempt_fails
    PROVE  IInv'
  <1>1. pc' = pc
    BY DEF attempt_fails
  <1>2. Tamer
    BY SameTamer DEF IInv, attempt_fails
  <1>3. FewerChains(RunThread, pc[RunThread].at)
    BY DEF IInv, TypeOK, attempt_fails, FewerChains
  <1>4. /\ m_started' \in BOOLEAN /\ m_io_handler' \in Handler \cup {None}
        /\ aborted' \in BOOLEAN
    BY DEF IInv, TypeOK, attempt_fails
  <1>5. UNCHANGED <<chgVars, mode, starts, deliveryVars, histVars, startVars, threw>>
    BY DEF attempt_fails
  <1> QED
    BY <1>1, <1>2, <1>3, <1>4, <1>5, RunStays, SilentMoves

LEMMA StartBody ==
    ASSUME IInv, NEW p \in Procs, start_body(p)
    PROVE  IInv'
  <1>1. TypeOK /\ pc[p].at = "start" /\ ~pc[p].back
    BY DEF IInv, PlaceInv, start_body
  <1>2. MovedTo(p, "idle", pc[p].h, pc[p].back)
    BY <1>1, MoveAt DEF start_body, PcAt
  <1>3. Allowed(p, "idle", pc[p].h, pc[p].back)
    BY <1>1 DEF Allowed
  <1>4. Tamer
    BY <1>1, SameTamer DEF start_body
  <1>5. FewerChains(p, "idle")
    BY <1>1 DEF TypeOK, start_body, FewerChains
  <1>6. /\ m_started' \in BOOLEAN /\ m_io_handler' \in Handler \cup {None}
        /\ aborted' \in BOOLEAN
    BY <1>1 DEF TypeOK, HandlersTypeOK, EntityTypeOK, start_body, entityVars
  <1>7. UNCHANGED <<chgVars, mode, starts, deliveryVars, histVars, startVars, threw>>
    BY DEF start_body
  <1> QED
    BY <1>2, <1>3, <1>4, <1>5, <1>6, <1>7, SilentMoves

LEMMA NotifyCloses ==
    ASSUME IInv, NEW p \in Procs, notify_close(p)
    PROVE  IInv'
  <1> DEFINE h == pc[p].h
  <1>1. TypeOK /\ pc[p].at = "notify" /\ h \in Handler /\ io[h] # "none"
    BY DEF IInv, PlaceInv, notify_close
  <1>2. /\ m_started' \in BOOLEAN /\ attempts' = attempts
        /\ m_io_handler' \in Handler \cup {None} /\ aborted' \in BOOLEAN
    BY <1>1 DEF TypeOK, HandlersTypeOK, EntityTypeOK, notify_close, entityVars
  <1>3. UNCHANGED <<chgVars, mode, starts, deliveryVars, histVars, startVars, threw>>
    BY DEF notify_close
  <1>4. CASE close_io(h) /\ At(p, "chg_false")
    <2>1. MovedTo(p, "chg_false", h, pc[p].back)
      BY <1>1, <1>4, MoveAt DEF PcAt
    <2>2. Allowed(p, "chg_false", h, pc[p].back)
      BY <1>1 DEF IInv, PlaceInv, EndInv, Allowed, Opening
    <2>3. Tamer
      BY <1>1, <1>4, CloseTamer
    <2> QED
      BY <1>2, <1>3, <2>1, <2>2, <2>3, SameChains, SilentMoves
  <1>5. CASE UNCHANGED <<handlerVars, pc>>
    <2>1. Tamer /\ pc' = pc
      BY <1>1, <1>5, SameTamer
    <2> QED
      BY <1>2, <1>3, <2>1, RunStays, SameChains, SilentMoves
  <1> QED
    BY <1>4, <1>5 DEF notify_close

\* The return of notify_me or of stop is to an allowed place.
LEMMA ReturnAllowed ==
    ASSUME IInv, NEW p \in Procs, pc[p].at \in {"stop", "close"}, Return(p)
    PROVE  \E a, h, b : MovedTo(p, a, h, b) /\ Allowed(p, a, h, b)
  <1>1. TypeOK
    BY DEF IInv
  <1>2. CASE pc[p].back /\ MovedTo(p, "deliver", pc[p].h, FALSE)
    <2>1. Allowed(p, "deliver", pc[p].h, FALSE)
      BY <1>2 DEF IInv, PlaceInv, Allowed, Opening
    <2> QED
      BY <1>2, <2>1
  <1>3. CASE MovedTo(p, "idle", None, FALSE)
    <2>1. Allowed(p, "idle", None, FALSE)
      BY DEF Allowed
    <2> QED
      BY <1>3, <2>1
  <1> QED
    BY <1>1, <1>2, <1>3, MoveReturn

LEMMA StopStep ==
    ASSUME IInv, NEW p \in Procs, stop(p)
    PROVE  IInv'
  <1>1. TypeOK /\ pc[p].at = "stop"
    BY DEF IInv, stop
  <1>6. Tamer
    BY <1>1, SameTamer DEF stop
  <1>7. /\ m_started' \in BOOLEAN /\ attempts' \in Nat /\ attempts' = attempts
        /\ m_io_handler' \in Handler \cup {None} /\ aborted' \in BOOLEAN
    BY <1>1 DEF TypeOK, HandlersTypeOK, EntityTypeOK, stop, entity_stop
  <1>8. UNCHANGED <<chgVars, mode, starts, deliveryVars, histVars, startVars, threw>>
    BY DEF stop
  <1>9. CASE Return(p)
    <2>1. PICK a, h, b : MovedTo(p, a, h, b) /\ Allowed(p, a, h, b)
      BY <1>1, <1>9, ReturnAllowed
    <2> QED
      BY <1>6, <1>7, <1>8, <2>1, SameChains, SilentMoves
  <1>10. CASE At(p, "close")
    <2>1. MovedTo(p, "close", pc[p].h, pc[p].back)
      BY <1>1, <1>10, MoveAt DEF PcAt
    <2>2. Allowed(p, "close", pc[p].h, pc[p].back)
      BY <1>1 DEF IInv, PlaceInv, Allowed, Opening
    <2> QED
      BY <1>6, <1>7, <1>8, <2>1, <2>2, SameChains, SilentMoves
  <1> QED
    BY <1>9, <1>10 DEF stop

LEMMA CloseStep ==
    ASSUME IInv, NEW p \in Procs, close(p)
    PROVE  IInv'
  <1>1. TypeOK /\ pc[p].at = "close"
    BY DEF IInv, close
  <1>2. PICK a, h, b : MovedTo(p, a, h, b) /\ Allowed(p, a, h, b)
    BY <1>1, ReturnAllowed DEF close
  <1>6. Tamer
    <2>1. m_io_handler \in Handler \cup {None}
      BY <1>1 DEF TypeOK
    <2> QED
      BY <1>1, <2>1, SameTamer, CloseTamer DEF close
  <1>7. /\ m_started' \in BOOLEAN /\ FewerChains(p, a)
        /\ m_io_handler' \in Handler \cup {None} /\ aborted' \in BOOLEAN
    BY <1>1 DEF TypeOK, HandlersTypeOK, EntityTypeOK, close, entityVars, FewerChains
  <1>8. UNCHANGED <<chgVars, mode, starts, deliveryVars, histVars, startVars, threw>>
    BY DEF close
  <1> QED
    BY <1>2, <1>6, <1>7, <1>8, SilentMoves

\* The callback with starting = false.
LEMMA EndDelivered ==
    ASSUME IInv, NEW p \in Procs, deliver_end(p)
    PROVE  IInv'
  <1> DEFINE g == pc[p].h
  <1>1. TypeOK /\ pc[p].at = "chg_false" /\ g \in Handler /\ io[g] # "none"
    BY DEF IInv, PlaceInv, deliver_end
  <1>2. starts \in Start
    BY <1>1 DEF IInv, MadeInv
  <1>3. /\ up' = up /\ down' \in [Handler -> Nat] /\ down \in [Handler -> Nat]
        /\ down'[g] = down[g] + 1
        /\ \A h \in Handler : down'[h] >= down[h]
    BY <1>1, DownCounts DEF deliver_end, TypeOK, HandlersTypeOK, EntityTypeOK
  <1>4. /\ Tamer
        /\ attempts' = attempts /\ m_io_handler' \in Handler \cup {None} /\ aborted' \in BOOLEAN
        /\ UNCHANGED <<mode, starts, start_prom, histVars, startVars>>
    BY <1>1, SameTamer DEF deliver_end, TypeOK
  <1>5. HandlersTypeOK'
    BY <1>1, <1>3 DEF deliver_end, TypeOK, HandlersTypeOK, EntityTypeOK, entityVars, handlerVars
  <1>6. \A h \in Handler : (down[h] > 1 => down'[h] > 1) /\ (down[h] >= 1 => down'[h] >= 1)
    BY <1>3
  <1>7. stop_prom' = stop_prom => PromiseInv'
    <2>1. PromiseInv
      BY DEF IInv
    <2> QED
      BY <1>4, <1>6, <2>1 DEF PromiseInv, Tamer
  <1>8. threw' = threw => ErrorOnlyBySecondEnd' /\ threw' \subseteq Procs
    BY <1>1, <1>4, <1>6 DEF IInv, ErrorOnlyBySecondEnd, TypeOK
  <1>9. wq' = wq => /\ BeginBeforeEnd' /\ \A h : Begun(h) => Begun(h)'
                    /\ wq' \in Seq([h : Handler, starting : BOOLEAN])
    BY <1>1, <1>4 DEF IInv, BeginBeforeEnd, Begun, TypeOK
  <1>10. stop_prom' = stop_prom => stop_prom' \in [Start -> Handler \cup {Unset, Broken}]
    BY <1>1 DEF TypeOK
  <1>11. Allowed(p, "stop", g, pc[p].back)
    BY <1>1 DEF IInv, PlaceInv, Allowed, Opening
  <1>12. At(p, "stop") => MovedTo(p, "stop", g, pc[p].back)
    BY <1>1, MoveAt DEF PcAt
  <1>13. CASE mode = "wait_queue" /\ push(g, FALSE) /\ At(p, "stop") /\ UNCHANGED <<stop_prom, threw>>
    <2>1. g \in lost \/ Begun(g)
      BY <1>1, <1>13 DEF IInv, EndInv
    <2>2. BeginBeforeEnd /\ lost' = lost
      BY <1>4 DEF IInv
    <2>3. /\ BeginBeforeEnd' /\ \A h : Begun(h) => Begun(h)'
          /\ wq' \in Seq([h : Handler, starting : BOOLEAN])
      BY <1>1, <1>13, <2>1, <2>2, PushQueue
    <2> QED
      BY <1>4, <1>5, <1>7, <1>8, <1>10, <1>11, <1>12, <1>13, <2>3, SameChains, CallMoves
  <1>14. CASE At(p, "stop") /\ UNCHANGED <<wq, stop_prom, threw>>
    BY <1>4, <1>5, <1>7, <1>8, <1>9, <1>10, <1>11, <1>12, <1>14, SameChains, CallMoves
  <1>15. CASE /\ stop_prom[starts] = Unset /\ stop_prom' = [stop_prom EXCEPT ![starts] = g]
              /\ At(p, "stop") /\ UNCHANGED <<wq, threw>>
    <2>1. /\ stop_prom' \in [Start -> Handler \cup {Unset, Broken}]
          /\ \A n \in Start : stop_prom'[n] = IF n = starts THEN g ELSE stop_prom[n]
      BY <1>1, <1>2, <1>15 DEF TypeOK
    <2>2. PromiseInv'
      <3>1. PromiseInv
        BY DEF IInv
      <3>3. io'[g] # "none" /\ down'[g] >= 1
        BY <1>1, <1>3, <1>4 DEF Tamer
      <3>4. \A n \in Start : n > starts => n # starts
        BY <1>2 DEF Start
      <3> QED
        BY <1>1, <1>4, <1>6, <2>1, <3>1, <3>3, <3>4 DEF PromiseInv, Tamer
    <2> QED
      BY <1>4, <1>5, <1>8, <1>9, <1>11, <1>12, <1>15, <2>1, <2>2, SameChains, CallMoves
  <1>16. CASE mode = "future_pair" /\ stop_prom[starts] # Unset /\ Throw(p)
              /\ UNCHANGED <<wq, stop_prom>>
    <2>1. MovedTo(p, "idle", None, FALSE)
      BY <1>1, <1>16, MoveIdle DEF Throw
    <2>2. Allowed(p, "idle", None, FALSE)
      BY <1>1 DEF Allowed
    <2>3. starts > 1 \/ down'[g] > 1
      <3>1. CASE starts = 1
        <4>1. PICK h \in Handler : io[h] # "none" /\ down[h] >= 1
          BY <1>2, <1>16, <3>1 DEF IInv, PromiseInv
        <4>2. h = g
          BY <1>1, <3>1, <4>1 DEF IInv, MadeInv
        <4> QED
          BY <1>1, <1>3, <4>1, <4>2
      <3> QED
        BY <1>2, <3>1, BoundAssumption DEF Start
    <2>4. ErrorOnlyBySecondEnd' /\ threw' \subseteq Procs
      BY <1>1, <1>2, <1>4, <1>16, <2>3 DEF ErrorOnlyBySecondEnd, Throw, TypeOK
    <2> QED
      BY <1>4, <1>5, <1>7, <1>9, <1>10, <1>16, <2>1, <2>2, <2>4, SameChains, CallMoves
  <1> QED
    BY <1>13, <1>14, <1>15, <1>16 DEF deliver_end

-----------------------------------------------------------------------------
(* Starts and new connections.                                             *)

\* The beginning is delivered: for the first time, or the error ends the run thread.
LEMMA BeginDelivered ==
    ASSUME IInv, deliver_begin
    PROVE  IInv'
  <1> DEFINE r == RunThread
  <1>0. PICK g \in Handler : g = pc[r].h /\ io[g] # "none"
    BY DEF IInv, PlaceInv, deliver_begin, Procs
  <1>1. r \in Procs /\ TypeOK /\ pc[r].at = "deliver" /\ Opening
    BY DEF IInv, deliver_begin, Procs, Opening
  <1>2. starts \in Start /\ (~leftover => start_prom[starts] = Unset /\ ~Chain)
    BY <1>0, <1>1 DEF IInv, OnceInv, MadeInv
  <1>3. /\ pc' = [pc EXCEPT ![r] = Idle]
        /\ UNCHANGED <<entityVars, handlerVars, chgVars, mode, starts, attempts, m_io_handler,
                       stop_prom, histVars, startVars, aborted>>
        /\ \/ /\ mode = "wait_queue" /\ push(g, TRUE)
              /\ start_prom' = start_prom /\ threw' = threw
           \/ /\ mode # "wait_queue" /\ start_prom' = [start_prom EXCEPT ![starts] = g]
              /\ wq' = wq /\ threw' = threw
           \/ /\ mode # "wait_queue" /\ leftover /\ threw' = threw \cup {r}
              /\ wq' = wq /\ start_prom' = start_prom
    BY <1>0, <1>2 DEF deliver_begin, Throw
  <1>4. /\ pc' \in [Procs -> Place] /\ pc'[r].at = "idle" /\ ~pc'[r].back
        /\ \A x \in Procs : x # r => pc'[x] = pc[x]
    BY <1>1, <1>3, MoveIdle DEF MovedTo
  <1>a. threw' \subseteq Procs
    BY <1>1, <1>3 DEF TypeOK
  <1>5. /\ wq' \in Seq([h : Handler, starting : BOOLEAN]) /\ BeginBeforeEnd'
        /\ \A h : Begun(h) => Begun(h)'
        /\ mode = "wait_queue" => Begun(g)'
    <2>1. BeginBeforeEnd /\ lost' = lost
      BY <1>3 DEF IInv
    <2>2. CASE push(g, TRUE)
      BY <1>1, <2>1, <2>2, PushQueue
    <2>3. CASE wq' = wq /\ mode # "wait_queue"
      BY <1>1, <1>3, <2>1, <2>3 DEF BeginBeforeEnd, Begun, TypeOK
    <2> QED
      BY <1>3, <2>2, <2>3 DEF Begun
  <1>6. start_prom' \in [Start -> Handler \cup {Unset, Broken}]
        /\ \A n \in Start : n # starts \/ mode = "wait_queue" => start_prom'[n] = start_prom[n]
    BY <1>1, <1>2, <1>3 DEF TypeOK
  <1>7. TypeOK'
    BY <1>1, <1>3, <1>4, <1>5, <1>6, <1>a
    DEF TypeOK, HandlersTypeOK, EntityTypeOK, entityVars, handlerVars, chgVars, startVars
  <1>8. PlaceInv'
    <2> SUFFICES ASSUME NEW x \in Procs
                 PROVE  /\ pc'[x].at \in {"callback", "deliver", "notify", "chg_false"} \/ pc'[x].back =>
                             pc'[x].h \in Handler /\ io'[pc'[x].h] # "none"
                        /\ pc'[x].at \in {"callback", "deliver"} \/ pc'[x].back => x = RunThread
                        /\ pc'[x].back => pc'[x].at \in {"notify", "chg_false", "stop", "close"}
      BY DEF PlaceInv
    <2> QED
      BY <1>3, <1>4 DEF IInv, PlaceInv, handlerVars
  <1>9. MadeInv' /\ ChainInv' /\ (Chain' => Chain)
    <2>1. MovedTo(r, "idle", None, FALSE)
      BY <1>1, <1>3, MoveIdle
    <2>2. FewerChains(r, "idle") /\ UNCHANGED <<starts, leftover, io>>
      BY <1>3, SameChains DEF handlerVars
    <2>3. MadeInv /\ ChainInv
      BY DEF IInv
    <2> QED
      BY <1>1, <2>1, <2>2, <2>3, ChainMoves
  <1>10. OnceInv'
    BY <1>2, <1>3, <1>4, <1>9 DEF OnceInv, Opening
  <1>11. PromiseInv'
    <2>1. \A n \in Start : n > starts => n # starts
      BY <1>2 DEF Start
    <2> QED
      BY <1>3, <1>6, <2>1 DEF IInv, PromiseInv, chgVars, handlerVars
  <1>12. ReadInv'
    <2> SUFFICES ASSUME NEW h \in Handler, read'[h] # "none"
                 PROVE  /\ io'[h] # "none" /\ (~leftover' => h \in intact')
                        /\ mode' = "wait_queue" => Begun(h)'
      BY DEF ReadInv
    <2>1. /\ io[h] # "none" /\ (~leftover => h \in intact)
          /\ mode = "wait_queue" => Begun(h) \/ g = h
      BY <1>0, <1>3 DEF IInv, ReadInv, handlerVars
    <2> QED
      BY <1>3, <1>5, <2>1 DEF handlerVars, startVars, Begun
  <1>13. EndInv'
    <2> SUFFICES ASSUME NEW x \in Procs, pc'[x].at \in {"notify", "chg_false"}
                 PROVE  (pc[x].h \in lost \/ (mode = "wait_queue" => Begun(pc[x].h)))'
      BY DEF EndInv
    <2>1. pc'[x] = pc[x]
      BY <1>4
    <2>2. pc[x].h \in lost \/ (mode = "wait_queue" => Begun(pc[x].h))
      BY <2>1 DEF IInv, EndInv
    <2>3. (\A h : Begun(h) => Begun(h)') /\ lost' = lost /\ mode' = mode
      BY <1>3, <1>5
    <2> QED
      BY <2>1, <2>2, <2>3 DEF Begun
  <1>14. ErrorOnlyBySecondEnd'
    <2>1. leftover => starts > 1
      BY DEF IInv, MadeInv
    <2> QED
      BY <1>3, <2>1 DEF IInv, ErrorOnlyBySecondEnd, chgVars
  <1> QED
    BY <1>5, <1>7, <1>8, <1>9, <1>10, <1>11, <1>12, <1>13, <1>14 DEF IInv

\* start_io in the callback: the first read takes the message handler, or the
\* connection is lost and notify_me is called.
LEMMA IoStarted ==
    ASSUME IInv, io_start
    PROVE  IInv'
  <1> DEFINE r == RunThread
  <1>1. PICK g \in Handler : g = pc[r].h /\ io[g] # "none"
    BY DEF IInv, PlaceInv, io_start, Procs
  <1>2. r \in Procs /\ TypeOK /\ pc[r].at = "callback" /\ Opening
    BY DEF IInv, io_start, Procs, Opening
  <1>3. /\ starts \in Start /\ ~pc[r].back
        /\ ~leftover => ~Chain /\ ~io_start_moved /\ start_prom[starts] = Unset
    BY <1>1, <1>2 DEF IInv, OnceInv, PlaceInv, MadeInv
  <1>4. /\ io \in [Handler -> {"none", "created", "started", "closed"}]
        /\ read \in [Handler -> {"none", "pending", "ready", "failed"}]
    BY <1>2 DEF TypeOK, HandlersTypeOK
  <1>5. /\ UNCHANGED <<entityVars, chgVars, mode, starts, attempts, m_io_handler, deliveryVars,
                       leftover, threw, aborted>>
        /\ io' = [io EXCEPT ![g] = "started"]
        /\ \/ /\ read' = [read EXCEPT ![g] = "pending"]
              /\ intact' \in {intact, intact \cup {g}} /\ (~leftover => g \in intact')
              /\ io_start_moved' = TRUE /\ At(r, "deliver") /\ lost' = lost
           \/ /\ read' = read /\ intact' = intact /\ io_start_moved' = io_start_moved
              /\ lost' = lost \cup {g}
              /\ pc' = [pc EXCEPT ![r].at = "notify", ![r].back = TRUE]
    BY <1>1, <1>3 DEF io_start, start_io_ok, start_io_lost
  <1>6. \/ /\ MovedTo(r, "deliver", g, FALSE) /\ lost' = lost
           /\ intact' \in {intact, intact \cup {g}} /\ (~leftover => g \in intact')
           /\ read' = [read EXCEPT ![g] = "pending"] /\ io_start_moved' = TRUE
        \/ /\ MovedTo(r, "notify", g, TRUE) /\ intact' = intact /\ lost' = lost \cup {g}
           /\ read' = read /\ io_start_moved' = io_start_moved
    <2>1. {"deliver", "notify"} \subseteq PcAt /\ TRUE \in BOOLEAN
      BY DEF PcAt
    <2>2. At(r, "deliver") => MovedTo(r, "deliver", g, FALSE)
      BY <1>1, <1>2, <1>3, <2>1, MoveAt, PcFields
    <2>3. pc' = [pc EXCEPT ![r].at = "notify", ![r].back = TRUE] => MovedTo(r, "notify", g, TRUE)
      BY <1>1, <1>2, <2>1, MoveBack
    <2> QED
      BY <1>2, <1>3, <1>5, <2>2, <2>3 DEF TypeOK
  <1>7. /\ io' \in [Handler -> {"none", "created", "started", "closed"}]
        /\ read' \in [Handler -> {"none", "pending", "ready", "failed"}]
        /\ \A h \in Handler : (io'[h] = "none") <=> (io[h] = "none")
        /\ \A h \in Handler : h # g => read'[h] = read[h]
    BY <1>1, <1>4, <1>5
  <1>8. TypeOK'
    <2>1. pc' \in [Procs -> Place]
      BY <1>6 DEF MovedTo
    <2>2. lost' \subseteq Handler /\ intact' \subseteq Handler /\ io_start_moved' \in BOOLEAN
      BY <1>2, <1>6 DEF TypeOK
    <2> QED
      BY <1>2, <1>5, <1>7, <2>1, <2>2
      DEF TypeOK, HandlersTypeOK, EntityTypeOK, entityVars, chgVars, deliveryVars
  <1>9. /\ \A x \in Procs : x # r => pc'[x] = pc[x]
        /\ pc'[r].h = g /\ pc'[r].at \in {"deliver", "notify"} /\ pc'[r].at # "callback"
        /\ pc'[r].back => pc'[r].at = "notify"
    BY <1>6 DEF MovedTo
  <1>10. PlaceInv'
    <2> SUFFICES ASSUME NEW x \in Procs
                 PROVE  /\ pc'[x].at \in {"callback", "deliver", "notify", "chg_false"} \/ pc'[x].back =>
                             pc'[x].h \in Handler /\ io'[pc'[x].h] # "none"
                        /\ pc'[x].at \in {"callback", "deliver"} \/ pc'[x].back => x = RunThread
                        /\ pc'[x].back => pc'[x].at \in {"notify", "chg_false", "stop", "close"}
      BY DEF PlaceInv
    <2>1. CASE x = r
      BY <1>1, <1>7, <1>9, <2>1
    <2>2. CASE x # r
      BY <1>7, <1>9, <2>2 DEF IInv, PlaceInv
    <2> QED
      BY <2>1, <2>2
  <1>11. MadeInv' /\ ChainInv' /\ (Chain' => Chain)
    <2>1. PICK a \in {"deliver", "notify"}, b \in BOOLEAN : MovedTo(r, a, g, b)
      BY <1>6
    <2>2. FewerChains(r, a) /\ a # "start" /\ UNCHANGED <<starts, leftover>>
      BY <1>5, SameChains
    <2>3. MadeInv /\ ChainInv
      BY DEF IInv
    <2> QED
      BY <1>2, <1>7, <2>1, <2>2, <2>3, ChainMoves
  <1>12. OnceInv'
    BY <1>3, <1>5, <1>9, <1>11 DEF OnceInv, deliveryVars
  <1>13. PromiseInv'
    BY <1>5, <1>7 DEF IInv, PromiseInv, deliveryVars, chgVars
  <1>14. ReadInv'
    <2> SUFFICES ASSUME NEW h \in Handler, read'[h] # "none"
                 PROVE  /\ io'[h] # "none" /\ (~leftover' => h \in intact')
                        /\ mode' = "wait_queue" =>
                             Begun(h)' \/ (pc'[RunThread].at = "deliver" /\ pc'[RunThread].h = h)
      BY DEF ReadInv
    <2>1. CASE h = g /\ MovedTo(r, "deliver", g, FALSE) /\ (~leftover => g \in intact')
      BY <1>1, <1>5, <1>7, <2>1 DEF MovedTo
    <2>2. CASE read'[h] = read[h]
      <3>1. /\ io[h] # "none" /\ (~leftover => h \in intact)
            /\ mode = "wait_queue" => Begun(h)
        BY <1>2, <2>2 DEF IInv, ReadInv
      <3>2. intact \subseteq intact' /\ (Begun(h) => Begun(h)') /\ mode' = mode
        BY <1>5, <1>6 DEF Begun, deliveryVars
      <3> QED
        BY <1>5, <1>7, <3>1, <3>2
    <2> QED
      BY <1>6, <1>7, <2>1, <2>2
  <1>15. EndInv'
    <2> SUFFICES ASSUME NEW x \in Procs, pc'[x].at \in {"notify", "chg_false"}
                 PROVE  (pc[x].h \in lost \/ (mode = "wait_queue" => Begun(pc[x].h)))'
      BY DEF EndInv
    <2>1. CASE x = r
      <3>1. g \in lost'
        BY <1>6, <2>1 DEF MovedTo
      <3> QED
        BY <1>9, <2>1, <3>1
    <2>2. CASE x # r
      <3>1. pc'[x] = pc[x]
        BY <1>9, <2>2
      <3>2. pc[x].h \in lost \/ (mode = "wait_queue" => Begun(pc[x].h))
        BY <3>1 DEF IInv, EndInv
      <3>3. wq' = wq /\ lost \subseteq lost' /\ mode' = mode
        BY <1>5, <1>6 DEF deliveryVars
      <3> QED
        BY <3>1, <3>2, <3>3 DEF Begun
    <2> QED
      BY <2>1, <2>2
  <1>16. BeginBeforeEnd'
    <2>1. wq' = wq /\ lost \subseteq lost'
      BY <1>5, <1>6 DEF deliveryVars
    <2> QED
      BY <2>1 DEF IInv, BeginBeforeEnd
  <1>17. ErrorOnlyBySecondEnd'
    BY <1>5 DEF IInv, ErrorOnlyBySecondEnd, chgVars
  <1> QED
    BY <1>8, <1>10, <1>11, <1>12, <1>13, <1>14, <1>15, <1>16, <1>17 DEF IInv

\* A connection is made.
LEMMA Connected ==
    ASSUME IInv, handle_connect
    PROVE  IInv'
  <1> DEFINE r == RunThread
  <1>1. r \in Procs /\ TypeOK /\ pc[r].at = "idle" /\ ~pc[r].back /\ Chain
        /\ attempts > 0 /\ attempts \in Nat
    BY DEF IInv, handle_connect, Procs, PlaceInv, TypeOK, Chain
  <1>2. /\ starts \in Start
        /\ ~leftover => start_prom[starts] = Unset /\ ~io_start_moved
    BY <1>1 DEF IInv, OnceInv, MadeInv
  <1>3. PICK g \in Handler :
          /\ make_tcp_io(g)
          /\ m_io_handler' = g
          /\ call_io_state_chg_cb(g, TRUE)
          /\ pc' = [pc EXCEPT ![r].at = "callback", ![r].h = g]
    BY DEF handle_connect
  <1>4. /\ attempts' = attempts - 1
        /\ UNCHANGED <<entityVars, mode, starts, deliveryVars, histVars, startVars, threw, aborted>>
    BY DEF handle_connect
  <1>6. /\ io \in [Handler -> {"none", "created", "started", "closed"}]
        /\ read \in [Handler -> {"none", "pending", "ready", "failed"}]
        /\ up \in [Handler -> Nat] /\ down \in [Handler -> Nat]
    BY <1>1 DEF TypeOK, HandlersTypeOK, EntityTypeOK
  <1>7. /\ io' \in [Handler -> {"none", "created", "started", "closed"}]
        /\ io'[g] # "none" /\ \A h \in Handler : h # g => io'[h] = io[h]
        /\ read' = read
    BY <1>3, <1>6 DEF make_tcp_io
  <1>8. up' \in [Handler -> Nat] /\ down' = down
    <2>1. up[g] + 1 \in Nat
      BY <1>6
    <2>2. up' = [up EXCEPT ![g] = up[g] + 1] /\ down' = down
      BY <1>3, <1>6 DEF call_io_state_chg_cb
    <2> QED
      BY <1>6, <2>1, <2>2
  <1>9. MovedTo(r, "callback", g, FALSE)
    <2>1. pc[r].back = FALSE /\ "callback" \in PcAt
      BY <1>1, PcFields DEF PcAt
    <2> QED
      BY <1>1, <1>3, <2>1, MoveWith
  <1>10. /\ pc' \in [Procs -> Place] /\ \A x \in Procs : x # r => pc'[x] = pc[x]
         /\ pc'[r].h = g /\ pc'[r].at = "callback" /\ pc'[r].back = FALSE
    BY <1>9 DEF MovedTo
  <1>11. TypeOK'
    BY <1>1, <1>3, <1>4, <1>6, <1>7, <1>8, <1>10
    DEF TypeOK, HandlersTypeOK, EntityTypeOK, entityVars, deliveryVars, startVars
  <1>12. PlaceInv'
    <2> SUFFICES ASSUME NEW x \in Procs
                 PROVE  /\ pc'[x].at \in {"callback", "deliver", "notify", "chg_false"} \/ pc'[x].back =>
                             pc'[x].h \in Handler /\ io'[pc'[x].h] # "none"
                        /\ pc'[x].at \in {"callback", "deliver"} \/ pc'[x].back => x = RunThread
                        /\ pc'[x].back => pc'[x].at \in {"notify", "chg_false", "stop", "close"}
      BY DEF PlaceInv
    <2>1. CASE x = r
      BY <1>7, <1>10, <2>1
    <2>2. CASE x # r
      BY <1>7, <1>10, <2>2 DEF IInv, PlaceInv
    <2> QED
      BY <2>1, <2>2
  <1>5. /\ attempts' \in Nat /\ attempts' < attempts
        /\ \A x \in Procs : pc'[x].at = "start" => x # r /\ pc[x].at = "start"
    BY <1>1, <1>4, <1>10
  <1>a. ~leftover => ~Chain'
    <2>1. ~leftover => attempts = 1 /\ \A x \in Procs : pc[x].at # "start"
      BY <1>1 DEF IInv, ChainInv
    <2> QED
      BY <1>4, <1>5, <2>1 DEF Chain
  <1>13. MadeInv'
    <2>1. MadeInv
      BY DEF IInv
    <2>2. starts = 1 => ~leftover /\ \A h \in Handler : io[h] = "none"
      BY <1>1, <1>2, <2>1 DEF MadeInv
    <2> QED
      BY <1>2, <1>4, <1>7, <1>a, <2>1, <2>2 DEF MadeInv
  <1>b. ChainInv'
    <2>1. ChainInv /\ attempts - 1 <= attempts
      BY <1>1 DEF IInv
    <2>2. ~leftover => attempts' = 0
      BY <1>1, <1>4, <2>1 DEF ChainInv
    <2> QED
      BY <1>4, <1>5, <2>1, <2>2 DEF ChainInv
  <1>14. OnceInv'
    BY <1>2, <1>4, <1>10, <1>a DEF OnceInv, deliveryVars, startVars
  <1>15. PromiseInv'
    BY <1>4, <1>7, <1>8 DEF IInv, PromiseInv, deliveryVars
  <1>16. ReadInv'
    <2> SUFFICES ASSUME NEW h \in Handler, read'[h] # "none"
                 PROVE  /\ io'[h] # "none" /\ (~leftover' => h \in intact')
                        /\ mode' = "wait_queue" => Begun(h)'
      BY DEF ReadInv
    <2>1. /\ io[h] # "none" /\ (~leftover => h \in intact)
          /\ mode = "wait_queue" => Begun(h)
      BY <1>1, <1>7 DEF IInv, ReadInv
    <2> QED
      BY <1>4, <1>7, <2>1 DEF startVars, deliveryVars, Begun
  <1>17. EndInv'
    <2> SUFFICES ASSUME NEW x \in Procs, pc'[x].at \in {"notify", "chg_false"}
                 PROVE  (pc[x].h \in lost \/ (mode = "wait_queue" => Begun(pc[x].h)))'
      BY DEF EndInv
    <2>1. pc'[x] = pc[x]
      BY <1>10
    <2>2. pc[x].h \in lost \/ (mode = "wait_queue" => Begun(pc[x].h))
      BY <2>1 DEF IInv, EndInv
    <2> QED
      BY <1>4, <2>1, <2>2 DEF Begun, deliveryVars
  <1>18. BeginBeforeEnd' /\ ErrorOnlyBySecondEnd'
    BY <1>4, <1>8 DEF IInv, BeginBeforeEnd, ErrorOnlyBySecondEnd, deliveryVars
  <1> QED
    BY <1>11, <1>12, <1>13, <1>b, <1>14, <1>15, <1>16, <1>17, <1>18 DEF IInv

\* A start replaces the callback, and with it the promises and the handler.
LEMMA Started ==
    ASSUME IInv, NEW t \in Threads, start(t)
    PROVE  IInv'
  <1>1. /\ TypeOK /\ RunThread \in Procs /\ t \in Procs /\ pc[t].at = "idle" /\ ~pc[t].back
        /\ starts \in 0 .. MaxStarts /\ starts < MaxStarts /\ ~Opening
    BY DEF IInv, TypeOK, start, PlaceInv, Procs, CallbackFree, Opening
  <1>2. /\ starts' = starts + 1 /\ io_start_moved' = FALSE /\ m_started' = TRUE
        /\ leftover' = (leftover \/ Chain) /\ At(t, "start")
        /\ start_prom' = Dropped(start_prom) /\ stop_prom' = Dropped(stop_prom)
        /\ UNCHANGED <<handlerVars, chgVars, mode, attempts, m_io_handler, wq, lost, intact,
                       threw, aborted>>
    BY DEF start, entity_start, Chain
  <1>a. MovedTo(t, "start", pc[t].h, FALSE)
    <2>1. "start" \in PcAt /\ pc[t].back = FALSE
      BY <1>1, PcFields DEF PcAt
    <2> QED
      BY <1>1, <1>2, <2>1, MoveAt
  <1>b. /\ pc' \in [Procs -> Place] /\ \A x \in Procs : x # t => pc'[x] = pc[x]
        /\ pc'[t].at = "start" /\ pc'[t].back = FALSE
    BY <1>a DEF MovedTo
  <1>g. leftover' <=> leftover \/ Chain
    BY <1>2, Zenon
  <1>3. starts + 1 \in Start /\ starts + 1 \in 0 .. MaxStarts
    BY <1>1, BoundAssumption DEF Start
  <1>4. \A prom \in [Start -> Handler \cup {Unset, Broken}] :
          /\ Dropped(prom) \in [Start -> Handler \cup {Unset, Broken}]
          /\ \A n \in Start : n > starts => Dropped(prom)[n] = prom[n]
          /\ \A n \in Start : Dropped(prom)[n] \in Handler => Dropped(prom)[n] = prom[n]
    <2>1. Broken \notin Handler
      BY HandlerAssumption, BoundAssumption DEF Broken
    <2>2. \A n \in Start : n > starts => ~(n <= starts)
      BY <1>1 DEF Start
    <2> QED
      BY <2>1, <2>2 DEF Dropped
  <1>5. /\ start_prom \in [Start -> Handler \cup {Unset, Broken}]
        /\ stop_prom \in [Start -> Handler \cup {Unset, Broken}]
    BY <1>1 DEF TypeOK
  <1>6. /\ start_prom' \in [Start -> Handler \cup {Unset, Broken}]
        /\ stop_prom' \in [Start -> Handler \cup {Unset, Broken}]
        /\ \A n \in Start : n > starts => start_prom'[n] = Unset /\ stop_prom'[n] = Unset
        /\ mode = "wait_queue" => \A n \in Start : start_prom'[n] \notin Handler
    BY <1>2, <1>4, <1>5 DEF IInv, PromiseInv
  <1>c. leftover' \in BOOLEAN
    BY <1>2
  <1>7. TypeOK'
    BY <1>1, <1>2, <1>3, <1>6, <1>b, <1>c
    DEF TypeOK, HandlersTypeOK, EntityTypeOK, handlerVars, chgVars
  <1>8. PlaceInv'
    <2> SUFFICES ASSUME NEW x \in Procs
                 PROVE  /\ pc'[x].at \in {"callback", "deliver", "notify", "chg_false"} \/ pc'[x].back =>
                             pc'[x].h \in Handler /\ io'[pc'[x].h] # "none"
                        /\ pc'[x].at \in {"callback", "deliver"} \/ pc'[x].back => x = RunThread
                        /\ pc'[x].back => pc'[x].at \in {"notify", "chg_false", "stop", "close"}
      BY DEF PlaceInv
    <2>1. CASE x = t
      BY <1>b, <2>1
    <2>2. CASE x # t
      BY <1>2, <1>b, <2>2 DEF IInv, PlaceInv, handlerVars
    <2> QED
      BY <2>1, <2>2
  <1>9. MadeInv'
    <2>1. MadeInv /\ starts \in Nat
      BY <1>1 DEF IInv
    <2>2. starts = 0 => ~leftover /\ ~Chain /\ \A h \in Handler : io[h] = "none"
      BY <2>1 DEF MadeInv, Start
    <2>3. starts' = 1 => starts = 0
      BY <1>2, <2>1
    <2>4. leftover' => starts' > 1
      <3>1. leftover \/ Chain => starts # 0
        BY <2>2
      <3> QED
        BY <1>2, <1>g, <2>1, <3>1
    <2>5. starts' \in Start
      BY <1>2, <1>3
    <2>6. io' = io
      BY <1>2 DEF handlerVars
    <2> QED
      BY <2>2, <2>3, <2>4, <2>5, <2>6 DEF MadeInv
  <1>d. ~leftover' => ~leftover /\ attempts' = 0 /\ \A x \in Procs : pc'[x].at = "start" => x = t
    <2>1. attempts \in Nat
      BY <1>1 DEF TypeOK
    <2> QED
      BY <1>2, <1>b, <1>g, <2>1 DEF Chain
  <1>e. ChainInv'
    BY <1>d DEF ChainInv
  <1>10. OnceInv'
    <2>1. ~Opening' /\ pc'[RunThread].at # "callback"
      <3>1. CASE RunThread = t
        BY <1>b, <3>1 DEF Opening
      <3>2. CASE RunThread # t
        BY <1>1, <1>b, <3>2 DEF Opening
      <3> QED
        BY <3>1, <3>2
    <2>2. starts + 1 > starts
      BY <1>1
    <2>3. start_prom'[starts'] = Unset
      BY <1>2, <1>3, <1>6, <2>2
    <2> QED
      BY <1>2, <2>1, <2>3 DEF OnceInv
  <1>11. PromiseInv'
    <2>1. \A n \in Start : n > starts + 1 => n > starts
      BY <1>1 DEF Start
    <2>2. starts + 1 = 1 => \A n \in Start : n > starts
      BY <1>1 DEF Start
    <2> QED
      BY <1>2, <1>6, <2>1, <2>2 DEF PromiseInv
  <1>12. ReadInv'
    <2> SUFFICES ASSUME NEW h \in Handler, read'[h] # "none"
                 PROVE  /\ io'[h] # "none" /\ (~leftover' => h \in intact')
                        /\ mode' = "wait_queue" => Begun(h)'
      BY DEF ReadInv
    <2>1. /\ io[h] # "none" /\ (~leftover => h \in intact)
          /\ mode = "wait_queue" => Begun(h)
      BY <1>1, <1>2 DEF IInv, ReadInv, handlerVars, Opening
    <2> QED
      BY <1>2, <2>1 DEF handlerVars, Begun
  <1>13. EndInv'
    <2> SUFFICES ASSUME NEW x \in Procs, pc'[x].at \in {"notify", "chg_false"}
                 PROVE  (pc[x].h \in lost \/ (mode = "wait_queue" => Begun(pc[x].h)))'
      BY DEF EndInv
    <2>1. pc'[x] = pc[x]
      BY <1>b
    <2>2. pc[x].h \in lost \/ (mode = "wait_queue" => Begun(pc[x].h))
      BY <2>1 DEF IInv, EndInv
    <2> QED
      BY <1>2, <2>1, <2>2 DEF Begun
  <1>f. BeginBeforeEnd'
    BY <1>2 DEF IInv, BeginBeforeEnd
  <1>14. ErrorOnlyBySecondEnd'
    <2>1. starts > 1 => starts' > 1
      BY <1>1, <1>2
    <2> QED
      BY <1>2, <2>1 DEF IInv, ErrorOnlyBySecondEnd, chgVars
  <1> QED
    BY <1>7, <1>8, <1>9, <1>e, <1>10, <1>11, <1>12, <1>13, <1>f, <1>14 DEF IInv

-----------------------------------------------------------------------------
(* The theorems.                                                           *)

LEMMA InitInv == Init => IInv
  <1> SUFFICES ASSUME Init PROVE IInv
    OBVIOUS
  <1>1. TypeOK
    <2>1. Idle \in Place
      BY DEF Idle, Place, PcAt
    <2>2. starts \in 0 .. MaxStarts
      BY BoundAssumption DEF Init
    <2>3. HandlersTypeOK
      BY DEF Init, HandlersInit, EntityInit, HandlersTypeOK, EntityTypeOK
    <2>4. wq \in Seq([h : Handler, starting : BOOLEAN])
      BY DEF Init
    <2> QED
      BY <2>1, <2>2, <2>3, <2>4 DEF Init, TypeOK
  <1>2. \A p \in Procs : pc[p].at = "idle" /\ ~pc[p].back
    BY DEF Init, Idle
  <1>3. RunThread \in Procs
    BY DEF Procs
  <1>4. PlaceInv /\ EndInv
    BY <1>2 DEF PlaceInv, EndInv
  <1>5. MadeInv /\ ChainInv /\ ReadInv
    <2>1. ~Chain /\ attempts = 0 /\ starts = 0 /\ ~leftover
      BY <1>2 DEF Init, Chain
    <2> QED
      BY <1>2, <2>1 DEF Init, HandlersInit, MadeInv, ChainInv, ReadInv
  <1>6. OnceInv
    BY <1>2, <1>3 DEF Init, OnceInv, Opening, Chain
  <1>7. PromiseInv
    <2>1. Unset \notin Handler
      BY HandlerAssumption DEF Unset
    <2> QED
      BY <2>1 DEF Init, PromiseInv
  <1>8. BeginBeforeEnd /\ ErrorOnlyBySecondEnd
    BY DEF Init, BeginBeforeEnd, ErrorOnlyBySecondEnd
  <1> QED
    BY <1>1, <1>4, <1>5, <1>6, <1>7, <1>8 DEF IInv

LEMMA Stutters ==
    ASSUME IInv, UNCHANGED vars
    PROVE  IInv'
  <1> USE DEF vars, entityVars, handlerVars, chgVars, deliveryVars, startVars
  <1>1. TypeOK'
    BY DEF IInv, TypeOK, HandlersTypeOK, EntityTypeOK
  <1>2. PlaceInv' /\ MadeInv' /\ ChainInv' /\ OnceInv' /\ PromiseInv'
    BY DEF IInv, PlaceInv, MadeInv, ChainInv, OnceInv, PromiseInv, Opening, Chain
  <1>3. ReadInv' /\ EndInv' /\ BeginBeforeEnd' /\ ErrorOnlyBySecondEnd'
    BY DEF IInv, ReadInv, EndInv, Begun, BeginBeforeEnd, ErrorOnlyBySecondEnd
  <1> QED
    BY <1>1, <1>2, <1>3 DEF IInv

LEMMA InvStep == IInv /\ [Next]_vars => IInv'
  <1> SUFFICES ASSUME IInv, [Next]_vars PROVE IInv'
    OBVIOUS
  <1>1. CASE \E t \in Threads : AppStep(t)
    BY <1>1, Started, StopCall, StopIoCall DEF AppStep
  <1>2. CASE \E p \in Procs : InCall(p)
    BY <1>2, StartBody, NotifyCloses, EndDelivered, StopStep, CloseStep DEF InCall
  <1>3. CASE InCallback
    BY <1>3, IoStarted, BeginDelivered DEF InCallback
  <1>4. CASE handle_connect \/ attempt_fails
    BY <1>4, Connected, AttemptFails
  <1>5. CASE \E h \in Handler : handle_read(h) \/ kernel_read_fails(h)
    BY <1>5, ReadHandled, ReadFails
  <1> QED
    BY <1>1, <1>2, <1>3, <1>4, <1>5, Stutters DEF Next, Step

\* The queue tells of a connection's beginning before its end, whichever thread
\* ends it and when, unless start_io itself found the connection lost.
THEOREM BeginsBeforeEnds == Spec => []DeliveryInv
  <1>1. IInv => DeliveryInv
    BY DEF IInv, DeliveryInv
  <1> QED
    BY <1>1, InitInv, InvStep, PTL DEF Spec

\* Until a start finds a chain of attempts that a stop did not end, no connection
\* reads with a message handler that an earlier one moved out of the io_start object.
THEOREM HandlersIntact == Spec => []HandlerIntact
  <1>1. IInv => HandlerIntact
    BY DEF IInv, ReadInv, HandlerIntact
  <1> QED
    BY <1>1, InitInv, InvStep, PTL DEF Spec

\* A promise is set a second time only after a second end of one connection or
\* after a restart, and that of the beginning only after a start that found a chain
\* of attempts of an earlier one.
THEOREM ErrorsOnlyBySecondEnd == Spec => []ErrorOnlyBySecondEnd
  <1>1. IInv => ErrorOnlyBySecondEnd
    BY DEF IInv
  <1> QED
    BY <1>1, InitInv, InvStep, PTL DEF Spec

=============================================================================
