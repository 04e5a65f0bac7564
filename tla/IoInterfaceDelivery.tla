------------------------ MODULE IoInterfaceDelivery ------------------------
(***************************************************************************)
(* component/io_interface_delivery.hpp: a state change callback that calls *)
(* start_io on a new connection of a TCP connector and hands it to the     *)
(* application through a wait queue, a future, or a pair of futures for    *)
(* its beginning and its end.  component/worker.hpp: an exception that     *)
(* leaves a handler ends the run thread.                                   *)
(*                                                                         *)
(* The connector is reduced to what it reports (TcpConnector has the rest):*)
(* a start begins a chain of attempts, which a stop need not end and which *)
(* leads to at most one connection, through the callback that is there by  *)
(* then; and notify_me runs in the thread that calls stop_io, in the       *)
(* handler of a failed read, or inside start_io if the connection is       *)
(* already lost.  Replacing a callback that is running is a data race and  *)
(* not modelled.                                                           *)
(***************************************************************************)
EXTENDS TcpHandlers, Integers, SequencesExt

CONSTANTS Modes,        \* the start functions the application may use
          Threads, RunThread,
          MaxStarts     \* bound: start calls that succeed

ASSUME BoundAssumption == MaxStarts \in Nat
ASSUME HandlerAssumption == Handler \subseteq Nat \ {0}   \* 0 is None
ASSUME ModesAssumption == Modes \subseteq {"wait_queue", "future", "future_pair"}
ASSUME RunAssumption == RunThread \notin Threads

VARIABLES mode,           \* the start function in use
          starts,         \* starts so far: whose callback the entity holds
          attempts,       \* chains of attempts to connect
          m_io_handler,   \* the tcp_io, or None
          wq,             \* what was pushed, [h, starting]
          start_prom,     \* start_prom[n]: what start n's promise holds: a
          stop_prom,      \*   connection, Unset, or Broken (destroyed unset)
          lost,           \* connections that start_io found lost
          io_start_moved, \* the message handler was moved out of the io_start object
          intact,         \* connections that were given one not moved from before
          pc,             \* where each thread is, [at, h, back]
          threw,          \* threads that a future_error left
          leftover,       \* a start found a chain of attempts of an earlier one
          aborted         \* an assertion has ended the program

deliveryVars == <<wq, start_prom, stop_prom>>
startVars == <<io_start_moved, intact>>
histVars == <<lost, leftover>>
vars == <<entityVars, handlerVars, chgVars, mode, starts, attempts, m_io_handler,
          deliveryVars, histVars, startVars, pc, threw, aborted>>

Procs == Threads \cup {RunThread}
None  == 0
Start == 1 .. MaxStarts
Unset  == 0
Broken == -1
Idle  == [at |-> "idle", h |-> None, back |-> FALSE]
PcAt  == {"idle", "start", "callback", "deliver", "notify", "chg_false", "stop", "close"}
Place == [at : PcAt, h : Handler \cup {None}, back : BOOLEAN]

TypeOK ==
    /\ HandlersTypeOK
    /\ mode \in Modes /\ starts \in 0 .. MaxStarts /\ attempts \in Nat
    /\ m_io_handler \in Handler \cup {None}
    /\ wq \in Seq([h : Handler, starting : BOOLEAN])
    /\ start_prom \in [Start -> Handler \cup {Unset, Broken}]
    /\ stop_prom \in [Start -> Handler \cup {Unset, Broken}]
    /\ lost \subseteq Handler /\ threw \subseteq Procs
    /\ io_start_moved \in BOOLEAN /\ intact \subseteq Handler
    /\ leftover \in BOOLEAN /\ aborted \in BOOLEAN
    /\ pc \in [Procs -> Place]

Init ==
    /\ HandlersInit
    /\ mode \in Modes
    /\ starts = 0 /\ attempts = 0 /\ m_io_handler = None
    /\ wq = << >>
    /\ start_prom = [n \in Start |-> Unset] /\ stop_prom = [n \in Start |-> Unset]
    /\ lost = {} /\ threw = {}
    /\ io_start_moved = FALSE /\ intact = {}
    /\ leftover = FALSE /\ aborted = FALSE
    /\ pc = [p \in Procs |-> Idle]

At(p, where) == pc' = [pc EXCEPT ![p].at = where]
Running == RunThread \notin threw

\* notify_me returns: to the callback whose start_io called it, if one did.
Return(p) == pc' = [pc EXCEPT ![p] = IF @.back THEN [@ EXCEPT !.at = "deliver", !.back = FALSE]
                                     ELSE Idle]

-----------------------------------------------------------------------------
(* The application.                                                        *)

\* The promises of the callback that is replaced go with it.
Dropped(prom) == [n \in Start |-> IF n <= starts /\ prom[n] = Unset THEN Broken ELSE prom[n]]

\* Nobody is inside the callback, waiting for its start_io to return or not.
CallbackFree == \A p \in Procs : pc[p].at \notin {"callback", "deliver"} /\ ~pc[p].back

start_mutOldCallback(t) ==
    /\ pc[t].at = "idle" /\ starts < MaxStarts /\ CallbackFree
    /\ entity_start
    /\ starts' = starts + 1
    /\ start_prom' = Dropped(start_prom) /\ stop_prom' = Dropped(stop_prom)
    /\ leftover' = (leftover \/ attempts > 0 \/ \E p \in Procs : pc[p].at = "start")
    /\ At(t, "start")
    /\ UNCHANGED <<handlerVars, chgVars, mode, attempts, m_io_handler, wq, lost, startVars,
                   threw, aborted>>

\* start_with_wait_queue, make_tcp_io_interface_future or ..._future_pair.
start(t) ==
    /\ pc[t].at = "idle" /\ starts < MaxStarts /\ CallbackFree
    /\ entity_start
    /\ starts' = starts + 1
    /\ start_prom' = Dropped(start_prom) /\ stop_prom' = Dropped(stop_prom)
    /\ io_start_moved' = FALSE
    /\ leftover' = (leftover \/ attempts > 0 \/ \E p \in Procs : pc[p].at = "start")
    /\ At(t, "start")
    /\ UNCHANGED <<handlerVars, chgVars, mode, attempts, m_io_handler, wq, lost, intact,
                   threw, aborted>>

\* The rest of the connector's start: resolve or connect.
start_body(t) ==
    /\ pc[t].at = "start"
    /\ attempts' = attempts + 1
    /\ At(t, "idle")
    /\ UNCHANGED <<entityVars, handlerVars, chgVars, mode, starts, m_io_handler,
                   deliveryVars, histVars, startVars, threw, aborted>>

\* The application got h from the queue or the future.
Known(h) == \/ \E k \in DOMAIN wq : wq[k] = [h |-> h, starting |-> TRUE]
            \/ \E n \in Start : start_prom[n] = h

app_stop_io(t, h) ==
    /\ pc[t].at = "idle" /\ Known(h) /\ io[h] = "started"
    /\ pc' = [pc EXCEPT ![t].at = "notify", ![t].h = h]
    /\ UNCHANGED <<entityVars, handlerVars, chgVars, mode, starts, attempts, m_io_handler,
                   deliveryVars, histVars, startVars, threw, aborted>>

app_stop(t) ==
    /\ pc[t].at = "idle" /\ m_started
    /\ At(t, "stop")
    /\ UNCHANGED <<entityVars, handlerVars, chgVars, mode, starts, attempts, m_io_handler,
                   deliveryVars, histVars, startVars, threw, aborted>>

-----------------------------------------------------------------------------
(* The connector.                                                          *)

handle_connect_mutAgain ==
    /\ Running /\ pc[RunThread].at = "idle" /\ attempts > 0
    /\ \E h \in Handler :
         /\ \A g \in Handler : g < h => io[g] # "none"
         /\ make_tcp_io(h)
         /\ m_io_handler' = h
         /\ call_io_state_chg_cb(h, TRUE)
         /\ pc' = [pc EXCEPT ![RunThread].at = "callback", ![RunThread].h = h]
    /\ UNCHANGED <<entityVars, mode, starts, attempts, deliveryVars, histVars, startVars,
                   threw, aborted>>

handle_connect ==
    /\ Running /\ pc[RunThread].at = "idle" /\ attempts > 0
    /\ attempts' = attempts - 1
    /\ \E h \in Handler :
         /\ \A g \in Handler : g < h => io[g] # "none"
         /\ make_tcp_io(h)
         /\ m_io_handler' = h
         /\ call_io_state_chg_cb(h, TRUE)
         /\ pc' = [pc EXCEPT ![RunThread].at = "callback", ![RunThread].h = h]
    /\ UNCHANGED <<entityVars, mode, starts, deliveryVars, histVars, startVars, threw,
                   aborted>>

\* The resolve failed, or the timer could not be set.
attempt_fails ==
    /\ Running /\ pc[RunThread].at = "idle" /\ attempts > 0
    /\ attempts' = attempts - 1
    /\ m_started' = FALSE
    /\ UNCHANGED <<handlerVars, chgVars, mode, starts, m_io_handler, deliveryVars, histVars,
                   startVars, pc, threw, aborted>>

kernel_read_fails(h) ==
    /\ read[h] = "pending"
    /\ read' = [read EXCEPT ![h] = "failed"]
    /\ UNCHANGED <<entityVars, io, chgVars, mode, starts, attempts, m_io_handler,
                   deliveryVars, histVars, startVars, pc, threw, aborted>>

handle_read_mutSilent(h) ==
    /\ Running /\ pc[RunThread].at = "idle"
    /\ read_over(h)
    /\ UNCHANGED <<entityVars, chgVars, mode, starts, attempts, m_io_handler,
                   deliveryVars, histVars, startVars, pc, threw, aborted>>

handle_read(h) ==
    /\ Running /\ pc[RunThread].at = "idle"
    /\ read_over(h)
    /\ pc' = [pc EXCEPT ![RunThread].at = "notify", ![RunThread].h = h]
    /\ UNCHANGED <<entityVars, chgVars, mode, starts, attempts, m_io_handler,
                   deliveryVars, histVars, startVars, threw, aborted>>

\* The assertion of notify_me fails for a connection that is not m_io_handler,
\* and ends the program, or goes unnoticed where assertions are compiled out.
notify_close(p) ==
    /\ pc[p].at = "notify"
    /\ \/ /\ close_io(pc[p].h)
          /\ At(p, "chg_false")
          /\ UNCHANGED aborted
       \/ /\ pc[p].h # m_io_handler
          /\ aborted' = TRUE
          /\ UNCHANGED <<handlerVars, pc>>
    /\ UNCHANGED <<entityVars, chgVars, mode, starts, attempts, m_io_handler,
                   deliveryVars, histVars, startVars, threw>>

stop(p) ==
    /\ pc[p].at = "stop"
    /\ \/ entity_stop /\ At(p, "close")
       \/ ~m_started /\ UNCHANGED m_started /\ Return(p)
    /\ UNCHANGED <<handlerVars, chgVars, mode, starts, attempts, m_io_handler,
                   deliveryVars, histVars, startVars, threw, aborted>>

\* A wait that has expired or a resolve that is over goes on to connect, an
\* aborted connect is tried again if the connector is started by then.
\* A connection in its callback is not destroyed: the callback refers to it.
close(p) ==
    /\ pc[p].at = "close"
    /\ attempts' \in 0 .. attempts
    /\ m_io_handler' = None
    /\ IF m_io_handler = None THEN UNCHANGED handlerVars ELSE close_io(m_io_handler)
    /\ Return(p)
    /\ UNCHANGED <<entityVars, chgVars, mode, starts, deliveryVars, histVars, startVars,
                   threw, aborted>>

-----------------------------------------------------------------------------
(* The state change callback.                                              *)

\* The io_start function object (io_state_change.hpp): start_io, in the callback.
\* The message handler is moved into the first read, if there is one.
io_start ==
    /\ pc[RunThread].at = "callback"
    /\ LET h == pc[RunThread].h IN
         \/ /\ start_io_ok(h)
            /\ intact' = IF io_start_moved THEN intact ELSE intact \cup {h}
            /\ io_start_moved' = TRUE
            /\ At(RunThread, "deliver")
            /\ UNCHANGED lost
         \/ /\ start_io_lost(h)
            /\ lost' = lost \cup {h}
            /\ UNCHANGED <<intact, io_start_moved>>
            /\ pc' = [pc EXCEPT ![RunThread].at = "notify", ![RunThread].back = TRUE]
    /\ UNCHANGED <<entityVars, chgVars, mode, starts, attempts, m_io_handler,
                   deliveryVars, leftover, threw, aborted>>

push(h, starting) == wq' = Append(wq, [h |-> h, starting |-> starting])

\* set_value on a promise that has a value throws a future_error, which leaves the
\* callback and everything that called it.
Throw(p) ==
    /\ threw' = threw \cup {p}
    /\ pc' = [pc EXCEPT ![p] = Idle]

deliver_begin_mutEndsOnly ==
    /\ pc[RunThread].at = "deliver"
    /\ pc' = [pc EXCEPT ![RunThread] = Idle]
    /\ UNCHANGED <<entityVars, handlerVars, chgVars, mode, starts, attempts, m_io_handler,
                   deliveryVars, histVars, startVars, threw, aborted>>

\* The callback with starting = true, after start_io.
deliver_begin ==
    /\ pc[RunThread].at = "deliver"
    /\ LET h == pc[RunThread].h IN
         \/ /\ mode = "wait_queue"
            /\ push(h, TRUE)
            /\ pc' = [pc EXCEPT ![RunThread] = Idle]
            /\ UNCHANGED <<start_prom, threw>>
         \/ /\ mode # "wait_queue"
            /\ IF start_prom[starts] = Unset
                 THEN /\ start_prom' = [start_prom EXCEPT ![starts] = h]
                      /\ pc' = [pc EXCEPT ![RunThread] = Idle]
                      /\ UNCHANGED threw
                 ELSE Throw(RunThread) /\ UNCHANGED start_prom
            /\ UNCHANGED wq
    /\ UNCHANGED <<entityVars, handlerVars, chgVars, mode, starts, attempts, m_io_handler,
                   stop_prom, histVars, startVars, aborted>>

\* The callback with starting = false.
deliver_end(p) ==
    /\ pc[p].at = "chg_false"
    /\ call_io_state_chg_cb(pc[p].h, FALSE)
    /\ \/ /\ mode = "wait_queue"
          /\ push(pc[p].h, FALSE)
          /\ At(p, "stop")
          /\ UNCHANGED <<stop_prom, threw>>
       \/ /\ mode = "future"
          /\ At(p, "stop")
          /\ UNCHANGED <<wq, stop_prom, threw>>
       \/ /\ mode = "future_pair" /\ stop_prom[starts] = Unset
          /\ stop_prom' = [stop_prom EXCEPT ![starts] = pc[p].h]
          /\ At(p, "stop")
          /\ UNCHANGED <<wq, threw>>
       \/ /\ mode = "future_pair" /\ stop_prom[starts] # Unset
          /\ Throw(p)
          /\ UNCHANGED <<wq, stop_prom>>
    /\ UNCHANGED <<entityVars, handlerVars, mode, starts, attempts, m_io_handler, start_prom,
                   histVars, startVars, aborted>>

-----------------------------------------------------------------------------

AppStep(t) == start(t) \/ app_stop(t) \/ \E h \in Handler : app_stop_io(t, h)

InCall(p) == start_body(p) \/ notify_close(p) \/ deliver_end(p) \/ stop(p) \/ close(p)

InCallback == io_start \/ deliver_begin

Step == \/ \E t \in Threads : AppStep(t)
        \/ \E p \in Procs : InCall(p)
        \/ InCallback \/ handle_connect \/ attempt_fails
        \/ \E h \in Handler : handle_read(h) \/ kernel_read_fails(h)

Next == ~aborted /\ Step

Spec == Init /\ [][Next]_vars

\* Threads inside a call go on, and the run thread runs every handler that is
\* ready; nobody need connect, stop or lose a connection.
FairSpec == /\ Spec
            /\ WF_vars(~aborted /\ InCallback)
            /\ \A p \in Procs : WF_vars(~aborted /\ InCall(p))
            /\ \A h \in Handler : SF_vars(~aborted /\ handle_read(h))

-----------------------------------------------------------------------------
(* Properties.                                                             *)

\* The queue tells of the beginning of a connection before its end, unless the
\* connection was lost when the callback called start_io: then notify_me runs
\* inside the callback and its entry comes first.
BeginBeforeEnd ==
    \A k \in DOMAIN wq : ~wq[k].starting =>
        \/ wq[k].h \in lost
        \/ \E j \in 1 .. k - 1 : wq[j] = [h |-> wq[k].h, starting |-> TRUE]

\* Types are kept, and the callback delivers beginnings before ends.
DeliveryInv == TypeOK /\ BeginBeforeEnd

\* Every connection that reads has a message handler that was not moved from: a
\* start brings a new callback, which is used for one connection, as long as no
\* start finds a chain of attempts that an earlier stop did not end.
HandlerIntact == ~leftover => \A h \in Handler : read[h] # "none" => h \in intact

\* A future_error ends the run thread, or comes out of stop_io, only after the end
\* of one connection was reported twice or after the connector was started again;
\* and from the future of the beginning only after a start that found a chain of
\* attempts of an earlier one.
ErrorOnlyBySecondEnd ==
    threw # {} => /\ mode # "wait_queue"
                  /\ starts > 1 \/ \E h \in Handler : down[h] > 1
                  /\ mode = "future" => leftover

Told(h) == \/ mode = "future"
           \/ \E k \in DOMAIN wq : wq[k] = [h |-> h, starting |-> FALSE]
           \/ \E n \in Start : start_prom[n] = h /\ stop_prom[n] # Unset

\* Whoever waits for the end of a connection that is closed is woken up, whether
\* it was lost, stopped, or closed by the connector's stop; unless the assertion
\* of notify_me has ended the program, or an error of a second beginning the run
\* thread.
EndIsDelivered ==
    \A h \in Handler : (Known(h) /\ io[h] = "closed")
        ~> (Told(h) \/ aborted \/ (leftover /\ RunThread \in threw))

-----------------------------------------------------------------------------

\* io_interface_delivery.hpp: futures are appropriate for TCP connectors, "since
\* there is only a single state change for IO start and a single state change for
\* IO stop": no promise is set twice.
NoFutureError == threw = {}

=============================================================================
