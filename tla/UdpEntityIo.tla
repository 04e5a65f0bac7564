---------------------------- MODULE UdpEntityIo ----------------------------
(***************************************************************************)
(* detail/udp_entity_io.hpp: net entity and io handler in one object.      *)
(* Unlike a tcp_io it is used again after a stop, so what a stop leaves    *)
(* behind matters.  The calls are split as in TcpAcceptor: after each      *)
(* callback into the application and around the exchanges of the flags.    *)
(***************************************************************************)
EXTENDS IoCommon, NetEntityCommon, SequencesExt

CONSTANTS Threads, RunThread,
          Addressed,   \* the buffers sent with an endpoint of their own
          MaxStarts,   \* bound: start calls that succeed
          MaxErrors    \* bound: reads and writes that fail on their own

ASSUME RunAssumption == RunThread \notin Threads
ASSUME AddressedAssumption == Addressed \subseteq Buf
ASSUME BoundAssumption == MaxStarts \in Nat /\ MaxErrors \in Nat
ASSUME SelfAssumption == Handler # {}

VARIABLES m_socket,             \* "open" or "closed"
          m_default_dest_endp,  \* "set" once start_io was given an endpoint
          posted,               \* send handlers posted and not yet run
          writes,               \* outstanding async_send_tos, [buf, to, st]
          reads,                \* outstanding async_receive_froms, their st
          pc,                   \* where each thread is, [at, read, dest]
          starts, ioStarts,     \* successful start and start_io calls so far
          errors, sent,
          accepted, wire, \* history, as in TcpIo
          broken          \* a write has failed since the last start

sockVars == <<m_socket, m_default_dest_endp>>
histVars == <<accepted, wire, broken>>
vars == <<ioCommonVars, entityVars, chgVars, sockVars, posted, writes, reads, pc,
          starts, ioStarts, errors, sent, histVars>>

Procs == Threads \cup {RunThread}
Self  == CHOOSE h \in Handler : TRUE   \* the object itself is its one handler

OpSt  == {"pending", "done", "failed"}
Dest  == {"own", "set", "unset"}
Write == [buf : Buf, to : Dest, st : OpSt]
PcSt  == [at : {"idle", "open", "chg_true", "stop", "stop_io", "start_io", "closing",
                "chg_false"},
          read : BOOLEAN, dest : BOOLEAN]

Place(where) == [at |-> where, read |-> FALSE, dest |-> FALSE]
At(p, where) == pc' = [pc EXCEPT ![p] = Place(where)]

TypeOK ==
    /\ EntityTypeOK
    /\ m_output_queue \in Seq(Buf)
    /\ m_queue_size \in Word /\ m_current_num_bytes \in Word
    /\ m_io_started \in BOOLEAN /\ m_write_in_progress \in BOOLEAN
    /\ m_socket \in {"open", "closed"}
    /\ m_default_dest_endp \in {"set", "unset"}
    /\ posted \in Seq(Buf)
    /\ writes \in Seq(Write)
    /\ reads \in Seq(OpSt)
    /\ pc \in [Procs -> PcSt]
    /\ starts \in 0 .. MaxStarts /\ ioStarts \in Nat /\ errors \in 0 .. MaxErrors
    /\ sent \subseteq Buf
    /\ accepted \in Seq(Buf) /\ wire \in Seq(Buf) /\ broken \in BOOLEAN

Init ==
    /\ IoCommonInit /\ EntityInit
    /\ m_socket = "closed" /\ m_default_dest_endp = "unset"
    /\ posted = << >> /\ writes = << >> /\ reads = << >>
    /\ pc = [p \in Procs |-> Place("idle")]
    /\ starts = 0 /\ ioStarts = 0 /\ errors = 0 /\ sent = {}
    /\ accepted = << >> /\ wire = << >> /\ broken = FALSE

\* An operation started on a closed socket fails at once.
StartedOp == IF m_socket = "open" THEN "pending" ELSE "failed"

\* Where a buffer goes, decided when its write is started.
Destination(b) == IF b \in Addressed THEN "own" ELSE m_default_dest_endp

\* A write whose handler is now queued.
Ended(w, st) == [buf |-> w.buf, to |-> w.to, st |-> st]

start_read(others) == reads' = Append(others, StartedOp)

start_write(b, others) ==
    /\ writes' = Append(others, [buf |-> b, to |-> Destination(b), st |-> StartedOp])
    /\ broken' = (broken \/ m_socket = "closed")

-----------------------------------------------------------------------------
(* start and start_io.                                                     *)

start(t) ==
    /\ pc[t].at = "idle" /\ starts < MaxStarts
    /\ entity_start
    /\ starts' = starts + 1
    /\ broken' = FALSE
    /\ At(t, "open")
    /\ UNCHANGED <<ioCommonVars, chgVars, sockVars, posted, writes, reads, ioStarts,
                   errors, sent, accepted, wire>>

\* Opening may fail, and does when an earlier stop left the socket open: it is
\* already open, or its own address is in use.
open_socket(t) ==
    /\ pc[t].at = "open"
    /\ \/ /\ m_socket = "closed"
          /\ m_socket' = "open"
          /\ At(t, "chg_true")
       \/ At(t, "stop") /\ UNCHANGED m_socket
    /\ UNCHANGED <<ioCommonVars, entityVars, chgVars, m_default_dest_endp, posted, writes,
                   reads, starts, ioStarts, errors, sent, histVars>>

announce(t) ==
    /\ pc[t].at = "chg_true"
    /\ call_io_state_chg_cb(Self, TRUE)
    /\ At(t, "idle")
    /\ UNCHANGED <<ioCommonVars, entityVars, sockVars, posted, writes, reads, starts,
                   ioStarts, errors, sent, histVars>>

\* The application calls start_io once, sooner or later, for every open it is
\* told of; with or without reads, with or without a default destination.
start_io(t) ==
    /\ pc[t].at = "idle" /\ ioStarts < up[Self]
    /\ ioStarts' = ioStarts + 1
    /\ \/ /\ set_io_started
          /\ \E r, d \in BOOLEAN :
               pc' = [pc EXCEPT ![t] = [at |-> "start_io", read |-> r, dest |-> d]]
       \/ m_io_started /\ UNCHANGED <<m_io_started, pc>>
    /\ UNCHANGED <<m_write_in_progress, outqVars, entityVars, chgVars, sockVars, posted,
                   writes, reads, starts, errors, sent, histVars>>

start_io_body(t) ==
    /\ pc[t].at = "start_io"
    /\ m_default_dest_endp' = IF pc[t].dest THEN "set" ELSE m_default_dest_endp
    /\ IF pc[t].read THEN start_read(reads) ELSE UNCHANGED reads
    /\ At(t, "idle")
    /\ UNCHANGED <<ioCommonVars, entityVars, chgVars, m_socket, posted, writes, starts,
                   ioStarts, errors, sent, histVars>>

-----------------------------------------------------------------------------
(* stop and stop_io.                                                       *)

\* stop and stop_io, with something to stop.
app_stop(t) ==
    /\ pc[t].at = "idle"
    /\ \/ m_started /\ At(t, "stop")
       \/ m_io_started /\ At(t, "stop_io")
    /\ UNCHANGED <<ioCommonVars, entityVars, chgVars, sockVars, posted, writes, reads,
                   starts, ioStarts, errors, sent, histVars>>

stop(p) ==
    /\ pc[p].at = "stop"
    /\ \/ entity_stop /\ At(p, "stop_io")
       \/ ~m_started /\ UNCHANGED m_started /\ At(p, "idle")
    /\ UNCHANGED <<ioCommonVars, chgVars, sockVars, posted, writes, reads, starts, ioStarts,
                   errors, sent, histVars>>

stop_io_mutNoCheck(p) ==
    /\ pc[p].at = "stop_io"
    /\ m_io_started' = FALSE
    /\ At(p, "closing")
    /\ UNCHANGED <<m_write_in_progress, outqVars, entityVars, chgVars, sockVars, posted,
                   writes, reads, starts, ioStarts, errors, sent, histVars>>

stop_io(p) ==
    /\ pc[p].at = "stop_io"
    /\ \/ io_common_stop /\ At(p, "closing")
       \/ ~m_io_started /\ UNCHANGED m_io_started /\ At(p, "idle")
    /\ UNCHANGED <<m_write_in_progress, outqVars, entityVars, chgVars, sockVars, posted,
                   writes, reads, starts, ioStarts, errors, sent, histVars>>

\* Closing aborts what is pending; the application hears of it next.
close_socket(p) ==
    /\ pc[p].at = "closing"
    /\ m_socket' = "closed"
    /\ reads' = [i \in DOMAIN reads |-> IF reads[i] = "pending" THEN "failed" ELSE reads[i]]
    /\ writes' = [i \in DOMAIN writes |->
                    IF writes[i].st = "pending" THEN Ended(writes[i], "failed")
                                                ELSE writes[i]]
    /\ broken' = (broken \/ \E i \in DOMAIN writes : writes[i].st = "pending")
    /\ At(p, "chg_false")
    /\ UNCHANGED <<ioCommonVars, entityVars, chgVars, m_default_dest_endp, posted, starts,
                   ioStarts, errors, sent, accepted, wire>>

announce_closed(p) ==
    /\ pc[p].at = "chg_false"
    /\ call_io_state_chg_cb(Self, FALSE)
    /\ At(p, "idle")
    /\ UNCHANGED <<ioCommonVars, entityVars, sockVars, posted, writes, reads, starts,
                   ioStarts, errors, sent, histVars>>

-----------------------------------------------------------------------------
(* send, and the handlers of the run thread.                               *)

send(t, b) ==
    /\ pc[t].at = "idle" /\ b \notin sent
    /\ sent' = sent \cup {b}
    /\ posted' = Append(posted, b)
    /\ UNCHANGED <<ioCommonVars, entityVars, chgVars, sockVars, writes, reads, pc, starts,
                   ioStarts, errors, histVars>>

run_send ==
    /\ pc[RunThread].at = "idle" /\ posted # << >>
    /\ posted' = Tail(posted)
    /\ accepted' = IF m_io_started THEN Append(accepted, Head(posted)) ELSE accepted
    /\ \E result \in BOOLEAN :
         /\ start_write_setup(Head(posted), result)
         /\ \/ result /\ start_write(Head(posted), writes)
            \/ ~result /\ UNCHANGED <<writes, broken>>
    /\ UNCHANGED <<entityVars, chgVars, sockVars, reads, pc, starts, ioStarts, errors, sent,
                   wire>>

handle_write_mutIgnoreError(i) ==
    /\ pc[RunThread].at = "idle" /\ writes[i].st # "pending"
    /\ \E elem \in {<< >>} \cup {<<b>> : b \in Buf} :
         /\ get_next_element(elem)
         /\ \/ elem = << >> /\ writes' = RemoveAt(writes, i) /\ UNCHANGED broken
            \/ elem # << >> /\ start_write(elem[1], RemoveAt(writes, i))
    /\ UNCHANGED <<entityVars, chgVars, sockVars, posted, reads, pc, starts, ioStarts,
                   errors, sent, accepted, wire>>

handle_write_mutNoStop(i) ==
    /\ pc[RunThread].at = "idle" /\ writes[i].st = "failed"
    /\ writes' = RemoveAt(writes, i)
    /\ UNCHANGED <<ioCommonVars, entityVars, chgVars, sockVars, posted, reads, pc, starts,
                   ioStarts, errors, sent, histVars>>

\* An error is reported and stops the entity; otherwise the next buffer goes out.
handle_write(i) ==
    /\ pc[RunThread].at = "idle"
    /\ \/ /\ writes[i].st = "failed"
          /\ writes' = RemoveAt(writes, i)
          /\ At(RunThread, "stop")
          /\ UNCHANGED <<ioCommonVars, broken>>
       \/ /\ writes[i].st = "done"
          /\ \E elem \in {<< >>} \cup {<<b>> : b \in Buf} :
               /\ get_next_element(elem)
               /\ \/ elem = << >> /\ writes' = RemoveAt(writes, i) /\ UNCHANGED broken
                  \/ elem # << >> /\ start_write(elem[1], RemoveAt(writes, i))
          /\ UNCHANGED pc
    /\ UNCHANGED <<entityVars, chgVars, sockVars, posted, reads, starts, ioStarts, errors,
                   sent, accepted, wire>>

handle_read_mutBoth(i) ==
    /\ pc[RunThread].at = "idle" /\ reads[i] = "done"
    /\ start_read(reads)
    /\ UNCHANGED <<ioCommonVars, entityVars, chgVars, sockVars, posted, writes, pc, starts,
                   ioStarts, errors, sent, histVars>>

\* A datagram the message handler likes is followed by the next read; an error
\* or an unhappy handler stops the entity.
handle_read(i) ==
    /\ pc[RunThread].at = "idle"
    /\ \/ /\ reads[i] = "done"
          /\ start_read(RemoveAt(reads, i))
          /\ UNCHANGED pc
       \/ /\ reads[i] # "pending"
          /\ reads' = RemoveAt(reads, i)
          /\ At(RunThread, "stop")
    /\ UNCHANGED <<ioCommonVars, entityVars, chgVars, sockVars, posted, writes, starts,
                   ioStarts, errors, sent, histVars>>

-----------------------------------------------------------------------------
(* The kernel.                                                             *)

write_completes(i) ==
    /\ writes[i].st = "pending" /\ writes[i].to # "unset"
    /\ writes' = [writes EXCEPT ![i] = Ended(writes[i], "done")]
    /\ wire' = Append(wire, writes[i].buf)
    /\ UNCHANGED <<ioCommonVars, entityVars, chgVars, sockVars, posted, reads, pc, starts,
                   ioStarts, errors, sent, accepted, broken>>

\* Sending to an endpoint that was never set fails, anything else may.
write_fails(i) ==
    /\ writes[i].st = "pending"
    /\ \/ writes[i].to = "unset" /\ UNCHANGED errors
       \/ writes[i].to # "unset" /\ errors < MaxErrors /\ errors' = errors + 1
    /\ writes' = [writes EXCEPT ![i] = Ended(writes[i], "failed")]
    /\ broken' = TRUE
    /\ UNCHANGED <<ioCommonVars, entityVars, chgVars, sockVars, posted, reads, pc, starts,
                   ioStarts, sent, accepted, wire>>

read_ends(i) ==
    /\ reads[i] = "pending"
    /\ \/ reads' = [reads EXCEPT ![i] = "done"] /\ UNCHANGED errors
       \/ /\ errors < MaxErrors
          /\ errors' = errors + 1
          /\ reads' = [reads EXCEPT ![i] = "failed"]
    /\ UNCHANGED <<ioCommonVars, entityVars, chgVars, sockVars, posted, writes, pc, starts,
                   ioStarts, sent, histVars>>

-----------------------------------------------------------------------------

AppStep(t) == \/ start(t) \/ start_io(t) \/ app_stop(t)
              \/ \E b \in Buf : send(t, b)

InCall(p) == \/ open_socket(p) \/ announce(p) \/ start_io_body(p)
             \/ stop(p) \/ stop_io(p) \/ close_socket(p) \/ announce_closed(p)

HandleWrite == \E i \in DOMAIN writes : handle_write(i)
HandleRead  == \E i \in DOMAIN reads : handle_read(i)

Next == \/ \E t \in Threads : AppStep(t)
        \/ \E p \in Procs : InCall(p)
        \/ run_send \/ HandleWrite \/ HandleRead
        \/ \E i \in DOMAIN writes : write_completes(i) \/ write_fails(i)
        \/ \E i \in DOMAIN reads : read_ends(i)

Spec == Init /\ [][Next]_vars

-----------------------------------------------------------------------------
(* Properties.                                                             *)

\* One write at a time, over any number of restarts; one read at a time, since
\* reads share m_byte_vec and m_sender_endp, as long as there is no restart.
OneOfEach ==
    /\ Len(writes) <= 1
    /\ writes # << >> => m_write_in_progress
    /\ starts <= 1 => Len(reads) <= 1

\* Types are kept, and start_read and start_write never overlap an earlier one.
UdpInv == TypeOK /\ OneOfEach

\* How many of the accepted buffers are sent or lost: those neither queued nor
\* in a write that can still succeed.
Passed == Len(accepted) - Len(m_output_queue)
            - Cardinality({i \in DOMAIN writes : writes[i].st = "pending"})

\* Over any number of restarts the datagrams that go out are those accepted, in
\* order and each once; after a write failed none goes out before the next
\* start(), and only then is a buffer passed over.
Channel == INSTANCE DatagramChannel WITH pos <- Passed, session <- starts
ChannelSpec == Channel!Spec

\* Whichever of stop, stop_io and the errors of reads and writes ends the io,
\* and however they overlap, an open is reported closed at most once.
ClosedOncePerOpen == down[Self] <= up[Self]

\* Until a restart, a queued buffer has a write outstanding that will fetch it.
NoLostWakeup == starts <= 1 =>
    (m_io_started /\ ~broken /\ m_output_queue # << >> => writes # << >>)

\* A write that failed, or was aborted, stops the entity: until a restart it is
\* stopped, or the failure is still to be handled, or the run thread is on its
\* way to stop it.
FailureStops == starts <= 1 /\ broken =>
    \/ ~m_started
    \/ \E i \in DOMAIN writes : writes[i].st = "failed"
    \/ pc[RunThread].at = "stop"

\* Nothing is about to stop the entity.
Steady == /\ \A p \in Procs : pc[p].at = "idle"
          /\ \A i \in DOMAIN reads : reads[i] # "failed"

\* basic_net_entity.hpp: "The start method call can be followed by a stop call,
\* followed by start, etc."  After a restart a buffer that is queued has a write
\* outstanding that will fetch it.
RestartSends ==
    starts > 1 /\ m_started /\ m_io_started /\ Steady /\ m_output_queue # << >>
        => writes # << >>

=============================================================================
