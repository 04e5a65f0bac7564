------------------------------- MODULE TcpIo -------------------------------
(***************************************************************************)
(* detail/tcp_io.hpp: one TCP connection once its socket is connected.     *)
(*                                                                         *)
(* The run thread executes completion handlers one at a time; application  *)
(* threads call start_io, stop_io and send at any moment.  What a thread   *)
(* does between two accesses to state it shares with another thread is one *)
(* step, so a call is split where the code loads or exchanges m_io_started *)
(* and where it closes the socket (pc).                                    *)
(*                                                                         *)
(* An asynchronous operation is outstanding from the call that starts it   *)
(* until its handler has run: "pending" in the kernel, then "done" or      *)
(* "failed" with the handler queued on the io_context.  reads and writes   *)
(* are sequences although the code means to have at most one of each.      *)
(***************************************************************************)
EXTENDS IoCommon, SequencesExt

CONSTANTS Threads,     \* application threads
          RunThread,   \* the thread inside io_context::run
          MaxStarts    \* bound: how many times start_io is called

ASSUME ThreadAssumption == RunThread \notin Threads
ASSUME StartsAssumption == MaxStarts \in Nat

VARIABLES m_socket,    \* "open" or "closed"
          peer,        \* "up", or "down" once the remote end is gone
          posted,      \* send handlers posted and not yet run, in order
          writes,      \* outstanding async_writes, [buf, st]
          reads,       \* outstanding async_reads, their st
          pc,          \* what each thread is in the middle of
          starts,      \* start_io calls made so far
          sent,        \* buffers handed to send so far
          accepted,    \* history: buffers start_write_setup took, in order
          wire,        \* history: buffers completely written, in order
          broken       \* history: a write failed, part of it may be out

opVars   == <<m_socket, peer, posted, writes, reads, pc, starts, sent>>
histVars == <<accepted, wire, broken>>
vars     == <<ioCommonVars, opVars, histVars>>

Procs  == Threads \cup {RunThread}
OpSt   == {"pending", "done", "failed"}
PcSt   == {"idle", "starting", "close_call", "closing"}
Write  == [buf : Buf, st : OpSt]

TypeOK ==
    /\ m_output_queue \in Seq(Buf)
    /\ m_queue_size \in Word
    /\ m_current_num_bytes \in Word
    /\ m_io_started \in BOOLEAN
    /\ m_write_in_progress \in BOOLEAN
    /\ m_socket \in {"open", "closed"}
    /\ peer \in {"up", "down"}
    /\ posted \in Seq(Buf)
    /\ writes \in Seq(Write)
    /\ reads \in Seq(OpSt)
    /\ pc \in [Procs -> PcSt]
    /\ starts \in 0 .. MaxStarts
    /\ sent \subseteq Buf
    /\ accepted \in Seq(Buf)
    /\ wire \in Seq(Buf)
    /\ broken \in BOOLEAN

Init ==
    /\ IoCommonInit
    /\ m_socket = "open" /\ peer = "up"
    /\ posted = << >> /\ writes = << >> /\ reads = << >>
    /\ pc = [p \in Procs |-> "idle"]
    /\ starts = 0 /\ sent = {}
    /\ accepted = << >> /\ wire = << >> /\ broken = FALSE

\* An operation started on a closed socket fails at once.
StartedOp == IF m_socket = "open" THEN "pending" ELSE "failed"

\* A write operation whose handler is now queued.
Ended(w, st) == [buf |-> w.buf, st |-> st]

start_read_mutForgotten(others) == reads' = others

start_read(others) == reads' = Append(others, StartedOp)

start_write(buf, others) ==
    /\ writes' = Append(others, [buf |-> buf, st |-> StartedOp])
    /\ broken' = (broken \/ m_socket = "closed")

NotifyEntity_mutLost(p) == pc' = [pc EXCEPT ![p] = "idle"]

\* m_notifier_cb: the entity's notify_me calls close() on this handler first.
NotifyEntity(p) == pc' = [pc EXCEPT ![p] = "close_call"]

-----------------------------------------------------------------------------
(* Calls of the application, from any thread.                              *)

send(t, b) ==
    /\ pc[t] = "idle" /\ b \notin sent
    /\ sent' = sent \cup {b}
    /\ posted' = Append(posted, b)
    /\ UNCHANGED <<ioCommonVars, m_socket, peer, writes, reads, pc, starts, histVars>>

\* start_io up to the exchange of m_io_started, which refuses a second start.
start_io(t) ==
    /\ pc[t] = "idle" /\ starts < MaxStarts
    /\ starts' = starts + 1
    /\ \/ set_io_started /\ pc' = [pc EXCEPT ![t] = "starting"]
       \/ m_io_started /\ UNCHANGED <<m_io_started, pc>>
    /\ UNCHANGED <<m_write_in_progress, outqVars, m_socket, peer, posted,
                   writes, reads, sent, histVars>>

\* The rest of start_io: remote_endpoint, then the first read or the notifier.
start_io_setup(t) ==
    /\ pc[t] = "starting"
    /\ \/ /\ m_socket = "open"
          /\ start_read(reads)
          /\ pc' = [pc EXCEPT ![t] = "idle"]
       \/ /\ m_socket = "closed" \/ peer = "down"
          /\ NotifyEntity(t)
          /\ UNCHANGED reads
    /\ UNCHANGED <<ioCommonVars, m_socket, peer, posted, writes, starts, sent, histVars>>

\* stop_io, and the entity's own shutdown: both test is_io_started and go on
\* to close().
stop_io(t) ==
    /\ pc[t] = "idle"
    /\ m_io_started
    /\ NotifyEntity(t)
    /\ UNCHANGED <<ioCommonVars, m_socket, peer, posted, writes, reads, starts,
                   sent, histVars>>

\* close(): the exchange lets one caller through ...
close(p) ==
    /\ pc[p] = "close_call"
    /\ \/ io_common_stop /\ pc' = [pc EXCEPT ![p] = "closing"]
       \/ ~m_io_started /\ UNCHANGED m_io_started /\ pc' = [pc EXCEPT ![p] = "idle"]
    /\ UNCHANGED <<m_write_in_progress, outqVars, m_socket, peer, posted, writes,
                   reads, starts, sent, histVars>>

\* ... who shuts the socket down and closes it, which aborts what is pending.
close_socket(p) ==
    /\ pc[p] = "closing"
    /\ m_socket' = "closed"
    /\ reads' = [i \in DOMAIN reads |->
                   IF reads[i] = "pending" THEN "failed" ELSE reads[i]]
    /\ writes' = [i \in DOMAIN writes |->
                   IF writes[i].st = "pending" THEN Ended(writes[i], "failed")
                                               ELSE writes[i]]
    /\ broken' = (broken \/ \E i \in DOMAIN writes : writes[i].st = "pending")
    /\ pc' = [pc EXCEPT ![p] = "idle"]
    /\ UNCHANGED <<ioCommonVars, peer, posted, starts, sent, accepted, wire>>

-----------------------------------------------------------------------------
(* Handlers of the run thread.                                             *)

\* The lambda posted by send.
run_send ==
    /\ pc[RunThread] = "idle" /\ posted # << >>
    /\ posted' = Tail(posted)
    /\ accepted' = IF m_io_started THEN Append(accepted, Head(posted)) ELSE accepted
    /\ \E result \in BOOLEAN :
         /\ start_write_setup(Head(posted), result)
         /\ \/ result /\ start_write(Head(posted), writes)
            \/ ~result /\ UNCHANGED <<writes, broken>>
    /\ UNCHANGED <<m_socket, peer, reads, pc, starts, sent, wire>>

handle_write_mutIgnoreError(i) ==
    /\ pc[RunThread] = "idle" /\ writes[i].st # "pending"
    /\ \E elem \in {<< >>} \cup {<<b>> : b \in Buf} :
         /\ get_next_element(elem)
         /\ \/ elem = << >> /\ writes' = RemoveAt(writes, i) /\ UNCHANGED broken
            \/ elem # << >> /\ start_write(elem[1], RemoveAt(writes, i))
    /\ UNCHANGED <<m_socket, peer, posted, reads, pc, starts, sent, accepted, wire>>

handle_write(i) ==
    /\ pc[RunThread] = "idle"
    /\ \/ /\ writes[i].st = "failed"
          /\ writes' = RemoveAt(writes, i)
          /\ UNCHANGED <<ioCommonVars, broken>>
       \/ /\ writes[i].st = "done"
          /\ \E elem \in {<< >>} \cup {<<b>> : b \in Buf} :
               /\ get_next_element(elem)
               /\ \/ /\ elem = << >>
                     /\ writes' = RemoveAt(writes, i)
                     /\ UNCHANGED broken
                  \/ /\ elem # << >>
                     /\ start_write(elem[1], RemoveAt(writes, i))
    /\ UNCHANGED <<m_socket, peer, posted, reads, pc, starts, sent, accepted, wire>>

handle_read_mutRetry(i) ==
    /\ pc[RunThread] = "idle" /\ reads[i] # "pending"
    /\ start_read(RemoveAt(reads, i))
    /\ \/ reads[i] = "done" /\ UNCHANGED pc
       \/ NotifyEntity(RunThread)
    /\ UNCHANGED <<ioCommonVars, m_socket, peer, posted, writes, starts, sent, histVars>>

\* handle_read and handle_read_until.  After a message part, or a message the
\* handler likes, the next read is started; the message handler may also be
\* unhappy.  What it does through its io_interface (send, stop_io) is a call
\* of the application made just before this step.
handle_read(i) ==
    /\ pc[RunThread] = "idle"
    /\ \/ /\ reads[i] = "failed"
          /\ reads' = RemoveAt(reads, i)
          /\ NotifyEntity(RunThread)
       \/ /\ reads[i] = "done"
          /\ \/ start_read(RemoveAt(reads, i)) /\ UNCHANGED pc
             \/ reads' = RemoveAt(reads, i) /\ NotifyEntity(RunThread)
    /\ UNCHANGED <<ioCommonVars, m_socket, peer, posted, writes, starts, sent, histVars>>

-----------------------------------------------------------------------------
(* The kernel and the peer.                                                *)

\* An async_write completes when all its bytes are with the kernel.
write_completes(i) ==
    /\ writes[i].st = "pending"
    /\ writes' = [writes EXCEPT ![i] = Ended(writes[i], "done")]
    /\ wire' = Append(wire, writes[i].buf)
    /\ UNCHANGED <<ioCommonVars, m_socket, peer, posted, reads, pc, starts, sent,
                   accepted, broken>>

write_fails(i) ==
    /\ writes[i].st = "pending" /\ peer = "down"
    /\ writes' = [writes EXCEPT ![i] = Ended(writes[i], "failed")]
    /\ broken' = TRUE
    /\ UNCHANGED <<ioCommonVars, m_socket, peer, posted, reads, pc, starts, sent,
                   accepted, wire>>

read_completes(i) ==
    /\ reads[i] = "pending" /\ peer = "up"
    /\ reads' = [reads EXCEPT ![i] = "done"]
    /\ UNCHANGED <<ioCommonVars, m_socket, peer, posted, writes, pc, starts, sent, histVars>>

read_fails(i) ==
    /\ reads[i] = "pending" /\ peer = "down"
    /\ reads' = [reads EXCEPT ![i] = "failed"]
    /\ UNCHANGED <<ioCommonVars, m_socket, peer, posted, writes, pc, starts, sent, histVars>>

peer_goes_down ==
    /\ peer = "up"
    /\ peer' = "down"
    /\ UNCHANGED <<ioCommonVars, m_socket, posted, writes, reads, pc, starts, sent, histVars>>

-----------------------------------------------------------------------------

AppStep(t) == \/ \E b \in Buf : send(t, b)
              \/ start_io(t)
              \/ stop_io(t)

\* Steps a thread that is inside a call goes on to take.
InCall(p) == start_io_setup(p) \/ close(p) \/ close_socket(p)

RunStep == \/ run_send
           \/ \E i \in DOMAIN writes : handle_write(i)
           \/ \E i \in DOMAIN reads : handle_read(i)

WriteStep == \E i \in DOMAIN writes : write_completes(i) \/ write_fails(i)

Next == \/ \E t \in Threads : AppStep(t)
        \/ \E p \in Procs : InCall(p)
        \/ RunStep
        \/ WriteStep
        \/ \E i \in DOMAIN reads : read_completes(i) \/ read_fails(i)
        \/ peer_goes_down

Spec == Init /\ [][Next]_vars

(***************************************************************************)
(* Threads inside a call go on, the run thread keeps running handlers (a   *)
(* ready handler is not starved: the io_context queue is FIFO), the kernel *)
(* reports a dead connection and the peer reads what is written to it.     *)
(* The application need not do anything and the peer need not send.        *)
(***************************************************************************)
Fairness ==
    /\ \A p \in Procs : WF_vars(InCall(p))
    /\ WF_vars(run_send)
    /\ WF_vars(\E i \in DOMAIN writes : handle_write(i))
    /\ WF_vars(\E i \in DOMAIN reads : handle_read(i))
    /\ WF_vars(WriteStep)
    /\ WF_vars(\E i \in DOMAIN reads : read_fails(i))

FairSpec == Spec /\ Fairness

-----------------------------------------------------------------------------
(* Properties.                                                             *)

\* At most one async_write is outstanding and the flag says so: two of them
\* would interleave their bytes (async_write is a composed operation).
WriteSerialized ==
    /\ Len(writes) <= 1
    /\ writes # << >> => m_write_in_progress

\* What goes out is, in order and without a gap or a repetition, what
\* start_write_setup took: a buffer never overtakes, drops or repeats one.
WirePrefix == IsPrefix(wire, accepted)

(***************************************************************************)
(* The inductive strengthening of WriteSerialized and WirePrefix: what     *)
(* each value of the write-in-progress flag and of the outstanding write   *)
(* says about the buffers accepted and not yet written.                    *)
(***************************************************************************)
\* accepted, from position n + 1 on, is exactly the output queue.
Follows(n) ==
    /\ Len(accepted) = n + Len(m_output_queue)
    /\ \A j \in 1 .. Len(m_output_queue) : accepted[n + j] = m_output_queue[j]

\* Nothing in progress: everything accepted has been written.
IdleInv == ~m_write_in_progress => /\ writes = << >>
                                   /\ Len(accepted) = Len(wire)
                                   /\ ~broken

\* The outstanding write is the buffer after those written; the queue follows.
WriteInv ==
    \A i \in DOMAIN writes :
        /\ writes[i].st = "pending" =>
             /\ ~broken
             /\ Follows(Len(wire) + 1)
             /\ accepted[Len(wire) + 1] = writes[i].buf
        /\ writes[i].st = "done" => ~broken /\ Follows(Len(wire))

WrittenInv ==
    /\ Len(wire) <= Len(accepted)
    /\ \A i \in 1 .. Len(wire) : wire[i] = accepted[i]

QueueInv == /\ WriteSerialized
            /\ ~m_write_in_progress => m_output_queue = << >>
            /\ IdleInv
            /\ WriteInv
            /\ WrittenInv

\* The number of bytes in the buffers of q.
TotalBytes(q) ==
    LET total[n \in 0 .. Len(q)] == IF n = 0 THEN 0 ELSE total[n - 1] + Size[q[n]]
    IN  total[Len(q)]

\* The counters agree with the queue, modulo the width of a std::size_t.
StatsAccurate ==
    /\ m_queue_size = Len(m_output_queue) % WordMod
    /\ m_current_num_bytes = TotalBytes(m_output_queue) % WordMod

\* A started handler always has a read posted (overview.md: "a read is always
\* posted for TCP connections") or is about to post or to close: only the read
\* reports a lost connection, since handle_write swallows its errors.
ReadPosted ==
    m_io_started => \/ reads # << >>
                    \/ \E p \in Procs : pc[p] \in {"starting", "close_call"}

\* Once a write has failed nothing more goes out, so that a partly written
\* buffer is never followed by another one.
NothingAfterBroken == [][broken => wire' = wire]_vars

\* A lost connection, even one that only a swallowed write error shows, ends
\* with the socket closed, if io was started on it.
BrokenCloses == (m_io_started /\ peer = "down") ~> (m_socket = "closed")

\* The handler implements the abstract channel: in-order delivery, and nothing
\* after a failure, whatever the threads do.
Channel == INSTANCE SendChannel
ChannelSpec == Channel!Spec

\* What was accepted goes out, or the connection is closed.
Drains == \A b \in Buf :
    (\E i \in DOMAIN accepted : accepted[i] = b)
        ~> ((\E i \in DOMAIN wire : wire[i] = b) \/ m_socket = "closed")

\* Every handler of a closed connection runs and starts no other, so that the
\* last shared_ptr to the tcp_io goes away.
Released ==
    (m_socket = "closed") ~> (reads = << >> /\ writes = << >> /\ posted = << >>)

=============================================================================
