----------------------------- MODULE SendToAll -----------------------------
(***************************************************************************)
(* component/send_to_all.hpp, used as the state change callback of an      *)
(* entity: interfaces are added as connections begin, in the run thread,   *)
(* and removed as they end, in the run thread or in the thread that calls  *)
(* stop_io, while application threads send to all of them.                 *)
(*                                                                         *)
(* The entity keeps an io handler alive while it reports its beginning and *)
(* its end; afterwards the handler goes when the last operation lets go of *)
(* it.  A connection on which start_io was never called may go without a   *)
(* report (tcp_connector::close, or the acceptor being destroyed).         *)
(***************************************************************************)
EXTENDS IoInterface, EraseWhere

CONSTANTS Threads, RunThread

ASSUME RunAssumption == RunThread \notin Threads

VARIABLES m_io_intfs,   \* the collection
          m_mutex,      \* the thread that holds it, or Free
          pc,           \* where each thread is: [at, h, i, buf]
          reported,     \* handlers whose end was reported
          dropped,      \* handlers destroyed without a report
          overtaken,    \* handlers whose end was reported before they were added
          threw,        \* buffers whose send ended in an exception
          terminated    \* an exception left a noexcept function

vars == <<ioVars, m_io_intfs, m_mutex, pc, reported, dropped, overtaken, threw, terminated>>

Procs == Threads \cup {RunThread}
Free  == "free"
ASSUME FreeAssumption == Free \notin Procs
None  == "none"
Idle  == [at |-> "idle", h |-> None, i |-> 0, buf |-> None]

\* "add_remove": in the callback that is to add, the end found by start_io.
PcAt == {"idle", "add", "remove", "add_remove", "loop"}

TypeOK ==
    /\ IoTypeOK
    /\ m_io_intfs \in Seq(Io)
    /\ m_mutex \in Procs \cup {Free}
    /\ pc \in [Procs -> [at : PcAt, h : Io \cup {None}, i : Nat, buf : Buf \cup {None}]]
    /\ reported \subseteq Io /\ dropped \subseteq Io /\ overtaken \subseteq Io
    /\ threw \subseteq Buf
    /\ terminated \in BOOLEAN

Init ==
    /\ IoInit
    /\ m_io_intfs = << >>
    /\ m_mutex = Free
    /\ pc = [p \in Procs |-> Idle]
    /\ reported = {} /\ dropped = {} /\ overtaken = {} /\ threw = {}
    /\ terminated = FALSE

Stored(h) == Contains(m_io_intfs, h)

Adding(h) == pc[RunThread].at \in {"add", "add_remove"} /\ pc[RunThread].h = h

-----------------------------------------------------------------------------
(* The entity.                                                             *)

\* A connection is made and the state change callback called with true ...
io_begins(h) ==
    /\ pc[RunThread].at = "idle" /\ life[h] = "none"
    /\ life' = [life EXCEPT ![h] = "live"]
    /\ pc' = [pc EXCEPT ![RunThread].at = "add", ![RunThread].h = h]
    /\ UNCHANGED <<started, posted, m_io_intfs, m_mutex, reported, dropped, overtaken,
                   threw, terminated>>

\* ... and with false at its end, perhaps more than once (see TcpAcceptor).
io_ends(p, h) ==
    /\ pc[p].at = "idle" /\ is_valid(h) /\ h \in started
    /\ pc' = [pc EXCEPT ![p].at = "remove", ![p].h = h]
    /\ UNCHANGED <<ioVars, m_io_intfs, m_mutex, reported, dropped, overtaken, threw,
                   terminated>>

\* No thread is inside a callback about h and holds a shared_ptr to it.
LetGo(h) == \A p \in Procs : pc[p].h # h

released(h) ==
    /\ h \in reported /\ LetGo(h)
    /\ expire(h)
    /\ UNCHANGED <<m_io_intfs, m_mutex, pc, reported, dropped, overtaken, threw,
                   terminated>>

drop(h) ==
    /\ LetGo(h) /\ h \notin started
    /\ expire(h)
    /\ dropped' = dropped \cup {h}
    /\ UNCHANGED <<m_io_intfs, m_mutex, pc, reported, overtaken, threw, terminated>>

-----------------------------------------------------------------------------
(* send_to_all.  A critical section without a loop is one step.            *)

add_io_interface ==
    /\ pc[RunThread].at = "add" /\ m_mutex = Free
    /\ m_io_intfs' = Append(m_io_intfs, pc[RunThread].h)
    /\ pc' = [pc EXCEPT ![RunThread] = Idle]
    /\ UNCHANGED <<ioVars, m_mutex, reported, dropped, overtaken, threw, terminated>>

\* erase_where: every handle equal to io.
Erased(io) == EraseWhere(m_io_intfs, {g \in Io : Equal(g, io)})

Removing(p) == pc[p].at \in {"remove", "add_remove"}

\* Back from the report of an end.
Return(p) == pc' = [pc EXCEPT ![p] = IF @.at = "add_remove" THEN [@ EXCEPT !.at = "add"]
                                                            ELSE Idle]

remove_io_interface_mutNoLock(p) ==
    /\ Removing(p)
    /\ m_io_intfs' = Erased(pc[p].h)
    /\ reported' = reported \cup {pc[p].h}
    /\ overtaken' = IF Adding(pc[p].h) THEN overtaken \cup {pc[p].h} ELSE overtaken
    /\ Return(p)
    /\ UNCHANGED <<ioVars, m_mutex, dropped, threw, terminated>>

remove_io_interface_mutLate(p) ==
    /\ Removing(p) /\ m_mutex = Free
    /\ reported' = reported \cup {pc[p].h}
    /\ Return(p)
    /\ UNCHANGED <<ioVars, m_io_intfs, m_mutex, dropped, overtaken, threw, terminated>>

remove_io_interface(p) ==
    /\ Removing(p) /\ m_mutex = Free
    /\ m_io_intfs' = Erased(pc[p].h)
    /\ reported' = reported \cup {pc[p].h}
    /\ overtaken' = IF Adding(pc[p].h) THEN overtaken \cup {pc[p].h} ELSE overtaken
    /\ Return(p)
    /\ UNCHANGED <<ioVars, m_mutex, dropped, threw, terminated>>

\* The application removes a handle it finds expired.
app_remove(t, h) ==
    /\ pc[t].at = "idle" /\ life[h] = "expired" /\ m_mutex = Free
    /\ Stored(h)
    /\ m_io_intfs' = Erased(h)
    /\ UNCHANGED <<ioVars, m_mutex, pc, reported, dropped, overtaken, threw, terminated>>

Unsent(b) == /\ b \notin threw
             /\ \A h \in Io : \A k \in DOMAIN posted[h] : posted[h][k] # b
             /\ \A t \in Threads : pc[t].buf # b

send_mutUnlocked(t, b) ==
    /\ pc[t].at = "idle" /\ Unsent(b)
    /\ pc' = [pc EXCEPT ![t] = [at |-> "loop", h |-> None, i |-> 1, buf |-> b]]
    /\ UNCHANGED <<ioVars, m_io_intfs, m_mutex, reported, dropped, overtaken, threw,
                   terminated>>

send(t, b) ==
    /\ pc[t].at = "idle" /\ m_mutex = Free /\ Unsent(b)
    /\ m_mutex' = t
    /\ pc' = [pc EXCEPT ![t] = [at |-> "loop", h |-> None, i |-> 1, buf |-> b]]
    /\ UNCHANGED <<ioVars, m_io_intfs, reported, dropped, overtaken, threw, terminated>>

\* One round of the loop.
send_one(t) ==
    /\ pc[t].at = "loop" /\ pc[t].i <= Len(m_io_intfs)
    /\ io_send(m_io_intfs[pc[t].i], pc[t].buf)
    /\ pc' = [pc EXCEPT ![t].i = @ + 1]
    /\ UNCHANGED <<m_io_intfs, m_mutex, reported, dropped, overtaken, threw, terminated>>

send_throws_mutKeepLock(t) ==
    /\ pc[t].at = "loop" /\ pc[t].i <= Len(m_io_intfs)
    /\ ~is_valid(m_io_intfs[pc[t].i])
    /\ threw' = threw \cup {pc[t].buf}
    /\ pc' = [pc EXCEPT ![t] = Idle]
    /\ UNCHANGED <<ioVars, m_io_intfs, m_mutex, reported, dropped, overtaken, terminated>>

\* io.send throws on an expired handle, and leaves the loop and the lock.
send_throws(t) ==
    /\ pc[t].at = "loop" /\ pc[t].i <= Len(m_io_intfs)
    /\ ~is_valid(m_io_intfs[pc[t].i])
    /\ threw' = threw \cup {pc[t].buf}
    /\ m_mutex' = Free
    /\ pc' = [pc EXCEPT ![t] = Idle]
    /\ UNCHANGED <<ioVars, m_io_intfs, reported, dropped, overtaken, terminated>>

send_returns(t) ==
    /\ pc[t].at = "loop" /\ pc[t].i > Len(m_io_intfs)
    /\ m_mutex' = Free
    /\ pc' = [pc EXCEPT ![t] = Idle]
    /\ UNCHANGED <<ioVars, m_io_intfs, reported, dropped, overtaken, threw, terminated>>

\* noexcept, although get_output_queue_stats throws on an expired handle.
get_total_output_queue_stats(t) ==
    /\ pc[t].at = "idle" /\ m_mutex = Free
    /\ terminated' = (\E k \in DOMAIN m_io_intfs : ~is_valid(m_io_intfs[k]))
    /\ UNCHANGED <<ioVars, m_io_intfs, m_mutex, pc, reported, dropped, overtaken, threw>>

-----------------------------------------------------------------------------

\* start_io, in the callback or later.  A lost connection ends in this thread.
app_start_io(p, h) ==
    /\ pc[p].at = "idle" \/ (pc[p].at = "add" /\ pc[p].h = h)
    /\ \/ (io_start_io(h, "refused") \/ io_start_io(h, "reading")) /\ UNCHANGED pc
       \/ /\ io_start_io(h, "lost")
          /\ pc' = [pc EXCEPT ![p].at = IF @ = "add" THEN "add_remove" ELSE "remove",
                              ![p].h = h]
    /\ UNCHANGED <<m_io_intfs, m_mutex, reported, dropped, overtaken, threw, terminated>>

InCall(p) == \/ p = RunThread /\ add_io_interface
             \/ remove_io_interface(p)
             \/ send_one(p) \/ send_throws(p) \/ send_returns(p)

Step == \/ \E h \in Io : io_begins(h) \/ released(h) \/ drop(h)
        \/ \E p \in Procs, h \in Io : io_ends(p, h)
        \/ \E t \in Threads, b \in Buf : send(t, b)
        \/ \E t \in Threads, h \in Io : app_remove(t, h)
        \/ \E t \in Threads : get_total_output_queue_stats(t)
        \/ \E p \in Procs, h \in Io : app_start_io(p, h)
        \/ \E p \in Procs : InCall(p)

Next == ~terminated /\ Step

Spec == Init /\ [][Next]_vars

\* Threads inside a call go on; one that waits for the mutex gets it in the end.
FairSpec == Spec /\ \A p \in Procs : SF_vars(~terminated /\ InCall(p))

-----------------------------------------------------------------------------
(* Properties.                                                             *)

Before(b, c, s) == \E j, k \in DOMAIN s : j < k /\ s[j] = b /\ s[k] = c

\* Two buffers sent by two threads reach all interfaces in the same order.
SameOrder == \A g, h \in Io : \A b, c \in Buf :
                 ~(Before(b, c, posted[g]) /\ Before(c, b, posted[h]))

\* Types are kept, and all senders agree on the order, since send holds the mutex
\* for the whole loop.
CollectionInv == TypeOK /\ SameOrder

\* A send that returns has reached every interface in the collection: it never
\* passes over one in silence, whatever begins or ends meanwhile.
AllOrThrow ==
    [][\A t \in Threads : send_returns(t) =>
         \A k \in DOMAIN m_io_intfs : Contains(posted[m_io_intfs[k]], pc[t].buf)]_vars

\* A send throws, and the noexcept statistics function terminates the program,
\* only after a connection was dropped without a report, or ended (in another
\* thread, or inside start_io) before its beginning was fully reported.
\* Otherwise no handle in the collection is ever expired.
ThrowsOnlyIfStale == threw # {} \/ terminated => dropped \cup overtaken # {}

\* An interface that is still valid leaves the collection only when its own end
\* is reported, although all expired handles compare equal.
LeavesByItself ==
    [][\A h \in Io : Stored(h) /\ ~Stored(h)' /\ is_valid(h) => h \in reported']_vars

\* A callback that waits for the mutex returns: senders give the mutex back,
\* also when they throw.
CallbackReturns ==
    \A p \in Procs : (pc[p].at \in {"add", "remove", "add_remove"})
                        ~> (pc[p].at = "idle" \/ terminated)

=============================================================================
