---------------------------- MODULE IoInterface ----------------------------
(***************************************************************************)
(* basic_io_interface.hpp: handles on io handlers that do not keep them    *)
(* alive.  Every method locks the weak pointer and forwards to the io      *)
(* handler, or throws net_ip_exception if the handler is gone; here a      *)
(* method is an action guarded by is_valid, and the caller says what an    *)
(* exception does to it.                                                   *)
(***************************************************************************)
EXTENDS Naturals, SequencesExt

CONSTANTS Io,    \* the io handlers
          Buf    \* buffers to send

VARIABLES life,      \* life[h]: "none" (not yet made), "live" or "expired"
          started,   \* handlers on which start_io was called
          posted     \* posted[h]: buffers given to the handler's send, in order

ioVars == <<life, started, posted>>

IoTypeOK ==
    /\ life \in [Io -> {"none", "live", "expired"}]
    /\ started \subseteq Io
    /\ posted \in [Io -> Seq(Buf)]

IoInit ==
    /\ life = [h \in Io |-> "none"]
    /\ started = {}
    /\ posted = [h \in Io |-> << >>]

is_valid(h) == life[h] = "live"

Equal_mutEitherExpired(g, h) ==
    (is_valid(g) /\ is_valid(h) /\ g = h) \/ ~is_valid(g) \/ ~is_valid(h)

\* operator==: all expired handles are equal.
Equal(g, h) == \/ is_valid(g) /\ is_valid(h) /\ g = h
               \/ ~is_valid(g) /\ ~is_valid(h)

io_send(h, buf) ==
    /\ is_valid(h)
    /\ posted' = [posted EXCEPT ![h] = Append(@, buf)]
    /\ UNCHANGED <<life, started>>

\* Any of the start_io overloads: refused (false) if the io handler is started, else
\* it reads, or finds the connection lost: it reports the end to the entity and
\* returns false.
io_start_io(h, result) ==
    /\ is_valid(h)
    /\ result \in IF h \in started THEN {"refused"} ELSE {"reading", "lost"}
    /\ started' = started \cup {h}
    /\ UNCHANGED <<life, posted>>

expire(h) ==
    /\ is_valid(h)
    /\ life' = [life EXCEPT ![h] = "expired"]
    /\ UNCHANGED <<started, posted>>

=============================================================================
