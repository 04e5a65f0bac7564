---------------------------- MODULE TcpHandlers ----------------------------
(***************************************************************************)
(* The tcp_io handlers of an acceptor or a connector, seen from the entity *)
(* that owns them.  TcpIo looks at one of them from the inside.            *)
(***************************************************************************)
EXTENDS NetEntityCommon, Sequences

VARIABLES io,     \* io[h]: "none", "created", "started" or "closed"
          read    \* read[h]: the one outstanding async_read, or "none"

handlerVars == <<io, read>>

HandlersTypeOK ==
    /\ EntityTypeOK
    /\ io \in [Handler -> {"none", "created", "started", "closed"}]
    /\ read \in [Handler -> {"none", "pending", "ready", "failed"}]

HandlersInit ==
    /\ EntityInit
    /\ io = [h \in Handler |-> "none"]
    /\ read = [h \in Handler |-> "none"]

\* std::make_shared<tcp_io> around a connected socket.
make_tcp_io(h) ==
    /\ io[h] = "none"
    /\ io' = [io EXCEPT ![h] = "created"]
    /\ UNCHANGED read

\* tcp_io::close: only for a started handler; an outstanding read is aborted.
close_io(h) ==
    IF io[h] = "started"
      THEN /\ io' = [io EXCEPT ![h] = "closed"]
           /\ read' = [read EXCEPT ![h] = IF @ = "pending" THEN "failed" ELSE @]
      ELSE UNCHANGED handlerVars

\* tcp_io::start_io, on a connection that is up: the first read is posted.
start_io_ok(h) ==
    /\ io[h] = "created"
    /\ io' = [io EXCEPT ![h] = "started"]
    /\ read' = [read EXCEPT ![h] = "pending"]

\* tcp_io::start_io, on a connection already lost: no read, the entity is told.
start_io_lost(h) ==
    /\ io[h] = "created"
    /\ io' = [io EXCEPT ![h] = "started"]
    /\ UNCHANGED read

\* The peer sends something, or goes away.
read_ends(h) ==
    /\ read[h] = "pending"
    /\ \E st \in {"ready", "failed"} : read' = [read EXCEPT ![h] = st]
    /\ UNCHANGED io

\* handle_read with a message the application likes: the next read is started,
\* in vain on a closed socket.
read_again(h) ==
    /\ read[h] = "ready"
    /\ read' = [read EXCEPT ![h] = IF io[h] = "closed" THEN "failed" ELSE "pending"]
    /\ UNCHANGED io

\* handle_read with an error or an unhappy message handler: no further read.
read_over(h) ==
    /\ read[h] \in {"ready", "failed"}
    /\ read' = [read EXCEPT ![h] = "none"]
    /\ UNCHANGED io

=============================================================================
