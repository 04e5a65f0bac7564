------------------------- MODULE UdpEntityIoProofs -------------------------
(***************************************************************************)
(* Proofs about UdpEntityIo, for every set of buffers, of threads and every*)
(* number of starts and of failing operations.                             *)
(***************************************************************************)
EXTENDS UdpEntityIo, FiniteSetTheorems, SequenceLemmas

-----------------------------------------------------------------------------
(* The inductive invariant.                                                *)

\* accepted, from position n + 1 on, is exactly the output queue.
Follows(n) ==
    /\ Len(accepted) = n + Len(m_output_queue)
    /\ \A j \in 1 .. Len(m_output_queue) : accepted[n + j] = m_output_queue[j]

WriteSerialized == Len(writes) <= 1 /\ (writes # << >> => m_write_in_progress)

\* How many of the accepted buffers are no longer, or never were, in the queue.
Before == Len(accepted) - Len(m_output_queue)

\* Nothing in progress: nothing is queued or outstanding, and nothing has failed.
IdleInv == ~m_write_in_progress => /\ m_output_queue = << >>
                                   /\ writes = << >>
                                   /\ ~broken

\* The queue is the end of what was accepted.
SuffixInv == Before \in Nat /\ Follows(Before)

\* A write that can still succeed is the buffer before the queue.
WriteInv ==
    \A i \in DOMAIN writes :
        /\ writes[i].st = "pending" =>
             /\ ~broken
             /\ Before > 0
             /\ accepted[Before] = writes[i].buf
        /\ writes[i].st = "done" => ~broken

QueueInv == WriteSerialized /\ IdleInv /\ SuffixInv /\ WriteInv

\* The stops that have got through the exchange of m_io_started and have not yet
\* reported the close.
Closing == {p \in Procs : pc[p].at \in {"closing", "chg_false"}}

\* Every start_io that set the flag is answered by one close: it has still to
\* come, is being made, or was reported.
CloseInv ==
    /\ IsFiniteSet(Closing)
    /\ Cardinality(Closing) + down[Self] + (IF m_io_started THEN 1 ELSE 0) <= ioStarts
    /\ ioStarts <= up[Self]

\* Until a restart: one thread opens the socket, and io is started once after
\* the open was announced.
Opening(p) == pc[p].at \in {"open", "chg_true"}
InStartIo(p) == pc[p].at = "start_io"

OnceInv ==
    /\ starts = 0 => up[Self] = 0 /\ \A p \in Procs : ~Opening(p)
    /\ starts <= 1 =>
         /\ up[Self] <= 1
         /\ \A p \in Procs : Opening(p) => up[Self] = 0
         /\ \A p, q \in Procs : Opening(p) /\ Opening(q) => p = q
         /\ \A p, q \in Procs : InStartIo(p) /\ InStartIo(q) => p = q
         /\ \A p \in Procs : InStartIo(p) => reads = << >> /\ ioStarts > 0
         /\ ioStarts = 0 => reads = << >>
         /\ Len(reads) <= 1
    /\ ioStarts = 0 => ~m_write_in_progress

\* Until a restart: a write in progress that did not fail is outstanding, and a
\* failure is on its way to stop the entity.
WakeInv == starts <= 1 =>
    /\ m_io_started /\ ~broken /\ m_write_in_progress => writes # << >>
    /\ broken => \/ ~m_started
                 \/ \E i \in DOMAIN writes : writes[i].st = "failed"
                 \/ pc[RunThread].at = "stop"
    /\ \A i \in DOMAIN writes : writes[i].st = "failed" => broken

IInv == TypeOK /\ QueueInv /\ CloseInv /\ OnceInv /\ WakeInv

-----------------------------------------------------------------------------
(* The output queue and the flags keep their types.                        *)

\* Arithmetic on an unsigned word stays in the word.
LEMMA WordType ==
    ASSUME NEW w \in Word, NEW n \in Nat
    PROVE  WordAdd(w, n) \in Word /\ WordSub(w, n) \in Word
  <1>1. \A m \in Nat : m % WordMod \in Word
    BY WordAssumption DEF Word
  <1>2. w + n \in Nat
    BY WordAssumption DEF Word
  <1>3. w + WordMod - (n % WordMod) \in Nat
    <2>1. n % WordMod \in Word
      BY <1>1
    <2> QED
      BY <2>1, WordAssumption DEF Word
  <1> QED
    BY <1>1, <1>2, <1>3 DEF WordAdd, WordSub

\* The output queue keeps its type under push and pop.
LEMMA AddElementType ==
    ASSUME TypeOK, NEW b \in Buf, add_element(b)
    PROVE  m_output_queue' \in Seq(Buf) /\ m_queue_size' \in Word
             /\ m_current_num_bytes' \in Word
  <1>1. Size[b] \in Nat
    BY SizeAssumption
  <1>2. m_output_queue' \in Seq(Buf)
    BY DEF TypeOK, add_element
  <1>3. m_queue_size' \in Word
    BY WordType DEF TypeOK, add_element
  <1>4. m_current_num_bytes' \in Word
    BY <1>1, WordType DEF TypeOK, add_element
  <1> QED
    BY <1>2, <1>3, <1>4

LEMMA OutqGetType ==
    ASSUME TypeOK, NEW elem, outq_get_next_element(elem)
    PROVE  m_output_queue' \in Seq(Buf) /\ m_queue_size' \in Word
             /\ m_current_num_bytes' \in Word
  <1>1. CASE m_output_queue = << >>
    BY <1>1 DEF TypeOK, outq_get_next_element, outqVars
  <1>2. CASE m_output_queue # << >>
    <2>1. Head(m_output_queue) \in Buf /\ Tail(m_output_queue) \in Seq(Buf)
      BY <1>2 DEF TypeOK
    <2>2. Size[Head(m_output_queue)] \in Nat
      BY <2>1, SizeAssumption
    <2> QED
      BY <1>2, <2>1, <2>2, WordType DEF TypeOK, outq_get_next_element
  <1> QED
    BY <1>1, <1>2

\* StartedOp is a state of an operation.
LEMMA StartedOpType == StartedOp \in OpSt
  BY DEF StartedOp, OpSt

\* The io_common part of the two handlers that use it.
LEMMA SetupType ==
    ASSUME TypeOK, NEW b \in Buf, NEW result, start_write_setup(b, result)
    PROVE  /\ m_output_queue' \in Seq(Buf) /\ m_queue_size' \in Word
           /\ m_current_num_bytes' \in Word
           /\ m_io_started' \in BOOLEAN /\ m_write_in_progress' \in BOOLEAN
  <1>1. CASE add_element(b) /\ UNCHANGED <<m_io_started, m_write_in_progress>>
    BY <1>1, AddElementType DEF TypeOK
  <1>2. CASE UNCHANGED <<m_io_started, outqVars>> /\ m_write_in_progress' \in BOOLEAN
    BY <1>2 DEF TypeOK, outqVars
  <1> QED
    BY <1>1, <1>2 DEF TypeOK, start_write_setup

LEMMA GetType ==
    ASSUME TypeOK, NEW elem, get_next_element(elem)
    PROVE  /\ m_output_queue' \in Seq(Buf) /\ m_queue_size' \in Word
           /\ m_current_num_bytes' \in Word
           /\ m_io_started' \in BOOLEAN /\ m_write_in_progress' \in BOOLEAN
  <1>1. CASE outq_get_next_element(elem)
    BY <1>1, OutqGetType DEF TypeOK, get_next_element
  <1>2. CASE UNCHANGED <<m_write_in_progress, outqVars>>
    BY <1>2 DEF TypeOK, outqVars, get_next_element
  <1> QED
    BY <1>1, <1>2 DEF get_next_element

LEMMA EndedType ==
    ASSUME NEW w \in Write
    PROVE  /\ Ended(w, "done") \in Write /\ Ended(w, "failed") \in Write
           /\ Ended(w, "done").st = "done" /\ Ended(w, "failed").st = "failed"
  BY DEF Ended, Write, OpSt

LEMMA StartWriteType ==
    ASSUME TypeOK, NEW b \in Buf, NEW others \in Seq(Write), start_write(b, others)
    PROVE  writes' \in Seq(Write) /\ broken' \in BOOLEAN
  <1>1. Destination(b) \in Dest
    BY DEF TypeOK, Destination, Dest
  <1>2. [buf |-> b, to |-> Destination(b), st |-> StartedOp] \in Write
    BY <1>1, StartedOpType DEF Write
  <1>3. Append(others, [buf |-> b, to |-> Destination(b), st |-> StartedOp]) \in Seq(Write)
    BY <1>2
  <1> QED
    BY <1>3 DEF TypeOK, start_write

LEMMA SelfType == Self \in Handler
  BY SelfAssumption DEF Self

\* Where a step of one thread takes it; the others stay where they are.
Others(p) == \A q \in Procs : q # p => pc'[q] = pc[q]

PcAt == {"idle", "open", "chg_true", "stop", "stop_io", "start_io", "closing", "chg_false"}

LEMMA MoveAt ==
    ASSUME TypeOK, NEW p \in Procs, NEW w \in PcAt, At(p, w)
    PROVE  pc' \in [Procs -> PcSt] /\ Others(p) /\ pc'[p].at = w
  BY DEF At, TypeOK, PcSt, PcAt, Others, Place

-----------------------------------------------------------------------------
(* Type correctness.                                                       *)

LEMMA InitType == Init => TypeOK
  <1> SUFFICES ASSUME Init PROVE TypeOK
    OBVIOUS
  <1>1. m_queue_size \in Word /\ m_current_num_bytes \in Word
    BY WordAssumption DEF Init, IoCommonInit, OutqInit, Word
  <1>2. starts \in 0 .. MaxStarts /\ errors \in 0 .. MaxErrors /\ ioStarts \in Nat
    BY BoundAssumption DEF Init
  <1>3. pc \in [Procs -> PcSt]
    BY DEF Init, PcSt, Place
  <1>4. /\ m_output_queue \in Seq(Buf) /\ posted \in Seq(Buf)
        /\ accepted \in Seq(Buf) /\ wire \in Seq(Buf)
    BY DEF Init, IoCommonInit, OutqInit
  <1>5. writes \in Seq(Write) /\ reads \in Seq(OpSt)
    BY DEF Init
  <1>6. EntityTypeOK
    BY DEF Init, EntityInit, EntityTypeOK
  <1> QED
    BY <1>1, <1>2, <1>3, <1>4, <1>5, <1>6 DEF Init, IoCommonInit, OutqInit, TypeOK

\* start, start_io and send.
LEMMA AppType ==
    ASSUME TypeOK, NEW p \in Procs, AppStep(p)
    PROVE  TypeOK'
  <1> USE DEF ioCommonVars, outqVars, entityVars, chgVars, sockVars, histVars
  <1>1. CASE start(p)
    <2>1. pc' \in [Procs -> PcSt]
      BY <1>1, MoveAt DEF start, PcAt
    <2>2. starts' \in 0 .. MaxStarts
      <3>1. starts \in 0 .. MaxStarts /\ starts < MaxStarts /\ starts' = starts + 1
        BY <1>1 DEF start, TypeOK
      <3> QED
        BY <3>1, BoundAssumption
    <2>3. EntityTypeOK'
      BY <1>1 DEF start, entity_start, TypeOK, EntityTypeOK
    <2> QED
      BY <1>1, <2>1, <2>2, <2>3 DEF start, TypeOK
  <1>2. CASE start_io(p)
    <2>1. pc' \in [Procs -> PcSt] /\ m_io_started' \in BOOLEAN
      <3>1. pc \in [Procs -> PcSt] /\ m_io_started \in BOOLEAN
        BY DEF TypeOK
      <3>2. CASE UNCHANGED <<m_io_started, pc>>
        BY <3>1, <3>2
      <3>3. CASE set_io_started /\ \E r, d \in BOOLEAN :
                   pc' = [pc EXCEPT ![p] = [at |-> "start_io", read |-> r, dest |-> d]]
        BY <3>1, <3>3 DEF set_io_started, PcSt
      <3> QED
        BY <1>2, <3>2, <3>3 DEF start_io
    <2>2. ioStarts' \in Nat
      BY <1>2 DEF start_io, TypeOK
    <2>3. EntityTypeOK'
      BY <1>2 DEF start_io, TypeOK, EntityTypeOK
    <2> QED
      BY <1>2, <2>1, <2>2, <2>3 DEF start_io, TypeOK
  <1>3. CASE app_stop(p)
    <2>1. pc' \in [Procs -> PcSt]
      <3>1. PICK w \in {"stop", "stop_io"} : At(p, w)
        BY <1>3 DEF app_stop
      <3> QED
        BY <3>1, MoveAt DEF PcAt
    <2>2. EntityTypeOK'
      BY <1>3 DEF app_stop, TypeOK, EntityTypeOK
    <2> QED
      BY <1>3, <2>1, <2>2 DEF app_stop, TypeOK
  <1>4. ASSUME NEW b \in Buf, send(p, b) PROVE TypeOK'
    <2>1. posted' \in Seq(Buf) /\ sent' \subseteq Buf
      BY <1>4 DEF send, TypeOK
    <2>2. EntityTypeOK'
      BY <1>4 DEF send, TypeOK, EntityTypeOK
    <2> QED
      BY <1>4, <2>1, <2>2 DEF send, TypeOK
  <1> QED
    BY <1>1, <1>2, <1>3, <1>4 DEF AppStep

\* The rest of a call.
LEMMA CallType ==
    ASSUME TypeOK, NEW p \in Procs, InCall(p)
    PROVE  TypeOK'
  <1> USE DEF ioCommonVars, outqVars, entityVars, chgVars, sockVars, histVars
  <1>1. CASE open_socket(p)
    <2>1. PICK w \in {"chg_true", "stop"} : At(p, w)
      BY <1>1 DEF open_socket
    <2>2. pc' \in [Procs -> PcSt]
      BY <2>1, MoveAt DEF PcAt
    <2>3. m_socket' \in {"open", "closed"}
      BY <1>1 DEF open_socket, TypeOK
    <2>4. EntityTypeOK'
      BY <1>1 DEF open_socket, TypeOK, EntityTypeOK
    <2> QED
      BY <1>1, <2>2, <2>3, <2>4 DEF open_socket, TypeOK
  <1>2. CASE announce(p) \/ announce_closed(p)
    <2>1. At(p, "idle") /\ \E b \in BOOLEAN : call_io_state_chg_cb(Self, b)
      BY <1>2 DEF announce, announce_closed
    <2>2. pc' \in [Procs -> PcSt]
      BY <2>1, MoveAt DEF PcAt
    <2>3. UNCHANGED <<m_io_started, m_write_in_progress, m_output_queue, m_queue_size,
                      m_current_num_bytes, m_started, m_socket, m_default_dest_endp, posted,
                      writes, reads, starts, ioStarts, errors, sent, accepted, wire, broken>>
      BY <1>2 DEF announce, announce_closed
    <2>4. EntityTypeOK'
      <3>1. m_started \in BOOLEAN /\ up \in [Handler -> Nat] /\ down \in [Handler -> Nat]
        BY DEF TypeOK, EntityTypeOK
      <3>2. \/ up' = [up EXCEPT ![Self] = @ + 1] /\ down' = down
            \/ down' = [down EXCEPT ![Self] = @ + 1] /\ up' = up
        BY <2>1 DEF call_io_state_chg_cb
      <3>3. up' \in [Handler -> Nat] /\ down' \in [Handler -> Nat]
        BY <3>1, <3>2, SelfType
      <3> QED
        BY <2>3, <3>1, <3>3 DEF EntityTypeOK
    <2> QED
      BY <2>2, <2>3, <2>4 DEF TypeOK
  <1>3. CASE start_io_body(p)
    <2>1. pc' \in [Procs -> PcSt]
      BY <1>3, MoveAt DEF start_io_body, PcAt
    <2>2. reads' \in Seq(OpSt)
      <3>1. reads \in Seq(OpSt)
        BY DEF TypeOK
      <3>2. Append(reads, StartedOp) \in Seq(OpSt)
        BY <3>1, StartedOpType
      <3> QED
        BY <1>3, <3>1, <3>2 DEF start_io_body, start_read
    <2>3. m_default_dest_endp' \in {"set", "unset"}
      BY <1>3 DEF start_io_body, TypeOK
    <2>4. EntityTypeOK'
      BY <1>3 DEF start_io_body, TypeOK, EntityTypeOK
    <2> QED
      BY <1>3, <2>1, <2>2, <2>3, <2>4 DEF start_io_body, TypeOK
  <1>4. CASE stop(p)
    <2>1. PICK w \in {"stop_io", "idle"} : At(p, w)
      BY <1>4 DEF stop
    <2>2. pc' \in [Procs -> PcSt]
      BY <2>1, MoveAt DEF PcAt
    <2>3. EntityTypeOK'
      BY <1>4 DEF stop, entity_stop, TypeOK, EntityTypeOK
    <2> QED
      BY <1>4, <2>2, <2>3 DEF stop, TypeOK
  <1>5. CASE stop_io(p)
    <2>1. PICK w \in {"closing", "idle"} : At(p, w)
      BY <1>5 DEF stop_io
    <2>2. pc' \in [Procs -> PcSt]
      BY <2>1, MoveAt DEF PcAt
    <2>3. m_io_started' \in BOOLEAN
      BY <1>5 DEF stop_io, io_common_stop, TypeOK
    <2>4. EntityTypeOK'
      BY <1>5 DEF stop_io, TypeOK, EntityTypeOK
    <2> QED
      BY <1>5, <2>2, <2>3, <2>4 DEF stop_io, TypeOK
  <1>6. CASE close_socket(p)
    <2>1. pc' \in [Procs -> PcSt]
      BY <1>6, MoveAt DEF close_socket, PcAt
    <2>2. reads' \in Seq(OpSt)
      <3>1. Len(reads) \in Nat /\ DOMAIN reads = 1 .. Len(reads)
        BY DEF TypeOK
      <3>2. \A i \in 1 .. Len(reads) : reads[i] \in OpSt /\ "failed" \in OpSt
        BY DEF TypeOK, OpSt
      <3>3. reads' \in [1 .. Len(reads) -> OpSt]
        BY <1>6, <3>1, <3>2 DEF close_socket
      <3> QED
        BY <3>1, <3>3, MapSeq
    <2>3. writes' \in Seq(Write)
      <3>1. Len(writes) \in Nat /\ DOMAIN writes = 1 .. Len(writes)
        BY DEF TypeOK
      <3>2. \A i \in 1 .. Len(writes) :
              writes[i] \in Write /\ Ended(writes[i], "failed") \in Write
        BY EndedType DEF TypeOK
      <3>3. writes' \in [1 .. Len(writes) -> Write]
        BY <1>6, <3>1, <3>2 DEF close_socket
      <3> QED
        BY <3>1, <3>3, MapSeq
    <2>4. m_socket' = "closed" /\ broken' \in BOOLEAN
      BY <1>6 DEF TypeOK, close_socket
    <2>5. EntityTypeOK'
      BY <1>6 DEF close_socket, TypeOK, EntityTypeOK
    <2> QED
      BY <1>6, <2>1, <2>2, <2>3, <2>4, <2>5 DEF TypeOK, close_socket
  <1> QED
    BY <1>1, <1>2, <1>3, <1>4, <1>5, <1>6 DEF InCall

\* The handlers of the run thread.
LEMMA RunType ==
    ASSUME TypeOK, run_send \/ HandleWrite \/ HandleRead
    PROVE  TypeOK'
  <1> USE DEF ioCommonVars, outqVars, entityVars, chgVars, sockVars, histVars
  <1>0. RunThread \in Procs
    BY DEF Procs
  <1>1. CASE run_send
    <2>1. Head(posted) \in Buf /\ Tail(posted) \in Seq(Buf)
      BY <1>1 DEF run_send, TypeOK
    <2>2. PICK result \in BOOLEAN :
            /\ start_write_setup(Head(posted), result)
            /\ \/ result /\ start_write(Head(posted), writes)
               \/ ~result /\ UNCHANGED <<writes, broken>>
      BY <1>1 DEF run_send
    <2>3. writes' \in Seq(Write) /\ broken' \in BOOLEAN
      <3>1. CASE start_write(Head(posted), writes)
        <4>1. writes \in Seq(Write)
          BY DEF TypeOK
        <4> QED
          BY <2>1, <3>1, <4>1, StartWriteType
      <3>2. CASE UNCHANGED <<writes, broken>>
        BY <3>2 DEF TypeOK
      <3> QED
        BY <2>2, <3>1, <3>2
    <2>4. accepted' \in Seq(Buf) /\ posted' \in Seq(Buf)
      BY <1>1, <2>1 DEF TypeOK, run_send
    <2>5. EntityTypeOK'
      BY <1>1 DEF run_send, TypeOK, EntityTypeOK
    <2> QED
      BY <1>1, <2>1, <2>2, <2>3, <2>4, <2>5, SetupType DEF TypeOK, run_send
  <1>2. ASSUME NEW i \in DOMAIN writes, handle_write(i) PROVE TypeOK'
    <2>1. RemoveAt(writes, i) \in Seq(Write)
      BY RemoveAtType DEF TypeOK
    <2>2. EntityTypeOK'
      BY <1>2 DEF handle_write, TypeOK, EntityTypeOK
    <2>3. CASE writes' = RemoveAt(writes, i) /\ At(RunThread, "stop")
                 /\ UNCHANGED <<ioCommonVars, broken>>
      <3>1. pc' \in [Procs -> PcSt]
        BY <1>0, <2>3, MoveAt DEF PcAt
      <3> QED
        BY <1>2, <2>1, <2>2, <2>3, <3>1 DEF TypeOK, handle_write
    <2>4. ASSUME NEW elem \in {<< >>} \cup {<<b>> : b \in Buf},
                 get_next_element(elem), UNCHANGED pc,
                 \/ elem = << >> /\ writes' = RemoveAt(writes, i) /\ UNCHANGED broken
                 \/ elem # << >> /\ start_write(elem[1], RemoveAt(writes, i))
          PROVE  TypeOK'
      <3>1. writes' \in Seq(Write) /\ broken' \in BOOLEAN
        <4>1. CASE elem = << >>
          BY <2>1, <2>4, <4>1 DEF TypeOK
        <4>2. CASE elem # << >>
          <5>1. elem[1] \in Buf
            BY <4>2
          <5> QED
            BY <2>1, <2>4, <4>2, <5>1, StartWriteType
        <4> QED
          BY <4>1, <4>2
      <3> QED
        BY <1>2, <2>2, <2>4, <3>1, GetType DEF TypeOK, handle_write
    <2> QED
      BY <1>2, <2>3, <2>4 DEF handle_write
  <1>3. ASSUME NEW i \in DOMAIN reads, handle_read(i) PROVE TypeOK'
    <2>1. RemoveAt(reads, i) \in Seq(OpSt)
      BY RemoveAtType DEF TypeOK
    <2>2. reads' \in Seq(OpSt)
      <3>1. Append(RemoveAt(reads, i), StartedOp) \in Seq(OpSt)
        BY <2>1, StartedOpType
      <3> QED
        BY <1>3, <2>1, <3>1 DEF handle_read, start_read
    <2>3. pc' \in [Procs -> PcSt]
      <3>1. CASE At(RunThread, "stop")
        BY <1>0, <3>1, MoveAt DEF PcAt
      <3>2. CASE UNCHANGED pc
        BY <3>2 DEF TypeOK
      <3> QED
        BY <1>3, <3>1, <3>2 DEF handle_read
    <2>4. EntityTypeOK'
      BY <1>3 DEF handle_read, TypeOK, EntityTypeOK
    <2> QED
      BY <1>3, <2>2, <2>3, <2>4 DEF TypeOK, handle_read
  <1> QED
    BY <1>1, <1>2, <1>3 DEF HandleWrite, HandleRead

\* The kernel ends an operation.
LEMMA KernelType ==
    ASSUME TypeOK,
           \/ \E i \in DOMAIN writes : write_completes(i) \/ write_fails(i)
           \/ \E i \in DOMAIN reads : read_ends(i)
    PROVE  TypeOK'
  <1> USE DEF ioCommonVars, outqVars, entityVars, chgVars, sockVars, histVars
  <1>1. ASSUME NEW i \in DOMAIN writes, write_completes(i) PROVE TypeOK'
    <2>1. writes[i] \in Write /\ writes \in Seq(Write)
      BY <1>1 DEF TypeOK
    <2>2. writes' \in Seq(Write)
      BY <1>1, <2>1, EndedType, ExceptSeq DEF write_completes
    <2>3. writes[i].buf \in Buf
      BY <2>1 DEF Write
    <2>4. wire' \in Seq(Buf)
      BY <1>1, <2>3 DEF TypeOK, write_completes
    <2>5. EntityTypeOK'
      BY <1>1 DEF write_completes, TypeOK, EntityTypeOK
    <2> QED
      BY <1>1, <2>2, <2>4, <2>5 DEF TypeOK, write_completes
  <1>2. ASSUME NEW i \in DOMAIN writes, write_fails(i) PROVE TypeOK'
    <2>1. writes[i] \in Write /\ writes \in Seq(Write)
      BY <1>2 DEF TypeOK
    <2>2. writes' \in Seq(Write)
      BY <1>2, <2>1, EndedType, ExceptSeq DEF write_fails
    <2>3. errors' \in 0 .. MaxErrors
      <3>1. errors \in 0 .. MaxErrors
        BY DEF TypeOK
      <3>2. errors' = errors \/ (errors < MaxErrors /\ errors' = errors + 1)
        BY <1>2 DEF write_fails
      <3> QED
        BY <3>1, <3>2, BoundAssumption
    <2>4. EntityTypeOK'
      BY <1>2 DEF write_fails, TypeOK, EntityTypeOK
    <2> QED
      BY <1>2, <2>2, <2>3, <2>4 DEF TypeOK, write_fails
  <1>3. ASSUME NEW i \in DOMAIN reads, read_ends(i) PROVE TypeOK'
    <2>0. "done" \in OpSt /\ "failed" \in OpSt
      BY DEF OpSt
    <2>1. reads' \in Seq(OpSt)
      <3>1. /\ [reads EXCEPT ![i] = "done"] \in Seq(OpSt)
            /\ [reads EXCEPT ![i] = "failed"] \in Seq(OpSt)
        BY <1>3, <2>0 DEF TypeOK
      <3> QED
        BY <1>3, <3>1 DEF read_ends
    <2>2. errors' \in 0 .. MaxErrors
      <3>1. errors \in 0 .. MaxErrors
        BY DEF TypeOK
      <3>2. errors' = errors \/ (errors < MaxErrors /\ errors' = errors + 1)
        BY <1>3 DEF read_ends
      <3> QED
        BY <3>1, <3>2, BoundAssumption
    <2>3. EntityTypeOK'
      BY <1>3 DEF read_ends, TypeOK, EntityTypeOK
    <2> QED
      BY <1>3, <2>1, <2>2, <2>3 DEF TypeOK, read_ends
  <1> QED
    BY <1>1, <1>2, <1>3

\* Every reachable state is well typed.
THEOREM TypeCorrect == Spec => []TypeOK
  <1>1. ASSUME TypeOK, [Next]_vars PROVE TypeOK'
    <2>1. CASE \E t \in Threads : AppStep(t)
      BY <1>1, <2>1, AppType DEF Procs
    <2>2. CASE \E p \in Procs : InCall(p)
      BY <1>1, <2>2, CallType
    <2>3. CASE run_send \/ HandleWrite \/ HandleRead
      BY <1>1, <2>3, RunType
    <2>4. CASE \/ \E i \in DOMAIN writes : write_completes(i) \/ write_fails(i)
               \/ \E i \in DOMAIN reads : read_ends(i)
      BY <1>1, <2>4, KernelType
    <2>5. CASE UNCHANGED vars
      BY <1>1, <2>5 DEF TypeOK, EntityTypeOK, vars, ioCommonVars, outqVars, entityVars,
         chgVars, sockVars, histVars
    <2> QED
      BY <1>1, <2>1, <2>2, <2>3, <2>4, <2>5 DEF Next
  <1> QED
    BY <1>1, InitType, PTL DEF Spec

-----------------------------------------------------------------------------
(* The write side: the flag, the outstanding write and the queue account   *)
(* for every buffer accepted, over any number of restarts.                 *)

queueVars == <<m_write_in_progress, m_output_queue, writes, histVars>>

LEMMA InitQueue == Init => QueueInv
  <1> SUFFICES ASSUME Init PROVE QueueInv
    OBVIOUS
  <1>1. accepted = << >> /\ m_output_queue = << >> /\ writes = << >> /\ ~broken
    BY DEF Init, IoCommonInit, OutqInit
  <1>2. Before = 0 /\ Follows(0)
    BY <1>1 DEF Before, Follows
  <1> QED
    BY <1>1, <1>2 DEF QueueInv, WriteSerialized, IdleInv, SuffixInv, WriteInv

LEMMA QueueFrame ==
    ASSUME QueueInv, UNCHANGED <<m_write_in_progress, m_output_queue, writes, accepted>>,
           broken' => broken
    PROVE  QueueInv'
  BY DEF QueueInv, WriteSerialized, IdleInv, SuffixInv, WriteInv, Follows, Before

\* A sequence of length at most one has at most the index 1.
LEMMA OnlyIndex ==
    ASSUME TypeOK, WriteSerialized, NEW i \in DOMAIN writes
    PROVE  i = 1 /\ DOMAIN writes = {1} /\ writes[1] \in Write
  <1>1. i = 1 /\ Len(writes) < 2 /\ Len(writes) >= 1 /\ DOMAIN writes = 1 .. Len(writes)
    BY DEF TypeOK, WriteSerialized
  <1> QED
    BY <1>1 DEF TypeOK

\* A write started with no other outstanding is the only one.
LEMMA StartOnlyWrite ==
    ASSUME TypeOK, NEW b \in Buf, start_write(b, << >>)
    PROVE  /\ writes' \in Seq(Write) /\ Len(writes') <= 1
           /\ DOMAIN writes' = {1}
           /\ writes'[1].buf = b
           /\ writes'[1].st = StartedOp
           /\ StartedOp = "pending" => broken' = broken
           /\ StartedOp = "failed" => broken'
           /\ broken' /\ ~broken => StartedOp = "failed"
           /\ StartedOp # "done"
  <1> DEFINE w == [buf |-> b, to |-> Destination(b), st |-> StartedOp]
  <1>1. writes' = <<w>>
    BY DEF start_write
  <1>2. w \in Write /\ w.buf = b /\ w.st = StartedOp
    BY StartedOpType DEF Write, Dest, Destination, TypeOK
  <1> HIDE DEF w
  <1>3. /\ writes' \in Seq(Write) /\ Len(writes') <= 1
        /\ DOMAIN writes' = {1} /\ writes'[1] = w
    BY <1>1, <1>2
  <1>4. StartedOp = "pending" => m_socket # "closed"
    BY DEF StartedOp
  <1>5. StartedOp = "pending" => broken' = broken
    BY <1>4 DEF TypeOK, start_write
  <1>6. (StartedOp = "failed" => broken') /\ (broken' /\ ~broken => StartedOp = "failed")
    BY DEF StartedOp, start_write, TypeOK
  <1> QED
    BY <1>2, <1>3, <1>5, <1>6 DEF StartedOp

\* What a send that is accepted adds to the queue, or starts at once.
LEMMA QueuedBehind ==
    ASSUME TypeOK, SuffixInv, NEW b \in Buf,
           accepted' = Append(accepted, b), m_output_queue' = Append(m_output_queue, b)
    PROVE  SuffixInv' /\ Before' = Before /\ Before \in Nat
           /\ \A j \in 1 .. Before : accepted'[j] = accepted[j]
  <1>1. /\ accepted \in Seq(Buf) /\ m_output_queue \in Seq(Buf)
        /\ Before \in Nat
        /\ Len(accepted) = Before + Len(m_output_queue)
        /\ \A j \in 1 .. Len(m_output_queue) : accepted[Before + j] = m_output_queue[j]
    BY DEF TypeOK, SuffixInv, Follows
  <1>2. Len(accepted') = Len(accepted) + 1 /\ Len(m_output_queue') = Len(m_output_queue) + 1
        /\ Len(accepted) \in Nat /\ Len(m_output_queue) \in Nat
    BY <1>1
  <1>3. Before' = Before
    BY <1>2 DEF Before
  <1>4. /\ Len(accepted') = Before + Len(m_output_queue')
        /\ \A j \in 1 .. Len(m_output_queue') : accepted'[Before + j] = m_output_queue'[j]
    BY <1>1, AppendBoth
  <1>5. SuffixInv'
    BY <1>1, <1>3, <1>4 DEF SuffixInv, Follows
  <1>6. \A j \in 1 .. Len(accepted) : accepted'[j] = accepted[j]
    BY <1>1
  <1>7. \A j \in 1 .. Before : j \in 1 .. Len(accepted)
    BY <1>1, <1>2
  <1> QED
    BY <1>1, <1>3, <1>5, <1>6, <1>7

LEMMA SentAtOnce ==
    ASSUME TypeOK, NEW b \in Buf,
           accepted' = Append(accepted, b), m_output_queue' = << >>
    PROVE  SuffixInv' /\ Before' = Len(accepted) + 1 /\ Before' > 0 /\ accepted'[Before'] = b
  <1>1. accepted \in Seq(Buf) /\ Len(accepted) \in Nat
    BY DEF TypeOK
  <1>2. Len(accepted') = Len(accepted) + 1 /\ accepted'[Len(accepted) + 1] = b
        /\ Len(m_output_queue') = 0
    BY <1>1
  <1>3. Before' = Len(accepted) + 1
    BY <1>1, <1>2 DEF Before
  <1> QED
    BY <1>1, <1>2, <1>3 DEF SuffixInv, Follows

\* The next buffer of the queue leaves it.
LEMMA TakenNext ==
    ASSUME TypeOK, SuffixInv, m_output_queue # << >>, accepted' = accepted,
           m_output_queue' = Tail(m_output_queue)
    PROVE  /\ SuffixInv' /\ Before \in Nat /\ Before' = Before + 1 /\ Before' <= Len(accepted)
           /\ accepted'[Before'] = Head(m_output_queue)
  <1> DEFINE q == m_output_queue
  <1>1. /\ q \in Seq(Buf) /\ Len(q) >= 1 /\ Len(q) \in Nat /\ Head(q) = q[1]
        /\ Before \in Nat
        /\ Len(accepted) = Before + Len(q)
        /\ \A j \in 1 .. Len(q) : accepted[Before + j] = q[j]
    BY DEF TypeOK, SuffixInv, Follows
  <1>2. Len(q') = Len(q) - 1 /\ \A j \in 1 .. Len(q) - 1 : q'[j] = q[j + 1]
    BY <1>1
  <1> HIDE DEF q
  <1>3. Before' = Before + 1 /\ Before' <= Len(accepted)
    BY <1>1, <1>2 DEF Before, q
  <1>4. accepted'[Before'] = Head(q)
    BY <1>1, <1>3
  <1>5. Len(accepted') = Before' + Len(q')
    BY <1>1, <1>2, <1>3
  <1>6. ASSUME NEW j \in 1 .. Len(q') PROVE accepted'[Before' + j] = q'[j]
    <2>1. j + 1 \in 1 .. Len(q) /\ Before' + j = Before + (j + 1) /\ j \in 1 .. Len(q) - 1
      BY <1>1, <1>2, <1>3
    <2> QED
      BY <1>1, <1>2, <2>1
  <1>7. SuffixInv'
    BY <1>1, <1>3, <1>5, <1>6 DEF SuffixInv, Follows, q
  <1> QED
    BY <1>1, <1>3, <1>4, <1>7 DEF q

\* The handler posted by send: refused, queued behind a write, or written.
LEMMA RunSendQueue ==
    ASSUME TypeOK, QueueInv, run_send
    PROVE  QueueInv'
  <1> DEFINE b == Head(posted)
  <1>1. b \in Buf
    BY DEF TypeOK, run_send
  <1>3. CASE ~m_io_started
    <2>1. UNCHANGED queueVars
      BY <1>3 DEF run_send, start_write_setup, outqVars, queueVars, histVars
    <2> QED
      BY <2>1, QueueFrame DEF queueVars, histVars
  <1>4. CASE m_io_started /\ m_write_in_progress
    <2>1. /\ accepted' = Append(accepted, b)
          /\ m_output_queue' = Append(m_output_queue, b)
          /\ UNCHANGED <<m_write_in_progress, writes, broken>>
      BY <1>4 DEF run_send, start_write_setup, add_element
    <2>2. /\ SuffixInv' /\ Before' = Before /\ Before \in Nat
          /\ \A j \in 1 .. Before : accepted'[j] = accepted[j]
      BY <1>1, <2>1, QueuedBehind DEF QueueInv
    <2>5. Before > 0 => accepted'[Before] = accepted[Before]
      BY <2>2
    <2>3. WriteInv'
      BY <2>1, <2>2, <2>5 DEF QueueInv, WriteInv
    <2>4. m_write_in_progress' /\ WriteSerialized'
      BY <1>4, <2>1 DEF QueueInv, WriteSerialized
    <2> QED
      BY <2>2, <2>3, <2>4 DEF QueueInv, IdleInv
  <1>5. CASE m_io_started /\ ~m_write_in_progress
    <2>1. m_output_queue = << >> /\ writes = << >> /\ ~broken
      BY <1>5 DEF QueueInv, IdleInv
    <2>2. /\ accepted' = Append(accepted, b)
          /\ m_write_in_progress' = TRUE
          /\ m_output_queue' = << >>
          /\ start_write(b, << >>)
      BY <1>5, <2>1 DEF run_send, start_write_setup, outqVars
    <2>3. SuffixInv' /\ Before' > 0 /\ accepted'[Before'] = b
      BY <1>1, <2>2, SentAtOnce
    <2>4. /\ Len(writes') <= 1 /\ DOMAIN writes' = {1}
          /\ writes'[1].buf = b /\ writes'[1].st # "done"
          /\ writes'[1].st = "pending" => ~broken'
      BY <1>1, <2>1, <2>2, StartOnlyWrite
    <2>5. WriteInv'
      BY <2>3, <2>4 DEF WriteInv
    <2> QED
      BY <2>2, <2>3, <2>4, <2>5 DEF QueueInv, IdleInv, WriteSerialized
  <1> QED
    BY <1>3, <1>4, <1>5

\* What handle_write does to the queue and to the outstanding write.
LEMMA HandleWriteCases ==
    ASSUME TypeOK, QueueInv, NEW i \in DOMAIN writes, handle_write(i)
    PROVE  /\ i = 1 /\ DOMAIN writes = {1} /\ writes[1].st \in {"done", "failed"}
           /\ m_write_in_progress /\ accepted' = accepted
           /\ \/ /\ writes' = << >> /\ UNCHANGED <<m_output_queue, broken>>
                 /\ m_write_in_progress'
                      \/ (m_output_queue = << >> /\ writes[1].st = "done")
              \/ /\ m_output_queue # << >> /\ Head(m_output_queue) \in Buf
                 /\ m_output_queue' = Tail(m_output_queue)
                 /\ m_write_in_progress' /\ writes[1].st = "done"
                 /\ start_write(Head(m_output_queue), << >>)
  <1>1. i = 1 /\ DOMAIN writes = {1} /\ writes[1] \in Write
    BY OnlyIndex DEF QueueInv
  <1>2. RemoveAt(writes, i) = << >>
    BY RemoveOnly DEF TypeOK, QueueInv, WriteSerialized
  <1>3. m_write_in_progress /\ accepted' = accepted
    BY DEF QueueInv, WriteSerialized, TypeOK, handle_write
  <1>4. writes[1].st \in {"done", "failed"}
    BY <1>1 DEF handle_write
  <1>7. CASE writes[i].st = "failed"
    <2>1. writes' = << >> /\ UNCHANGED <<m_write_in_progress, m_output_queue, broken>>
      BY <1>2, <1>7 DEF handle_write, ioCommonVars, outqVars
    <2> QED
      BY <1>1, <1>3, <1>4, <2>1
  <1>8. CASE writes[i].st = "done"
    <2>2. PICK elem \in {<< >>} \cup {<<b>> : b \in Buf} :
            /\ get_next_element(elem)
            /\ \/ elem = << >> /\ writes' = << >> /\ UNCHANGED broken
               \/ elem # << >> /\ start_write(elem[1], << >>)
      BY <1>2, <1>8 DEF handle_write
    <2>3. CASE ~m_io_started
      <3>1. elem = << >> /\ UNCHANGED <<m_write_in_progress, m_output_queue>>
        BY <2>2, <2>3 DEF get_next_element, outqVars
      <3> QED
        BY <1>1, <1>3, <1>4, <2>2, <3>1
    <2>4. CASE m_io_started /\ m_output_queue = << >>
      <3>1. elem = << >> /\ UNCHANGED m_output_queue
        BY <2>2, <2>4 DEF get_next_element, outq_get_next_element, outqVars
      <3> QED
        BY <1>1, <1>3, <1>4, <1>8, <2>2, <2>4, <3>1
    <2>5. CASE m_io_started /\ m_output_queue # << >>
      <3> DEFINE q == m_output_queue
                 b == Head(m_output_queue)
      <3>1. q \in Seq(Buf) /\ b \in Buf
        BY <2>5 DEF TypeOK
      <3>2. elem = <<b>> /\ q' = Tail(q)
        BY <2>2, <2>5 DEF get_next_element, outq_get_next_element
      <3>3. elem # << >> /\ elem[1] = b
        BY <3>2
      <3>4. m_write_in_progress'
        BY <2>2, <2>5, <3>3 DEF get_next_element
      <3> QED
        BY <1>1, <1>3, <1>4, <1>8, <2>2, <2>5, <3>1, <3>2, <3>3, <3>4
    <2> QED
      BY <2>3, <2>4, <2>5
  <1> QED
    BY <1>7, <1>8 DEF handle_write

\* handle_write: swallow an error, or go on with the next queued buffer.
LEMMA HandleWriteQueue ==
    ASSUME TypeOK, QueueInv, NEW i \in DOMAIN writes, handle_write(i)
    PROVE  QueueInv'
  <1>1. /\ DOMAIN writes = {1} /\ accepted' = accepted
        /\ writes[1].st = "done" => ~broken
    BY HandleWriteCases DEF QueueInv, WriteInv
  <1>2. CASE /\ writes' = << >> /\ UNCHANGED <<m_output_queue, broken>>
             /\ m_write_in_progress' \/ (m_output_queue = << >> /\ writes[1].st = "done")
    <2>1. SuffixInv'
      BY <1>1, <1>2 DEF QueueInv, SuffixInv, Follows, Before
    <2>2. IdleInv'
      BY <1>1, <1>2 DEF IdleInv
    <2> QED
      BY <1>2, <2>1, <2>2 DEF QueueInv, WriteSerialized, WriteInv
  <1>3. CASE /\ m_output_queue # << >> /\ Head(m_output_queue) \in Buf
             /\ m_output_queue' = Tail(m_output_queue)
             /\ m_write_in_progress' /\ writes[1].st = "done"
             /\ start_write(Head(m_output_queue), << >>)
    <2>1. /\ SuffixInv' /\ Before \in Nat /\ Before' = Before + 1
          /\ accepted'[Before'] = Head(m_output_queue)
      BY <1>1, <1>3, TakenNext DEF QueueInv
    <2>2. Before' > 0
      BY <2>1
    <2>3. /\ Len(writes') <= 1 /\ DOMAIN writes' = {1}
          /\ writes'[1].buf = Head(m_output_queue) /\ writes'[1].st # "done"
          /\ writes'[1].st = "pending" => ~broken'
      BY <1>1, <1>3, StartOnlyWrite
    <2>4. WriteInv'
      BY <2>1, <2>2, <2>3 DEF WriteInv
    <2> QED
      BY <1>3, <2>1, <2>3, <2>4 DEF QueueInv, IdleInv, WriteSerialized
  <1> QED
    BY <1>2, <1>3, HandleWriteCases

\* Closing the socket fails what is pending and touches no buffer.
LEMMA CloseSocketQueue ==
    ASSUME TypeOK, QueueInv, NEW p \in Procs, close_socket(p)
    PROVE  QueueInv'
  <1>1. UNCHANGED <<m_write_in_progress, m_output_queue, accepted>>
    BY DEF close_socket, ioCommonVars, outqVars
  <1>2. DOMAIN writes' = DOMAIN writes /\ Len(writes') = Len(writes)
    BY DEF close_socket, TypeOK
  <1>3. ASSUME NEW i \in DOMAIN writes, writes'[i].st # "failed"
        PROVE  writes'[i] = writes[i] /\ writes[i].st = "done" /\ DOMAIN writes = {1} /\ i = 1
    <2>1. i = 1 /\ DOMAIN writes = {1} /\ writes[1] \in Write
      BY <1>3, OnlyIndex DEF QueueInv
    <2>2. writes[i].st # "pending" /\ writes'[i] = writes[i]
      BY <1>3 DEF close_socket, Ended
    <2> QED
      BY <1>3, <2>1, <2>2 DEF Write, OpSt
  <1>4. ASSUME NEW i \in DOMAIN writes, writes[i].st = "done", DOMAIN writes = {1}, i = 1
        PROVE  broken' = broken
    BY <1>4 DEF close_socket, TypeOK
  <1>5. WriteInv'
    BY <1>2, <1>3, <1>4 DEF QueueInv, WriteInv
  <1>6. SuffixInv'
    BY <1>1 DEF QueueInv, SuffixInv, Follows, Before
  <1>7. writes = << >> => writes' = << >> /\ broken' = broken
    BY DEF close_socket, TypeOK
  <1>8. writes' # << >> => writes # << >>
    BY <1>7
  <1> QED
    BY <1>1, <1>2, <1>5, <1>6, <1>7, <1>8
    DEF QueueInv, WriteSerialized, IdleInv

\* The outstanding write ends: the kernel has taken the datagram, or an error.
LEMMA WriteEnds ==
    ASSUME TypeOK, QueueInv, NEW i \in DOMAIN writes, write_completes(i) \/ write_fails(i)
    PROVE  /\ i = 1 /\ DOMAIN writes = {1} /\ writes[1] \in Write /\ writes[1].st = "pending"
           /\ writes' \in Seq(Write) /\ DOMAIN writes' = {1} /\ Len(writes') = Len(writes)
           /\ writes'[1].st = IF write_completes(i) THEN "done" ELSE "failed"
           /\ UNCHANGED <<m_write_in_progress, m_output_queue, accepted>>
           /\ m_write_in_progress
           /\ write_completes(i) => broken' = broken
  <1>1. i = 1 /\ DOMAIN writes = {1} /\ writes[1] \in Write /\ writes \in Seq(Write)
    BY OnlyIndex DEF QueueInv, TypeOK
  <1>2. /\ writes[1].st = "pending" /\ m_write_in_progress
        /\ UNCHANGED <<m_write_in_progress, m_output_queue, accepted>>
        /\ write_completes(i) => broken' = broken
    BY <1>1 DEF write_completes, write_fails, ioCommonVars, outqVars, QueueInv, WriteSerialized
  <1> DEFINE st == IF write_completes(i) THEN "done" ELSE "failed"
  <1>3. writes' = [writes EXCEPT ![1] = Ended(writes[1], st)]
    BY <1>1 DEF write_completes, write_fails
  <1>4. Ended(writes[1], st) \in Write /\ Ended(writes[1], st).st = st
    BY <1>1, EndedType
  <1> HIDE DEF st
  <1>5. DOMAIN writes' = {1} /\ Len(writes') = Len(writes)
        /\ writes'[1] = Ended(writes[1], st) /\ writes' \in Seq(Write)
    BY <1>1, <1>3, <1>4, ReplaceOnly, ExceptSeq
  <1> QED
    BY <1>1, <1>2, <1>4, <1>5 DEF st

LEMMA WriteEndsQueue ==
    ASSUME TypeOK, QueueInv, NEW i \in DOMAIN writes, write_completes(i) \/ write_fails(i)
    PROVE  QueueInv'
  <1>1. /\ DOMAIN writes = {1} /\ writes[1].st = "pending"
        /\ DOMAIN writes' = {1} /\ Len(writes') = Len(writes)
        /\ writes'[1].st = IF write_completes(i) THEN "done" ELSE "failed"
        /\ UNCHANGED <<m_write_in_progress, m_output_queue, accepted>>
        /\ m_write_in_progress
        /\ write_completes(i) => broken' = broken
    BY WriteEnds
  <1>2. ~broken
    BY <1>1 DEF QueueInv, WriteInv
  <1>3. WriteInv'
    BY <1>1, <1>2 DEF WriteInv
  <1>4. SuffixInv'
    BY <1>1 DEF QueueInv, SuffixInv, Follows, Before
  <1> QED
    BY <1>1, <1>3, <1>4 DEF QueueInv, WriteSerialized, IdleInv

\* Everything else leaves the write side alone.
OtherStep ==
    \/ \E p \in Procs : \/ start_io(p) \/ app_stop(p) \/ \E b \in Buf : send(p, b)
                        \/ open_socket(p) \/ announce(p) \/ start_io_body(p) \/ stop(p)
                        \/ stop_io(p) \/ announce_closed(p)
    \/ HandleRead
    \/ \E i \in DOMAIN reads : read_ends(i)
    \/ UNCHANGED vars

LEMMA OtherQueue ==
    ASSUME OtherStep
    PROVE  UNCHANGED <<queueVars, starts>>
  BY DEF OtherStep, start_io, app_stop, send, open_socket, announce,
         start_io_body, stop, stop_io, announce_closed, HandleRead, handle_read, read_ends,
         vars, histVars, ioCommonVars, outqVars, queueVars

\* start begins the channel's next session.
LEMMA StartQueue ==
    ASSUME NEW p, start(p)
    PROVE  /\ UNCHANGED <<m_write_in_progress, m_output_queue, writes, accepted, wire>>
           /\ ~broken' /\ starts' = starts + 1
  BY DEF start, ioCommonVars, outqVars

\* The six steps that do not.
LEMMA StepCases ==
    ASSUME [Next]_vars
    PROVE  \/ OtherStep
           \/ \E p \in Procs : start(p)
           \/ \E p \in Procs : close_socket(p)
           \/ run_send
           \/ \E i \in DOMAIN writes : handle_write(i)
           \/ \E i \in DOMAIN writes : write_completes(i) \/ write_fails(i)
  BY DEF Next, AppStep, InCall, HandleWrite, OtherStep, Procs

LEMMA QueueStep ==
    ASSUME TypeOK, QueueInv, [Next]_vars
    PROVE  QueueInv'
  <1>1. CASE OtherStep
    BY <1>1, OtherQueue, QueueFrame DEF queueVars, histVars
  <1>2. CASE \E p \in Procs : close_socket(p)
    BY <1>2, CloseSocketQueue
  <1>3. CASE run_send
    BY <1>3, RunSendQueue
  <1>4. CASE \E i \in DOMAIN writes : handle_write(i)
    BY <1>4, HandleWriteQueue
  <1>5. CASE \E i \in DOMAIN writes : write_completes(i) \/ write_fails(i)
    BY <1>5, WriteEndsQueue
  <1>6. CASE \E p \in Procs : start(p)
    BY <1>6, StartQueue, QueueFrame
  <1> QED
    BY <1>1, <1>2, <1>3, <1>4, <1>5, <1>6, StepCases

\* The flag, the outstanding write and the queue account for every buffer that
\* was accepted and not yet sent or lost, restarts included.
THEOREM QueueCorrect == Spec => []QueueInv
  BY InitQueue, QueueStep, TypeCorrect, PTL DEF Spec

-----------------------------------------------------------------------------
(* The refinement.                                                         *)

IsPending(ws) == \E i \in DOMAIN ws : ws[i].st = "pending"

\* At most one write is outstanding, so at most one can still succeed.
LEMMA PendingCount ==
    ASSUME NEW ws \in Seq(Write), Len(ws) <= 1
    PROVE  Cardinality({i \in DOMAIN ws : ws[i].st = "pending"}) = IF IsPending(ws) THEN 1 ELSE 0
  <1>1. DOMAIN ws \subseteq {1}
    OBVIOUS
  <1>2. CASE IsPending(ws)
    <2>1. {i \in DOMAIN ws : ws[i].st = "pending"} = {1}
      BY <1>1, <1>2 DEF IsPending
    <2> QED
      BY <1>2, <2>1, FS_Singleton
  <1>3. CASE ~IsPending(ws)
    <2>1. {i \in DOMAIN ws : ws[i].st = "pending"} = {}
      BY <1>3 DEF IsPending
    <2> QED
      BY <1>3, <2>1, FS_EmptySet
  <1> QED
    BY <1>2, <1>3

LEMMA PassedIs ==
    ASSUME TypeOK, QueueInv
    PROVE  /\ Passed = Before - (IF IsPending(writes) THEN 1 ELSE 0)
           /\ Before \in Nat /\ Before <= Len(accepted) /\ Len(accepted) \in Nat
           /\ Passed \in 0 .. Len(accepted)
  <1>1. /\ Before \in Nat /\ Len(accepted) \in Nat /\ Len(m_output_queue) \in Nat
        /\ Len(accepted) = Before + Len(m_output_queue)
    BY DEF TypeOK, QueueInv, SuffixInv, Follows
  <1>2. Passed = Before - (IF IsPending(writes) THEN 1 ELSE 0)
    BY PendingCount DEF TypeOK, QueueInv, WriteSerialized, Passed, Before
  <1>3. IsPending(writes) => Before > 0
    BY DEF QueueInv, WriteInv, IsPending
  <1> QED
    BY <1>1, <1>2, <1>3

LEMMA PassedNext ==
    ASSUME writes' \in Seq(Write), Len(writes') <= 1
    PROVE  Passed' = Before' - (IF IsPending(writes') THEN 1 ELSE 0)
  BY PendingCount DEF Passed, Before

\* A step that delivers nothing: nothing changes, or the channel breaks.
LEMMA BreakOrStutter ==
    ASSUME UNCHANGED <<accepted, wire, starts>>,
           \/ Passed' = Passed /\ broken' = broken
           \/ broken' = TRUE /\ Passed' \in Passed .. Len(accepted')
    PROVE  [Channel!Next]_(Channel!chanVars)
  BY DEF Channel!Next, Channel!Break, Channel!Lose, Channel!chanVars

LEMMA CompletesDelivers ==
    ASSUME TypeOK, QueueInv, NEW i \in DOMAIN writes, write_completes(i)
    PROVE  Channel!Deliver
  <1>1. /\ i = 1 /\ DOMAIN writes = {1} /\ writes[1].st = "pending"
        /\ writes' \in Seq(Write) /\ DOMAIN writes' = {1} /\ Len(writes') = Len(writes)
        /\ writes'[1].st = "done" /\ UNCHANGED <<m_output_queue, accepted>>
    BY WriteEnds
  <1>2. ~broken /\ Before > 0 /\ accepted[Before] = writes[i].buf
    BY <1>1 DEF QueueInv, WriteInv
  <1>3. IsPending(writes) /\ ~IsPending(writes')
    BY <1>1 DEF IsPending
  <1>4. /\ Passed = Before - 1 /\ Before \in Nat /\ Before <= Len(accepted)
        /\ Len(accepted) \in Nat
    BY <1>3, PassedIs
  <1>5. Passed' = Before' /\ Before' = Before
    <2>1. Before' = Before
      BY <1>1 DEF Before
    <2>2. Passed' = Before' - 0
      BY <1>1, <1>3, PassedNext DEF QueueInv, WriteSerialized
    <2> QED
      BY <1>4, <2>1, <2>2
  <1>6. Passed < Len(accepted) /\ Passed + 1 = Before /\ Passed' = Passed + 1
    BY <1>2, <1>4, <1>5
  <1> QED
    BY <1>2, <1>6 DEF write_completes, Channel!Deliver

LEMMA RunSendAccepts ==
    ASSUME TypeOK, QueueInv, run_send
    PROVE  [Channel!Next]_(Channel!chanVars)
  <1> DEFINE b == Head(posted)
  <1>1. b \in Buf /\ wire' = wire /\ starts' = starts
    BY DEF run_send, TypeOK
  <1>2. CASE ~m_io_started
    <2>1. UNCHANGED queueVars
      BY <1>2 DEF run_send, start_write_setup, outqVars, queueVars, histVars
    <2> QED
      BY <1>1, <2>1 DEF queueVars, histVars, Channel!chanVars, Passed
  <1>3. CASE m_io_started
    <2>1. accepted' = Append(accepted, b)
      BY <1>3 DEF run_send
    <2>2. (Passed' = Passed /\ broken' = broken)
             \/ (broken' = TRUE /\ Passed' \in Passed .. Len(accepted'))
      <3>1. CASE m_write_in_progress
        <4>1. /\ m_output_queue' = Append(m_output_queue, b)
              /\ UNCHANGED <<writes, broken>>
          BY <1>3, <3>1 DEF run_send, start_write_setup, add_element
        <4>2. Before' = Before
          BY <1>1, <2>1, <4>1, QueuedBehind DEF QueueInv
        <4> QED
          BY <4>1, <4>2 DEF Passed, Before
      <3>2. CASE ~m_write_in_progress
        <4>1. m_output_queue = << >> /\ writes = << >> /\ ~broken
          BY <3>2 DEF QueueInv, IdleInv
        <4>2. m_output_queue' = << >> /\ start_write(b, << >>)
          BY <1>3, <3>2, <4>1 DEF run_send, start_write_setup, outqVars
        <4>3. Before' = Len(accepted) + 1
          BY <1>1, <2>1, <4>2, SentAtOnce
        <4>4. Passed = Len(accepted) /\ Len(accepted) \in Nat
          <5>1. ~IsPending(writes)
            BY <4>1 DEF IsPending
          <5>2. Passed = Before /\ Len(accepted) \in Nat
            BY <5>1, PassedIs
          <5> QED
            BY <4>1, <5>2 DEF Before
        <4>5. Len(accepted') = Len(accepted) + 1
          BY <1>1, <2>1 DEF TypeOK
        <4>6. /\ writes' \in Seq(Write) /\ Len(writes') <= 1 /\ DOMAIN writes' = {1}
              /\ writes'[1].st = StartedOp
              /\ StartedOp = "pending" => broken' = broken
              /\ StartedOp = "failed" => broken'
              /\ StartedOp \in {"pending", "failed"}
          BY <1>1, <4>2, StartOnlyWrite DEF StartedOp
        <4>7. Passed' = Before' - (IF IsPending(writes') THEN 1 ELSE 0)
          BY <4>6, PassedNext
        <4>8. IsPending(writes') <=> StartedOp = "pending"
          BY <4>6 DEF IsPending
        <4>9. broken' \in BOOLEAN
          BY <4>2 DEF start_write, TypeOK
        <4> QED
          BY <4>3, <4>4, <4>5, <4>6, <4>7, <4>8, <4>9
      <3> QED
        BY <3>1, <3>2
    <2>3. Channel!Accept
      BY <1>1, <2>1, <2>2 DEF Channel!Accept, Channel!Lose
    <2> QED
      BY <2>3 DEF Channel!Next
  <1> QED
    BY <1>2, <1>3

LEMMA HandleWritePasses ==
    ASSUME TypeOK, QueueInv, NEW i \in DOMAIN writes, handle_write(i)
    PROVE  [Channel!Next]_(Channel!chanVars)
  <1>1. /\ DOMAIN writes = {1} /\ writes[1].st \in {"done", "failed"}
        /\ UNCHANGED <<accepted, wire, starts>>
    BY HandleWriteCases DEF handle_write
  <1>2. ~IsPending(writes)
    BY <1>1 DEF IsPending
  <1>3. /\ Passed = Before /\ Before \in Nat /\ Len(accepted) \in Nat
    BY <1>2, PassedIs
  <1>4. CASE writes' = << >> /\ UNCHANGED <<m_output_queue, broken>>
    <2>1. Before' = Before /\ ~IsPending(writes')
      BY <1>1, <1>4 DEF Before, IsPending
    <2>2. writes' \in Seq(Write) /\ Len(writes') <= 1
      BY <1>4
    <2>3. Passed' = Before' - 0
      BY <2>1, <2>2, PassedNext
    <2>4. Passed' = Passed
      BY <1>3, <2>1, <2>3
    <2> QED
      BY <1>1, <1>4, <2>4, BreakOrStutter
  <1>5. CASE /\ m_output_queue # << >> /\ Head(m_output_queue) \in Buf
             /\ m_output_queue' = Tail(m_output_queue)
             /\ start_write(Head(m_output_queue), << >>)
    <2>1. Before' = Before + 1 /\ Before' <= Len(accepted)
      BY <1>1, <1>5, TakenNext DEF QueueInv
    <2>2. /\ writes' \in Seq(Write) /\ Len(writes') <= 1 /\ DOMAIN writes' = {1}
          /\ writes'[1].st = StartedOp
          /\ StartedOp = "pending" => broken' = broken
          /\ StartedOp = "failed" => broken'
          /\ StartedOp \in {"pending", "failed"}
      BY <1>5, StartOnlyWrite DEF StartedOp
    <2>3. Passed' = Before' - (IF IsPending(writes') THEN 1 ELSE 0)
      BY <2>2, PassedNext
    <2>4. IsPending(writes') <=> StartedOp = "pending"
      BY <2>2 DEF IsPending
    <2>5. broken' \in BOOLEAN
      BY <1>5 DEF start_write, TypeOK
    <2>6. (Passed' = Passed /\ broken' = broken)
             \/ (broken' = TRUE /\ Passed' \in Passed .. Len(accepted'))
      BY <1>1, <1>3, <2>1, <2>2, <2>3, <2>4, <2>5
    <2> QED
      BY <1>1, <2>6, BreakOrStutter
  <1> QED
    BY <1>4, <1>5, HandleWriteCases

\* A pending write fails or is aborted.
LEMMA PendingLost ==
    ASSUME TypeOK, QueueInv, IsPending(writes), broken' = TRUE,
           UNCHANGED <<accepted, wire, starts, m_output_queue>>,
           writes' \in Seq(Write), Len(writes') <= 1, ~IsPending(writes')
    PROVE  [Channel!Next]_(Channel!chanVars)
  <1>1. Before' = Before
    BY DEF Before
  <1>2. Passed' = Before' - 0
    BY PassedNext
  <1>3. Passed = Before - 1 /\ Before \in Nat /\ Before <= Len(accepted) /\ Len(accepted) \in Nat
    BY PassedIs
  <1>4. Passed' \in Passed .. Len(accepted')
    BY <1>1, <1>2, <1>3
  <1> QED
    BY <1>4, BreakOrStutter

LEMMA CloseSocketLoses ==
    ASSUME TypeOK, TypeOK', QueueInv, NEW p \in Procs, close_socket(p)
    PROVE  [Channel!Next]_(Channel!chanVars)
  <1>1. UNCHANGED <<accepted, wire, starts, m_output_queue>>
    BY DEF close_socket, ioCommonVars, outqVars
  <1>2. writes' \in Seq(Write) /\ Len(writes') = Len(writes) /\ DOMAIN writes' = DOMAIN writes
    BY DEF close_socket, TypeOK
  <1>3. Len(writes') <= 1
    BY <1>2 DEF QueueInv, WriteSerialized
  <1>4. ~IsPending(writes')
    BY <1>2 DEF IsPending, close_socket, Ended
  <1>5. CASE IsPending(writes)
    <2>1. broken' = TRUE
      BY <1>5 DEF close_socket, IsPending, TypeOK
    <2> QED
      BY <1>1, <1>2, <1>3, <1>4, <1>5, <2>1, PendingLost
  <1>6. CASE ~IsPending(writes)
    <2>1. broken' = broken
      BY <1>6 DEF close_socket, IsPending, TypeOK
    <2>2. Before' = Before
      BY <1>1 DEF Before
    <2>3. Passed' = Before' - 0
      BY <1>2, <1>3, <1>4, PassedNext
    <2>4. Passed = Before - 0 /\ Before \in Nat
      BY <1>6, PassedIs
    <2>5. Passed' = Passed
      BY <2>2, <2>3, <2>4
    <2> QED
      BY <1>1, <2>1, <2>5, BreakOrStutter
  <1> QED
    BY <1>5, <1>6

LEMMA StartReopens ==
    ASSUME TypeOK, QueueInv, NEW p, start(p)
    PROVE  Channel!Reopen
  <1>1. /\ UNCHANGED <<m_output_queue, writes, accepted, wire>>
        /\ starts' = starts + 1 /\ broken' = FALSE
    BY StartQueue DEF start
  <1>2. Passed' = Passed
    BY <1>1 DEF Passed
  <1>3. Passed \in 0 .. Len(accepted) /\ Len(accepted) \in Nat
    BY PassedIs
  <1>4. Passed' \in Passed .. Len(accepted)
    BY <1>2, <1>3
  <1> QED
    BY <1>1, <1>4 DEF Channel!Reopen

LEMMA ChannelStep ==
    ASSUME TypeOK, TypeOK', QueueInv, [Next]_vars
    PROVE  [Channel!Next]_(Channel!chanVars)
  <1>1. CASE OtherStep
    BY <1>1, OtherQueue DEF queueVars, histVars, Passed, Channel!chanVars
  <1>2. CASE \E p \in Procs : close_socket(p)
    BY <1>2, CloseSocketLoses
  <1>3. CASE run_send
    BY <1>3, RunSendAccepts
  <1>4. CASE \E i \in DOMAIN writes : handle_write(i)
    BY <1>4, HandleWritePasses
  <1>5. ASSUME NEW i \in DOMAIN writes, write_completes(i) PROVE [Channel!Next]_(Channel!chanVars)
    BY <1>5, CompletesDelivers DEF Channel!Next
  <1>6. ASSUME NEW i \in DOMAIN writes, write_fails(i), ~write_completes(i)
        PROVE  [Channel!Next]_(Channel!chanVars)
    <2>1. /\ DOMAIN writes = {1} /\ writes[1].st = "pending"
          /\ writes' \in Seq(Write) /\ DOMAIN writes' = {1} /\ Len(writes') = Len(writes)
          /\ writes'[1].st = "failed" /\ UNCHANGED <<m_output_queue, accepted>>
      BY <1>6, WriteEnds
    <2>2. IsPending(writes) /\ ~IsPending(writes') /\ Len(writes') <= 1
      BY <2>1 DEF IsPending, QueueInv, WriteSerialized
    <2>3. UNCHANGED <<wire, starts>> /\ broken' = TRUE
      BY <1>6 DEF write_fails
    <2> QED
      BY <2>1, <2>2, <2>3, PendingLost
  <1>7. CASE \E p \in Procs : start(p)
    BY <1>7, StartReopens DEF Channel!Next
  <1> QED
    BY <1>1, <1>2, <1>3, <1>4, <1>5, <1>6, <1>7, StepCases

\* A UDP entity implements the channel that delivers in order, breaks at a failed
\* write and is opened again by start, however often it is stopped and started.
THEOREM ImplementsChannel == Spec => ChannelSpec
  <1>1. Init => Channel!Init
    <2> SUFFICES ASSUME Init PROVE Channel!Init
      OBVIOUS
    <2>1. /\ accepted = << >> /\ wire = << >> /\ ~broken /\ starts = 0
          /\ m_output_queue = << >> /\ writes = << >> /\ broken = FALSE
      BY DEF Init, IoCommonInit, OutqInit
    <2>2. Passed = 0
      <3>1. {i \in DOMAIN writes : writes[i].st = "pending"} = {}
        BY <2>1
      <3>2. Cardinality({i \in DOMAIN writes : writes[i].st = "pending"}) = 0
        BY <3>1, FS_EmptySet
      <3> QED
        BY <2>1, <3>2 DEF Passed
    <2> QED
      BY <2>1, <2>2 DEF Channel!Init
  <1> QED
    BY <1>1, ChannelStep, QueueCorrect, TypeCorrect, PTL DEF Spec, ChannelSpec, Channel!Spec

-----------------------------------------------------------------------------
(* Closed once per open.                                                   *)

LEMMA CloseFrame ==
    ASSUME TypeOK, CloseInv, NEW p \in Procs, Others(p),
           pc[p].at \in {"closing", "chg_false"} <=> pc'[p].at \in {"closing", "chg_false"},
           UNCHANGED <<m_io_started, ioStarts, up, down>>
    PROVE  CloseInv'
  <1>1. Closing' = Closing
    BY DEF Closing, Others
  <1> QED
    BY <1>1 DEF CloseInv

LEMMA CloseStill ==
    ASSUME CloseInv, UNCHANGED <<pc, m_io_started, ioStarts, up, down>>
    PROVE  CloseInv'
  BY DEF CloseInv, Closing

LEMMA StartIoClose ==
    ASSUME TypeOK, CloseInv, NEW p \in Procs, start_io(p)
    PROVE  CloseInv'
  <1>1. pc[p].at = "idle" /\ ioStarts < up[Self] /\ ioStarts' = ioStarts + 1
    BY DEF start_io
  <1>2. UNCHANGED <<up, down>>
    BY DEF start_io, chgVars
  <1>3. Closing' = Closing
    <2>1. CASE UNCHANGED pc
      BY <2>1 DEF Closing
    <2>2. CASE \E r, d \in BOOLEAN :
                 pc' = [pc EXCEPT ![p] = [at |-> "start_io", read |-> r, dest |-> d]]
      <3>1. pc'[p].at = "start_io" /\ Others(p)
        BY <2>2 DEF TypeOK, Others
      <3> QED
        BY <1>1, <3>1 DEF Closing, Others
    <2> QED
      BY <2>1, <2>2 DEF start_io
  <1>4. m_io_started' = TRUE /\ m_io_started \in BOOLEAN
    BY DEF start_io, set_io_started, TypeOK
  <1>5. /\ Cardinality(Closing) \in Nat /\ down[Self] \in Nat /\ up[Self] \in Nat
        /\ ioStarts \in Nat
    BY SelfType, FS_CardinalityType DEF CloseInv, TypeOK, EntityTypeOK
  <1>6. /\ Cardinality(Closing) + down[Self] <= ioStarts
        /\ ioStarts <= up[Self]
    BY <1>5 DEF CloseInv
  <1>7. (IF m_io_started' THEN 1 ELSE 0) = 1
    BY <1>4
  <1> QED
    BY <1>1, <1>2, <1>3, <1>5, <1>6, <1>7 DEF CloseInv

LEMMA StopIoClose ==
    ASSUME TypeOK, CloseInv, NEW p \in Procs, stop_io(p)
    PROVE  CloseInv'
  <1>1. pc[p].at = "stop_io" /\ UNCHANGED <<up, down, ioStarts>>
    BY DEF stop_io, chgVars
  <1>2. CASE UNCHANGED m_io_started /\ At(p, "idle")
    <2>1. Others(p) /\ pc'[p].at = "idle"
      BY <1>2, MoveAt DEF PcAt
    <2> QED
      BY <1>1, <1>2, <2>1, CloseFrame
  <1>3. CASE io_common_stop /\ At(p, "closing")
    <2>1. Others(p) /\ pc'[p].at = "closing"
      BY <1>3, MoveAt DEF PcAt
    <2>2. p \notin Closing /\ Closing' = Closing \cup {p}
      BY <1>1, <2>1 DEF Closing, Others
    <2>3. IsFiniteSet(Closing') /\ Cardinality(Closing') = Cardinality(Closing) + 1
      BY <2>2, FS_AddElement DEF CloseInv
    <2>4. m_io_started = TRUE /\ m_io_started' = FALSE
      BY <1>3 DEF io_common_stop, TypeOK
    <2>5. (IF m_io_started THEN 1 ELSE 0) = 1 /\ (IF m_io_started' THEN 1 ELSE 0) = 0
      BY <2>4
    <2>6. /\ Cardinality(Closing) \in Nat /\ down[Self] \in Nat /\ ioStarts \in Nat
      BY SelfType, FS_CardinalityType DEF CloseInv, TypeOK, EntityTypeOK
    <2> QED
      BY <1>1, <2>3, <2>5, <2>6 DEF CloseInv
  <1> QED
    BY <1>2, <1>3 DEF stop_io

LEMMA AnnounceClosedClose ==
    ASSUME TypeOK, CloseInv, NEW p \in Procs, announce_closed(p)
    PROVE  CloseInv'
  <1>1. pc[p].at = "chg_false" /\ UNCHANGED <<up, ioStarts, m_io_started>>
    BY DEF announce_closed, call_io_state_chg_cb, ioCommonVars
  <1>2. Others(p) /\ pc'[p].at = "idle"
    BY MoveAt DEF announce_closed, PcAt
  <1>3. p \in Closing /\ Closing' = Closing \ {p}
    BY <1>1, <1>2 DEF Closing, Others
  <1>4. IsFiniteSet(Closing') /\ Cardinality(Closing') = Cardinality(Closing) - 1
    BY <1>3, FS_RemoveElement DEF CloseInv
  <1>5. /\ Cardinality(Closing) \in Nat /\ down[Self] \in Nat /\ ioStarts \in Nat
    BY SelfType, FS_CardinalityType DEF CloseInv, TypeOK, EntityTypeOK
  <1>6. down'[Self] = down[Self] + 1
    <2>1. down \in [Handler -> Nat] /\ down' = [down EXCEPT ![Self] = @ + 1]
      BY DEF announce_closed, call_io_state_chg_cb, TypeOK, EntityTypeOK
    <2> QED
      BY <2>1, SelfType
  <1> QED
    BY <1>1, <1>4, <1>5, <1>6 DEF CloseInv

LEMMA AnnounceClose ==
    ASSUME TypeOK, CloseInv, NEW p \in Procs, announce(p)
    PROVE  CloseInv'
  <1>1. pc[p].at = "chg_true" /\ UNCHANGED <<down, ioStarts, m_io_started>>
    BY DEF announce, call_io_state_chg_cb, ioCommonVars
  <1>2. Others(p) /\ pc'[p].at = "idle"
    BY MoveAt DEF announce, PcAt
  <1>3. Closing' = Closing
    BY <1>1, <1>2 DEF Closing, Others
  <1>4. up[Self] \in Nat /\ ioStarts \in Nat
    BY SelfType DEF TypeOK, EntityTypeOK
  <1>5. up'[Self] = up[Self] + 1
    <2>1. up \in [Handler -> Nat] /\ up' = [up EXCEPT ![Self] = @ + 1]
      BY DEF announce, call_io_state_chg_cb, TypeOK, EntityTypeOK
    <2> QED
      BY <2>1, SelfType
  <1> QED
    BY <1>1, <1>3, <1>4, <1>5 DEF CloseInv

LEMMA CloseStep ==
    ASSUME TypeOK, CloseInv, [Next]_vars
    PROVE  CloseInv'
  <1> USE DEF ioCommonVars, chgVars
  <1>0. RunThread \in Procs
    BY DEF Procs
  <1>1. ASSUME NEW p \in Procs, start(p) \/ app_stop(p) PROVE CloseInv'
    <2>1. PICK w \in {"open", "stop", "stop_io"} : At(p, w) /\ pc[p].at = "idle"
      BY <1>1 DEF start, app_stop
    <2>2. Others(p) /\ pc'[p].at = w
      BY <2>1, MoveAt DEF PcAt
    <2>3. UNCHANGED <<m_io_started, ioStarts, up, down>>
      BY <1>1 DEF start, app_stop
    <2> QED
      BY <2>1, <2>2, <2>3, CloseFrame
  <1>2. ASSUME NEW p \in Procs, open_socket(p) \/ start_io_body(p) \/ stop(p) PROVE CloseInv'
    <2>1. PICK w \in {"chg_true", "stop", "idle", "stop_io"} :
            At(p, w) /\ pc[p].at \in {"open", "start_io", "stop"}
      BY <1>2 DEF open_socket, start_io_body, stop
    <2>2. Others(p) /\ pc'[p].at = w
      BY <2>1, MoveAt DEF PcAt
    <2>3. UNCHANGED <<m_io_started, ioStarts, up, down>>
      BY <1>2 DEF open_socket, start_io_body, stop
    <2> QED
      BY <2>1, <2>2, <2>3, CloseFrame
  <1>3. ASSUME NEW p \in Procs, close_socket(p) PROVE CloseInv'
    <2>1. Others(p) /\ pc'[p].at = "chg_false" /\ pc[p].at = "closing"
      BY <1>3, MoveAt DEF close_socket, PcAt
    <2>2. UNCHANGED <<m_io_started, ioStarts, up, down>>
      BY <1>3 DEF close_socket
    <2> QED
      BY <2>1, <2>2, CloseFrame
  <1>4. CASE run_send \/ HandleWrite \/ HandleRead
    <2>1. UNCHANGED <<m_io_started, ioStarts, up, down>>
      BY <1>4 DEF run_send, HandleWrite, HandleRead, handle_write, handle_read,
         start_write_setup, get_next_element
    <2>2. UNCHANGED pc \/ (At(RunThread, "stop") /\ pc[RunThread].at = "idle")
      BY <1>4 DEF run_send, HandleWrite, HandleRead, handle_write, handle_read
    <2>3. CASE UNCHANGED pc
      BY <2>1, <2>3, CloseStill
    <2>4. CASE At(RunThread, "stop") /\ pc[RunThread].at = "idle"
      <3>1. Others(RunThread) /\ pc'[RunThread].at = "stop"
        BY <1>0, <2>4, MoveAt DEF PcAt
      <3> QED
        BY <1>0, <2>1, <2>4, <3>1, CloseFrame
    <2> QED
      BY <2>2, <2>3, <2>4
  <1>5. CASE \/ \E t \in Procs, b \in Buf : send(t, b)
             \/ \E i \in DOMAIN writes : write_completes(i) \/ write_fails(i)
             \/ \E i \in DOMAIN reads : read_ends(i)
             \/ UNCHANGED vars
    <2>1. UNCHANGED <<pc, m_io_started, ioStarts, up, down>>
      BY <1>5 DEF send, write_completes, write_fails, read_ends, vars
    <2> QED
      BY <2>1, CloseStill
  <1>6. Threads \subseteq Procs
    BY DEF Procs
  <1>7. CASE \E t \in Threads : AppStep(t)
    BY <1>1, <1>5, <1>6, <1>7, StartIoClose DEF AppStep
  <1>8. CASE \E p \in Procs : InCall(p)
    BY <1>2, <1>3, <1>8, StopIoClose, AnnounceClose, AnnounceClosedClose DEF InCall
  <1> QED
    BY <1>4, <1>5, <1>7, <1>8 DEF Next

LEMMA InitClose == Init => CloseInv
  <1> SUFFICES ASSUME Init PROVE CloseInv
    OBVIOUS
  <1>1. Closing = {}
    BY DEF Init, Closing, Place
  <1>2. IsFiniteSet({}) /\ Cardinality({}) = 0
    BY FS_EmptySet
  <1>3. down[Self] = 0 /\ up[Self] = 0 /\ ioStarts = 0 /\ m_io_started = FALSE
    BY SelfType DEF Init, EntityInit, IoCommonInit
  <1> QED
    BY <1>1, <1>2, <1>3 DEF CloseInv

\* An open is reported closed at most once, whichever of stop, stop_io and the
\* errors of reads and writes end the io and however they overlap: each close
\* that is reported got through the exchange of m_io_started, after a start_io.
THEOREM ClosedOnce == Spec => []ClosedOncePerOpen
  <1>1. TypeOK /\ CloseInv => ClosedOncePerOpen
    <2> SUFFICES ASSUME TypeOK, CloseInv PROVE ClosedOncePerOpen
      OBVIOUS
    <2>1. /\ Cardinality(Closing) \in Nat /\ down[Self] \in Nat /\ up[Self] \in Nat
          /\ ioStarts \in Nat
      BY SelfType, FS_CardinalityType DEF CloseInv, TypeOK, EntityTypeOK
    <2>2. (IF m_io_started THEN 1 ELSE 0) \in Nat
      OBVIOUS
    <2> QED
      BY <2>1, <2>2 DEF CloseInv, ClosedOncePerOpen
  <1> QED
    BY <1>1, InitClose, CloseStep, TypeCorrect, PTL DEF Spec

-----------------------------------------------------------------------------
(* Until a restart there is one read at a time.                            *)

LEMMA OnceFrame ==
    ASSUME TypeOK, TypeOK', OnceInv, UNCHANGED <<starts, ioStarts, up>>,
           \A q \in Procs : (Opening(q)' => Opening(q)) /\ (InStartIo(q)' => InStartIo(q)),
           reads = << >> => reads' = << >>, Len(reads) <= 1 => Len(reads') <= 1,
           m_write_in_progress' => m_write_in_progress \/ ioStarts > 0
    PROVE  OnceInv'
  <1>1. starts = 0 => up[Self] = 0 /\ \A p \in Procs : ~Opening(p)'
    BY DEF OnceInv
  <1>2. ASSUME starts <= 1
        PROVE  /\ up[Self] <= 1
               /\ \A p \in Procs : Opening(p)' => up[Self] = 0
               /\ \A p, q \in Procs : Opening(p)' /\ Opening(q)' => p = q
               /\ \A p, q \in Procs : InStartIo(p)' /\ InStartIo(q)' => p = q
               /\ \A p \in Procs : InStartIo(p)' => reads' = << >> /\ ioStarts > 0
               /\ ioStarts = 0 => reads' = << >>
               /\ Len(reads') <= 1
    BY <1>2 DEF OnceInv
  <1>3. ioStarts = 0 => ~m_write_in_progress'
    BY DEF OnceInv
  <1> QED
    BY <1>1, <1>2, <1>3 DEF OnceInv

\* The number of the counters that OnceInv compares.
LEMMA Counters ==
    ASSUME TypeOK, CloseInv
    PROVE  /\ starts \in Nat /\ ioStarts \in Nat /\ up[Self] \in Nat
           /\ ioStarts <= up[Self]
           /\ m_io_started => ioStarts > 0
  <1>1. /\ Cardinality(Closing) \in Nat /\ down[Self] \in Nat /\ up[Self] \in Nat
        /\ ioStarts \in Nat /\ starts \in Nat
    BY SelfType, FS_CardinalityType DEF CloseInv, TypeOK, EntityTypeOK
  <1>2. m_io_started => Cardinality(Closing) + down[Self] + 1 <= ioStarts
    BY DEF CloseInv
  <1> QED
    BY <1>1, <1>2 DEF CloseInv

LEMMA StartOnce ==
    ASSUME TypeOK, CloseInv, OnceInv, NEW p \in Procs, start(p)
    PROVE  OnceInv'
  <1>1. starts' = starts + 1 /\ UNCHANGED <<ioStarts, up, reads, m_write_in_progress>>
    BY DEF start, chgVars, ioCommonVars
  <1>2. Others(p) /\ pc'[p].at = "open"
    BY MoveAt DEF start, PcAt
  <1>3. starts \in Nat
    BY Counters
  <1>4. CASE starts = 0
    <2>1. up[Self] = 0 /\ \A q \in Procs : ~Opening(q)
      BY <1>4 DEF OnceInv
    <2>2. \A q \in Procs : Opening(q)' => q = p
      BY <1>2, <2>1 DEF Opening, Others
    <2>3. \A q \in Procs : InStartIo(q)' => InStartIo(q)
      BY <1>2 DEF InStartIo, Others
    <2> QED
      BY <1>1, <1>4, <2>1, <2>2, <2>3 DEF OnceInv
  <1>5. CASE starts # 0
    <2>1. starts' # 0 /\ ~(starts' <= 1)
      BY <1>1, <1>3, <1>5
    <2> QED
      BY <1>1, <2>1 DEF OnceInv
  <1> QED
    BY <1>4, <1>5

LEMMA AnnounceOnce ==
    ASSUME TypeOK, CloseInv, OnceInv, NEW p \in Procs, announce(p)
    PROVE  OnceInv'
  <1>1. pc[p].at = "chg_true" /\ UNCHANGED <<starts, ioStarts, reads, m_write_in_progress>>
    BY DEF announce, ioCommonVars
  <1>2. Others(p) /\ pc'[p].at = "idle"
    BY MoveAt DEF announce, PcAt
  <1>3. up'[Self] = up[Self] + 1
    <2>1. up \in [Handler -> Nat] /\ up' = [up EXCEPT ![Self] = @ + 1]
      BY DEF announce, call_io_state_chg_cb, TypeOK, EntityTypeOK
    <2> QED
      BY <2>1, SelfType
  <1>4. Opening(p) /\ starts # 0
    BY <1>1 DEF Opening, OnceInv
  <1>5. CASE starts <= 1
    <2>1. up[Self] = 0 /\ \A q \in Procs : Opening(q) => q = p
      BY <1>4, <1>5 DEF OnceInv
    <2>2. \A q \in Procs : ~Opening(q)'
      BY <1>2, <2>1 DEF Opening, Others
    <2>3. \A q \in Procs : InStartIo(q)' => InStartIo(q)
      BY <1>2 DEF InStartIo, Others
    <2> QED
      BY <1>1, <1>3, <1>4, <1>5, <2>1, <2>2, <2>3 DEF OnceInv
  <1>6. CASE ~(starts <= 1)
    BY <1>1, <1>4, <1>6 DEF OnceInv
  <1> QED
    BY <1>5, <1>6

LEMMA StartIoOnce ==
    ASSUME TypeOK, TypeOK', CloseInv, OnceInv, NEW p \in Procs, start_io(p)
    PROVE  OnceInv'
  <1>1. /\ ioStarts < up[Self] /\ ioStarts' = ioStarts + 1 /\ pc[p].at = "idle"
        /\ UNCHANGED <<starts, up, reads, m_write_in_progress>>
    BY DEF start_io, chgVars
  <1>2. ioStarts \in Nat /\ up[Self] \in Nat /\ ioStarts' # 0 /\ ioStarts' > 0
    BY <1>1, Counters
  <1>3. /\ \A q \in Procs : Opening(q)' <=> Opening(q)
        /\ \A q \in Procs : q # p => (InStartIo(q)' <=> InStartIo(q))
    <2>1. CASE UNCHANGED pc
      BY <2>1 DEF Opening, InStartIo
    <2>2. CASE \E r, d \in BOOLEAN :
                 pc' = [pc EXCEPT ![p] = [at |-> "start_io", read |-> r, dest |-> d]]
      <3>1. pc'[p].at = "start_io" /\ Others(p)
        BY <2>2 DEF TypeOK, Others
      <3> QED
        BY <1>1, <3>1 DEF Opening, InStartIo, Others
    <2> QED
      BY <2>1, <2>2 DEF start_io
  <1>4. CASE starts <= 1
    <2>1. ioStarts = 0
      <3>1. up[Self] <= 1
        BY <1>4 DEF OnceInv
      <3> QED
        BY <1>1, <1>2, <3>1
    <2>2. reads = << >> /\ \A q \in Procs : ~InStartIo(q)
      BY <1>2, <1>4, <2>1 DEF OnceInv
    <2>3. \A q \in Procs : InStartIo(q)' => q = p
      BY <1>3, <2>2
    <2> QED
      BY <1>1, <1>2, <1>3, <1>4, <2>2, <2>3 DEF OnceInv
  <1>5. CASE ~(starts <= 1)
    <2>1. starts # 0
      BY <1>5
    <2> QED
      BY <1>1, <1>2, <1>5, <2>1 DEF OnceInv
  <1> QED
    BY <1>4, <1>5

LEMMA StartIoBodyOnce ==
    ASSUME TypeOK, CloseInv, OnceInv, NEW p \in Procs, start_io_body(p)
    PROVE  OnceInv'
  <1>1. pc[p].at = "start_io" /\ UNCHANGED <<starts, ioStarts, up, m_write_in_progress>>
    BY DEF start_io_body, chgVars, ioCommonVars
  <1>2. Others(p) /\ pc'[p].at = "idle"
    BY MoveAt DEF start_io_body, PcAt
  <1>3. \A q \in Procs : (Opening(q)' <=> Opening(q)) /\ (InStartIo(q)' => InStartIo(q) /\ q # p)
    BY <1>1, <1>2 DEF Opening, InStartIo, Others
  <1>4. InStartIo(p)
    BY <1>1 DEF InStartIo
  <1>5. CASE starts <= 1
    <2>1. /\ reads = << >> /\ ioStarts > 0
          /\ \A q \in Procs : InStartIo(q) => q = p
      BY <1>4, <1>5 DEF OnceInv
    <2>2. \A q \in Procs : ~InStartIo(q)'
      BY <1>3, <2>1
    <2>3. Len(reads') <= 1
      <3>1. reads' = << >> \/ reads' = Append(<< >>, StartedOp)
        BY <2>1 DEF start_io_body, start_read
      <3>2. << >> \in Seq(OpSt) /\ Len(<< >>) = 0
        OBVIOUS
      <3>3. Len(Append(<< >>, StartedOp)) = 1
        BY <3>2, StartedOpType
      <3>4. Len(reads') = 0 \/ Len(reads') = 1
        <4>1. CASE reads' = << >>
          BY <3>2, <4>1, Zenon
        <4>2. CASE reads' = Append(<< >>, StartedOp)
          BY <3>3, <4>2, Zenon
        <4> QED
          BY <3>1, <4>1, <4>2, Zenon
      <3>5. \A n : n = 0 \/ n = 1 => n <= 1
        OBVIOUS
      <3> QED
        BY <3>4, <3>5, Zenon
    <2>4. ioStarts # 0
      BY <2>1
    <2> QED
      BY <1>1, <1>3, <1>5, <2>2, <2>3, <2>4 DEF OnceInv
  <1>6. CASE ~(starts <= 1)
    <2>1. starts # 0
      BY <1>6
    <2> QED
      BY <1>1, <1>6, <2>1 DEF OnceInv
  <1> QED
    BY <1>5, <1>6

\* A thread that goes elsewhere.
LEMMA MoveOnce ==
    ASSUME TypeOK, NEW p \in Procs,
           NEW w \in {"stop", "stop_io", "idle", "closing", "chg_false"}, At(p, w)
    PROVE  \A q \in Procs : (Opening(q)' => Opening(q)) /\ (InStartIo(q)' => InStartIo(q))
  <1>1. Others(p) /\ pc'[p].at = w
    BY MoveAt DEF PcAt
  <1> QED
    BY <1>1 DEF Others, Opening, InStartIo

LEMMA OnceStep ==
    ASSUME TypeOK, TypeOK', CloseInv, OnceInv, [Next]_vars
    PROVE  OnceInv'
  <1> USE DEF ioCommonVars, chgVars
  <1>0. RunThread \in Procs /\ Threads \subseteq Procs
    BY DEF Procs
  <1>1. ASSUME NEW p \in Procs,
               \/ app_stop(p) \/ stop(p) \/ stop_io(p) \/ announce_closed(p)
               \/ open_socket(p) /\ At(p, "stop")
        PROVE  OnceInv'
    <2>1. PICK w \in {"stop", "stop_io", "idle", "closing"} : At(p, w)
      BY <1>1 DEF app_stop, stop, stop_io, announce_closed, open_socket
    <2>2. UNCHANGED <<starts, ioStarts, up, reads, m_write_in_progress>>
      BY <1>1 DEF app_stop, stop, stop_io, announce_closed, open_socket, call_io_state_chg_cb
    <2> QED
      BY <2>1, <2>2, MoveOnce, OnceFrame
  <1>2. ASSUME NEW p \in Procs, open_socket(p) PROVE OnceInv'
    <2>1. CASE At(p, "chg_true")
      <3>1. Others(p) /\ pc'[p].at = "chg_true" /\ pc[p].at = "open"
        BY <1>2, <2>1, MoveAt DEF PcAt, open_socket
      <3>2. \A q \in Procs : (Opening(q)' => Opening(q)) /\ (InStartIo(q)' => InStartIo(q))
        BY <3>1 DEF Others, Opening, InStartIo
      <3>3. UNCHANGED <<starts, ioStarts, up, reads, m_write_in_progress>>
        BY <1>2 DEF open_socket
      <3> QED
        BY <3>2, <3>3, OnceFrame
    <2> QED
      BY <1>1, <1>2, <2>1 DEF open_socket
  <1>3. ASSUME NEW p \in Procs, close_socket(p) PROVE OnceInv'
    <2>1. At(p, "chg_false") /\ UNCHANGED <<starts, ioStarts, up, m_write_in_progress>>
      BY <1>3 DEF close_socket
    <2>2. (reads = << >> => reads' = << >>) /\ (Len(reads) <= 1 => Len(reads') <= 1)
      BY <1>3 DEF close_socket, TypeOK
    <2> QED
      BY <2>1, <2>2, MoveOnce, OnceFrame
  <1>4. CASE run_send \/ HandleWrite
    <2>1. UNCHANGED <<starts, ioStarts, up, reads>>
      BY <1>4 DEF run_send, HandleWrite, handle_write
    <2>2. m_write_in_progress' => m_write_in_progress \/ m_io_started
      BY <1>4 DEF run_send, HandleWrite, handle_write, start_write_setup, get_next_element
    <2>3. m_io_started => ioStarts > 0
      BY Counters
    <2>4. \A q \in Procs : (Opening(q)' => Opening(q)) /\ (InStartIo(q)' => InStartIo(q))
      <3>1. CASE UNCHANGED pc
        BY <3>1 DEF Opening, InStartIo
      <3>2. CASE At(RunThread, "stop")
        BY <1>0, <3>2, MoveOnce
      <3> QED
        BY <1>4, <3>1, <3>2 DEF run_send, HandleWrite, handle_write
    <2> QED
      BY <2>1, <2>2, <2>3, <2>4, OnceFrame
  <1>5. ASSUME NEW i \in DOMAIN reads, handle_read(i) PROVE OnceInv'
    <2>1. UNCHANGED <<starts, ioStarts, up, m_write_in_progress>>
      BY <1>5 DEF handle_read
    <2>2. reads \in Seq(OpSt) /\ reads # << >>
      BY <1>5 DEF TypeOK
    <2>3. RemoveAt(reads, i) \in Seq(OpSt) /\ Len(RemoveAt(reads, i)) = Len(reads) - 1
      BY <2>2, RemoveAtType, RemoveAtElements
    <2>4. reads' = RemoveAt(reads, i) \/ reads' = Append(RemoveAt(reads, i), StartedOp)
      BY <1>5 DEF handle_read, start_read
    <2>5. Len(reads) <= 1 => Len(reads') <= 1
      <3>1. Len(Append(RemoveAt(reads, i), StartedOp)) = Len(reads)
        BY <2>2, <2>3
      <3> QED
        BY <2>2, <2>3, <2>4, <3>1
    <2>6. \A q \in Procs : (Opening(q)' => Opening(q)) /\ (InStartIo(q)' => InStartIo(q))
      <3>1. CASE UNCHANGED pc
        BY <3>1 DEF Opening, InStartIo
      <3>2. CASE At(RunThread, "stop")
        BY <1>0, <3>2, MoveOnce
      <3> QED
        BY <1>5, <3>1, <3>2 DEF handle_read
    <2> QED
      BY <2>1, <2>2, <2>5, <2>6, OnceFrame
  <1>6. ASSUME NEW i \in DOMAIN reads, read_ends(i) PROVE OnceInv'
    <2>1. UNCHANGED <<starts, ioStarts, up, m_write_in_progress, pc>>
      BY <1>6 DEF read_ends
    <2>2. (reads = << >> => reads' = << >>) /\ (Len(reads) <= 1 => Len(reads') <= 1)
      <3>1. PICK st \in OpSt : reads' = [reads EXCEPT ![i] = st]
        BY <1>6 DEF read_ends, OpSt
      <3>2. reads \in Seq(OpSt) /\ reads # << >>
        BY <1>6 DEF TypeOK
      <3>3. Len(reads') = Len(reads)
        BY <1>6, <3>1, <3>2, ExceptSeq
      <3> QED
        BY <3>2, <3>3
    <2> QED
      BY <2>1, <2>2, OnceFrame DEF Opening, InStartIo
  <1>7. CASE \/ \E t \in Procs, b \in Buf : send(t, b)
             \/ \E i \in DOMAIN writes : write_completes(i) \/ write_fails(i)
             \/ UNCHANGED vars
    <2>1. UNCHANGED <<pc, starts, ioStarts, up, reads, m_write_in_progress>>
      BY <1>7 DEF send, write_completes, write_fails, vars
    <2> QED
      BY <2>1, OnceFrame DEF Opening, InStartIo
  <1>8. CASE \E t \in Threads : AppStep(t)
    BY <1>0, <1>1, <1>7, <1>8, StartOnce, StartIoOnce DEF AppStep
  <1>9. CASE \E p \in Procs : InCall(p)
    BY <1>1, <1>2, <1>3, <1>9, AnnounceOnce, StartIoBodyOnce DEF InCall
  <1> QED
    BY <1>4, <1>5, <1>6, <1>7, <1>8, <1>9 DEF Next, HandleRead

LEMMA InitOnce == Init => OnceInv
  <1> SUFFICES ASSUME Init PROVE OnceInv
    OBVIOUS
  <1>1. \A p \in Procs : ~Opening(p) /\ ~InStartIo(p)
    BY DEF Init, Opening, InStartIo, Place
  <1>2. up[Self] = 0 /\ ioStarts = 0 /\ reads = << >> /\ m_write_in_progress = FALSE
    BY SelfType DEF Init, EntityInit, IoCommonInit
  <1> QED
    BY <1>1, <1>2 DEF OnceInv

\* Writes never overlap, over any number of restarts, and until a restart reads
\* do not either: what start_io, the read handler and stop leave outstanding.
THEOREM OneOperationOfEach == Spec => []UdpInv
  <1>1. TypeOK /\ QueueInv /\ OnceInv => UdpInv
    BY DEF QueueInv, WriteSerialized, OnceInv, UdpInv, OneOfEach
  <1> QED
    BY <1>1, InitOnce, OnceStep, InitClose, CloseStep, QueueCorrect, TypeCorrect, PTL DEF Spec

-----------------------------------------------------------------------------
(* Until a restart no wakeup is lost and a failure stops the entity.       *)

LEMMA WakeFrame ==
    ASSUME WakeInv, UNCHANGED <<starts, broken, m_write_in_progress, writes>>,
           m_io_started' => m_io_started, m_started' => m_started,
           pc[RunThread].at = "stop" => pc'[RunThread].at = "stop"
    PROVE  WakeInv'
  <1>1. \A i \in DOMAIN writes : writes'[i] = writes[i]
    OBVIOUS
  <1> QED
    BY <1>1 DEF WakeInv

\* A failed write is outstanding after the step.
LEMMA WakeFailed ==
    ASSUME DOMAIN writes' = {1}, starts' <= 1 => (broken' <=> writes'[1].st = "failed")
    PROVE  WakeInv'
  <1>1. writes' # << >>
    OBVIOUS
  <1> QED
    BY <1>1 DEF WakeInv

\* The calls, except for close_socket.
LEMMA CallWake ==
    ASSUME TypeOK, QueueInv, CloseInv, OnceInv, WakeInv, NEW p \in Procs,
           \/ AppStep(p)
           \/ open_socket(p) \/ announce(p) \/ start_io_body(p) \/ stop(p)
           \/ stop_io(p) \/ announce_closed(p)
    PROVE  WakeInv'
  <1> USE DEF ioCommonVars, entityVars, histVars
  <1>0. RunThread \in Procs
    BY DEF Procs
  <1>1. CASE start(p)
    <2>1. starts' = starts + 1 /\ ~broken' /\ UNCHANGED <<writes, m_write_in_progress>>
      BY <1>1 DEF start
    <2>2. starts \in Nat /\ ioStarts \in Nat /\ up[Self] \in Nat /\ ioStarts <= up[Self]
      BY Counters
    <2>3. ASSUME starts' <= 1 PROVE ~m_write_in_progress /\ writes = << >>
      <3>1. starts = 0
        BY <2>1, <2>2, <2>3
      <3>2. up[Self] = 0 /\ ioStarts = 0
        BY <2>2, <3>1 DEF OnceInv
      <3> QED
        BY <3>2 DEF OnceInv, QueueInv, IdleInv
    <2> QED
      BY <2>1, <2>3 DEF WakeInv
  <1>2. CASE start_io(p)
    <2>1. /\ ioStarts < up[Self] /\ pc[p].at = "idle"
          /\ UNCHANGED <<starts, broken, m_write_in_progress, writes, m_started>>
      BY <1>2 DEF start_io
    <2>2. starts \in Nat /\ ioStarts \in Nat /\ up[Self] \in Nat
      BY Counters
    <2>3. CASE starts <= 1
      <3>1. up[Self] <= 1
        BY <2>3 DEF OnceInv
      <3>2. ioStarts = 0
        BY <2>1, <2>2, <3>1
      <3>3. ~m_write_in_progress /\ ~broken /\ writes = << >>
        BY <3>2 DEF OnceInv, QueueInv, IdleInv
      <3> QED
        BY <2>1, <3>3 DEF WakeInv
    <2>4. CASE ~(starts <= 1)
      BY <2>1, <2>4 DEF WakeInv
    <2> QED
      BY <2>3, <2>4
  <1>3. CASE stop(p)
    <2>1. ~m_started' /\ UNCHANGED <<starts, broken, m_write_in_progress, writes, m_io_started>>
      BY <1>3 DEF stop, entity_stop
    <2> QED
      BY <2>1 DEF WakeInv
  <1>4. ASSUME NEW b \in Buf, send(p, b) PROVE WakeInv'
    BY <1>4, WakeFrame DEF send
  <1>5. CASE \/ app_stop(p) \/ open_socket(p) \/ announce(p) \/ start_io_body(p)
             \/ stop_io(p) \/ announce_closed(p)
    <2>1. UNCHANGED <<starts, broken, m_write_in_progress, writes, m_started>>
      BY <1>5 DEF app_stop, open_socket, announce, start_io_body, stop_io, announce_closed
    <2>2. m_io_started' => m_io_started
      BY <1>5 DEF app_stop, open_socket, announce, start_io_body, stop_io, announce_closed,
         io_common_stop
    <2>3. pc[p].at # "stop"
      BY <1>5 DEF app_stop, open_socket, announce, start_io_body, stop_io, announce_closed
    <2>4. PICK w \in PcAt : At(p, w)
      BY <1>5 DEF app_stop, open_socket, announce, start_io_body, stop_io, announce_closed,
         PcAt
    <2>5. Others(p)
      BY <2>4, MoveAt
    <2>6. pc[RunThread].at = "stop" => pc'[RunThread].at = "stop"
      BY <1>0, <2>3, <2>5 DEF Others
    <2> QED
      BY <2>1, <2>2, <2>6, WakeFrame
  <1> QED
    BY <1>1, <1>2, <1>3, <1>4, <1>5 DEF AppStep

LEMMA CloseSocketWake ==
    ASSUME TypeOK, QueueInv, WakeInv, NEW p \in Procs, close_socket(p)
    PROVE  WakeInv'
  <1>1. /\ pc[p].at = "closing"
        /\ UNCHANGED <<starts, m_write_in_progress, m_io_started, m_started>>
    BY DEF close_socket, ioCommonVars, entityVars
  <1>2. CASE writes = << >>
    <2>1. writes' = << >> /\ broken' = broken
      BY <1>2 DEF close_socket, TypeOK
    <2>2. Others(p)
      BY MoveAt DEF close_socket, PcAt
    <2>3. pc[RunThread].at = "stop" => pc'[RunThread].at = "stop"
      BY <1>1, <2>2 DEF Others, Procs
    <2> QED
      BY <1>1, <1>2, <2>1, <2>3, WakeFrame
  <1>3. CASE writes # << >>
    <2>1. 1 \in DOMAIN writes
      BY <1>3 DEF TypeOK
    <2>2. DOMAIN writes = {1} /\ writes[1] \in Write
      BY <2>1, OnlyIndex DEF QueueInv
    <2>3. DOMAIN writes' = {1}
      BY <2>2 DEF close_socket
    <2>4. CASE writes[1].st = "pending"
      <3>1. writes'[1] = Ended(writes[1], "failed")
        BY <2>2, <2>4 DEF close_socket
      <3>2. writes'[1].st = "failed" /\ broken'
        BY <2>2, <2>4, <3>1, EndedType DEF close_socket
      <3> QED
        BY <2>3, <3>2, WakeFailed
    <2>5. CASE writes[1].st = "done"
      <3>1. ~broken /\ broken' = broken /\ writes'[1] = writes[1]
        BY <2>2, <2>5 DEF close_socket, QueueInv, WriteInv, TypeOK
      <3> QED
        BY <2>3, <2>5, <3>1, WakeFailed
    <2>6. CASE writes[1].st = "failed"
      <3>1. writes'[1] = writes[1] /\ (broken => broken') /\ starts' = starts
        BY <1>1, <2>2, <2>6 DEF close_socket
      <3>2. starts <= 1 => broken
        BY <2>1, <2>6 DEF WakeInv
      <3> QED
        BY <2>3, <2>6, <3>1, <3>2, WakeFailed
    <2> QED
      BY <2>2, <2>4, <2>5, <2>6 DEF Write, OpSt
  <1> QED
    BY <1>2, <1>3

LEMMA RunSendWake ==
    ASSUME TypeOK, QueueInv, WakeInv, run_send
    PROVE  WakeInv'
  <1>1. UNCHANGED <<starts, m_io_started, m_started, pc>>
    BY DEF run_send, start_write_setup, entityVars
  <1>2. CASE ~m_io_started \/ m_write_in_progress
    <2>1. UNCHANGED <<writes, broken, m_write_in_progress>>
      BY <1>2 DEF run_send, start_write_setup
    <2> QED
      BY <1>1, <2>1, WakeFrame
  <1>3. CASE m_io_started /\ ~m_write_in_progress
    <2>1. writes = << >> /\ ~broken /\ Head(posted) \in Buf
      BY <1>3 DEF QueueInv, IdleInv, run_send, TypeOK
    <2>2. start_write(Head(posted), << >>)
      BY <1>3, <2>1 DEF run_send, start_write_setup
    <2>3. DOMAIN writes' = {1} /\ (broken' <=> writes'[1].st = "failed")
      BY <2>1, <2>2, StartOnlyWrite
    <2> QED
      BY <2>3, WakeFailed
  <1> QED
    BY <1>2, <1>3

LEMMA HandleWriteWake ==
    ASSUME TypeOK, QueueInv, WakeInv, NEW i \in DOMAIN writes, handle_write(i)
    PROVE  WakeInv'
  <1>1. i = 1 /\ DOMAIN writes = {1} /\ writes[1] \in Write /\ starts' = starts
    BY OnlyIndex DEF QueueInv, handle_write
  <1>2. RemoveAt(writes, i) = << >>
    BY RemoveOnly DEF TypeOK, QueueInv, WriteSerialized
  <1>3. CASE writes[i].st = "failed"
    <2>1. starts <= 1 => broken' /\ broken
      BY <1>3 DEF handle_write, WakeInv
    <2>2. pc'[RunThread].at = "stop"
      <3>1. At(RunThread, "stop") /\ RunThread \in Procs
        BY <1>3 DEF handle_write, Procs
      <3> QED
        BY <3>1, MoveAt DEF PcAt
    <2>3. writes' = << >>
      BY <1>2, <1>3 DEF handle_write
    <2> QED
      BY <1>1, <2>1, <2>2, <2>3 DEF WakeInv
  <1>4. CASE writes[i].st = "done"
    <2>1. ~broken
      BY <1>4 DEF QueueInv, WriteInv
    <2>2. PICK elem \in {<< >>} \cup {<<b>> : b \in Buf} :
            /\ get_next_element(elem)
            /\ \/ elem = << >> /\ writes' = << >> /\ UNCHANGED broken
               \/ elem # << >> /\ start_write(elem[1], << >>)
      BY <1>2, <1>4 DEF handle_write
    <2>3. CASE elem = << >>
      <3>1. ~broken' /\ (~m_io_started' \/ ~m_write_in_progress')
        <4>1. ~broken'
          BY <2>1, <2>2, <2>3
        <4>2. ~m_io_started' \/ ~m_write_in_progress'
          <5>1. get_next_element(<< >>)
            BY <2>2, <2>3
          <5>2. << >> # << >> <=> FALSE
            OBVIOUS
          <5> QED
            BY <5>1, <5>2 DEF get_next_element
        <4> QED
          BY <4>1, <4>2
      <3>2. writes' = << >>
        BY <2>2, <2>3
      <3> QED
        BY <3>1, <3>2 DEF WakeInv
    <2>4. CASE elem # << >>
      <3>1. elem[1] \in Buf
        BY <2>4
      <3>2. DOMAIN writes' = {1} /\ (broken' <=> writes'[1].st = "failed")
        BY <2>1, <2>2, <2>4, <3>1, StartOnlyWrite
      <3> QED
        BY <3>2, WakeFailed
    <2> QED
      BY <2>3, <2>4
  <1> QED
    BY <1>3, <1>4 DEF handle_write

LEMMA KernelWake ==
    ASSUME TypeOK, QueueInv, WakeInv, NEW i \in DOMAIN writes,
           write_completes(i) \/ write_fails(i)
    PROVE  WakeInv'
  <1>1. i = 1 /\ DOMAIN writes = {1} /\ writes[1] \in Write /\ writes \in Seq(Write)
    BY OnlyIndex DEF QueueInv, TypeOK
  <1>2. PICK st \in {"done", "failed"} :
          /\ writes' = [writes EXCEPT ![1] = Ended(writes[1], st)]
          /\ IF st = "done" THEN UNCHANGED broken ELSE broken'
    BY <1>1 DEF write_completes, write_fails
  <1>3. writes[1].st = "pending" /\ ~broken
    BY <1>1 DEF write_completes, write_fails, QueueInv, WriteInv
  <1>4. Ended(writes[1], st) \in Write /\ Ended(writes[1], st).st = st
    BY <1>1, EndedType
  <1>5. DOMAIN writes' = {1} /\ writes'[1] = Ended(writes[1], st)
    BY <1>1, <1>2, <1>4, ReplaceOnly
  <1> QED
    BY <1>2, <1>3, <1>4, <1>5, WakeFailed

LEMMA WakeStep ==
    ASSUME TypeOK, QueueInv, CloseInv, OnceInv, WakeInv, [Next]_vars
    PROVE  WakeInv'
  <1>1. CASE HandleRead \/ \E i \in DOMAIN reads : read_ends(i)
    <2>1. UNCHANGED <<starts, broken, m_write_in_progress, writes, m_io_started, m_started>>
      BY <1>1 DEF HandleRead, handle_read, read_ends, ioCommonVars, entityVars, histVars
    <2>2. pc[RunThread].at = "stop" => pc'[RunThread].at = "stop"
      BY <1>1 DEF HandleRead, handle_read, read_ends
    <2> QED
      BY <2>1, <2>2, WakeFrame
  <1>2. CASE UNCHANGED vars
    BY <1>2, WakeFrame DEF vars, ioCommonVars, entityVars, histVars
  <1>3. CASE OtherStep \/ \E p \in Procs : start(p)
    BY <1>1, <1>2, <1>3, CallWake DEF OtherStep, AppStep
  <1> QED
    BY <1>3, StepCases, CloseSocketWake, RunSendWake, HandleWriteWake, KernelWake

LEMMA InitWake == Init => WakeInv
  BY DEF Init, IoCommonInit, WakeInv

LEMMA WakeCorrect == Spec => [](QueueInv /\ WakeInv)
  BY InitWake, WakeStep, InitOnce, OnceStep, InitClose, CloseStep, QueueCorrect, TypeCorrect,
     PTL DEF Spec

\* Until a restart a queued buffer has a write outstanding whose handler will
\* fetch it.  (After one it may not: RestartSends.)
THEOREM NoWakeupLost == Spec => []NoLostWakeup
  <1>1. QueueInv /\ WakeInv => NoLostWakeup
    BY DEF QueueInv, IdleInv, WakeInv, NoLostWakeup
  <1> QED
    BY <1>1, WakeCorrect, PTL

\* Until a restart a failed or aborted write stops the entity.
THEOREM FailuresStop == Spec => []FailureStops
  <1>1. WakeInv => FailureStops
    BY DEF WakeInv, FailureStops
  <1> QED
    BY <1>1, WakeCorrect, PTL

=============================================================================
