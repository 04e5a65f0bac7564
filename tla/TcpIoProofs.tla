---------------------------- MODULE TcpIoProofs ----------------------------
(***************************************************************************)
(* Proofs about tcp_io.  What it sends: TcpIo, for every set of buffers    *)
(* and threads and every number of start_io calls.  How it cuts what it    *)
(* reads into messages: MsgFrame, in the last part.                        *)
(***************************************************************************)
EXTENDS TcpIo, MsgFrame, SequenceLemmas

\* Arithmetic on an unsigned word stays in the word.
LEMMA WordType ==
    ASSUME NEW w \in Word, NEW n \in Nat
    PROVE  WordAdd(w, n) \in Word /\ WordSub(w, n) \in Word
  <1>1. \A m \in Nat : m % WordMod \in Word
    BY WordAssumption DEF Word
  <1>2. w + n \in Nat
    BY WordAssumption DEF Word
  <1>3. w + WordMod - (n % WordMod) \in Nat
    <2>1. n % WordMod \in Word
      BY <1>1
    <2> QED
      BY <2>1, WordAssumption DEF Word
  <1> QED
    BY <1>1, <1>2, <1>3 DEF WordAdd, WordSub

\* The output queue keeps its type under push and pop.
LEMMA AddElementType ==
    ASSUME TypeOK, NEW b \in Buf, add_element(b)
    PROVE  m_output_queue' \in Seq(Buf) /\ m_queue_size' \in Word
             /\ m_current_num_bytes' \in Word
  <1>1. Size[b] \in Nat
    BY SizeAssumption
  <1>2. m_output_queue' \in Seq(Buf)
    BY DEF TypeOK, add_element
  <1>3. m_queue_size' \in Word
    BY WordType DEF TypeOK, add_element
  <1>4. m_current_num_bytes' \in Word
    BY <1>1, WordType DEF TypeOK, add_element
  <1> QED
    BY <1>2, <1>3, <1>4

LEMMA OutqGetType ==
    ASSUME TypeOK, NEW elem, outq_get_next_element(elem)
    PROVE  m_output_queue' \in Seq(Buf) /\ m_queue_size' \in Word
             /\ m_current_num_bytes' \in Word
  <1>1. CASE m_output_queue = << >>
    BY <1>1 DEF TypeOK, outq_get_next_element, outqVars
  <1>2. CASE m_output_queue # << >>
    <2>1. Head(m_output_queue) \in Buf /\ Tail(m_output_queue) \in Seq(Buf)
      BY <1>2 DEF TypeOK
    <2>2. Size[Head(m_output_queue)] \in Nat
      BY <2>1, SizeAssumption
    <2> QED
      BY <1>2, <2>1, <2>2, WordType DEF TypeOK, outq_get_next_element
  <1> QED
    BY <1>1, <1>2

\* StartedOp is a state of an operation.
LEMMA StartedOpType == StartedOp \in OpSt
  BY DEF StartedOp, OpSt

LEMMA EndedType ==
    ASSUME NEW w \in Write
    PROVE  Ended(w, "done") \in Write /\ Ended(w, "failed") \in Write
  BY DEF Ended, Write, OpSt

LEMMA StartWriteType ==
    ASSUME TypeOK, NEW b \in Buf, NEW others \in Seq(Write), start_write(b, others)
    PROVE  writes' \in Seq(Write) /\ broken' \in BOOLEAN
  <1>1. [buf |-> b, st |-> StartedOp] \in Write
    BY StartedOpType DEF Write
  <1>2. Append(others, [buf |-> b, st |-> StartedOp]) \in Seq(Write)
    BY <1>1
  <1> QED
    BY <1>2 DEF TypeOK, start_write

-----------------------------------------------------------------------------
(* Type correctness.                                                       *)

LEMMA InitType == Init => TypeOK
  <1> SUFFICES ASSUME Init PROVE TypeOK
    OBVIOUS
  <1>1. m_queue_size \in Word /\ m_current_num_bytes \in Word
    BY WordAssumption DEF Init, IoCommonInit, OutqInit, Word
  <1>2. starts \in 0 .. MaxStarts
    BY StartsAssumption DEF Init
  <1>3. pc \in [Procs -> PcSt]
    BY DEF Init, PcSt
  <1>4. /\ m_output_queue \in Seq(Buf) /\ posted \in Seq(Buf)
        /\ accepted \in Seq(Buf) /\ wire \in Seq(Buf)
    BY DEF Init, IoCommonInit, OutqInit
  <1>5. writes \in Seq(Write) /\ reads \in Seq(OpSt)
    BY DEF Init
  <1> QED
    BY <1>1, <1>2, <1>3, <1>4, <1>5 DEF Init, IoCommonInit, OutqInit, TypeOK

\* A call of the application or the rest of one.
LEMMA CallType ==
    ASSUME TypeOK, NEW p \in Procs,
           \/ \E b \in Buf : send(p, b)
           \/ start_io(p) \/ stop_io(p) \/ InCall(p)
    PROVE  TypeOK'
  <1>1. ASSUME NEW b \in Buf, send(p, b) PROVE TypeOK'
    BY <1>1 DEF TypeOK, send, ioCommonVars, outqVars, histVars
  <1>2. CASE start_io(p)
    <2>1. starts' \in 0 .. MaxStarts
      BY <1>2, StartsAssumption DEF TypeOK, start_io
    <2>2. pc' \in [Procs -> PcSt] /\ m_io_started' \in BOOLEAN
      BY <1>2 DEF TypeOK, start_io, set_io_started, PcSt
    <2> QED
      BY <1>2, <2>1, <2>2 DEF TypeOK, start_io, outqVars, histVars
  <1>3. CASE stop_io(p)
    <2>1. pc' \in [Procs -> PcSt]
      BY <1>3 DEF TypeOK, stop_io, NotifyEntity, PcSt
    <2> QED
      BY <1>3, <2>1 DEF TypeOK, stop_io, ioCommonVars, outqVars, histVars
  <1>4. CASE start_io_setup(p)
    <2>1. pc' \in [Procs -> PcSt]
      BY <1>4 DEF TypeOK, start_io_setup, NotifyEntity, PcSt
    <2>2. reads' \in Seq(OpSt)
      <3>1. reads \in Seq(OpSt)
        BY DEF TypeOK
      <3>2. Append(reads, StartedOp) \in Seq(OpSt)
        BY <3>1, StartedOpType
      <3> QED
        BY <1>4, <3>1, <3>2 DEF start_io_setup, start_read
    <2> QED
      BY <1>4, <2>1, <2>2 DEF TypeOK, start_io_setup, ioCommonVars, outqVars, histVars
  <1>5. CASE close(p)
    <2>1. pc' \in [Procs -> PcSt] /\ m_io_started' \in BOOLEAN
      BY <1>5 DEF TypeOK, close, io_common_stop, PcSt
    <2> QED
      BY <1>5, <2>1 DEF TypeOK, close, outqVars, histVars
  <1>6. CASE close_socket(p)
    <2>1. pc' \in [Procs -> PcSt]
      BY <1>6 DEF TypeOK, close_socket, PcSt
    <2>2. reads' \in Seq(OpSt)
      <3>1. Len(reads) \in Nat /\ DOMAIN reads = 1 .. Len(reads)
        BY DEF TypeOK
      <3>2. \A i \in 1 .. Len(reads) : reads[i] \in OpSt /\ "failed" \in OpSt
        BY DEF TypeOK, OpSt
      <3>3. reads' \in [1 .. Len(reads) -> OpSt]
        BY <1>6, <3>1, <3>2 DEF close_socket
      <3> QED
        BY <3>1, <3>3, MapSeq
    <2>3. writes' \in Seq(Write)
      <3>1. Len(writes) \in Nat /\ DOMAIN writes = 1 .. Len(writes)
        BY DEF TypeOK
      <3>2. \A i \in 1 .. Len(writes) :
              writes[i] \in Write /\ Ended(writes[i], "failed") \in Write
        BY EndedType DEF TypeOK
      <3>3. writes' \in [1 .. Len(writes) -> Write]
        BY <1>6, <3>1, <3>2 DEF close_socket
      <3> QED
        BY <3>1, <3>3, MapSeq
    <2>4. m_socket' = "closed" /\ broken' \in BOOLEAN
      BY <1>6 DEF TypeOK, close_socket
    <2> QED
      BY <1>6, <2>1, <2>2, <2>3, <2>4
      DEF TypeOK, close_socket, ioCommonVars, outqVars
  <1> QED
    BY <1>1, <1>2, <1>3, <1>4, <1>5, <1>6 DEF InCall

\* The io_common part of the two handlers that use it.
LEMMA SetupType ==
    ASSUME TypeOK, NEW b \in Buf, NEW result, start_write_setup(b, result)
    PROVE  /\ m_output_queue' \in Seq(Buf) /\ m_queue_size' \in Word
           /\ m_current_num_bytes' \in Word
           /\ m_io_started' \in BOOLEAN /\ m_write_in_progress' \in BOOLEAN
  <1>1. CASE add_element(b) /\ UNCHANGED <<m_io_started, m_write_in_progress>>
    BY <1>1, AddElementType DEF TypeOK
  <1>2. CASE UNCHANGED <<m_io_started, outqVars>> /\ m_write_in_progress' \in BOOLEAN
    BY <1>2 DEF TypeOK, outqVars
  <1> QED
    BY <1>1, <1>2 DEF TypeOK, start_write_setup

LEMMA GetType ==
    ASSUME TypeOK, NEW elem, get_next_element(elem)
    PROVE  /\ m_output_queue' \in Seq(Buf) /\ m_queue_size' \in Word
           /\ m_current_num_bytes' \in Word
           /\ m_io_started' \in BOOLEAN /\ m_write_in_progress' \in BOOLEAN
  <1>1. CASE outq_get_next_element(elem)
    BY <1>1, OutqGetType DEF TypeOK, get_next_element
  <1>2. CASE UNCHANGED <<m_write_in_progress, outqVars>>
    BY <1>2 DEF TypeOK, outqVars, get_next_element
  <1> QED
    BY <1>1, <1>2 DEF get_next_element

\* A handler of the run thread.
LEMMA RunType ==
    ASSUME TypeOK, RunStep
    PROVE  TypeOK'
  <1>1. CASE run_send
    <2>1. Head(posted) \in Buf /\ Tail(posted) \in Seq(Buf)
      BY <1>1 DEF run_send, TypeOK
    <2>2. PICK result \in BOOLEAN :
            /\ start_write_setup(Head(posted), result)
            /\ \/ result /\ start_write(Head(posted), writes)
               \/ ~result /\ UNCHANGED <<writes, broken>>
      BY <1>1 DEF run_send
    <2>3. writes' \in Seq(Write) /\ broken' \in BOOLEAN
      <3>1. CASE start_write(Head(posted), writes)
        <4>1. writes \in Seq(Write)
          BY DEF TypeOK
        <4> QED
          BY <2>1, <3>1, <4>1, StartWriteType
      <3>2. CASE UNCHANGED <<writes, broken>>
        BY <3>2 DEF TypeOK
      <3> QED
        BY <2>2, <3>1, <3>2
    <2>4. accepted' \in Seq(Buf) /\ posted' \in Seq(Buf)
      BY <1>1, <2>1 DEF TypeOK, run_send
    <2> QED
      BY <1>1, <2>1, <2>2, <2>3, <2>4, SetupType DEF TypeOK, run_send
  <1>2. ASSUME NEW i \in DOMAIN writes, handle_write(i) PROVE TypeOK'
    <2>1. RemoveAt(writes, i) \in Seq(Write)
      BY RemoveAtType DEF TypeOK
    <2>2. CASE writes[i].st = "failed" /\ writes' = RemoveAt(writes, i)
                 /\ UNCHANGED <<ioCommonVars, broken>>
      BY <1>2, <2>1, <2>2 DEF TypeOK, handle_write, ioCommonVars, outqVars
    <2>3. ASSUME NEW elem \in {<< >>} \cup {<<b>> : b \in Buf},
                 get_next_element(elem),
                 \/ elem = << >> /\ writes' = RemoveAt(writes, i) /\ UNCHANGED broken
                 \/ elem # << >> /\ start_write(elem[1], RemoveAt(writes, i))
          PROVE  TypeOK'
      <3>1. writes' \in Seq(Write) /\ broken' \in BOOLEAN
        <4>1. CASE elem = << >>
          BY <2>1, <2>3, <4>1 DEF TypeOK
        <4>2. CASE elem # << >>
          <5>1. elem[1] \in Buf
            BY <4>2
          <5> QED
            BY <2>1, <2>3, <4>2, <5>1, StartWriteType
        <4> QED
          BY <4>1, <4>2
      <3> QED
        BY <1>2, <2>3, <3>1, GetType DEF TypeOK, handle_write
    <2> QED
      BY <1>2, <2>2, <2>3 DEF handle_write
  <1>3. ASSUME NEW i \in DOMAIN reads, handle_read(i) PROVE TypeOK'
    <2>1. RemoveAt(reads, i) \in Seq(OpSt)
      BY RemoveAtType DEF TypeOK
    <2>2. reads' \in Seq(OpSt)
      <3>1. Append(RemoveAt(reads, i), StartedOp) \in Seq(OpSt)
        BY <2>1, StartedOpType
      <3> QED
        BY <1>3, <2>1, <3>1 DEF handle_read, start_read
    <2>3. pc' \in [Procs -> PcSt]
      BY <1>3 DEF TypeOK, handle_read, NotifyEntity, PcSt
    <2> QED
      BY <1>3, <2>2, <2>3 DEF TypeOK, handle_read, ioCommonVars, outqVars, histVars
  <1> QED
    BY <1>1, <1>2, <1>3 DEF RunStep

\* A step of the kernel or of the peer.
LEMMA KernelType ==
    ASSUME TypeOK,
           \/ WriteStep
           \/ \E i \in DOMAIN reads : read_completes(i) \/ read_fails(i)
           \/ peer_goes_down
    PROVE  TypeOK'
  <1>1. ASSUME NEW i \in DOMAIN writes, write_completes(i) PROVE TypeOK'
    <2>1. writes' \in Seq(Write)
      BY <1>1, EndedType, ExceptSeq DEF TypeOK, write_completes
    <2>2. writes[i].buf \in Buf
      <3>1. writes[i] \in Write
        BY <1>1 DEF TypeOK
      <3> QED
        BY <3>1 DEF Write
    <2>3. wire' \in Seq(Buf)
      BY <1>1, <2>2 DEF TypeOK, write_completes
    <2> QED
      BY <1>1, <2>1, <2>3 DEF TypeOK, write_completes, ioCommonVars, outqVars
  <1>2. ASSUME NEW i \in DOMAIN writes, write_fails(i) PROVE TypeOK'
    <2>1. writes' \in Seq(Write)
      BY <1>2, EndedType, ExceptSeq DEF TypeOK, write_fails
    <2> QED
      BY <1>2, <2>1 DEF TypeOK, write_fails, ioCommonVars, outqVars
  <1>3. ASSUME NEW i \in DOMAIN reads, read_completes(i) \/ read_fails(i) PROVE TypeOK'
    <2>0. "done" \in OpSt /\ "failed" \in OpSt
      BY DEF OpSt
    <2>1. reads' \in Seq(OpSt)
      <3>1. /\ [reads EXCEPT ![i] = "done"] \in Seq(OpSt)
            /\ [reads EXCEPT ![i] = "failed"] \in Seq(OpSt)
        BY <1>3, <2>0 DEF TypeOK
      <3> QED
        BY <1>3, <3>1 DEF read_completes, read_fails
    <2> QED
      BY <1>3, <2>1
      DEF TypeOK, read_completes, read_fails, ioCommonVars, outqVars, histVars
  <1>4. CASE peer_goes_down
    BY <1>4 DEF TypeOK, peer_goes_down, ioCommonVars, outqVars, histVars
  <1> QED
    BY <1>1, <1>2, <1>3, <1>4 DEF WriteStep

\* Every reachable state of tcp_io is well typed: the counters are words, an
\* operation is pending, done or failed, a call is at one of its steps.
THEOREM TypeCorrect == Spec => []TypeOK
  <1>1. ASSUME TypeOK, [Next]_vars PROVE TypeOK'
    <2>1. CASE \E t \in Threads : AppStep(t)
      BY <1>1, <2>1, CallType DEF AppStep, Procs
    <2>2. CASE \E p \in Procs : InCall(p)
      BY <1>1, <2>2, CallType
    <2>3. CASE RunStep
      BY <1>1, <2>3, RunType
    <2>4. CASE \/ WriteStep
               \/ \E i \in DOMAIN reads : read_completes(i) \/ read_fails(i)
               \/ peer_goes_down
      BY <1>1, <2>4, KernelType
    <2>5. CASE UNCHANGED vars
      BY <1>1, <2>5 DEF TypeOK, vars, ioCommonVars, outqVars, opVars, histVars
    <2> QED
      BY <1>1, <2>1, <2>2, <2>3, <2>4, <2>5 DEF Next
  <1> QED
    BY <1>1, InitType, PTL DEF Spec

-----------------------------------------------------------------------------
(* A started handler has a read posted.  ReadPosted is inductive as it is: *)
(* the step that ends a read chain puts its thread at close().             *)

LEMMA ReadPostedStep ==
    ASSUME TypeOK, ReadPosted, [Next]_vars
    PROVE  ReadPosted'
  <1> DEFINE Busy(p) == pc[p] \in {"starting", "close_call"}
  <1>1. ASSUME NEW t \in Threads, AppStep(t) PROVE ReadPosted'
    <2>1. t \in Procs
      BY DEF Procs
    <2>2. ASSUME NEW b \in Buf, send(t, b) PROVE ReadPosted'
      BY <2>2 DEF send, ReadPosted, ioCommonVars
    <2>3. CASE start_io(t)
      <3>1. CASE pc' = [pc EXCEPT ![t] = "starting"]
        BY <2>1, <3>1 DEF ReadPosted, TypeOK
      <3>2. CASE UNCHANGED <<m_io_started, pc>>
        BY <2>3, <3>2 DEF ReadPosted, start_io
      <3> QED
        BY <2>3, <3>1, <3>2 DEF start_io
    <2>4. CASE stop_io(t)
      BY <2>1, <2>4 DEF stop_io, NotifyEntity, ReadPosted, TypeOK
    <2> QED
      BY <1>1, <2>2, <2>3, <2>4 DEF AppStep
  <1>2. ASSUME NEW p \in Procs, start_io_setup(p) PROVE ReadPosted'
    <2>1. CASE start_read(reads)
      <3>1. reads \in Seq(OpSt)
        BY DEF TypeOK
      <3>2. reads' # << >>
        BY <2>1, <3>1, StartedOpType DEF start_read
      <3> QED
        BY <3>2 DEF ReadPosted
    <2>2. CASE NotifyEntity(p)
      BY <2>2 DEF NotifyEntity, ReadPosted, TypeOK
    <2> QED
      BY <1>2, <2>1, <2>2 DEF start_io_setup
  <1>3. ASSUME NEW p \in Procs, close(p) PROVE ReadPosted'
    <2>1. ~m_io_started'
      BY <1>3 DEF close, io_common_stop
    <2> QED
      BY <2>1 DEF ReadPosted
  <1>4. ASSUME NEW p \in Procs, close_socket(p) PROVE ReadPosted'
    <2>1. reads # << >> => reads' # << >>
      BY <1>4 DEF close_socket, TypeOK
    <2>2. \A q \in Procs : Busy(q) => Busy(q)'
      BY <1>4 DEF close_socket, TypeOK
    <2>3. m_io_started' = m_io_started
      BY <1>4 DEF close_socket, ioCommonVars
    <2> QED
      BY <2>1, <2>2, <2>3 DEF ReadPosted
  <1>5. ASSUME NEW i \in DOMAIN reads, handle_read(i) PROVE ReadPosted'
    <2>1. CASE NotifyEntity(RunThread)
      BY <2>1 DEF NotifyEntity, ReadPosted, TypeOK, Procs
    <2>2. CASE start_read(RemoveAt(reads, i))
      <3>1. RemoveAt(reads, i) \in Seq(OpSt)
        BY <1>5, RemoveAtType DEF TypeOK
      <3>2. reads' # << >>
        BY <2>2, <3>1, StartedOpType DEF start_read
      <3> QED
        BY <3>2 DEF ReadPosted
    <2> QED
      BY <1>5, <2>1, <2>2 DEF handle_read
  <1>6. ASSUME NEW i \in DOMAIN reads, read_completes(i) \/ read_fails(i) PROVE ReadPosted'
    <2>1. reads' # << >> /\ pc' = pc /\ m_io_started' = m_io_started
      BY <1>6 DEF read_completes, read_fails, TypeOK, ioCommonVars
    <2> QED
      BY <2>1 DEF ReadPosted
  <1>7. CASE run_send \/ \E i \in DOMAIN writes : handle_write(i)
    <2>1. UNCHANGED <<reads, pc, m_io_started>>
      BY <1>7 DEF run_send, handle_write, start_write_setup, get_next_element, ioCommonVars
    <2> QED
      BY <2>1 DEF ReadPosted
  <1>8. CASE WriteStep \/ peer_goes_down \/ UNCHANGED vars
    <2>1. UNCHANGED <<reads, pc, m_io_started>>
      BY <1>8 DEF WriteStep, write_completes, write_fails, peer_goes_down, vars, opVars,
                  ioCommonVars
    <2> QED
      BY <2>1 DEF ReadPosted
  <1> QED
    BY <1>1, <1>2, <1>3, <1>4, <1>5, <1>6, <1>7, <1>8 DEF Next, InCall, RunStep

\* While io is started a read is outstanding, or a thread is about to post one
\* or to close: a started connection never waits with nobody to report an error.
THEOREM ReadAlwaysPosted == Spec => []ReadPosted
  <1>1. Init => ReadPosted
    BY DEF Init, IoCommonInit, ReadPosted
  <1> QED
    BY <1>1, ReadPostedStep, TypeCorrect, PTL DEF Spec
-----------------------------------------------------------------------------
(* Writes are serialized and in order, and TcpIo implements SendChannel.   *)
(* QueueInv is the inductive invariant; only five actions touch the state  *)
(* it speaks of.                                                           *)

queueVars == <<m_write_in_progress, m_output_queue, writes, histVars>>

LEMMA InitQueue == Init => QueueInv
  BY DEF Init, IoCommonInit, OutqInit, QueueInv, WriteSerialized, IdleInv, WriteInv,
         WrittenInv

LEMMA QueueFrame ==
    ASSUME QueueInv, UNCHANGED queueVars
    PROVE  QueueInv'
  BY DEF queueVars, histVars, QueueInv, WriteSerialized, IdleInv, WriteInv,
         WrittenInv, Follows

\* A sequence of length at most one has at most the index 1.
LEMMA OnlyIndex ==
    ASSUME TypeOK, WriteSerialized, NEW i \in DOMAIN writes
    PROVE  i = 1 /\ DOMAIN writes = {1} /\ writes[1] \in Write
  <1>1. i = 1 /\ Len(writes) < 2 /\ Len(writes) >= 1 /\ DOMAIN writes = 1 .. Len(writes)
    BY DEF TypeOK, WriteSerialized
  <1> QED
    BY <1>1 DEF TypeOK

\* A write started with no other outstanding is the only one.
LEMMA StartOnlyWrite ==
    ASSUME TypeOK, NEW b \in Buf, start_write(b, << >>)
    PROVE  /\ Len(writes') <= 1
           /\ DOMAIN writes' = {1}
           /\ writes'[1].buf = b
           /\ writes'[1].st = StartedOp
           /\ StartedOp = "pending" => broken' = broken
           /\ StartedOp # "done"
  <1>1. writes' = <<[buf |-> b, st |-> StartedOp]>>
    BY DEF start_write
  <1>2. Len(writes') <= 1 /\ DOMAIN writes' = {1} /\ writes'[1] = [buf |-> b, st |-> StartedOp]
    BY <1>1
  <1>3. StartedOp = "pending" => m_socket # "closed"
    BY DEF StartedOp
  <1>4. StartedOp = "pending" => broken' = broken
    BY <1>3 DEF TypeOK, start_write
  <1> QED
    BY <1>2, <1>4 DEF StartedOp

\* Accepting one more buffer keeps what is written a prefix.
LEMMA WrittenAppend ==
    ASSUME TypeOK, WrittenInv, NEW b \in Buf,
           accepted' = Append(accepted, b), wire' = wire
    PROVE  WrittenInv'
  BY DEF TypeOK, WrittenInv

\* The handler posted by send: refused, queued behind a write, or written.
LEMMA RunSendQueue ==
    ASSUME TypeOK, QueueInv, run_send
    PROVE  QueueInv'
  <1> DEFINE b == Head(posted)
  <1>1. b \in Buf
    BY DEF TypeOK, run_send
  <1>2. wire' = wire
    BY DEF run_send
  <1>3. CASE ~m_io_started
    <2>1. UNCHANGED queueVars
      BY <1>3 DEF run_send, start_write_setup, outqVars, queueVars, histVars
    <2> QED
      BY <2>1, QueueFrame
  <1>4. CASE m_io_started /\ m_write_in_progress
    <2>1. /\ accepted' = Append(accepted, b)
          /\ m_output_queue' = Append(m_output_queue, b)
          /\ UNCHANGED <<m_write_in_progress, writes, broken>>
      BY <1>4 DEF run_send, start_write_setup, add_element
    <2>2. WrittenInv'
      BY <1>1, <1>2, <2>1, WrittenAppend DEF QueueInv
    <2>3. ASSUME NEW n \in Nat, Follows(n) PROVE Follows(n)'
      <3>1. /\ accepted \in Seq(Buf) /\ m_output_queue \in Seq(Buf)
            /\ Len(accepted) = n + Len(m_output_queue)
            /\ \A j \in 1 .. Len(m_output_queue) : accepted[n + j] = m_output_queue[j]
        BY <2>3 DEF Follows, TypeOK
      <3> QED
        BY <1>1, <2>1, <3>1, AppendBoth DEF Follows
    <2>4. WriteInv'
      <3> SUFFICES ASSUME NEW i \in DOMAIN writes
                   PROVE  /\ writes[i].st = "pending" =>
                                /\ ~broken
                                /\ Follows(Len(wire) + 1)'
                                /\ accepted'[Len(wire) + 1] = writes[i].buf
                          /\ writes[i].st = "done" => ~broken /\ Follows(Len(wire))'
        BY <1>2, <2>1 DEF WriteInv, Follows
      <3>1. Len(wire) \in Nat /\ Len(wire) + 1 \in Nat
        BY DEF TypeOK
      <3>2. CASE writes[i].st = "pending"
        <4>1. ~broken /\ Follows(Len(wire) + 1) /\ accepted[Len(wire) + 1] = writes[i].buf
          BY <3>2 DEF QueueInv, WriteInv
        <4>2. accepted'[Len(wire) + 1] = accepted[Len(wire) + 1]
          <5>1. Len(wire) + 1 \in 1 .. Len(accepted)
            BY <4>1 DEF Follows, TypeOK
          <5> QED
            BY <1>1, <2>1, <5>1 DEF TypeOK
        <4>3. (Len(wire) + 1)' = Len(wire) + 1
          BY <1>2
        <4>4. Follows(Len(wire) + 1)'
          BY <1>2, <2>3, <3>1, <4>1 DEF Follows
        <4> QED
          BY <3>2, <4>1, <4>2, <4>4
      <3>3. CASE writes[i].st = "done"
        <4>1. ~broken /\ Follows(Len(wire))
          BY <3>3 DEF QueueInv, WriteInv
        <4>2. Follows(Len(wire))'
          BY <1>2, <2>3, <3>1, <4>1 DEF Follows
        <4> QED
          BY <3>3, <4>1, <4>2
      <3> QED
        BY <3>2, <3>3
    <2>5. m_write_in_progress'
      BY <1>4, <2>1
    <2>6. WriteSerialized'
      BY <2>1 DEF QueueInv, WriteSerialized
    <2> QED
      BY <2>2, <2>4, <2>5, <2>6 DEF QueueInv, IdleInv
  <1>5. CASE m_io_started /\ ~m_write_in_progress
    <2>1. /\ m_output_queue = << >> /\ writes = << >>
          /\ Len(accepted) = Len(wire) /\ ~broken
      BY <1>5 DEF QueueInv, IdleInv
    <2>2. /\ accepted' = Append(accepted, b)
          /\ m_write_in_progress' = TRUE
          /\ m_output_queue' = << >>
          /\ start_write(b, << >>)
      BY <1>5, <2>1 DEF run_send, start_write_setup, outqVars
    <2>3. WrittenInv'
      BY <1>1, <1>2, <2>2, WrittenAppend DEF QueueInv
    <2>4. /\ Len(writes') <= 1 /\ DOMAIN writes' = {1}
          /\ writes'[1].buf = b /\ writes'[1].st # "done"
          /\ writes'[1].st = "pending" => ~broken'
      BY <1>1, <2>1, <2>2, StartOnlyWrite
    <2>5. Len(accepted') = Len(wire') + 1 /\ accepted'[Len(wire') + 1] = b
      BY <1>1, <1>2, <2>1, <2>2 DEF TypeOK
    <2>6. Follows(Len(wire) + 1)'
      BY <1>2, <2>2, <2>5 DEF Follows, TypeOK
    <2>7. WriteInv'
      BY <2>4, <2>5, <2>6 DEF WriteInv
    <2> QED
      BY <2>2, <2>3, <2>4, <2>7 DEF QueueInv, IdleInv, WriteSerialized
  <1> QED
    BY <1>3, <1>4, <1>5

\* handle_write: swallow an error, or go on with the next queued buffer.
LEMMA HandleWriteQueue ==
    ASSUME TypeOK, QueueInv, NEW i \in DOMAIN writes, handle_write(i)
    PROVE  QueueInv'
  <1>1. i = 1 /\ DOMAIN writes = {1} /\ writes[1] \in Write
    BY OnlyIndex DEF QueueInv
  <1>2. RemoveAt(writes, i) = << >>
    BY RemoveOnly DEF TypeOK, QueueInv, WriteSerialized
  <1>3. m_write_in_progress
    BY DEF QueueInv, WriteSerialized, TypeOK
  <1>4. accepted' = accepted /\ wire' = wire
    BY DEF handle_write
  <1>5. WrittenInv'
    BY <1>4 DEF QueueInv, WrittenInv
  <1>6. CASE writes' = << >> /\ m_write_in_progress'
    BY <1>5, <1>6 DEF QueueInv, WriteSerialized, IdleInv, WriteInv
  <1>7. CASE writes[i].st = "failed"
    <2>1. writes' = << >> /\ m_write_in_progress' = m_write_in_progress
      BY <1>2, <1>7 DEF handle_write, ioCommonVars
    <2> QED
      BY <1>3, <1>6, <2>1
  <1>8. CASE writes[i].st = "done"
    <2>1. ~broken /\ Follows(Len(wire))
      BY <1>8 DEF QueueInv, WriteInv
    <2>2. PICK elem \in {<< >>} \cup {<<b>> : b \in Buf} :
            /\ get_next_element(elem)
            /\ \/ elem = << >> /\ writes' = << >> /\ UNCHANGED broken
               \/ elem # << >> /\ start_write(elem[1], << >>)
      BY <1>2, <1>8 DEF handle_write
    <2>3. CASE ~m_io_started
      BY <1>3, <1>6, <2>2, <2>3 DEF get_next_element
    <2>4. CASE m_io_started /\ m_output_queue = << >>
      <3>1. elem = << >> /\ writes' = << >> /\ ~broken' /\ m_output_queue' = << >>
        BY <2>1, <2>2, <2>4 DEF get_next_element, outq_get_next_element, outqVars, TypeOK
      <3>2. Len(accepted) = Len(wire)
        BY <2>1, <2>4 DEF Follows, TypeOK
      <3>3. Len(accepted') = Len(wire')
        BY <1>4, <3>2
      <3> QED
        BY <1>5, <3>1, <3>3 DEF QueueInv, WriteSerialized, IdleInv, WriteInv
    <2>5. CASE m_io_started /\ m_output_queue # << >>
      <3> DEFINE q == m_output_queue
                 b == Head(m_output_queue)
      <3>1. /\ elem = <<b>> /\ q' = Tail(q) /\ m_write_in_progress'
            /\ b \in Buf /\ b = q[1] /\ q \in Seq(Buf) /\ Len(q) >= 1
        <4>1. q \in Seq(Buf) /\ b \in Buf /\ b = q[1] /\ Len(q) >= 1
          BY <2>5 DEF TypeOK
        <4>2. elem = <<b>> /\ q' = Tail(q)
          BY <2>2, <2>5 DEF get_next_element, outq_get_next_element
        <4>3. m_write_in_progress' = (elem # << >>)
          BY <2>2, <2>5 DEF get_next_element
        <4>4. elem # << >>
          BY <4>2
        <4> QED
          BY <4>1, <4>2, <4>3, <4>4
      <3>2. start_write(b, << >>)
        BY <2>2, <3>1
      <3>3. /\ Len(writes') <= 1 /\ DOMAIN writes' = {1}
            /\ writes'[1].buf = b /\ writes'[1].st # "done"
            /\ writes'[1].st = "pending" => ~broken'
        BY <2>1, <3>1, <3>2, StartOnlyWrite
      <3>4. /\ Len(accepted) = Len(wire) + Len(q)
            /\ \A j \in 1 .. Len(q) : accepted[Len(wire) + j] = q[j]
            /\ Len(wire) \in Nat
        BY <2>1 DEF Follows, TypeOK
      <3>5. accepted'[Len(wire') + 1] = b
        BY <1>4, <3>1, <3>4
      <3>6. Follows(Len(wire) + 1)'
        <4>1. Len(Tail(q)) = Len(q) - 1 /\ \A j \in 1 .. Len(q) - 1 : Tail(q)[j] = q[j + 1]
          BY <3>1
        <4>2. Len(accepted) = (Len(wire) + 1) + (Len(q) - 1)
          BY <3>1, <3>4
        <4>3. \A j \in 1 .. Len(q) - 1 : accepted[(Len(wire) + 1) + j] = Tail(q)[j]
          <5> SUFFICES ASSUME NEW j \in 1 .. Len(q) - 1
                       PROVE  accepted[(Len(wire) + 1) + j] = Tail(q)[j]
            OBVIOUS
          <5>1. j + 1 \in 1 .. Len(q) /\ (Len(wire) + 1) + j = Len(wire) + (j + 1)
            BY <3>1, <3>4
          <5> QED
            BY <3>4, <4>1, <5>1
        <4> QED
          BY <1>4, <3>1, <4>1, <4>2, <4>3 DEF Follows
      <3>7. WriteInv'
        BY <3>3, <3>5, <3>6 DEF WriteInv
      <3> QED
        BY <1>5, <3>1, <3>3, <3>7 DEF QueueInv, IdleInv, WriteSerialized
    <2> QED
      BY <2>3, <2>4, <2>5
  <1> QED
    BY <1>7, <1>8 DEF handle_write

\* Closing the socket fails what is pending and touches no buffer.
LEMMA CloseSocketQueue ==
    ASSUME TypeOK, QueueInv, NEW p \in Procs, close_socket(p)
    PROVE  QueueInv'
  <1>1. UNCHANGED <<m_write_in_progress, m_output_queue, accepted, wire>>
    BY DEF close_socket, ioCommonVars, outqVars
  <1>2. DOMAIN writes' = DOMAIN writes /\ Len(writes') = Len(writes)
    BY DEF close_socket, TypeOK
  <1>3. ASSUME NEW i \in DOMAIN writes, writes'[i].st # "failed"
        PROVE  writes'[i] = writes[i] /\ writes[i].st = "done" /\ DOMAIN writes = {1} /\ i = 1
    <2>1. i = 1 /\ DOMAIN writes = {1} /\ writes[1] \in Write
      BY <1>3, OnlyIndex DEF QueueInv
    <2>2. writes[i].st # "pending" /\ writes'[i] = writes[i]
      BY <1>3 DEF close_socket, Ended
    <2> QED
      BY <1>3, <2>1, <2>2 DEF Write, OpSt
  <1>4. ASSUME NEW i \in DOMAIN writes, writes[i].st = "done", DOMAIN writes = {1}, i = 1
        PROVE  broken' = broken
    BY <1>4 DEF close_socket, TypeOK
  <1>5. WriteInv'
    BY <1>1, <1>2, <1>3, <1>4 DEF QueueInv, WriteInv, Follows
  <1>6. writes = << >> => writes' = << >> /\ broken' = broken
    BY DEF close_socket, TypeOK
  <1>7. writes' # << >> => writes # << >>
    BY <1>6
  <1> QED
    BY <1>1, <1>2, <1>5, <1>6, <1>7
    DEF QueueInv, WriteSerialized, IdleInv, WrittenInv

\* The kernel takes the last byte of the outstanding write.
LEMMA WriteCompletesQueue ==
    ASSUME TypeOK, QueueInv, NEW i \in DOMAIN writes, write_completes(i)
    PROVE  QueueInv'
  <1>1. i = 1 /\ DOMAIN writes = {1} /\ writes[1] \in Write
    BY OnlyIndex DEF QueueInv
  <1>2. /\ writes[1].st = "pending"
        /\ wire' = Append(wire, writes[1].buf)
        /\ UNCHANGED <<m_write_in_progress, m_output_queue, accepted, broken>>
    BY <1>1 DEF write_completes, ioCommonVars, outqVars
  <1>3. ~broken /\ Follows(Len(wire) + 1) /\ accepted[Len(wire) + 1] = writes[1].buf
    BY <1>1, <1>2 DEF QueueInv, WriteInv
  <1>4. /\ DOMAIN writes' = {1} /\ Len(writes') = Len(writes) /\ writes'[1].st = "done"
    <2>1. /\ writes' = [writes EXCEPT ![1] = Ended(writes[1], "done")]
          /\ writes \in Seq(Write) /\ Ended(writes[1], "done") \in Write
      BY <1>1, EndedType DEF write_completes, TypeOK
    <2>2. DOMAIN writes' = {1} /\ Len(writes') = Len(writes)
          /\ writes'[1] = Ended(writes[1], "done")
      BY <1>1, <2>1, ReplaceOnly
    <2> QED
      BY <2>2 DEF Ended
  <1>5. m_write_in_progress
    BY <1>1 DEF QueueInv, WriteSerialized
  <1>6. writes[1].buf \in Buf
    BY <1>1 DEF Write
  <1>7. Len(wire') = Len(wire) + 1 /\ wire'[Len(wire) + 1] = writes[1].buf
        /\ \A j \in 1 .. Len(wire) : wire'[j] = wire[j]
    BY <1>2, <1>6 DEF TypeOK
  <1>8. WrittenInv'
    <2>1. Len(wire) + 1 <= Len(accepted)
      BY <1>3 DEF Follows, TypeOK
    <2> QED
      BY <1>2, <1>3, <1>7, <2>1 DEF QueueInv, WrittenInv, TypeOK
  <1>9. WriteInv'
    BY <1>2, <1>3, <1>4, <1>7 DEF WriteInv, Follows
  <1> QED
    BY <1>2, <1>4, <1>5, <1>8, <1>9 DEF QueueInv, WriteSerialized, IdleInv

\* The outstanding write fails, with part of it perhaps written.
LEMMA WriteFailsQueue ==
    ASSUME TypeOK, QueueInv, NEW i \in DOMAIN writes, write_fails(i)
    PROVE  QueueInv'
  <1>1. i = 1 /\ DOMAIN writes = {1} /\ writes[1] \in Write
    BY OnlyIndex DEF QueueInv
  <1>2. UNCHANGED <<m_write_in_progress, m_output_queue, accepted, wire>>
    BY DEF write_fails, ioCommonVars, outqVars
  <1>3. DOMAIN writes' = {1} /\ Len(writes') = Len(writes) /\ writes'[1].st = "failed"
    <2>1. /\ writes' = [writes EXCEPT ![1] = Ended(writes[1], "failed")]
          /\ writes \in Seq(Write) /\ Ended(writes[1], "failed") \in Write
      BY <1>1, EndedType DEF write_fails, TypeOK
    <2>2. DOMAIN writes' = {1} /\ Len(writes') = Len(writes)
          /\ writes'[1] = Ended(writes[1], "failed")
      BY <1>1, <2>1, ReplaceOnly
    <2> QED
      BY <2>2 DEF Ended
  <1>4. m_write_in_progress
    BY <1>1 DEF QueueInv, WriteSerialized
  <1> QED
    BY <1>2, <1>3, <1>4
    DEF QueueInv, WriteSerialized, IdleInv, WriteInv, WrittenInv

\* Everything else leaves the write side alone.
LEMMA OtherQueue ==
    ASSUME QueueInv,
           \/ \E p \in Procs : \/ \E b \in Buf : send(p, b)
                               \/ start_io(p) \/ stop_io(p)
                               \/ start_io_setup(p) \/ close(p)
           \/ \E i \in DOMAIN reads : handle_read(i) \/ read_completes(i) \/ read_fails(i)
           \/ peer_goes_down
           \/ UNCHANGED vars
    PROVE  QueueInv' /\ UNCHANGED queueVars
  <1>1. UNCHANGED queueVars
    BY DEF send, start_io, stop_io, start_io_setup, close, handle_read, read_completes,
           read_fails, peer_goes_down, vars, opVars, histVars, ioCommonVars, outqVars,
           queueVars
  <1> QED
    BY <1>1, QueueFrame

LEMMA QueueStep ==
    ASSUME TypeOK, QueueInv, [Next]_vars
    PROVE  QueueInv'
  <1>1. CASE \E p \in Procs : close_socket(p)
    BY <1>1, CloseSocketQueue
  <1>2. CASE run_send
    BY <1>2, RunSendQueue
  <1>3. CASE \E i \in DOMAIN writes : handle_write(i)
    BY <1>3, HandleWriteQueue
  <1>4. CASE WriteStep
    BY <1>4, WriteCompletesQueue, WriteFailsQueue DEF WriteStep
  <1> QED
    BY <1>1, <1>2, <1>3, <1>4, OtherQueue DEF Next, AppStep, InCall, RunStep, Procs

\* In every reachable state the flag, the outstanding write and the output
\* queue account for every buffer accepted and not yet written.
THEOREM QueueCorrect == Spec => []QueueInv
  BY InitQueue, QueueStep, TypeCorrect, PTL DEF Spec

\* tcp_io never has two async_writes outstanding on its socket: the flag of
\* io_common serializes them whatever threads send, stop and start.
THEOREM WritesSerialized == Spec => []WriteSerialized
  <1>1. QueueInv => WriteSerialized
    BY DEF QueueInv
  <1> QED
    BY <1>1, QueueCorrect, PTL

\* The buffers written are a prefix of the buffers accepted.
THEOREM WrittenInOrder == Spec => []WirePrefix
  <1>1. TypeOK /\ QueueInv => WirePrefix
    <2> SUFFICES ASSUME TypeOK, QueueInv PROVE WirePrefix
      OBVIOUS
    <2>1. /\ Len(wire) <= Len(accepted) /\ wire \in Seq(Buf) /\ accepted \in Seq(Buf)
          /\ \A i \in 1 .. Len(wire) : wire[i] = accepted[i]
      BY DEF QueueInv, WrittenInv, TypeOK
    <2>2. SubSeq(wire, 1, Len(wire)) = SubSeq(accepted, 1, Len(wire))
      BY <2>1
    <2> QED
      BY <2>1, <2>2 DEF WirePrefix, IsPrefix
  <1> QED
    BY <1>1, QueueCorrect, TypeCorrect, PTL

-----------------------------------------------------------------------------
(* The refinement.                                                         *)

\* The one step that writes: the abstract Deliver.
LEMMA CompletesDelivers ==
    ASSUME TypeOK, QueueInv, NEW i \in DOMAIN writes, write_completes(i)
    PROVE  ~broken /\ Channel!Deliver
  <1>1. i = 1 /\ DOMAIN writes = {1} /\ writes[1] \in Write
    BY OnlyIndex DEF QueueInv
  <1>2. ~broken /\ Follows(Len(wire) + 1) /\ accepted[Len(wire) + 1] = writes[i].buf
    BY <1>1 DEF QueueInv, WriteInv, write_completes
  <1>3. Len(wire) < Len(accepted)
    BY <1>2 DEF Follows, TypeOK
  <1> QED
    BY <1>2, <1>3 DEF write_completes, Channel!Deliver

\* A step that accepts and writes nothing breaks the channel or leaves it.
LEMMA BreakOrStutter ==
    ASSUME TypeOK, UNCHANGED <<accepted, wire>>, broken' = broken \/ broken' = TRUE
    PROVE  [Channel!Next]_(Channel!chanVars)
  BY DEF Channel!Next, Channel!Break, Channel!chanVars

LEMMA RunSendAccepts ==
    ASSUME TypeOK, run_send
    PROVE  [Channel!Next]_(Channel!chanVars)
  <1>1. Head(posted) \in Buf
    BY DEF run_send, TypeOK
  <1>2. wire' = wire /\ broken' \in {broken, TRUE}
    BY DEF run_send, start_write, TypeOK
  <1>3. CASE m_io_started
    BY <1>1, <1>2, <1>3 DEF run_send, Channel!Next, Channel!Accept
  <1>4. CASE ~m_io_started
    BY <1>2, <1>4, BreakOrStutter DEF run_send
  <1> QED
    BY <1>3, <1>4

LEMMA ChannelStep ==
    ASSUME TypeOK, QueueInv, [Next]_vars
    PROVE  [Channel!Next]_(Channel!chanVars)
  <1>1. CASE \E p \in Procs : close_socket(p)
    <2>1. UNCHANGED <<accepted, wire>> /\ (broken' = broken \/ broken' = TRUE)
      BY <1>1 DEF close_socket, TypeOK
    <2> QED
      BY <2>1, BreakOrStutter
  <1>2. CASE run_send
    BY <1>2, RunSendAccepts
  <1>3. CASE \E i \in DOMAIN writes : handle_write(i)
    <2>1. UNCHANGED <<accepted, wire>> /\ (broken' = broken \/ broken' = TRUE)
      BY <1>3 DEF handle_write, start_write, TypeOK
    <2> QED
      BY <2>1, BreakOrStutter
  <1>4. CASE \E i \in DOMAIN writes : write_completes(i)
    BY <1>4, CompletesDelivers DEF Channel!Next
  <1>5. CASE \E i \in DOMAIN writes : write_fails(i)
    <2>1. UNCHANGED <<accepted, wire>> /\ broken' = TRUE
      BY <1>5 DEF write_fails
    <2> QED
      BY <2>1, BreakOrStutter
  <1>6. CASE UNCHANGED queueVars
    BY <1>6 DEF queueVars, histVars, Channel!chanVars
  <1> QED
    BY <1>1, <1>2, <1>3, <1>4, <1>5, <1>6, OtherQueue
    DEF Next, AppStep, InCall, RunStep, WriteStep, Procs

\* tcp_io with its queue, flag, handlers and threads implements the channel
\* that delivers in order until it breaks.
THEOREM ImplementsChannel == Spec => ChannelSpec
  <1>1. Init => Channel!Init
    BY DEF Init, Channel!Init
  <1> QED
    BY <1>1, ChannelStep, QueueCorrect, TypeCorrect, PTL DEF Spec, ChannelSpec, Channel!Spec

\* No buffer follows one that failed: handle_write returns on an error with
\* the write-in-progress flag still set, so no later send starts a write.
THEOREM NothingFollowsFailure == Spec => NothingAfterBroken
  <1>1. ASSUME TypeOK, QueueInv, [Next]_vars PROVE broken => wire' = wire
    <2>1. CASE \E i \in DOMAIN writes : write_completes(i)
      BY <1>1, <2>1, CompletesDelivers
    <2>2. CASE wire' = wire
      BY <2>2
    <2>3. CASE \/ \E p \in Procs : close_socket(p)
               \/ run_send
               \/ \E i \in DOMAIN writes : handle_write(i) \/ write_fails(i)
      BY <2>2, <2>3 DEF close_socket, run_send, handle_write, write_fails
    <2>4. CASE UNCHANGED queueVars
      BY <2>4 DEF queueVars, histVars
    <2> QED
      BY <1>1, <2>1, <2>3, <2>4, OtherQueue
      DEF Next, AppStep, InCall, RunStep, WriteStep, Procs
  <1>2. TypeOK /\ QueueInv /\ [Next]_vars => [broken => wire' = wire]_vars
    BY <1>1
  <1> QED
    BY <1>2, QueueCorrect, TypeCorrect, PTL DEF Spec, NothingAfterBroken
-----------------------------------------------------------------------------
(* The statistics: arithmetic modulo the width of a word, and the number of *)
(* bytes in the queue.                                                      *)

LEMMA DivMod ==
    ASSUME NEW M \in Nat \ {0}, NEW a \in Nat
    PROVE  a \div M \in Nat /\ a % M \in 0 .. M - 1 /\ a = M * (a \div M) + (a % M)
  OBVIOUS

\* A number has one remainder.
LEMMA OneRemainder ==
    ASSUME NEW M \in Nat \ {0}, NEW p \in Int, NEW q \in Int, NEW r \in 0 .. M - 1,
           NEW s \in 0 .. M - 1, M * p + r = M * q + s
    PROVE  r = s
  <1>1. M * (p - q) = s - r
    OBVIOUS
  <1>2. p - q < 1 /\ p - q > -1
    BY <1>1
  <1> QED
    BY <1>2

LEMMA RemainderIs ==
    ASSUME NEW M \in Nat \ {0}, NEW a \in Nat, NEW q \in Int, NEW r \in 0 .. M - 1,
           a = M * q + r
    PROVE  a % M = r
  <1>1. PICK p \in Int : p = a \div M
    BY DivMod
  <1>2. PICK s \in 0 .. M - 1 : s = a % M
    BY DivMod
  <1>3. a = M * p + s
    BY <1>1, <1>2, DivMod
  <1>4. M * q + r = M * p + s
    BY <1>3
  <1>5. r = s
    BY <1>4, OneRemainder
  <1> QED
    BY <1>2, <1>5

LEMMA HasRemainder ==
    ASSUME NEW M \in Nat \ {0}, NEW a \in Nat
    PROVE  \E p \in Int, x \in 0 .. M - 1 : x = a % M /\ a = M * p + x
  <1>1. a \div M \in Int /\ a % M \in 0 .. M - 1 /\ a = M * (a \div M) + (a % M)
    BY DivMod
  <1> WITNESS a \div M \in Int, a % M \in 0 .. M - 1
  <1> QED
    BY <1>1

LEMMA ModAdd ==
    ASSUME NEW M \in Nat \ {0}, NEW a \in Nat, NEW n \in Nat
    PROVE  ((a % M) + n) % M = (a + n) % M
  <1>1. PICK p \in Int, x \in 0 .. M - 1 : x = a % M /\ a = M * p + x
    BY HasRemainder
  <1>2. x + n \in Nat /\ a + n \in Nat
    OBVIOUS
  <1>3. PICK q \in Int, r \in 0 .. M - 1 : r = (x + n) % M /\ x + n = M * q + r
    BY <1>2, HasRemainder
  <1>4. M * (p + q) = M * p + M * q /\ p + q \in Int
    OBVIOUS
  <1>5. a + n = M * (p + q) + r
    BY <1>1, <1>3, <1>4
  <1>6. (a + n) % M = r
    BY <1>2, <1>4, <1>5, RemainderIs
  <1> QED
    BY <1>1, <1>3, <1>6

LEMMA ModSub ==
    ASSUME NEW M \in Nat \ {0}, NEW a \in Nat, NEW n \in Nat, n <= a
    PROVE  ((a % M) + M - (n % M)) % M = (a - n) % M
  <1>1. PICK p \in Int, x \in 0 .. M - 1 : x = a % M /\ a = M * p + x
    BY HasRemainder
  <1>2. PICK o \in Int, k \in 0 .. M - 1 : k = n % M /\ n = M * o + k
    BY HasRemainder
  <1>3. x + M - k \in Nat /\ a - n \in Nat
    OBVIOUS
  <1>4. PICK q \in Int, r \in 0 .. M - 1 : r = (x + M - k) % M /\ x + M - k = M * q + r
    BY <1>3, HasRemainder
  <1>5. M * (p - o - 1 + q) = M * p - M * o - M + M * q /\ p - o - 1 + q \in Int
    OBVIOUS
  <1>6. a - n = M * (p - o - 1 + q) + r
    BY <1>1, <1>2, <1>4, <1>5
  <1>7. (a - n) % M = r
    BY <1>3, <1>5, <1>6, RemainderIs
  <1> QED
    BY <1>1, <1>2, <1>4, <1>7

\* f is the local function of TotalBytes, up to n.
IsTotal(f, q, n) ==
    f = [i \in 0 .. n |-> IF i = 0 THEN 0 ELSE f[i - 1] + Size[q[i]]]

\* The recursive definition of total in TotalBytes has a solution ...
LEMMA TotalExists ==
    ASSUME NEW q \in Seq(Buf), NEW n \in Nat
    PROVE  \E f : IsTotal(f, q, n)
  <1> DEFINE T == {m \in Nat : \E f : IsTotal(f, q, m)}
  <1>1. 0 \in T
    <2>1. IsTotal([i \in 0 .. 0 |-> 0], q, 0)
      BY DEF IsTotal
    <2> QED
      BY <2>1
  <1>2. ASSUME NEW m \in Nat, m \in T PROVE m + 1 \in T
    <2>1. PICK f : IsTotal(f, q, m)
      BY <1>2
    <2> DEFINE g == [i \in 0 .. m + 1 |-> IF i = m + 1 THEN f[m] + Size[q[i]] ELSE f[i]]
    <2>2. ASSUME NEW i \in 0 .. m + 1
          PROVE  g[i] = IF i = 0 THEN 0 ELSE g[i - 1] + Size[q[i]]
      <3>1. CASE i = m + 1
        <4>1. g[i - 1] = f[m]
          BY <3>1
        <4> QED
          BY <3>1, <4>1
      <3>2. CASE i # m + 1 /\ i # 0
        <4>1. i \in 0 .. m /\ i - 1 \in 0 .. m /\ i - 1 # m + 1
          BY <3>2
        <4>2. g[i] = f[i] /\ g[i - 1] = f[i - 1]
          BY <4>1, <3>2
        <4> QED
          BY <2>1, <3>2, <4>1, <4>2 DEF IsTotal
      <3>3. CASE i = 0
        <4>1. g[i] = f[0]
          BY <3>3
        <4> QED
          BY <2>1, <3>3, <4>1 DEF IsTotal
      <3> QED
        BY <3>1, <3>2, <3>3
    <2>3. IsTotal(g, q, m + 1)
      BY <2>2 DEF IsTotal
    <2> QED
      BY <2>3
  <1> HIDE DEF T
  <1>3. Nat \subseteq T
    BY <1>1, <1>2, SetInduction
  <1> QED
    BY <1>3 DEF T

\* ... which counts byte after byte.
LEMMA TotalCounts ==
    ASSUME NEW q \in Seq(Buf)
    PROVE  \E f : /\ TotalBytes(q) = f[Len(q)]
                  /\ f[0] = 0
                  /\ \A n \in 1 .. Len(q) : f[n] = f[n - 1] + Size[q[n]]
                  /\ \A n \in 0 .. Len(q) : f[n] \in Nat
  <1>1. Len(q) \in Nat /\ \A n \in 1 .. Len(q) : Size[q[n]] \in Nat
    BY SizeAssumption
  <1>2. \E f : IsTotal(f, q, Len(q))
    BY <1>1, TotalExists
  <1> DEFINE c == CHOOSE f : IsTotal(f, q, Len(q))
  <1>3. IsTotal(c, q, Len(q))
    BY <1>2
  <1>4. TotalBytes(q) = c[Len(q)]
    BY Zenon DEF TotalBytes, IsTotal
  <1> HIDE DEF c
  <1>5. \A n \in 0 .. Len(q) : c[n] = IF n = 0 THEN 0 ELSE c[n - 1] + Size[q[n]]
    BY <1>3, Zenon DEF IsTotal
  <1>6. c[0] = 0 /\ \A n \in 1 .. Len(q) : c[n] = c[n - 1] + Size[q[n]]
    BY <1>1, <1>5
  <1> DEFINE T == {n \in Nat : n <= Len(q) => c[n] \in Nat}
  <1>7. 0 \in T
    BY <1>6
  <1>8. ASSUME NEW n \in Nat, n \in T PROVE n + 1 \in T
    <2>1. CASE n + 1 <= Len(q)
      <3>1. n + 1 \in 1 .. Len(q) /\ (n + 1) - 1 = n /\ c[n] \in Nat
        BY <1>1, <1>8, <2>1
      <3>2. c[n + 1] = c[n] + Size[q[n + 1]] /\ Size[q[n + 1]] \in Nat
        BY <1>1, <1>6, <3>1
      <3> QED
        BY <3>1, <3>2
    <2> QED
      BY <2>1
  <1> HIDE DEF T
  <1>9. Nat \subseteq T
    BY <1>7, <1>8, SetInduction
  <1>10. \A n \in 0 .. Len(q) : c[n] \in Nat
    BY <1>1, <1>9 DEF T
  <1> QED
    BY <1>4, <1>6, <1>10

LEMMA TotalType ==
    ASSUME NEW q \in Seq(Buf)
    PROVE  TotalBytes(q) \in Nat
  <1>1. Len(q) \in 0 .. Len(q)
    OBVIOUS
  <1> QED
    BY <1>1, TotalCounts

\* A buffer at the end adds its size.
LEMMA TotalAppend ==
    ASSUME NEW q \in Seq(Buf), NEW b \in Buf
    PROVE  TotalBytes(Append(q, b)) = TotalBytes(q) + Size[b]
  <1> DEFINE r == Append(q, b)
  <1>1. /\ r \in Seq(Buf) /\ Len(r) = Len(q) + 1 /\ r[Len(q) + 1] = b /\ Len(q) \in Nat
        /\ \A n \in 1 .. Len(q) : r[n] = q[n]
    OBVIOUS
  <1> HIDE DEF r
  <1>2. PICK f : /\ TotalBytes(q) = f[Len(q)]
                 /\ f[0] = 0
                 /\ \A n \in 1 .. Len(q) : f[n] = f[n - 1] + Size[q[n]]
    BY TotalCounts
  <1>3. PICK g : /\ TotalBytes(r) = g[Len(r)]
                 /\ g[0] = 0
                 /\ \A n \in 1 .. Len(r) : g[n] = g[n - 1] + Size[r[n]]
    <2>1. r \in Seq(Buf)
      BY <1>1
    <2> QED
      BY <2>1, TotalCounts
  <1> DEFINE T == {n \in Nat : n <= Len(q) => g[n] = f[n]}
  <1>4. 0 \in T
    BY <1>2, <1>3
  <1>5. ASSUME NEW n \in Nat, n \in T PROVE n + 1 \in T
    <2>1. CASE n + 1 <= Len(q)
      <3>1. /\ n + 1 \in 1 .. Len(q) /\ n + 1 \in 1 .. Len(r) /\ (n + 1) - 1 = n
            /\ g[n] = f[n]
        BY <1>1, <1>5, <2>1
      <3>2. f[n + 1] = f[n] + Size[q[n + 1]] /\ g[n + 1] = g[n] + Size[r[n + 1]]
        BY <1>2, <1>3, <3>1
      <3> QED
        BY <1>1, <3>1, <3>2
    <2> QED
      BY <2>1
  <1> HIDE DEF T
  <1>6. Nat \subseteq T
    BY <1>4, <1>5, SetInduction
  <1>7. g[Len(q)] = f[Len(q)]
    BY <1>1, <1>6 DEF T
  <1>8. Len(q) + 1 \in 1 .. Len(r) /\ (Len(q) + 1) - 1 = Len(q)
    BY <1>1
  <1>9. g[Len(q) + 1] = g[Len(q)] + Size[b]
    BY <1>1, <1>3, <1>8
  <1> QED
    BY <1>1, <1>2, <1>3, <1>7, <1>9 DEF r

\* Without its first buffer the queue has that much less.
LEMMA TotalTail ==
    ASSUME NEW q \in Seq(Buf), q # << >>
    PROVE  TotalBytes(q) = Size[Head(q)] + TotalBytes(Tail(q))
  <1> DEFINE r == Tail(q)
  <1>1. /\ r \in Seq(Buf) /\ Len(q) \in Nat /\ Len(q) > 0 /\ Len(r) = Len(q) - 1
        /\ Head(q) = q[1] /\ q[1] \in Buf
        /\ \A n \in 1 .. Len(r) : r[n] = q[n + 1]
    OBVIOUS
  <1> HIDE DEF r
  <1>2. PICK f : /\ TotalBytes(q) = f[Len(q)]
                 /\ f[0] = 0
                 /\ \A n \in 1 .. Len(q) : f[n] = f[n - 1] + Size[q[n]]
    BY TotalCounts
  <1>3. PICK g : /\ TotalBytes(r) = g[Len(r)]
                 /\ g[0] = 0
                 /\ \A n \in 1 .. Len(r) : g[n] = g[n - 1] + Size[r[n]]
                 /\ \A n \in 0 .. Len(r) : g[n] \in Nat
    BY <1>1, TotalCounts
  <1>4. \A n \in 1 .. Len(q) : Size[q[n]] \in Nat
    BY SizeAssumption
  <1> DEFINE T == {n \in Nat : n <= Len(r) => f[n + 1] = Size[q[1]] + g[n]}
  <1>5. 0 \in T
    <2>1. 1 \in 1 .. Len(q)
      BY <1>1
    <2>2. f[1] = f[0] + Size[q[1]]
      BY <1>2, <2>1
    <2>3. f[1] = Size[q[1]] + g[0]
      BY <1>2, <1>3, <1>4, <2>1, <2>2
    <2> QED
      BY <2>3
  <1>6. ASSUME NEW n \in Nat, n \in T PROVE n + 1 \in T
    <2>1. CASE n + 1 <= Len(r)
      <3>1. /\ n + 1 \in 1 .. Len(r) /\ n + 2 \in 1 .. Len(q) /\ (n + 1) - 1 = n
            /\ (n + 2) - 1 = n + 1 /\ (n + 1) + 1 = n + 2 /\ n \in 0 .. Len(r)
            /\ 1 \in 1 .. Len(q)
            /\ f[n + 1] = Size[q[1]] + g[n]
        BY <1>1, <1>6, <2>1
      <3>2. f[n + 2] = f[n + 1] + Size[q[n + 2]] /\ g[n + 1] = g[n] + Size[q[n + 2]]
        <4>1. f[n + 2] = f[(n + 2) - 1] + Size[q[n + 2]]
          BY <1>2, <3>1, Zenon
        <4>2. g[n + 1] = g[(n + 1) - 1] + Size[r[n + 1]]
          BY <1>3, <3>1, Zenon
        <4>3. r[n + 1] = q[(n + 1) + 1]
          BY <1>1, <3>1, Zenon
        <4> QED
          BY <3>1, <4>1, <4>2, <4>3, Zenon
      <3>3. Size[q[1]] \in Nat /\ Size[q[n + 2]] \in Nat /\ g[n] \in Nat
        BY <1>3, <1>4, <3>1
      <3>4. f[n + 2] = Size[q[1]] + g[n + 1]
        BY <3>1, <3>2, <3>3
      <3> QED
        BY <3>1, <3>4
    <2> QED
      BY <2>1
  <1> HIDE DEF T
  <1>7. Nat \subseteq T
    BY <1>5, <1>6, SetInduction
  <1>8. Len(r) \in T /\ Len(r) \in Nat /\ Len(r) + 1 = Len(q)
    BY <1>1, <1>7
  <1>9. f[Len(r) + 1] = Size[q[1]] + g[Len(r)]
    BY <1>8 DEF T
  <1> QED
    BY <1>1, <1>2, <1>3, <1>8, <1>9 DEF r

\* add_element counts the buffer it appends.
LEMMA AddElementStats ==
    ASSUME TypeOK, StatsAccurate, NEW b \in Buf, add_element(b)
    PROVE  StatsAccurate'
  <1> DEFINE q == m_output_queue
             len == Len(m_output_queue)
             tot == TotalBytes(m_output_queue)
  <1>1. q \in Seq(Buf) /\ len \in Nat /\ tot \in Nat /\ Size[b] \in Nat
    BY TotalType, SizeAssumption DEF TypeOK
  <1>2. Len(m_output_queue') = len + 1 /\ TotalBytes(m_output_queue') = tot + Size[b]
    BY <1>1, TotalAppend DEF add_element
  <1>3. /\ m_queue_size' = ((len % WordMod) + 1) % WordMod
        /\ m_current_num_bytes' = ((tot % WordMod) + Size[b]) % WordMod
    BY DEF StatsAccurate, add_element, WordAdd
  <1> HIDE DEF q, len, tot
  <1>4. /\ ((len % WordMod) + 1) % WordMod = (len + 1) % WordMod
        /\ ((tot % WordMod) + Size[b]) % WordMod = (tot + Size[b]) % WordMod
    BY <1>1, ModAdd, WordAssumption
  <1> QED
    BY <1>2, <1>3, <1>4 DEF StatsAccurate

\* get_next_element takes the front buffer out of both counters.
LEMMA OutqGetStats ==
    ASSUME TypeOK, StatsAccurate, NEW elem, outq_get_next_element(elem)
    PROVE  StatsAccurate'
  <1>1. CASE m_output_queue = << >>
    BY <1>1 DEF StatsAccurate, outq_get_next_element, outqVars
  <1>2. CASE m_output_queue # << >>
    <2> DEFINE len == Len(m_output_queue)
               tot == TotalBytes(m_output_queue)
               n == Size[Head(m_output_queue)]
               rest == TotalBytes(Tail(m_output_queue))
    <2>1. /\ m_output_queue \in Seq(Buf) /\ Head(m_output_queue) \in Buf
          /\ Tail(m_output_queue) \in Seq(Buf)
      BY <1>2 DEF TypeOK
    <2>2. len \in Nat /\ 1 <= len /\ Len(Tail(m_output_queue)) = len - 1
      BY <1>2, <2>1
    <2>3. n \in Nat /\ tot \in Nat /\ rest \in Nat
      BY <2>1, TotalType, SizeAssumption
    <2>4. tot = n + rest
      BY <1>2, <2>1, TotalTail
    <2>5. Len(m_output_queue') = len - 1 /\ TotalBytes(m_output_queue') = rest
      BY <1>2, <2>2 DEF outq_get_next_element
    <2>6. /\ m_queue_size' = ((len % WordMod) + WordMod - (1 % WordMod)) % WordMod
          /\ m_current_num_bytes' = ((tot % WordMod) + WordMod - (n % WordMod)) % WordMod
      BY <1>2 DEF StatsAccurate, outq_get_next_element, WordSub
    <2> HIDE DEF len, tot, n, rest
    <2>7. n <= tot /\ tot - n = rest
      BY <2>3, <2>4
    <2>8. m_queue_size' = (len - 1) % WordMod
      BY <2>2, <2>6, ModSub, WordAssumption
    <2>9. m_current_num_bytes' = (tot - n) % WordMod
      BY <2>3, <2>6, <2>7, ModSub, WordAssumption
    <2> QED
      BY <2>5, <2>7, <2>8, <2>9 DEF StatsAccurate
  <1> QED
    BY <1>1, <1>2

LEMMA StatsStep ==
    ASSUME TypeOK, StatsAccurate, [Next]_vars
    PROVE  StatsAccurate'
  <1>1. CASE UNCHANGED outqVars
    BY <1>1 DEF StatsAccurate, outqVars
  <1>2. CASE run_send
    <2>1. Head(posted) \in Buf
      BY <1>2 DEF run_send, TypeOK
    <2>2. add_element(Head(posted)) \/ UNCHANGED outqVars
      BY <1>2 DEF run_send, start_write_setup
    <2> QED
      BY <1>1, <2>1, <2>2, AddElementStats
  <1>3. CASE \E i \in DOMAIN writes : handle_write(i)
    <2>1. (\E elem : outq_get_next_element(elem)) \/ UNCHANGED outqVars
      BY <1>3 DEF handle_write, get_next_element, ioCommonVars
    <2> QED
      BY <1>1, <2>1, OutqGetStats
  <1>4. CASE \/ \E p \in Procs : \/ \E b \in Buf : send(p, b)
                                 \/ start_io(p) \/ stop_io(p)
                                 \/ start_io_setup(p) \/ close(p) \/ close_socket(p)
             \/ \E i \in DOMAIN reads : handle_read(i) \/ read_completes(i) \/ read_fails(i)
             \/ \E i \in DOMAIN writes : write_completes(i) \/ write_fails(i)
             \/ peer_goes_down
             \/ UNCHANGED vars
    <2>1. UNCHANGED outqVars
      BY <1>4
      DEF send, start_io, stop_io, start_io_setup, close, close_socket, handle_read,
          read_completes, read_fails, write_completes, write_fails, peer_goes_down, vars,
          ioCommonVars
    <2> QED
      BY <1>1, <2>1
  <1> QED
    BY <1>2, <1>3, <1>4 DEF Next, AppStep, InCall, RunStep, WriteStep, Procs

\* get_queue_stats tells the number of buffers and of bytes that wait to be
\* written, modulo the width of a std::size_t: neither counter drifts, however
\* often it wraps.
THEOREM StatsExact == Spec => []StatsAccurate
  <1>1. Init => StatsAccurate
    <2> SUFFICES ASSUME Init PROVE StatsAccurate
      OBVIOUS
    <2>1. m_output_queue = << >> /\ m_queue_size = 0 /\ m_current_num_bytes = 0
      BY DEF Init, IoCommonInit, OutqInit
    <2>2. << >> \in Seq(Buf) /\ Len(<< >>) = 0 /\ 0 % WordMod = 0
      BY WordAssumption
    <2>3. TotalBytes(<< >>) = 0
      BY <2>2, TotalCounts
    <2> QED
      BY <2>1, <2>2, <2>3 DEF StatsAccurate
  <1> QED
    BY <1>1, StatsStep, TypeCorrect, PTL DEF Spec

-----------------------------------------------------------------------------
(* How tcp_io cuts what it reads into messages: proofs about MsgFrame, for *)
(* every number of values of a byte, every delimiter, every read size and  *)
(* any number of messages.                                                 *)

\* What a message tells a reader about its length.
WellFramed(m) ==
    /\ Len(m) > 0
    /\ mode = "header" =>
         /\ Len(m) = HdrSize + decode_variable_len_msg_hdr(m)
         /\ Len(m) >= HdrSize
    /\ mode = "fixed" => Len(m) = FixedSize
    /\ mode = "delimiter" => DelimiterEnd(m) = Len(m)

\* Every message sent does so.
SentInv == \A i \in DOMAIN messages : WellFramed(messages[i])

\* The bytes read and the bytes on their way are the messages not yet delivered.
StreamInv == st = "reading" => Made(m_byte_vec \o unread, messages, Len(delivered))

\* A read has the size of what is still missing of the message.
SizeInv ==
    st = "reading" =>
        /\ mode = "header" => (IF hdr_processed THEN Len(m_byte_vec) = HdrSize
                                                ELSE m_byte_vec = << >>)
        /\ mode = "fixed" => m_byte_vec = << >> /\ need = FixedSize

\* The inductive invariant.
FrameIInv == FrameTypeOK /\ FrameInStep /\ SentInv /\ StreamInv /\ SizeInv

-----------------------------------------------------------------------------
(* The first delimiter.                                                    *)

\* The n-th byte of b is the last of a delimiter.
EndsAt(b, n) ==
    /\ n \in Len(Delimiter) .. Len(b)
    /\ \A j \in 1 .. Len(Delimiter) : b[(n - Len(Delimiter)) + j] = Delimiter[j]

Ends(b) == {n \in Len(Delimiter) .. Len(b) :
              SubSeq(b, n - Len(Delimiter) + 1, n) = Delimiter}

\* The set in the definition of DelimiterEnd.
LEMMA EndsIff ==
    ASSUME NEW b \in Seq(Byte), NEW n
    PROVE  n \in Ends(b) <=> EndsAt(b, n)
  <1> DEFINE l == Len(Delimiter)
  <1>1. Delimiter \in Seq(Byte) /\ l \in Nat /\ l > 0 /\ Len(b) \in Nat
    BY SizesAssumption DEF Byte
  <1>2. ASSUME n \in l .. Len(b)
        PROVE  SubSeq(b, n - l + 1, n) = Delimiter <=>
                 \A j \in 1 .. l : b[(n - l) + j] = Delimiter[j]
    <2> DEFINE u == SubSeq(b, n - l + 1, n)
    <2>1. n - l + 1 \in 1 .. Len(b) /\ n \in Int /\ n <= Len(b) /\ n - l + 1 <= n
      BY <1>1, <1>2
    <2>2. u \in Seq(Byte) /\ Len(u) = l /\ \A j \in 1 .. l : u[j] = b[(n - l + 1) + j - 1]
      BY <1>1, <1>2, <2>1
    <2>3. \A j \in 1 .. l : (n - l + 1) + j - 1 = (n - l) + j
      BY <1>1, <1>2
    <2>4. \A j \in 1 .. l : u[j] = b[(n - l) + j]
      BY <2>2, <2>3
    <2> HIDE DEF u
    <2>5. u = Delimiter <=> \A j \in 1 .. l : u[j] = Delimiter[j]
      BY <1>1, <2>2
    <2> QED
      BY <2>4, <2>5 DEF u
  <1> QED
    BY <1>2 DEF Ends, EndsAt

\* DelimiterEnd is the least of them, 0 if there is none.
LEMMA DelimiterEndIs ==
    ASSUME NEW b \in Seq(Byte)
    PROVE  /\ \A n : EndsAt(b, n) /\ (\A k : EndsAt(b, k) => n <= k) => DelimiterEnd(b) = n
           /\ DelimiterEnd(b) # 0 => EndsAt(b, DelimiterEnd(b))
           /\ \A k : EndsAt(b, k) => DelimiterEnd(b) <= k
  <1>1. DelimiterEnd(b) = IF Ends(b) = {} THEN 0
                          ELSE CHOOSE n \in Ends(b) : \A k \in Ends(b) : n <= k
    BY Zenon DEF DelimiterEnd, Ends
  <1>2. Ends(b) \subseteq Nat
    BY SizesAssumption DEF Ends
  <1>3. \A n : n \in Ends(b) <=> EndsAt(b, n)
    BY EndsIff
  <1>4. CASE Ends(b) = {}
    BY <1>1, <1>3, <1>4
  <1>5. CASE Ends(b) # {}
    <2>1. \E n \in Ends(b) : \A k \in Ends(b) : n <= k
      BY <1>2, <1>5, HasLeast
    <2>2. /\ DelimiterEnd(b) \in Ends(b)
          /\ \A k \in Ends(b) : DelimiterEnd(b) <= k
      BY <1>1, <1>5, <2>1
    <2>3. ASSUME NEW n, n \in Ends(b), \A k \in Ends(b) : n <= k PROVE DelimiterEnd(b) = n
      <3>1. /\ DelimiterEnd(b) <= n /\ n <= DelimiterEnd(b)
            /\ n \in Nat /\ DelimiterEnd(b) \in Nat
        BY <1>2, <2>2, <2>3
      <3> QED
        BY <3>1
    <2> QED
      BY <1>3, <2>2, <2>3
  <1> QED
    BY <1>4, <1>5

\* Once there is a delimiter in the bytes read, it is the end of the first message.
LEMMA DelimiterEndsFirst ==
    ASSUME NEW m \in Seq(Byte), Len(m) > 0, DelimiterEnd(m) = Len(m),
           NEW v \in Seq(Byte), DelimiterEnd(v) > 0,
           \A j \in 1 .. Len(m) : j <= Len(v) => v[j] = m[j]
    PROVE  DelimiterEnd(v) = Len(m) /\ Len(m) <= Len(v)
  <1> DEFINE l == Len(Delimiter)
             n == DelimiterEnd(v)
  <1>1. l \in Nat /\ l > 0 /\ Len(m) \in Nat /\ Len(v) \in Nat
    BY SizesAssumption
  <1>2. EndsAt(m, Len(m)) /\ \A k : EndsAt(m, k) => Len(m) <= k
    BY <1>1, DelimiterEndIs
  <1>3. EndsAt(v, n)
    BY DelimiterEndIs
  <1> HIDE DEF n
  <1>4. n \in l .. Len(v)
    BY <1>3 DEF EndsAt
  <1>5. n >= Len(m)
    <2> SUFFICES ASSUME n < Len(m) PROVE FALSE
      BY <1>1, <1>4
    <2>1. \A j \in 1 .. l : (n - l) + j \in 1 .. Len(m) /\ (n - l) + j <= Len(v)
      BY <1>1, <1>4
    <2>2. \A j \in 1 .. l : m[(n - l) + j] = Delimiter[j]
      BY <1>3, <2>1 DEF EndsAt
    <2>3. EndsAt(m, n)
      BY <1>1, <1>4, <2>2 DEF EndsAt
    <2> QED
      BY <1>1, <1>2, <1>4, <2>3
  <1>6. Len(m) <= Len(v)
    BY <1>1, <1>4, <1>5
  <1>7. EndsAt(v, Len(m))
    <2>1. Len(m) \in l .. Len(m)
      BY <1>2 DEF EndsAt
    <2>2. \A j \in 1 .. l : (Len(m) - l) + j \in 1 .. Len(m) /\ (Len(m) - l) + j <= Len(v)
      BY <1>1, <1>6, <2>1
    <2>3. \A j \in 1 .. l : v[(Len(m) - l) + j] = Delimiter[j]
      BY <1>2, <2>2 DEF EndsAt
    <2>4. Len(m) \in l .. Len(v)
      BY <1>1, <1>6, <2>1
    <2> QED
      BY <2>3, <2>4 DEF EndsAt
  <1>8. n <= Len(m)
    BY <1>7, DelimiterEndIs DEF n
  <1> QED
    BY <1>1, <1>4, <1>5, <1>6, <1>8 DEF n

-----------------------------------------------------------------------------
(* What the peer sends.                                                    *)

\* Two bytes hold the length of a body, and decoding them gives it back.
LEMMA HeaderIsLength ==
    ASSUME NEW n \in 0 .. Base * Base - 1
    PROVE  /\ n \div Base \in Byte /\ n % Base \in Byte
           /\ (n \div Base) * Base + (n % Base) = n
  <1>1. Base \in Nat /\ Base > 1 /\ n \in Nat
    BY BaseAssumption
  <1>2. PICK q \in Nat : q = n \div Base
    BY <1>1
  <1>3. PICK r \in 0 .. Base - 1 : r = n % Base
    BY <1>1
  <1>4. n = Base * q + r
    BY <1>1, <1>2, <1>3
  <1>5. q < Base
    <2> SUFFICES ASSUME q >= Base PROVE FALSE
      BY <1>1
    <2>1. Base * q >= Base * Base
      BY <1>1
    <2> QED
      BY <1>1, <1>4, <2>1
  <1> QED
    BY <1>1, <1>2, <1>3, <1>4, <1>5 DEF Byte

\* What the peer sends tells its length in the way the reader expects.
LEMMA FramedMessage ==
    ASSUME FrameTypeOK, NEW body \in SeqOf(Byte, MaxBody), Sendable(body)
    PROVE  /\ Framed(body) \in Seq(Byte) /\ WellFramed(Framed(body))
           /\ Len(Framed(body)) <= HdrSize + MaxBody + Len(Delimiter)
  <1> DEFINE m == Framed(body)
             n == Len(body)
  <1>1. /\ MaxBody \in Nat /\ MaxBody <= Base * Base - 1 /\ FixedSize \in Nat /\ FixedSize > 0
        /\ Delimiter \in Seq(Byte) /\ Len(Delimiter) \in Nat /\ Len(Delimiter) > 0
        /\ Base \in Nat /\ Base * Base \in Nat
    BY SizesAssumption, BaseAssumption DEF Byte
  <1>2. body \in Seq(Byte) /\ n <= MaxBody /\ n \in Nat
    BY <1>1, SeqOfIs
  <1>3. CASE mode = "header"
    <2> DEFINE hi == n \div Base
               lo == n % Base
    <2>1. n \in 0 .. Base * Base - 1
      BY <1>1, <1>2
    <2>2. hi \in Byte /\ lo \in Byte /\ hi * Base + lo = n
      BY <2>1, HeaderIsLength
    <2>3. m = <<hi, lo>> \o body
      BY <1>3 DEF Framed
    <2> HIDE DEF hi, lo, m
    <2>4. <<hi, lo>> \in Seq(Byte) /\ Len(<<hi, lo>>) = 2
      BY <2>2
    <2>5. m \in Seq(Byte) /\ Len(m) = 2 + n /\ m[1] = hi /\ m[2] = lo
      BY <1>2, <2>2, <2>3, <2>4
    <2>6. decode_variable_len_msg_hdr(m) = n
      BY <2>2, <2>5 DEF decode_variable_len_msg_hdr
    <2>7. WellFramed(m)
      BY <1>2, <1>3, <2>5, <2>6 DEF WellFramed, HdrSize
    <2> QED
      BY <1>1, <1>2, <2>5, <2>7 DEF HdrSize, m
  <1>4. CASE mode = "fixed"
    <2>1. m = body /\ n = FixedSize
      BY <1>4 DEF Framed, Sendable
    <2>3. Len(m) = FixedSize /\ Len(m) > 0
      BY <1>1, <2>1
    <2>4. mode # "header" /\ mode # "delimiter"
      BY <1>4
    <2>2. WellFramed(m)
      BY <1>4, <2>3, <2>4, Zenon DEF WellFramed
    <2> QED
      BY <1>1, <1>2, <2>1, <2>2 DEF HdrSize
  <1>5. CASE mode = "delimiter"
    <2>1. m = body \o Delimiter /\ DelimiterEnd(m) = Len(m)
      BY <1>5 DEF Framed, Sendable
    <2> HIDE DEF m
    <2>2. m \in Seq(Byte) /\ Len(m) = n + Len(Delimiter)
      BY <1>1, <1>2, <2>1
    <2>4. Len(m) > 0
      BY <1>1, <1>2, <2>2
    <2>5. mode # "header" /\ mode # "fixed"
      BY <1>5
    <2>3. WellFramed(m)
      BY <1>5, <2>1, <2>4, <2>5, Zenon DEF WellFramed
    <2> QED
      BY <1>1, <1>2, <2>2, <2>3 DEF HdrSize, m
  <1> QED
    BY <1>3, <1>4, <1>5 DEF FrameTypeOK

-----------------------------------------------------------------------------
(* Steps.                                                                  *)

\* The message handler gets the first message of the stream v \o w.
LEMMA Delivered ==
    ASSUME FrameIInv, EmptyEnds, st = "reading", NEW v \in Seq(Byte),
           NEW w \in Seq(Byte),
           v \o w = m_byte_vec \o unread,
           Len(delivered) + 1 \in 1 .. Len(messages),
           NEW f, f = messages[Len(delivered) + 1], Len(f) <= Len(v),
           \A j \in 1 .. Len(f) : v[j] = f[j],
           unread' = w, UNCHANGED <<mode, messages>>,
           deliver(SubSeq(v, 1, Len(f)), SubSeq(v, Len(f) + 1, Len(v)))
    PROVE  /\ SentInv' /\ StreamInv' /\ Messages!Deliver
           /\ delivered' \in Seq(Seq(Byte)) /\ m_byte_vec' \in Seq(Byte)
           /\ st' \in {"reading", "unhappy"}
           /\ st' = "reading" => m_byte_vec' = SubSeq(v, Len(f) + 1, Len(v))
           /\ mode = "header" /\ Len(f) <= HdrSize => st' = "unhappy"
  <1> DEFINE d == Len(delivered)
             rest == SubSeq(v, Len(f) + 1, Len(v))
  <1>1. /\ messages \in Seq(Seq(Byte)) /\ delivered \in Seq(Seq(Byte))
        /\ m_byte_vec \in Seq(Byte)
        /\ unread \in Seq(Byte)
    BY DEF FrameIInv, FrameTypeOK
  <1>2. f \in Seq(Byte) /\ Len(f) \in 0 .. Len(v) /\ d \in Nat
    BY <1>1
  <1>3. SubSeq(v, 1, Len(f)) = f
    BY <1>2, FirstPart
  <1>4. deliver(f, rest)
    BY <1>3
  <1>5. /\ delivered' = Append(delivered, f)
        /\ st' \in {"reading", "unhappy"}
        /\ m_byte_vec' \in {rest, m_byte_vec} /\ (st' = "reading" => m_byte_vec' = rest)
        /\ mode = "header" /\ Len(f) <= HdrSize => st' = "unhappy"
    BY <1>4 DEF deliver, msg_hdlr
  <1>6. rest \in Seq(Byte)
    BY <1>2
  <1>7. delivered' \in Seq(Seq(Byte)) /\ Len(delivered') = d + 1
    BY <1>1, <1>2, <1>5
  <1>8. SentInv'
    BY DEF FrameIInv, SentInv, WellFramed, Framed, decode_variable_len_msg_hdr
  <1>9. StreamInv'
    <2> SUFFICES ASSUME st' = "reading"
                 PROVE  Made(m_byte_vec' \o unread', messages', Len(delivered'))
      BY DEF StreamInv, Made, CutsAt
    <2>1. Made(v \o w, messages, d)
      BY DEF FrameIInv, StreamInv
    <2>2. Made(rest \o w, messages, d + 1)
      BY <1>1, <2>1, RestIsMade
    <2> QED
      BY <1>5, <1>7, <2>2
  <1>10. Messages!Deliver
    <2>1. d < Len(messages) /\ delivered' = Append(delivered, messages[d + 1])
      BY <1>1, <1>2, <1>5
    <2> QED
      BY <1>5, <2>1 DEF Messages!Deliver
  <1> QED
    BY <1>1, <1>5, <1>6, <1>7, <1>8, <1>9, <1>10

\* The first message that was not delivered, while there are bytes of it.
LEMMA FirstMessage ==
    ASSUME FrameIInv, st = "reading", m_byte_vec \o unread # << >>
    PROVE  \E f \in Seq(Byte) :
             /\ Len(delivered) + 1 \in 1 .. Len(messages) /\ f = messages[Len(delivered) + 1]
             /\ WellFramed(f) /\ Len(f) <= Len(m_byte_vec) + Len(unread)
             /\ \A j \in 1 .. Len(f) : (m_byte_vec \o unread)[j] = f[j]
  <1>1. /\ messages \in Seq(Seq(Byte)) /\ delivered \in Seq(Seq(Byte))
        /\ m_byte_vec \in Seq(Byte)
        /\ unread \in Seq(Byte)
    BY DEF FrameIInv, FrameTypeOK
  <1>2. PICK d \in Nat : d = Len(delivered)
    BY <1>1
  <1>3. PICK s \in Seq(Byte) : s = m_byte_vec \o unread
    <2>1. m_byte_vec \o unread \in Seq(Byte)
      BY <1>1
    <2> QED
      BY <2>1, Zenon
  <1>4. s # << >> /\ Made(s, messages, d)
    BY <1>2, <1>3 DEF FrameIInv, StreamInv
  <1>5. /\ d + 1 \in 1 .. Len(messages) /\ Len(messages[d + 1]) <= Len(s)
        /\ \A j \in 1 .. Len(messages[d + 1]) : s[j] = messages[d + 1][j]
    BY <1>1, <1>4, MadeFirst
  <1>6. messages[d + 1] \in Seq(Byte) /\ WellFramed(messages[d + 1])
    BY <1>1, <1>5 DEF FrameIInv, SentInv
  <1>7. Len(s) = Len(m_byte_vec) + Len(unread)
    BY <1>1, <1>3
  <1> QED
    BY <1>2, <1>3, <1>5, <1>6, <1>7

\* A read that completes the first message.
LEMMA WholeRead ==
    ASSUME FrameIInv, EmptyEnds, st = "reading", need <= Len(unread),
           UNCHANGED <<mode, messages>>,
           Len(delivered) + 1 \in 1 .. Len(messages),
           NEW f \in Seq(Byte), f = messages[Len(delivered) + 1],
           Len(f) = Len(m_byte_vec) + need,
           \A j \in 1 .. Len(f) : (m_byte_vec \o unread)[j] = f[j],
           deliver(m_byte_vec \o SubSeq(unread, 1, need), << >>),
           unread' = SubSeq(unread, need + 1, Len(unread))
    PROVE  /\ SentInv' /\ StreamInv' /\ Messages!Deliver
           /\ delivered' \in Seq(Seq(Byte)) /\ m_byte_vec' \in Seq(Byte)
           /\ unread' \in Seq(Byte)
           /\ st' \in {"reading", "unhappy"}
           /\ st' = "reading" => m_byte_vec' = << >>
           /\ mode = "header" /\ Len(f) <= HdrSize => st' = "unhappy"
  <1>1. m_byte_vec \in Seq(Byte) /\ unread \in Seq(Byte) /\ need \in 0 .. Len(unread)
    BY DEF FrameIInv, FrameTypeOK
  <1>2. PICK k \in 0 .. Len(unread) : k = need
    BY <1>1
  <1>3. PICK v, w : Split(Byte, m_byte_vec, unread, k, v, w)
    BY <1>1, SplitAt
  <1>4. /\ v = m_byte_vec \o SubSeq(unread, 1, need)
        /\ w = SubSeq(unread, need + 1, Len(unread))
        /\ v \in Seq(Byte) /\ w \in Seq(Byte) /\ Len(v) = Len(m_byte_vec) + need
        /\ \A j \in 1 .. Len(v) : v[j] = (m_byte_vec \o unread)[j]
        /\ v \o w = m_byte_vec \o unread
    BY <1>2, <1>3, Zenon DEF Split
  <1>5. Len(f) = Len(v) /\ \A j \in 1 .. Len(f) : v[j] = f[j]
    BY <1>4
  <1>6. Len(f) \in Nat /\ Len(f) <= Len(v)
    BY <1>5
  <1>7. SubSeq(v, 1, Len(f)) = v /\ SubSeq(v, Len(f) + 1, Len(v)) = << >>
    <2>1. SubSeq(v, 1, Len(v)) = v /\ SubSeq(v, Len(v) + 1, Len(v)) = << >>
      <3>1. v \in Seq(Byte)
        BY <1>4
      <3> QED
        BY <3>1
    <2> QED
      BY <1>5, <2>1, Zenon
  <1>8. deliver(SubSeq(v, 1, Len(f)), SubSeq(v, Len(f) + 1, Len(v)))
    BY <1>4, <1>7, Zenon
  <1>9. unread' = w
    BY <1>4, Zenon
  <1>10. /\ v \in Seq(Byte) /\ w \in Seq(Byte) /\ v \o w = m_byte_vec \o unread
         /\ Len(f) <= Len(v) /\ \A j \in 1 .. Len(f) : v[j] = f[j]
    BY <1>4, <1>5, <1>6, Zenon
  <1>11. /\ SentInv' /\ StreamInv' /\ Messages!Deliver
         /\ delivered' \in Seq(Seq(Byte)) /\ m_byte_vec' \in Seq(Byte)
         /\ st' \in {"reading", "unhappy"}
         /\ st' = "reading" => m_byte_vec' = SubSeq(v, Len(f) + 1, Len(v))
         /\ mode = "header" /\ Len(f) <= HdrSize => st' = "unhappy"
    BY <1>8, <1>9, <1>10, Delivered
  <1>12. unread' \in Seq(Byte)
    BY <1>9, <1>10, Zenon
  <1> QED
    BY <1>7, <1>11, <1>12, Zenon

\* A message that is sent goes to the end of the stream.
LEMMA PeerSends ==
    ASSUME FrameIInv, peer_sends
    PROVE  FrameIInv' /\ Messages!Accept
  <1>1. PICK body \in SeqOf(Byte, MaxBody) : /\ Sendable(body)
                                             /\ messages' = Append(messages, Framed(body))
                                             /\ unread' = unread \o Framed(body)
    BY Zenon DEF peer_sends
  <1>2. UNCHANGED <<mode, m_byte_vec, need, hdr_processed, delivered, st>>
    BY DEF peer_sends, frameVars
  <1>3. FrameTypeOK
    BY DEF FrameIInv
  <1>4. PICK m \in Seq(Byte) : /\ m = Framed(body) /\ WellFramed(m)
                               /\ Len(m) <= HdrSize + MaxBody + Len(Delimiter)
    BY <1>1, <1>3, FramedMessage
  <1>5. messages' = Append(messages, m) /\ unread' = unread \o m
    BY <1>1, <1>4
  <1>6. /\ messages \in Seq(Seq(Byte)) /\ delivered \in Seq(Seq(Byte))
        /\ m_byte_vec \in Seq(Byte)
        /\ unread \in Seq(Byte)
    BY <1>3 DEF FrameTypeOK
  <1>7. FrameTypeOK'
    <2>1. messages' \in Seq(Seq(Byte)) /\ unread' \in Seq(Byte)
      BY <1>5, <1>6
    <2> QED
      BY <1>2, <1>3, <2>1 DEF FrameTypeOK, Byte
  <1>8. FrameInStep' /\ SizeInv'
    BY <1>2 DEF FrameIInv, FrameInStep, SizeInv, decode_variable_len_msg_hdr
  <1>9. SentInv'
    <2>1. /\ Len(messages) \in Nat /\ DOMAIN messages = 1 .. Len(messages)
          /\ DOMAIN messages' = 1 .. Len(messages) + 1
          /\ messages'[Len(messages) + 1] = m
          /\ \A i \in 1 .. Len(messages) : messages'[i] = messages[i]
      BY <1>5, <1>6
    <2>2. \A i \in 1 .. Len(messages) + 1 : i \in 1 .. Len(messages) \/ i = Len(messages) + 1
      BY <2>1
    <2>3. \A i \in DOMAIN messages' : WellFramed(messages'[i])
      BY <1>4, <2>1, <2>2 DEF FrameIInv, SentInv
    <2> QED
      BY <1>2, <2>3 DEF SentInv, WellFramed, decode_variable_len_msg_hdr
  <1>10. StreamInv'
    <2> SUFFICES ASSUME st' = "reading"
                 PROVE  Made(m_byte_vec' \o unread', messages', Len(delivered'))
      BY DEF StreamInv, Made, CutsAt
    <2>1. PICK s \in Seq(Byte) : s = m_byte_vec \o unread
      <3>1. m_byte_vec \o unread \in Seq(Byte)
        BY <1>6
      <3> QED
        BY <3>1, Zenon
    <2>2. Made(s, messages, Len(delivered))
      BY <1>2, <2>1 DEF FrameIInv, StreamInv
    <2>3. Made(s \o m, Append(messages, m), Len(delivered))
      BY <1>6, <2>2, MadeAppend
    <2>4. s \o m = m_byte_vec \o (unread \o m)
      BY <1>6, <2>1, ConcatThree
    <2> QED
      BY <1>2, <1>5, <2>3, <2>4, Zenon
  <1>11. Messages!Accept
    <2>1. HdrSize + MaxBody + Len(Delimiter) \in Nat
      BY SizesAssumption, BaseAssumption DEF HdrSize
    <2>2. m \in SeqOf(Byte, HdrSize + MaxBody + Len(Delimiter))
      BY <1>4, <2>1, SeqOfIs
    <2> QED
      BY <1>2, <1>5, <2>2 DEF Messages!Accept
  <1> QED
    BY <1>7, <1>8, <1>9, <1>10, <1>11 DEF FrameIInv

\* The header of a message: either all of an empty message, which ends the
\* connection, or the size of the next read.
LEMMA HeaderRead ==
    ASSUME FrameIInv, EmptyEnds, handle_read_frame, mode = "header", ~hdr_processed
    PROVE  /\ FrameIInv'
           /\ Messages!Deliver \/ UNCHANGED <<messages, delivered, st = "stopped">>
  <1>1. st = "reading" /\ FrameTypeOK /\ Len(unread) >= need /\ UNCHANGED <<mode, messages>>
    BY DEF handle_read_frame, FrameIInv
  <1>2. m_byte_vec = << >> /\ need = 2 /\ unread \in Seq(Byte) /\ hdr_processed' = TRUE
    BY <1>1 DEF FrameIInv, SizeInv, FrameInStep, HdrSize, handle_read_frame,
       FrameTypeOK
  <1>3. PICK k \in 0 .. Len(unread) : k = need
    BY <1>1, <1>2
  <1>11. m_byte_vec \in Seq(Byte) /\ unread \in Seq(Byte)
    BY <1>1 DEF FrameTypeOK
  <1>4. PICK v, w : Split(Byte, m_byte_vec, unread, k, v, w)
    BY <1>11, SplitAt
  <1>5. /\ v \in Seq(Byte) /\ w \in Seq(Byte) /\ Len(v) = 2
        /\ \A j \in 1 .. 2 : v[j] = (m_byte_vec \o unread)[j]
        /\ v \o w = m_byte_vec \o unread
    BY <1>2, <1>3, <1>4 DEF Split
  <1>6. unread' = w /\ v = m_byte_vec \o SubSeq(unread, 1, need) /\ SubSeq(unread, 1, need) = v
    <2>1. unread' = w /\ v = m_byte_vec \o SubSeq(unread, 1, need)
      BY <1>3, <1>4 DEF Split, handle_read_frame
    <2>2. SubSeq(unread, 1, need) \in Seq(Byte)
      BY <1>1, <1>2
    <2> QED
      BY <1>2, <2>1, <2>2
  <1>7. msg_frame(v) = decode_variable_len_msg_hdr(v)
    BY DEF msg_frame
  <1>12. v \in Seq(Byte) /\ Len(v) = 2
    BY <1>5
  <1>8. v[1] \in Byte /\ v[2] \in Byte /\ decode_variable_len_msg_hdr(v) \in Nat
    <2>1. v[1] \in Byte /\ v[2] \in Byte
      <3>1. 1 \in 1 .. Len(v) /\ 2 \in 1 .. Len(v)
        BY <1>12
      <3> QED
        BY <1>12, <3>1, ElementOfSeq, Zenon
    <2>2. Base \in Nat /\ v[1] \in Nat /\ v[2] \in Nat
      BY <2>1, BaseAssumption DEF Byte
    <2> QED
      BY <2>1, <2>2 DEF decode_variable_len_msg_hdr
  <1>9. CASE decode_variable_len_msg_hdr(v) = 0
    <2>1. deliver(m_byte_vec \o SubSeq(unread, 1, need), << >>) /\ need' = 2
      BY <1>6, <1>7, <1>9 DEF handle_read_frame, ReadSize, HdrSize
    <2>2. m_byte_vec \o unread # << >>
      BY <1>1, <1>2
    <2>3. PICK f \in Seq(Byte) :
             /\ Len(delivered) + 1 \in 1 .. Len(messages) /\ f = messages[Len(delivered) + 1]
             /\ WellFramed(f) /\ Len(f) <= Len(m_byte_vec) + Len(unread)
             /\ \A j \in 1 .. Len(f) : (m_byte_vec \o unread)[j] = f[j]
      BY <1>1, <2>2, FirstMessage
    <2>4. Len(f) = 2
      <3>1. Len(f) = 2 + decode_variable_len_msg_hdr(f) /\ Len(f) >= 2 /\ Len(f) \in Nat
        BY <2>3 DEF WellFramed, HdrSize
      <3>4. 1 \in 1 .. Len(f) /\ 2 \in 1 .. Len(f) /\ 1 \in 1 .. 2 /\ 2 \in 1 .. 2
        BY <3>1
      <3>2. f[1] = v[1] /\ f[2] = v[2]
        BY <1>5, <2>3, <3>4, Zenon
      <3>3. decode_variable_len_msg_hdr(f) = 0
        BY <1>9, <3>2 DEF decode_variable_len_msg_hdr
      <3> QED
        BY <3>1, <3>3
    <2>5. Len(f) = Len(m_byte_vec) + need /\ Len(f) <= HdrSize
      BY <1>2, <2>4 DEF HdrSize
    <2>6. need <= Len(unread) /\ unread' = SubSeq(unread, need + 1, Len(unread))
      BY <1>1, <1>2 DEF handle_read_frame
    <2>7. /\ SentInv' /\ StreamInv' /\ Messages!Deliver
          /\ delivered' \in Seq(Seq(Byte)) /\ m_byte_vec' \in Seq(Byte)
          /\ unread' \in Seq(Byte)
          /\ st' = "unhappy"
      BY <1>1, <2>1, <2>3, <2>5, <2>6, WholeRead
    <2>8. FrameTypeOK'
      BY <1>1, <1>2, <2>1, <2>7 DEF FrameTypeOK, Byte
    <2>9. FrameInStep' /\ SizeInv'
      BY <2>7 DEF FrameInStep, SizeInv
    <2> QED
      BY <2>7, <2>8, <2>9 DEF FrameIInv
  <1>10. CASE decode_variable_len_msg_hdr(v) # 0
    <2>1. /\ m_byte_vec' = v /\ need' = decode_variable_len_msg_hdr(v)
          /\ UNCHANGED <<delivered, st>>
      BY <1>6, <1>7, <1>10 DEF handle_read_frame
    <2>2. FrameTypeOK'
      BY <1>1, <1>2, <1>5, <1>6, <1>8, <2>1 DEF FrameTypeOK, Byte
    <2>3. v # << >>
      <3>1. Len(<< >>) # 2
        OBVIOUS
      <3> QED
        BY <1>12, <3>1, Zenon
    <2>4. FrameInStep'
      BY <1>2, <1>8, <1>10, <2>1, <2>3 DEF FrameInStep, decode_variable_len_msg_hdr
    <2>5. SizeInv'
      BY <1>1, <1>2, <1>5, <2>1 DEF SizeInv, HdrSize
    <2>6. SentInv'
      BY <1>1 DEF FrameIInv, SentInv, WellFramed, decode_variable_len_msg_hdr
    <2>7. StreamInv'
      <3>1. Made(v \o w, messages, Len(delivered))
        BY <1>1, <1>5 DEF FrameIInv, StreamInv
      <3> QED
        BY <1>1, <1>6, <2>1, <3>1 DEF StreamInv, Made, CutsAt
    <2> QED
      BY <1>1, <2>1, <2>2, <2>4, <2>5, <2>6, <2>7 DEF FrameIInv
  <1> QED
    BY <1>9, <1>10

\* The body of a message: the header that was read before it gives its size.
LEMMA BodyRead ==
    ASSUME FrameIInv, EmptyEnds, handle_read_frame, mode = "header", hdr_processed
    PROVE  FrameIInv' /\ Messages!Deliver
  <1>1. st = "reading" /\ FrameTypeOK /\ Len(unread) >= need /\ UNCHANGED <<mode, messages>>
    BY DEF handle_read_frame, FrameIInv
  <1>2. /\ m_byte_vec \in Seq(Byte) /\ unread \in Seq(Byte) /\ need \in Nat
        /\ Len(m_byte_vec) = 2 /\ need = decode_variable_len_msg_hdr(m_byte_vec)
        /\ hdr_processed' = FALSE
    BY <1>1 DEF FrameIInv, SizeInv, FrameInStep, HdrSize, handle_read_frame,
       FrameTypeOK
  <1>3. /\ deliver(m_byte_vec \o SubSeq(unread, 1, need), << >>) /\ need' = 2
        /\ need <= Len(unread) /\ unread' = SubSeq(unread, need + 1, Len(unread))
    BY <1>1, <1>2 DEF handle_read_frame, msg_frame, ReadSize, HdrSize
  <1>4. /\ m_byte_vec \o unread # << >>
        /\ \A j \in 1 .. 2 : (m_byte_vec \o unread)[j] = m_byte_vec[j]
    <2>1. m_byte_vec \in Seq(Byte) /\ unread \in Seq(Byte) /\ Len(m_byte_vec) = 2
      BY <1>2
    <2>2. /\ Len(m_byte_vec \o unread) = Len(m_byte_vec) + Len(unread) /\ Len(unread) \in Nat
          /\ \A j \in 1 .. Len(m_byte_vec) : (m_byte_vec \o unread)[j] = m_byte_vec[j]
      <3>1. m_byte_vec \in Seq(Byte) /\ unread \in Seq(Byte)
        BY <2>1
      <3> QED
        BY <3>1
    <2>3. Len(m_byte_vec \o unread) # 0
      BY <2>1, <2>2
    <2>4. m_byte_vec \o unread # << >>
      BY <2>3
    <2> QED
      BY <2>1, <2>2, <2>4, Zenon
  <1>5. PICK f \in Seq(Byte) :
           /\ Len(delivered) + 1 \in 1 .. Len(messages) /\ f = messages[Len(delivered) + 1]
           /\ WellFramed(f) /\ Len(f) <= Len(m_byte_vec) + Len(unread)
           /\ \A j \in 1 .. Len(f) : (m_byte_vec \o unread)[j] = f[j]
    BY <1>1, <1>4, FirstMessage
  <1>6. Len(f) = Len(m_byte_vec) + need
    <2>1. Len(f) = 2 + decode_variable_len_msg_hdr(f) /\ Len(f) >= 2 /\ Len(f) \in Nat
      BY <1>5 DEF WellFramed, HdrSize
    <2>2. 1 \in 1 .. Len(f) /\ 2 \in 1 .. Len(f) /\ 1 \in 1 .. 2 /\ 2 \in 1 .. 2
      BY <2>1
    <2>3. f[1] = m_byte_vec[1] /\ f[2] = m_byte_vec[2]
      BY <1>4, <1>5, <2>2, Zenon
    <2>4. decode_variable_len_msg_hdr(f) = need
      BY <1>2, <2>3 DEF decode_variable_len_msg_hdr
    <2> QED
      BY <1>2, <2>1, <2>4
  <1>7. /\ SentInv' /\ StreamInv' /\ Messages!Deliver
        /\ delivered' \in Seq(Seq(Byte)) /\ m_byte_vec' \in Seq(Byte)
        /\ unread' \in Seq(Byte)
        /\ st' \in {"reading", "unhappy"} /\ (st' = "reading" => m_byte_vec' = << >>)
    BY <1>1, <1>3, <1>5, <1>6, WholeRead
  <1>8. FrameTypeOK'
    BY <1>1, <1>2, <1>3, <1>7 DEF FrameTypeOK, Byte
  <1>9. FrameInStep'
    BY <1>2, <1>3, <1>7 DEF FrameInStep, HdrSize
  <1>10. SizeInv'
    BY <1>1, <1>2, <1>7 DEF SizeInv
  <1> QED
    BY <1>7, <1>8, <1>9, <1>10 DEF FrameIInv

\* A read of the fixed size.
LEMMA FixedRead ==
    ASSUME FrameIInv, EmptyEnds, handle_read_frame, mode = "fixed"
    PROVE  FrameIInv' /\ Messages!Deliver
  <1>1. st = "reading" /\ FrameTypeOK /\ Len(unread) >= need /\ UNCHANGED <<mode, messages>>
    BY DEF handle_read_frame, FrameIInv
  <1>2. /\ unread \in Seq(Byte) /\ need = FixedSize /\ FixedSize \in Nat /\ FixedSize > 0
        /\ m_byte_vec = << >> /\ hdr_processed' = FALSE
    <2>1. FixedSize \in Nat /\ FixedSize > 0
      BY SizesAssumption
    <2> QED
      BY <1>1, <2>1 DEF FrameIInv, SizeInv, handle_read_frame, FrameTypeOK
  <1>3. /\ deliver(m_byte_vec \o SubSeq(unread, 1, need), << >>) /\ need' = FixedSize
        /\ need <= Len(unread) /\ unread' = SubSeq(unread, need + 1, Len(unread))
    BY <1>1, <1>2 DEF handle_read_frame, msg_frame, ReadSize
  <1>4. m_byte_vec \o unread # << >>
    BY <1>1, <1>2
  <1>5. PICK f \in Seq(Byte) :
           /\ Len(delivered) + 1 \in 1 .. Len(messages) /\ f = messages[Len(delivered) + 1]
           /\ WellFramed(f) /\ Len(f) <= Len(m_byte_vec) + Len(unread)
           /\ \A j \in 1 .. Len(f) : (m_byte_vec \o unread)[j] = f[j]
    BY <1>1, <1>4, FirstMessage
  <1>6. Len(f) = Len(m_byte_vec) + need
    BY <1>2, <1>5 DEF WellFramed
  <1>7. /\ SentInv' /\ StreamInv' /\ Messages!Deliver
        /\ delivered' \in Seq(Seq(Byte)) /\ m_byte_vec' \in Seq(Byte)
        /\ unread' \in Seq(Byte)
        /\ st' \in {"reading", "unhappy"} /\ (st' = "reading" => m_byte_vec' = << >>)
    BY <1>1, <1>3, <1>5, <1>6, WholeRead
  <1>8. FrameTypeOK'
    BY <1>1, <1>2, <1>3, <1>7 DEF FrameTypeOK, Byte
  <1>9. FrameInStep' /\ SizeInv'
    BY <1>1, <1>3, <1>7 DEF FrameInStep, SizeInv
  <1> QED
    BY <1>7, <1>8, <1>9 DEF FrameIInv

\* A read up to a delimiter, which may bring in bytes of later messages.
LEMMA DelimiterRead ==
    ASSUME FrameIInv, EmptyEnds, handle_read_until
    PROVE  FrameIInv' /\ Messages!Deliver
  <1>1. /\ st = "reading" /\ mode = "delimiter" /\ FrameTypeOK
        /\ UNCHANGED <<mode, messages, need, hdr_processed>>
    BY DEF handle_read_until, FrameIInv
  <1>2. m_byte_vec \in Seq(Byte) /\ unread \in Seq(Byte)
    BY <1>1 DEF FrameTypeOK
  <1>3. PICK k \in 0 .. Len(unread) :
           LET vec       == m_byte_vec \o SubSeq(unread, 1, k)
               num_bytes == DelimiterEnd(vec)
           IN  /\ Filled(k)
               /\ deliver(SubSeq(vec, 1, num_bytes), SubSeq(vec, num_bytes + 1, Len(vec)))
               /\ unread' = SubSeq(unread, k + 1, Len(unread))
    BY Zenon DEF handle_read_until
  <1>4. PICK v, w : Split(Byte, m_byte_vec, unread, k, v, w)
    BY <1>2, SplitAt
  <1>5. /\ v = m_byte_vec \o SubSeq(unread, 1, k) /\ w = SubSeq(unread, k + 1, Len(unread))
        /\ v \in Seq(Byte) /\ w \in Seq(Byte) /\ Len(v) = Len(m_byte_vec) + k
        /\ \A j \in 1 .. Len(v) : v[j] = (m_byte_vec \o unread)[j]
        /\ v \o w = m_byte_vec \o unread
    BY <1>4 DEF Split
  <1>6. /\ DelimiterEnd(v) > 0 /\ unread' = w

        /\ deliver(SubSeq(v, 1, DelimiterEnd(v)), SubSeq(v, DelimiterEnd(v) + 1, Len(v)))
    BY <1>3, <1>5, Zenon DEF Filled
  <1>7. v \in Seq(Byte) /\ w \in Seq(Byte)
    BY <1>5
  <1>8. m_byte_vec \o unread # << >>
    <2>1. EndsAt(v, DelimiterEnd(v))
      BY <1>6, <1>7, DelimiterEndIs
    <2>2. Len(v) > 0
      <3>1. Len(Delimiter) \in Nat /\ Len(Delimiter) > 0 /\ Len(v) \in Nat
        BY <1>7, SizesAssumption
      <3> QED
        BY <2>1, <3>1 DEF EndsAt
    <2>3. v \o w # << >>
      BY <1>7, <2>2
    <2> QED
      BY <1>5, <2>3, Zenon
  <1>9. PICK f \in Seq(Byte) :
           /\ Len(delivered) + 1 \in 1 .. Len(messages) /\ f = messages[Len(delivered) + 1]
           /\ WellFramed(f) /\ Len(f) <= Len(m_byte_vec) + Len(unread)
           /\ \A j \in 1 .. Len(f) : (m_byte_vec \o unread)[j] = f[j]
    BY <1>1, <1>8, FirstMessage
  <1>10. Len(f) > 0 /\ DelimiterEnd(f) = Len(f)
    BY <1>1, <1>9 DEF WellFramed
  <1>11. \A j \in 1 .. Len(f) : j <= Len(v) => v[j] = f[j]
    <2> SUFFICES ASSUME NEW j \in 1 .. Len(f), j <= Len(v) PROVE v[j] = f[j]
      OBVIOUS
    <2>1. j \in 1 .. Len(v)
      BY <1>7
    <2> QED
      BY <1>5, <1>9, <2>1, Zenon
  <1>12. DelimiterEnd(v) = Len(f) /\ Len(f) <= Len(v)
    BY <1>6, <1>7, <1>10, <1>11, DelimiterEndsFirst
  <1>13. deliver(SubSeq(v, 1, Len(f)), SubSeq(v, Len(f) + 1, Len(v)))
    BY <1>6, <1>12, Zenon
  <1>14. \A j \in 1 .. Len(f) : v[j] = f[j]
    BY <1>7, <1>11, <1>12
  <1>15. v \o w = m_byte_vec \o unread
    BY <1>5
  <1>16. /\ SentInv' /\ StreamInv' /\ Messages!Deliver
         /\ delivered' \in Seq(Seq(Byte)) /\ m_byte_vec' \in Seq(Byte)
         /\ st' \in {"reading", "unhappy"}
    BY <1>1, <1>6, <1>7, <1>9, <1>12, <1>13, <1>14, <1>15, Delivered
  <1>17. FrameTypeOK'
    BY <1>1, <1>6, <1>7, <1>16 DEF FrameTypeOK, Byte
  <1>18. FrameInStep' /\ SizeInv'
    BY <1>1 DEF FrameInStep, SizeInv
  <1> QED
    BY <1>16, <1>17, <1>18 DEF FrameIInv

\* After the teardown nothing is claimed of the stream.
LEMMA Teardown ==
    ASSUME FrameIInv, teardown
    PROVE  FrameIInv' /\ Messages!Break
  <1>1. /\ st' = "stopped"
        /\ UNCHANGED <<mode, messages, unread, m_byte_vec, need, hdr_processed, delivered>>
    BY DEF teardown, frameVars
  <1>2. FrameTypeOK'
    BY <1>1 DEF FrameIInv, FrameTypeOK, Byte
  <1>3. SentInv'
    BY <1>1 DEF FrameIInv, SentInv, WellFramed, decode_variable_len_msg_hdr
  <1>4. FrameInStep' /\ StreamInv' /\ SizeInv'
    BY <1>1 DEF FrameInStep, StreamInv, SizeInv
  <1>5. Messages!Break
    BY <1>1 DEF Messages!Break
  <1> QED
    BY <1>2, <1>3, <1>4, <1>5 DEF FrameIInv

-----------------------------------------------------------------------------
(* Theorems.                                                               *)

\* Both specifications start together ...
LEMMA InitFrame ==
    ASSUME FrameInit
    PROVE  FrameIInv /\ Messages!Init
  <1>1. FrameTypeOK
    <2>2. << >> \in Seq(Byte) /\ << >> \in Seq(Seq(Byte))
      OBVIOUS
    <2>1. ReadSize(mode) \in Nat
      BY SizesAssumption DEF ReadSize, HdrSize
    <2> QED
      BY <2>1, <2>2 DEF FrameInit, FrameTypeOK
  <1>2. FrameInStep /\ SizeInv
    BY DEF FrameInit, FrameInStep, SizeInv, ReadSize, HdrSize
  <1>3. SentInv
    BY DEF FrameInit, SentInv
  <1>4. StreamInv
    <2>1. m_byte_vec \o unread = << >> /\ messages = << >> /\ Len(delivered) = 0
      BY DEF FrameInit
    <2> QED
      BY <2>1, MadeEmpty DEF StreamInv
  <1>5. Messages!Init
    BY DEF FrameInit, Messages!Init
  <1> QED
    BY <1>1, <1>2, <1>3, <1>4, <1>5 DEF FrameIInv

\* ... and every step keeps the invariant and is one of the channel, or none.
LEMMA FrameStep ==
    ASSUME EmptyEnds, FrameIInv, [FrameNext]_streamVars
    PROVE  FrameIInv' /\ [Messages!Next]_(Messages!chanVars)
  <1>1. CASE peer_sends
    BY <1>1, PeerSends DEF Messages!Next
  <1>2. CASE handle_read_frame
    <2>1. mode \in {"header", "fixed"}
      BY <1>2 DEF handle_read_frame, FrameIInv, FrameTypeOK
    <2>2. CASE mode = "header" /\ ~hdr_processed
      BY <1>2, <2>2, HeaderRead DEF Messages!Next, Messages!chanVars
    <2>3. CASE mode = "header" /\ hdr_processed
      BY <1>2, <2>3, BodyRead DEF Messages!Next
    <2>4. CASE mode = "fixed"
      BY <1>2, <2>4, FixedRead DEF Messages!Next
    <2> QED
      BY <2>1, <2>2, <2>3, <2>4
  <1>3. CASE handle_read_until
    BY <1>3, DelimiterRead DEF Messages!Next
  <1>4. CASE teardown
    BY <1>4, Teardown DEF Messages!Next
  <1>5. CASE UNCHANGED streamVars
    <2>1. UNCHANGED <<mode, messages, unread, m_byte_vec, need, hdr_processed, delivered, st>>
      BY <1>5 DEF streamVars, frameVars
    <2>2. FrameTypeOK' /\ FrameInStep' /\ SizeInv'
      BY <2>1 DEF FrameIInv, FrameTypeOK, FrameInStep, SizeInv, Byte,
         decode_variable_len_msg_hdr
    <2>3. SentInv'
      BY <2>1 DEF FrameIInv, SentInv, WellFramed, decode_variable_len_msg_hdr
    <2>4. StreamInv'
      <3> SUFFICES ASSUME st' = "reading"
                   PROVE  Made(m_byte_vec' \o unread', messages', Len(delivered'))
        BY DEF StreamInv, Made, CutsAt
      <3>1. Made(m_byte_vec \o unread, messages, Len(delivered))
        BY <2>1 DEF FrameIInv, StreamInv
      <3> QED
        BY <2>1, <3>1, Zenon
    <2>5. UNCHANGED Messages!chanVars
      BY <2>1 DEF Messages!chanVars
    <2> QED
      BY <2>2, <2>3, <2>4, <2>5 DEF FrameIInv
  <1> QED
    BY <1>1, <1>2, <1>3, <1>4, <1>5 DEF FrameNext, Reader

\* handle_read and the message frame function object stay in step: a header is
\* decoded exactly at the start of a message, and the read that follows it is of
\* the body's size, never 0.  The message handler ends the connection on an empty
\* message, as that of the example does.
THEOREM FramesInStep ==
    ASSUME EmptyEnds
    PROVE  FrameSpec => []FrameInv
  <1>1. FrameIInv => FrameInv
    BY DEF FrameIInv, FrameInv
  <1> QED
    BY <1>1, InitFrame, FrameStep, PTL DEF FrameSpec

\* Reading implements a channel of messages: for every number of values of a byte,
\* every delimiter and every size, the message handler is given the messages the
\* peer sent, whole and in order, however handle_read and handle_read_until get
\* their bytes.
THEOREM WholeMessages ==
    ASSUME EmptyEnds
    PROVE  FrameSpec => MessageChannel
  BY InitFrame, FrameStep, PTL DEF FrameSpec, MessageChannel, Messages!Spec

=============================================================================
