------------------------------ MODULE MsgFrame ------------------------------
(***************************************************************************)
(* How tcp_io cuts the bytes of a connection into messages: a header that  *)
(* announces the length of a body (component/simple_variable_len_msg_frame *)
(* with the decoder of example/var_len_msg), reads of a fixed size, or     *)
(* reads up to a delimiter.  A peer sends whole messages; the reader knows *)
(* only bytes.  Threads play no part here (see TcpIo): there is one read   *)
(* outstanding, and its handler runs when the bytes it waits for are there.*)
(***************************************************************************)
EXTENDS Integers, SequencesExt

CONSTANTS Base,       \* number of values of a byte (256)
          FixedSize,  \* read_size of a start_io without a message frame
          Delimiter,  \* the bytes that end a message in the delimiter mode
          MaxBody,    \* bound: bytes in a message body
          MaxMsgs,    \* bound: messages the peer sends
          EmptyEnds   \* the message handler returns false on an empty message,
                      \* as that of the example does

ASSUME BaseAssumption == Base \in Nat \ {0, 1}
ASSUME SizesAssumption ==
    /\ FixedSize \in 1 .. MaxBody
    /\ MaxBody \in 1 .. Base * Base - 1
    /\ Delimiter \in Seq(0 .. Base - 1) /\ Delimiter # << >>

VARIABLES mode,           \* the start_io overload that was called
          messages,       \* messages sent by the peer, as bytes, in order
          unread,         \* bytes on their way
          m_byte_vec,     \* bytes read and not yet handed to the application
          need,           \* size of the buffer of the outstanding async_read
          hdr_processed,  \* state of the message frame function object
          delivered,      \* buffers given to the message handler, in order
          st              \* "reading", "unhappy" (message handler), "stopped"

frameVars == <<m_byte_vec, need, hdr_processed>>
streamVars == <<mode, messages, unread, frameVars, delivered, st>>

Byte    == 0 .. Base - 1
HdrSize == 2

FrameTypeOK ==
    /\ mode \in {"header", "fixed", "delimiter"}
    /\ messages \in Seq(Seq(Byte)) /\ delivered \in Seq(Seq(Byte))
    /\ unread \in Seq(Byte) /\ m_byte_vec \in Seq(Byte)
    /\ need \in Nat
    /\ hdr_processed \in BOOLEAN
    /\ st \in {"reading", "unhappy", "stopped"}

\* m_read_size, the size of the first read of a message.
ReadSize(md) == IF md = "header" THEN HdrSize ELSE FixedSize

FrameInit ==
    /\ mode \in {"header", "fixed", "delimiter"}
    /\ messages = << >> /\ unread = << >> /\ delivered = << >>
    /\ m_byte_vec = << >>
    /\ need = ReadSize(mode)
    /\ hdr_processed = FALSE
    /\ st = "reading"

-----------------------------------------------------------------------------
(* The peer.                                                               *)

\* Where the first delimiter in bytes ends, or 0: num_bytes of the handler.
DelimiterEnd(bytes) ==
    LET ends == {n \in Len(Delimiter) .. Len(bytes) :
                   SubSeq(bytes, n - Len(Delimiter) + 1, n) = Delimiter}
    IN  IF ends = {} THEN 0 ELSE CHOOSE n \in ends : \A k \in ends : n <= k

\* The bytes of a message with this body, if it can be sent in this mode.
Framed(body) ==
    CASE mode = "header"    -> <<Len(body) \div Base, Len(body) % Base>> \o body
      [] mode = "fixed"     -> body
      [] mode = "delimiter" -> body \o Delimiter

Sendable(body) ==
    /\ mode = "fixed" => Len(body) = FixedSize
    /\ mode = "delimiter" => DelimiterEnd(Framed(body)) = Len(Framed(body))

peer_sends ==
    /\ Len(messages) < MaxMsgs
    /\ \E body \in SeqOf(Byte, MaxBody) :
         /\ Sendable(body)
         /\ messages' = Append(messages, Framed(body))
         /\ unread' = unread \o Framed(body)
    /\ UNCHANGED <<mode, frameVars, delivered, st>>

-----------------------------------------------------------------------------
(* Message frame and message handler.                                      *)

decode_variable_len_msg_hdr_mutLittle(buf) == buf[2] * Base + buf[1]

\* A big-endian number of two bytes.
decode_variable_len_msg_hdr(buf) == buf[1] * Base + buf[2]

\* What the message frame returns for the bytes just read: the size of the next
\* read, 0 when the message is complete.
msg_frame(buf) ==
    IF mode = "header" /\ ~hdr_processed THEN decode_variable_len_msg_hdr(buf) ELSE 0

\* What the message handler may return for a message.
msg_hdlr(msg) ==
    IF EmptyEnds /\ mode = "header" /\ Len(msg) <= HdrSize THEN {FALSE} ELSE BOOLEAN

\* The message handler gets msg; rest is what stays in m_byte_vec if the next
\* read follows.
deliver(msg, rest) ==
    /\ delivered' = Append(delivered, msg)
    /\ \E happy \in msg_hdlr(msg) :
         /\ st' = IF happy THEN "reading" ELSE "unhappy"
         /\ m_byte_vec' = IF happy THEN rest ELSE m_byte_vec

-----------------------------------------------------------------------------
(* The reader.                                                             *)

handle_read_frame_mutKeepSize ==
    /\ st = "reading" /\ mode # "delimiter"
    /\ Len(unread) >= need
    /\ LET buf == SubSeq(unread, 1, need)
       IN  /\ IF msg_frame(buf) = 0
                THEN deliver(m_byte_vec \o buf, << >>) /\ UNCHANGED need
                ELSE /\ m_byte_vec' = m_byte_vec \o buf
                     /\ need' = msg_frame(buf)
                     /\ UNCHANGED <<delivered, st>>
           /\ unread' = SubSeq(unread, need + 1, Len(unread))
    /\ hdr_processed' = (mode = "header" /\ ~hdr_processed)
    /\ UNCHANGED <<mode, messages>>

\* async_read has filled its buffer of need bytes at the end of m_byte_vec.
handle_read_frame ==
    /\ st = "reading" /\ mode # "delimiter"
    /\ Len(unread) >= need
    /\ LET buf == SubSeq(unread, 1, need)
       IN  /\ IF msg_frame(buf) = 0
                THEN /\ deliver(m_byte_vec \o buf, << >>)
                     /\ need' = ReadSize(mode)
                ELSE /\ m_byte_vec' = m_byte_vec \o buf
                     /\ need' = msg_frame(buf)
                     /\ UNCHANGED <<delivered, st>>
           /\ unread' = SubSeq(unread, need + 1, Len(unread))
    /\ hdr_processed' = (mode = "header" /\ ~hdr_processed)
    /\ UNCHANGED <<mode, messages>>

\* async_read_until appends what arrives until it finds the delimiter, and may
\* read past it; if the delimiter is there already it reads nothing.
Filled(k) ==
    /\ DelimiterEnd(m_byte_vec \o SubSeq(unread, 1, k)) > 0
    /\ DelimiterEnd(m_byte_vec) > 0 => k = 0

handle_read_until_mutClear ==
    /\ st = "reading" /\ mode = "delimiter"
    /\ \E k \in 0 .. Len(unread) :
         LET vec == m_byte_vec \o SubSeq(unread, 1, k)
         IN  /\ Filled(k)
             /\ deliver(SubSeq(vec, 1, DelimiterEnd(vec)), << >>)
             /\ unread' = SubSeq(unread, k + 1, Len(unread))
    /\ UNCHANGED <<mode, messages, need, hdr_processed>>

\* num_bytes is the end of the first delimiter; the bytes after it are kept.
handle_read_until ==
    /\ st = "reading" /\ mode = "delimiter"
    /\ \E k \in 0 .. Len(unread) :
         LET vec       == m_byte_vec \o SubSeq(unread, 1, k)
             num_bytes == DelimiterEnd(vec)
         IN  /\ Filled(k)
             /\ deliver(SubSeq(vec, 1, num_bytes), SubSeq(vec, num_bytes + 1, Len(vec)))
             /\ unread' = SubSeq(unread, k + 1, Len(unread))
    /\ UNCHANGED <<mode, messages, need, hdr_processed>>

\* m_notifier_cb, after a read error (the peer may go at any moment) or an
\* unhappy message handler: no further read.
teardown ==
    /\ st \in {"reading", "unhappy"}
    /\ st' = "stopped"
    /\ UNCHANGED <<mode, messages, unread, frameVars, delivered>>

Reader == handle_read_frame \/ handle_read_until

FrameNext == peer_sends \/ Reader \/ teardown

FrameSpec == FrameInit /\ [][FrameNext]_streamVars

\* A read whose bytes have arrived completes and its handler runs.
FairFrameSpec == FrameSpec /\ WF_streamVars(Reader)

-----------------------------------------------------------------------------
(* Properties.                                                             *)

\* The read size of handle_read and the state of the message frame agree: a
\* header is expected exactly at the start of a message.
FrameInStep ==
    st = "reading" /\ mode = "header" =>
        /\ hdr_processed <=> m_byte_vec # << >>
        /\ need = IF hdr_processed THEN decode_variable_len_msg_hdr(m_byte_vec) ELSE HdrSize
        /\ need > 0

\* Types are kept (a read size is never negative), and handle_read and the message
\* frame stay in step.
FrameInv == FrameTypeOK /\ FrameInStep

\* The reader is a first-in first-out channel of messages: however the bytes
\* arrive, the message handler sees the messages that were sent, whole, in
\* order, each once, and none after the connection is torn down.
Messages == INSTANCE SendChannel WITH
                Buf      <- SeqOf(Byte, HdrSize + MaxBody + Len(Delimiter)),
                accepted <- messages,
                wire     <- delivered,
                broken   <- (st = "stopped")
MessageChannel == Messages!Spec

\* No message stays behind in m_byte_vec or in a read that is too long: each one
\* sent is delivered, unless the connection is torn down.
AllDelivered ==
    \A n \in 1 .. MaxMsgs : (Len(messages) >= n) ~> (Len(delivered) >= n \/ st # "reading")

-----------------------------------------------------------------------------

\* basic_io_interface.hpp, of the message handler: "The buffer (first parameter)
\* always references a full message."
FullMessages ==
    \A i \in DOMAIN delivered : i <= Len(messages) /\ delivered[i] = messages[i]

=============================================================================
