---------------------------- MODULE OutputQueue ----------------------------
(***************************************************************************)
(* detail/output_queue.hpp: the buffers accepted by an io handler while a  *)
(* write is outstanding, and the two counters that get_queue_stats reads.  *)
(* A buffer is a model value with a size; the counters are unsigned words  *)
(* and wrap at WordMod (std::size_t, 2^64 in the code, small here).        *)
(* The endpoint that goes with a buffer (UDP) is part of the buffer.       *)
(***************************************************************************)
EXTENDS Naturals, Sequences

CONSTANTS Buf,      \* the buffers
          Size,     \* Size[b]: number of bytes in buffer b
          WordMod   \* number of values of a std::size_t

ASSUME WordAssumption == WordMod \in Nat \ {0}
ASSUME SizeAssumption == Size \in [Buf -> Nat]

VARIABLES m_output_queue, m_queue_size, m_current_num_bytes

outqVars == <<m_output_queue, m_queue_size, m_current_num_bytes>>

Word == 0 .. WordMod - 1

OutqInit == /\ m_output_queue = << >>
            /\ m_queue_size = 0
            /\ m_current_num_bytes = 0

\* ++counter, counter += n and counter -= n on an unsigned word.
WordAdd(w, n) == (w + n) % WordMod
WordSub(w, n) == (w + WordMod - (n % WordMod)) % WordMod

add_element_mutFront(buf) ==
    /\ m_output_queue' = <<buf>> \o m_output_queue
    /\ m_queue_size' = WordAdd(m_queue_size, 1)
    /\ m_current_num_bytes' = WordAdd(m_current_num_bytes, Size[buf])

add_element(buf) ==
    /\ m_output_queue' = Append(m_output_queue, buf)
    /\ m_queue_size' = WordAdd(m_queue_size, 1)
    /\ m_current_num_bytes' = WordAdd(m_current_num_bytes, Size[buf])

outq_get_next_element_mutBytes(elem) ==
    \/ m_output_queue = << >> /\ elem = << >> /\ UNCHANGED outqVars
    \/ /\ m_output_queue # << >>
       /\ elem = <<Head(m_output_queue)>>
       /\ m_output_queue' = Tail(m_output_queue)
       /\ m_queue_size' = WordSub(m_queue_size, 1)
       /\ UNCHANGED m_current_num_bytes

\* elem is the optional the method returns: << >> or <<front>>.
outq_get_next_element(elem) ==
    \/ /\ m_output_queue = << >>
       /\ elem = << >>
       /\ UNCHANGED outqVars
    \/ /\ m_output_queue # << >>
       /\ elem = <<Head(m_output_queue)>>
       /\ m_output_queue' = Tail(m_output_queue)
       /\ m_queue_size' = WordSub(m_queue_size, 1)
       /\ m_current_num_bytes' =
              WordSub(m_current_num_bytes, Size[Head(m_output_queue)])

=============================================================================
