----------------------------- MODULE IoCommon -----------------------------
(***************************************************************************)
(* detail/io_common.hpp: the started flag, the write-in-progress flag and  *)
(* the output queue that tcp_io and udp_entity_io share.  m_io_started is  *)
(* an atomic that any thread may exchange; everything else is touched only *)
(* by handlers of the run thread.                                          *)
(***************************************************************************)
EXTENDS OutputQueue

VARIABLES m_io_started, m_write_in_progress

ioCommonVars == <<m_io_started, m_write_in_progress, outqVars>>

IoCommonInit == /\ m_io_started = FALSE
                /\ m_write_in_progress = FALSE
                /\ OutqInit

\* The successful compare-exchanges.
set_io_started == ~m_io_started /\ m_io_started' = TRUE
io_common_stop == m_io_started /\ m_io_started' = FALSE

start_write_setup_mutNoFlag(buf, result) ==
    /\ UNCHANGED <<m_io_started, m_write_in_progress>>
    /\ \/ ~m_io_started /\ result = FALSE /\ UNCHANGED outqVars
       \/ m_io_started /\ m_write_in_progress /\ result = FALSE /\ add_element(buf)
       \/ m_io_started /\ ~m_write_in_progress /\ result = TRUE /\ UNCHANGED outqVars

\* result tells the caller to start a write of buf itself.
start_write_setup(buf, result) ==
    /\ UNCHANGED m_io_started
    /\ \/ /\ ~m_io_started
          /\ result = FALSE
          /\ UNCHANGED <<m_write_in_progress, outqVars>>
       \/ /\ m_io_started /\ m_write_in_progress
          /\ result = FALSE
          /\ add_element(buf)
          /\ UNCHANGED m_write_in_progress
       \/ /\ m_io_started /\ ~m_write_in_progress
          /\ result = TRUE
          /\ m_write_in_progress' = TRUE
          /\ UNCHANGED outqVars

get_next_element_mutKeepFlag(elem) ==
    /\ UNCHANGED <<m_io_started, m_write_in_progress>>
    /\ \/ ~m_io_started /\ elem = << >> /\ UNCHANGED outqVars
       \/ m_io_started /\ outq_get_next_element(elem)

\* elem is << >> or <<next buffer>>.  A stopped handler leaves the flag alone.
get_next_element(elem) ==
    /\ UNCHANGED m_io_started
    /\ \/ /\ ~m_io_started
          /\ elem = << >>
          /\ UNCHANGED <<m_write_in_progress, outqVars>>
       \/ /\ m_io_started
          /\ outq_get_next_element(elem)
          /\ m_write_in_progress' = (elem # << >>)

=============================================================================
