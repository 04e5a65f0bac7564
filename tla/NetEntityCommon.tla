-------------------------- MODULE NetEntityCommon --------------------------
(***************************************************************************)
(* detail/net_entity_common.hpp: the started flag of a net entity and the  *)
(* io state change callback.  The error callback is left out: it is only a *)
(* place where application code runs.                                      *)
(***************************************************************************)
EXTENDS Naturals

CONSTANT Handler   \* identities of the io handlers of the entity

VARIABLES m_started,   \* the entity's atomic flag
          up, down     \* io_state_chg callbacks with true, with false

entityVars == <<m_started>>
chgVars    == <<up, down>>

EntityTypeOK ==
    /\ m_started \in BOOLEAN
    /\ up \in [Handler -> Nat]
    /\ down \in [Handler -> Nat]

EntityInit ==
    /\ m_started = FALSE
    /\ up = [h \in Handler |-> 0]
    /\ down = [h \in Handler |-> 0]

\* The successful exchanges of start and stop.
entity_start == ~m_started /\ m_started' = TRUE
entity_stop  == m_started /\ m_started' = FALSE

call_io_state_chg_cb(h, starting) ==
    IF starting THEN up' = [up EXCEPT ![h] = @ + 1] /\ UNCHANGED down
                ELSE down' = [down EXCEPT ![h] = @ + 1] /\ UNCHANGED up

=============================================================================
