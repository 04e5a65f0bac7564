-------------------------- MODULE DatagramChannel --------------------------
(***************************************************************************)
(* What a UDP entity promises about the buffers it accepts, over stops and *)
(* restarts: a first-in first-out channel that a failure breaks, losing    *)
(* what it likes of the buffers not yet sent, until it is opened again.    *)
(***************************************************************************)
EXTENDS Naturals, Sequences

CONSTANT Buf

VARIABLES accepted,  \* buffers taken from the application, in order
          wire,      \* buffers sent in full, in order
          pos,       \* how many of the accepted are sent or lost
          broken,    \* nothing more goes out until the next opening
          session    \* how often the channel was opened

chanVars == <<accepted, wire, pos, broken, session>>

Init == /\ accepted = << >> /\ wire = << >> /\ pos = 0
        /\ broken = FALSE /\ session = 0

\* The channel breaks and loses a few of the next buffers, or none.
Lose == broken' = TRUE /\ pos' \in pos .. Len(accepted')

Accept == /\ \E b \in Buf : accepted' = Append(accepted, b)
          /\ Lose \/ UNCHANGED <<pos, broken>>
          /\ UNCHANGED <<wire, session>>

Break == Lose /\ UNCHANGED <<accepted, wire, session>>

Deliver == /\ ~broken
           /\ pos < Len(accepted)
           /\ wire' = Append(wire, accepted[pos + 1])
           /\ pos' = pos + 1
           /\ UNCHANGED <<accepted, broken, session>>

Reopen == /\ session' = session + 1
          /\ broken' = FALSE
          /\ pos' \in pos .. Len(accepted)
          /\ UNCHANGED <<accepted, wire>>

Next == Accept \/ Break \/ Deliver \/ Reopen

Spec == Init /\ [][Next]_chanVars

=============================================================================
