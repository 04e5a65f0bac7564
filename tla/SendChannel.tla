---------------------------- MODULE SendChannel ----------------------------
(***************************************************************************)
(* What an io handler promises about the buffers it accepts, with no word  *)
(* of queues, flags, callbacks or threads: a first-in first-out channel    *)
(* that may break once and for all.                                        *)
(***************************************************************************)
EXTENDS Naturals, Sequences

CONSTANT Buf

VARIABLES accepted,  \* buffers taken from the application, in order
          wire,      \* buffers sent in full, in order
          broken     \* the channel is lost: nothing more goes out

chanVars == <<accepted, wire, broken>>

Init == accepted = << >> /\ wire = << >> /\ broken = FALSE

Accept == /\ \E b \in Buf : accepted' = Append(accepted, b)
          /\ UNCHANGED wire
          /\ broken' \in {broken, TRUE}

Deliver == /\ ~broken
           /\ Len(wire) < Len(accepted)
           /\ wire' = Append(wire, accepted[Len(wire) + 1])
           /\ UNCHANGED <<accepted, broken>>

Break == broken' = TRUE /\ UNCHANGED <<accepted, wire>>

Next == Accept \/ Deliver \/ Break

Spec == Init /\ [][Next]_chanVars

=============================================================================
