----------------------------- MODULE EraseWhere -----------------------------
(***************************************************************************)
(* utility/erase_where.hpp, which the repository takes from a library: the *)
(* erase-remove idiom on the containers of handlers, entities and handles. *)
(***************************************************************************)
EXTENDS Naturals, Sequences

\* The elements of s that are not in gone, in their order.
EraseWhere(s, gone) ==
    LET kept[n \in 0 .. Len(s)] ==
          IF n = 0 THEN << >>
          ELSE IF s[n] \in gone THEN kept[n - 1] ELSE Append(kept[n - 1], s[n])
    IN  kept[Len(s)]

=============================================================================
