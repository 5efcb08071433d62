------------------------------ MODULE MCSeries ------------------------------
(***************************************************************************)
(* An instance of Series for TLC: eight hours, two of them with two        *)
(* instants.                                                               *)
(***************************************************************************)
EXTENDS Series

(* Hours 0 to 7; the first and the fourth may be measured twice. *)
SomeInstants == {0, 1, 2, 4, 6, 7, 10, 12, 14}

=============================================================================
