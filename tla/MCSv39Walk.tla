----------------------------- MODULE MCSv39Walk -----------------------------
(***************************************************************************)
(* Sv39Walk with tables of two entries: a virtual page number of Sv39 has  *)
(* three bits, one of a whole word five.  RAM is two pages, which are      *)
(* enough for tables that share a page or point to themselves.             *)
(***************************************************************************)
EXTENDS Sv39Walk

E(flags, p) == [flags |-> flags, ppn |-> p]

\* A table in each page of RAM, a table outside, leaves in RAM and outside, an
\* entry that is not valid and one that is reserved.
WalkEntry == {E({"V"}, 1), E({"V"}, 2), E({"V"}, 3), E({"V", "R", "W"}, 2),
              E({"V", "X"}, 1), E({"V", "R"}, 3), E({"R", "W", "X"}, 1), E({"V", "W", "X"}, 2)}
=============================================================================
