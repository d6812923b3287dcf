------------------------------- MODULE MCReader -------------------------------
(***************************************************************************)
(* Payloads long enough for a table with a column, or for a list of lists; *)
(* lengths that are negative, right, and too large; four levels, which     *)
(* such a table needs, instead of 128.                                     *)
(***************************************************************************)
EXTENDS Reader

MCSizes == {0, 1, 8, 19}

MCCounts == {-1, 0, 1, 2, 17}
===============================================================================
