----------------------------- MODULE MCSumList -----------------------------
(* Values for the TLC run of SumList: three small longs, one negative. *)
EXTENDS SumList

MCLongs == {-2, 1, 2}
=============================================================================
