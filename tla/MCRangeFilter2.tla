--------------------------- MODULE MCRangeFilter2 ---------------------------
(* Two timestamps before, two inside and one after the range, so that every *)
(* way of cutting a container of two events by the range edges occurs.      *)
EXTENDS RangeFilter2

MCTs == 0..4
=============================================================================
