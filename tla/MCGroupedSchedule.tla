-------------------------- MODULE MCGroupedSchedule --------------------------
(* Instances of GroupedSchedule for TLC: the row counts an expert may have. *)
EXTENDS GroupedSchedule

MCRows == {-1, 0, 3}    \* malformed, empty, and a full and a ragged tile
=============================================================================
