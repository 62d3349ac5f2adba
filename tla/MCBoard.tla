------------------------------ MODULE MCBoard ------------------------------
(***************************************************************************)
(* Runs of the main loop's settings: two configurations, two schedules     *)
(* besides the empty one (with and without a time zone), two time zones.   *)
(***************************************************************************)
EXTENDS Board

MCTz(p) == IF p = "zoned" THEN "CET" ELSE NoZone
=============================================================================
