--------------------------- MODULE MCScheduleSync ---------------------------
(* One participant that writes a few changes.                               *)
EXTENDS ScheduleSync

MCChange == ItineraryChange
=============================================================================
