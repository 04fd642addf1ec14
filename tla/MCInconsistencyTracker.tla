----------------------- MODULE MCInconsistencyTracker -----------------------
(* The tracker with every change of a few versions, nullifying or not.      *)
EXTENDS InconsistencyTracker

MCChange == [version : 0..VersionLimit, nullifying : BOOLEAN]
=============================================================================
